------------------------------- MODULE MemServer -------------------------------
(***************************************************************************)
(* The broker server (mem_broker/mem_server.cc) between two memory-mapped  *)
(* files that outlive it: gateways write requests into the one, the server *)
(* writes replies, knocks and positions into the other.  Four threads (the *)
(* reader of requests, the main loop, the query thread, the watch thread)  *)
(* and the callbacks of the counter's API meet in the broker queue.  The   *)
(* process may die between any two steps; the next one starts from the     *)
(* files.                                                                  *)
(*                                                                         *)
(* The main thread works off one message per step, and a reply with items  *)
(* one item per step: a crash may fall between two frames of one reply.    *)
(* Flow control is off here, so that the queue is first in, first out; its *)
(* order is the subject of FlowControl.  What the riskers and the position *)
(* masters do with the calls they get is the subject of RiskMaster and     *)
(* FutureMaster.  Time is left out: whatever waits for an interval may     *)
(* happen at any moment.                                                   *)
(***************************************************************************)
EXTENDS Integers, Sequences, FiniteSets

CONSTANTS
  Requests,     \* order and withdrawal messages
  Body,         \* for each request, what the checks of utils.cc look at
  Spot,         \* is the account one for stocks (kTradeTypeSpot)?
  Configured,   \* market -> th_tps_limit of opt->flow_controls()
  SH, SZ, NoMarket,
  Knocks,       \* trades and other reports of the counter, of this account
  OthersKnocks, \* those other brokers of the host write into the same file
  MatchNo,      \* knock -> match_no (named after the first knock that has it)
  DateOf,       \* knock -> the day on which it happens
  PageSize,     \* knocks in a reply of the counter
  Codes,
  Plans         \* what may happen outside, and the bounds

AllKnocks == Knocks \cup OthersKnocks

\* What is asked, traded (a sequence of volumes for each code) and held, which queries
\* fall due, does OnStart query the positions; last day, starts, queries under way and
\* failures are the bounds.
PlanType ==
  [requests : SUBSET Requests, knocks : SUBSET AllKnocks,
   volumes : [Codes -> Seq(Nat) \ {<<>>}], due : SUBSET {"knock", "position"},
   init : BOOLEAN, lastDay : Nat, starts : Nat, queries : Nat, failures : Nat]

ASSUME ServerAssumption ==
  /\ Spot \in BOOLEAN
  /\ DateOf \in [AllKnocks -> Nat]
  /\ MatchNo \in [AllKnocks -> AllKnocks]
  /\ Knocks \cap OthersKnocks = {}
  /\ PageSize \in Nat \ {0}
  /\ Plans \subseteq PlanType

VARIABLES
  \* outside
  plan,         \* a member of Plans
  day,
  made,         \* the counter's list of the account's knocks
  moved,        \* code -> how often its volume has changed at the counter
  sent,         \* request -> how often it was handed to the counter
  replied,      \* requests the counter has answered in this session
  queries,      \* queries the counter has not answered
  failures,     \* queries that failed so far
  \* the two files
  reqMem,       \* requests in the order of writing
  consumed,     \* those marked by ConsumeWhere
  stamp,        \* request -> number of starts at the time of its timestamp
  repMem,       \* frames
  \* the process
  up,
  starts,       \* start_time_: the number of the process
  natureDay,    \* nature_day_
  queue,        \* queue_
  knocks,       \* knocks_: internal match numbers seen
  handed,       \* knock -> how often the position masters were given it
  pending,      \* pending_orders_ and pending_withdraws_
  positions,    \* positions_
  nextCursor,   \* next_cursor of knock_context_
  beaten        \* last_heart_beat_ > 0

calendar == <<plan, day>>
counter == <<made, moved>>
session == <<sent, replied>>
asking == <<queries, failures>>
requestFile == <<reqMem, consumed, stamp>>
process == <<up, starts, natureDay>>
memory == <<knocks, handed, pending, positions, nextCursor, beaten>>
vars == <<calendar, counter, session, asking, requestFile, repMem, process, queue, memory>>

-----------------------------------------------------------------------------
(* Messages of the queue, frames of the reply memory.                      *)

TradeReq(r) == [type |-> "TradeReq", id |-> r]
TradeRep(r) == [type |-> "TradeRep", id |-> r]
TradeKnock(k) == [type |-> "TradeKnock", knock |-> k]
KnockQuery(c) == [type |-> "QueryTradeKnockReq", cursor |-> c]
KnockPage(next, items) ==
  [type |-> "QueryTradeKnockRep", next_cursor |-> next, items |-> items]
PositionQuery(init) == [type |-> "QueryTradePositionReq", init |-> init]
PositionPage(init, holdings) ==
  [type |-> "QueryTradePositionRep", init |-> init, holdings |-> holdings]
MonitorRisk == [type |-> "MonitorRisk"]
Signal == [type |-> "InnerCyclicSignal", data |-> ""]

Holding == [code : Codes, volume : Nat, date : Nat]
Query == [type : {"QueryTradeKnockReq"}, cursor : Nat]
           \cup [type : {"QueryTradePositionReq"}, init : BOOLEAN]
Message ==
  [type : {"TradeReq", "TradeRep"}, id : Requests]
    \cup [type : {"TradeKnock"}, knock : Knocks]
    \cup Query
    \cup [type : {"QueryTradeKnockRep"}, next_cursor : Nat, items : Seq(Knocks)]
    \cup [type : {"QueryTradePositionRep"}, init : BOOLEAN, holdings : SUBSET Holding]
    \cup {MonitorRisk, Signal}

KnockFrame(k) == [type |-> "TradeKnock", knock |-> k, by |-> starts, since |-> natureDay]
OthersFrame(k) == [type |-> "TradeKnock", knock |-> k, by |-> 0, since |-> day]
PositionFrame(p) == [type |-> "TradePosition", code |-> p.code, volume |-> p.volume,
                     date |-> p.date, by |-> starts]
HeartBeat == [type |-> "HeartBeat"]
Frame ==
  [type : {"TradeRep"}, id : Requests]
    \cup [type : {"TradeKnock"}, knock : AllKnocks, by : Nat, since : Nat]
    \cup [type : {"TradePosition"}, code : Codes, volume : Nat, date : Nat, by : Nat]
    \cup {HeartBeat}

Elements(s) == {s[i] : i \in DOMAIN s}
FramesOf(type) == {i \in DOMAIN repMem : repMem[i].type = type}
Answered(r) == \E i \in FramesOf("TradeRep") : repMem[i].id = r
Recorded(k) == \E i \in FramesOf("TradeKnock") : repMem[i].knock = k
Queued(type) == {i \in DOMAIN queue : queue[i].type = type}

NoVolume == -1   \* no entry in positions_

Push(m) == queue' = Append(queue, m)
Front(type) == up /\ queue # <<>> /\ Head(queue).type = type
Done == queue' = Tail(queue)

-----------------------------------------------------------------------------
(* Checks of a request (utils.cc) and the internal match number.           *)

\* Spot accounts take the limit of the market from the configuration of the flow
\* control; without one the members keep their initial 1, other accounts too.
BatchLimit(m) ==
  CASE m \notin {SH, SZ} -> 0
    [] Spot /\ m \in DOMAIN Configured -> Configured[m]
    [] OTHER -> 1

OrderFaulty(b) ==
  \/ b.items = <<>>
  \/ \E i \in DOMAIN b.items : LET item == b.items[i] IN
       \/ item.code = "none" \/ item.market = NoMarket
       \/ BatchLimit(item.market) > 0 /\ Len(b.items) > BatchLimit(item.market)
       \/ item.market # b.items[1].market
       \/ b.sell /\ item.market \in {SH, SZ} /\ item.code = "longRepo"

WithdrawalFaulty(b) ==
  \/ b.order_no = "none" /\ b.batch_no = "none"
  \/ Spot /\ b.order_no = "other"
  \/ Spot /\ b.order_no = "none" /\ b.batch_no = "other"

Faulty(r) == IF Body[r].kind = "order" THEN OrderFaulty(Body[r]) ELSE WithdrawalFaulty(Body[r])

\* <order_no>_<match_no>_<code> of a stock knock is its own; any other account
\* takes the exchange's bare match_no.
InnerMatchNo(k) == IF Spot THEN k ELSE MatchNo[k]


-----------------------------------------------------------------------------
(* Outside: gateways, the counter, other brokers, the calendar.            *)

Written == Elements(reqMem)

\* The timestamp of a request is kept as the number of starts before it.
WriteRequest(r) ==
  /\ r \in plan.requests \ Written
  /\ reqMem' = Append(reqMem, r)
  /\ stamp' = [stamp EXCEPT ![r] = starts]
  /\ UNCHANGED <<calendar, counter, session, asking, consumed, repMem, process, queue, memory>>

\* Mutant: the test of start_time_ has its sides swapped.
FreshOrOlder(r) == stamp[r] <= starts
\* start_time_ <= timestamp, for the running process
Fresh(r) == stamp[r] = starts

MakeKnock(k) ==
  /\ k \in (plan.knocks \cap Knocks) \ Elements(made)
  /\ DateOf[k] = day
  /\ made' = Append(made, k)
  /\ UNCHANGED <<calendar, moved, session, asking, requestFile, repMem, process, queue, memory>>

\* Another broker of the host appends a knock of its own account.
WriteOthersKnock(k) ==
  /\ k \in plan.knocks \cap OthersKnocks
  /\ DateOf[k] = day /\ ~Recorded(k)
  /\ repMem' = Append(repMem, OthersFrame(k))
  /\ UNCHANGED <<calendar, counter, session, asking, requestFile, process, queue, memory>>

Volume(c) == plan.volumes[c][moved[c] + 1]

Trade(c) ==
  /\ moved[c] + 1 < Len(plan.volumes[c])
  /\ moved' = [moved EXCEPT ![c] = @ + 1]
  /\ UNCHANGED <<calendar, made, session, asking, requestFile, repMem, process, queue, memory>>

Midnight ==
  /\ day < plan.lastDay
  /\ day' = day + 1
  /\ UNCHANGED <<plan, counter, session, asking, requestFile, repMem, process, queue, memory>>

\* The API pushes a knock: at once, late, again, or (while the broker is down) never.
\* Bound: not while the same one is still queued.
PushKnock(k) ==
  /\ up /\ k \in Elements(made)
  /\ TradeKnock(k) \notin Elements(queue)
  /\ Push(TradeKnock(k))
  /\ UNCHANGED <<calendar, counter, session, asking, requestFile, repMem, process, memory>>

\* Each session answers a request it was handed once; a later session may bring the
\* answers of the former ones again.
Reply(r) ==
  /\ up /\ sent[r] > 0 /\ r \notin replied
  /\ replied' = replied \cup {r}
  /\ Push(TradeRep(r))
  /\ UNCHANGED <<calendar, counter, sent, asking, requestFile, repMem, process, memory>>

Without(s, i) == SubSeq(s, 1, i - 1) \o SubSeq(s, i + 1, Len(s))

\* A code without holdings is not in the reply (mem_server.cc:587).
Holdings ==
  {[code |-> c, volume |-> Volume(c), date |-> day] : c \in {d \in Codes : Volume(d) > 0}}

\* What the counter may say to a query: up to PageSize knocks behind the cursor, with
\* the cursor behind the last of them (0 stands for none), or the holdings.
Answers(q) ==
  IF q.type = "QueryTradeKnockReq"
  THEN LET left == Len(made) - q.cursor IN
       {KnockPage(q.cursor + n, SubSeq(made, q.cursor + 1, q.cursor + n)) :
          n \in {m \in 0..PageSize : m <= left /\ (m = 0 => left = 0)}}
  ELSE {PositionPage(q.init, Holdings)}

\* An answer with error has no items; its cursor is taken over all the same (the code
\* looks at the error later).  Assumed of the counter: it has none or repeats that of the
\* query, never one behind knocks it did not report.
ErrorAnswers(q) ==
  IF q.type = "QueryTradeKnockReq" THEN {KnockPage(c, <<>>) : c \in {0, q.cursor}}
  ELSE {PositionPage(q.init, {})}

AnswerQuery(i) ==
  /\ up
  /\ queries' = Without(queries, i)
  /\ \E answer \in Answers(queries[i]) : Push(answer)
  /\ UNCHANGED <<calendar, counter, session, failures, requestFile, repMem, process, memory>>

\* The counter answers with an error, or not at all.
FailQuery(i) ==
  /\ up /\ failures < plan.failures
  /\ failures' = failures + 1
  /\ queries' = Without(queries, i)
  /\ UNCHANGED queue \/ \E answer \in ErrorAnswers(queries[i]) : Push(answer)
  /\ UNCHANGED <<calendar, counter, session, requestFile, repMem, process, memory>>

-----------------------------------------------------------------------------
(* The threads beside the main loop.                                       *)

\* Mutant: a request is marked only when the reader looks for the next one.
ConsumeBefore(i) == consumed' = consumed \cup {reqMem[j] : j \in 1..(i - 1)}
Consume(i) == consumed' = consumed \cup {reqMem[i]}

\* Mutants: after the answer with the error the request goes on all the same; the
\* answer with the error is missing.
PassOnAnyway(r) ==
  \/ queue' = queue \o <<TradeRep(r), TradeReq(r)>>
  \/ ~Faulty(r) /\ Push(TradeReq(r))
PassOnSilently(r) ==
  \/ UNCHANGED queue
  \/ ~Faulty(r) /\ Push(TradeReq(r))
\* The checks or a risker turn a request down, or it goes on.
PassOn(r) ==
  \/ Push(TradeRep(r))
  \/ ~Faulty(r) /\ Push(TradeReq(r))

\* ReadReqMem takes the first request of this account nobody has consumed.
ReadReqMem(i) ==
  /\ up
  /\ Body[reqMem[i]].own /\ reqMem[i] \notin consumed
  /\ \A j \in 1..(i - 1) : Body[reqMem[j]].own => reqMem[j] \in consumed
  /\ Consume(i)
  /\ PassOn(reqMem[i])
  /\ UNCHANGED <<calendar, counter, session, asking, reqMem, stamp, repMem, process, memory>>

InFlight(req, rep) ==
  Cardinality(Queued(req)) + Cardinality(Queued(rep))
    + Cardinality({i \in DOMAIN queries : queries[i].type = req})

\* Mutant: a query whose answer is lost is waited for without end.
RunKnockQueryPatiently ==
  /\ up /\ "knock" \in plan.due /\ failures = 0
  /\ InFlight("QueryTradeKnockReq", "QueryTradeKnockRep") < plan.queries
  /\ Push(KnockQuery(nextCursor))
  /\ UNCHANGED <<calendar, counter, session, asking, requestFile, repMem, process, memory>>
\* RunQuery: a query falls due at the latest when the time for an answer is over; a
\* changed cursor (must_query) only makes it sooner.  Bound: plan.queries under way.
RunKnockQuery ==
  /\ up /\ "knock" \in plan.due
  /\ InFlight("QueryTradeKnockReq", "QueryTradeKnockRep") < plan.queries
  /\ Push(KnockQuery(nextCursor))
  /\ UNCHANGED <<calendar, counter, session, asking, requestFile, repMem, process, memory>>

RunPositionQuery ==
  /\ up /\ "position" \in plan.due
  /\ InFlight("QueryTradePositionReq", "QueryTradePositionRep") < plan.queries
  /\ Push(PositionQuery(FALSE))
  /\ UNCHANGED <<calendar, counter, session, asking, requestFile, repMem, process, memory>>

\* Bound: the main loop has nothing else to do.
RunWatch ==
  /\ up /\ queue = <<>>
  /\ Push(Signal)
  /\ UNCHANGED <<calendar, counter, session, asking, requestFile, repMem, process, memory>>

-----------------------------------------------------------------------------
(* The main loop, HandleQueueMessage, by type of message.                  *)

\* MemBroker hands the request to the API; an exception becomes an answer.
OnTradeRequest(r) ==
  \/ sent' = [sent EXCEPT ![r] = @ + 1] /\ Done
  \/ queue' = Append(Tail(queue), TradeRep(r)) /\ UNCHANGED sent

SendTradeRequest ==
  /\ Front("TradeReq")
  /\ pending' = pending \cup {Head(queue).id}
  /\ OnTradeRequest(Head(queue).id)
  /\ UNCHANGED <<calendar, counter, replied, asking, requestFile, repMem, process,
                 knocks, handed, positions, nextCursor, beaten>>

\* SendTradeOrderRep and SendTradeWithdrawRep: answers to requests older than the
\* process are not written.
SendTradeReply ==
  /\ Front("TradeRep")
  /\ LET r == Head(queue).id IN
     IF Fresh(r)
     THEN /\ pending' = pending \ {r}
          /\ repMem' = Append(repMem, TradeRep(r))
     ELSE UNCHANGED <<pending, repMem>>
  /\ Done
  /\ UNCHANGED <<calendar, counter, session, asking, requestFile, process,
                 knocks, handed, positions, nextCursor, beaten>>

\* IsNewMemTradeKnock, and the frame that follows
IsNew(k) == InnerMatchNo(k) \notin knocks
\* Mutant: a knock of another day is remembered but not written.
RecordToday(k) ==
  /\ knocks' = knocks \cup {InnerMatchNo(k)}
  /\ repMem' = IF IsNew(k) /\ DateOf[k] = natureDay THEN Append(repMem, KnockFrame(k))
               ELSE repMem
Record(k) ==
  IF IsNew(k)
  THEN knocks' = knocks \cup {InnerMatchNo(k)} /\ repMem' = Append(repMem, KnockFrame(k))
  ELSE UNCHANGED <<knocks, repMem>>

\* Mutant: the position masters get every push.
HandOverAlways(k) == handed' = [handed EXCEPT ![k] = @ + 1]
\* Only a knock that was pushed and is new is handed to the position masters.
HandOver(k) == handed' = IF IsNew(k) THEN [handed EXCEPT ![k] = @ + 1] ELSE handed

SendTradeKnock ==
  /\ Front("TradeKnock")
  /\ Record(Head(queue).knock)
  /\ HandOver(Head(queue).knock)
  /\ Done
  /\ UNCHANGED <<calendar, counter, session, asking, requestFile, process,
                 pending, positions, nextCursor, beaten>>

\* MemBroker asks the counter; an exception becomes a warning.
OnQuery ==
  \/ queries' = Append(queries, Head(queue)) /\ Done /\ UNCHANGED failures
  \/ /\ failures < plan.failures /\ failures' = failures + 1
     /\ queue' = Append(Tail(queue), MonitorRisk)
     /\ UNCHANGED queries

SendQuery ==
  /\ Front("QueryTradeKnockReq") \/ Front("QueryTradePositionReq")
  /\ OnQuery
  /\ UNCHANGED <<calendar, counter, session, requestFile, repMem, process, memory>>

\* Mutant: the server counts the items it got.
CursorCounted(page) == nextCursor + Len(page.items)
CursorAfter(page) == IF page.next_cursor = 0 THEN nextCursor ELSE page.next_cursor

\* Mutant: nothing is expected behind a knock that is known.
RestUntilKnown(page) == IF IsNew(Head(page.items)) THEN Tail(page.items) ELSE <<>>
Rest(page) == Tail(page.items)

\* The cursor moves first, then the items are recorded one after the other.
SendQueryTradeKnockRep ==
  /\ Front("QueryTradeKnockRep")
  /\ LET page == Head(queue) IN
     /\ nextCursor' = CursorAfter(page)
     /\ IF page.items = <<>>
        THEN Done /\ UNCHANGED <<knocks, repMem>>
        ELSE /\ queue' = <<KnockPage(page.next_cursor, Rest(page))>> \o Tail(queue)
             /\ Record(Head(page.items))
  /\ UNCHANGED <<calendar, counter, session, asking, requestFile, process, handed,
                 pending, positions, beaten>>

\* Mutant: only the first volume of a code is written.
ChangedOnce(p) == positions[p.code] = NoVolume
Changed(p) == positions[p.code] # p.volume

\* The answer to OnStart's query goes to the position masters; any other is written
\* where it differs from what was written before.
SendQueryTradePositionRep ==
  /\ Front("QueryTradePositionRep")
  /\ LET page == Head(queue) IN
     IF page.init \/ page.holdings = {}
     THEN Done /\ UNCHANGED <<positions, repMem>>
     ELSE \E p \in page.holdings :
            /\ queue' = <<PositionPage(FALSE, page.holdings \ {p})>> \o Tail(queue)
            /\ positions' = [positions EXCEPT ![p.code] = p.volume]
            /\ repMem' = IF Changed(p) THEN Append(repMem, PositionFrame(p)) ELSE repMem
  /\ UNCHANGED <<calendar, counter, session, asking, requestFile, process, knocks, handed,
                 pending, nextCursor, beaten>>

\* SendMonitorRiskMessage: its frame is a text nobody reads back.
SendMonitorRisk ==
  /\ Front("MonitorRisk")
  /\ Done
  /\ UNCHANGED <<calendar, counter, session, asking, requestFile, repMem, process, memory>>

\* DoWatch: a heartbeat (the first is due at once, since last_heart_beat_ starts with
\* 0) and the end of waiting for answers that are 60 s late; alarms are texts.
DoWatch ==
  /\ repMem' = IF beaten THEN repMem ELSE Append(repMem, HeartBeat)
  /\ beaten' = TRUE
  /\ \E late \in SUBSET pending : pending' = pending \ late

\* function_id > 0 && raw.length() > 0
HasData(m) == m # Signal

HandleSignal ==
  /\ Front("InnerCyclicSignal")
  /\ IF HasData(Head(queue)) THEN DoWatch ELSE UNCHANGED <<repMem, beaten, pending>>
  /\ Done
  /\ UNCHANGED <<calendar, counter, session, asking, requestFile, process, knocks, handed,
                 positions, nextCursor>>

HandleQueueMessage ==
  \/ SendTradeRequest \/ SendTradeReply \/ SendTradeKnock
  \/ SendQuery \/ SendQueryTradeKnockRep \/ SendQueryTradePositionRep
  \/ SendMonitorRisk \/ HandleSignal

-----------------------------------------------------------------------------
(* Death and start of the process.                                         *)

\* What the reply file says of today; of knocks, those of any account.
\* Mutant: the comparison of the dates the wrong way round.
SeenBefore ==
  {InnerMatchNo(repMem[i].knock) :
     i \in {j \in FramesOf("TradeKnock") : DateOf[repMem[j].knock] < day}}
SeenToday ==
  {InnerMatchNo(repMem[i].knock) :
     i \in {j \in FramesOf("TradeKnock") : DateOf[repMem[j].knock] = day}}
Latest(S) == CHOOSE i \in S : \A j \in S : j <= i
VolumeOf(S) == IF S = {} THEN NoVolume ELSE repMem[Latest(S)].volume
\* Mutant: positions of former days are taken over.
FramesAnyDay(c) == {i \in FramesOf("TradePosition") : repMem[i].code = c}
FramesToday(c) ==
  {i \in FramesOf("TradePosition") : repMem[i].code = c /\ repMem[i].date = day}

LoadTradingData ==
  /\ knocks' = SeenToday
  /\ positions' = [c \in Codes |-> VolumeOf(FramesToday(c))]

\* Some types of accounts begin with a query for the position masters.
OnStart == queue' = IF plan.init THEN <<PositionQuery(TRUE)>> ELSE <<>>

Start ==
  /\ ~up /\ starts < plan.starts
  /\ up' = TRUE /\ starts' = starts + 1 /\ natureDay' = day
  /\ LoadTradingData
  /\ OnStart
  /\ UNCHANGED <<calendar, counter, session, asking, requestFile, repMem, handed, pending,
                 nextCursor, beaten>>

\* Everything but the files is gone, and the counter ends the session.
Crash ==
  /\ up /\ starts < plan.starts
  /\ up' = FALSE
  /\ queue' = <<>> /\ knocks' = {} /\ pending' = {} /\ nextCursor' = 0 /\ beaten' = FALSE
  /\ handed' = [k \in Knocks |-> 0]
  /\ positions' = [c \in Codes |-> NoVolume]
  /\ replied' = {} /\ queries' = <<>>
  /\ UNCHANGED <<calendar, counter, sent, failures, requestFile, repMem, starts, natureDay>>

-----------------------------------------------------------------------------
Init ==
  /\ plan \in Plans
  /\ day = 0 /\ made = <<>> /\ moved = [c \in Codes |-> 0]
  /\ sent = [r \in Requests |-> 0] /\ replied = {}
  /\ queries = <<>> /\ failures = 0
  /\ reqMem = <<>> /\ consumed = {} /\ stamp = [r \in Requests |-> 0] /\ repMem = <<>>
  /\ up = FALSE /\ starts = 0 /\ natureDay = 0
  /\ queue = <<>> /\ knocks = {} /\ handed = [k \in Knocks |-> 0] /\ pending = {}
  /\ positions = [c \in Codes |-> NoVolume] /\ nextCursor = 0 /\ beaten = FALSE

Next ==
  \/ \E r \in Requests : WriteRequest(r) \/ Reply(r)
  \/ \E k \in Knocks : MakeKnock(k) \/ PushKnock(k)
  \/ \E k \in OthersKnocks : WriteOthersKnock(k)
  \/ \E c \in Codes : Trade(c)
  \/ Midnight
  \/ \E i \in DOMAIN queries : AnswerQuery(i) \/ FailQuery(i)
  \/ \E i \in DOMAIN reqMem : ReadReqMem(i)
  \/ RunKnockQuery \/ RunPositionQuery \/ RunWatch
  \/ HandleQueueMessage
  \/ Start \/ Crash

Spec == Init /\ [][Next]_vars

\* The threads loop for ever and the process is started again when it died; the
\* counter answers what it does not fail.  Nothing makes a push arrive.
Fairness ==
  /\ WF_vars(Start)
  /\ WF_vars(\E i \in DOMAIN reqMem : ReadReqMem(i))
  /\ WF_vars(HandleQueueMessage)
  /\ WF_vars(RunKnockQuery) /\ WF_vars(RunPositionQuery) /\ WF_vars(RunWatch)
  /\ \A r \in Requests : WF_vars(Reply(r))
  /\ WF_vars(\E i \in DOMAIN queries : AnswerQuery(i))

FairSpec == Spec /\ Fairness

-----------------------------------------------------------------------------
(* Properties.                                                             *)

\* Every variable has its type; above all the cursor of the knock query never points
\* behind the counter's list, whatever error answers, lost answers and restarts did to
\* it (SendQueryTradeKnockRep, RunQuery).
TypeOK ==
  /\ plan \in Plans /\ day \in Nat
  /\ queue \in Seq(Message) /\ repMem \in Seq(Frame) /\ queries \in Seq(Query)
  /\ made \in Seq(Knocks) /\ moved \in [Codes -> Nat]
  /\ sent \in [Requests -> Nat] /\ replied \subseteq Requests
  /\ failures \in Nat
  /\ reqMem \in Seq(Requests) /\ consumed \subseteq Requests
  /\ stamp \in [Requests -> Nat]
  /\ up \in BOOLEAN /\ starts \in Nat /\ natureDay \in Nat
  /\ knocks \subseteq AllKnocks /\ handed \in [Knocks -> Nat]
  /\ pending \subseteq Requests /\ positions \in [Codes -> Int]
  /\ nextCursor \in 0..Len(made) /\ beaten \in BOOLEAN

\* No request reaches the counter twice, even across any number of restarts: the mark
\* ConsumeWhere leaves in the request memory outlives the process (ReadReqMem).
SentOnce == \A r \in Requests : sent[r] <= 1

\* No request is answered twice in the reply memory, though the checks, the riskers, an
\* exception of the API, the counter and the counter's later sessions may each answer
\* it: the test of start_time_ in SendTradeOrderRep drops what former sessions left.
AnsweredOnce ==
  \A i, j \in FramesOf("TradeRep") : repMem[i].id = repMem[j].id => i = j

\* A knock comes from pushes and from queries, in any order and again after a restart,
\* and is written once (IsNewMemTradeKnock, LoadTradingData).  The only exception is a
\* process that was started on a later day than the knock's.
KnockRecordedOnce ==
  \A i, j \in FramesOf("TradeKnock") :
    i < j /\ repMem[i].knock = repMem[j].knock =>
      /\ repMem[i].by < repMem[j].by
      /\ DateOf[repMem[j].knock] < repMem[j].since

\* No step takes a pushed knock off the queue without the knock being in the reply
\* memory afterwards: what SendTradeKnock drops as known has been written before.
PushedIsRecorded ==
  [][\A k \in Knocks :
       (queue # <<>> /\ Head(queue) = TradeKnock(k) /\ queue' = Tail(queue) /\ up')
         => Recorded(k)']_vars

\* The position masters count a knock at most once, however often the API pushes it and
\* whether or not a query brought it in between (SendTradeKnock).
MastersToldOnce == \A k \in Knocks : handed[k] <= 1

\* positions_ is what a reader of the reply memory takes for the account's positions:
\* the last frame of each code, of the day the process started on or from the process
\* itself (SendQueryTradePositionRep against LoadTradingData).
PositionsMirrored ==
  up => \A c \in Codes : positions[c] =
          VolumeOf({i \in FramesOf("TradePosition") :
                      /\ repMem[i].code = c
                      /\ repMem[i].date = natureDay \/ repMem[i].by = starts})

\* Every knock the cursor has passed is in the reply memory or in the rest of the reply
\* at hand: no later query asks for it again (SendQueryTradeKnockRep moves the cursor
\* before it looks at the items).
CursorCovered ==
  \A i \in 1..nextCursor :
    \/ Recorded(made[i])
    \/ /\ queue # <<>> /\ Head(queue).type = "QueryTradeKnockRep"
       /\ made[i] \in Elements(Head(queue).items)

\* The server implements the life of a request a gateway relies on: forward only, one
\* process, and what died with a process stays dead.
Life == INSTANCE RequestLife WITH phase <- [r \in Requests |->
  IF r \notin Written THEN "new"
  ELSE IF Answered(r) THEN "answered"
  ELSE IF sent[r] > 0 THEN "sent"
  ELSE IF r \notin consumed THEN "waiting"
  ELSE IF TradeReq(r) \in Elements(queue) THEN "taken"
  ELSE IF TradeRep(r) \in Elements(queue) THEN "refused" ELSE "lost"]
ImplementsLife == Life!LifeSpec

\* A request of the account, written while a process runs, is answered unless that
\* process dies (ReadReqMem, SendTradeOrder, SendTradeOrderRep).
RequestAnswered ==
  \A r \in Requests :
    (up /\ r \in Written /\ Body[r].own /\ Fresh(r)) ~> (Answered(r) \/ ~up)

\* With the knock query on, every knock of the account reaches the reply memory, though
\* pushes may never come, answers to queries may fail or get lost and the process may
\* die (RunQuery, SendQueryTradeKnockRep).
KnockRecorded ==
  \A k \in Knocks : ("knock" \in plan.due /\ k \in Elements(made)) ~> Recorded(k)

\* With the position query on, the last volume of a code that is still held gets into
\* the reply memory (RunQuery, SendQueryTradePositionRep).
PositionReported ==
  \A c \in Codes :
    ("position" \in plan.due /\ moved[c] + 1 = Len(plan.volumes[c]) /\ Volume(c) > 0)
      ~> (VolumeOf({i \in FramesOf("TradePosition") : repMem[i].code = c}) = Volume(c))

\* What the comment in DoWatch says: there is a heartbeat.  A process that stays up
\* sends its first one.
HeartBeatSent == up ~> (beaten \/ ~up)
==============================================================================

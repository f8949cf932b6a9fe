------------------------------ MODULE FlowControl ------------------------------
(***************************************************************************)
(* The flow control of the broker server: FlowControlQueue and its         *)
(* FlowControlMarketQueues (mem_broker/flow_control.h, flow_control.cc).   *)
(* Gateway and broker threads push messages into the lock-free broker      *)
(* queue; the server's main thread calls TryPop, which first drains the    *)
(* broker queue into one queue per configured market and then returns at   *)
(* most one message: a request to send to the exchange, a request turned   *)
(* into an error reply, or a message that needs no flow control.           *)
(*                                                                         *)
(* Time is counted in ticks (one tick stands for 500 ms in the runs).  A   *)
(* call of TryPop takes no time here; how long a command really needs to   *)
(* reach the exchange is the subject of FlowControlExchange.               *)
(***************************************************************************)
EXTENDS Integers, Sequences, FiniteSets, FiniteSetsExt, Functions

CONSTANTS
  Requests,        \* what is pushed: records of RequestType, each pushed once
  Markets,         \* markets with a flow_control entry in the configuration
  Rank,            \* position of a market in fc_queues_ (configuration order)
  RequiredMarkets, \* SH, SZ and BJ: never traded without a configuration
  NoMarket,        \* market 0, as of a withdrawal with neither order_no nor batch_no
  TpsLimit, DailyWarning, DailyLimit,   \* th_*, per market; 0 is "not set"
  RequestTimeout,  \* request_timeout_ms_ of the queue; the server leaves it 0
  Multiple,        \* kItemMultiple
  Window,          \* kFlowControlWindowMS
  Second,          \* 1000 ms
  MinDowntime,     \* least time between a crash and the next start
  RunsOvernight,   \* whether a process may live through midnight
  MaxTime, LastSubmit, MaxDay, MaxStarts   \* bounds of the state space

AllMarkets == Markets \cup RequiredMarkets \cup {NoMarket}

RequestType ==
  [id: Nat, kind: {"order", "withdraw", "other"}, market: AllMarkets,
   size: Nat \ {0}, create: BOOLEAN, amount: Nat, timeout: Nat]

ASSUME FlowControlAssumption ==
  /\ Requests \subseteq RequestType
  /\ NoMarket \notin Markets
  /\ Rank \in [Markets -> Nat]
  /\ \A m, n \in Markets : Rank[m] = Rank[n] => m = n
  /\ TpsLimit \in [Markets -> Nat]
  /\ DailyWarning \in [Markets -> Nat]
  /\ DailyLimit \in [Markets -> Nat]
  /\ RequestTimeout \in Nat
  /\ Multiple \in Nat \ {0}
  /\ Window \in Nat /\ Second \in Nat /\ MinDowntime \in Nat
  /\ RunsOvernight \in BOOLEAN
  /\ MaxTime \in Nat /\ LastSubmit \in Nat /\ MaxDay \in Nat /\ MaxStarts \in Nat

VARIABLES
  now, day,        \* the clock (RawDateTime) and its date part
  up, downSince,   \* whether the server runs, and when it last stopped
  brokerQueue,     \* BrokerQueue: messages no TryPop has seen yet
  arrivals,        \* number of items ever appended to a flow_control_queue_
  flowQueue,       \* flow_control_queue_ of each market
  marketReplies,   \* normal_queue_ of each market: replies to oversized batches
  normalQueue,     \* normal_queue_ of FlowControlQueue
  cmdSize,         \* cmd_size_
  totalCmdSize,    \* total_cmd_size_
  sentAt,          \* history: when each command ever sent was sent
  windowHead,      \* sent_ns_queue_ is sentAt from this index on
  triggered,       \* triggered_flow_control_size_
  preWarning,      \* pre_warning_total_cmd_size_
  stateFile,       \* the MemFlowControlState records of ../data/state.broker.mem
  outcome,         \* history: what became of each request
  sentToday,       \* history: commands sent since midnight
  unwarned         \* history: a request was turned down and no alarm followed

clockVars == <<now, day>>
queueVars == <<brokerQueue, arrivals, flowQueue, marketReplies, normalQueue, cmdSize>>
sendVars  == <<totalCmdSize, sentAt, stateFile, sentToday>>
alarmVars == <<triggered, preWarning, unwarned>>
vars == <<clockVars, up, downSince, queueVars, sendVars, windowHead, alarmVars, outcome>>

Outcomes == {"new", "pending", "sent", "passed", "timeout", "daily",
             "oversize", "refused", "lost"}

Item    == [req: Requests, seq: Nat, stamp: Nat]
Message == [req: Requests, stamp: Nat]
Reply   == [req: Requests, verdict: Outcomes]
StateRecord == [date: Nat, total: Nat]

TypeOK ==
  /\ now \in Nat /\ day \in Nat /\ up \in BOOLEAN /\ downSince \in Int
  /\ brokerQueue \in Seq(Message)
  /\ arrivals \in Nat
  /\ flowQueue \in [Markets -> SUBSET Item]
  /\ marketReplies \in [Markets -> Seq(Reply)]
  /\ normalQueue \in Seq(Reply)
  /\ cmdSize \in [Markets -> Int]
  /\ totalCmdSize \in [Markets -> Nat]
  /\ sentAt \in [Markets -> Seq(Nat)]
  /\ windowHead \in [Markets -> Nat \ {0}]
  /\ triggered \in [Markets -> Int]
  /\ preWarning \in [Markets -> Nat]
  /\ stateFile \in [Markets -> Seq(StateRecord)]
  /\ outcome \in [Requests -> Outcomes]
  /\ sentToday \in [Markets -> Nat]
  /\ unwarned \in [Markets -> BOOLEAN]

-----------------------------------------------------------------------------
(* Order of the items of a market. *)

\* priority_: withdrawals, then create/redeem, then other orders.
Priority(r) ==
  IF r.kind = "withdraw" THEN 3 ELSE IF r.create THEN 2 ELSE 1

\* order_amount_: only other orders carry their amount into the sort key.
OrderAmount(r) == IF Priority(r) = 1 THEN r.amount ELSE 0

\* total_amount_, the key Sort compares.
TotalAmountUnweighted(r) == Priority(r) + OrderAmount(r)   \* mutated form
TotalAmount(r) == Priority(r) * Multiple + OrderAmount(r)

\* Sort is stable: equal keys stay in the order of their arrival.
Before(a, b) ==
  \/ TotalAmount(a.req) > TotalAmount(b.req)
  \/ TotalAmount(a.req) = TotalAmount(b.req) /\ a.seq < b.seq

\* a is at the front (at the back) of the sorted flow_control_queue_ of m.
IsFront(m, a) == \A b \in flowQueue[m] \ {a} : Before(a, b)
IsBack(m, a)  == \A b \in flowQueue[m] \ {a} : Before(b, a)

-----------------------------------------------------------------------------
(* Limits. *)

\* The front of sent_ns_queue_ once the entries older than the window are gone.
PrunedHeadEarly(m) ==     \* mutated form: a window of one second
  Min({h \in windowHead[m] .. Len(sentAt[m]) + 1 :
         h <= Len(sentAt[m]) => now - sentAt[m][h] <= Second})
PrunedHeadOneBack(m) ==   \* mutated form: off by one
  Min({h \in windowHead[m] .. Len(sentAt[m]) + 1 :
         h <= Len(sentAt[m]) => now - sentAt[m][h] <= Window}) - 1
PrunedHead(m) ==
  Min({h \in windowHead[m] .. Len(sentAt[m]) + 1 :
         h <= Len(sentAt[m]) => now - sentAt[m][h] <= Window})

\* sent_ns_queue_.size() after pruning.
RecentlySent(m) == Len(sentAt[m]) + 1 - PrunedHead(m)

WithinTps(m, r) == TpsLimit[m] = 0 \/ RecentlySent(m) + r.size <= TpsLimit[m]
\* Mutated form: the size of the batch is forgotten.
BeyondDailyLoosely(m, r) == DailyLimit[m] > 0 /\ totalCmdSize[m] + 1 > DailyLimit[m]
BeyondDaily(m, r) == DailyLimit[m] > 0 /\ totalCmdSize[m] + r.size > DailyLimit[m]

\* FlowControlItem::timeout_, computed in Push; a withdrawal has none.
ItemTimeout(r) ==
  IF r.timeout > 0 /\ r.timeout < RequestTimeout THEN r.timeout ELSE RequestTimeout

\* IsTimeout: waiting too long already, or bound to wait too long behind ahead.
TimedOut(m, a, ahead) ==
  /\ a.req.kind # "withdraw"
  /\ ItemTimeout(a.req) > 0
  /\ LET delay == now - a.stamp
         queued == IF TpsLimit[m] > 0 /\ ahead > 0
                   THEN delay + (ahead \div TpsLimit[m]) * Second
                   ELSE 0
     IN delay >= ItemTimeout(a.req) \/ queued >= ItemTimeout(a.req)

\* TryPopPrimary finds work but has to hold it back.
MustWait(m, a) ==
  ~TimedOut(m, a, 0) /\ ~BeyondDaily(m, a.req) /\ ~WithinTps(m, a.req)
Throttled(m) == \E a \in flowQueue[m] : IsFront(m, a) /\ MustWait(m, a)

\* TryPopSecondary: everything but the item itself counts as ahead of it.
BackTimedOut(m, a) == IsBack(m, a) /\ TimedOut(m, a, cmdSize[m] - a.req.size)

\* Neither TryPopPrimary nor TryPopSecondary of m returns a message.
Idle(m) ==
  /\ flowQueue[m] = {} \/ Throttled(m)
  /\ marketReplies[m] = <<>>
  /\ ~\E a \in flowQueue[m] : BackTimedOut(m, a)

-----------------------------------------------------------------------------
Init ==
  /\ now = 0 /\ day = 0
  /\ up = FALSE /\ downSince = 0 - MinDowntime
  /\ brokerQueue = <<>> /\ arrivals = 0
  /\ flowQueue = [m \in Markets |-> {}]
  /\ marketReplies = [m \in Markets |-> <<>>]
  /\ normalQueue = <<>>
  /\ cmdSize = [m \in Markets |-> 0]
  /\ totalCmdSize = [m \in Markets |-> 0]
  /\ sentAt = [m \in Markets |-> <<>>]
  /\ windowHead = [m \in Markets |-> 1]
  /\ triggered = [m \in Markets |-> 0]
  /\ preWarning = [m \in Markets |-> 0]
  /\ stateFile = [m \in Markets |-> <<>>]
  /\ outcome = [r \in Requests |-> "new"]
  /\ sentToday = [m \in Markets |-> 0]
  /\ unwarned = [m \in Markets |-> FALSE]

-----------------------------------------------------------------------------
(* Environment: the clock, the threads that push, crashes. *)

Tick ==
  /\ now < MaxTime
  /\ now' = now + 1
  /\ UNCHANGED <<day, up, downSince, queueVars, sendVars, windowHead, alarmVars, outcome>>

\* Midnight.  Nothing in the process reacts to it.
NewDay ==
  /\ day < MaxDay
  /\ up => RunsOvernight
  /\ day' = day + 1
  /\ sentToday' = [m \in Markets |-> 0]
  /\ UNCHANGED <<now, up, downSince, queueVars, totalCmdSize, sentAt, stateFile,
                 windowHead, alarmVars, outcome>>

\* BrokerQueue::Push by ReadReqMem or by a callback of the broker.
Submit(r) ==
  /\ up /\ now <= LastSubmit
  /\ outcome[r] = "new"
  /\ brokerQueue' = Append(brokerQueue, [req |-> r, stamp |-> now])
  /\ outcome' = [outcome EXCEPT ![r] = "pending"]
  /\ UNCHANGED <<clockVars, up, downSince, arrivals, flowQueue, marketReplies,
                 normalQueue, cmdSize, sendVars, windowHead, alarmVars>>

\* The process dies: everything but the state file is gone.  The bounds leave
\* room for the next start.
Crash ==
  /\ up
  /\ \A m \in Markets : Len(stateFile[m]) < MaxStarts
  /\ now + MinDowntime <= MaxTime
  /\ up' = FALSE /\ downSince' = now
  /\ brokerQueue' = <<>> /\ normalQueue' = <<>>
  /\ flowQueue' = [m \in Markets |-> {}]
  /\ marketReplies' = [m \in Markets |-> <<>>]
  /\ cmdSize' = [m \in Markets |-> 0]
  /\ totalCmdSize' = [m \in Markets |-> 0]
  /\ triggered' = [m \in Markets |-> 0]
  /\ preWarning' = [m \in Markets |-> 0]
  /\ unwarned' = [m \in Markets |-> FALSE]
  /\ outcome' = [r \in Requests |-> IF outcome[r] = "pending" THEN "lost" ELSE outcome[r]]
  /\ UNCHANGED <<clockVars, arrivals, sentAt, windowHead, stateFile, sentToday>>

\* InitState: the last record of today with a nonzero total is carried over.
HistoryTotalAnyDay(m) ==     \* mutated form: yesterday counts too
  LET found == {i \in DOMAIN stateFile[m] : stateFile[m][i].total > 0}
  IN IF found = {} THEN 0 ELSE stateFile[m][Max(found)].total
HistoryTotal(m) ==
  LET found == {i \in DOMAIN stateFile[m] :
                  stateFile[m][i].date = day /\ stateFile[m][i].total > 0}
  IN IF found = {} THEN 0 ELSE stateFile[m][Max(found)].total

\* FlowControlQueue::InitState; the window of the new process is empty.
Start ==
  /\ ~up /\ now >= downSince + MinDowntime
  /\ up' = TRUE
  /\ totalCmdSize' = [m \in Markets |-> HistoryTotal(m)]
  /\ stateFile' = [m \in Markets |->
                     Append(stateFile[m], [date |-> day, total |-> HistoryTotal(m)])]
  /\ windowHead' = [m \in Markets |-> Len(sentAt[m]) + 1]
  /\ UNCHANGED <<clockVars, downSince, queueVars, sentAt, sentToday, alarmVars, outcome>>

-----------------------------------------------------------------------------
(* TryPop, first part: one iteration of the loop that drains the broker queue
   (FlowControlQueue::Push and FlowControlMarketQueue::Push). *)

FlowControlled(r) == r.kind # "other" /\ r.market \in Markets

\* No configuration for a market that requires one, or a withdrawal of market 0.  (One
\* whose number cannot be parsed ends the main loop with an exception: not modelled.)
Refused(r) ==
  /\ r.kind # "other" /\ r.market \notin Markets
  /\ r.market \in RequiredMarkets \/ (r.kind = "withdraw" /\ r.market = NoMarket)

NeverOversize(r) == FALSE    \* mutated form
Oversize(r) == TpsLimit[r.market] > 0 /\ r.size > TpsLimit[r.market]

DrainNormal(r) ==
  /\ ~FlowControlled(r)
  /\ normalQueue' = Append(normalQueue,
       [req |-> r, verdict |-> IF Refused(r) THEN "refused" ELSE "passed"])
  /\ UNCHANGED <<arrivals, flowQueue, marketReplies, cmdSize>>

DrainOversizeTwice(r) ==      \* mutated form: Push goes on after its error reply
  /\ FlowControlled(r) /\ Oversize(r)
  /\ marketReplies' = [marketReplies EXCEPT ![r.market] =
                         Append(@, [req |-> r, verdict |-> "oversize"])]
  /\ flowQueue' = [flowQueue EXCEPT ![r.market] =
                     @ \cup {[req |-> r, seq |-> arrivals, stamp |-> now]}]
  /\ arrivals' = arrivals + 1
  /\ UNCHANGED <<normalQueue, cmdSize>>
DrainOversize(r) ==
  /\ FlowControlled(r) /\ Oversize(r)
  /\ marketReplies' = [marketReplies EXCEPT ![r.market] =
                         Append(@, [req |-> r, verdict |-> "oversize"])]
  /\ UNCHANGED <<arrivals, flowQueue, normalQueue, cmdSize>>

DrainToFlow(r, stamp) ==
  /\ FlowControlled(r) /\ ~Oversize(r)
  /\ arrivals' = arrivals + 1
  /\ flowQueue' = [flowQueue EXCEPT ![r.market] =
                     @ \cup {[req |-> r, seq |-> arrivals, stamp |-> stamp]}]
  /\ cmdSize' = [cmdSize EXCEPT ![r.market] = @ + r.size]
  /\ UNCHANGED <<marketReplies, normalQueue>>

Drain ==
  /\ up /\ brokerQueue # <<>>
  /\ LET e == Head(brokerQueue)
     IN DrainNormal(e.req) \/ DrainOversize(e.req) \/ DrainToFlow(e.req, e.stamp)
  /\ brokerQueue' = Tail(brokerQueue)
  /\ UNCHANGED <<clockVars, up, downSince, sendVars, windowHead, alarmVars, outcome>>

-----------------------------------------------------------------------------
(* TryPop, second part: the markets in configuration order, the first that has
   something to return ends the call. *)

\* The call gets as far as the markets of seen: each of them that has items is
\* pruned, and notes its length when it is throttled.
Visit(seen) ==
  /\ windowHead' = [m \in Markets |->
       IF m \in seen /\ flowQueue[m] # {} THEN PrunedHead(m) ELSE windowHead[m]]
  /\ triggered' = [m \in Markets |->
       IF m \in seen /\ Throttled(m) THEN cmdSize[m] ELSE triggered[m]]
  /\ UNCHANGED <<clockVars, up, downSince, brokerQueue, arrivals>>

Turn(m) ==
  /\ up /\ brokerQueue = <<>>
  /\ \A n \in Markets : Rank[n] < Rank[m] => Idle(n)
  /\ Visit({n \in Markets : Rank[n] <= Rank[m]})

\* An item leaves the flow control queue of m and its request is answered.
RemoveKeepingSize(m, a, verdict) ==     \* mutated form
  /\ flowQueue' = [flowQueue EXCEPT ![m] = @ \ {a}]
  /\ cmdSize' = cmdSize
  /\ outcome' = [outcome EXCEPT ![a.req] = verdict]
  /\ UNCHANGED <<marketReplies, normalQueue>>
Remove(m, a, verdict) ==
  /\ flowQueue' = [flowQueue EXCEPT ![m] = @ \ {a}]
  /\ cmdSize' = [cmdSize EXCEPT ![m] = @ - a.req.size]
  /\ outcome' = [outcome EXCEPT ![a.req] = verdict]
  /\ UNCHANGED <<marketReplies, normalQueue>>

PopTimeout(m) ==
  /\ Turn(m)
  /\ \E a \in flowQueue[m] :
       IsFront(m, a) /\ TimedOut(m, a, 0) /\ Remove(m, a, "timeout")
  /\ UNCHANGED <<sendVars, preWarning, unwarned>>

\* Mutated form: the alarm is not re-armed.
PopBeyondDailySilently(m) ==
  /\ Turn(m)
  /\ \E a \in flowQueue[m] :
       /\ IsFront(m, a) /\ ~TimedOut(m, a, 0) /\ BeyondDaily(m, a.req)
       /\ Remove(m, a, "daily")
  /\ unwarned' = [unwarned EXCEPT ![m] = TRUE]
  /\ UNCHANGED <<sendVars, preWarning>>
PopBeyondDaily(m) ==
  /\ Turn(m)
  /\ \E a \in flowQueue[m] :
       /\ IsFront(m, a) /\ ~TimedOut(m, a, 0) /\ BeyondDaily(m, a.req)
       /\ Remove(m, a, "daily")
  /\ preWarning' = [preWarning EXCEPT ![m] = 0]
  /\ unwarned' = [unwarned EXCEPT ![m] = TRUE]
  /\ UNCHANGED sendVars

\* One entry of sent_ns_queue_ per command, and the new total is written to the
\* mapped record of the state file.
RecordSend(m, size) ==
  LET n == Len(sentAt[m])
  IN /\ sentAt' = [sentAt EXCEPT ![m] =
                     [i \in 1 .. n + size |-> IF i <= n THEN sentAt[m][i] ELSE now]]
     /\ totalCmdSize' = [totalCmdSize EXCEPT ![m] = @ + size]
     /\ stateFile' = [stateFile EXCEPT ![m][Len(stateFile[m])].total =
                        totalCmdSize[m] + size]
     /\ sentToday' = [sentToday EXCEPT ![m] = @ + size]

PopSend(m) ==
  /\ Turn(m)
  /\ \E a \in flowQueue[m] :
       /\ IsFront(m, a)
       /\ ~TimedOut(m, a, 0) /\ ~BeyondDaily(m, a.req) /\ WithinTps(m, a.req)
       /\ RecordSend(m, a.req.size)
       /\ Remove(m, a, "sent")
  /\ UNCHANGED <<preWarning, unwarned>>

PopMarketReply(m) ==
  /\ Turn(m)
  /\ flowQueue[m] = {} \/ Throttled(m)
  /\ marketReplies[m] # <<>>
  /\ marketReplies' = [marketReplies EXCEPT ![m] = Tail(@)]
  /\ outcome' = [outcome EXCEPT ![Head(marketReplies[m]).req] = Head(marketReplies[m]).verdict]
  /\ UNCHANGED <<flowQueue, cmdSize, normalQueue, sendVars, preWarning, unwarned>>

\* Nobody waits for the slots: the last item would time out before its turn.
PopBackTimeout(m) ==
  /\ Turn(m)
  /\ Throttled(m) /\ marketReplies[m] = <<>>
  /\ \E a \in flowQueue[m] : BackTimedOut(m, a) /\ Remove(m, a, "timeout")
  /\ UNCHANGED <<sendVars, preWarning, unwarned>>

PopNormal ==
  /\ up /\ brokerQueue = <<>>
  /\ \A m \in Markets : Idle(m)
  /\ Visit(Markets)
  /\ normalQueue # <<>>
  /\ normalQueue' = Tail(normalQueue)
  /\ outcome' = [outcome EXCEPT ![Head(normalQueue).req] = Head(normalQueue).verdict]
  /\ UNCHANGED <<flowQueue, marketReplies, cmdSize, sendVars, preWarning, unwarned>>

\* TryPop returns nullptr; Pop sleeps and tries again.
PopNothing ==
  /\ up /\ brokerQueue = <<>>
  /\ \A m \in Markets : Idle(m)
  /\ Visit(Markets)
  /\ normalQueue = <<>>
  /\ UNCHANGED <<flowQueue, marketReplies, normalQueue, cmdSize, sendVars, preWarning,
                 unwarned, outcome>>

TryPop ==
  \/ \E m \in Markets : \/ PopTimeout(m) \/ PopBeyondDaily(m) \/ PopSend(m)
                        \/ PopMarketReply(m) \/ PopBackTimeout(m)
  \/ PopNormal
  \/ PopNothing

-----------------------------------------------------------------------------
(* PopWarningMessage: the first market that has something to say. *)

DailyAlarm(m) ==
  /\ DailyWarning[m] > 0
  /\ totalCmdSize[m] >= DailyWarning[m]
  /\ preWarning[m] # totalCmdSize[m]
QueueAlarm(m) == ~DailyAlarm(m) /\ triggered[m] > 0

PopWarning(m) ==
  /\ up
  /\ \A n \in Markets : Rank[n] < Rank[m] => ~DailyAlarm(n) /\ ~QueueAlarm(n)
  /\ \/ /\ DailyAlarm(m)
        /\ preWarning' = [preWarning EXCEPT ![m] = totalCmdSize[m]]
        /\ unwarned' = [unwarned EXCEPT ![m] = FALSE]
        /\ UNCHANGED triggered
     \/ /\ QueueAlarm(m)
        /\ triggered' = [triggered EXCEPT ![m] = 0]
        /\ UNCHANGED <<preWarning, unwarned>>
  /\ UNCHANGED <<clockVars, up, downSince, queueVars, sendVars, windowHead, outcome>>

-----------------------------------------------------------------------------
Next ==
  \/ Tick \/ NewDay \/ Crash \/ Start
  \/ \E r \in Requests : Submit(r)
  \/ Drain \/ TryPop
  \/ \E m \in Markets : PopWarning(m)

Spec == Init /\ [][Next]_vars

\* The main thread never stops calling Pop, time goes on and a stopped server is
\* started again.
FairSpec == Spec /\ WF_vars(Tick) /\ WF_vars(Start) /\ WF_vars(Drain \/ TryPop)

-----------------------------------------------------------------------------
(* Safety. *)

\* th_tps_limit: any TpsLimit + 1 successive commands of a market span more than
\* the window, across restarts too (flow_control.cc:34-48, 67-72).
TpsRespected ==
  \A m \in Markets : TpsLimit[m] > 0 =>
    \A i, j \in DOMAIN sentAt[m] :
      j - i >= TpsLimit[m] => sentAt[m][j] - sentAt[m][i] > Window

\* th_daily_limit: the commands of a day, counted over all the processes of that
\* day, stay within the limit (flow_control.cc:56, 237-299).
DailyRespected ==
  \A m \in Markets : DailyLimit[m] > 0 => sentToday[m] <= DailyLimit[m]

\* A stopped server finds in the file exactly what was sent today, and a running
\* one counts on from there (flow_control.cc:13-16, 73-76, 259-275).
CountSurvivesRestart ==
  \A m \in Markets :
    sentToday[m] = IF up THEN totalCmdSize[m] ELSE HistoryTotal(m)

\* Where a request is: at which position of which queue.
PlacesIn(name, queue, r) == {<<name, i>> : i \in {j \in DOMAIN queue : queue[j].req = r}}
PlacesInFlow(m, r) == {<<<<"flow", m>>, a>> : a \in {b \in flowQueue[m] : b.req = r}}

Places(r) ==
  PlacesIn(<<"broker">>, brokerQueue, r) \cup PlacesIn(<<"normal">>, normalQueue, r)
  \cup (UNION {PlacesInFlow(m, r) : m \in Markets})
  \cup (UNION {PlacesIn(<<"reply", m>>, marketReplies[m], r) : m \in Markets})

\* Each message that was pushed and not yet returned is in exactly one place, and
\* none that was returned (or never pushed) is still anywhere: every request is
\* answered once, as itself or as its error reply (flow_control.cc:312-437).
AnsweredOnce ==
  \A r \in Requests : Cardinality(Places(r)) = IF outcome[r] = "pending" THEN 1 ELSE 0

\* cmd_size_ is the number of commands in the queue: it is the length the alarm
\* shows and the basis of the waiting time of the last item (flow_control.cc:107, 137).
CmdSizeAccurate ==
  \A m \in Markets :
    cmdSize[m] = SumFunctionOnSet([a \in flowQueue[m] |-> a.req.size], flowQueue[m])

\* "Once a request is turned down the warning has to be played again"
\* (flow_control.cc:65): the next PopWarningMessage of that market has a text,
\* provided the daily total has reached the warning threshold.
RejectionRaisesAlarm ==
  \A m \in Markets :
    unwarned[m] /\ DailyWarning[m] > 0 /\ totalCmdSize[m] >= DailyWarning[m]
      => DailyAlarm(m)

\* Withdrawals before create/redeem before other orders, the latter by amount,
\* equal ones by arrival (flow_control.cc:145): what is sent now is never
\* overtaken by something that stays in the queue.
SendOrder(a, b) ==
  \/ Priority(a.req) > Priority(b.req)
  \/ /\ Priority(a.req) = Priority(b.req)
     /\ \/ OrderAmount(a.req) > OrderAmount(b.req)
        \/ OrderAmount(a.req) = OrderAmount(b.req) /\ a.seq <= b.seq
JustSent(r) == outcome[r] = "pending" /\ outcome'[r] = "sent"
PriorityRespected ==
  [][\A m \in Markets : \A a, b \in flowQueue[m] :
       JustSent(a.req) => SendOrder(a, b)]_vars

(* Liveness. *)

\* Nothing stays in a queue for ever: since only finitely many requests are ever
\* pushed, all of them are returned in the end (flow_control.cc:301-343).
Pending(r) == outcome[r] = "pending"
EveryRequestAnswered ==
  (\E r \in Requests : Pending(r)) ~> (\A r \in Requests : ~Pending(r))
==============================================================================

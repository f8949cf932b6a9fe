------------------------------ MODULE FutureMaster ------------------------------
(***************************************************************************)
(* InnerFutureMaster, the positions of a futures account, and the part of  *)
(* MemBroker that feeds it.  An order that asks for "auto" is given its    *)
(* open/close flag from what is left of the positions, and a closing order *)
(* freezes what it is going to close until its trades, its withdrawal or   *)
(* its rejection come back.                                                *)
(*                                                                         *)
(* The counter and the exchange are external: they hold the real positions *)
(* and answer in any order, as often as they like.  The loops over the     *)
(* items of a message take one step per item; the main thread does nothing *)
(* else meanwhile.  A behaviour begins when InitPositions has returned.    *)
(* td_opening_volume_ is only displayed (inner_future_master.h:51) and     *)
(* left out; the four forced flags are treated like "close".               *)
(***************************************************************************)
EXTENDS Integers, Sequences, FiniteSets, Functions

CONSTANTS
  Codes,
  MarketOf,            \* market of a code
  TypeOf,              \* IF, IH, IC, IM, or NoType for any other code
  Types, NoType,
  Requests, Request,   \* order requests, and what each of them says
  Holdings,            \* what the position query answered
  ForbidClosingToday,  \* cffex: forbid_closing_today
  MaxTodayOpening,     \* cffex: max_today_opening_volume, -1 is "no limit"
  MaxRequests          \* bound of the state space: requests sent

Markets == {"CFFEX", "SHFE", "INE", "DCE", "CZCE"}
Sides == {"long", "short"}
Flags == {"auto", "open", "close", "closeToday", "closeYesterday"}
RequestType ==
  [bs: {"buy", "sell"}, items: Seq([code: Codes, oc: Flags, volume: Nat \ {0}])]
Holding == [yd: Nat, td: Nat]

ASSUME FutureMasterAssumption ==
  /\ IsFiniteSet(Codes) /\ IsFiniteSet(Requests)
  /\ MarketOf \in [Codes -> Markets]
  /\ NoType \notin Types
  /\ TypeOf \in [Codes -> Types \cup {NoType}]
  /\ \A c \in Codes : TypeOf[c] # NoType => MarketOf[c] = "CFFEX"
  /\ Request \in [Requests -> RequestType]
  /\ Holdings \in [Codes -> [Sides -> Holding]]
  /\ ForbidClosingToday \in BOOLEAN
  /\ MaxTodayOpening \in Int
  /\ MaxRequests \in Nat

VARIABLES
  position,    \* positions_
  openCache,   \* open_cache_
  knocks,      \* knocks_: numbers of the knocks handled so far
  task,        \* the request or the reply the main thread is in the middle of
  sent,        \* the requests SendTradeOrder was called with
  ocFlag,      \* oc_flag of each item, which SendTradeOrder overwrites
  replies,     \* what SendRtnMessage pushed: the items without an order number
  stage,       \* how far each item has come
  toCounter,   \* the counter: items it has been sent and not answered
  rest,        \* the counter: volume that is still working
  held,        \* the counter: real positions
  pushed       \* the counter: every knock ever pushed

masterVars == <<position, openCache, knocks>>
counterVars == <<toCounter, rest, held, pushed>>
vars == <<masterVars, task, sent, ocFlag, replies, stage, counterVars>>

\* An item of a request, and what it asks for.
Items == UNION {{<<r, i>> : i \in DOMAIN Request[r].items} : r \in Requests}
ItemsOf(r) == [i \in DOMAIN Request[r].items |-> <<r, i>>]
Bs(o) == Request[o[1]].bs
Code(o) == Request[o[1]].items[o[2]].code
Market(o) == MarketOf[Code(o)]
Volume(o) == Request[o[1]].items[o[2]].volume
Asked(o) == Request[o[1]].items[o[2]].oc

Position == [ydInit: Nat, ydClosing: Int, ydClose: Nat,
             tdInit: Nat, tdClosing: Int, tdClose: Nat, tdOpen: Nat]
Stages == {"new", "frozen", "sent", "working", "refused", "ended"}
Knock == [no: Items \X Nat, item: Items, trade: BOOLEAN, volume: Nat \ {0}]
Idle == [kind |-> "idle", items |-> <<>>, next |-> 1]
Task == [kind: {"idle", "order", "reply"}, items: Seq(Items), next: Nat]

TypeOK ==
  /\ position \in [Codes -> [Sides -> Position]]
  /\ openCache \in [Types -> Nat]
  /\ knocks \subseteq Items \X Nat
  /\ task \in Task
  /\ sent \subseteq Requests
  /\ ocFlag \in [Items -> Flags]
  /\ replies \subseteq Seq(Items)
  /\ stage \in [Items -> Stages]
  /\ toCounter \in Seq(Items)
  /\ rest \in [Items -> Nat]
  /\ held \in [Codes -> [Sides -> Holding]]
  /\ pushed \subseteq Knock

-----------------------------------------------------------------------------
(* Positions *)

\* GetPosition: buying opens the long side and closes the short one.
Side(bs, oc) == IF (bs = "buy") = (oc = "open") THEN "long" ELSE "short"

YdAvailableWorking(p) == p.ydInit - p.ydClose   \* mutated form: the frozen part counts
YdAvailable(p) == p.ydInit - p.ydClosing - p.ydClose
TdAvailable(p) == p.tdInit + p.tdOpen - p.tdClosing - p.tdClose

\* What a flag closes: on SHFE, INE and CFFEX "close" means yesterday's position,
\* elsewhere today's first and then yesterday's.
Bucket(market, oc) ==
  CASE oc \in {"auto", "open"} -> "none"
    [] oc = "closeToday" -> "td"
    [] oc = "closeYesterday" -> "yd"
    [] oc = "close" /\ market \in {"SHFE", "INE", "CFFEX"} -> "yd"
    [] OTHER -> "both"

Least(a, b) == IF a <= b THEN a ELSE b
Deduct(n, v) == IF n >= v THEN n - v ELSE n

\* Update with an order volume, with a match volume, with a withdraw volume.
Freeze(p, bucket, v) ==
  CASE bucket = "none" -> p
    [] bucket = "yd" -> [p EXCEPT !.ydClosing = @ + v]
    [] bucket = "td" -> [p EXCEPT !.tdClosing = @ + v]
    [] bucket = "both" -> LET td == Least(TdAvailable(p), v)
                          IN [p EXCEPT !.tdClosing = @ + td, !.ydClosing = @ + (v - td)]

Match(p, oc, bucket, v) ==
  CASE bucket = "none" -> IF oc = "open" THEN [p EXCEPT !.tdOpen = @ + v] ELSE p
    [] bucket = "yd" -> [p EXCEPT !.ydClosing = Deduct(@, v), !.ydClose = @ + v]
    [] bucket = "td" -> [p EXCEPT !.tdClosing = Deduct(@, v), !.tdClose = @ + v]
    [] bucket = "both" -> LET td == Least(p.tdClosing, v)
                          IN [p EXCEPT !.tdClosing = @ - td, !.tdClose = @ + td,
                                       !.ydClosing = @ - (v - td), !.ydClose = @ + (v - td)]

ReleaseTodayOnly(p, bucket, v) ==   \* mutated form: nothing is left for yesterday
  CASE bucket = "none" -> p
    [] bucket = "yd" -> [p EXCEPT !.ydClosing = Deduct(@, v)]
    [] bucket \in {"td", "both"} -> [p EXCEPT !.tdClosing = Deduct(@, v)]
Release(p, bucket, v) ==
  CASE bucket = "none" -> p
    [] bucket = "yd" -> [p EXCEPT !.ydClosing = Deduct(@, v)]
    [] bucket = "td" -> [p EXCEPT !.tdClosing = Deduct(@, v)]
    [] bucket = "both" -> LET td == Least(p.tdClosing, v)
                          IN [p EXCEPT !.tdClosing = @ - td, !.ydClosing = @ - (v - td)]

InitPosition(h) == [ydInit |-> h.yd, ydClosing |-> 0, ydClose |-> 0,
                    tdInit |-> h.td, tdClosing |-> 0, tdClose |-> 0, tdOpen |-> 0]

CodesOf(type) == {c \in Codes : TypeOf[c] = type}
HeldToday(type) ==
  SumFunctionOnSet([e \in Codes \X Sides |-> held[e[1]][e[2]].td], CodesOf(type) \X Sides)

Init ==
  /\ held = Holdings
  /\ position = [c \in Codes |-> [s \in Sides |-> InitPosition(Holdings[c][s])]]
  /\ openCache = [t \in Types |-> HeldToday(t)]
  /\ knocks = {} /\ replies = {} /\ pushed = {} /\ toCounter = <<>>
  /\ task = Idle /\ sent = {}
  /\ ocFlag = [o \in Items |-> Asked(o)]
  /\ stage = [o \in Items |-> "new"]
  /\ rest = [o \in Items |-> 0]

-----------------------------------------------------------------------------
(* GetAutoOcFlag *)

Opened(code) == IF TypeOf[code] = NoType THEN 0 ELSE openCache[TypeOf[code]]

\* The position the order would close.
Opposite(o) == position[Code(o)][Side(Bs(o), "close")]

\* CFFEX: whatever is not "auto" becomes an opening order.
CffexFlagAlways(o) ==    \* mutated form: closes although the day has openings
  IF Asked(o) = "auto" /\ YdAvailable(Opposite(o)) >= Volume(o) THEN "close" ELSE "open"
CffexFlag(o) ==
  IF /\ Asked(o) = "auto"
     /\ Opened(Code(o)) = 0 /\ YdAvailable(Opposite(o)) >= Volume(o)
  THEN "close" ELSE "open"

ShfeFlag(o) ==
  CASE YdAvailable(Opposite(o)) >= Volume(o) -> "closeYesterday"
    [] /\ YdAvailable(Opposite(o)) < Volume(o)
       /\ TdAvailable(Opposite(o)) > Volume(o) -> "closeToday"
    [] OTHER -> "open"

DceFlag(o) ==
  IF YdAvailable(Opposite(o)) + TdAvailable(Opposite(o)) >= Volume(o) THEN "close" ELSE "open"

AutoOcFlag(o) ==
  CASE Market(o) = "CFFEX" -> CffexFlag(o)
    [] Market(o) # "CFFEX" /\ Asked(o) # "auto" -> Asked(o)
    [] Market(o) \in {"SHFE", "INE"} /\ Asked(o) = "auto" -> ShfeFlag(o)
    [] OTHER -> DceFlag(o)

\* GetAutoOcFlag throws: the limit of the day's openings.
BeyondOpeningLimitEach(o) ==    \* mutated form: earlier openings are not counted
  /\ Market(o) = "CFFEX" /\ MaxTodayOpening >= 0 /\ AutoOcFlag(o) = "open"
  /\ Volume(o) > MaxTodayOpening
BeyondOpeningLimit(o) ==
  /\ Market(o) = "CFFEX" /\ MaxTodayOpening >= 0 /\ AutoOcFlag(o) = "open"
  /\ Volume(o) + Opened(Code(o)) > MaxTodayOpening

-----------------------------------------------------------------------------
(* Update: the position of item o becomes what op makes of it.  open_cache_
   counts the orders; on a withdrawal the code subtracts the volume ordered in
   the same call, which is 0. *)

UpdatePosition(o, oc, p) ==
  position' = [position EXCEPT ![Code(o)][Side(Bs(o), oc)] = p]
PositionOf(o, oc) == position[Code(o)][Side(Bs(o), oc)]

CountOpeningWithdrawn(o, oc, ordered, withdrawn) ==   \* mutated form
  openCache' =
    IF oc = "open" /\ ForbidClosingToday /\ TypeOf[Code(o)] # NoType
    THEN [openCache EXCEPT ![TypeOf[Code(o)]] = @ - withdrawn]
    ELSE openCache
CountOpening(o, oc, ordered, withdrawn) ==
  openCache' =
    IF oc = "open" /\ ForbidClosingToday /\ TypeOf[Code(o)] # NoType
    THEN [openCache EXCEPT ![TypeOf[Code(o)]] =
            @ + ordered - (IF withdrawn > 0 THEN ordered ELSE 0)]
    ELSE openCache

HandleOrderReq(o, oc) ==
  /\ UpdatePosition(o, oc, Freeze(PositionOf(o, oc), Bucket(Market(o), oc), Volume(o)))
  /\ CountOpening(o, oc, Volume(o), 0)

HandleOrderRep(o) ==
  /\ UpdatePosition(o, ocFlag[o],
       Release(PositionOf(o, ocFlag[o]), Bucket(Market(o), ocFlag[o]), Volume(o)))
  /\ CountOpening(o, ocFlag[o], 0, Volume(o))

\* A withdrawal or a failure gives the rest of the order back.
HandleKnock(k) ==
  LET o == k.item
      bucket == Bucket(Market(o), ocFlag[o])
      p == PositionOf(o, ocFlag[o])
  IN /\ UpdatePosition(o, ocFlag[o],
          IF k.trade THEN Match(p, ocFlag[o], bucket, k.volume) ELSE Release(p, bucket, k.volume))
     /\ CountOpening(o, ocFlag[o], 0, IF k.trade THEN 0 ELSE k.volume)

-----------------------------------------------------------------------------
(* The main thread: MemBroker.  No other message is handled while a loop over
   the items of a message is under way. *)

Current == task.items[task.next]
Looping(kind) == task.kind = kind /\ task.next \in DOMAIN task.items
LoopEnded(kind) == task.kind = kind /\ task.next \notin DOMAIN task.items
NextItem == task' = [task EXCEPT !.next = @ + 1]

SendTradeOrder(r) ==
  /\ task = Idle
  /\ r \notin sent /\ Cardinality(sent) < MaxRequests
  /\ sent' = sent \cup {r}
  /\ task' = [kind |-> "order", items |-> ItemsOf(r), next |-> 1]
  /\ UNCHANGED <<masterVars, ocFlag, replies, stage, counterVars>>

FreezeItem ==
  /\ Looping("order") /\ ~BeyondOpeningLimit(Current)
  /\ ocFlag' = [ocFlag EXCEPT ![Current] = AutoOcFlag(Current)]
  /\ HandleOrderReq(Current, AutoOcFlag(Current))
  /\ stage' = [stage EXCEPT ![Current] = "frozen"]
  /\ NextItem
  /\ UNCHANGED <<knocks, sent, replies, counterVars>>

\* An exception ends the loop, or OnTradeOrder throws one: the reply returns the
\* whole request, items that were never frozen included.
Throw ==
  /\ \/ Looping("order") /\ BeyondOpeningLimit(Current)
     \/ LoopEnded("order")
  /\ replies' = replies \cup {task.items}
  /\ task' = Idle
  /\ UNCHANGED <<masterVars, sent, ocFlag, stage, counterVars>>

\* OnTradeOrder hands the request to the counter.
OnTradeOrder ==
  /\ LoopEnded("order")
  /\ stage' = [o \in Items |-> IF \E i \in DOMAIN task.items : task.items[i] = o
                               THEN "sent" ELSE stage[o]]
  /\ toCounter' = toCounter \o task.items
  /\ task' = Idle
  /\ UNCHANGED <<masterVars, sent, ocFlag, replies, rest, held, pushed>>

HandleTradeOrderRep ==
  /\ task = Idle
  /\ \E rep \in replies :
       /\ replies' = replies \ {rep}
       /\ task' = [kind |-> "reply", items |-> rep, next |-> 1]
  /\ UNCHANGED <<masterVars, sent, ocFlag, stage, counterVars>>

\* The items of a reply that have an order number are skipped: only the others
\* are in the sequence.
ReleaseItem ==
  /\ Looping("reply")
  /\ HandleOrderRep(Current)
  /\ stage' = [stage EXCEPT ![Current] = "ended"]
  /\ NextItem
  /\ UNCHANGED <<knocks, sent, ocFlag, replies, counterVars>>

ReplyDone ==
  /\ LoopEnded("reply")
  /\ task' = Idle
  /\ UNCHANGED <<masterVars, sent, ocFlag, replies, stage, counterVars>>

\* SendTradeKnock: a knock that was handled before changes nothing.
SendTradeKnock ==
  /\ task = Idle
  /\ \E k \in pushed :
       /\ k.no \notin knocks
       /\ knocks' = knocks \cup {k.no}
       /\ HandleKnock(k)
  /\ UNCHANGED <<task, sent, ocFlag, replies, stage, counterVars>>

-----------------------------------------------------------------------------
(* The counter and the exchange *)

\* Working volume of the orders that close the same position as o.
Closes(o, code, side, bucket) ==
  /\ Code(o) = code /\ ocFlag[o] # "open" /\ Side(Bs(o), ocFlag[o]) = side
  /\ Bucket(MarketOf[code], ocFlag[o]) = bucket
RealBucket(h, bucket) ==
  CASE bucket = "yd" -> h.yd [] bucket = "td" -> h.td [] OTHER -> h.yd + h.td
Covered(o) ==
  LET bucket == Bucket(Market(o), ocFlag[o])
      side == Side(Bs(o), ocFlag[o])
      rivals == {x \in Items : rest[x] > 0 /\ Closes(x, Code(o), side, bucket)}
  IN ocFlag[o] # "open" =>
       Volume(o) + SumFunctionOnSet(rest, rivals) <= RealBucket(held[Code(o)][side], bucket)

\* Requests arrive in the order they were sent.  One is refused for want of a
\* position, or for any other reason.
CounterAccepts ==
  /\ toCounter # <<>>
  /\ LET o == Head(toCounter)
     IN /\ Covered(o)
        /\ stage' = [stage EXCEPT ![o] = "working"]
        /\ rest' = [rest EXCEPT ![o] = Volume(o)]
  /\ toCounter' = Tail(toCounter)
  /\ UNCHANGED <<masterVars, task, sent, ocFlag, replies, held, pushed>>

CounterRefuses ==
  /\ toCounter # <<>>
  /\ stage' = [stage EXCEPT ![Head(toCounter)] = "refused"]
  /\ replies' = replies \cup {<<Head(toCounter)>>}
  /\ toCounter' = Tail(toCounter)
  /\ UNCHANGED <<masterVars, task, sent, ocFlag, rest, held, pushed>>

\* A trade of an order changes the real position: on DCE and CZCE today's goes first.
Traded(h, oc, bucket, v) ==
  CASE oc = "open" -> [h EXCEPT !.td = @ + v]
    [] bucket = "yd" -> [h EXCEPT !.yd = @ - v]
    [] bucket = "td" -> [h EXCEPT !.td = @ - v]
    [] OTHER -> [yd |-> h.yd - (v - Least(h.td, v)), td |-> h.td - Least(h.td, v)]

Trade(o, v) ==
  /\ v <= rest[o]
  /\ rest' = [rest EXCEPT ![o] = @ - v]
  /\ held' = [held EXCEPT ![Code(o)][Side(Bs(o), ocFlag[o])] =
                Traded(@, ocFlag[o], Bucket(Market(o), ocFlag[o]), v)]
  /\ pushed' = pushed \cup {[no |-> <<o, rest[o]>>, item |-> o, trade |-> TRUE, volume |-> v]}
  /\ UNCHANGED <<masterVars, task, sent, ocFlag, replies, stage, toCounter>>

\* kMatchTypeWithdrawOK or kMatchTypeFailed.
Withdraw(o) ==
  /\ rest[o] > 0
  /\ rest' = [rest EXCEPT ![o] = 0]
  /\ pushed' = pushed \cup {[no |-> <<o, rest[o]>>, item |-> o, trade |-> FALSE,
                             volume |-> rest[o]]}
  /\ UNCHANGED <<masterVars, task, sent, ocFlag, replies, stage, toCounter, held>>

-----------------------------------------------------------------------------
Broker ==
  \/ \E r \in Requests : SendTradeOrder(r)
  \/ FreezeItem \/ Throw \/ OnTradeOrder
  \/ HandleTradeOrderRep \/ ReleaseItem \/ ReplyDone
  \/ SendTradeKnock

Counter ==
  \/ CounterAccepts \/ CounterRefuses
  \/ \E o \in Items : (\E v \in 1 .. Volume(o) : Trade(o, v)) \/ Withdraw(o)

Next == Broker \/ Counter
Spec == Init /\ [][Next]_vars

-----------------------------------------------------------------------------
(* Safety. *)

\* What the broker has frozen for an item and not yet been told the end of.
Undelivered(o) ==
  SumFunctionOnSet([k \in pushed |-> k.volume], {k \in pushed : k.item = o /\ k.no \notin knocks})
Unsettled(o) ==
  CASE stage[o] \in {"frozen", "sent", "refused"} -> Volume(o)
    [] stage[o] = "working" -> rest[o] + Undelivered(o)
    [] OTHER -> 0

\* yd_closing_volume_ and td_closing_volume_ (inner_future_master.h:45, 49) are
\* exactly what closing orders may still take, whichever way each of them ends and
\* in whatever order the counter's messages come (inner_future_master.cc:242-329).
FrozenIsOutstanding ==
  LET closing == {o \in Items : ocFlag[o] # "open" /\ Unsettled(o) > 0}
  IN \A c \in Codes : \A s \in Sides :
    LET p == position[c][s]
        outstanding(bucket) ==
          SumFunctionOnSet([o \in Items |-> Unsettled(o)],
                           {o \in closing : Closes(o, c, s, bucket)})
    IN /\ p.ydClosing + p.tdClosing =
            outstanding("yd") + outstanding("td") + outstanding("both")
       /\ MarketOf[c] \in {"SHFE", "INE", "CFFEX"} => p.ydClosing = outstanding("yd")

\* An order whose flag the master chose never wants to close more than the account
\* holds when it reaches the counter, although the master knows of trades only what
\* it has been told (inner_future_master.cc:335-427).
AutoCloseCovered ==
  toCounter # <<>> /\ Asked(Head(toCounter)) = "auto" => Covered(Head(toCounter))

\* "每日最大开仓数限制", the limit of the openings of a day (conf/broker.yaml:50): what was
\* opened today and what may still be, over all the codes of a type.
OpeningToday(type) ==
  SumFunctionOnSet([o \in Items |-> IF stage[o] = "working" THEN rest[o] ELSE Volume(o)],
    {o \in Items : /\ TypeOf[Code(o)] = type /\ ocFlag[o] = "open"
                   /\ stage[o] \in {"sent", "working"}})
OpeningLimited ==
  MaxTodayOpening >= 0 =>
    \A t \in Types :
      \/ HeldToday(t) + OpeningToday(t) <= MaxTodayOpening
      \/ OpeningToday(t) = 0

\* "禁止平今": once something of a type was opened today, or may still be, no order of
\* that type is turned into a closing one (conf/broker.yaml:48,
\* inner_future_master.cc:380-389).
NoCloseAfterOpening ==
  [][\A o \in Items :
       LET type == TypeOf[Code(o)]
       IN type # NoType /\ ocFlag[o] # "close" /\ ocFlag'[o] = "close"
            => HeldToday(type) = 0 /\ OpeningToday(type) = 0]_vars
==============================================================================

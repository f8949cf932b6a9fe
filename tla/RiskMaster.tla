------------------------------ MODULE RiskMaster ------------------------------
(***************************************************************************)
(* RiskMaster and its surroundings.  Three threads share it: the gateway   *)
(* thread (MemBrokerServer::ReadReqMem) hands a request over and spins     *)
(* until async_state_ is done, the server's main thread (HandleQueueMessage) *)
(* pushes replies and knocks, and the risk thread works off trade_queue_.  *)
(* Between the gateway and the main thread lie flow control, counter and   *)
(* exchange: what happens there to an order is the history variable life,  *)
(* and what they return arrives in any order.                              *)
(*                                                                         *)
(* The loops of the risk thread touch only its own state, so nothing else  *)
(* moves while it is in the middle of a message.                           *)
(***************************************************************************)
EXTENDS AntiSelfKnock

CONSTANTS
  OwnFund,             \* the account of this broker
  Overtaking,          \* <<message, type>>: knocks that may overtake the reply
  LateReplies,         \* whether a reply may take longer than OrderTimeout
  WithdrawsHonoured,   \* whether a withdrawal of a working order succeeds in time
  Duplicates,          \* whether the counter may push a trade twice
  MaxLag, MaxTime      \* bounds of the state space: replies and knocks the risk
                       \* thread is behind with, ticks

ASSUME RiskMasterAssumption ==
  /\ OwnFund \in Funds
  /\ Overtaking \subseteq Messages \X {"trade", "withdrawn", "failed"}
  /\ LateReplies \in BOOLEAN /\ WithdrawsHonoured \in BOOLEAN /\ Duplicates \in BOOLEAN
  /\ MaxLag \in Nat \ {0} /\ MaxTime \in Nat

VARIABLES
  task,          \* what the risk thread is in the middle of
  tradeQueue,    \* trade_queue_
  asyncState,    \* async_state_
  asyncResult,   \* async_result_: "" or an error
  caller,        \* the request the gateway thread spins for
  verdict,       \* history: what became of each message
  checkedAt,     \* history: when the risk thread took a message up
  life,          \* history: whether an order works, per order number
  left,          \* history: its volume not traded yet
  replied,       \* history: messages the counter has replied to
  told,          \* messages whose reply the main thread has seen
  returns,       \* returned by counter or exchange, not seen by the main thread yet
  withdrawal,    \* history: per message, the withdrawal under way or done
  again,         \* history: trades pushed twice
  repMemory,     \* reply memory: replies of other brokers not read yet
  readForeign    \* history: other brokers' messages whose reply was read

gatewayVars == <<asyncState, asyncResult, caller, verdict, checkedAt>>
truthVars == <<life, left, replied, returns, withdrawal, again>>
foreignVars == <<repMemory, readForeign>>
vars == <<now, riskerVars, task, tradeQueue, gatewayVars, truthVars, told, foreignVars>>

Idle == [kind |-> "idle"]
Own == {m \in Messages : m.fund = OwnFund}

Reply == [kind: {"rep"}, msg: Messages, accepted: SUBSET Nat]
WithdrawReply == [kind: {"wrep"}, msg: Messages, item: Nat, ok: BOOLEAN]
Returns == Reply \cup WithdrawReply \cup Knock
OrderRequest == [kind: {"order"}, msg: Messages]
WithdrawRequest == [kind: {"withdraw"}, msg: Messages, item: Nat]
NoWithdrawal == [state |-> "none", item |-> 0]

TypeOK ==
  /\ now \in Nat
  /\ orders \in Seq(Order)
  /\ book \subseteq DOMAIN orders
  /\ DOMAIN single \subseteq Numbers /\ \A n \in DOMAIN single : single[n] \in DOMAIN orders
  /\ DOMAIN batch \subseteq Messages
  /\ \A m \in DOMAIN batch : \A k \in DOMAIN batch[m] : batch[m][k] \in DOMAIN orders
  /\ DOMAIN early \subseteq Numbers
  /\ tradeQueue \in Seq(Returns \cup OrderRequest \cup WithdrawRequest)
  /\ asyncState \in {"idle", "running", "done"}
  /\ caller \in {Idle} \cup OrderRequest \cup WithdrawRequest
  /\ verdict \in [Messages -> {"new", "checking", "passed", "refused"}]
  /\ life \in [Numbers -> {"none", "working", "ended"}]
  /\ left \in [Numbers -> Nat]
  /\ returns \subseteq Returns

-----------------------------------------------------------------------------
Init ==
  /\ now = 1
  /\ orders = <<>> /\ book = {}
  /\ single = [n \in {} |-> 0] /\ batch = [m \in {} |-> <<>>] /\ early = [n \in {} |-> <<>>]
  /\ task = Idle /\ tradeQueue = <<>>
  /\ asyncState = "idle" /\ asyncResult = "" /\ caller = Idle
  /\ verdict = [m \in Messages |-> "new"] /\ checkedAt = [m \in Messages |-> 0]
  /\ life = [n \in Numbers |-> "none"]
  /\ left = [n \in Numbers |-> n[1].items[n[2]].volume]
  /\ replied = {} /\ told = {} /\ returns = {}
  /\ withdrawal = [m \in Messages |-> NoWithdrawal]
  /\ again = {} /\ repMemory = <<>> /\ readForeign = {}

-----------------------------------------------------------------------------
(* The gateway thread. *)

\* HandleTradeOrderReq up to the spinning ...
Request(m) ==
  /\ m \in Own /\ verdict[m] = "new"
  /\ asyncState = "idle" /\ caller = Idle
  /\ asyncState' = "running" /\ caller' = [kind |-> "order", msg |-> m]
  /\ tradeQueue' = Append(tradeQueue, [kind |-> "order", msg |-> m])
  /\ verdict' = [verdict EXCEPT ![m] = "checking"]
  /\ UNCHANGED <<now, riskerVars, task, asyncResult, checkedAt, truthVars, told, foreignVars>>

\* ... and after it: on to flow control and counter, or back to the client by
\* way of an error reply.
Collect ==
  /\ caller.kind = "order" /\ asyncState = "done"
  /\ asyncState' = "idle" /\ caller' = Idle
  /\ LET m == caller.msg
     IN IF asyncResult = ""
        THEN /\ verdict' = [verdict EXCEPT ![m] = "passed"]
             /\ life' = [n \in Numbers |-> IF n \in NumbersOf(m) THEN "working" ELSE life[n]]
             /\ UNCHANGED <<returns, replied>>
        ELSE /\ verdict' = [verdict EXCEPT ![m] = "refused"]
             /\ returns' = returns \cup {[kind |-> "rep", msg |-> m, accepted |-> {}]}
             /\ replied' = replied \cup {m}
             /\ UNCHANGED life
  /\ UNCHANGED <<now, riskerVars, task, tradeQueue, asyncResult, checkedAt, left, withdrawal,
                 again, told, foreignVars>>

\* HandleTradeWithdrawReq; the client knows the numbers from the reply.
RequestWithdraw(m, i) ==
  /\ m \in Own \cap told /\ withdrawal[m].state = "none"
  /\ i \in Items(m) \/ (i = 0 /\ IsBatch(m))
  /\ \E n \in NumbersOf(m) : life[n] = "working" /\ (i = 0 \/ n = <<m, i>>)
  /\ asyncState = "idle" /\ caller = Idle
  /\ asyncState' = "running" /\ caller' = [kind |-> "withdraw", msg |-> m, item |-> i]
  /\ tradeQueue' = Append(tradeQueue, [kind |-> "withdraw", msg |-> m, item |-> i])
  /\ UNCHANGED <<now, riskerVars, task, asyncResult, verdict, checkedAt, truthVars, told,
                 foreignVars>>

CollectWithdraw ==
  /\ caller.kind = "withdraw" /\ asyncState = "done"
  /\ asyncState' = "idle" /\ caller' = Idle
  /\ withdrawal' = [withdrawal EXCEPT ![caller.msg] =
                      [state |-> "asked", item |-> caller.item]]
  /\ UNCHANGED <<now, riskerVars, task, tradeQueue, asyncResult, verdict, checkedAt, life, left,
                 replied, returns, again, told, foreignVars>>

-----------------------------------------------------------------------------
(* Counter and exchange. *)

CounterReply(m, accepted) ==
  /\ verdict[m] = "passed" /\ m \notin replied
  /\ \A i \in Items(m) \ accepted : life[<<m, i>>] = "working" /\ left[<<m, i>>] = m.items[i].volume
  /\ replied' = replied \cup {m}
  /\ returns' = returns \cup {[kind |-> "rep", msg |-> m, accepted |-> accepted]}
  /\ life' = [n \in Numbers |->
                IF n[1] = m /\ n[2] \notin accepted THEN "ended" ELSE life[n]]
  /\ UNCHANGED <<now, riskerVars, task, tradeQueue, gatewayVars, left, withdrawal, again, told,
                 foreignVars>>

\* Part of an order is traded.
Trade(n, v) ==
  /\ life[n] = "working" /\ n[1] \in Own /\ v \in 1 .. left[n]
  /\ n[1] \in replied \/ <<n[1], "trade">> \in Overtaking
  /\ left' = [left EXCEPT ![n] = @ - v]
  /\ life' = [life EXCEPT ![n] = IF v = left[n] THEN "ended" ELSE @]
  /\ returns' = returns \cup {[kind |-> "knock", number |-> n, type |-> "trade", volume |-> v,
                               left |-> left[n] - v]}
  /\ UNCHANGED <<now, riskerVars, task, tradeQueue, gatewayVars, replied, withdrawal, again, told,
                 foreignVars>>

\* The exchange ends an order of its own accord.
End(n, type) ==
  /\ life[n] = "working" /\ n[1] \in Own /\ type \in {"withdrawn", "failed"}
  /\ type = "failed" => left[n] = n[1].items[n[2]].volume
  /\ n[1] \in replied \/ <<n[1], type>> \in Overtaking
  /\ life' = [life EXCEPT ![n] = "ended"]
  /\ returns' = returns \cup {[kind |-> "knock", number |-> n, type |-> type, volume |-> left[n],
                               left |-> left[n]]}
  /\ UNCHANGED <<now, riskerVars, task, tradeQueue, gatewayVars, left, replied, withdrawal, again,
                 told, foreignVars>>

\* A withdrawal is carried out for what still works, or fails.
Withdraw(m, ok) ==
  /\ withdrawal[m].state = "asked"
  /\ LET i == withdrawal[m].item
         hit == {n \in NumbersOf(m) : life[n] = "working" /\ (i = 0 \/ n = <<m, i>>)}
     IN /\ ok => hit # {}
        /\ ~ok /\ WithdrawsHonoured => hit = {}
        /\ life' = [n \in Numbers |-> IF ok /\ n \in hit THEN "ended" ELSE life[n]]
        /\ returns' = returns
             \cup {[kind |-> "wrep", msg |-> m, item |-> i, ok |-> ok]}
             \cup (IF ok THEN {[kind |-> "knock", number |-> n, type |-> "withdrawn",
                                volume |-> left[n], left |-> left[n]] : n \in hit} ELSE {})
  /\ withdrawal' = [withdrawal EXCEPT ![m].state = "done"]
  /\ UNCHANGED <<now, riskerVars, task, tradeQueue, gatewayVars, left, replied, again, told,
                 foreignVars>>

\* The order of another account, sent by its own broker, and its reply.
ForeignOrder(m) ==
  /\ m \notin Own /\ verdict[m] = "new"
  /\ verdict' = [verdict EXCEPT ![m] = "passed"]
  /\ life' = [n \in Numbers |-> IF n \in NumbersOf(m) THEN "working" ELSE life[n]]
  /\ replied' = replied \cup {m}
  /\ repMemory' = Append(repMemory, m)
  /\ UNCHANGED <<now, riskerVars, task, tradeQueue, asyncState, asyncResult, caller, checkedAt, left,
                 returns, withdrawal, again, told, readForeign>>

-----------------------------------------------------------------------------
(* The main thread: HandleTradeOrderRep, HandleTradeWithdrawRep, OnTradeKnock.
   It drops a copy of a knock only after the risk queue has got it. *)
Deliver(r) ==
  /\ r \in returns /\ Len(tradeQueue) < MaxLag
  /\ r.kind = "knock" => r.number[1] \in told \/ <<r.number[1], r.type>> \in Overtaking
  /\ tradeQueue' = Append(tradeQueue, r)
  /\ told' = IF r.kind = "rep" THEN told \cup {r.msg} ELSE told
  /\ \/ returns' = returns \ {r} /\ again' = again
     \/ /\ Duplicates /\ r.kind = "knock" /\ r \notin again /\ r.type = "trade"
        /\ returns' = returns /\ again' = again \cup {r}
  /\ UNCHANGED <<now, riskerVars, task, gatewayVars, life, left, replied, withdrawal, foreignVars>>

-----------------------------------------------------------------------------
(* The risk thread. *)

Frame == UNCHANGED <<now, caller, verdict, truthVars, told, foreignVars>>
Answer(result) == asyncState' = "done" /\ asyncResult' = result

RefuseSilently ==   \* mutated form: the gateway thread is not told
  UNCHANGED <<asyncState, asyncResult>>
Refuse == Answer("error")

\* A message leaves trade_queue_ and the handlers of the riskers begin.
Take ==
  /\ task = Idle /\ tradeQueue # <<>>
  /\ tradeQueue' = Tail(tradeQueue)
  /\ LET r == Head(tradeQueue)
     IN \/ /\ r.kind = "order"
           /\ task' = [kind |-> "check", msg |-> r.msg, item |-> 1]
           /\ checkedAt' = [checkedAt EXCEPT ![r.msg] = now]
           /\ UNCHANGED <<riskerVars, asyncState, asyncResult>>
        \/ /\ r.kind = "withdraw"
           /\ HandleTradeWithdrawReq(r.msg, r.item)
           /\ Answer("") /\ task' = Idle /\ UNCHANGED checkedAt
        \/ /\ r.kind = "rep"
           /\ task' = [kind |-> "rep", msg |-> r.msg, item |-> 1, accepted |-> r.accepted,
                       members |-> <<>>, knocks |-> <<>>]
           /\ UNCHANGED <<riskerVars, asyncState, asyncResult, checkedAt>>
        \/ /\ r.kind = "wrep"
           /\ HandleTradeWithdrawRep(r.msg, r.item, r.ok)
           /\ task' = Idle /\ UNCHANGED <<asyncState, asyncResult, checkedAt>>
        \/ /\ r.kind = "knock"
           /\ OnTradeKnock(r)
           /\ task' = Idle /\ UNCHANGED <<asyncState, asyncResult, checkedAt>>
  /\ Frame

\* HandleTradeOrderReq of the riskers, item by item ...
Check ==
  /\ task.kind = "check"
  /\ LET m == task.msg
         i == task.item
     IN \/ /\ i \in Items(m) /\ Fails(m, i)
           /\ CheckItem(m, i) /\ Refuse /\ task' = Idle
        \/ /\ i \in Items(m) /\ ~Fails(m, i)
           /\ CheckItem(m, i) /\ task' = [task EXCEPT !.item = i + 1]
           /\ UNCHANGED <<asyncState, asyncResult>>
        \/ /\ i \notin Items(m)
           /\ task' = [kind |-> "pass", msg |-> m, item |-> 1]
           /\ UNCHANGED <<riskerVars, asyncState, asyncResult>>
  /\ UNCHANGED <<tradeQueue, checkedAt>> /\ Frame

\* ... and when all have passed OnTradeOrderReqPass, before the gateway thread is told.
Pass ==
  /\ task.kind = "pass"
  /\ LET m == task.msg
         i == task.item
     IN \/ /\ i \in Items(m)
           /\ PassItem(m, i) /\ task' = [task EXCEPT !.item = i + 1]
           /\ UNCHANGED <<asyncState, asyncResult>>
        \/ /\ i \notin Items(m)
           /\ Answer("") /\ task' = Idle /\ UNCHANGED riskerVars
  /\ UNCHANGED <<tradeQueue, checkedAt>> /\ Frame

\* HandleTradeOrderRep of the risker, item by item; the knocks that came before
\* the reply are one local variable: that of a later item replaces the earlier.
RegisterReply(m, i, o) ==
  /\ RepItemKnown(m, i, o) \/ RepItemUnknown(m, i, o)
  /\ task' = [task EXCEPT
       !.item = i + 1,
       !.members = IF IsBatch(m) THEN Append(@, o) ELSE @,
       !.knocks = IF <<m, i>> \in DOMAIN early THEN early[<<m, i>>] ELSE @]

HandleRep ==
  /\ task.kind = "rep"
  /\ LET m == task.msg
         i == task.item
     IN \/ /\ i \in Items(m) /\ ~Guards(m, i)
           /\ task' = [task EXCEPT !.item = i + 1]
           /\ UNCHANGED riskerVars
        \/ /\ i \in Items(m) /\ Guards(m, i) /\ i \notin task.accepted
           /\ RepItemRejected(m, i)
           /\ task' = [task EXCEPT !.item = i + 1]
        \/ /\ i \in Items(m) /\ Guards(m, i) /\ i \in task.accepted
           /\ \E o \in OfReply(m, i) \cup {Len(orders) + 1} : RegisterReply(m, i, o)
        \/ /\ i \notin Items(m)
           /\ RegisterBatch(m, task.members)
           /\ task' = [kind |-> "knocks", rest |-> task.knocks]
  /\ UNCHANGED <<tradeQueue, asyncState, asyncResult, checkedAt>> /\ Frame

ReplayKnock ==
  /\ task.kind = "knocks"
  /\ \/ /\ task.rest = <<>>
        /\ task' = Idle /\ UNCHANGED riskerVars
     \/ /\ task.rest # <<>>
        /\ OnTradeKnock(Head(task.rest))
        /\ task' = [task EXCEPT !.rest = Tail(@)]
  /\ UNCHANGED <<tradeQueue, asyncState, asyncResult, checkedAt>> /\ Frame

\* The reader of the reply memory: it looks at the last message of trade_queue_
\* again instead of the one it has just read; that is of its own account and passed
\* over.  (Before the first request it reads an empty string: not modelled.)
ReadRep ==
  /\ task = Idle /\ tradeQueue = <<>> /\ repMemory # <<>>
  /\ \E m \in Own : checkedAt[m] > 0
  /\ repMemory' = Tail(repMemory)
  /\ readForeign' = readForeign \cup {Head(repMemory)}
  /\ UNCHANGED <<now, riskerVars, task, tradeQueue, gatewayVars, truthVars, told>>

RiskThread == Take \/ Check \/ Pass \/ HandleRep \/ ReplayKnock \/ ReadRep

-----------------------------------------------------------------------------
\* Time passes; unless replies are late, no order waits for its reply for longer
\* than the risker does, and the like for withdrawals that are honoured.
Tick ==
  /\ now < MaxTime
  /\ \A o \in book :
       /\ ~LateReplies /\ orders[o].number = NoNumber => now < orders[o].born + OrderTimeout
       /\ /\ WithdrawsHonoured /\ orders[o].withdrawAsked > 0
          /\ life[orders[o].number] = "working"
          => now < orders[o].withdrawAsked + OrderTimeout
  /\ now' = now + 1
  /\ UNCHANGED <<riskerVars, task, tradeQueue, gatewayVars, truthVars, told, foreignVars>>

Surroundings ==
  \/ Tick
  \/ \E m \in Messages :
       \/ Request(m) \/ ForeignOrder(m)
       \/ \E accepted \in SUBSET Items(m) : CounterReply(m, accepted)
       \/ \E i \in 0 .. Len(m.items) : RequestWithdraw(m, i)
       \/ \E ok \in BOOLEAN : Withdraw(m, ok)
  \/ Collect \/ CollectWithdraw
  \/ \E n \in Numbers :
       \/ \E v \in 1 .. left[n] : Trade(n, v)
       \/ \E type \in {"withdrawn", "failed"} : End(n, type)
  \/ \E r \in returns : Deliver(r)

Next == RiskThread \/ (task = Idle /\ Surroundings)

Spec == Init /\ [][Next]_vars

-----------------------------------------------------------------------------
(* Properties. *)

Opposed(a, b) ==
  LET x == a[1].items[a[2]]
      y == b[1].items[b[2]]
  IN /\ a[1].side = "buy" /\ b[1].side = "sell" /\ x.code = y.code /\ x.price >= y.price
     /\ Guards(a[1], a[2]) /\ Guards(b[1], b[2])

\* Two orders of this broker that could trade with each other never work at the
\* same time, unless the later one was sent during an auction
\* (order_book.cc:55-120, anti_self_knock_risker.cc:38-59).
NoSelfKnock ==
  \A a, b \in Numbers :
    /\ life[a] = "working" /\ life[b] = "working" /\ Opposed(a, b)
    /\ a[1] \in Own /\ b[1] \in Own
    => Max({checkedAt[a[1]], checkedAt[b[1]]}) \in Auction

\* Something about the order is still on its way to the risk thread.
Outstanding(n) ==
  \/ n[1] \notin replied
  \/ \E r \in returns \cup Range(tradeQueue) :
       \/ r.kind = "rep" /\ r.msg = n[1]
       \/ r.kind = "wrep" /\ r.msg = n[1] /\ r.item \in {0, n[2]}
       \/ r.kind = "knock" /\ r.number = n

\* "At the latest the check removes an order that has ended"
\* (anti_self_knock_risker.h:63): an order that has ended and of which everything
\* has been heard does not stand in the way of later ones for good.
NoGhost ==
  task = Idle =>
    \A o \in book :
      LET n == orders[o].number
      IN n # NoNumber /\ ~Finished(orders[o]) /\ orders[o].withdrawAsked = 0
           => life[n] = "working" \/ Outstanding(n)

\* What the risker takes an order to have traded, it has: trades that come before the
\* reply, are kept and replayed, and withdrawals of what is left count once and for
\* what they are.  It relies on the gateway not to report a trade twice
\* (anti_self_knock_risker.cc:204), which HandleQueueMessage does not ensure
\* (mem_server.cc:308); with Duplicates it fails.
CountedOnce ==
  \A o \in DOMAIN orders :
    LET n == orders[o].number
    IN n # NoNumber => orders[o].matched <= n[1].items[n[2]].volume - left[n]

\* However late the reply comes: once the risk thread has dealt with it, a working
\* order no withdrawal was asked for stands in its book (order_book.cc:131-198,
\* a trade pushed twice excepted).
KnownIsGuarded ==
  task = Idle =>
    \A n \in Numbers :
      /\ n[1] \in told /\ life[n] = "working" /\ Guards(n[1], n[2])
      /\ \A k \in DOMAIN tradeQueue : tradeQueue[k].kind = "rep" => tradeQueue[k].msg # n[1]
      /\ \A o \in DOMAIN orders : orders[o].number = n => orders[o].withdrawAsked = 0
      /\ \A r \in again : r.number # n
      => \E o \in book : orders[o].number = n /\ ~Finished(orders[o])

\* The handshake of the gateway and the risk thread (risk_master.cc:308-333,
\* 152-156, 182-186).  While the gateway thread spins, its request is in the queue
\* or worked on, and it is the only one; the answer is that to its own request:
\* what it takes for passed is in the books, what it takes for refused is not.
Handshake ==
  /\ caller # Idle <=> asyncState # "idle"
  /\ LET asked == {k \in DOMAIN tradeQueue : tradeQueue[k].kind \in {"order", "withdraw"}}
     IN IF asyncState = "running" /\ task.kind \notin {"check", "pass"} THEN Cardinality(asked) = 1
        ELSE asked = {}
  /\ \A m \in Own :
       /\ \E i \in Items(m) : Guards(m, i)
       /\ caller.kind = "order" /\ asyncState = "done" /\ caller.msg = m
       => (asyncResult = "" <=> \E o \in book : orders[o].msg = m)

\* Once it was read that another account has a working order, no order of this
\* broker that could trade with it passes ("the other accounts' orders are read
\* from rep and controlled after the fact", mem_server.cc:210).
JustPassed(m) ==
  task.kind = "pass" /\ task.msg = m /\ asyncState' = "done" /\ asyncResult' = ""
ForeignRespected ==
  [][\A m \in Own : JustPassed(m) /\ now \notin Auction =>
       \A f \in readForeign : \A a \in NumbersOf(m), b \in NumbersOf(f) :
         life[b] = "working" => ~Opposed(a, b) /\ ~Opposed(b, a)]_vars
==============================================================================

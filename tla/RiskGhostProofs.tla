---------------------------- MODULE RiskGhostProofs ----------------------------
(***************************************************************************)
(* Orders that have ended do not stay in the way (NoGhost of RiskMaster).  *)
(* Each invariant states what the one before it leaves open:               *)
(*   RepliesOnce, InOrder  the main thread hands each reply on once, and   *)
(*               the knocks that may not overtake it behind it;            *)
(*   NumbersGiven, Registered  an order gets its number once, and the      *)
(*               risker finds its object until that is finished;           *)
(*   KeptKnocks  whose knocks came before the reply;                       *)
(*   Announced   what no knock tells of an order any more, its object has. *)
(* The theorem: RiskNoGhost (DistinctPrices, MildOvertaking).              *)
(***************************************************************************)
EXTENDS RiskMasterProofs

-----------------------------------------------------------------------------
(* What is still to be heard of an order. *)

\* A reply comes once, and knocks that may not overtake it come behind it.
RepOf(r, m) == r.kind = "rep" /\ r.msg = m
RepliesOnce ==
  /\ \A r \in returns : r.kind = "rep" => r.msg \notin told
  /\ \A r, s \in returns : r.kind = "rep" /\ RepOf(s, r.msg) => r = s
  /\ \A j \in DOMAIN tradeQueue : tradeQueue[j].kind = "rep" =>
       /\ tradeQueue[j].msg \in told
       /\ \A i \in DOMAIN tradeQueue : RepOf(tradeQueue[i], tradeQueue[j].msg) => i = j
  /\ task.kind = "rep" =>
       /\ task.msg \in told
       /\ \A j \in DOMAIN tradeQueue : ~RepOf(tradeQueue[j], task.msg)
Follows(k) == k.kind = "knock" /\ <<k.number[1], k.type>> \notin Overtaking
InOrder ==
  \A j \in DOMAIN tradeQueue : Follows(tradeQueue[j]) =>
    /\ tradeQueue[j].number[1] \in told
    /\ \A i \in DOMAIN tradeQueue : RepOf(tradeQueue[i], tradeQueue[j].number[1]) => i < j

\* The reply to order n that gives it its number is still to come or to be dealt with.
Gives(r, n) == RepOf(r, n[1]) /\ n[2] \in r.accepted
ToNumber(n) ==
  \/ n[1] \notin replied
  \/ \E r : Heard(r) /\ Gives(r, n)
  \/ Gives(task, n) /\ task.item <= n[2]

\* The knocks of an order that are under way, the lots traded that none of them
\* tells of, and an end before all was traded that none of them tells of.
Coming(n, k) == Heard(k) /\ k.kind = "knock" /\ k.number = n
Untold(n) ==
  {u \in (left[n] + 1) .. VolumeOf(n) : \A k : Coming(n, k) /\ k.type = "trade" => Misses(u, k)}
EndComing(n) == \E k : Coming(n, k) /\ k.type # "trade"
Unexplained(n) == life[n] = "ended" /\ left[n] # 0 /\ ~EndComing(n)

\* What the main thread, the gateway thread and the counter do to the queue.
LEMMA QueueArrival ==
  ASSUME TypeInv, Surroundings \/ ReadRep \/ UNCHANGED vars
  PROVE  \/ UNCHANGED <<tradeQueue, told>> /\ returns \subseteq returns'
         \/ \E x \in Queued : /\ x.kind \in {"order", "withdraw"}
                              /\ tradeQueue' = Append(tradeQueue, x)
                              /\ UNCHANGED <<told, returns>>
         \/ \E r \in returns : Deliver(r)
<1>1. ASSUME NEW m \in Messages, Request(m)
      PROVE  \E x \in Queued : /\ x.kind \in {"order", "withdraw"}
                               /\ tradeQueue' = Append(tradeQueue, x)
                               /\ UNCHANGED <<told, returns>>
  <2>1. PICK x : x = [kind |-> "order", msg |-> m]
    OBVIOUS
  <2>2. tradeQueue' = Append(tradeQueue, x) /\ UNCHANGED <<told, returns>>
    BY <1>1, <2>1 DEF Request, truthVars
  <2>3. x \in Queued /\ x.kind = "order"
    BY <2>1 DEF Queued, OrderRequest
  <2>4. QED
    BY <2>2, <2>3
<1>2. ASSUME NEW m \in Messages, NEW i \in 0 .. Len(m.items), RequestWithdraw(m, i)
      PROVE  \E x \in Queued : /\ x.kind \in {"order", "withdraw"}
                               /\ tradeQueue' = Append(tradeQueue, x)
                               /\ UNCHANGED <<told, returns>>
  <2>1. PICK x : x = [kind |-> "withdraw", msg |-> m, item |-> i]
    OBVIOUS
  <2>2. tradeQueue' = Append(tradeQueue, x) /\ UNCHANGED <<told, returns>>
    BY <1>2, <2>1 DEF RequestWithdraw, truthVars
  <2>3. x \in Queued /\ x.kind = "withdraw"
    <3>1. i \in Nat
      BY ItemsFacts
    <3>2. QED
      BY <2>1, <3>1 DEF Queued, WithdrawRequest
  <2>4. QED
    BY <2>2, <2>3
<1>3. ASSUME NEW m \in Messages, NEW accepted, CounterReply(m, accepted)
      PROVE  UNCHANGED <<tradeQueue, told>> /\ returns \subseteq returns'
  BY <1>3 DEF CounterReply
<1>4. ASSUME NEW m \in Messages, NEW ok, Withdraw(m, ok)
      PROVE  UNCHANGED <<tradeQueue, told>> /\ returns \subseteq returns'
  BY <1>4 DEF Withdraw
<1>5. ASSUME Collect PROVE UNCHANGED <<tradeQueue, told>> /\ returns \subseteq returns'
  BY <1>5 DEF Collect
<1>6. CASE \/ Tick \/ CollectWithdraw \/ ReadRep \/ UNCHANGED vars
           \/ \E m \in Messages : ForeignOrder(m)
           \/ \E n \in Numbers :
                \/ \E v \in 1 .. left[n] : Trade(n, v)
                \/ \E type \in {"withdrawn", "failed"} : End(n, type)
  <2>1. UNCHANGED <<tradeQueue, told>> /\ returns \subseteq returns'
    BY <1>6 DEF Tick, CollectWithdraw, ReadRep, ForeignOrder, Trade, End, vars, truthVars
  <2>2. QED
    BY <2>1
<1>7. QED
  BY <1>1, <1>2, <1>3, <1>4, <1>5, <1>6 DEF Surroundings

\* A reply that is new is that to a message that had none.
LEMMA NewReply ==
  ASSUME TypeInv, HandInv, Surroundings \/ ReadRep \/ UNCHANGED vars,
         NEW r \in returns', r \notin returns, r.kind = "rep"
  PROVE  /\ r.msg \in Messages /\ r.msg \notin replied
         /\ \A s \in returns' : s \in returns \/ s = r
         /\ r.accepted # {} => verdict[r.msg] = "passed"
         /\ UNCHANGED <<tradeQueue, told>>
<1>1. ASSUME NEW m \in Messages, NEW accepted, CounterReply(m, accepted)
      PROVE  /\ r.msg \in Messages /\ r.msg \notin replied
             /\ \A s \in returns' : s \in returns \/ s = r
             /\ r.accepted # {} => verdict[r.msg] = "passed"
             /\ UNCHANGED <<tradeQueue, told>>
  <2>1. PICK x : x = [kind |-> "rep", msg |-> m, accepted |-> accepted]
    OBVIOUS
  <2>2. returns' = returns \cup {x} /\ m \notin replied /\ verdict[m] = "passed"
        /\ UNCHANGED <<tradeQueue, told>>
    BY <1>1, <2>1 DEF CounterReply
  <2>3. r = x /\ x.msg = m
    BY <2>1, <2>2
  <2>4. QED
    BY <2>2, <2>3
<1>2. ASSUME Collect
      PROVE  /\ r.msg \in Messages /\ r.msg \notin replied
             /\ \A s \in returns' : s \in returns \/ s = r
             /\ r.accepted # {} => verdict[r.msg] = "passed"
             /\ UNCHANGED <<tradeQueue, told>>
  <2>1. PICK m \in Messages : m = caller.msg /\ verdict[m] = "checking"
    BY <1>2 DEF Collect, HandInv, ObjectsPassed, Own
  <2>2. PICK x : x = [kind |-> "rep", msg |-> m, accepted |-> {}]
    OBVIOUS
  <2>3. returns' = returns \cup {x} /\ UNCHANGED <<tradeQueue, told>>
    BY <1>2, <2>1, <2>2 DEF Collect
  <2>4. r = x /\ x.msg = m /\ x.accepted = {}
    BY <2>2, <2>3
  <2>5. m \notin replied
    BY <2>1 DEF HandInv, RepliesSettled
  <2>6. QED
    BY <2>1, <2>3, <2>4, <2>5
<1>3. ASSUME NEW m \in Messages, NEW ok, Withdraw(m, ok) PROVE FALSE
  <2>1. PICK i : i = withdrawal[m].item
    OBVIOUS
  <2>2. \/ r = [kind |-> "wrep", msg |-> m, item |-> i, ok |-> ok]
        \/ \E n : r = [kind |-> "knock", number |-> n, type |-> "withdrawn",
                       volume |-> left[n], left |-> left[n]]
    BY <1>3, <2>1 DEF Withdraw
  <2>3. QED
    BY <2>2
<1>4. ASSUME NEW n \in Numbers, NEW v, Trade(n, v) PROVE FALSE
  <2>1. r = [kind |-> "knock", number |-> n, type |-> "trade", volume |-> v, left |-> left[n] - v]
    BY <1>4 DEF Trade
  <2>2. QED
    BY <2>1
<1>5. ASSUME NEW n \in Numbers, NEW type, End(n, type) PROVE FALSE
  <2>1. r = [kind |-> "knock", number |-> n, type |-> type, volume |-> left[n], left |-> left[n]]
    BY <1>5 DEF End
  <2>2. QED
    BY <2>1
<1>6. ASSUME NEW s \in returns, Deliver(s) PROVE FALSE
  BY <1>6 DEF Deliver
<1>7. CASE \/ Tick \/ CollectWithdraw \/ ReadRep \/ UNCHANGED vars
           \/ \E m \in Messages : ForeignOrder(m) \/ Request(m)
                                  \/ \E i \in 0 .. Len(m.items) : RequestWithdraw(m, i)
  BY <1>7 DEF Tick, CollectWithdraw, ReadRep, ForeignOrder, Request, RequestWithdraw, vars, truthVars
<1>8. QED
  BY <1>1, <1>2, <1>3, <1>4, <1>5, <1>6, <1>7 DEF Surroundings

\* The main thread puts each reply into the queue once, and the knocks that follow it behind it.
LEMMA OnceOutside ==
  ASSUME TypeInv, HandInv, Lives, RepliesOnce, InOrder, Surroundings \/ ReadRep \/ UNCHANGED vars
  PROVE  RepliesOnce' /\ InOrder'
<1>1. task' = task
  BY AroundFrame
<1>2. told \subseteq replied
  BY DEF Lives
<1>3. \A r \in returns : r.kind = "rep" => r.msg \in replied
  BY DEF HandInv, RepliesSettled
<1>4. CASE UNCHANGED <<tradeQueue, told>> /\ returns \subseteq returns'
  <2>1. \A r \in returns' : r.kind = "rep" => r.msg \notin told
    BY <1>2, <1>4, NewReply DEF RepliesOnce
  <2>2. ASSUME NEW r \in returns', NEW s \in returns', r.kind = "rep", s.kind = "rep",
               r.msg = s.msg
        PROVE  r = s
    <3>1. CASE r \in returns /\ s \in returns
      BY <2>2, <3>1 DEF RepliesOnce, RepOf
    <3>2. CASE r \notin returns
      <4>1. r.msg \notin replied /\ (s \in returns \/ s = r)
        BY <2>2, <3>2, NewReply
      <4>2. QED
        BY <1>3, <2>2, <4>1
    <3>3. CASE s \notin returns
      <4>1. s.msg \notin replied /\ (r \in returns \/ r = s)
        BY <2>2, <3>3, NewReply
      <4>2. QED
        BY <1>3, <2>2, <4>1
    <3>4. QED
      BY <3>1, <3>2, <3>3
  <2>3. RepliesOnce'
    BY <1>1, <1>4, <2>1, <2>2 DEF RepliesOnce, RepOf
  <2>4. InOrder'
    BY <1>4 DEF InOrder, RepOf, Follows
  <2>5. QED
    BY <2>3, <2>4
<1>5. PICK e : e = Len(tradeQueue) + 1
  OBVIOUS
<1>6. ASSUME NEW x \in Queued, tradeQueue' = Append(tradeQueue, x)
      PROVE  /\ DOMAIN tradeQueue' = DOMAIN tradeQueue \cup {e} /\ tradeQueue'[e] = x
             /\ \A p \in DOMAIN tradeQueue : tradeQueue'[p] = tradeQueue[p]
             /\ \A p \in DOMAIN tradeQueue : p < e
  <2>1. tradeQueue \in Seq(Queued)
    BY DEF TypeInv
  <2>2. DOMAIN tradeQueue = 1 .. Len(tradeQueue) /\ Len(tradeQueue) \in Nat
    BY <2>1, LenProperties
  <2>3. \A p \in DOMAIN tradeQueue : p < e
    BY <1>5, <2>2
  <2>4. QED
    BY <1>5, <1>6, <2>1, <2>3, AppendFacts
<1>7. CASE \E x \in Queued : /\ x.kind \in {"order", "withdraw"}
                             /\ tradeQueue' = Append(tradeQueue, x)
                             /\ UNCHANGED <<told, returns>>
  <2>1. PICK x \in Queued : /\ x.kind \in {"order", "withdraw"}
                            /\ tradeQueue' = Append(tradeQueue, x)
                            /\ UNCHANGED <<told, returns>>
    BY <1>7
  <2>2. /\ DOMAIN tradeQueue' = DOMAIN tradeQueue \cup {e} /\ tradeQueue'[e] = x
        /\ \A p \in DOMAIN tradeQueue : tradeQueue'[p] = tradeQueue[p]
    BY <1>6, <2>1
  <2>3. RepliesOnce'
    BY <1>1, <2>1, <2>2 DEF RepliesOnce, RepOf
  <2>4. InOrder'
    BY <2>1, <2>2 DEF InOrder, RepOf, Follows
  <2>5. QED
    BY <2>3, <2>4
<1>8. ASSUME NEW r \in returns, Deliver(r) PROVE RepliesOnce' /\ InOrder'
  <2>1. /\ r.kind = "knock" => r.number[1] \in told \/ <<r.number[1], r.type>> \in Overtaking
        /\ tradeQueue' = Append(tradeQueue, r)
        /\ told' = IF r.kind = "rep" THEN told \cup {r.msg} ELSE told
        /\ returns' \subseteq returns /\ (r.kind # "knock" => r \notin returns')
    BY <1>8 DEF Deliver
  <2>2. r \in Queued
    BY DEF TypeInv, Queued
  <2>3. /\ DOMAIN tradeQueue' = DOMAIN tradeQueue \cup {e} /\ tradeQueue'[e] = r
        /\ \A p \in DOMAIN tradeQueue : tradeQueue'[p] = tradeQueue[p] /\ p < e
    BY <1>6, <2>1, <2>2
  <2>4. CASE r.kind = "rep"
    <3>1. r.msg \notin told /\ r \notin returns' /\ told' = told \cup {r.msg}
      BY <2>1, <2>4 DEF RepliesOnce
    <3>2. \A j \in DOMAIN tradeQueue : ~RepOf(tradeQueue[j], r.msg)
      BY <3>1 DEF RepliesOnce, RepOf
    <3>3. \A s \in returns' : s.kind = "rep" => s.msg \notin told'
      BY <2>1, <2>4, <3>1 DEF RepliesOnce, RepOf
    <3>4. \A s \in returns' : \A t \in returns' : s.kind = "rep" /\ RepOf(t, s.msg) => s = t
      BY <2>1 DEF RepliesOnce
    <3>5. \A j \in DOMAIN tradeQueue' : tradeQueue'[j].kind = "rep" =>
            /\ tradeQueue'[j].msg \in told'
            /\ \A i \in DOMAIN tradeQueue' : RepOf(tradeQueue'[i], tradeQueue'[j].msg) => i = j
      BY <2>3, <2>4, <3>1, <3>2 DEF RepliesOnce, RepOf
    <3>6. task.kind = "rep" =>
            /\ task.msg \in told' /\ \A j \in DOMAIN tradeQueue' : ~RepOf(tradeQueue'[j], task.msg)
      BY <2>3, <3>1 DEF RepliesOnce, RepOf
    <3>7. RepliesOnce'
      BY <1>1, <3>3, <3>4, <3>5, <3>6 DEF RepliesOnce, RepOf
    <3>8. InOrder'
      BY <2>3, <2>4, <3>1 DEF InOrder, RepOf, Follows
    <3>9. QED
      BY <3>7, <3>8
  <2>5. CASE r.kind # "rep"
    <3>1. told' = told
      BY <2>1, <2>5
    <3>2. RepliesOnce'
      BY <1>1, <2>1, <2>3, <2>5, <3>1 DEF RepliesOnce, RepOf
    <3>3. \A j \in DOMAIN tradeQueue' : Follows(tradeQueue'[j]) => tradeQueue'[j].number[1] \in told
      BY <2>1, <2>3 DEF InOrder, Follows
    <3>4. \A j \in DOMAIN tradeQueue' : Follows(tradeQueue'[j]) =>
            \A i \in DOMAIN tradeQueue' : RepOf(tradeQueue'[i], tradeQueue'[j].number[1]) => i < j
      BY <2>3, <2>5 DEF InOrder, RepOf
    <3>5. InOrder'
      BY <3>1, <3>3, <3>4 DEF InOrder, RepOf, Follows
    <3>6. QED
      BY <3>2, <3>5
  <2>6. QED
    BY <2>4, <2>5
<1>9. QED
  BY <1>4, <1>7, <1>8, QueueArrival

\* A queue without its first.
LEMMA QueueTail ==
  ASSUME TypeInv, Take
  PROVE  /\ tradeQueue # <<>> /\ 1 \in DOMAIN tradeQueue /\ Head(tradeQueue) = tradeQueue[1]
         /\ Head(tradeQueue) \in Queued
         /\ \A k \in DOMAIN tradeQueue' : k \in Nat /\ k + 1 \in DOMAIN tradeQueue
                                          /\ tradeQueue'[k] = tradeQueue[k + 1]
         /\ \A k \in DOMAIN tradeQueue : k # 1 =>
              k - 1 \in DOMAIN tradeQueue' /\ tradeQueue'[k - 1] = tradeQueue[k] /\ 1 < k
<1>1. tradeQueue \in Seq(Queued) /\ tradeQueue # <<>> /\ tradeQueue' = Tail(tradeQueue)
  BY DEF TypeInv, Take
<1>2. PICK l \in Nat \ {0} :
        /\ DOMAIN tradeQueue = 1 .. l /\ DOMAIN Tail(tradeQueue) = 1 .. l - 1
        /\ Head(tradeQueue) = tradeQueue[1] /\ 1 \in DOMAIN tradeQueue
        /\ Head(tradeQueue) \in Queued
        /\ \A k \in 1 .. l - 1 : k + 1 \in 1 .. l /\ Tail(tradeQueue)[k] = tradeQueue[k + 1]
  BY <1>1, TailFacts
<1>3. ASSUME NEW k \in 1 .. l, k # 1
      PROVE  k - 1 \in 1 .. l - 1 /\ Tail(tradeQueue)[k - 1] = tradeQueue[k] /\ 1 < k
  <2>1. k - 1 \in 1 .. l - 1 /\ (k - 1) + 1 = k /\ 1 < k
    BY <1>3
  <2>2. Tail(tradeQueue)[k - 1] = tradeQueue[(k - 1) + 1]
    BY <1>2, <2>1
  <2>3. QED
    BY <2>1, <2>2
<1>4. QED
  BY <1>1, <1>2, <1>3

\* The task a message begins, if it is not dealt with at once.
LEMMA TaskTaken ==
  ASSUME Take, NEW r, r = Head(tradeQueue)
  PROVE  /\ task = Idle
         /\ \/ task' = Idle
            \/ task'.kind = "check"
            \/ r.kind = "rep" /\ task'.kind = "rep" /\ task'.msg = r.msg /\ task'.item = 1
               /\ task'.accepted = r.accepted /\ task'.knocks = <<>>
         /\ InHand = <<>> /\ InHand' = <<>>
<1>1. \/ task' = Idle
      \/ task' = [kind |-> "check", msg |-> r.msg, item |-> 1]
      \/ /\ r.kind = "rep"
         /\ task' = [kind |-> "rep", msg |-> r.msg, item |-> 1, accepted |-> r.accepted,
                     members |-> <<>>, knocks |-> <<>>]
  BY DEF Take
<1>2. task = Idle
  BY DEF Take
<1>3. \/ task' = Idle
      \/ task'.kind = "check"
      \/ r.kind = "rep" /\ task'.kind = "rep" /\ task'.msg = r.msg /\ task'.item = 1
         /\ task'.accepted = r.accepted /\ task'.knocks = <<>>
  BY <1>1
<1>4. QED
  BY <1>2, <1>3 DEF InHand, Idle

\* The queue is worked off from the front.
LEMMA OnceTake ==
  ASSUME TypeInv, RepliesOnce, InOrder, Take
  PROVE  RepliesOnce' /\ InOrder'
<1>1. PICK r : r = Head(tradeQueue)
  OBVIOUS
<1>2. UNCHANGED <<told, returns>>
  BY InsideFrame
<1>3. /\ 1 \in DOMAIN tradeQueue /\ r = tradeQueue[1]
      /\ \A k \in DOMAIN tradeQueue' : k \in Nat /\ k + 1 \in DOMAIN tradeQueue
                                       /\ tradeQueue'[k] = tradeQueue[k + 1]
  BY <1>1, QueueTail
<1>4. \A j \in DOMAIN tradeQueue' : tradeQueue'[j].kind = "rep" =>
        /\ tradeQueue'[j].msg \in told
        /\ \A i \in DOMAIN tradeQueue' : RepOf(tradeQueue'[i], tradeQueue'[j].msg) => i = j
  <2>1. SUFFICES ASSUME NEW j \in DOMAIN tradeQueue', tradeQueue'[j].kind = "rep"
                 PROVE  /\ tradeQueue'[j].msg \in told
                        /\ \A i \in DOMAIN tradeQueue' :
                             RepOf(tradeQueue'[i], tradeQueue'[j].msg) => i = j
    OBVIOUS
  <2>2. tradeQueue'[j].msg \in told
    BY <1>3, <2>1 DEF RepliesOnce
  <2>3. ASSUME NEW i \in DOMAIN tradeQueue', RepOf(tradeQueue'[i], tradeQueue'[j].msg)
        PROVE  i = j
    <3>1. i + 1 = j + 1
      BY <1>3, <2>1, <2>3 DEF RepliesOnce
    <3>2. QED
      BY <1>3, <3>1
  <2>4. QED
    BY <2>2, <2>3
<1>5. task'.kind = "rep" =>
        /\ task'.msg \in told
        /\ \A j \in DOMAIN tradeQueue' : ~RepOf(tradeQueue'[j], task'.msg)
  <2>1. SUFFICES ASSUME task'.kind = "rep"
                 PROVE  /\ task'.msg \in told
                        /\ \A j \in DOMAIN tradeQueue' : ~RepOf(tradeQueue'[j], task'.msg)
    OBVIOUS
  <2>2. r.kind = "rep" /\ task'.msg = r.msg
    BY <1>1, <2>1, TaskTaken DEF Idle
  <2>3. r.msg \in told /\ \A i \in DOMAIN tradeQueue : RepOf(tradeQueue[i], r.msg) => i = 1
    BY <1>3, <2>2 DEF RepliesOnce
  <2>4. ASSUME NEW j \in DOMAIN tradeQueue', RepOf(tradeQueue'[j], r.msg) PROVE FALSE
    <3>1. j + 1 = 1 /\ j \in Nat /\ j \in DOMAIN tradeQueue'
      BY <1>3, <2>3, <2>4
    <3>2. j = 0
      BY <3>1
    <3>3. tradeQueue' \in Seq(Queued)
      BY QueueTaken DEF Take
    <3>4. QED
      BY <3>1, <3>2, <3>3
  <2>5. QED
    BY <2>2, <2>3, <2>4
<1>6. RepliesOnce'
  BY <1>2, <1>4, <1>5 DEF RepliesOnce, RepOf
<1>7. InOrder'
  <2>1. SUFFICES ASSUME NEW j \in DOMAIN tradeQueue', Follows(tradeQueue'[j])
                 PROVE  /\ tradeQueue'[j].number[1] \in told
                        /\ \A i \in DOMAIN tradeQueue' :
                             RepOf(tradeQueue'[i], tradeQueue'[j].number[1]) => i < j
    BY <1>2 DEF InOrder, RepOf, Follows
  <2>2. tradeQueue'[j].number[1] \in told
    BY <1>3, <2>1 DEF InOrder
  <2>3. ASSUME NEW i \in DOMAIN tradeQueue', RepOf(tradeQueue'[i], tradeQueue'[j].number[1])
        PROVE  i < j
    <3>1. i + 1 < j + 1
      BY <1>3, <2>1, <2>3 DEF InOrder
    <3>2. QED
      BY <1>3, <3>1
  <2>4. QED
    BY <2>2, <2>3
<1>8. QED
  BY <1>6, <1>7

\* The task after an item of a reply.
LEMMA RepShape ==
  ASSUME TypeInv, HandleRep
  PROVE  /\ task \in RepTask /\ task.kind = "rep" /\ task.msg \in Messages
         /\ task.item \in Nat /\ InHand = task.knocks
         /\ \/ /\ task.item \in Items(task.msg)
               /\ ~(Guards(task.msg, task.item) /\ task.item \in task.accepted)
               /\ task'.kind = "rep" /\ task'.msg = task.msg /\ task'.item = task.item + 1
               /\ task'.accepted = task.accepted /\ task'.knocks = task.knocks
               /\ UNCHANGED <<orders, single, batch, early>>
            \/ /\ task.item \in Items(task.msg)
               /\ Guards(task.msg, task.item) /\ task.item \in task.accepted
               /\ task'.kind = "rep" /\ task'.msg = task.msg /\ task'.item = task.item + 1
               /\ task'.accepted = task.accepted
               /\ task'.knocks = IF <<task.msg, task.item>> \in DOMAIN early
                                 THEN early[<<task.msg, task.item>>] ELSE task.knocks
               /\ \E o : RepItemKnown(task.msg, task.item, o) \/ RepItemUnknown(task.msg, task.item, o)
            \/ /\ task.item \notin Items(task.msg)
               /\ task'.kind = "knocks" /\ task'.rest = task.knocks
               /\ UNCHANGED <<orders, single, early>>
<1>1. task \in RepTask /\ task.kind = "rep"
  BY TaskKinds DEF TypeInv, HandleRep
<1>2. PICK m \in Messages, i \in Nat \ {0} : m = task.msg /\ i = task.item
  BY <1>1 DEF RepTask
<1>3. InHand = task.knocks
  BY <1>1 DEF InHand
<1>4. CASE i \in Items(m) /\ ~(Guards(m, i) /\ i \in task.accepted)
  <2>1. task' = [task EXCEPT !.item = i + 1] /\ UNCHANGED <<orders, single, batch, early>>
    BY <1>2, <1>4 DEF HandleRep, riskerVars, RepItemRejected
  <2>2. task'.kind = "rep" /\ task'.msg = task.msg /\ task'.item = i + 1
        /\ task'.accepted = task.accepted /\ task'.knocks = task.knocks
    BY <1>1, <2>1 DEF RepTask
  <2>3. QED
    BY <1>1, <1>2, <1>3, <1>4, <2>1, <2>2
<1>5. CASE i \in Items(m) /\ Guards(m, i) /\ i \in task.accepted
  <2>1. PICK o : RegisterReply(m, i, o)
    BY <1>2, <1>5 DEF HandleRep
  <2>2. RepItemKnown(m, i, o) \/ RepItemUnknown(m, i, o)
    BY <2>1 DEF RegisterReply
  <2>3. PICK s : s = IF IsBatch(m) THEN Append(task.members, o) ELSE task.members
    OBVIOUS
  <2>4. PICK e : e = IF <<m, i>> \in DOMAIN early THEN early[<<m, i>>] ELSE task.knocks
    OBVIOUS
  <2>5. task' = [task EXCEPT !.item = i + 1, !.members = s, !.knocks = e]
    BY <2>1, <2>3, <2>4 DEF RegisterReply
  <2>6. task'.kind = "rep" /\ task'.msg = task.msg /\ task'.item = i + 1
        /\ task'.accepted = task.accepted /\ task'.knocks = e
    BY <1>1, <2>5 DEF RepTask
  <2>7. \E p : RepItemKnown(m, i, p) \/ RepItemUnknown(m, i, p)
    BY <2>2
  <2>8. QED
    BY <1>1, <1>2, <1>3, <1>5, <2>4, <2>6, <2>7
<1>6. CASE i \notin Items(m)
  <2>1. task' = [kind |-> "knocks", rest |-> task.knocks] /\ UNCHANGED <<orders, single, early>>
    BY <1>2, <1>6 DEF HandleRep, RegisterBatch
  <2>2. task'.kind = "knocks" /\ task'.rest = task.knocks
    BY <2>1
  <2>3. QED
    BY <1>1, <1>2, <1>3, <1>6, <2>1, <2>2
<1>7. QED
  BY <1>4, <1>5, <1>6

\* The task after a check of an item, and after a knock that was kept.
LEMMA CheckShape ==
  ASSUME TypeInv, Check \/ Pass
  PROVE  /\ task.kind \in {"check", "pass"} /\ task'.kind \in {"check", "pass", "idle"}
         /\ InHand = <<>> /\ InHand' = <<>> /\ UNCHANGED <<tradeQueue, early>>
<1>1. BookTypes /\ now \in Nat /\ task \in CheckTask /\ tradeQueue' = tradeQueue
  BY TaskKinds DEF TypeInv, Check, Pass, Frame
<1>2. PICK m \in Messages, i \in Nat \ {0} : m = task.msg /\ i = task.item
  BY <1>1 DEF CheckTask, Own
<1>3. early' = early
  BY <1>1, <1>2, CheckItemFacts, PassItemFacts DEF Check, Pass, riskerVars
<1>4. task'.kind \in {"check", "pass", "idle"}
  <2>1. \/ task' = Idle \/ task' = [task EXCEPT !.item = i + 1]
        \/ task' = [kind |-> "pass", msg |-> m, item |-> 1]
    BY <1>2 DEF Check, Pass
  <2>2. CASE task' = [task EXCEPT !.item = i + 1]
    BY <1>1, <2>2 DEF CheckTask
  <2>3. QED
    BY <2>1, <2>2 DEF Idle
<1>5. task.kind \in {"check", "pass"}
  BY <1>1 DEF CheckTask
<1>6. QED
  BY <1>1, <1>3, <1>4, <1>5 DEF InHand

LEMMA ReplayShape ==
  ASSUME TypeInv, ReplayKnock
  PROVE  /\ task.kind = "knocks" /\ task'.kind \in {"knocks", "idle"} /\ tradeQueue' = tradeQueue
         /\ InHand = task.rest
         /\ \/ InHand = <<>> /\ InHand' = <<>> /\ UNCHANGED riskerVars
            \/ /\ 1 \in DOMAIN InHand /\ InHand[1] \in Knock /\ OnTradeKnock(InHand[1])
               /\ \A k \in DOMAIN InHand' : k + 1 \in DOMAIN InHand /\ InHand'[k] = InHand[k + 1]
               /\ \A k \in DOMAIN InHand : k # 1 =>
                    k - 1 \in DOMAIN InHand' /\ InHand'[k - 1] = InHand[k]
<1>1. task \in KnocksTask /\ task.rest \in Seq(Knock) /\ task.kind = "knocks"
      /\ tradeQueue' = tradeQueue
  BY TaskKinds DEF TypeInv, ReplayKnock, KnocksTask
<1>2. InHand = task.rest
  BY <1>1 DEF InHand
<1>3. CASE task.rest = <<>>
  <2>1. task' = Idle /\ UNCHANGED riskerVars
    BY <1>3 DEF ReplayKnock
  <2>2. QED
    BY <1>1, <1>2, <1>3, <2>1 DEF InHand, Idle
<1>4. CASE task.rest # <<>>
  <2>1. OnTradeKnock(Head(task.rest)) /\ task' = [task EXCEPT !.rest = Tail(task.rest)]
    BY <1>4 DEF ReplayKnock
  <2>2. task'.kind = "knocks" /\ task'.rest = Tail(task.rest)
    BY <1>1, <2>1 DEF KnocksTask
  <2>3. InHand' = Tail(InHand)
    BY <1>2, <2>2 DEF InHand
  <2>4. PICK l \in Nat \ {0} :
          /\ DOMAIN InHand = 1 .. l /\ DOMAIN Tail(InHand) = 1 .. l - 1
          /\ Head(InHand) = InHand[1] /\ 1 \in DOMAIN InHand /\ Head(InHand) \in Knock
          /\ \A k \in 1 .. l - 1 : k + 1 \in 1 .. l /\ Tail(InHand)[k] = InHand[k + 1]
    BY <1>1, <1>2, <1>4, TailFacts
  <2>5. ASSUME NEW k \in 1 .. l, k # 1
        PROVE  k - 1 \in 1 .. l - 1 /\ Tail(InHand)[k - 1] = InHand[k]
    <3>1. k - 1 \in 1 .. l - 1 /\ (k - 1) + 1 = k
      BY <2>5
    <3>2. Tail(InHand)[k - 1] = InHand[(k - 1) + 1]
      BY <2>4, <3>1
    <3>3. QED
      BY <3>1, <3>2
  <2>6. QED
    BY <1>1, <1>2, <2>1, <2>2, <2>3, <2>4, <2>5
<1>5. QED
  BY <1>3, <1>4

\* Every step keeps the replies single and in front of the knocks that follow them.
LEMMA OnceStep ==
  ASSUME TypeInv, HandInv, Lives, RepliesOnce, InOrder, [Next]_vars
  PROVE  RepliesOnce' /\ InOrder'
<1>1. CASE Surroundings \/ ReadRep \/ UNCHANGED vars
  BY <1>1, OnceOutside
<1>2. CASE Take
  BY <1>2, OnceTake
<1>3. CASE Check \/ Pass \/ HandleRep \/ ReplayKnock
  <2>1. UNCHANGED <<told, returns>>
    BY <1>3, InsideFrame
  <2>2. tradeQueue' = tradeQueue
    BY <1>3 DEF Check, Pass, HandleRep, ReplayKnock
  <2>3. task'.kind = "rep" => task.kind = "rep" /\ task'.msg = task.msg
    BY <1>3, CheckShape, RepShape, ReplayShape
  <2>4. RepliesOnce'
    BY <2>1, <2>2, <2>3 DEF RepliesOnce, RepOf
  <2>5. InOrder'
    BY <2>1, <2>2 DEF InOrder, RepOf, Follows
  <2>6. QED
    BY <2>4, <2>5
<1>4. QED
  BY <1>1, <1>2, <1>3 DEF Next, RiskThread

\* No reply to a message is heard of before there is one, and the reply that gives an
\* order its number does not come a second time.
LEMMA ToNumberStays ==
  ASSUME TypeInv, HandInv, [Next]_vars, NEW n, ToNumber(n)'
  PROVE  ToNumber(n)
<1>1. SUFFICES ASSUME n[1] \in replied PROVE ToNumber(n)
  BY DEF ToNumber
<1>2. replied \subseteq replied'
  BY AroundFrame, InsideFrame DEF Next, RiskThread
<1>3. CASE \E r : Heard(r)' /\ Gives(r, n)
  <2>1. PICK r : Heard(r)' /\ Gives(r, n)
    BY <1>3
  <2>2. r.kind = "rep" /\ r.msg = n[1]
    BY <2>1 DEF Gives, RepOf
  <2>3. CASE Heard(r)
    BY <2>1, <2>3 DEF ToNumber
  <2>4. CASE ~Heard(r)
    <3>1. r \in returns' /\ r \notin returns
      <4>1. CASE Surroundings \/ ReadRep \/ UNCHANGED vars
        <5>1. UNCHANGED <<early, task>>
          BY <4>1, AroundFrame
        <5>2. InHand' = InHand
          BY <5>1 DEF InHand
        <5>3. \A j \in DOMAIN tradeQueue' :
                \/ \E i \in DOMAIN tradeQueue : tradeQueue[i] = tradeQueue'[j]
                \/ tradeQueue'[j] \in returns \/ tradeQueue'[j].kind \in {"order", "withdraw"}
          <6>1. ASSUME NEW x \in Queued, tradeQueue' = Append(tradeQueue, x)
                PROVE  \A j \in DOMAIN tradeQueue' :
                         (\E i \in DOMAIN tradeQueue : tradeQueue[i] = tradeQueue'[j])
                         \/ tradeQueue'[j] = x
            <7>1. tradeQueue \in Seq(Queued)
              BY DEF TypeInv
            <7>2. PICK e : e = Len(tradeQueue) + 1
              OBVIOUS
            <7>3. QED
              BY <6>1, <7>1, <7>2, AppendFacts
          <6>2. ASSUME NEW s \in returns, Deliver(s)
                PROVE  s \in Queued /\ tradeQueue' = Append(tradeQueue, s)
            BY <6>2 DEF Deliver, TypeInv, Queued
          <6>3. QED
            BY <4>1, <6>1, <6>2, QueueArrival
        <5>4. QED
          BY <2>1, <2>2, <2>4, <5>1, <5>2, <5>3 DEF Heard
      <4>2. CASE Take \/ Check \/ Pass \/ HandleRep \/ ReplayKnock
        <5>1. Heard(r)
          <6>1. r \in returns' \/ (\E j \in DOMAIN tradeQueue' : tradeQueue'[j] = r)
            <7>1. TypeInv'
              BY TypeInvStep
            <7>2. ASSUME NEW b \in DOMAIN early', NEW j \in DOMAIN early'[b], early'[b][j] = r
                  PROVE  FALSE
              <8>1. r \in Knock
                BY <7>1, <7>2 DEF TypeInv, BookTypes
              <8>2. QED
                BY <2>2, <8>1 DEF Knock
            <7>3. ASSUME NEW j \in DOMAIN InHand', InHand'[j] = r PROVE FALSE
              <8>1. TaskTypes'
                BY <7>1 DEF TypeInv
              <8>2. InHand' \in Seq(Knock)
                BY <8>1 DEF InHand, TaskTypes, RepTask, KnocksTask, CheckTask, Idle
              <8>3. r \in Knock
                BY <7>3, <8>2
              <8>4. QED
                BY <2>2, <8>3 DEF Knock
            <7>4. QED
              BY <2>1, <7>2, <7>3 DEF Heard
          <6>2. returns' = returns
            BY <4>2, InsideFrame
          <6>3. \A j \in DOMAIN tradeQueue' : \E i \in DOMAIN tradeQueue : tradeQueue[i] = tradeQueue'[j]
            <7>1. CASE Take
              BY <7>1, QueueTail
            <7>2. CASE Check \/ Pass \/ HandleRep \/ ReplayKnock
              <8>1. tradeQueue' = tradeQueue
                BY <7>2 DEF Check, Pass, HandleRep, ReplayKnock
              <8>2. QED
                BY <8>1
            <7>3. QED
              BY <4>2, <7>1, <7>2
          <6>4. QED
            BY <6>1, <6>2, <6>3 DEF Heard
        <5>2. QED
          BY <2>4, <5>1
      <4>3. QED
        BY <4>1, <4>2 DEF Next, RiskThread
    <3>2. CASE Surroundings \/ ReadRep \/ UNCHANGED vars
      BY <1>1, <2>2, <3>1, <3>2, NewReply
    <3>3. CASE Take \/ Check \/ Pass \/ HandleRep \/ ReplayKnock
      BY <3>1, <3>3, InsideFrame
    <3>4. QED
      BY <3>2, <3>3 DEF Next, RiskThread
  <2>5. QED
    BY <2>3, <2>4
<1>4. CASE Gives(task', n) /\ task'.item <= n[2]
  <2>1. task'.kind = "rep" /\ task'.msg = n[1] /\ n[2] \in task'.accepted
    BY <1>4 DEF Gives, RepOf
  <2>2. CASE Surroundings \/ ReadRep \/ UNCHANGED vars
    <3>1. task' = task
      BY <2>2, AroundFrame
    <3>2. QED
      BY <1>4, <3>1 DEF ToNumber
  <2>3. CASE Take
    <3>1. PICK r : r = Head(tradeQueue)
      OBVIOUS
    <3>2. r.kind = "rep" /\ task'.msg = r.msg /\ task'.accepted = r.accepted
      BY <2>1, <2>3, <3>1, TaskTaken DEF Idle
    <3>3. Heard(r)
      BY <2>3, <3>1, QueueTail DEF Heard
    <3>4. QED
      BY <2>1, <3>2, <3>3 DEF ToNumber, Gives, RepOf
  <2>4. CASE HandleRep
    <3>1. /\ task.kind = "rep" /\ task'.msg = task.msg /\ task'.accepted = task.accepted
          /\ task'.item = task.item + 1 /\ task.item \in Nat
      BY <2>1, <2>4, RepShape
    <3>2. n[2] \in Nat
      <4>1. TypeInv'
        BY TypeInvStep
      <4>2. task' \in RepTask
        BY <2>1, <4>1 DEF TypeInv, TaskTypes, RepTask, KnocksTask, CheckTask, Idle
      <4>3. QED
        BY <2>1, <4>2 DEF RepTask
    <3>3. task.item <= n[2]
      BY <1>4, <3>1, <3>2
    <3>4. QED
      BY <2>1, <3>1, <3>3 DEF ToNumber, Gives, RepOf
  <2>5. CASE Check \/ Pass \/ ReplayKnock
    BY <2>1, <2>5, CheckShape, ReplayShape
  <2>6. QED
    BY <2>2, <2>3, <2>4, <2>5 DEF Next, RiskThread
<1>5. QED
  BY <1>1, <1>2, <1>3, <1>4 DEF ToNumber, Gives, RepOf

\* An order gets its number once, and its object is listed under it until it is finished.
NumbersGiven ==
  /\ \A o \in DOMAIN orders : \A n \in Numbers : orders[o].number = n =>
       /\ ~ToNumber(n) /\ life[n] # "none"
       /\ \A p \in DOMAIN orders : orders[p].number = n => p = o
  /\ \A n \in Numbers : ToNumber(n) /\ n[1] \in replied => life[n] # "none"
Registered ==
  \A o \in DOMAIN orders : \A n \in Numbers : orders[o].number = n /\ ~orders[o].finish =>
    n \in DOMAIN single /\ single[n] = o /\ n \notin DOMAIN early

\* Of a step: object o keeps its number and stays finished; it is told of no trade, too;
\* the object of number n is struck off the list.
SameNumber(o) ==
  /\ o \in DOMAIN orders /\ orders'[o].number = orders[o].number
  /\ orders[o].finish => orders'[o].finish
Calm(o) ==
  /\ SameNumber(o) /\ orders'[o].matched = orders[o].matched
  /\ orders[o].withdrawn => orders'[o].withdrawn
Struck(n) == \E o \in DOMAIN orders : orders[o].number = n /\ orders'[o].finish
ListKept == \A n \in DOMAIN single : Struck(n) \/ (n \in DOMAIN single' /\ single'[n] = single[n])
AllCalm ==
  /\ \A o \in DOMAIN orders' : orders'[o].number = NoNumber \/ Calm(o)
  /\ ListKept /\ early' = early

\* An object that is as it was, but for its end or a withdrawal, is calm.
LEMMA CalmChange ==
  ASSUME BookTypes, NEW o \in DOMAIN orders,
         \/ orders'[o] = orders[o] \/ orders'[o] = [orders[o] EXCEPT !.finish = TRUE]
         \/ \E t : orders'[o] = [orders[o] EXCEPT !.withdrawAsked = t]
         \/ orders'[o] = [orders[o] EXCEPT !.withdrawn = TRUE]
  PROVE  Calm(o)
<1>1. PICK x \in Order : x = orders[o]
  BY ObjectFacts
<1>2. CASE orders'[o] = x
  BY <1>1, <1>2 DEF Calm, SameNumber
<1>3. CASE orders'[o] = [x EXCEPT !.finish = TRUE]
  BY <1>1, <1>3 DEF Calm, SameNumber, Order
<1>4. CASE \E t : orders'[o] = [x EXCEPT !.withdrawAsked = t]
  BY <1>1, <1>4 DEF Calm, SameNumber, Order
<1>5. CASE orders'[o] = [x EXCEPT !.withdrawn = TRUE]
  BY <1>1, <1>5 DEF Calm, SameNumber, Order
<1>6. QED
  BY <1>1, <1>2, <1>3, <1>4, <1>5

\* A check only finishes objects.
LEMMA CheckCalm ==
  ASSUME TypeInv, NEW m \in Messages, NEW i \in Items(m), CheckItem(m, i)
  PROVE  AllCalm
<1>1. BookTypes
  BY DEF TypeInv
<1>2. /\ DOMAIN orders' = DOMAIN orders /\ early' = early
      /\ \A o \in DOMAIN orders :
              \/ orders'[o] = orders[o]
              \/ Finished(orders[o]) /\ orders'[o] = [orders[o] EXCEPT !.finish = TRUE]
      /\ \A n \in DOMAIN single' : single'[n] = single[n]
  BY <1>1, CheckItemFacts
<1>3. \A o \in DOMAIN orders' : Calm(o)
  BY <1>1, <1>2, CalmChange
<1>4. CASE UNCHANGED riskerVars
  BY <1>3, <1>4 DEF AllCalm, ListKept, riskerVars
<1>5. CASE FinishAll(orders, Swept(m, i)) /\ book' = book \ Swept(m, i) /\ early' = early
  <2>1. Swept(m, i) \subseteq book /\ \A o \in Swept(m, i) : Finished(orders[o])
    BY DEF Swept, Opposite
  <2>2. Swept(m, i) \in SUBSET DOMAIN orders /\ orders \in Seq(Order)
    BY <1>1, <2>1 DEF BookTypes
  <2>3. PICK R : R = Swept(m, i)
    OBVIOUS
  <2>4. /\ \A o \in DOMAIN orders :
             \/ orders'[o] = orders[o] /\ o \notin R
             \/ Finished(orders[o]) /\ orders'[o] = [orders[o] EXCEPT !.finish = TRUE]
        /\ DOMAIN single' = DOMAIN single \ {orders[o].number : o \in R}
    <3>1. /\ FinishAll(orders, R) /\ R \in SUBSET DOMAIN orders /\ orders \in Seq(Order)
          /\ \A o \in R : Finished(orders[o])
      BY <1>5, <2>1, <2>2, <2>3
    <3>2. BookTypes /\ Len(orders) = Len(orders)
      BY <1>1
    <3>3. QED
      BY <3>1, <3>2, FinishFacts
  <2>5. ASSUME NEW n \in DOMAIN single, n \notin DOMAIN single' PROVE Struck(n)
    <3>1. PICK o \in R : orders[o].number = n
      BY <2>4, <2>5
    <3>2. o \in DOMAIN orders
      BY <2>2, <2>3
    <3>3. PICK x \in Order : x = orders[o]
      BY <1>1, <3>2, ObjectFacts
    <3>4. orders'[o] = [x EXCEPT !.finish = TRUE]
      BY <2>4, <3>2, <3>3
    <3>5. orders'[o].finish
      BY <3>4 DEF Order
    <3>6. QED
      BY <3>1, <3>2, <3>5 DEF Struck
  <2>6. QED
    BY <1>2, <1>3, <2>5 DEF AllCalm, ListKept
<1>6. QED
  BY <1>4, <1>5 DEF CheckItem

\* Steps that neither tell an object of a knock nor give it a number.
LEMMA StepCalm ==
  ASSUME TypeInv, [Next]_vars
  PROVE  \/ AllCalm
         \/ Take /\ Head(tradeQueue) \in Knock /\ OnTradeKnock(Head(tradeQueue))
         \/ ReplayKnock /\ InHand # <<>>
         \/ /\ HandleRep /\ task.item \in Items(task.msg)
            /\ Guards(task.msg, task.item) /\ task.item \in task.accepted
<1>1. BookTypes /\ now \in Nat
  BY DEF TypeInv
<1>2. ASSUME UNCHANGED <<orders, single, early>> PROVE AllCalm
  BY <1>1, <1>2, CalmChange DEF AllCalm, ListKept
<1>3. CASE Surroundings \/ ReadRep \/ UNCHANGED vars
  BY <1>2, <1>3, AroundFrame
<1>4. CASE Take
  <2>1. PICK r : r = Head(tradeQueue)
    OBVIOUS
  <2>2. r \in Queued
    BY <1>4, <2>1, QueueTail
  <2>3. CASE r.kind \in {"order", "rep"}
    BY <1>2, <1>4, <2>1, <2>3 DEF Take, riskerVars
  <2>4. CASE r.kind = "withdraw"
    <3>1. HandleTradeWithdrawReq(r.msg, r.item)
      BY <1>4, <2>1, <2>4 DEF Take
    <3>2. /\ UNCHANGED <<single, early>> /\ DOMAIN orders' = DOMAIN orders
          /\ \A o \in DOMAIN orders :
               orders'[o] = IF o \in Targets(r.msg, r.item)
                            THEN [orders[o] EXCEPT !.withdrawAsked = now] ELSE orders[o]
      BY <1>1, <3>1, WithdrawReqFacts
    <3>3. \A o \in DOMAIN orders : Calm(o)
      BY <1>1, <3>2, CalmChange
    <3>4. QED
      BY <3>2, <3>3 DEF AllCalm, ListKept
  <2>5. CASE r.kind = "wrep"
    <3>1. HandleTradeWithdrawRep(r.msg, r.item, r.ok)
      BY <1>4, <2>1, <2>5 DEF Take
    <3>2. r.ok \in BOOLEAN
      BY <2>2, <2>5, QueuedKinds DEF WithdrawReply
    <3>3. /\ UNCHANGED <<single, early>> /\ DOMAIN orders' = DOMAIN orders
          /\ \A o \in DOMAIN orders :
               orders'[o] = IF o \notin Targets(r.msg, r.item) THEN orders[o]
                            ELSE IF r.ok THEN [orders[o] EXCEPT !.withdrawn = TRUE]
                            ELSE [orders[o] EXCEPT !.withdrawAsked = now]
      BY <1>1, <3>1, <3>2, WithdrawRepFacts
    <3>4. \A o \in DOMAIN orders : Calm(o)
      BY <1>1, <3>3, CalmChange
    <3>5. QED
      BY <3>3, <3>4 DEF AllCalm, ListKept
  <2>6. CASE r.kind = "knock"
    <3>1. OnTradeKnock(r)
      BY <1>4, <2>1, <2>6 DEF Take
    <3>2. r \in Knock
      BY <2>2, <2>6, QueuedKinds
    <3>3. QED
      BY <1>4, <2>1, <3>1, <3>2
  <2>7. QED
    BY <1>4, <2>1, <2>3, <2>4, <2>5, <2>6 DEF Take
<1>5. CASE Check
  <2>1. task \in CheckTask
    BY <1>5, TaskKinds DEF TypeInv, Check
  <2>2. PICK m \in Messages, i \in Nat \ {0} : m = task.msg /\ i = task.item
    BY <2>1 DEF CheckTask, Own
  <2>3. (i \in Items(m) /\ CheckItem(m, i)) \/ UNCHANGED riskerVars
    BY <1>5, <2>2 DEF Check
  <2>4. QED
    BY <1>2, <2>3, CheckCalm DEF riskerVars
<1>6. CASE Pass
  <2>1. task \in CheckTask
    BY <1>6, TaskKinds DEF TypeInv, Pass
  <2>2. PICK m \in Messages, i \in Nat \ {0} : m = task.msg /\ i = task.item
    BY <2>1 DEF CheckTask, Own
  <2>3. CASE UNCHANGED riskerVars
    BY <1>2, <2>3 DEF riskerVars
  <2>4. CASE i \in Items(m) /\ PassItem(m, i) /\ ~UNCHANGED riskerVars
    <3>1. PICK x : x = NewOrder(m, i, NoNumber)
      OBVIOUS
    <3>2. orders' = Append(orders, x) /\ UNCHANGED <<single, early>>
      BY <2>4, <3>1 DEF PassItem
    <3>3. x \in Order
      BY <1>1, <2>4, <3>1, NewOrderFacts
    <3>4. orders \in Seq(Order)
      BY <1>1 DEF BookTypes
    <3>5. PICK e : e = Len(orders) + 1
      OBVIOUS
    <3>6. /\ DOMAIN orders' = DOMAIN orders \cup {e} /\ orders'[e] = x
          /\ \A p \in DOMAIN orders : orders'[p] = orders[p]
      BY <3>2, <3>3, <3>4, <3>5, AppendFacts
    <3>7. x.number = NoNumber
      BY <3>1 DEF NewOrder
    <3>8. \A p \in DOMAIN orders : Calm(p)
      BY <1>1, <3>6, CalmChange
    <3>9. QED
      BY <3>2, <3>6, <3>7, <3>8 DEF AllCalm, ListKept
  <2>5. QED
    BY <1>6, <2>2, <2>3, <2>4 DEF Pass
<1>7. CASE HandleRep
  BY <1>2, <1>7, RepShape
<1>8. CASE ReplayKnock
  BY <1>2, <1>8, ReplayShape DEF riskerVars
<1>9. QED
  BY <1>3, <1>4, <1>5, <1>6, <1>7, <1>8 DEF Next, RiskThread

\* Replies wait among the returns or in the queue.
LEMMA HeardRep ==
  ASSUME TypeInv, NEW r, Heard(r), r.kind = "rep"
  PROVE  r \in returns \/ \E j \in DOMAIN tradeQueue : tradeQueue[j] = r
<1>1. ASSUME r \in Knock PROVE FALSE
  BY <1>1 DEF Knock
<1>2. ASSUME NEW b \in DOMAIN early, NEW j \in DOMAIN early[b], early[b][j] = r PROVE FALSE
  BY <1>1, <1>2 DEF TypeInv, BookTypes
<1>3. InHand \in Seq(Knock)
  BY TaskKinds DEF InHand, TypeInv, TaskTypes, RepTask, KnocksTask
<1>4. QED
  BY <1>1, <1>2, <1>3 DEF Heard

\* Once the reply is dealt with, it gives the order no number any more.
LEMMA DealtNumber ==
  ASSUME TypeInv, Lives, RepliesOnce, NEW n, Dealt(n)
  PROVE  ~ToNumber(n)
<1>1. n[1] \in told /\ n[1] \in replied
  BY DEF Dealt, Lives
<1>2. ASSUME NEW r, Heard(r), Gives(r, n) PROVE FALSE
  <2>1. r.kind = "rep" /\ r.msg = n[1]
    BY <1>2 DEF Gives, RepOf
  <2>2. QED
    BY <1>1, <1>2, <2>1, HeardRep DEF RepliesOnce, Dealt
<1>3. QED
  BY <1>1, <1>2 DEF ToNumber, Dealt, Gives, RepOf

\* Only knocks that may overtake the reply are taken from the queue before it.
LEMMA TakenBefore ==
  ASSUME TypeInv, Lives, RepliesOnce, InOrder, Take, NEW k, k = Head(tradeQueue), k \in Knock,
         ToNumber(k.number)
  PROVE  <<k.number[1], k.type>> \in Overtaking
<1>1. SUFFICES ASSUME <<k.number[1], k.type>> \notin Overtaking PROVE Dealt(k.number)
  BY DealtNumber
<1>2. 1 \in DOMAIN tradeQueue /\ k = tradeQueue[1]
  BY QueueTail
<1>3. Follows(k)
  BY <1>1 DEF Follows, Knock
<1>4. /\ k.number[1] \in told
      /\ \A i \in DOMAIN tradeQueue : RepOf(tradeQueue[i], k.number[1]) => i < 1
  BY <1>2, <1>3 DEF InOrder
<1>5. \A i \in DOMAIN tradeQueue : ~(i < 1)
  BY DEF TypeInv
<1>6. task.kind # "rep"
  BY DEF Take, Idle
<1>7. QED
  BY <1>4, <1>5, <1>6 DEF Dealt, RepOf

\* Only trades and failures of orders that are no batches overtake the reply.
MildOvertaking ==
  \A m \in Messages : \A type \in {"trade", "withdrawn", "failed"} :
    <<m, type>> \in Overtaking => ~IsBatch(m) /\ type # "withdrawn"

\* Early knocks of a batch, and those in hand, are of orders that have their number; the
\* knocks in hand are those of the last item.
KeptKnocks ==
  /\ \A n \in DOMAIN early : IsBatch(n[1]) => ~ToNumber(n)
  /\ \A n : ToNumber(n) => \A j \in DOMAIN InHand : InHand[j].number # n
  /\ task.kind = "rep" /\ task.item \in Items(task.msg) => task.knocks = <<>>

\* The reply in hand is that to the order of its item.
LEMMA ItemToNumber ==
  ASSUME TypeInv, HandleRep, task.item \in Items(task.msg), task.item \in task.accepted,
         NEW n, n = <<task.msg, task.item>>
  PROVE  /\ n \in Numbers /\ n[1] = task.msg /\ n[2] = task.item /\ ToNumber(n)
<1>1. /\ task.kind = "rep" /\ task.msg \in Messages /\ task.item \in Nat
  BY RepShape
<1>2. n \in Numbers /\ n[1] = task.msg /\ n[2] = task.item
  BY <1>1, ItemFacts
<1>3. task.item <= n[2]
  BY <1>1, <1>2
<1>4. QED
  BY <1>1, <1>2, <1>3 DEF ToNumber, Gives, RepOf

\* Once its item is dealt with, the order is not given a number any more.
LEMMA ItemDealt ==
  ASSUME TypeInv, Lives, RepliesOnce, TypeInv', Lives', RepliesOnce', HandleRep,
         task.item \in Items(task.msg), NEW n, n = <<task.msg, task.item>>
  PROVE  ~ToNumber(n)'
<1>1. /\ task.kind = "rep" /\ task'.item = task.item + 1 /\ task.item \in Nat
  BY RepShape
<1>2. told' = told /\ tradeQueue' = tradeQueue
  BY InsideFrame DEF HandleRep
<1>3. n[1] = task.msg /\ n[2] = task.item
  OBVIOUS
<1>4. ~(task'.item <= n[2])
  BY <1>1, <1>3
<1>5. /\ n[1] \in told' /\ n[1] \in replied'
      /\ \A r \in returns' : ~RepOf(r, n[1])
      /\ \A j \in DOMAIN tradeQueue' : ~RepOf(tradeQueue'[j], n[1])
  BY <1>1, <1>2, <1>3 DEF RepliesOnce, RepOf, Lives
<1>6. ASSUME NEW r, Heard(r)', Gives(r, n) PROVE FALSE
  <2>1. RepOf(r, n[1])
    BY <1>6 DEF Gives
  <2>2. r \notin Knock
    BY <2>1 DEF RepOf, Knock
  <2>3. \A b \in DOMAIN early' : \A j \in DOMAIN early'[b] : early'[b][j] \in Knock
    BY DEF TypeInv, BookTypes
  <2>4. InHand' \in Seq(Knock)
    <3>1. task' \in {Idle} \cup CheckTask \cup RepTask \cup KnocksTask
      BY DEF TypeInv, TaskTypes
    <3>2. QED
      BY <3>1 DEF InHand, RepTask, KnocksTask, CheckTask, Idle
  <2>5. QED
    BY <1>5, <1>6, <2>1, <2>2, <2>3, <2>4 DEF Heard
<1>7. ~(Gives(task', n) /\ task'.item <= n[2])
  BY <1>4
<1>8. QED
  BY <1>5, <1>6, <1>7 DEF ToNumber, Gives, RepOf

\* Where early knocks come from.
LEMMA EarlyFrom ==
  ASSUME TypeInv, [Next]_vars, NEW n \in DOMAIN early', n \notin DOMAIN early
  PROVE  \/ Take /\ Head(tradeQueue) \in Knock /\ Head(tradeQueue).number = n
         \/ ReplayKnock /\ 1 \in DOMAIN InHand /\ InHand[1].number = n
<1>1. BookTypes /\ now \in Nat
  BY DEF TypeInv
<1>2. early' # early
  OBVIOUS
<1>3. ASSUME NEW k \in Knock, OnTradeKnock(k) PROVE k.number = n
  BY <1>1, <1>2, <1>3, KnownFacts, EarlyFacts DEF OnTradeKnock
<1>4. CASE Take /\ Head(tradeQueue) \in Knock /\ OnTradeKnock(Head(tradeQueue))
  BY <1>3, <1>4
<1>5. CASE ReplayKnock
  BY <1>2, <1>3, <1>5, ReplayShape DEF riskerVars
<1>6. CASE HandleRep
  <2>1. PICK m \in Messages, i \in Nat : m = task.msg /\ i = task.item
    BY <1>6, RepShape
  <2>2. i \in Items(m) /\ \E o : RepItemKnown(m, i, o) \/ RepItemUnknown(m, i, o)
    BY <1>2, <1>6, <2>1, RepShape
  <2>3. PICK b : b = <<m, i>>
    OBVIOUS
  <2>4. \A k \in DOMAIN early' : k \in DOMAIN early
    BY <1>1, <2>2, <2>3, RegisteredFacts
  <2>5. QED
    BY <2>4
<1>7. QED
  BY <1>2, <1>4, <1>5, <1>6, StepCalm DEF AllCalm

\* Early knocks of a batch come only when its reply has been dealt with.
LEMMA KeptStep ==
  ASSUME TypeInv, HandInv, ObjInv, Lives, RepliesOnce, InOrder, KeptKnocks,
         TypeInv', Lives', RepliesOnce', MildOvertaking, [Next]_vars
  PROVE  KeptKnocks'
<1>1. \A n : ToNumber(n)' => ToNumber(n)
  BY ToNumberStays
<1>2. ASSUME NEW n \in DOMAIN early', IsBatch(n[1]) PROVE ~ToNumber(n)'
  <2>1. CASE n \in DOMAIN early
    BY <1>1, <1>2, <2>1 DEF KeptKnocks
  <2>2. CASE Take /\ Head(tradeQueue) \in Knock /\ Head(tradeQueue).number = n
    <3>1. PICK k \in Knock : k = Head(tradeQueue)
      BY <2>2
    <3>2. k.number = n /\ k.type \in {"trade", "withdrawn", "failed"} /\ n[1] \in Messages
      BY <2>2, <3>1, NumberFacts DEF Knock
    <3>3. <<n[1], k.type>> \notin Overtaking
      BY <1>2, <3>2 DEF MildOvertaking
    <3>4. ~ToNumber(n)
      BY <2>2, <3>1, <3>2, <3>3, TakenBefore
    <3>5. QED
      BY <1>1, <3>4
  <2>3. CASE ReplayKnock /\ 1 \in DOMAIN InHand /\ InHand[1].number = n
    BY <1>1, <2>3 DEF KeptKnocks
  <2>4. QED
    BY <2>1, <2>2, <2>3, EarlyFrom
<1>3. CASE UNCHANGED task
  <2>1. InHand' = InHand
    BY <1>3 DEF InHand
  <2>2. \A n : ToNumber(n)' => \A j \in DOMAIN InHand' : InHand'[j].number # n
    BY <1>1, <2>1 DEF KeptKnocks
  <2>3. QED
    BY <1>2, <1>3, <2>2 DEF KeptKnocks
<1>4. CASE InHand' = <<>>
  <2>1. task'.kind = "rep" => task'.knocks = <<>>
    BY <1>4 DEF InHand
  <2>2. QED
    BY <1>2, <1>4, <2>1 DEF KeptKnocks
<1>5. CASE HandleRep
  <2>1. PICK m, i, n : m = task.msg /\ i = task.item /\ n = <<m, i>>
    OBVIOUS
  <2>2. task.kind = "rep" /\ m \in Messages /\ i \in Nat /\ InHand = task.knocks
    BY <1>5, <2>1, RepShape
  <2>3. CASE i \in Items(m) /\ task'.kind = "rep" /\ task'.knocks = task.knocks
    <3>1. InHand' = InHand /\ task'.knocks = <<>>
      BY <2>1, <2>2, <2>3 DEF InHand, KeptKnocks
    <3>2. QED
      BY <1>4, <2>2, <2>3, <3>1 DEF KeptKnocks
  <2>4. CASE /\ i \in Items(m) /\ i \in task.accepted /\ task'.kind = "rep"
             /\ task'.msg = m /\ task'.item = i + 1
             /\ n \in DOMAIN early /\ task'.knocks = early[n]
    <3>1. ToNumber(n) /\ ~ToNumber(n)' /\ n[1] = m
      BY <1>5, <2>1, <2>4, ItemToNumber, ItemDealt
    <3>2. ~IsBatch(m)
      BY <2>4, <3>1 DEF KeptKnocks
    <3>3. task'.item \notin Items(task'.msg)
      <4>1. Len(m.items) \in Nat
        BY <2>2, ItemsFacts
      <4>2. QED
        BY <2>2, <2>4, <3>2, <4>1 DEF IsBatch, Items
    <3>4. InHand' = early[n]
      BY <2>4 DEF InHand
    <3>5. \A j \in DOMAIN InHand' : InHand'[j].number = n
      BY <2>4, <3>4 DEF ObjInv, EarlyOwn
    <3>6. QED
      BY <1>2, <3>1, <3>3, <3>5 DEF KeptKnocks
  <2>5. CASE task'.kind = "knocks" /\ task'.rest = task.knocks
    <3>1. InHand' = InHand
      BY <2>2, <2>5 DEF InHand
    <3>2. \A b : ToNumber(b)' => \A j \in DOMAIN InHand' : InHand'[j].number # b
      BY <1>1, <3>1 DEF KeptKnocks
    <3>3. QED
      BY <1>2, <2>5, <3>2 DEF KeptKnocks
  <2>6. QED
    BY <1>5, <2>1, <2>3, <2>4, <2>5, RepShape
<1>6. CASE ReplayKnock
  <2>1. \A j \in DOMAIN InHand' : \E l \in DOMAIN InHand : InHand'[j] = InHand[l]
    BY <1>6, ReplayShape
  <2>2. \A n : ToNumber(n)' => \A j \in DOMAIN InHand' : InHand'[j].number # n
    BY <1>1, <2>1 DEF KeptKnocks
  <2>3. task'.kind # "rep"
    BY <1>6, ReplayShape
  <2>4. QED
    BY <1>2, <2>2, <2>3 DEF KeptKnocks
<1>7. Surroundings \/ ReadRep \/ UNCHANGED vars => UNCHANGED task
  BY AroundFrame
<1>8. Take \/ Check \/ Pass => InHand' = <<>>
  BY TaskTaken, CheckShape
<1>9. QED
  BY <1>3, <1>4, <1>5, <1>6, <1>7, <1>8 DEF Next, RiskThread

\* A message gets its reply while its orders work.
LEMMA RepliedWorks ==
  ASSUME TypeInv, HandInv, Lives, Moves, [Next]_vars,
         \A n \in Numbers : ToNumber(n) /\ n[1] \in replied => life[n] # "none",
         NEW n \in Numbers, ToNumber(n)', n[1] \in replied'
  PROVE  life'[n] # "none"
<1>1. CASE n[1] \in replied
  <2>1. life[n] # "none"
    BY <1>1, ToNumberStays
  <2>2. QED
    BY <2>1 DEF Moves
<1>2. CASE n[1] \notin replied
  <2>1. Surroundings \/ ReadRep \/ UNCHANGED vars
    <3>1. ~(Take \/ Check \/ Pass \/ HandleRep \/ ReplayKnock)
      BY <1>2, InsideFrame
    <3>2. QED
      BY <3>1 DEF Next, RiskThread
  <2>2. UNCHANGED <<early, task>>
    BY <2>1, AroundFrame
  <2>3. ~(Gives(task', n) /\ task'.item <= n[2])
    BY <1>2, <2>2 DEF HandInv, RepliesSettled, Gives, RepOf
  <2>4. PICK r : Heard(r)' /\ Gives(r, n)
    BY <1>2, <2>3 DEF ToNumber, Gives, RepOf
  <2>5. r.kind = "rep" /\ r.msg = n[1] /\ n[2] \in r.accepted
    BY <2>4 DEF Gives, RepOf
  <2>6. ~Heard(r)
    BY <1>2, <2>5, HeardKinds
  <2>7. r \in returns' /\ r \notin returns
    <3>1. InHand' = InHand
      BY <2>2 DEF InHand
    <3>2. \A j \in DOMAIN tradeQueue' :
            \/ \E i \in DOMAIN tradeQueue : tradeQueue[i] = tradeQueue'[j]
            \/ tradeQueue'[j] \in returns \/ tradeQueue'[j].kind \in {"order", "withdraw"}
      <4>1. ASSUME NEW x \in Queued, tradeQueue' = Append(tradeQueue, x)
            PROVE  \A j \in DOMAIN tradeQueue' :
                     (\E i \in DOMAIN tradeQueue : tradeQueue[i] = tradeQueue'[j])
                     \/ tradeQueue'[j] = x
        <5>1. tradeQueue \in Seq(Queued)
          BY DEF TypeInv
        <5>2. PICK e : e = Len(tradeQueue) + 1
          OBVIOUS
        <5>3. QED
          BY <4>1, <5>1, <5>2, AppendFacts
      <4>2. ASSUME NEW s \in returns, Deliver(s)
            PROVE  s \in Queued /\ tradeQueue' = Append(tradeQueue, s)
        BY <4>2 DEF Deliver, TypeInv, Queued
      <4>3. QED
        BY <2>1, <4>1, <4>2, QueueArrival
    <3>3. QED
      BY <2>2, <2>4, <2>5, <2>6, <3>1, <3>2 DEF Heard
  <2>8. verdict[n[1]] = "passed"
    BY <2>1, <2>5, <2>7, NewReply
  <2>9. life[n] # "none"
    BY <2>8 DEF Lives
  <2>10. QED
    BY <2>9 DEF Moves
<1>3. QED
  BY <1>1, <1>2

\* A step that gives no number keeps those given apart.
LEMMA NumbersFrame ==
  ASSUME TypeInv, HandInv, Lives, Moves, NumbersGiven, [Next]_vars,
         \A o \in DOMAIN orders' : orders'[o].number = NoNumber \/ SameNumber(o)
  PROVE  NumbersGiven'
<1>1. \A n \in Numbers : ToNumber(n)' /\ n[1] \in replied' => life'[n] # "none"
  BY RepliedWorks DEF NumbersGiven
<1>2. ASSUME NEW o \in DOMAIN orders', NEW n \in Numbers, orders'[o].number = n
      PROVE  o \in DOMAIN orders /\ orders[o].number = n
  BY <1>2, NumberFacts DEF SameNumber
<1>3. ASSUME NEW o \in DOMAIN orders', NEW n \in Numbers, orders'[o].number = n
      PROVE  /\ ~ToNumber(n)' /\ life'[n] # "none"
             /\ \A p \in DOMAIN orders' : orders'[p].number = n => p = o
  <2>1. o \in DOMAIN orders /\ orders[o].number = n
    BY <1>2, <1>3
  <2>2. ~ToNumber(n) /\ life[n] # "none"
    BY <2>1 DEF NumbersGiven
  <2>3. \A p \in DOMAIN orders' : orders'[p].number = n => p = o
    BY <1>2, <2>1 DEF NumbersGiven
  <2>4. ~ToNumber(n)'
    BY <2>2, ToNumberStays
  <2>5. QED
    BY <2>2, <2>3, <2>4 DEF Moves
<1>4. QED
  BY <1>1, <1>3 DEF NumbersGiven

\* A step that strikes only finished objects off the list keeps the others listed.
LEMMA RegisteredFrame ==
  ASSUME TypeInv, NumbersGiven, Registered, ListKept,
         \A o \in DOMAIN orders' : orders'[o].number = NoNumber \/ SameNumber(o),
         \A n \in DOMAIN early' : n \in DOMAIN early \/ n \notin DOMAIN single
  PROVE  Registered'
<1>1. SUFFICES ASSUME NEW o \in DOMAIN orders', NEW n \in Numbers, orders'[o].number = n,
                      ~orders'[o].finish
               PROVE  n \in DOMAIN single' /\ single'[n] = o /\ n \notin DOMAIN early'
  BY DEF Registered
<1>2. o \in DOMAIN orders /\ orders[o].number = n /\ ~orders[o].finish
  BY <1>1, NumberFacts DEF SameNumber
<1>3. n \in DOMAIN single /\ single[n] = o /\ n \notin DOMAIN early
  BY <1>2 DEF Registered
<1>4. ~Struck(n)
  BY <1>1, <1>2 DEF Struck, NumbersGiven
<1>5. QED
  BY <1>3, <1>4 DEF ListKept

\* What a knock does to the objects.
LEMMA KnockChange ==
  ASSUME TypeInv, ObjInv, NEW k \in Knock, KnockKnown(k)
  PROVE  /\ DOMAIN orders' = DOMAIN orders /\ early' = early /\ ListKept
         /\ \E o \in DOMAIN orders :
              /\ orders[o].number = k.number /\ SameNumber(o)
              /\ orders'[o].matched = IF k.type = "trade" THEN orders[o].matched + k.volume
                                      ELSE orders[o].matched
              /\ orders[o].withdrawn \/ k.type # "trade" => orders'[o].withdrawn
              /\ \A p \in DOMAIN orders : p # o => Calm(p)
<1>1. BookTypes
  BY DEF TypeInv
<1>2. /\ DOMAIN orders' = DOMAIN orders /\ early' = early
      /\ k.number \in DOMAIN single
      /\ \A n \in DOMAIN single' : n \in DOMAIN single /\ single'[n] = single[n]
  BY <1>1, KnownFacts
<1>3. PICK o \in DOMAIN orders :
        /\ o = single[k.number]
        /\ \/ orders'[o] = Told(k, orders[o])
           \/ /\ Finished(Told(k, orders[o]))
              /\ orders'[o] = [Told(k, orders[o]) EXCEPT !.finish = TRUE]
        /\ \A n \in DOMAIN single \ DOMAIN single' :
             n = orders[o].number /\ orders'[o].finish
        /\ \A p \in DOMAIN orders : p # o =>
             \/ orders'[p] = orders[p]
             \/ Finished(orders[p]) /\ orders'[p] = [orders[p] EXCEPT !.finish = TRUE]
  BY <1>1, KnownFacts
<1>4. orders[o].number = k.number
  BY <1>2, <1>3 DEF ObjInv, Mapped
<1>5. \A p \in DOMAIN orders : p # o => Calm(p)
  BY <1>1, <1>3, CalmChange
<1>6. /\ SameNumber(o)
      /\ orders'[o].matched = IF k.type = "trade" THEN orders[o].matched + k.volume
                              ELSE orders[o].matched
      /\ orders[o].withdrawn \/ k.type # "trade" => orders'[o].withdrawn
  <2>1. PICK x \in Order : x = orders[o]
    BY <1>1, ObjectFacts
  <2>2. PICK y \in Order : y = Told(k, x)
    BY <2>1, ToldFacts
  <2>3. /\ y.number = x.number /\ y.finish = x.finish
        /\ y.matched = IF k.type = "trade" THEN x.matched + k.volume ELSE x.matched
        /\ y.withdrawn = (x.withdrawn \/ k.type # "trade")
    <3>1. CASE k.type = "trade"
      BY <2>2, <3>1 DEF Told, Order
    <3>2. CASE k.type # "trade"
      BY <2>2, <3>2 DEF Told, Order
    <3>3. QED
      BY <3>1, <3>2
  <2>4. orders'[o] = y \/ orders'[o] = [y EXCEPT !.finish = TRUE]
    BY <1>3, <2>1, <2>2
  <2>5. /\ orders'[o].number = y.number /\ orders'[o].matched = y.matched
        /\ orders'[o].withdrawn = y.withdrawn /\ (y.finish => orders'[o].finish)
    BY <2>4 DEF Order
  <2>6. QED
    BY <2>1, <2>3, <2>5 DEF SameNumber
<1>7. ListKept
  BY <1>2, <1>3 DEF ListKept, Struck
<1>8. QED
  BY <1>2, <1>4, <1>5, <1>6, <1>7

\* A knock, known or early, gives and takes no number.
LEMMA KnockNumbers ==
  ASSUME TypeInv, ObjInv, NEW k \in Knock, OnTradeKnock(k)
  PROVE  /\ ListKept /\ \A o \in DOMAIN orders' : SameNumber(o)
         /\ \A n \in DOMAIN early' : n \in DOMAIN early \/ n \notin DOMAIN single
<1>1. CASE KnockKnown(k)
  BY <1>1, KnockChange DEF Calm
<1>2. CASE KnockEarly(k)
  <2>1. /\ UNCHANGED <<orders, single>> /\ k.number \notin DOMAIN single
        /\ \A n \in DOMAIN early' : n \in DOMAIN early \/ n = k.number
    <3>1. BookTypes
      BY DEF TypeInv
    <3>2. UNCHANGED <<orders, single>> /\ k.number \notin DOMAIN single
      BY <1>2, <3>1, EarlyFacts
    <3>3. \A n \in DOMAIN early' : n \in DOMAIN early \/ n = k.number
      <4>1. early' = early \/ DOMAIN early' = DOMAIN early \cup {k.number}
        BY <1>2, <3>1, EarlyFacts
      <4>2. QED
        BY <4>1
    <3>4. QED
      BY <3>2, <3>3
  <2>2. QED
    BY <2>1 DEF ListKept, SameNumber
<1>3. QED
  BY <1>1, <1>2 DEF OnTradeKnock

\* Every step gives an order at most one number, and lists its object under it.
LEMMA NumbersStep ==
  ASSUME TypeInv, HandInv, ObjInv, Lives, Moves, RepliesOnce, NumbersGiven, Registered,
         TypeInv', Lives', RepliesOnce', DistinctPrices, [Next]_vars
  PROVE  NumbersGiven' /\ Registered'
<1>1. CASE AllCalm
  <2>1. /\ \A o \in DOMAIN orders' : orders'[o].number = NoNumber \/ SameNumber(o)
        /\ ListKept /\ early' = early
    BY <1>1 DEF AllCalm, Calm
  <2>2. QED
    BY <2>1, NumbersFrame, RegisteredFrame
<1>2. ASSUME NEW k \in Knock, OnTradeKnock(k) PROVE NumbersGiven' /\ Registered'
  BY <1>2, KnockNumbers, NumbersFrame, RegisteredFrame
<1>3. CASE ReplayKnock /\ InHand # <<>>
  BY <1>2, <1>3, ReplayShape
<1>4. CASE /\ HandleRep /\ task.item \in Items(task.msg)
           /\ Guards(task.msg, task.item) /\ task.item \in task.accepted
  <2>1. PICK m \in Messages, i \in Nat : m = task.msg /\ i = task.item
    BY <1>4, RepShape
  <2>2. i \in Items(m) /\ \E o : RepItemKnown(m, i, o) \/ RepItemUnknown(m, i, o)
    BY <1>4, <2>1, RepShape
  <2>3. PICK o : RepItemKnown(m, i, o) \/ RepItemUnknown(m, i, o)
    BY <2>2
  <2>4. PICK b : b = <<m, i>>
    OBVIOUS
  <2>5. BookTypes /\ now \in Nat
    BY DEF TypeInv
  <2>6. /\ \A p \in DOMAIN orders' : p \in DOMAIN orders \/ p = o
        /\ \A p \in DOMAIN orders : p # o => orders'[p] = orders[p]
        /\ b \in DOMAIN single' /\ single'[b] = o
        /\ \A k \in DOMAIN single' : k = b \/ (k \in DOMAIN single /\ single'[k] = single[k])
        /\ \A k \in DOMAIN single : k \in DOMAIN single'
        /\ \A k \in DOMAIN early' : k # b /\ k \in DOMAIN early
    BY <2>2, <2>3, <2>4, <2>5, RegisteredFacts
  <2>7. orders'[o].number = b
    BY <2>2, <2>3, <2>4, <2>5, ObjChosen
  <2>8. b \in Numbers /\ b[1] = m /\ ToNumber(b) /\ ~ToNumber(b)'
    BY <1>4, <2>1, <2>4, ItemToNumber, ItemDealt
  <2>9. \A p \in DOMAIN orders : orders[p].number # b
    BY <2>8 DEF NumbersGiven
  <2>10. life'[b] # "none"
    <3>1. m \in replied
      BY <1>4, <2>1, RepShape DEF HandInv, RepliesSettled
    <3>2. QED
      BY <2>8, <3>1 DEF NumbersGiven, Moves
  <2>11. ASSUME NEW p \in DOMAIN orders', NEW n \in Numbers, orders'[p].number = n
         PROVE  \/ p = o /\ n = b
                \/ p # o /\ n # b /\ p \in DOMAIN orders /\ orders'[p] = orders[p]
    BY <2>6, <2>7, <2>9, <2>11
  <2>12. ASSUME NEW p \in DOMAIN orders', NEW n \in Numbers, orders'[p].number = n
         PROVE  /\ ~ToNumber(n)' /\ life'[n] # "none"
                /\ \A q \in DOMAIN orders' : orders'[q].number = n => q = p
    <3>1. CASE p = o /\ n = b
      BY <2>8, <2>10, <2>11, <3>1
    <3>2. CASE p # o /\ n # b /\ p \in DOMAIN orders /\ orders'[p] = orders[p]
      <4>1. ~ToNumber(n) /\ life[n] # "none"
        BY <2>12, <3>2 DEF NumbersGiven
      <4>2. ASSUME NEW q \in DOMAIN orders', orders'[q].number = n PROVE q = p
        <5>1. q \in DOMAIN orders /\ orders[q].number = n
          BY <2>11, <3>2, <4>2
        <5>2. QED
          BY <2>12, <3>2, <5>1 DEF NumbersGiven
      <4>3. QED
        BY <4>1, <4>2, ToNumberStays DEF Moves
    <3>3. QED
      BY <2>11, <2>12, <3>1, <3>2
  <2>13. \A n \in Numbers : ToNumber(n)' /\ n[1] \in replied' => life'[n] # "none"
    BY RepliedWorks DEF NumbersGiven
  <2>14. NumbersGiven'
    BY <2>12, <2>13 DEF NumbersGiven
  <2>15. ASSUME NEW p \in DOMAIN orders', NEW n \in Numbers, orders'[p].number = n,
                ~orders'[p].finish
         PROVE  n \in DOMAIN single' /\ single'[n] = p /\ n \notin DOMAIN early'
    <3>1. CASE p = o /\ n = b
      BY <2>6, <3>1
    <3>2. CASE p # o /\ n # b /\ p \in DOMAIN orders /\ orders'[p] = orders[p]
      BY <2>6, <2>15, <3>2 DEF Registered
    <3>3. QED
      BY <2>11, <2>15, <3>1, <3>2
  <2>16. Registered'
    BY <2>15 DEF Registered
  <2>17. QED
    BY <2>14, <2>16
<1>5. QED
  BY <1>1, <1>2, <1>3, <1>4, StepCalm

\* Before the reply is dealt with, all that was traded of an order and its end are told
\* of by knocks to come; later, what they do not tell of is in its object.
Announced ==
  /\ \A n \in Numbers : ToNumber(n) /\ Guards(n[1], n[2]) => Untold(n) = {} /\ ~Unexplained(n)
  /\ \A o \in DOMAIN orders : \A n \in Numbers : orders[o].number = n /\ ~orders[o].finish =>
       /\ Cardinality(Untold(n)) <= orders[o].matched
       /\ Unexplained(n) => orders[o].withdrawn
\* Of a step: no lot and no end of order n is left to no knock any more.
NoNews(n) == Untold(n)' \subseteq Untold(n) /\ (Unexplained(n)' => Unexplained(n))

\* The lots no knock tells of can be counted.
LEMMA UntoldFinite ==
  ASSUME TypeInv, NEW n \in Numbers
  PROVE  /\ IsFiniteSet(Untold(n)) /\ Cardinality(Untold(n)) \in Nat
         /\ Untold(n) \subseteq (left[n] + 1) .. VolumeOf(n)
         /\ left[n] \in Nat /\ VolumeOf(n) \in Nat \ {0}
<1>1. left[n] \in Nat /\ VolumeOf(n) \in Nat \ {0}
  BY NumberFacts DEF TypeInv, VolumeOf, ItemType
<1>2. Untold(n) \subseteq (left[n] + 1) .. VolumeOf(n)
  BY DEF Untold
<1>3. IsFiniteSet((left[n] + 1) .. VolumeOf(n))
  <2>1. left[n] + 1 \in Int /\ VolumeOf(n) \in Int
    BY <1>1
  <2>2. QED
    BY <2>1, FS_Interval
<1>4. QED
  BY <1>1, <1>2, <1>3, FS_Subset, FS_CardinalityType

\* What is to come stays to come.
LEMMA Quiet ==
  ASSUME NEW n, left'[n] = left[n], \A k : Coming(n, k) => Coming(n, k)',
         life'[n] = life[n] \/ life'[n] # "ended" \/ EndComing(n)'
  PROVE  NoNews(n)
<1>1. Untold(n)' \subseteq Untold(n)
  BY DEF Untold, VolumeOf, Misses
<1>2. EndComing(n) => EndComing(n)'
  BY DEF EndComing
<1>3. Unexplained(n)' => Unexplained(n)
  BY <1>2 DEF Unexplained
<1>4. QED
  BY <1>1, <1>3 DEF NoNews

\* Nothing is lost around the risk thread.
LEMMA HeardOutside ==
  ASSUME TypeInv, Surroundings \/ ReadRep \/ UNCHANGED vars, NEW k, Heard(k)
  PROVE  Heard(k)'
<1>1. UNCHANGED <<early, task>>
  BY AroundFrame
<1>2. InHand' = InHand
  BY <1>1 DEF InHand
<1>3. ASSUME NEW x \in Queued, tradeQueue' = Append(tradeQueue, x)
      PROVE  /\ \A j \in DOMAIN tradeQueue : j \in DOMAIN tradeQueue' /\ tradeQueue'[j] = tradeQueue[j]
             /\ \E j \in DOMAIN tradeQueue' : tradeQueue'[j] = x
  <2>1. tradeQueue \in Seq(Queued)
    BY DEF TypeInv
  <2>2. PICK e : e = Len(tradeQueue) + 1
    OBVIOUS
  <2>3. /\ DOMAIN tradeQueue' = DOMAIN tradeQueue \cup {e} /\ tradeQueue'[e] = x
        /\ \A p \in DOMAIN tradeQueue : tradeQueue'[p] = tradeQueue[p]
    BY <1>3, <2>1, <2>2, AppendFacts
  <2>4. QED
    BY <2>3
<1>4. CASE UNCHANGED tradeQueue /\ returns \subseteq returns'
  BY <1>1, <1>2, <1>4 DEF Heard
<1>5. ASSUME NEW x \in Queued, tradeQueue' = Append(tradeQueue, x), returns' = returns
      PROVE  Heard(k)'
  BY <1>1, <1>2, <1>3, <1>5 DEF Heard
<1>6. ASSUME NEW r \in returns, Deliver(r) PROVE Heard(k)'
  <2>1. tradeQueue' = Append(tradeQueue, r) /\ \A s \in returns : s \in returns' \/ s = r
    BY <1>6 DEF Deliver
  <2>2. r \in Queued
    BY DEF TypeInv, Queued
  <2>3. QED
    BY <1>1, <1>2, <1>3, <2>1, <2>2 DEF Heard
<1>7. QED
  BY <1>4, <1>5, <1>6, QueueArrival

\* A trade is told by its knock.
LEMMA TradeTold ==
  ASSUME TypeInv, NEW n \in Numbers, NEW v \in 1 .. left[n], Trade(n, v),
         \A k : Heard(k) => Heard(k)'
  PROVE  \A p \in Numbers : NoNews(p)
<1>1. /\ left \in [Numbers -> Nat] /\ life \in [Numbers -> {"none", "working", "ended"}]
      /\ left[n] \in Nat /\ v \in Nat
  BY DEF TypeInv
<1>2. PICK x : x = [kind |-> "knock", number |-> n, type |-> "trade", volume |-> v, left |-> left[n] - v]
  OBVIOUS
<1>3. /\ life[n] = "working" /\ returns' = returns \cup {x}
      /\ left' = [left EXCEPT ![n] = left[n] - v]
      /\ life' = [life EXCEPT ![n] = IF v = left[n] THEN "ended" ELSE life[n]]
  BY <1>2 DEF Trade
<1>4. Coming(n, x)' /\ x.type = "trade" /\ x.left = left[n] - v /\ x.left + x.volume = left[n]
  BY <1>1, <1>2, <1>3 DEF Coming, Heard
<1>5. \A p, k : Coming(p, k) => Coming(p, k)'
  BY DEF Coming
<1>6. ASSUME NEW p \in Numbers, p # n PROVE NoNews(p)
  <2>1. left'[p] = left[p] /\ life'[p] = life[p]
    BY <1>1, <1>3, <1>6
  <2>2. QED
    BY <1>5, <2>1, Quiet
<1>7. NoNews(n)
  <2>1. left'[n] = left[n] - v /\ life'[n] = IF v = left[n] THEN "ended" ELSE "working"
    BY <1>1, <1>3
  <2>2. ASSUME NEW u \in Untold(n)' PROVE u \in Untold(n)
    <3>1. u \in (left'[n] + 1) .. VolumeOf(n) /\ Misses(u, x)
      BY <1>4 DEF Untold, VolumeOf, Misses
    <3>2. VolumeOf(n) \in Nat /\ u \in Int /\ u > left[n] - v /\ u <= VolumeOf(n)
      BY <1>1, <2>1, <3>1, UntoldFinite
    <3>3. u > left[n]
      BY <1>1, <1>4, <3>1, <3>2 DEF Misses
    <3>4. u \in (left[n] + 1) .. VolumeOf(n)
      BY <1>1, <3>2, <3>3
    <3>5. \A k : Coming(n, k) /\ k.type = "trade" => Misses(u, k)
      BY <1>5 DEF Untold, Misses
    <3>6. QED
      BY <3>4, <3>5 DEF Untold
  <2>3. ~Unexplained(n)'
    BY <1>1, <2>1 DEF Unexplained
  <2>4. QED
    BY <2>2, <2>3 DEF NoNews
<1>8. QED
  BY <1>6, <1>7

\* An end that the exchange or the counter brings about is told by its knock.
LEMMA EndTold ==
  ASSUME TypeInv, NEW n \in Numbers, left'[n] = left[n], \A k : Heard(k) => Heard(k)',
         \/ life'[n] = life[n] \/ life'[n] # "ended"
         \/ \E k \in returns' : k.kind = "knock" /\ k.number = n /\ k.type # "trade"
  PROVE  NoNews(n)
<1>1. \A k : Coming(n, k) => Coming(n, k)'
  BY DEF Coming
<1>2. (\E k \in returns' : k.kind = "knock" /\ k.number = n /\ k.type # "trade") => EndComing(n)'
  BY DEF EndComing, Coming, Heard
<1>3. QED
  BY <1>1, <1>2, Quiet

\* Around the risk thread whatever happens to an order is told by a knock, or by a reply
\* that gives the order no number.
LEMMA OutsideNews ==
  ASSUME TypeInv, HandInv, Surroundings \/ ReadRep \/ UNCHANGED vars, NEW p \in Numbers
  PROVE  NoNews(p) \/ (p[1] \notin replied /\ ~ToNumber(p)')
<1>1. \A k : Heard(k) => Heard(k)'
  BY HeardOutside
<1>2. /\ left \in [Numbers -> Nat] /\ life \in [Numbers -> {"none", "working", "ended"}]
  BY DEF TypeInv
<1>3. CASE UNCHANGED <<life, left>>
  BY <1>1, <1>3, EndTold
<1>4. ASSUME NEW n \in Numbers, NEW v \in 1 .. left[n], Trade(n, v) PROVE NoNews(p)
  BY <1>1, <1>4, TradeTold
<1>5. ASSUME NEW n \in Numbers, NEW type \in {"withdrawn", "failed"}, End(n, type) PROVE NoNews(p)
  <2>1. PICK x : x = [kind |-> "knock", number |-> n, type |-> type, volume |-> left[n],
                      left |-> left[n]]
    OBVIOUS
  <2>2. life' = [life EXCEPT ![n] = "ended"] /\ returns' = returns \cup {x} /\ left' = left
    BY <1>5, <2>1 DEF End
  <2>3. x \in returns' /\ x.kind = "knock" /\ x.number = n /\ x.type # "trade"
    BY <2>1, <2>2
  <2>4. life'[p] = life[p] \/ p = n
    BY <1>2, <2>2
  <2>5. QED
    BY <1>1, <2>2, <2>3, <2>4, EndTold
<1>6. ASSUME NEW m \in Messages, NEW ok \in BOOLEAN, Withdraw(m, ok) PROVE NoNews(p)
  <2>1. PICK hit : hit = {n \in NumbersOf(m) : life[n] = "working" /\
                           (withdrawal[m].item = 0 \/ n = <<m, withdrawal[m].item>>)}
    OBVIOUS
  <2>2. PICK K : K = {[kind |-> "knock", number |-> n, type |-> "withdrawn", volume |-> left[n],
                       left |-> left[n]] : n \in hit}
    OBVIOUS
  <2>3. /\ life' = [n \in Numbers |-> IF ok /\ n \in hit THEN "ended" ELSE life[n]]
        /\ (ok => K \subseteq returns') /\ left' = left
    BY <1>6, <2>1, <2>2 DEF Withdraw
  <2>4. CASE ok /\ p \in hit
    <3>1. PICK x : x = [kind |-> "knock", number |-> p, type |-> "withdrawn", volume |-> left[p],
                        left |-> left[p]]
      OBVIOUS
    <3>2. x \in returns' /\ x.kind = "knock" /\ x.number = p /\ x.type # "trade"
      BY <2>2, <2>3, <2>4, <3>1
    <3>3. QED
      BY <1>1, <2>3, <3>2, EndTold
  <2>5. CASE ~(ok /\ p \in hit)
    <3>1. life'[p] = life[p]
      BY <2>3, <2>5
    <3>2. QED
      BY <1>1, <2>3, <3>1, EndTold
  <2>6. QED
    BY <2>4, <2>5
<1>7. ASSUME Collect \/ \E m \in Messages : ForeignOrder(m) PROVE NoNews(p)
  <2>1. left' = left
    BY <1>7 DEF Collect, ForeignOrder
  <2>2. life'[p] = life[p] \/ life'[p] = "working"
    <3>1. CASE life' = life
      BY <3>1
    <3>2. ASSUME NEW m, life' = [n \in Numbers |-> IF n \in NumbersOf(m) THEN "working" ELSE life[n]]
          PROVE  life'[p] = life[p] \/ life'[p] = "working"
      BY <3>2
    <3>3. life' = life \/ \E m : life' = [n \in Numbers |-> IF n \in NumbersOf(m) THEN "working" ELSE life[n]]
      BY <1>7 DEF Collect, ForeignOrder
    <3>4. QED
      BY <3>1, <3>2, <3>3
  <2>3. QED
    BY <1>1, <2>1, <2>2, EndTold
<1>8. ASSUME NEW m \in Messages, NEW accepted, CounterReply(m, accepted)
      PROVE  NoNews(p) \/ (p[1] \notin replied /\ ~ToNumber(p)')
  <2>1. PICK x : x = [kind |-> "rep", msg |-> m, accepted |-> accepted]
    OBVIOUS
  <2>2. /\ left' = left /\ m \notin replied /\ replied' = replied \cup {m}
        /\ returns' = returns \cup {x} /\ UNCHANGED <<tradeQueue, early, task>>
        /\ life' = [n \in Numbers |-> IF n[1] = m /\ n[2] \notin accepted THEN "ended" ELSE life[n]]
    BY <1>8, <2>1 DEF CounterReply, riskerVars
  <2>3. CASE p[1] = m /\ p[2] \notin accepted
    <3>1. ASSUME NEW r, Heard(r)', Gives(r, p) PROVE FALSE
      <4>1. r.kind = "rep" /\ r.msg = m /\ p[2] \in r.accepted
        BY <2>3, <3>1 DEF Gives, RepOf
      <4>2. r # x
        BY <2>1, <2>3, <4>1
      <4>3. InHand' = InHand
        BY <2>2 DEF InHand
      <4>4. Heard(r)
        BY <2>2, <3>1, <4>2, <4>3 DEF Heard
      <4>5. QED
        BY <2>2, <4>1, <4>4, HeardKinds
    <3>2. ~Gives(task', p)
      BY <2>2, <2>3 DEF HandInv, RepliesSettled, Gives, RepOf
    <3>3. ~ToNumber(p)'
      BY <2>2, <2>3, <3>1, <3>2 DEF ToNumber, Gives, RepOf
    <3>4. QED
      BY <2>2, <2>3, <3>3
  <2>4. CASE ~(p[1] = m /\ p[2] \notin accepted)
    <3>1. life'[p] = life[p]
      BY <2>2, <2>4
    <3>2. QED
      BY <1>1, <2>2, <3>1, EndTold
  <2>5. QED
    BY <2>3, <2>4
<1>9. CASE \/ Tick \/ CollectWithdraw \/ ReadRep \/ UNCHANGED vars
           \/ \E m \in Messages : Request(m) \/ \E i \in 0 .. Len(m.items) : RequestWithdraw(m, i)
           \/ \E r \in returns : Deliver(r)
  <2>1. UNCHANGED <<life, left>>
    BY <1>9 DEF Tick, CollectWithdraw, ReadRep, Request, RequestWithdraw, Deliver, vars, truthVars
  <2>2. QED
    BY <1>3, <2>1
<1>10. QED
  BY <1>4, <1>5, <1>6, <1>7, <1>8, <1>9 DEF Surroundings

\* What is kept early stays kept.
EarlyStays ==
  \A n \in DOMAIN early : n \in DOMAIN early' /\
    \A j \in DOMAIN early[n] : j \in DOMAIN early'[n] /\ early'[n][j] = early[n][j]

LEMMA EarlyGrows ==
  ASSUME BookTypes, NEW k \in Knock, KnockEarly(k)
  PROVE  /\ EarlyStays
         /\ k.type # "withdrawn" /\ Guards(k.number[1], k.number[2]) =>
              k.number \in DOMAIN early' /\ \E j \in DOMAIN early'[k.number] : early'[k.number][j] = k
<1>1. CASE early' = early
  BY <1>1, EarlyFacts DEF EarlyStays
<1>2. CASE early' # early
  <2>1. PICK s : s = IF k.number \in DOMAIN early THEN early[k.number] ELSE <<>>
    OBVIOUS
  <2>2. /\ DOMAIN early' = DOMAIN early \cup {k.number}
        /\ \A n \in DOMAIN early : n # k.number => early'[n] = early[n]
        /\ early'[k.number] = s \o <<k>>
    BY <1>2, <2>1, EarlyFacts
  <2>3. s \in Seq(Knock)
    BY <2>1 DEF BookTypes
  <2>4. PICK e : e = Len(s) + 1
    OBVIOUS
  <2>5. PICK t : t = s \o <<k>>
    OBVIOUS
  <2>6. DOMAIN t = DOMAIN s \cup {e} /\ t[e] = k /\ \A j \in DOMAIN s : t[j] = s[j]
    <3>1. Append(s, k) = t
      BY <2>3, <2>5
    <3>2. QED
      BY <2>3, <2>4, <3>1, AppendFacts
  <2>7. ASSUME NEW n \in DOMAIN early
        PROVE  /\ n \in DOMAIN early'
               /\ \A j \in DOMAIN early[n] : j \in DOMAIN early'[n] /\ early'[n][j] = early[n][j]
    <3>1. CASE n = k.number
      BY <2>1, <2>2, <2>5, <2>6, <2>7, <3>1
    <3>2. CASE n # k.number
      BY <2>2, <2>7, <3>2
    <3>3. QED
      BY <3>1, <3>2
  <2>8. QED
    BY <2>2, <2>5, <2>6, <2>7 DEF EarlyStays
<1>3. QED
  BY <1>1, <1>2

\* The risk thread loses only the knock it works off.
LEMMA HeardTake ==
  ASSUME TypeInv, Take, EarlyStays, NEW k, Heard(k), k # Head(tradeQueue)
  PROVE  Heard(k)'
<1>1. returns' = returns /\ InHand = <<>>
  BY InsideFrame, TaskTaken
<1>2. ASSUME NEW j \in DOMAIN tradeQueue, tradeQueue[j] = k
      PROVE  \E i \in DOMAIN tradeQueue' : tradeQueue'[i] = k
  <2>1. j # 1
    BY <1>2, QueueTail
  <2>2. QED
    BY <1>2, <2>1, QueueTail
<1>3. QED
  BY <1>1, <1>2 DEF Heard, EarlyStays

\* The same of a knock in hand ...
LEMMA HeardReplay ==
  ASSUME TypeInv, ReplayKnock, EarlyStays, NEW k, Heard(k), InHand = <<>> \/ k # InHand[1]
  PROVE  Heard(k)'
<1>1. returns' = returns /\ tradeQueue' = tradeQueue
  BY InsideFrame, ReplayShape
<1>2. ASSUME NEW j \in DOMAIN InHand, InHand[j] = k
      PROVE  \E i \in DOMAIN InHand' : InHand'[i] = k
  <2>1. InHand # <<>> /\ j # 1
    BY <1>2
  <2>2. QED
    BY <1>2, <2>1, ReplayShape
<1>3. QED
  BY <1>1, <1>2 DEF Heard, EarlyStays

\* ... and a check loses none.
LEMMA HeardCheck ==
  ASSUME TypeInv, Check \/ Pass, NEW k, Heard(k)
  PROVE  Heard(k)'
<1>1. returns' = returns /\ UNCHANGED <<tradeQueue, early>> /\ InHand = <<>>
  BY InsideFrame, CheckShape
<1>2. QED
  BY <1>1 DEF Heard

\* With the reply the knocks that came before it pass to the hand.
LEMMA HeardReplied ==
  ASSUME TypeInv, KeptKnocks, HandleRep, NEW k, Heard(k)
  PROVE  Heard(k)'
<1>1. returns' = returns /\ tradeQueue' = tradeQueue
  BY InsideFrame DEF HandleRep
<1>2. task.kind = "rep" /\ task.msg \in Messages /\ InHand = task.knocks
  BY RepShape
<1>3. PICK m \in Messages, i \in Nat : m = task.msg /\ i = task.item
  BY RepShape
<1>4. ASSUME UNCHANGED early, InHand' = InHand PROVE Heard(k)'
  BY <1>1, <1>4 DEF Heard
<1>5. CASE i \in Items(m) /\ ~(Guards(m, i) /\ i \in task.accepted)
  <2>1. UNCHANGED early /\ task'.kind = "rep" /\ task'.knocks = task.knocks
    BY <1>3, <1>5, RepShape
  <2>2. QED
    BY <1>2, <1>4, <2>1 DEF InHand
<1>6. CASE i \in Items(m) /\ Guards(m, i) /\ i \in task.accepted
  <2>1. PICK b : b = <<m, i>>
    OBVIOUS
  <2>2. /\ task'.kind = "rep"
        /\ task'.knocks = IF b \in DOMAIN early THEN early[b] ELSE task.knocks
        /\ \E o : RepItemKnown(m, i, o) \/ RepItemUnknown(m, i, o)
    BY <1>3, <1>6, <2>1, RepShape
  <2>3. BookTypes /\ now \in Nat
    BY DEF TypeInv
  <2>4. PICK o : RepItemKnown(m, i, o) \/ RepItemUnknown(m, i, o)
    BY <2>2
  <2>5. /\ \A n \in DOMAIN early' : early'[n] = early[n]
        /\ \A n \in DOMAIN early : n # b => n \in DOMAIN early'
    <3>1. i \in Items(m)
      BY <1>6
    <3>2. \A n \in DOMAIN early' : n # b /\ n \in DOMAIN early /\ early'[n] = early[n]
      BY <2>1, <2>3, <2>4, <3>1, EarlyRegistered
    <3>3. \A n \in DOMAIN early : n # b => n \in DOMAIN early'
      BY <2>1, <2>3, <2>4, <3>1, RegisteredFacts
    <3>4. QED
      BY <3>2, <3>3
  <2>6. InHand = <<>>
    BY <1>2, <1>3, <1>6 DEF KeptKnocks
  <2>7. b \in DOMAIN early => InHand' = early[b]
    BY <2>2 DEF InHand
  <2>8. CASE \E n \in DOMAIN early : \E j \in DOMAIN early[n] : early[n][j] = k
    <3>1. PICK n \in DOMAIN early : \E j \in DOMAIN early[n] : early[n][j] = k
      BY <2>8
    <3>2. CASE n = b
      BY <2>7, <3>1, <3>2 DEF Heard
    <3>3. CASE n # b
      <4>1. n \in DOMAIN early' /\ early'[n] = early[n]
        BY <2>5, <3>1, <3>3
      <4>2. QED
        BY <3>1, <4>1 DEF Heard
    <3>4. QED
      BY <3>2, <3>3
  <2>9. QED
    BY <1>1, <2>6, <2>8 DEF Heard
<1>7. CASE i \notin Items(m)
  <2>1. task'.kind = "knocks" /\ task'.rest = task.knocks
    BY <1>3, <1>7, RepShape
  <2>2. early' = early
    BY <1>3, <1>7 DEF HandleRep, RegisterBatch
  <2>3. QED
    BY <1>2, <1>4, <2>1, <2>2 DEF InHand
<1>8. QED
  BY <1>5, <1>6, <1>7

\* A step of the risk thread leaves the truth alone: it is news only if it loses a knock.
LEMMA InsideNews ==
  ASSUME NEW n \in Numbers, UNCHANGED <<life, left>>, \A k : Coming(n, k) => Coming(n, k)'
  PROVE  NoNews(n)
BY Quiet

\* Objects that are told nothing, and numbers of which no knock is lost.
LEMMA AnnouncedFrame ==
  ASSUME TypeInv, TypeInv', HandInv, NumbersGiven, Announced, [Next]_vars,
         \A o \in DOMAIN orders' : orders'[o].number = NoNumber \/ Calm(o),
         \A n \in Numbers :
           \/ NoNews(n)
           \/ /\ ~(ToNumber(n) /\ ToNumber(n)' /\ Guards(n[1], n[2]))
              /\ \A o \in DOMAIN orders : orders[o].number # n \/ orders[o].finish
  PROVE  Announced'
<1>1. ASSUME NEW n \in Numbers, ToNumber(n)', Guards(n[1], n[2])
      PROVE  Untold(n)' = {} /\ ~Unexplained(n)'
  <2>1. ToNumber(n)
    BY <1>1, ToNumberStays
  <2>2. Untold(n) = {} /\ ~Unexplained(n) /\ NoNews(n)
    BY <1>1, <2>1 DEF Announced
  <2>3. QED
    BY <2>2 DEF NoNews
<1>2. ASSUME NEW o \in DOMAIN orders', NEW n \in Numbers, orders'[o].number = n, ~orders'[o].finish
      PROVE  /\ Cardinality(Untold(n)') <= orders'[o].matched
             /\ Unexplained(n)' => orders'[o].withdrawn
  <2>1. Calm(o)
    BY <1>2, NumberFacts
  <2>2. /\ o \in DOMAIN orders /\ orders[o].number = n /\ ~orders[o].finish
        /\ orders'[o].matched = orders[o].matched /\ (orders[o].withdrawn => orders'[o].withdrawn)
    BY <1>2, <2>1 DEF Calm, SameNumber
  <2>3. NoNews(n) /\ Cardinality(Untold(n)) <= orders[o].matched
        /\ (Unexplained(n) => orders[o].withdrawn)
    BY <2>2 DEF Announced
  <2>4. Cardinality(Untold(n)') <= Cardinality(Untold(n)) /\ Cardinality(Untold(n)') \in Nat
    BY <2>3, UntoldFinite, FS_Subset, FS_CardinalityType DEF NoNews
  <2>5. orders[o].matched \in Nat
    BY <2>2, ObjectFacts DEF TypeInv, Order
  <2>6. Cardinality(Untold(n)) \in Nat
    BY UntoldFinite
  <2>7. QED
    BY <2>2, <2>3, <2>4, <2>5, <2>6 DEF NoNews
<1>3. QED
  BY <1>1, <1>2 DEF Announced

\* The object of a knock takes over what the knock tells.
LEMMA KnockTold ==
  ASSUME TypeInv, UNCHANGED <<life, left>>, NEW k0 \in Knock,
         \A k : Heard(k) => Heard(k)' \/ k = k0,
         NEW a \in Nat, NEW w \in BOOLEAN, NEW b, NEW v \in BOOLEAN,
         Cardinality(Untold(k0.number)) <= a, Unexplained(k0.number) => w,
         b = IF k0.type = "trade" THEN a + k0.volume ELSE a,
         w \/ k0.type # "trade" => v
  PROVE  Cardinality(Untold(k0.number)') <= b /\ (Unexplained(k0.number)' => v)
<1>1. PICK n \in Numbers : n = k0.number
  BY DEF Knock
<1>2. k0.left \in Nat /\ k0.volume \in Nat /\ k0.kind = "knock"
  BY DEF Knock
<1>3. \A k : Coming(n, k) => Coming(n, k)' \/ k = k0
  BY DEF Coming
<1>4. CASE k0.type = "trade"
  <2>1. PICK U : U = (k0.left + 1) .. (k0.left + k0.volume)
    OBVIOUS
  <2>2. IsFiniteSet(U) /\ Cardinality(U) = k0.volume
    <3>1. k0.left + 1 \in Int /\ k0.left + k0.volume \in Int
      BY <1>2
    <3>2. /\ IsFiniteSet(U)
          /\ Cardinality(U) = IF k0.left + 1 > k0.left + k0.volume THEN 0
                              ELSE (k0.left + k0.volume) - (k0.left + 1) + 1
      BY <2>1, <3>1, FS_Interval
    <3>3. QED
      BY <1>2, <3>2
  <2>3. ASSUME NEW u \in Untold(n)' PROVE u \in Untold(n) \cup U
    <3>1. u \in (left[n] + 1) .. VolumeOf(n) /\ \A k : Coming(n, k)' /\ k.type = "trade" => Misses(u, k)
      BY DEF Untold, VolumeOf, Misses
    <3>2. CASE Misses(u, k0)
      BY <1>3, <3>1, <3>2 DEF Untold
    <3>3. CASE ~Misses(u, k0)
      <4>1. u \in Int
        BY <3>1, UntoldFinite
      <4>2. QED
        BY <1>2, <2>1, <3>3, <4>1 DEF Misses
    <3>4. QED
      BY <3>2, <3>3
  <2>4. /\ IsFiniteSet(Untold(n)) /\ Cardinality(Untold(n)) \in Nat
    BY UntoldFinite
  <2>5. /\ IsFiniteSet(Untold(n) \cup U)
        /\ Cardinality(Untold(n) \cup U) =
             Cardinality(Untold(n)) + Cardinality(U) - Cardinality(Untold(n) \cap U)
    BY <2>2, <2>4, FS_Union
  <2>6. Cardinality(Untold(n) \cap U) \in Nat
    BY <2>2, FS_Intersection, FS_CardinalityType
  <2>7. /\ Cardinality(Untold(n)') <= Cardinality(Untold(n) \cup U)
        /\ Cardinality(Untold(n)') \in Nat
    BY <2>3, <2>5, FS_Subset, FS_CardinalityType
  <2>8. Cardinality(Untold(n)') <= b
    BY <1>1, <1>2, <1>4, <2>2, <2>4, <2>5, <2>6, <2>7
  <2>9. EndComing(n) => EndComing(n)'
    BY <1>3, <1>4 DEF EndComing
  <2>10. Unexplained(n)' => Unexplained(n)
    BY <2>9 DEF Unexplained
  <2>11. QED
    BY <1>1, <2>8, <2>10
<1>5. CASE k0.type # "trade"
  <2>1. Untold(n)' \subseteq Untold(n)
    BY <1>3, <1>5 DEF Untold, VolumeOf, Misses
  <2>2. Cardinality(Untold(n)') <= Cardinality(Untold(n)) /\ Cardinality(Untold(n)') \in Nat
    BY <2>1, UntoldFinite, FS_Subset, FS_CardinalityType
  <2>3. Cardinality(Untold(n)) \in Nat
    BY UntoldFinite
  <2>4. QED
    BY <1>1, <1>5, <2>2, <2>3
<1>6. QED
  BY <1>4, <1>5

\* A knock of a listed order is worked off.
LEMMA AnnouncedKnown ==
  ASSUME TypeInv, ObjInv, NumbersGiven, Announced, TypeInv', HandInv, [Next]_vars,
         UNCHANGED <<life, left>>, NEW k0 \in Knock, KnockKnown(k0),
         \A k : Heard(k) => Heard(k)' \/ k = k0
  PROVE  Announced'
<1>1. PICK n0 \in Numbers : n0 = k0.number
  BY DEF Knock
<1>2. DOMAIN orders' = DOMAIN orders
  BY KnockChange
<1>3. PICK q \in DOMAIN orders :
        /\ orders[q].number = k0.number /\ SameNumber(q)
        /\ orders'[q].matched = IF k0.type = "trade" THEN orders[q].matched + k0.volume
                                ELSE orders[q].matched
        /\ orders[q].withdrawn \/ k0.type # "trade" => orders'[q].withdrawn
        /\ \A p \in DOMAIN orders : p # q => Calm(p)
  BY KnockChange
<1>4. ~ToNumber(n0) /\ \A p \in DOMAIN orders : orders[p].number = n0 => p = q
  BY <1>1, <1>3 DEF NumbersGiven
<1>5. ASSUME NEW n \in Numbers, n # n0 PROVE NoNews(n)
  <2>1. \A k : Coming(n, k) => Coming(n, k)'
    BY <1>1, <1>5 DEF Coming
  <2>2. QED
    BY <2>1, InsideNews
<1>6. ASSUME NEW n \in Numbers, ToNumber(n)', Guards(n[1], n[2])
      PROVE  Untold(n)' = {} /\ ~Unexplained(n)'
  <2>1. ToNumber(n) /\ n # n0
    BY <1>4, <1>6, ToNumberStays
  <2>2. Untold(n) = {} /\ ~Unexplained(n) /\ NoNews(n)
    BY <1>5, <1>6, <2>1 DEF Announced
  <2>3. QED
    BY <2>2 DEF NoNews
<1>7. ASSUME NEW o \in DOMAIN orders', NEW n \in Numbers, orders'[o].number = n, ~orders'[o].finish
      PROVE  /\ Cardinality(Untold(n)') <= orders'[o].matched
             /\ Unexplained(n)' => orders'[o].withdrawn
  <2>1. o \in DOMAIN orders /\ SameNumber(o)
    BY <1>2, <1>3 DEF Calm
  <2>2. orders[o].number = n /\ ~orders[o].finish
    BY <1>7, <2>1 DEF SameNumber
  <2>3. PICK a, w, b, v : /\ a = orders[o].matched /\ w = orders[o].withdrawn
                          /\ b = orders'[o].matched /\ v = orders'[o].withdrawn
    OBVIOUS
  <2>4. a \in Nat /\ w \in BOOLEAN /\ b \in Nat /\ v \in BOOLEAN
    <3>1. BookTypes /\ BookTypes'
      BY DEF TypeInv
    <3>2. orders[o] \in Order /\ orders'[o] \in Order
      BY <2>1, <3>1, <1>2 DEF BookTypes
    <3>3. QED
      BY <2>3, <3>2 DEF Order
  <2>5. Cardinality(Untold(n)) <= a /\ (Unexplained(n) => w)
    BY <2>1, <2>2, <2>3 DEF Announced
  <2>6. CASE o = q
    <3>1. n = k0.number
      BY <1>3, <2>2, <2>6
    <3>2. b = IF k0.type = "trade" THEN a + k0.volume ELSE a
      BY <1>3, <2>3, <2>6
    <3>3. w \/ k0.type # "trade" => v
      BY <1>3, <2>3, <2>6
    <3>4. Cardinality(Untold(k0.number)) <= a /\ (Unexplained(k0.number) => w)
      BY <2>5, <3>1
    <3>5. Cardinality(Untold(k0.number)') <= b /\ (Unexplained(k0.number)' => v)
      BY <2>4, <3>2, <3>3, <3>4, KnockTold
    <3>6. QED
      BY <2>3, <3>1, <3>5
  <2>7. CASE o # q
    <3>1. n # n0 /\ Calm(o)
      BY <1>3, <1>4, <2>1, <2>2, <2>7
    <3>2. a = b /\ (w => v)
      BY <2>3, <3>1 DEF Calm
    <3>3. NoNews(n)
      BY <1>5, <3>1
    <3>4. Cardinality(Untold(n)') <= Cardinality(Untold(n)) /\ Cardinality(Untold(n)') \in Nat
      BY <3>3, UntoldFinite, FS_Subset, FS_CardinalityType DEF NoNews
    <3>5. Cardinality(Untold(n)) \in Nat
      BY UntoldFinite
    <3>6. QED
      BY <2>3, <2>4, <2>5, <3>2, <3>3, <3>4, <3>5 DEF NoNews
  <2>8. QED
    BY <2>6, <2>7
<1>8. QED
  BY <1>6, <1>7 DEF Announced

\* A knock before the reply is kept, or nothing depends on it: an order that is not
\* guarded gets no object, and only trades and failures come so early.
LEMMA AnnouncedEarly ==
  ASSUME TypeInv, HandInv, NumbersGiven, Registered, Announced, TypeInv', [Next]_vars,
         UNCHANGED <<life, left>>, NEW k0 \in Knock, KnockEarly(k0),
         \A k : Heard(k) => Heard(k)' \/ k = k0,
         ToNumber(k0.number) => k0.type # "withdrawn"
  PROVE  Announced'
<1>1. BookTypes /\ k0.number \in Numbers
  BY DEF TypeInv, Knock
<1>2. UNCHANGED orders /\ k0.number \notin DOMAIN single
  BY <1>1, EarlyFacts
<1>3. \A o \in DOMAIN orders' : Calm(o)
  BY <1>1, <1>2, CalmChange
<1>4. ASSUME NEW n \in Numbers, n # k0.number PROVE NoNews(n)
  <2>1. \A k : Coming(n, k) => Coming(n, k)'
    BY <1>4 DEF Coming
  <2>2. QED
    BY <2>1, InsideNews
<1>5. CASE k0.type # "withdrawn" /\ Guards(k0.number[1], k0.number[2])
  <2>1. Heard(k0)'
    BY <1>1, <1>5, EarlyGrows DEF Heard
  <2>2. NoNews(k0.number)
    <3>1. \A k : Coming(k0.number, k) => Coming(k0.number, k)'
      BY <2>1 DEF Coming
    <3>2. QED
      BY <1>1, <3>1, InsideNews
  <2>3. \A n \in Numbers : NoNews(n)
    BY <1>4, <2>2
  <2>4. QED
    BY <1>3, <2>3, AnnouncedFrame
<1>6. CASE ~(k0.type # "withdrawn" /\ Guards(k0.number[1], k0.number[2]))
  <2>1. /\ ~(ToNumber(k0.number) /\ Guards(k0.number[1], k0.number[2]))
        /\ \A o \in DOMAIN orders : orders[o].number # k0.number \/ orders[o].finish
    BY <1>1, <1>2, <1>6 DEF Registered
  <2>2. QED
    BY <1>3, <1>4, <2>1, AnnouncedFrame
<1>7. QED
  BY <1>5, <1>6

\* A knock is worked off, whether its order is listed or not.
LEMMA AnnouncedKnock ==
  ASSUME TypeInv, HandInv, ObjInv, NumbersGiven, Registered, Announced, TypeInv', [Next]_vars,
         UNCHANGED <<life, left>>, NEW k0 \in Knock, OnTradeKnock(k0),
         EarlyStays => \A k : Heard(k) => Heard(k)' \/ k = k0,
         ToNumber(k0.number) => k0.type # "withdrawn"
  PROVE  Announced'
<1>1. BookTypes
  BY DEF TypeInv
<1>2. CASE KnockKnown(k0)
  <2>1. early' = early
    BY <1>2 DEF KnockKnown
  <2>2. EarlyStays
    BY <2>1 DEF EarlyStays
  <2>3. QED
    BY <1>2, <2>2, AnnouncedKnown
<1>3. CASE KnockEarly(k0)
  BY <1>1, <1>3, EarlyGrows, AnnouncedEarly
<1>4. QED
  BY <1>2, <1>3 DEF OnTradeKnock

\* The object that is given a number begins with nothing told, and nothing untold.
LEMMA AnnouncedRegister ==
  ASSUME TypeInv, HandInv, ObjInv, DistinctPrices, NumbersGiven, Announced, TypeInv', [Next]_vars,
         UNCHANGED <<life, left>>, HandleRep, task.item \in Items(task.msg),
         Guards(task.msg, task.item), task.item \in task.accepted,
         \A k : Heard(k) => Heard(k)'
  PROVE  Announced'
<1>1. PICK m \in Messages, i \in Nat : m = task.msg /\ i = task.item
  BY RepShape
<1>2. i \in Items(m) /\ \E o : RepItemKnown(m, i, o) \/ RepItemUnknown(m, i, o)
  BY <1>1, RepShape
<1>3. PICK o : RepItemKnown(m, i, o) \/ RepItemUnknown(m, i, o)
  BY <1>2
<1>4. PICK b : b = <<m, i>>
  OBVIOUS
<1>5. BookTypes /\ now \in Nat
  BY DEF TypeInv
<1>6. /\ \A p \in DOMAIN orders' : p \in DOMAIN orders \/ p = o
      /\ \A p \in DOMAIN orders : p # o => orders'[p] = orders[p]
      /\ o \in DOMAIN orders'
  BY <1>2, <1>3, <1>4, <1>5, RegisteredFacts
<1>7. orders'[o].number = b
  BY <1>2, <1>3, <1>4, <1>5, ObjChosen
<1>8. b \in Numbers /\ ToNumber(b) /\ Guards(b[1], b[2])
  BY <1>1, <1>4, ItemToNumber
<1>9. ASSUME NEW n \in Numbers PROVE NoNews(n)
  <2>1. \A k : Coming(n, k) => Coming(n, k)'
    BY DEF Coming
  <2>2. QED
    BY <2>1, InsideNews
<1>10. ASSUME NEW n \in Numbers, ToNumber(n)', Guards(n[1], n[2])
       PROVE  Untold(n)' = {} /\ ~Unexplained(n)'
  <2>1. ToNumber(n)
    BY <1>10, ToNumberStays
  <2>2. Untold(n) = {} /\ ~Unexplained(n) /\ NoNews(n)
    BY <1>9, <1>10, <2>1 DEF Announced
  <2>3. QED
    BY <2>2 DEF NoNews
<1>11. ASSUME NEW p \in DOMAIN orders', NEW n \in Numbers, orders'[p].number = n, ~orders'[p].finish
       PROVE  /\ Cardinality(Untold(n)') <= orders'[p].matched
              /\ Unexplained(n)' => orders'[p].withdrawn
  <2>1. NoNews(n)
    BY <1>9
  <2>2. CASE p = o
    <3>1. Untold(n)' = {} /\ ~Unexplained(n)'
      BY <1>7, <1>8, <1>11, <2>1, <2>2 DEF Announced, NoNews
    <3>2. Cardinality(Untold(n)') = 0
      BY <3>1, FS_EmptySet
    <3>3. orders'[p].matched \in Nat
      <4>1. BookTypes'
        BY DEF TypeInv
      <4>2. orders'[p] \in Order
        BY <4>1 DEF BookTypes
      <4>3. QED
        BY <4>2 DEF Order
    <3>4. QED
      BY <3>1, <3>2, <3>3
  <2>3. CASE p # o
    <3>1. p \in DOMAIN orders /\ orders'[p] = orders[p]
      BY <1>6, <2>3
    <3>2. Cardinality(Untold(n)) <= orders[p].matched /\ (Unexplained(n) => orders[p].withdrawn)
      BY <1>11, <3>1 DEF Announced
    <3>3. Cardinality(Untold(n)') <= Cardinality(Untold(n)) /\ Cardinality(Untold(n)') \in Nat
      BY <2>1, UntoldFinite, FS_Subset, FS_CardinalityType DEF NoNews
    <3>4. Cardinality(Untold(n)) \in Nat /\ orders[p].matched \in Nat
      BY <1>5, <3>1, UntoldFinite, ObjectFacts
    <3>5. QED
      BY <2>1, <3>1, <3>2, <3>3, <3>4 DEF NoNews
  <2>4. QED
    BY <2>2, <2>3
<1>12. QED
  BY <1>10, <1>11 DEF Announced

\* A message is taken only between two tasks.
LEMMA TakeIdle == Take => task.kind = "idle"
<1>1. SUFFICES ASSUME Take PROVE task.kind = "idle"
  OBVIOUS
<1>2. task = Idle
  BY <1>1 DEF Take
<1>3. QED
  BY <1>2 DEF Idle

\* Every step leaves each lot and each end to a knock or to the object.
LEMMA AnnouncedStep ==
  ASSUME TypeInv, HandInv, ObjInv, Lives, RepliesOnce, InOrder, NumbersGiven, Registered,
         KeptKnocks, Announced, TypeInv', DistinctPrices, MildOvertaking, [Next]_vars
  PROVE  Announced'
<1>1. ASSUME AllCalm, UNCHANGED <<life, left>>,
             \A k : Heard(k) /\ k.kind = "knock" => Heard(k)'
      PROVE  Announced'
  <2>1. \A n, k : Coming(n, k) => Coming(n, k)'
    BY <1>1 DEF Coming
  <2>2. \A n \in Numbers : NoNews(n)
    BY <1>1, <2>1, InsideNews
  <2>3. \A o \in DOMAIN orders' : orders'[o].number = NoNumber \/ Calm(o)
    BY <1>1 DEF AllCalm
  <2>4. QED
    BY <2>2, <2>3, AnnouncedFrame
<1>2. CASE Surroundings \/ ReadRep \/ UNCHANGED vars
  <2>1. UNCHANGED <<orders, early, single>>
    BY <1>2, AroundFrame
  <2>2. BookTypes
    BY DEF TypeInv
  <2>3. \A o \in DOMAIN orders' : Calm(o)
    BY <2>1, <2>2, CalmChange
  <2>4. ASSUME NEW n \in Numbers
        PROVE  \/ NoNews(n)
               \/ /\ ~(ToNumber(n) /\ ToNumber(n)' /\ Guards(n[1], n[2]))
                  /\ \A o \in DOMAIN orders : orders[o].number # n \/ orders[o].finish
    <3>1. ASSUME n[1] \notin replied, NEW o \in DOMAIN orders, orders[o].number = n PROVE FALSE
      <4>1. ~ToNumber(n)
        BY <3>1 DEF NumbersGiven
      <4>2. QED
        BY <3>1, <4>1 DEF ToNumber
    <3>2. NoNews(n) \/ (n[1] \notin replied /\ ~ToNumber(n)')
      BY <1>2, OutsideNews
    <3>3. QED
      BY <3>1, <3>2
  <2>5. QED
    BY <2>3, <2>4, AnnouncedFrame
<1>3. CASE Take
  <2>1. UNCHANGED <<life, left>>
    BY <1>3, InsideFrame
  <2>2. PICK r : r = Head(tradeQueue)
    OBVIOUS
  <2>3. r \in Queued
    BY <1>3, <2>2, QueueTail
  <2>4. CASE r.kind = "knock"
    <3>1. r \in Knock
      BY <2>3, <2>4, QueuedKinds
    <3>2. OnTradeKnock(r)
      BY <1>3, <2>2, <2>4 DEF Take
    <3>3. EarlyStays => \A k : Heard(k) => Heard(k)' \/ k = r
      BY <1>3, <2>2, HeardTake
    <3>4. ToNumber(r.number) => r.type # "withdrawn"
      <4>1. r.number[1] \in Messages /\ r.type \in {"trade", "withdrawn", "failed"}
        BY <3>1, NumberFacts DEF Knock
      <4>2. ToNumber(r.number) => <<r.number[1], r.type>> \in Overtaking
        BY <1>3, <2>2, <3>1, TakenBefore
      <4>3. QED
        BY <4>1, <4>2 DEF MildOvertaking
    <3>5. QED
      BY <2>1, <3>1, <3>2, <3>3, <3>4, AnnouncedKnock
  <2>5. CASE r.kind # "knock"
    <3>1. r \notin Knock /\ ~ReplayKnock /\ ~HandleRep
      <4>1. task.kind = "idle"
        BY <1>3 DEF Take, Idle
      <4>2. QED
        BY <2>5, <4>1 DEF Knock, ReplayKnock, HandleRep
    <3>2. AllCalm
      BY <2>2, <3>1, StepCalm
    <3>3. EarlyStays
      BY <3>2 DEF AllCalm, EarlyStays
    <3>4. \A k : Heard(k) /\ k.kind = "knock" => Heard(k)'
      BY <1>3, <2>2, <2>5, <3>3, HeardTake
    <3>5. QED
      BY <1>1, <2>1, <3>2, <3>4
  <2>6. QED
    BY <2>4, <2>5
<1>4. CASE Check \/ Pass
  <2>1. UNCHANGED <<life, left>>
    BY <1>4, InsideFrame
  <2>2. task.kind \in {"check", "pass"}
    BY <1>4, CheckShape
  <2>3. ~Take /\ ~ReplayKnock /\ ~HandleRep
    <3>1. Take => task.kind = "idle"
      BY TakeIdle
    <3>2. QED
      BY <2>2, <3>1 DEF ReplayKnock, HandleRep
  <2>4. AllCalm
    BY <2>3, StepCalm
  <2>5. \A k : Heard(k) => Heard(k)'
    BY <1>4, HeardCheck
  <2>6. QED
    BY <1>1, <2>1, <2>4, <2>5
<1>5. CASE HandleRep
  <2>1. UNCHANGED <<life, left>>
    BY <1>5, InsideFrame
  <2>2. task.kind = "rep"
    BY <1>5, RepShape
  <2>3. \A k : Heard(k) => Heard(k)'
    BY <1>5, HeardReplied
  <2>4. CASE /\ task.item \in Items(task.msg) /\ Guards(task.msg, task.item)
             /\ task.item \in task.accepted
    BY <1>5, <2>1, <2>3, <2>4, AnnouncedRegister
  <2>5. CASE ~(/\ task.item \in Items(task.msg) /\ Guards(task.msg, task.item)
               /\ task.item \in task.accepted)
    <3>1. ~Take /\ ~ReplayKnock
      <4>1. Take => task.kind = "idle"
        BY TakeIdle
      <4>2. QED
        BY <2>2, <4>1 DEF ReplayKnock
    <3>2. AllCalm
      BY <2>5, <3>1, StepCalm
    <3>3. QED
      BY <1>1, <2>1, <2>3, <3>2
  <2>6. QED
    BY <2>4, <2>5
<1>6. CASE ReplayKnock
  <2>1. UNCHANGED <<life, left>>
    BY <1>6, InsideFrame
  <2>2. task.kind = "knocks"
    BY <1>6, ReplayShape
  <2>3. CASE InHand = <<>>
    <3>1. ~Take /\ ~HandleRep
      <4>1. Take => task.kind = "idle"
        BY TakeIdle
      <4>2. QED
        BY <2>2, <4>1 DEF HandleRep
    <3>2. AllCalm
      BY <2>3, <3>1, StepCalm
    <3>3. EarlyStays
      BY <3>2 DEF AllCalm, EarlyStays
    <3>4. \A k : Heard(k) => Heard(k)'
      BY <1>6, <2>3, <3>3, HeardReplay
    <3>5. QED
      BY <1>1, <2>1, <3>2, <3>4
  <2>4. CASE InHand # <<>>
    <3>1. PICK r : r = InHand[1]
      OBVIOUS
    <3>2. 1 \in DOMAIN InHand /\ r \in Knock /\ OnTradeKnock(r)
      BY <1>6, <2>4, <3>1, ReplayShape
    <3>3. EarlyStays => \A k : Heard(k) => Heard(k)' \/ k = r
      BY <1>6, <3>1, HeardReplay
    <3>4. ~ToNumber(r.number)
      BY <3>1, <3>2 DEF KeptKnocks
    <3>5. QED
      BY <2>1, <3>2, <3>3, <3>4, AnnouncedKnock
  <2>5. QED
    BY <2>3, <2>4
<1>7. QED
  BY <1>2, <1>3, <1>4, <1>5, <1>6 DEF Next, RiskThread

\* At the start nothing has happened.
LEMMA AnnouncedInit ==
  ASSUME Init
  PROVE  RepliesOnce /\ InOrder /\ NumbersGiven /\ Registered /\ KeptKnocks /\ Announced
<1>1. /\ orders = <<>> /\ tradeQueue = <<>> /\ returns = {} /\ replied = {} /\ task = Idle
      /\ DOMAIN early = {} /\ life = [n \in Numbers |-> "none"]
      /\ left = [n \in Numbers |-> VolumeOf(n)]
  BY DEF Init, VolumeOf
<1>2. DOMAIN orders = {} /\ DOMAIN tradeQueue = {} /\ task.kind = "idle" /\ InHand = <<>>
  BY <1>1 DEF Idle, InHand
<1>3. DOMAIN InHand = {}
  BY <1>2
<1>4. ASSUME NEW n \in Numbers PROVE Untold(n) = {} /\ ~Unexplained(n)
  <2>1. left[n] = VolumeOf(n) /\ VolumeOf(n) \in Nat /\ life[n] = "none"
    BY <1>1, NumberFacts DEF VolumeOf, ItemType
  <2>2. (left[n] + 1) .. VolumeOf(n) = {}
    BY <2>1
  <2>3. QED
    BY <2>1, <2>2 DEF Untold, Unexplained
<1>5. RepliesOnce /\ InOrder
  BY <1>1, <1>2 DEF RepliesOnce, InOrder
<1>6. NumbersGiven /\ Registered /\ KeptKnocks
  BY <1>1, <1>2, <1>3 DEF NumbersGiven, Registered, KeptKnocks
<1>7. Announced
  BY <1>2, <1>4 DEF Announced
<1>8. QED
  BY <1>5, <1>6, <1>7

\* An order that has ended, and of which nothing is on its way, has a finished object.
LEMMA NoGhostHolds ==
  ASSUME TypeInv, ObjInv, NumbersGiven, Registered, Announced
  PROVE  NoGhost
<1>1. SUFFICES ASSUME task = Idle, NEW o \in book, NEW n, n = orders[o].number, n # NoNumber,
                      ~Finished(orders[o]), life[n] # "working", ~Outstanding(n)
               PROVE  FALSE
  BY DEF NoGhost
<1>2. BookTypes /\ o \in DOMAIN orders
  BY DEF TypeInv, BookTypes
<1>3. orders[o] \in Order /\ n \in Numbers
  BY <1>1, <1>2, ObjectFacts
<1>4. /\ ~orders[o].finish /\ ~orders[o].withdrawn /\ ~(orders[o].matched >= orders[o].volume)
  BY <1>1 DEF Finished
<1>5. life[n] = "ended"
  <2>1. life[n] # "none"
    BY <1>1, <1>2, <1>3 DEF NumbersGiven
  <2>2. life[n] \in {"none", "working", "ended"}
    BY <1>3 DEF TypeInv
  <2>3. QED
    BY <1>1, <2>1, <2>2
<1>6. \A k : ~Coming(n, k)
  <2>1. SUFFICES ASSUME NEW k, Heard(k), k.kind = "knock", k.number = n PROVE FALSE
    BY DEF Coming
  <2>2. k \notin returns
    BY <1>1, <2>1 DEF Outstanding
  <2>3. ASSUME NEW j \in DOMAIN tradeQueue, tradeQueue[j] = k PROVE FALSE
    <3>1. k \in Range(tradeQueue)
      BY <2>3 DEF Range
    <3>2. QED
      BY <1>1, <2>1, <3>1 DEF Outstanding
  <2>4. ASSUME NEW b \in DOMAIN early, NEW j \in DOMAIN early[b], early[b][j] = k PROVE FALSE
    <3>1. b = n
      BY <2>1, <2>4 DEF ObjInv, EarlyOwn
    <3>2. n \notin DOMAIN early
      BY <1>1, <1>2, <1>3, <1>4 DEF Registered
    <3>3. QED
      BY <2>4, <3>1, <3>2
  <2>5. InHand = <<>>
    BY <1>1 DEF InHand, Idle
  <2>6. DOMAIN InHand = {}
    BY <2>5
  <2>7. QED
    BY <2>1, <2>2, <2>3, <2>4, <2>6 DEF Heard
<1>7. ~EndComing(n)
  BY <1>6 DEF EndComing
<1>8. left[n] = 0
  BY <1>1, <1>2, <1>3, <1>4, <1>5, <1>7 DEF Announced, Unexplained
<1>9. Untold(n) = 1 .. VolumeOf(n) /\ VolumeOf(n) \in Nat
  <2>1. left[n] + 1 = 1
    BY <1>8
  <2>2. QED
    BY <1>3, <1>6, <2>1, UntoldFinite DEF Untold
<1>10. Cardinality(Untold(n)) = VolumeOf(n)
  <2>1. Cardinality(1 .. VolumeOf(n)) = VolumeOf(n)
    <3>1. VolumeOf(n) \in Nat
      BY <1>9
    <3>2. 1 \in Int /\ VolumeOf(n) \in Int
      BY <3>1
    <3>3. Cardinality(1 .. VolumeOf(n)) = IF 1 > VolumeOf(n) THEN 0 ELSE VolumeOf(n) - 1 + 1
      BY <3>2, FS_Interval
    <3>4. QED
      BY <3>1, <3>3
  <2>2. QED
    BY <1>9, <2>1
<1>11. VolumeOf(n) <= orders[o].matched
  BY <1>1, <1>2, <1>3, <1>4, <1>10 DEF Announced
<1>12. orders[o].volume = VolumeOf(n)
  BY <1>1, <1>2 DEF ObjInv, Stems, OfItem
<1>13. orders[o].matched \in Nat
  BY <1>3 DEF Order
<1>14. QED
  BY <1>4, <1>9, <1>11, <1>12, <1>13

\* An order that has ended, and of which everything has been heard, does not stand in
\* the way of later ones for good, where knocks that overtake the reply are trades and
\* failures of orders that are no batches: an early withdrawal is passed over, and the
\* early knocks of one item of a batch replace those of another.
THEOREM RiskNoGhost ==
  ASSUME DistinctPrices, MildOvertaking
  PROVE  Spec => []NoGhost
<1> DEFINE IInv == TypeInv /\ HandInv /\ ObjInv /\ Lives
           GInv == RepliesOnce /\ InOrder /\ NumbersGiven /\ Registered /\ KeptKnocks /\ Announced
<1>1. Init => IInv /\ GInv
  BY TypeInvInit, HandInvInit, ObjInvInit, LivesInit, AnnouncedInit
<1>2. IInv /\ [Next]_vars => IInv' /\ Moves
  BY TypeInvStep, HandInvStep, ObjInvStep, LivesStep
<1>3. IInv /\ GInv /\ [Next]_vars => RepliesOnce' /\ InOrder'
  BY OnceStep
<1>4. IInv /\ IInv' /\ Moves /\ GInv /\ RepliesOnce' /\ [Next]_vars =>
        KeptKnocks' /\ NumbersGiven' /\ Registered' /\ Announced'
  BY KeptStep, NumbersStep, AnnouncedStep
<1>5. IInv /\ GInv /\ [Next]_vars => IInv' /\ GInv'
  BY <1>2, <1>3, <1>4
<1>6. IInv /\ GInv => NoGhost
  BY NoGhostHolds
<1>7. QED
  BY <1>1, <1>5, <1>6, PTL DEF Spec
=============================================================================

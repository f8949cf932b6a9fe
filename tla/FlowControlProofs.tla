--------------------------- MODULE FlowControlProofs ---------------------------
(***************************************************************************)
(* Safety of FlowControl.  Types and the window first: every route stays   *)
(* within its rate.  Then the daily count: it survives restarts, the limit *)
(* holds for all the processes of a day together, and a request turned     *)
(* down re-arms the alarm.  Then the order of the sends, a theorem only    *)
(* for amounts below kItemMultiple: the run flow_priority shows what a     *)
(* larger one does.                                                        *)
(*                                                                         *)
(* Last where the requests are: each is in one place until it is answered, *)
(* and cmd_size_ counts the commands of a queue.                           *)
(***************************************************************************)
EXTENDS FlowControl, SequenceTheorems, WellFoundedInduction, SumTheorems, TLAPS

\* The least element of a set of natural numbers exists, so Min is defined.
LEMMA MinIsLeast ==
  ASSUME NEW S, S \subseteq Nat, S # {}
  PROVE  Min(S) \in S /\ \A y \in S : Min(S) <= y
<1>1. \E x \in S : \A y \in S : ~ (<<y, x>> \in OpToRel(<, Nat))
  BY NatLessThanWellFounded, WFMin
<1>2. PICK x \in S : \A y \in S : ~ (<<y, x>> \in OpToRel(<, Nat))
  BY <1>1
<1>3. \A y \in S : x <= y
  <2>1. SUFFICES ASSUME NEW y \in S, y < x PROVE FALSE
    OBVIOUS
  <2>2. <<y, x>> \in OpToRel(<, Nat)
    BY <2>1 DEF OpToRel
  <2>3. QED
    BY <1>2, <2>2
<1>4. QED
  BY <1>3 DEF Min

\* The greatest element of a nonempty set of indices exists.
LEMMA MaxIsGreatest ==
  ASSUME NEW n \in Nat, NEW S, S \subseteq 1 .. n, S # {}
  PROVE  Max(S) \in S /\ \A y \in S : y <= Max(S)
<1> DEFINE T == {n - x : x \in S}
<1>1. T \subseteq Nat
  <2>1. \A x \in S : n - x \in Nat
    OBVIOUS
  <2>2. QED
    BY <2>1
<1>2. T # {}
  <2>1. PICK x \in S : TRUE
    OBVIOUS
  <2>2. n - x \in T
    OBVIOUS
  <2>3. QED
    BY <2>2
<1>3. Min(T) \in T /\ \A y \in T : Min(T) <= y
  BY <1>1, <1>2, MinIsLeast
<1>4. PICK x \in S : Min(T) = n - x
  BY <1>3
<1>5. \A y \in S : x >= y
  <2>1. TAKE y \in S
  <2>2. n - y \in T
    OBVIOUS
  <2>3. Min(T) <= n - y
    BY <1>3, <2>2
  <2>4. x \in Int /\ y \in Int
    OBVIOUS
  <2>5. QED
    BY <1>4, <2>3, <2>4
<1>6. QED
  BY <1>5 DEF Max

\* What RecordSend writes is a sequence again.
LEMMA ConstSeq ==
  ASSUME NEW s \in Seq(Nat), NEW k \in Nat, NEW v \in Nat
  PROVE  /\ [i \in 1 .. Len(s) + k |-> IF i <= Len(s) THEN s[i] ELSE v] \in Seq(Nat)
         /\ Len([i \in 1 .. Len(s) + k |-> IF i <= Len(s) THEN s[i] ELSE v]) = Len(s) + k
OBVIOUS

-----------------------------------------------------------------------------
(* Type correctness. *)

\* sent_ns_queue_ is a suffix of the history, and a running process has written
\* its record into the state file.
Anchored ==
  \A m \in Markets :
    /\ windowHead[m] <= Len(sentAt[m]) + 1
    /\ up => Len(stateFile[m]) > 0

TypeInv == TypeOK /\ Anchored

\* PrunedHead drops exactly the entries older than the window.
LEMMA PrunedHeadIsFirst ==
  ASSUME TypeInv, NEW m \in Markets
  PROVE  /\ PrunedHead(m) \in windowHead[m] .. Len(sentAt[m]) + 1
         /\ PrunedHead(m) <= Len(sentAt[m]) => now - sentAt[m][PrunedHead(m)] <= Window
         /\ \A h \in windowHead[m] .. PrunedHead(m) - 1 : now - sentAt[m][h] > Window
<1> DEFINE S == {h \in windowHead[m] .. Len(sentAt[m]) + 1 :
                   h <= Len(sentAt[m]) => now - sentAt[m][h] <= Window}
<1>1. /\ windowHead[m] \in Nat \ {0} /\ Len(sentAt[m]) \in Nat
      /\ windowHead[m] <= Len(sentAt[m]) + 1
      /\ \A i \in 1 .. Len(sentAt[m]) : sentAt[m][i] \in Nat
      /\ now \in Nat /\ Window \in Nat
  <2>1. sentAt[m] \in Seq(Nat) /\ now \in Nat /\ windowHead[m] \in Nat \ {0}
    BY DEF TypeInv, TypeOK
  <2>2. windowHead[m] <= Len(sentAt[m]) + 1
    BY DEF TypeInv, Anchored
  <2>3. Window \in Nat
    BY FlowControlAssumption
  <2>4. QED
    BY <2>1, <2>2, <2>3, ElementOfSeq, LenProperties
<1>2. S \subseteq Nat /\ Len(sentAt[m]) + 1 \in S
  BY <1>1
<1>3. Min(S) \in S /\ \A y \in S : Min(S) <= y
  BY <1>2, MinIsLeast
<1>4. PrunedHead(m) = Min(S)
  BY DEF PrunedHead
<1> HIDE DEF S
<1>5. PrunedHead(m) \in S /\ \A y \in S : PrunedHead(m) <= y
  BY <1>3, <1>4
<1>6. \A h \in windowHead[m] .. PrunedHead(m) - 1 : now - sentAt[m][h] > Window
  <2>1. TAKE h \in windowHead[m] .. PrunedHead(m) - 1
  <2>2. h \notin S
    BY <1>1, <1>5 DEF S
  <2>3. QED
    BY <1>1, <1>5, <2>2 DEF S
<1>7. PrunedHead(m) \in windowHead[m] .. Len(sentAt[m]) + 1
  BY <1>5 DEF S
<1>8. PrunedHead(m) <= Len(sentAt[m]) => now - sentAt[m][PrunedHead(m)] <= Window
  BY <1>5 DEF S
<1>9. QED
  BY <1>6, <1>7, <1>8

\* HistoryTotal is the total of the last record of today that is not zero.
LEMMA HistoryTotalIsLast ==
  ASSUME NEW m \in Markets, stateFile[m] \in Seq(StateRecord)
  PROVE  /\ HistoryTotal(m) \in Nat
         /\ HistoryTotal(m) = 0 <=>
              \A i \in 1 .. Len(stateFile[m]) :
                stateFile[m][i].date = day => stateFile[m][i].total = 0
         /\ \A i \in 1 .. Len(stateFile[m]) :
              /\ stateFile[m][i].date = day
              /\ stateFile[m][i].total > 0
              /\ \A j \in i + 1 .. Len(stateFile[m]) :
                   ~(stateFile[m][j].date = day /\ stateFile[m][j].total > 0)
              => HistoryTotal(m) = stateFile[m][i].total
<1> DEFINE found == {i \in DOMAIN stateFile[m] :
                       stateFile[m][i].date = day /\ stateFile[m][i].total > 0}
<1>1. Len(stateFile[m]) \in Nat /\ DOMAIN stateFile[m] = 1 .. Len(stateFile[m])
  OBVIOUS
<1>2. \A i \in 1 .. Len(stateFile[m]) : stateFile[m][i].total \in Nat
  <2>1. TAKE i \in 1 .. Len(stateFile[m])
  <2>2. stateFile[m][i] \in StateRecord
    BY ElementOfSeq
  <2>3. QED
    BY <2>2 DEF StateRecord
<1>3. HistoryTotal(m) = IF found = {} THEN 0 ELSE stateFile[m][Max(found)].total
  BY DEF HistoryTotal
<1>4. found \subseteq 1 .. Len(stateFile[m])
  BY <1>1
<1>5. \A i \in 1 .. Len(stateFile[m]) :
        i \in found <=> stateFile[m][i].date = day /\ stateFile[m][i].total > 0
  BY <1>1
<1> HIDE DEF found
<1>6. found # {} => Max(found) \in found /\ \A y \in found : y <= Max(found)
  BY <1>1, <1>4, MaxIsGreatest
<1> DEFINE last == Max(found)
<1> HIDE DEF last
<1>7. CASE found = {}
  <2>1. HistoryTotal(m) = 0
    BY <1>3, <1>7
  <2>2. QED
    BY <1>2, <1>5, <1>7, <2>1
<1>8. CASE found # {}
  <2>1. last \in found /\ (\A y \in found : y <= last) /\ HistoryTotal(m) = stateFile[m][last].total
    BY <1>3, <1>6, <1>8 DEF last
  <2>2. last \in 1 .. Len(stateFile[m]) /\ stateFile[m][last].total > 0
    BY <1>4, <1>5, <2>1
  <2>3. ASSUME NEW i \in 1 .. Len(stateFile[m]),
               i \in found,
               \A j \in i + 1 .. Len(stateFile[m]) : j \notin found
        PROVE  i = last
    BY <1>1, <1>4, <2>1, <2>2, <2>3
  <2>4. QED
    BY <1>2, <1>5, <2>1, <2>2, <2>3
<1>9. QED
  BY <1>7, <1>8

LEMMA VisitTypes ==
  ASSUME TypeInv, NEW seen, Visit(seen)
  PROVE  /\ windowHead' \in [Markets -> Nat \ {0}]
         /\ \A m \in Markets : windowHead'[m] <= Len(sentAt[m]) + 1
         /\ triggered' \in [Markets -> Int]
<1>1. \A m \in Markets : Len(sentAt[m]) \in Nat /\ windowHead[m] \in Nat \ {0}
  BY LenProperties DEF TypeInv, TypeOK
<1>2. \A m \in Markets : PrunedHead(m) \in Nat \ {0} /\ PrunedHead(m) <= Len(sentAt[m]) + 1
  BY <1>1, PrunedHeadIsFirst
<1>3. \A m \in Markets : windowHead[m] <= Len(sentAt[m]) + 1
  BY DEF TypeInv, Anchored
<1>4. cmdSize \in [Markets -> Int] /\ triggered \in [Markets -> Int]
  BY DEF TypeInv, TypeOK
<1>5. QED
  BY <1>1, <1>2, <1>3, <1>4 DEF Visit

LEMMA RemoveTypes ==
  ASSUME TypeInv, NEW m \in Markets, NEW a \in flowQueue[m], NEW verdict \in Outcomes,
         Remove(m, a, verdict)
  PROVE  /\ flowQueue' \in [Markets -> SUBSET Item]
         /\ cmdSize' \in [Markets -> Int]
         /\ outcome' \in [Requests -> Outcomes]
         /\ UNCHANGED <<marketReplies, normalQueue>>
<1>1. a \in Item
  BY DEF TypeInv, TypeOK
<1>2. a.req \in Requests /\ a.req.size \in Int
  BY <1>1, FlowControlAssumption DEF Item, RequestType
<1>3. /\ flowQueue \in [Markets -> SUBSET Item] /\ cmdSize \in [Markets -> Int]
      /\ outcome \in [Requests -> Outcomes]
  BY DEF TypeInv, TypeOK
<1>4. flowQueue' \in [Markets -> SUBSET Item]
  BY <1>3 DEF Remove
<1>5. cmdSize' \in [Markets -> Int]
  BY <1>2, <1>3 DEF Remove
<1>6. outcome' \in [Requests -> Outcomes] /\ UNCHANGED <<marketReplies, normalQueue>>
  BY <1>2, <1>3 DEF Remove
<1>7. QED
  BY <1>4, <1>5, <1>6

LEMMA RecordSendTypes ==
  ASSUME TypeInv, up, NEW m \in Markets, NEW size \in Nat, RecordSend(m, size)
  PROVE  /\ totalCmdSize' \in [Markets -> Nat]
         /\ sentAt' \in [Markets -> Seq(Nat)]
         /\ stateFile' \in [Markets -> Seq(StateRecord)]
         /\ sentToday' \in [Markets -> Nat]
         /\ \A n \in Markets : /\ Len(sentAt'[n]) >= Len(sentAt[n])
                               /\ Len(stateFile'[n]) = Len(stateFile[n])
<1>1. /\ sentAt \in [Markets -> Seq(Nat)] /\ now \in Nat
      /\ stateFile \in [Markets -> Seq(StateRecord)]
      /\ totalCmdSize \in [Markets -> Nat] /\ sentToday \in [Markets -> Nat]
  BY DEF TypeInv, TypeOK
<1>2. /\ sentAt' \in [Markets -> Seq(Nat)]
      /\ \A n \in Markets : Len(sentAt'[n]) >= Len(sentAt[n])
  <2> DEFINE s == [i \in 1 .. Len(sentAt[m]) + size |->
                     IF i <= Len(sentAt[m]) THEN sentAt[m][i] ELSE now]
  <2>1. s \in Seq(Nat) /\ Len(s) = Len(sentAt[m]) + size
    BY <1>1, ConstSeq
  <2>2. sentAt' = [sentAt EXCEPT ![m] = s]
    BY DEF RecordSend
  <2>3. \A n \in Markets : Len(sentAt[n]) \in Nat
    BY <1>1, LenProperties
  <2> HIDE DEF s
  <2>4. QED
    BY <1>1, <2>1, <2>2, <2>3
<1>3. /\ stateFile' \in [Markets -> Seq(StateRecord)]
      /\ \A n \in Markets : Len(stateFile'[n]) = Len(stateFile[n])
  <2> DEFINE k == Len(stateFile[m])
             e == [stateFile[m][k] EXCEPT !.total = totalCmdSize[m] + size]
             s == [stateFile[m] EXCEPT ![k] = e]
  <2>1. stateFile[m] \in Seq(StateRecord) /\ k \in 1 .. Len(stateFile[m])
    BY <1>1, LenProperties DEF TypeInv, Anchored
  <2>2. stateFile[m][k] \in StateRecord
    BY <2>1, ElementOfSeq
  <2>3. e \in StateRecord
    <3>1. totalCmdSize[m] + size \in Nat
      BY <1>1
    <3>2. QED
      BY <2>2, <3>1 DEF StateRecord
  <2> HIDE DEF e
  <2>4. s \in Seq(StateRecord) /\ Len(s) = Len(stateFile[m])
    BY <2>1, <2>3, ExceptSeq
  <2>5. stateFile' = [stateFile EXCEPT ![m] = s]
    BY DEF RecordSend, e
  <2> HIDE DEF s
  <2>6. QED
    BY <1>1, <2>4, <2>5
<1>4. totalCmdSize' \in [Markets -> Nat] /\ sentToday' \in [Markets -> Nat]
  BY <1>1 DEF RecordSend
<1>5. QED
  BY <1>2, <1>3, <1>4

\* The pops of a market share their frame: Turn prunes, Remove answers.
LEMMA TypeInvPop ==
  ASSUME TypeInv, NEW m \in Markets, Turn(m),
         \/ PopTimeout(m) \/ PopBeyondDaily(m) \/ PopSend(m) \/ PopBackTimeout(m)
         \/ PopMarketReply(m)
  PROVE  TypeInv'
<1> USE DEF TypeInv
<1>1. /\ UNCHANGED <<clockVars, up, downSince, brokerQueue, arrivals>>
      /\ windowHead' \in [Markets -> Nat \ {0}]
      /\ \A n \in Markets : windowHead'[n] <= Len(sentAt[n]) + 1
      /\ triggered' \in [Markets -> Int]
  BY VisitTypes DEF Turn, Visit
<1>2. "timeout" \in Outcomes /\ "daily" \in Outcomes /\ "sent" \in Outcomes
  BY DEF Outcomes
<1>3. CASE PopTimeout(m)
  <2>1. PICK a \in flowQueue[m] : Remove(m, a, "timeout")
    BY <1>3 DEF PopTimeout
  <2>2. UNCHANGED <<sendVars, preWarning, unwarned>>
    BY <1>3 DEF PopTimeout
  <2>3. QED
    BY <1>1, <1>2, <2>1, <2>2, RemoveTypes DEF TypeOK, Anchored, sendVars, clockVars
<1>4. CASE PopBeyondDaily(m)
  <2>1. PICK a \in flowQueue[m] : Remove(m, a, "daily")
    BY <1>4 DEF PopBeyondDaily
  <2>2. /\ UNCHANGED sendVars
        /\ preWarning' = [preWarning EXCEPT ![m] = 0]
        /\ unwarned' = [unwarned EXCEPT ![m] = TRUE]
    BY <1>4 DEF PopBeyondDaily
  <2>3. QED
    BY <1>1, <1>2, <2>1, <2>2, RemoveTypes DEF TypeOK, Anchored, sendVars, clockVars
<1>5. CASE PopSend(m)
  <2>1. PICK a \in flowQueue[m] : RecordSend(m, a.req.size) /\ Remove(m, a, "sent")
    BY <1>5 DEF PopSend
  <2>2. a.req.size \in Nat
    <3>1. a \in Item
      BY DEF TypeOK
    <3>2. QED
      BY <3>1, FlowControlAssumption DEF Item, RequestType
  <2>3. UNCHANGED <<preWarning, unwarned>> /\ up
    BY <1>5 DEF PopSend, Turn
  <2>4. /\ totalCmdSize' \in [Markets -> Nat]
        /\ sentAt' \in [Markets -> Seq(Nat)]
        /\ stateFile' \in [Markets -> Seq(StateRecord)]
        /\ sentToday' \in [Markets -> Nat]
        /\ \A n \in Markets : /\ Len(sentAt'[n]) >= Len(sentAt[n])
                              /\ Len(stateFile'[n]) = Len(stateFile[n])
    BY <2>1, <2>2, <2>3, RecordSendTypes
  <2>5. /\ flowQueue' \in [Markets -> SUBSET Item]
        /\ cmdSize' \in [Markets -> Int]
        /\ outcome' \in [Requests -> Outcomes]
        /\ UNCHANGED <<marketReplies, normalQueue>>
    BY <1>2, <2>1, RemoveTypes
  <2>6. TypeOK'
    BY <1>1, <2>3, <2>4, <2>5 DEF TypeOK, clockVars
  <2>7. Anchored'
    <3>1. \A n \in Markets : /\ Len(sentAt[n]) \in Nat /\ Len(sentAt'[n]) \in Nat
                             /\ windowHead'[n] \in Nat
      BY <1>1, <2>4, LenProperties DEF TypeOK
    <3>2. ASSUME NEW n \in Markets PROVE windowHead'[n] <= Len(sentAt'[n]) + 1
      <4>1. windowHead'[n] <= Len(sentAt[n]) + 1 /\ Len(sentAt'[n]) >= Len(sentAt[n])
        BY <1>1, <2>4
      <4>2. QED
        BY <3>1, <4>1
    <3>3. \A n \in Markets : up' => Len(stateFile'[n]) > 0
      BY <1>1, <2>4 DEF Anchored
    <3>4. QED
      BY <3>2, <3>3 DEF Anchored
  <2>8. QED
    BY <2>6, <2>7
<1>6. CASE PopBackTimeout(m)
  <2>1. PICK a \in flowQueue[m] : Remove(m, a, "timeout")
    BY <1>6 DEF PopBackTimeout
  <2>2. UNCHANGED <<sendVars, preWarning, unwarned>>
    BY <1>6 DEF PopBackTimeout
  <2>3. QED
    BY <1>1, <1>2, <2>1, <2>2, RemoveTypes DEF TypeOK, Anchored, sendVars, clockVars
<1>7. CASE PopMarketReply(m)
  <2>1. marketReplies[m] \in Seq(Reply) /\ marketReplies[m] # <<>>
    BY <1>7 DEF PopMarketReply, TypeOK
  <2>2. Head(marketReplies[m]) \in Reply /\ Tail(marketReplies[m]) \in Seq(Reply)
    BY <2>1, HeadTailProperties
  <2>3. marketReplies' \in [Markets -> Seq(Reply)] /\ outcome' \in [Requests -> Outcomes]
    BY <1>7, <2>2 DEF PopMarketReply, TypeOK, Reply
  <2>4. UNCHANGED <<flowQueue, cmdSize, normalQueue, sendVars, preWarning, unwarned>>
    BY <1>7 DEF PopMarketReply
  <2>5. QED
    BY <1>1, <2>3, <2>4 DEF TypeOK, Anchored, sendVars, clockVars
<1>8. QED
  BY <1>3, <1>4, <1>5, <1>6, <1>7

LEMMA TypeInvDrain == ASSUME TypeInv, Drain PROVE TypeInv'
<1> USE DEF TypeInv
<1> DEFINE e == Head(brokerQueue)
<1>1. e \in Message /\ Tail(brokerQueue) \in Seq(Message)
  BY HeadTailProperties DEF Drain, TypeOK
<1>2. e.req \in Requests /\ e.stamp \in Nat
  BY <1>1 DEF Message
<1>3. e.req \in RequestType
  BY <1>2, FlowControlAssumption
<1>4. /\ UNCHANGED <<now, day, up, downSince, sendVars, windowHead, alarmVars, outcome>>
      /\ brokerQueue' \in Seq(Message)
  BY <1>1 DEF Drain, clockVars
<1>5. /\ arrivals' \in Nat
      /\ flowQueue' \in [Markets -> SUBSET Item]
      /\ marketReplies' \in [Markets -> Seq(Reply)]
      /\ normalQueue' \in Seq(Reply)
      /\ cmdSize' \in [Markets -> Int]
  <2>1. CASE DrainNormal(e.req)
    <3>1. [req |-> e.req, verdict |-> IF Refused(e.req) THEN "refused" ELSE "passed"] \in Reply
      BY <1>2 DEF Reply, Outcomes
    <3>2. QED
      BY <2>1, <3>1 DEF DrainNormal, TypeOK
  <2>2. CASE DrainOversize(e.req)
    <3>1. [req |-> e.req, verdict |-> "oversize"] \in Reply
      BY <1>2 DEF Reply, Outcomes
    <3>2. e.req.market \in Markets /\ marketReplies \in [Markets -> Seq(Reply)]
      BY <2>2 DEF DrainOversize, FlowControlled, TypeOK
    <3>3. Append(marketReplies[e.req.market], [req |-> e.req, verdict |-> "oversize"])
            \in Seq(Reply)
      BY <3>1, <3>2, AppendProperties
    <3>4. marketReplies' \in [Markets -> Seq(Reply)]
      BY <2>2, <3>2, <3>3 DEF DrainOversize
    <3>5. QED
      BY <2>2, <3>4 DEF DrainOversize, TypeOK
  <2>3. CASE DrainToFlow(e.req, e.stamp)
    <3>1. [req |-> e.req, seq |-> arrivals, stamp |-> e.stamp] \in Item /\ e.req.size \in Nat
      BY <1>2, <1>3 DEF Item, TypeOK, RequestType
    <3>2. arrivals' \in Nat /\ UNCHANGED <<marketReplies, normalQueue>>
      BY <2>3 DEF DrainToFlow, TypeOK
    <3>3. flowQueue' \in [Markets -> SUBSET Item]
      BY <2>3, <3>1 DEF DrainToFlow, TypeOK
    <3>4. cmdSize' \in [Markets -> Int]
      <4>1. cmdSize \in [Markets -> Int] /\ e.req.market \in Markets /\ e.req.size \in Nat
        BY <2>3, <3>1 DEF DrainToFlow, FlowControlled, TypeOK
      <4>2. cmdSize' = [cmdSize EXCEPT ![e.req.market] = cmdSize[e.req.market] + e.req.size]
        BY <2>3 DEF DrainToFlow
      <4>3. cmdSize[e.req.market] + e.req.size \in Int
        BY <4>1
      <4>4. QED
        BY <4>1, <4>2, <4>3
    <3>5. QED
      BY <3>2, <3>3, <3>4 DEF TypeOK
  <2>4. QED
    BY <2>1, <2>2, <2>3 DEF Drain
<1>6. TypeOK'
  BY <1>4, <1>5 DEF TypeOK, sendVars, alarmVars
<1>7. Anchored'
  BY <1>4 DEF Anchored, sendVars
<1>8. QED
  BY <1>6, <1>7

LEMMA TypeInvInit == Init => TypeInv
<1>1. SUFFICES ASSUME Init PROVE TypeOK /\ Anchored
  BY DEF TypeInv
<1>2. TypeOK
  <2>1. downSince \in Int
    BY <1>1, FlowControlAssumption DEF Init
  <2>2. "new" \in Outcomes
    BY DEF Outcomes
  <2>3. /\ brokerQueue \in Seq(Message) /\ normalQueue \in Seq(Reply)
        /\ marketReplies \in [Markets -> Seq(Reply)]
        /\ sentAt \in [Markets -> Seq(Nat)]
        /\ stateFile \in [Markets -> Seq(StateRecord)]
    BY <1>1, EmptySeq DEF Init
  <2>4. up \in BOOLEAN /\ unwarned \in [Markets -> BOOLEAN]
    BY <1>1, Zenon DEF Init
  <2>5. /\ now \in Nat /\ day \in Nat /\ arrivals \in Nat
        /\ flowQueue \in [Markets -> SUBSET Item]
        /\ cmdSize \in [Markets -> Int] /\ totalCmdSize \in [Markets -> Nat]
        /\ windowHead \in [Markets -> Nat \ {0}] /\ triggered \in [Markets -> Int]
        /\ preWarning \in [Markets -> Nat] /\ sentToday \in [Markets -> Nat]
        /\ outcome \in [Requests -> Outcomes]
    BY <1>1, <2>2 DEF Init
  <2>6. QED
    BY <2>1, <2>3, <2>4, <2>5 DEF TypeOK
<1>3. Anchored
  BY <1>1, EmptySeq DEF Init, Anchored
<1>4. QED
  BY <1>2, <1>3

LEMMA TypeInvStep == TypeInv /\ [Next]_vars => TypeInv'
<1> SUFFICES ASSUME TypeInv, [Next]_vars PROVE TypeInv'
  OBVIOUS
<1> USE DEF TypeInv
<1>1. CASE Tick
  BY <1>1 DEF Tick, TypeOK, Anchored, queueVars, sendVars, alarmVars
<1>2. CASE NewDay
  BY <1>2 DEF NewDay, TypeOK, Anchored, queueVars, alarmVars
<1>3. ASSUME NEW r \in Requests, Submit(r) PROVE TypeInv'
  <2>1. [req |-> r, stamp |-> now] \in Message
    BY DEF Message, TypeOK
  <2>2. brokerQueue' \in Seq(Message) /\ outcome' \in [Requests -> Outcomes]
    BY <1>3, <2>1 DEF Submit, TypeOK, Outcomes
  <2>3. QED
    BY <1>3, <2>2 DEF Submit, TypeOK, Anchored, clockVars, sendVars, alarmVars
<1>4. CASE Crash
  <2>1. outcome' \in [Requests -> Outcomes]
    BY <1>4 DEF Crash, TypeOK, Outcomes
  <2>2. up' \in BOOLEAN /\ unwarned' \in [Markets -> BOOLEAN]
    BY <1>4, Zenon DEF Crash
  <2>3. /\ downSince' \in Int
        /\ brokerQueue' \in Seq(Message) /\ normalQueue' \in Seq(Reply)
        /\ marketReplies' \in [Markets -> Seq(Reply)]
        /\ flowQueue' \in [Markets -> SUBSET Item]
        /\ cmdSize' \in [Markets -> Int] /\ totalCmdSize' \in [Markets -> Nat]
        /\ triggered' \in [Markets -> Int] /\ preWarning' \in [Markets -> Nat]
    BY <1>4, EmptySeq DEF Crash, TypeOK
  <2>4. UNCHANGED <<now, day, arrivals, sentAt, windowHead, stateFile, sentToday>> /\ ~up'
    BY <1>4 DEF Crash, clockVars
  <2>5. QED
    BY <2>1, <2>2, <2>3, <2>4 DEF TypeOK, Anchored
<1>5. CASE Start
  <2>1. \A m \in Markets : HistoryTotal(m) \in Nat
    BY HistoryTotalIsLast DEF TypeOK
  <2>2. \A m \in Markets : [date |-> day, total |-> HistoryTotal(m)] \in StateRecord
    BY <2>1 DEF StateRecord, TypeOK
  <2>3. \A m \in Markets : Len(sentAt[m]) \in Nat
    BY LenProperties DEF TypeOK
  <2>4. /\ stateFile' \in [Markets -> Seq(StateRecord)]
        /\ \A m \in Markets : Len(stateFile'[m]) > 0
    <3>1. \A m \in Markets : stateFile[m] \in Seq(StateRecord)
      BY DEF TypeOK
    <3>2. \A m \in Markets :
            /\ Append(stateFile[m], [date |-> day, total |-> HistoryTotal(m)])
                 \in Seq(StateRecord)
            /\ Len(Append(stateFile[m], [date |-> day, total |-> HistoryTotal(m)])) > 0
      BY <2>2, <3>1, AppendProperties, LenProperties
    <3>3. QED
      BY <1>5, <3>2 DEF Start
  <2>5. QED
    BY <1>5, <2>1, <2>3, <2>4 DEF Start, TypeOK, Anchored, clockVars, queueVars, alarmVars
<1>6. CASE Drain
  BY <1>6, TypeInvDrain
<1>7. ASSUME NEW m \in Markets,
             \/ PopTimeout(m) \/ PopBeyondDaily(m) \/ PopSend(m) \/ PopBackTimeout(m)
             \/ PopMarketReply(m)
      PROVE  TypeInv'
  <2>1. Turn(m)
    BY <1>7 DEF PopTimeout, PopBeyondDaily, PopSend, PopBackTimeout, PopMarketReply
  <2>2. QED
    BY <1>7, <2>1, TypeInvPop
<1>8. CASE PopNormal
  <2>1. Head(normalQueue) \in Reply /\ Tail(normalQueue) \in Seq(Reply)
    BY <1>8, HeadTailProperties DEF PopNormal, TypeOK
  <2>2. normalQueue' \in Seq(Reply) /\ outcome' \in [Requests -> Outcomes]
    BY <1>8, <2>1 DEF PopNormal, TypeOK, Reply
  <2>3. /\ windowHead' \in [Markets -> Nat \ {0}]
        /\ \A n \in Markets : windowHead'[n] <= Len(sentAt[n]) + 1
        /\ triggered' \in [Markets -> Int]
    BY <1>8, VisitTypes DEF PopNormal
  <2>4. QED
    BY <1>8, <2>2, <2>3 DEF PopNormal, Visit, TypeOK, Anchored, clockVars, sendVars
<1>9. CASE PopNothing
  <2>1. /\ windowHead' \in [Markets -> Nat \ {0}]
        /\ \A n \in Markets : windowHead'[n] <= Len(sentAt[n]) + 1
        /\ triggered' \in [Markets -> Int]
    BY <1>9, VisitTypes DEF PopNothing
  <2>2. QED
    BY <1>9, <2>1 DEF PopNothing, Visit, TypeOK, Anchored, clockVars, sendVars
<1>10. ASSUME NEW m \in Markets, PopWarning(m) PROVE TypeInv'
  <2>1. /\ preWarning' \in [Markets -> Nat]
        /\ triggered' \in [Markets -> Int]
    <3>1. /\ preWarning' = preWarning \/ preWarning' = [preWarning EXCEPT ![m] = totalCmdSize[m]]
          /\ triggered' = triggered \/ triggered' = [triggered EXCEPT ![m] = 0]
      BY <1>10, Zenon DEF PopWarning
    <3>2. /\ preWarning \in [Markets -> Nat] /\ totalCmdSize[m] \in Nat
          /\ triggered \in [Markets -> Int]
      BY DEF TypeOK
    <3>3. [preWarning EXCEPT ![m] = totalCmdSize[m]] \in [Markets -> Nat]
      BY <3>2
    <3>4. [triggered EXCEPT ![m] = 0] \in [Markets -> Int]
      BY <3>2
    <3>5. QED
      BY <3>1, <3>2, <3>3, <3>4, Zenon
  <2>2. unwarned' \in [Markets -> BOOLEAN]
    <3>1. unwarned' = unwarned \/ unwarned' = [unwarned EXCEPT ![m] = FALSE]
      BY <1>10, Zenon DEF PopWarning
    <3>2. unwarned \in [Markets -> BOOLEAN]
      BY DEF TypeOK
    <3>3. [unwarned EXCEPT ![m] = FALSE] \in [Markets -> BOOLEAN]
      BY <3>2, Zenon
    <3>4. QED
      BY <3>1, <3>2, <3>3, Zenon
  <2>3. UNCHANGED <<clockVars, up, downSince, queueVars, sendVars, windowHead, outcome>>
    BY <1>10 DEF PopWarning
  <2>4. QED
    BY <2>1, <2>2, <2>3 DEF TypeOK, Anchored, clockVars, queueVars, sendVars
<1>11. CASE UNCHANGED vars
  BY <1>11 DEF vars, TypeOK, Anchored, clockVars, queueVars, sendVars, alarmVars
<1>12. QED
  BY <1>1, <1>2, <1>3, <1>4, <1>5, <1>6, <1>7, <1>8, <1>9, <1>10, <1>11 DEF Next, TryPop

\* Whatever the configuration and the requests, the variables keep their types;
\* in particular the front of sent_ns_queue_ is always defined.
THEOREM FlowTypeCorrect == Spec => [](TypeOK /\ Anchored)
<1>1. Init => TypeInv
  BY TypeInvInit
<1>2. TypeInv /\ [Next]_vars => TypeInv'
  BY TypeInvStep
<1>3. QED
  BY <1>1, <1>2, PTL DEF Spec, TypeInv

-----------------------------------------------------------------------------
(* The limit per second. *)

\* What a step may do to the send times, the window and the clock.
LEMMA SendFrame ==
  ASSUME [Next]_vars
  PROVE  \/ Tick \/ Crash \/ Start
         \/ \E m \in Markets : PopSend(m)
         \/ up /\ UNCHANGED <<now, up, downSince, sentAt>> /\ \E seen : Visit(seen)
         \/ UNCHANGED <<now, up, downSince, sentAt, windowHead>>
<1>1. CASE NewDay
  BY <1>1 DEF NewDay
<1>2. ASSUME NEW r \in Requests, Submit(r)
      PROVE  UNCHANGED <<now, up, downSince, sentAt, windowHead>>
  BY <1>2 DEF Submit, clockVars, sendVars
<1>3. CASE Drain
  BY <1>3 DEF Drain, clockVars, sendVars
<1>4. ASSUME NEW m \in Markets,
             \/ PopTimeout(m) \/ PopBeyondDaily(m) \/ PopMarketReply(m) \/ PopBackTimeout(m)
      PROVE  up /\ UNCHANGED <<now, up, downSince, sentAt>> /\ \E seen : Visit(seen)
  <2>1. Turn(m) /\ UNCHANGED sendVars
    BY <1>4 DEF PopTimeout, PopBeyondDaily, PopMarketReply, PopBackTimeout
  <2>2. up /\ \E seen : Visit(seen)
    BY <2>1 DEF Turn
  <2>3. UNCHANGED <<now, up, downSince, sentAt>>
    BY <2>1, <2>2 DEF Visit, clockVars, sendVars
  <2>4. QED
    BY <2>2, <2>3
<1>5. ASSUME PopNormal \/ PopNothing
      PROVE  up /\ UNCHANGED <<now, up, downSince, sentAt>> /\ \E seen : Visit(seen)
  <2>1. up /\ Visit(Markets) /\ UNCHANGED sendVars
    BY <1>5 DEF PopNormal, PopNothing
  <2>2. UNCHANGED <<now, up, downSince, sentAt>>
    BY <2>1 DEF Visit, clockVars, sendVars
  <2>3. QED
    BY <2>1, <2>2
<1>6. ASSUME NEW m \in Markets, PopWarning(m)
      PROVE  UNCHANGED <<now, up, downSince, sentAt, windowHead>>
  BY <1>6 DEF PopWarning, clockVars, sendVars
<1>7. CASE UNCHANGED vars
  BY <1>7 DEF vars, clockVars, sendVars
<1>8. QED
  BY <1>1, <1>2, <1>3, <1>4, <1>5, <1>6, <1>7 DEF Next, TryPop

\* Entries before the head of the window are too old to count, a new process
\* starts only when all of them are, and the limit holds for what was sent.
TpsInv ==
  /\ TypeInv
  /\ \A m \in Markets : \A i \in 1 .. Len(sentAt[m]) :
       /\ sentAt[m][i] <= now
       /\ ~up => sentAt[m][i] <= downSince
       /\ up /\ i < windowHead[m] => now - sentAt[m][i] > Window
  /\ TpsRespected

\* What a market has sent, as numbers.
LEMMA SentTimes ==
  ASSUME TypeInv, NEW m \in Markets
  PROVE  /\ DOMAIN sentAt[m] = 1 .. Len(sentAt[m]) /\ Len(sentAt[m]) \in Nat
         /\ \A i \in 1 .. Len(sentAt[m]) : sentAt[m][i] \in Nat
         /\ windowHead[m] \in Nat \ {0}
         /\ now \in Nat /\ Window \in Nat /\ downSince \in Int /\ MinDowntime \in Nat
<1>1. sentAt[m] \in Seq(Nat) /\ windowHead[m] \in Nat \ {0} /\ now \in Nat /\ downSince \in Int
  BY DEF TypeInv, TypeOK
<1>2. QED
  BY <1>1, LenProperties, ElementOfSeq, FlowControlAssumption

\* Pruning keeps the first part of the invariant.
LEMMA VisitPrunes ==
  ASSUME TpsInv, up, NEW seen, Visit(seen), NEW m \in Markets,
         NEW i \in 1 .. Len(sentAt[m]), i < windowHead'[m]
  PROVE  now - sentAt[m][i] > Window
<1>1. TypeInv /\ (i < windowHead[m] => now - sentAt[m][i] > Window)
  BY DEF TpsInv
<1>2. windowHead'[m] = windowHead[m] \/ windowHead'[m] = PrunedHead(m)
  BY DEF Visit
<1>3. CASE i < windowHead[m]
  BY <1>1, <1>3
<1>4. CASE ~(i < windowHead[m])
  <2>1. windowHead'[m] = PrunedHead(m) /\ PrunedHead(m) \in Nat /\ windowHead[m] \in Nat
    BY <1>1, <1>2, <1>4, SentTimes, PrunedHeadIsFirst
  <2>2. i \in windowHead[m] .. PrunedHead(m) - 1
    BY <1>4, <2>1
  <2>3. QED
    BY <1>1, <2>2, PrunedHeadIsFirst
<1>5. QED
  BY <1>3, <1>4

LEMMA TpsInvSend ==
  ASSUME TpsInv, NEW m \in Markets, PopSend(m), TypeInv'
  PROVE  TpsInv'
<1>1. PICK a \in flowQueue[m] :
        RecordSend(m, a.req.size) /\ Remove(m, a, "sent") /\ WithinTps(m, a.req)
  BY DEF PopSend
<1> DEFINE n == Len(sentAt[m])
           size == a.req.size
<1>2. size \in Nat /\ TypeInv /\ n \in Nat /\ a \in Item
  <2>1. a \in Item /\ TypeInv
    BY DEF TpsInv, TypeInv, TypeOK
  <2>2. a.req.size \in Nat
    BY <2>1, FlowControlAssumption DEF Item, RequestType
  <2>3. QED
    BY <2>1, <2>2, SentTimes
<1>3. /\ sentAt'[m] = [i \in 1 .. n + size |-> IF i <= n THEN sentAt[m][i] ELSE now]
      /\ \A k \in Markets \ {m} : sentAt'[k] = sentAt[k]
  BY <1>1 DEF RecordSend, TpsInv, TypeInv, TypeOK
<1>4. /\ Len(sentAt'[m]) = n + size
      /\ \A i \in 1 .. n + size : sentAt'[m][i] = IF i <= n THEN sentAt[m][i] ELSE now
  BY <1>2, <1>3
<1>5. up /\ up' /\ now' = now /\ Visit({k \in Markets : Rank[k] <= Rank[m]})
  BY DEF PopSend, Turn, Visit, clockVars
<1>6. windowHead'[m] = PrunedHead(m)
  BY <1>5, FlowControlAssumption DEF Visit
<1>7. PrunedHead(m) \in 1 .. n + 1
  BY <1>2, SentTimes, PrunedHeadIsFirst
<1> HIDE DEF n, size
<1>8. ASSUME NEW i \in 1 .. n, i < PrunedHead(m)
      PROVE  now - sentAt[m][i] > Window
  BY <1>5, <1>6, <1>8, VisitPrunes DEF n
<1>9. ASSUME NEW k \in Markets, NEW i \in 1 .. Len(sentAt'[k])
      PROVE  /\ sentAt'[k][i] <= now'
             /\ i < windowHead'[k] => now' - sentAt'[k][i] > Window
  <2>1. CASE k = m
    <3>1. CASE i <= n
      <4>1. i \in 1 .. n /\ sentAt'[k][i] = sentAt[m][i]
        BY <1>2, <1>4, <1>9, <2>1, <3>1
      <4>2. sentAt[m][i] <= now
        BY <4>1 DEF TpsInv, n
      <4>3. QED
        BY <1>5, <1>6, <1>8, <2>1, <4>1, <4>2
    <3>2. CASE ~(i <= n)
      <4>1. sentAt'[k][i] = now /\ now \in Nat
        BY <1>2, <1>4, <2>1, <3>2, SentTimes
      <4>2. ~(i < windowHead'[k])
        BY <1>2, <1>6, <1>7, <2>1, <3>2
      <4>3. QED
        BY <1>5, <4>1, <4>2
    <3>3. QED
      BY <3>1, <3>2
  <2>2. CASE k # m
    <3>1. sentAt'[k] = sentAt[k]
      BY <1>3, <2>2
    <3>2. sentAt[k][i] <= now
      BY <3>1 DEF TpsInv
    <3>3. i < windowHead'[k] => now - sentAt[k][i] > Window
      BY <1>5, <3>1, VisitPrunes
    <3>4. QED
      BY <1>5, <3>1, <3>2, <3>3
  <2>3. QED
    BY <2>1, <2>2
<1>10. ASSUME NEW k \in Markets, TpsLimit[k] > 0,
              NEW i \in 1 .. Len(sentAt'[k]), NEW j \in 1 .. Len(sentAt'[k]),
              j - i >= TpsLimit[k]
       PROVE  sentAt'[k][j] - sentAt'[k][i] > Window
  <2>1. CASE k # m \/ j <= n
    <3>1. /\ i \in DOMAIN sentAt[k] /\ j \in DOMAIN sentAt[k]
          /\ sentAt'[k][j] = sentAt[k][j] /\ sentAt'[k][i] = sentAt[k][i]
      <4>1. CASE k # m
        BY <1>2, <1>3, <2>1, <4>1, SentTimes
      <4>2. CASE k = m
        <5>1. TpsLimit[k] \in Nat
          BY FlowControlAssumption
        <5>2. i <= n /\ j <= n
          BY <1>2, <1>10, <2>1, <4>2, <5>1
        <5>3. i \in 1 .. n /\ j \in 1 .. n /\ n <= n + size
          BY <1>2, <5>2
        <5>4. sentAt'[m][i] = sentAt[m][i] /\ sentAt'[m][j] = sentAt[m][j]
          BY <1>2, <1>4, <5>2, <5>3
        <5>5. DOMAIN sentAt[m] = 1 .. n
          BY <1>2, SentTimes DEF n
        <5>6. QED
          BY <4>2, <5>3, <5>4, <5>5
      <4>3. QED
        BY <4>1, <4>2
    <3>2. QED
      BY <1>10, <3>1 DEF TpsInv, TpsRespected
  <2>2. CASE k = m /\ ~(j <= n)
    <3>1. TpsLimit[m] \in Nat /\ n + 1 - PrunedHead(m) + size <= TpsLimit[m]
      BY <1>1, <1>10, <2>2, FlowControlAssumption DEF WithinTps, RecentlySent, n, size
    <3>2. j <= n + size /\ i \in Nat \ {0}
      BY <1>2, <1>4, <2>2
    <3>3. i <= n /\ i < PrunedHead(m)
      BY <1>2, <1>7, <1>10, <2>2, <3>1, <3>2
    <3>4. now - sentAt[m][i] > Window
      BY <1>2, <1>8, <3>2, <3>3
    <3>5. sentAt'[k][j] = now /\ sentAt'[k][i] = sentAt[m][i]
      BY <1>2, <1>4, <2>2, <3>2, <3>3
    <3>6. QED
      BY <3>4, <3>5
  <2>3. QED
    BY <2>1, <2>2
<1>11. TpsRespected'
  <2>1. \A k \in Markets : DOMAIN sentAt'[k] = 1 .. Len(sentAt'[k])
    BY LenProperties DEF TypeInv, TypeOK
  <2>2. QED
    BY <1>10, <2>1 DEF TpsRespected
<1>12. QED
  BY <1>5, <1>9, <1>11 DEF TpsInv

LEMMA TpsInvStep ==
  ASSUME MinDowntime > Window, TpsInv, [Next]_vars
  PROVE  TpsInv'
<1>1. TypeInv /\ TypeInv'
  BY TypeInvStep DEF TpsInv
<1>2. /\ \A m \in Markets : Len(sentAt[m]) \in Nat /\ windowHead[m] \in Nat
      /\ \A m \in Markets : \A i \in 1 .. Len(sentAt[m]) : sentAt[m][i] \in Nat
  BY <1>1, SentTimes
<1>3. now \in Nat /\ downSince \in Int /\ Window \in Nat /\ MinDowntime \in Nat
  BY <1>1, FlowControlAssumption DEF TypeInv, TypeOK
<1>4. CASE Tick
  <2>1. UNCHANGED <<up, downSince, sentAt, windowHead>> /\ now' = now + 1
    BY <1>4 DEF Tick, sendVars
  <2>2. QED
    BY <1>1, <1>2, <1>3, <2>1 DEF TpsInv, TpsRespected
<1>5. CASE Crash
  <2>1. UNCHANGED <<now, sentAt>> /\ downSince' = now /\ ~up'
    BY <1>5 DEF Crash, clockVars
  <2>2. QED
    BY <1>1, <2>1 DEF TpsInv, TpsRespected
<1>6. CASE Start
  <2>1. UNCHANGED <<now, sentAt>> /\ now >= downSince + MinDowntime /\ ~up
    BY <1>6 DEF Start, clockVars
  <2>2. ASSUME NEW m \in Markets, NEW i \in 1 .. Len(sentAt[m])
        PROVE  sentAt[m][i] <= now /\ now - sentAt[m][i] > Window
    <3>1. sentAt[m][i] <= downSince /\ sentAt[m][i] <= now
      BY <2>1 DEF TpsInv
    <3>2. QED
      BY <1>2, <1>3, <2>1, <3>1
  <2>3. up'
    BY <1>6 DEF Start
  <2>4. QED
    BY <1>1, <2>1, <2>2, <2>3 DEF TpsInv, TpsRespected
<1>7. ASSUME NEW m \in Markets, PopSend(m) PROVE TpsInv'
  BY <1>1, <1>7, TpsInvSend
<1>8. ASSUME up, UNCHANGED <<now, up, downSince, sentAt>>, NEW seen, Visit(seen)
      PROVE  TpsInv'
  <2>1. \A m \in Markets : \A i \in 1 .. Len(sentAt[m]) :
          i < windowHead'[m] => now - sentAt[m][i] > Window
    BY <1>8, VisitPrunes
  <2>2. QED
    BY <1>1, <1>8, <2>1 DEF TpsInv, TpsRespected
<1>9. CASE UNCHANGED <<now, up, downSince, sentAt, windowHead>>
  BY <1>1, <1>9 DEF TpsInv, TpsRespected
<1>10. QED
  BY <1>4, <1>5, <1>6, <1>7, <1>8, <1>9, SendFrame

\* For any configuration, any batches and any number of restarts: if a stopped
\* server stays down longer than the window, th_tps_limit is never exceeded.
THEOREM FlowTpsRespected ==
  ASSUME MinDowntime > Window
  PROVE  Spec => []TpsRespected
<1>1. Init => TpsInv
  <2>1. SUFFICES ASSUME Init PROVE TpsInv
    OBVIOUS
  <2>2. TypeInv
    BY <2>1, TypeInvInit
  <2>3. \A m \in Markets : sentAt[m] = <<>>
    BY <2>1 DEF Init
  <2>4. QED
    BY <2>2, <2>3 DEF TpsInv, TpsRespected
<1>2. TpsInv /\ [Next]_vars => TpsInv'
  BY TpsInvStep
<1>3. TpsInv => TpsRespected
  BY DEF TpsInv
<1>4. QED
  BY <1>1, <1>2, <1>3, PTL DEF Spec

-----------------------------------------------------------------------------
(* The daily count. *)

\* What a step may do to the count and to the file.
LEMMA CountFrame ==
  ASSUME ~RunsOvernight, [Next]_vars
  PROVE  \/ NewDay /\ ~up
         \/ Crash \/ Start
         \/ \E m \in Markets : PopSend(m)
         \/ UNCHANGED <<day, up, sendVars>>
<1>1. CASE NewDay
  BY <1>1 DEF NewDay
<1>2. CASE Tick
  BY <1>2 DEF Tick
<1>3. ASSUME NEW r \in Requests, Submit(r) PROVE UNCHANGED <<day, up, sendVars>>
  BY <1>3 DEF Submit, clockVars
<1>4. CASE Drain
  BY <1>4 DEF Drain, clockVars
<1>5. ASSUME NEW m \in Markets,
             \/ PopTimeout(m) \/ PopBeyondDaily(m) \/ PopMarketReply(m) \/ PopBackTimeout(m)
      PROVE  UNCHANGED <<day, up, sendVars>>
  <2>1. Turn(m) /\ UNCHANGED sendVars
    BY <1>5 DEF PopTimeout, PopBeyondDaily, PopMarketReply, PopBackTimeout
  <2>2. QED
    BY <2>1 DEF Turn, Visit, clockVars
<1>6. ASSUME PopNormal \/ PopNothing PROVE UNCHANGED <<day, up, sendVars>>
  <2>1. Visit(Markets) /\ UNCHANGED sendVars
    BY <1>6 DEF PopNormal, PopNothing
  <2>2. QED
    BY <2>1 DEF Visit, clockVars
<1>7. ASSUME NEW m \in Markets, PopWarning(m) PROVE UNCHANGED <<day, up, sendVars>>
  BY <1>7 DEF PopWarning, clockVars
<1>8. CASE UNCHANGED vars
  BY <1>8 DEF vars, clockVars
<1>9. QED
  BY <1>1, <1>2, <1>3, <1>4, <1>5, <1>6, <1>7, <1>8 DEF Next, TryPop

\* The last record of a running process is of today and holds its total; no
\* record is from the future; a total of zero leaves no count of today behind.
RecordsTell ==
  \A m \in Markets :
    /\ up => /\ stateFile[m][Len(stateFile[m])].date = day
             /\ stateFile[m][Len(stateFile[m])].total = totalCmdSize[m]
    /\ up /\ totalCmdSize[m] = 0 =>
         \A i \in 1 .. Len(stateFile[m]) :
           stateFile[m][i].date = day => stateFile[m][i].total = 0
    /\ \A i \in 1 .. Len(stateFile[m]) : stateFile[m][i].date <= day

CountInv == TypeInv /\ RecordsTell /\ CountSurvivesRestart

LEMMA Records ==
  ASSUME TypeInv, NEW m \in Markets
  PROVE  /\ Len(stateFile[m]) \in Nat
         /\ stateFile[m] \in Seq(StateRecord)
         /\ \A i \in 1 .. Len(stateFile[m]) :
              stateFile[m][i].date \in Nat /\ stateFile[m][i].total \in Nat
         /\ totalCmdSize[m] \in Nat /\ sentToday[m] \in Nat /\ day \in Nat
         /\ up => Len(stateFile[m]) \in 1 .. Len(stateFile[m])
<1>1. stateFile[m] \in Seq(StateRecord) /\ totalCmdSize[m] \in Nat /\ sentToday[m] \in Nat
      /\ day \in Nat
  BY DEF TypeInv, TypeOK
<1>2. Len(stateFile[m]) \in Nat
  BY <1>1, LenProperties
<1>3. \A i \in 1 .. Len(stateFile[m]) : stateFile[m][i] \in StateRecord
  BY <1>1, ElementOfSeq
<1>4. \A i \in 1 .. Len(stateFile[m]) :
        stateFile[m][i].date \in Nat /\ stateFile[m][i].total \in Nat
  BY <1>3 DEF StateRecord
<1>5. up => Len(stateFile[m]) \in 1 .. Len(stateFile[m])
  BY <1>2 DEF TypeInv, Anchored
<1>6. QED
  BY <1>1, <1>2, <1>4, <1>5

\* While a process runs, its last record already is the total the next one finds.
LEMMA TotalIsHistory ==
  ASSUME CountInv, up, NEW m \in Markets
  PROVE  HistoryTotal(m) = totalCmdSize[m]
<1> DEFINE n == Len(stateFile[m])
<1>1. /\ n \in 1 .. n /\ stateFile[m] \in Seq(StateRecord) /\ totalCmdSize[m] \in Nat
      /\ n \in Nat
      /\ \A i \in 1 .. n : stateFile[m][i].total \in Nat
  BY Records DEF CountInv
<1>2. stateFile[m][n].date = day /\ stateFile[m][n].total = totalCmdSize[m]
  BY DEF CountInv, RecordsTell
<1>3. CASE totalCmdSize[m] > 0
  <2>1. \A j \in n + 1 .. n : ~(stateFile[m][j].date = day /\ stateFile[m][j].total > 0)
    BY <1>1
  <2>2. QED
    BY <1>1, <1>2, <1>3, <2>1, HistoryTotalIsLast
<1>4. CASE totalCmdSize[m] = 0
  <2>1. \A i \in 1 .. n : stateFile[m][i].date = day => stateFile[m][i].total = 0
    BY <1>4 DEF CountInv, RecordsTell
  <2>2. QED
    BY <1>1, <1>4, <2>1, HistoryTotalIsLast
<1>5. QED
  BY <1>1, <1>3, <1>4

LEMMA CountInvSend ==
  ASSUME CountInv, NEW m \in Markets, PopSend(m), TypeInv'
  PROVE  CountInv'
<1>1. PICK a \in flowQueue[m] : RecordSend(m, a.req.size)
  BY DEF PopSend
<1> DEFINE n == Len(stateFile[m])
           total == totalCmdSize[m] + a.req.size
<1>2. a.req.size \in Nat \ {0} /\ TypeInv
  <2>1. a \in Item /\ TypeInv
    BY DEF CountInv, TypeInv, TypeOK
  <2>2. QED
    BY <2>1, FlowControlAssumption DEF Item, RequestType
<1>3. up /\ up' /\ day' = day
  BY DEF PopSend, Turn, Visit, clockVars
<1>4. /\ totalCmdSize \in [Markets -> Nat] /\ sentToday \in [Markets -> Nat]
      /\ stateFile \in [Markets -> Seq(StateRecord)]
  BY <1>2 DEF TypeInv, TypeOK
<1>5. n \in Nat /\ n \in 1 .. n /\ stateFile[m] \in Seq(StateRecord)
  BY <1>2, <1>3, Records
<1>6. /\ Len(stateFile'[m]) = n
      /\ \A i \in 1 .. n : stateFile'[m][i].date = stateFile[m][i].date
      /\ stateFile'[m][n].total = total
  <2> DEFINE s == [stateFile[m] EXCEPT ![n] = [stateFile[m][n] EXCEPT !.total = total]]
  <2>1. stateFile'[m] = s
    BY <1>1, <1>4 DEF RecordSend
  <2>2. stateFile[m][n] \in StateRecord /\ total \in Nat
    BY <1>2, <1>4, <1>5, ElementOfSeq
  <2>3. /\ [stateFile[m][n] EXCEPT !.total = total] \in StateRecord
        /\ [stateFile[m][n] EXCEPT !.total = total].total = total
        /\ [stateFile[m][n] EXCEPT !.total = total].date = stateFile[m][n].date
    BY <2>2 DEF StateRecord
  <2> HIDE DEF total
  <2>4. /\ Len(s) = n
        /\ \A i \in 1 .. n : s[i] = IF i = n THEN [stateFile[m][n] EXCEPT !.total = total]
                                             ELSE stateFile[m][i]
    BY <1>5, <2>3, ExceptSeq
  <2> HIDE DEF s
  <2>5. QED
    BY <1>5, <2>1, <2>3, <2>4
<1>7. \A k \in Markets \ {m} :
        /\ stateFile'[k] = stateFile[k] /\ totalCmdSize'[k] = totalCmdSize[k]
        /\ sentToday'[k] = sentToday[k]
  BY <1>1, <1>4 DEF RecordSend
<1>8. totalCmdSize'[m] = total /\ sentToday'[m] = sentToday[m] + a.req.size
  BY <1>1, <1>4 DEF RecordSend
<1>9. ASSUME NEW k \in Markets, k # m
      PROVE  /\ stateFile'[k][Len(stateFile'[k])].date = day
             /\ stateFile'[k][Len(stateFile'[k])].total = totalCmdSize'[k]
             /\ totalCmdSize'[k] = 0 =>
                  \A i \in 1 .. Len(stateFile'[k]) :
                    stateFile'[k][i].date = day => stateFile'[k][i].total = 0
             /\ \A i \in 1 .. Len(stateFile'[k]) : stateFile'[k][i].date <= day
             /\ sentToday'[k] = totalCmdSize'[k]
  BY <1>3, <1>7, <1>9 DEF CountInv, RecordsTell, CountSurvivesRestart
<1>10. /\ stateFile'[m][Len(stateFile'[m])].date = day
       /\ stateFile'[m][Len(stateFile'[m])].total = totalCmdSize'[m]
       /\ totalCmdSize'[m] # 0
       /\ \A i \in 1 .. Len(stateFile'[m]) : stateFile'[m][i].date <= day
       /\ sentToday'[m] = totalCmdSize'[m]
  <2>1. /\ stateFile[m][n].date = day /\ sentToday[m] = totalCmdSize[m]
        /\ \A i \in 1 .. n : stateFile[m][i].date <= day
    BY <1>3 DEF CountInv, RecordsTell, CountSurvivesRestart
  <2>2. totalCmdSize[m] \in Nat
    BY <1>4
  <2> HIDE DEF n
  <2>3. stateFile'[m][n].date = day /\ stateFile'[m][n].total = totalCmdSize'[m]
    BY <1>5, <1>6, <1>8, <2>1
  <2>4. totalCmdSize'[m] # 0 /\ sentToday'[m] = totalCmdSize'[m]
    BY <1>2, <1>8, <2>1, <2>2
  <2>5. \A i \in 1 .. n : stateFile'[m][i].date <= day
    BY <1>6, <2>1
  <2>6. Len(stateFile'[m]) = n
    BY <1>6
  <2>7. QED
    BY <2>3, <2>4, <2>5, <2>6
<1>11. QED
  BY <1>3, <1>9, <1>10 DEF CountInv, RecordsTell, CountSurvivesRestart

LEMMA CountInvStart ==
  ASSUME CountInv, Start, TypeInv'
  PROVE  CountInv'
<1>1. ~up /\ up' /\ day' = day /\ sentToday' = sentToday /\ TypeInv
  BY DEF Start, clockVars, CountInv
<1>2. ASSUME NEW m \in Markets
      PROVE  /\ stateFile'[m][Len(stateFile'[m])].date = day
             /\ stateFile'[m][Len(stateFile'[m])].total = totalCmdSize'[m]
             /\ totalCmdSize'[m] = 0 =>
                  \A i \in 1 .. Len(stateFile'[m]) :
                    stateFile'[m][i].date = day => stateFile'[m][i].total = 0
             /\ \A i \in 1 .. Len(stateFile'[m]) : stateFile'[m][i].date <= day
             /\ sentToday'[m] = totalCmdSize'[m]
  <2> DEFINE n == Len(stateFile[m])
             e == [date |-> day, total |-> HistoryTotal(m)]
  <2>1. n \in Nat /\ stateFile[m] \in Seq(StateRecord) /\ day \in Nat
    BY <1>1, Records
  <2>2. e \in StateRecord
    BY <2>1, HistoryTotalIsLast DEF StateRecord
  <2>3. stateFile'[m] = Append(stateFile[m], e) /\ totalCmdSize'[m] = HistoryTotal(m)
    BY DEF Start
  <2>4. e.date = day /\ e.total = HistoryTotal(m)
    OBVIOUS
  <2> HIDE DEF e
  <2>5. /\ Len(stateFile'[m]) = n + 1
        /\ \A i \in 1 .. n : stateFile'[m][i] = stateFile[m][i]
        /\ stateFile'[m][n + 1] = e
    BY <2>1, <2>2, <2>3, AppendProperties
  <2>6. /\ \A i \in 1 .. n : stateFile[m][i].date <= day
        /\ sentToday[m] = HistoryTotal(m)
    BY <1>1 DEF CountInv, RecordsTell, CountSurvivesRestart
  <2>7. HistoryTotal(m) = 0 =>
          \A i \in 1 .. n : stateFile[m][i].date = day => stateFile[m][i].total = 0
    BY <2>1, HistoryTotalIsLast
  <2>8. \A i \in 1 .. n + 1 : i \in 1 .. n \/ i = n + 1
    BY <2>1
  <2>9. QED
    BY <1>1, <2>1, <2>3, <2>4, <2>5, <2>6, <2>7, <2>8
<1>3. QED
  BY <1>1, <1>2 DEF CountInv, RecordsTell, CountSurvivesRestart

LEMMA CountInvStep ==
  ASSUME ~RunsOvernight, CountInv, [Next]_vars
  PROVE  CountInv'
<1>1. TypeInv /\ TypeInv'
  BY TypeInvStep DEF CountInv
<1>2. CASE NewDay /\ ~up
  <2>1. /\ UNCHANGED <<up, stateFile, totalCmdSize>> /\ day' = day + 1
        /\ sentToday' = [m \in Markets |-> 0]
    BY <1>2 DEF NewDay
  <2>2. ASSUME NEW m \in Markets
        PROVE  /\ \A i \in 1 .. Len(stateFile[m]) :
                    stateFile[m][i].date <= day' /\ stateFile[m][i].date # day'
               /\ stateFile'[m] \in Seq(StateRecord)
    <3>1. \A i \in 1 .. Len(stateFile[m]) :
            stateFile[m][i].date \in Nat /\ stateFile[m][i].date <= day
      BY <1>1, Records DEF CountInv, RecordsTell
    <3>2. day \in Nat /\ stateFile[m] \in Seq(StateRecord)
      BY <1>1, Records
    <3>3. QED
      BY <2>1, <3>1, <3>2
  <2>3. ASSUME NEW m \in Markets PROVE HistoryTotal(m)' = 0
    <3>1. {i \in DOMAIN stateFile'[m] :
             stateFile'[m][i].date = day' /\ stateFile'[m][i].total > 0} = {}
      BY <2>1, <2>2, LenProperties
    <3>2. QED
      BY <3>1 DEF HistoryTotal
  <2>4. RecordsTell'
    BY <1>2, <2>1, <2>2 DEF RecordsTell
  <2>5. CountSurvivesRestart'
    BY <1>2, <2>1, <2>3 DEF CountSurvivesRestart
  <2>6. QED
    BY <1>1, <2>4, <2>5 DEF CountInv
<1>3. CASE Crash
  <2>1. /\ up /\ ~up' /\ UNCHANGED <<day, stateFile, sentToday>>
    BY <1>3 DEF Crash, clockVars
  <2>2. ASSUME NEW m \in Markets PROVE HistoryTotal(m)' = sentToday'[m]
    <3>1. HistoryTotal(m)' = HistoryTotal(m)
      BY <2>1 DEF HistoryTotal
    <3>2. sentToday[m] = totalCmdSize[m]
      BY <2>1 DEF CountInv, CountSurvivesRestart
    <3>3. QED
      BY <2>1, <3>1, <3>2, TotalIsHistory
  <2>3. QED
    BY <1>1, <2>1, <2>2 DEF CountInv, RecordsTell, CountSurvivesRestart
<1>4. CASE Start
  BY <1>1, <1>4, CountInvStart
<1>5. ASSUME NEW m \in Markets, PopSend(m) PROVE CountInv'
  BY <1>1, <1>5, CountInvSend
<1>6. CASE UNCHANGED <<day, up, sendVars>>
  <2>1. UNCHANGED <<day, up, stateFile, totalCmdSize, sentToday>>
    BY <1>6 DEF sendVars
  <2>2. \A m \in Markets : HistoryTotal(m)' = HistoryTotal(m)
    BY <2>1 DEF HistoryTotal
  <2>3. QED
    BY <1>1, <2>1, <2>2 DEF CountInv, RecordsTell, CountSurvivesRestart
<1>7. QED
  BY <1>2, <1>3, <1>4, <1>5, <1>6, CountFrame

LEMMA CountInvInit == Init => CountInv
<1>1. SUFFICES ASSUME Init PROVE CountInv
  OBVIOUS
<1>2. TypeInv /\ ~up
  BY <1>1, TypeInvInit DEF Init
<1>3. \A m \in Markets : stateFile[m] = <<>> /\ sentToday[m] = 0
  BY <1>1 DEF Init
<1>4. ASSUME NEW m \in Markets PROVE HistoryTotal(m) = 0
  BY <1>3 DEF HistoryTotal
<1>5. QED
  BY <1>2, <1>3, <1>4 DEF CountInv, RecordsTell, CountSurvivesRestart

\* As long as no process lives through midnight, the state file tells every new
\* process exactly what was sent that day, however often the server crashed.
THEOREM FlowCountSurvivesRestart ==
  ASSUME ~RunsOvernight
  PROVE  Spec => []CountSurvivesRestart
<1>1. CountInv /\ [Next]_vars => CountInv'
  BY CountInvStep
<1>2. CountInv => CountSurvivesRestart
  BY DEF CountInv
<1>3. QED
  BY <1>1, <1>2, CountInvInit, PTL DEF Spec

LEMMA DailyStep ==
  ASSUME ~RunsOvernight, CountInv, DailyRespected, [Next]_vars
  PROVE  DailyRespected'
<1>1. CASE NewDay
  BY <1>1, FlowControlAssumption DEF NewDay, DailyRespected
<1>2. CASE sentToday' = sentToday
  BY <1>2 DEF DailyRespected
<1>3. ASSUME NEW m \in Markets, PopSend(m) PROVE DailyRespected'
  <2>1. PICK a \in flowQueue[m] : RecordSend(m, a.req.size) /\ ~BeyondDaily(m, a.req)
    BY <1>3 DEF PopSend
  <2>2. sentToday \in [Markets -> Nat] /\ sentToday[m] = totalCmdSize[m]
    BY <1>3 DEF CountInv, TypeInv, TypeOK, CountSurvivesRestart, PopSend, Turn
  <2>3. a.req.size \in Nat
    <3>1. a \in Item
      BY DEF CountInv, TypeInv, TypeOK
    <3>2. QED
      BY <3>1, FlowControlAssumption DEF Item, RequestType
  <2>4. sentToday' = [sentToday EXCEPT ![m] = sentToday[m] + a.req.size]
    BY <2>1 DEF RecordSend
  <2>5. DailyLimit[m] > 0 => sentToday[m] + a.req.size <= DailyLimit[m]
    BY <2>1, <2>2, <2>3, FlowControlAssumption DEF BeyondDaily
  <2>6. QED
    BY <2>2, <2>4, <2>5 DEF DailyRespected
<1>4. CASE Crash \/ Start
  <2>1. sentToday' = sentToday
    BY <1>4 DEF Crash, Start
  <2>2. QED
    BY <1>2, <2>1
<1>5. CASE UNCHANGED <<day, up, sendVars>>
  <2>1. sentToday' = sentToday
    BY <1>5 DEF sendVars
  <2>2. QED
    BY <1>2, <2>1
<1>6. QED
  BY <1>1, <1>3, <1>4, <1>5, CountFrame

\* The commands of a day stay within th_daily_limit over all the processes of the
\* day, since each of them counts on from what the file tells.
THEOREM FlowDailyRespected ==
  ASSUME ~RunsOvernight
  PROVE  Spec => []DailyRespected
<1>1. Init => DailyRespected
  BY FlowControlAssumption DEF Init, DailyRespected
<1>2. CountInv /\ DailyRespected /\ [Next]_vars => CountInv' /\ DailyRespected'
  BY CountInvStep, DailyStep
<1>3. QED
  BY <1>1, <1>2, CountInvInit, PTL DEF Spec

-----------------------------------------------------------------------------
(* The alarm. *)

AlarmInv == TypeInv /\ \A m \in Markets : unwarned[m] => preWarning[m] = 0

LEMMA AlarmInvStep ==
  ASSUME AlarmInv, [Next]_vars
  PROVE  AlarmInv'
<1>1. TypeInv /\ TypeInv'
  BY TypeInvStep DEF AlarmInv
<1>2. preWarning \in [Markets -> Nat] /\ unwarned \in [Markets -> BOOLEAN]
  BY <1>1 DEF TypeInv, TypeOK
<1>3. CASE UNCHANGED <<preWarning, unwarned>>
  BY <1>1, <1>3 DEF AlarmInv
<1>4. CASE Crash
  <2>1. \A m \in Markets : ~unwarned'[m]
    BY <1>4 DEF Crash
  <2>2. QED
    BY <1>1, <2>1 DEF AlarmInv
<1>5. ASSUME NEW m \in Markets, PopBeyondDaily(m) PROVE AlarmInv'
  <2>1. preWarning' = [preWarning EXCEPT ![m] = 0]
    BY <1>5 DEF PopBeyondDaily
  <2>2. unwarned' = [unwarned EXCEPT ![m] = TRUE]
    BY <1>5 DEF PopBeyondDaily
  <2>3. ASSUME NEW k \in Markets, unwarned'[k] PROVE preWarning'[k] = 0
    <3>1. CASE k = m
      BY <1>2, <2>1, <3>1
    <3>2. CASE k # m
      <4>1. unwarned[k]
        BY <1>2, <2>2, <2>3, <3>2
      <4>2. QED
        BY <1>2, <2>1, <3>2, <4>1 DEF AlarmInv
    <3>3. QED
      BY <3>1, <3>2
  <2>4. QED
    BY <1>1, <2>3 DEF AlarmInv
<1>6. ASSUME NEW m \in Markets, PopWarning(m) PROVE AlarmInv'
  <2>1. CASE UNCHANGED <<preWarning, unwarned>>
    BY <1>3, <2>1
  <2>2. CASE /\ preWarning' = [preWarning EXCEPT ![m] = totalCmdSize[m]]
             /\ unwarned' = [unwarned EXCEPT ![m] = FALSE]
    <3>1. ASSUME NEW k \in Markets, unwarned'[k] PROVE preWarning'[k] = 0
      <4>1. k # m /\ unwarned[k]
        BY <1>2, <2>2, <3>1
      <4>2. QED
        BY <1>2, <2>2, <4>1 DEF AlarmInv
    <3>2. QED
      BY <1>1, <3>1 DEF AlarmInv
  <2>3. QED
    BY <1>6, <2>1, <2>2, Zenon DEF PopWarning
<1>7. ASSUME NEW r \in Requests, Submit(r) PROVE UNCHANGED <<preWarning, unwarned>>
  BY <1>7 DEF Submit, alarmVars
<1>8. ASSUME NEW m \in Markets,
             PopTimeout(m) \/ PopSend(m) \/ PopMarketReply(m) \/ PopBackTimeout(m)
      PROVE  UNCHANGED <<preWarning, unwarned>>
  BY <1>8 DEF PopTimeout, PopSend, PopMarketReply, PopBackTimeout
<1>9. ASSUME Tick \/ NewDay \/ Start \/ Drain \/ PopNormal \/ PopNothing \/ UNCHANGED vars
      PROVE  UNCHANGED <<preWarning, unwarned>>
  BY <1>9 DEF Tick, NewDay, Start, Drain, PopNormal, PopNothing, vars, alarmVars
<1>10. QED
  BY <1>3, <1>4, <1>5, <1>6, <1>7, <1>8, <1>9 DEF Next, TryPop

\* A request turned down for the daily limit re-arms the alarm, whatever was
\* announced or sent between.
THEOREM FlowRejectionRaisesAlarm == Spec => []RejectionRaisesAlarm
<1>1. Init => AlarmInv
  <2>1. SUFFICES ASSUME Init PROVE AlarmInv
    OBVIOUS
  <2>2. \A m \in Markets : ~unwarned[m]
    BY <2>1 DEF Init
  <2>3. QED
    BY <2>1, <2>2, TypeInvInit DEF AlarmInv
<1>2. AlarmInv /\ [Next]_vars => AlarmInv'
  BY AlarmInvStep
<1>3. AlarmInv => RejectionRaisesAlarm
  <2>1. SUFFICES ASSUME AlarmInv, NEW m \in Markets,
                        unwarned[m], DailyWarning[m] > 0, totalCmdSize[m] >= DailyWarning[m]
                 PROVE  DailyAlarm(m)
    BY DEF RejectionRaisesAlarm
  <2>2. preWarning[m] = 0 /\ totalCmdSize[m] \in Nat /\ DailyWarning[m] \in Nat
    BY <2>1, FlowControlAssumption DEF AlarmInv, TypeInv, TypeOK
  <2>3. QED
    BY <2>1, <2>2 DEF DailyAlarm
<1>4. QED
  BY <1>1, <1>2, <1>3, PTL DEF Spec

-----------------------------------------------------------------------------
(* The order of the sends. *)

\* A request is in at most one place that leads to the exchange, was pushed, and
\* no reply in a queue claims to be a send.
UniqueInv ==
  /\ TypeInv
  /\ \A i, j \in 1 .. Len(brokerQueue) : brokerQueue[i].req = brokerQueue[j].req => i = j
  /\ \A i \in 1 .. Len(brokerQueue) :
       /\ outcome[brokerQueue[i].req] # "new"
       /\ \A m \in Markets : \A a \in flowQueue[m] : a.req # brokerQueue[i].req
  /\ \A m \in Markets : \A a \in flowQueue[m] : a.req.market = m /\ outcome[a.req] # "new"
  /\ \A m \in Markets : \A a, b \in flowQueue[m] : a.req = b.req => a = b
  /\ \A i \in 1 .. Len(normalQueue) : normalQueue[i].verdict \notin {"sent", "new"}
  /\ \A m \in Markets : \A i \in 1 .. Len(marketReplies[m]) :
       marketReplies[m][i].verdict \notin {"sent", "new"}

\* The sort key tells the priorities apart as long as amounts stay below Multiple.
LEMMA KeyIsLexicographic ==
  ASSUME NEW a, NEW b, a.req \in RequestType, b.req \in RequestType,
         a.req.amount < Multiple, b.req.amount < Multiple,
         a.seq \in Nat, b.seq \in Nat, Before(a, b)
  PROVE  SendOrder(a, b)
<1>1. Multiple \in Nat \ {0} /\ a.req.amount \in Nat /\ b.req.amount \in Nat
  BY FlowControlAssumption DEF RequestType
<1>2. \A r \in {a.req, b.req} : \/ Priority(r) = 1 /\ OrderAmount(r) = r.amount
                                \/ Priority(r) = 2 /\ OrderAmount(r) = 0
                                \/ Priority(r) = 3 /\ OrderAmount(r) = 0
  BY DEF Priority, OrderAmount
<1>3. \A r \in {a.req, b.req} :
        /\ Priority(r) \in 1 .. 3
        /\ OrderAmount(r) \in Nat /\ OrderAmount(r) < Multiple
        /\ TotalAmount(r) = IF Priority(r) = 1 THEN Multiple + OrderAmount(r)
                            ELSE IF Priority(r) = 2 THEN Multiple + Multiple
                            ELSE Multiple + Multiple + Multiple
  <2>1. 1 * Multiple = Multiple /\ 2 * Multiple = Multiple + Multiple
        /\ 3 * Multiple = Multiple + Multiple + Multiple
    BY <1>1
  <2>2. QED
    BY <1>1, <1>2, <2>1 DEF TotalAmount
<1>4. \/ TotalAmount(a.req) > TotalAmount(b.req)
      \/ TotalAmount(a.req) = TotalAmount(b.req) /\ a.seq < b.seq
  BY DEF Before
<1>5. QED
  BY <1>1, <1>2, <1>3, <1>4 DEF SendOrder

LEMMA UniqueInvDrain ==
  ASSUME UniqueInv, Drain, TypeInv'
  PROVE  UniqueInv'
<1> DEFINE e == Head(brokerQueue)
           n == Len(brokerQueue)
<1>1. /\ brokerQueue \in Seq(Message) /\ brokerQueue # <<>> /\ n \in Nat \ {0}
      /\ e = brokerQueue[1]
      /\ Len(brokerQueue') = n - 1
      /\ \A i \in 1 .. n - 1 : brokerQueue'[i] = brokerQueue[i + 1]
  <2>1. brokerQueue \in Seq(Message) /\ brokerQueue # <<>> /\ brokerQueue' = Tail(brokerQueue)
    BY DEF Drain, UniqueInv, TypeInv, TypeOK
  <2>2. QED
    BY <2>1, EmptySeq, HeadTailProperties
<1>2. outcome' = outcome
  BY DEF Drain
<1>3. \A i \in 1 .. n - 1 : i + 1 \in 1 .. n /\ i + 1 # 1 /\ 1 \in 1 .. n
  BY <1>1
<1>4. \A i \in 1 .. n - 1 : brokerQueue'[i].req # e.req
  BY <1>1, <1>3 DEF UniqueInv
<1>5. \A m \in Markets : \A a \in flowQueue[m] : a.req # e.req
  BY <1>1, <1>3 DEF UniqueInv
<1>6. outcome[e.req] # "new"
  BY <1>1 DEF UniqueInv
<1>7. \A i, j \in 1 .. Len(brokerQueue') : brokerQueue'[i].req = brokerQueue'[j].req => i = j
  <2>1. SUFFICES ASSUME NEW i \in 1 .. n - 1, NEW j \in 1 .. n - 1,
                        brokerQueue[i + 1].req = brokerQueue[j + 1].req
                 PROVE  i = j
    BY <1>1
  <2>2. i + 1 = j + 1
    BY <1>3, <2>1 DEF UniqueInv
  <2>3. QED
    BY <2>2
<1>8. \A i \in 1 .. Len(brokerQueue') : outcome'[brokerQueue'[i].req] # "new"
  BY <1>1, <1>2, <1>3 DEF UniqueInv
<1>9. \A i \in 1 .. n - 1 : \A m \in Markets : \A a \in flowQueue[m] :
        a.req # brokerQueue'[i].req
  BY <1>1, <1>3 DEF UniqueInv
<1>10. CASE DrainNormal(e.req)
  <2> DEFINE reply == [req |-> e.req, verdict |-> IF Refused(e.req) THEN "refused" ELSE "passed"]
  <2>1. /\ normalQueue' = Append(normalQueue, reply)
        /\ UNCHANGED <<flowQueue, marketReplies>>
    BY <1>10 DEF DrainNormal
  <2>2. normalQueue \in Seq(Reply) /\ normalQueue' \in Seq(Reply)
    BY DEF UniqueInv, TypeInv, TypeOK
  <2>3. reply \in Reply /\ reply.verdict \notin {"sent", "new"}
    <3>1. e \in Message
      BY <1>1, HeadTailProperties
    <3>2. QED
      BY <3>1 DEF Reply, Message, Outcomes
  <2> HIDE DEF reply
  <2>4. /\ Len(normalQueue') = Len(normalQueue) + 1 /\ Len(normalQueue) \in Nat
        /\ \A i \in 1 .. Len(normalQueue) : normalQueue'[i] = normalQueue[i]
        /\ normalQueue'[Len(normalQueue) + 1] = reply
    BY <2>1, <2>2, <2>3, AppendProperties, LenProperties
  <2>5. \A i \in 1 .. Len(normalQueue') : normalQueue'[i].verdict \notin {"sent", "new"}
    <3>1. \A i \in 1 .. Len(normalQueue) : normalQueue[i].verdict \notin {"sent", "new"}
      BY DEF UniqueInv
    <3>2. QED
      BY <2>3, <2>4, <3>1
  <2>6. QED
    BY <1>1, <1>2, <1>7, <1>8, <1>9, <2>1, <2>5 DEF UniqueInv
<1>11. CASE DrainOversize(e.req)
  <2> DEFINE m == e.req.market
             reply == [req |-> e.req, verdict |-> "oversize"]
  <2>1. /\ marketReplies' = [marketReplies EXCEPT ![m] = Append(marketReplies[m], reply)]
        /\ UNCHANGED <<flowQueue, normalQueue>> /\ m \in Markets
    BY <1>11 DEF DrainOversize, FlowControlled
  <2>2. marketReplies \in [Markets -> Seq(Reply)]
    BY DEF UniqueInv, TypeInv, TypeOK
  <2>3. reply \in Reply /\ reply.verdict \notin {"sent", "new"}
    <3>1. e \in Message
      BY <1>1, HeadTailProperties
    <3>2. QED
      BY <3>1 DEF Reply, Message, Outcomes
  <2> HIDE DEF reply, m
  <2>4. /\ Len(marketReplies'[m]) = Len(marketReplies[m]) + 1 /\ Len(marketReplies[m]) \in Nat
        /\ \A i \in 1 .. Len(marketReplies[m]) : marketReplies'[m][i] = marketReplies[m][i]
        /\ marketReplies'[m][Len(marketReplies[m]) + 1] = reply
        /\ \A k \in Markets \ {m} : marketReplies'[k] = marketReplies[k]
    <3>1. /\ marketReplies'[m] = Append(marketReplies[m], reply)
          /\ \A k \in Markets \ {m} : marketReplies'[k] = marketReplies[k]
      BY <2>1, <2>2
    <3>2. marketReplies[m] \in Seq(Reply)
      BY <2>1, <2>2
    <3>3. Len(marketReplies[m]) \in Nat
      BY <3>2, LenProperties
    <3>4. QED
      BY <2>3, <3>1, <3>2, <3>3, AppendProperties
  <2>5. ASSUME NEW k \in Markets, NEW i \in 1 .. Len(marketReplies'[k])
        PROVE  marketReplies'[k][i].verdict \notin {"sent", "new"}
    <3>1. \A j \in 1 .. Len(marketReplies[k]) : marketReplies[k][j].verdict \notin {"sent", "new"}
      BY DEF UniqueInv
    <3>2. CASE k = m
      <4>1. i \in 1 .. Len(marketReplies[m]) \/ i = Len(marketReplies[m]) + 1
        BY <2>4, <2>5, <3>2
      <4>2. QED
        BY <2>3, <2>4, <3>1, <3>2, <4>1
    <3>3. CASE k # m
      BY <2>4, <2>5, <3>1, <3>3
    <3>4. QED
      BY <3>2, <3>3
  <2>6. QED
    BY <1>1, <1>2, <1>7, <1>8, <1>9, <2>1, <2>5 DEF UniqueInv
<1>12. CASE DrainToFlow(e.req, e.stamp)
  <2> DEFINE m == e.req.market
             item == [req |-> e.req, seq |-> arrivals, stamp |-> e.stamp]
  <2>1. /\ flowQueue' = [flowQueue EXCEPT ![m] = flowQueue[m] \cup {item}]
        /\ UNCHANGED <<marketReplies, normalQueue>> /\ m \in Markets
    BY <1>12 DEF DrainToFlow, FlowControlled
  <2>2. flowQueue \in [Markets -> SUBSET Item] /\ item.req = e.req /\ e.req.market = m
    BY DEF UniqueInv, TypeInv, TypeOK
  <2> HIDE DEF item, m
  <2>3. /\ flowQueue'[m] = flowQueue[m] \cup {item}
        /\ \A k \in Markets \ {m} : flowQueue'[k] = flowQueue[k]
    BY <2>1, <2>2
  <2>4. ASSUME NEW k \in Markets, NEW a \in flowQueue'[k]
        PROVE  /\ a.req.market = k /\ outcome'[a.req] # "new"
               /\ \A i \in 1 .. n - 1 : a.req # brokerQueue'[i].req
               /\ \A b \in flowQueue'[k] : a.req = b.req => a = b
    <3>1. CASE a = item
      <4>1. k = m
        <5>1. CASE a \in flowQueue[k]
          BY <1>5, <2>2, <3>1, <5>1
        <5>2. CASE a \notin flowQueue[k]
          BY <2>3, <2>4, <5>2
        <5>3. QED
          BY <5>1, <5>2
      <4>2. a.req.market = k /\ outcome'[a.req] # "new"
        BY <1>2, <1>6, <2>2, <3>1, <4>1
      <4>3. \A i \in 1 .. n - 1 : a.req # brokerQueue'[i].req
        BY <1>4, <2>2, <3>1
      <4>4. \A b \in flowQueue'[k] : a.req = b.req => a = b
        <5>1. \A b \in flowQueue'[k] : b \in flowQueue[k] \/ b = item
          BY <2>3
        <5>2. QED
          BY <1>5, <2>2, <3>1, <5>1
      <4>5. QED
        BY <4>2, <4>3, <4>4
    <3>2. CASE a # item
      <4>1. a \in flowQueue[k]
        BY <2>3, <2>4, <3>2
      <4>2. \A b \in flowQueue'[k] : b \in flowQueue[k] \/ b = item
        BY <2>3
      <4>3. QED
        BY <1>2, <1>5, <1>9, <2>2, <4>1, <4>2 DEF UniqueInv
    <3>3. QED
      BY <3>1, <3>2
  <2>5. QED
    BY <1>1, <1>2, <1>7, <1>8, <2>1, <2>4 DEF UniqueInv
<1>13. QED
  BY <1>10, <1>11, <1>12 DEF Drain

LEMMA UniqueInvRemove ==
  ASSUME UniqueInv, TypeInv', NEW m \in Markets, NEW a \in flowQueue[m],
         NEW verdict \in Outcomes \ {"new"}, Remove(m, a, verdict), brokerQueue' = brokerQueue
  PROVE  UniqueInv'
<1>1. \A k \in Markets : flowQueue'[k] \subseteq flowQueue[k]
  BY DEF Remove, UniqueInv, TypeInv, TypeOK
<1>2. \A r \in Requests : outcome[r] # "new" => outcome'[r] # "new"
  BY DEF Remove, UniqueInv, TypeInv, TypeOK
<1>3. UNCHANGED <<marketReplies, normalQueue>>
  BY DEF Remove
<1>4. /\ \A i \in 1 .. Len(brokerQueue) : brokerQueue[i].req \in Requests
      /\ \A k \in Markets : \A b \in flowQueue[k] : b.req \in Requests
  <2>1. brokerQueue \in Seq(Message) /\ flowQueue \in [Markets -> SUBSET Item]
    BY DEF UniqueInv, TypeInv, TypeOK
  <2>2. \A i \in 1 .. Len(brokerQueue) : brokerQueue[i].req \in Requests
    <3>1. \A i \in 1 .. Len(brokerQueue) : brokerQueue[i] \in Message
      BY <2>1, ElementOfSeq
    <3>2. QED
      BY <3>1 DEF Message
  <2>3. \A k \in Markets : \A b \in flowQueue[k] : b.req \in Requests
    BY <2>1 DEF Item
  <2>4. QED
    BY <2>2, <2>3
<1>5. QED
  BY <1>1, <1>2, <1>3, <1>4 DEF UniqueInv

LEMMA UniqueInvSubmit ==
  ASSUME UniqueInv, TypeInv', NEW r \in Requests, Submit(r)
  PROVE  UniqueInv'
<1> DEFINE n == Len(brokerQueue)
           e == [req |-> r, stamp |-> now]
<1>1. /\ brokerQueue \in Seq(Message) /\ e \in Message
      /\ brokerQueue' = Append(brokerQueue, e)
      /\ outcome \in [Requests -> Outcomes]
      /\ flowQueue \in [Markets -> SUBSET Item]
  BY DEF UniqueInv, TypeInv, TypeOK, Submit, Message
<1>2. outcome[r] = "new" /\ outcome' = [outcome EXCEPT ![r] = "pending"]
  BY DEF Submit
<1>3. UNCHANGED <<flowQueue, marketReplies, normalQueue>>
  BY DEF Submit
<1>4. /\ n \in Nat /\ Len(brokerQueue') = n + 1
      /\ \A i \in 1 .. n : brokerQueue'[i] = brokerQueue[i]
      /\ brokerQueue'[n + 1] = e /\ e.req = r
  BY <1>1, AppendProperties, LenProperties
<1> HIDE DEF e, n
<1>5. \A i \in 1 .. n : brokerQueue[i].req # r /\ brokerQueue[i].req \in Requests
  <2>1. \A i \in 1 .. n : brokerQueue[i] \in Message
    BY <1>1, ElementOfSeq DEF n
  <2>2. QED
    BY <1>2, <2>1 DEF UniqueInv, Message, n
<1>6. \A k \in Markets : \A a \in flowQueue[k] : a.req # r /\ a.req \in Requests
  BY <1>1, <1>2 DEF UniqueInv, Item
<1>7. \A q \in Requests : outcome[q] # "new" \/ q = r => outcome'[q] # "new"
  BY <1>1, <1>2
<1>8. \A i \in 1 .. n + 1 : i \in 1 .. n \/ i = n + 1
  BY <1>4
<1>9. \A i, j \in 1 .. n + 1 : brokerQueue'[i].req = brokerQueue'[j].req => i = j
  <2>1. \A i, j \in 1 .. n : brokerQueue[i].req = brokerQueue[j].req => i = j
    BY DEF UniqueInv, n
  <2>2. QED
    BY <1>4, <1>5, <1>8, <2>1
<1>10. ASSUME NEW i \in 1 .. n + 1
       PROVE  /\ outcome'[brokerQueue'[i].req] # "new"
              /\ \A m \in Markets : \A a \in flowQueue[m] : a.req # brokerQueue'[i].req
  <2>1. CASE i \in 1 .. n
    BY <1>4, <1>5, <1>7, <2>1 DEF UniqueInv, n
  <2>2. CASE i = n + 1
    BY <1>4, <1>6, <1>7, <2>2
  <2>3. QED
    BY <1>8, <2>1, <2>2
<1>11. \A m \in Markets : \A a \in flowQueue[m] : a.req.market = m /\ outcome'[a.req] # "new"
  BY <1>6, <1>7 DEF UniqueInv
<1>12. QED
  BY <1>3, <1>4, <1>9, <1>10, <1>11 DEF UniqueInv

LEMMA UniqueInvMarketReply ==
  ASSUME UniqueInv, TypeInv', NEW m \in Markets, PopMarketReply(m)
  PROVE  /\ UniqueInv'
         /\ \A q \in Requests : outcome'[q] = outcome[q] \/ outcome'[q] \notin {"sent", "new"}
<1> DEFINE n == Len(marketReplies[m])
           v == Head(marketReplies[m]).verdict
<1>1. /\ brokerQueue \in Seq(Message) /\ marketReplies \in [Markets -> Seq(Reply)]
      /\ flowQueue \in [Markets -> SUBSET Item] /\ outcome \in [Requests -> Outcomes]
  BY DEF UniqueInv, TypeInv, TypeOK
<1>2. /\ UNCHANGED <<brokerQueue, flowQueue, normalQueue>>
      /\ marketReplies[m] # <<>>
      /\ marketReplies' = [marketReplies EXCEPT ![m] = Tail(marketReplies[m])]
      /\ outcome' = [outcome EXCEPT ![Head(marketReplies[m]).req] = v]
  BY DEF PopMarketReply, Turn, Visit
<1>3. /\ n \in Nat \ {0} /\ Head(marketReplies[m]) = marketReplies[m][1]
      /\ Len(marketReplies'[m]) = n - 1
      /\ \A i \in 1 .. n - 1 : marketReplies'[m][i] = marketReplies[m][i + 1]
      /\ \A k \in Markets \ {m} : marketReplies'[k] = marketReplies[k]
  BY <1>1, <1>2, EmptySeq, HeadTailProperties
<1>4. v \notin {"sent", "new"}
  BY <1>3 DEF UniqueInv
<1> HIDE DEF v, n
<1>5. \A q \in Requests : outcome'[q] = outcome[q] \/ outcome'[q] \notin {"sent", "new"}
  BY <1>1, <1>2, <1>4
<1>6. \A q \in Requests : outcome[q] # "new" => outcome'[q] # "new"
  BY <1>5
<1>7. \A i \in 1 .. Len(brokerQueue) : brokerQueue[i].req \in Requests
  <2>1. \A i \in 1 .. Len(brokerQueue) : brokerQueue[i] \in Message
    BY <1>1, ElementOfSeq
  <2>2. QED
    BY <2>1 DEF Message
<1>8. \A k \in Markets : \A b \in flowQueue[k] : b.req \in Requests
  BY <1>1 DEF Item
<1>9. ASSUME NEW k \in Markets, NEW i \in 1 .. Len(marketReplies'[k])
      PROVE  marketReplies'[k][i].verdict \notin {"sent", "new"}
  <2>1. \A j \in 1 .. Len(marketReplies[k]) : marketReplies[k][j].verdict \notin {"sent", "new"}
    BY DEF UniqueInv
  <2>2. CASE k = m
    <3>1. i \in 1 .. n - 1 /\ i + 1 \in 1 .. Len(marketReplies[k])
      BY <1>3, <1>9, <2>2 DEF n
    <3>2. QED
      BY <1>3, <2>1, <2>2, <3>1
  <2>3. CASE k # m
    BY <1>3, <1>9, <2>1, <2>3
  <2>4. QED
    BY <2>2, <2>3
<1>10. QED
  BY <1>2, <1>5, <1>6, <1>7, <1>8, <1>9 DEF UniqueInv

LEMMA UniqueInvNormal ==
  ASSUME UniqueInv, TypeInv', PopNormal
  PROVE  /\ UniqueInv'
         /\ \A q \in Requests : outcome'[q] = outcome[q] \/ outcome'[q] \notin {"sent", "new"}
<1> DEFINE n == Len(normalQueue)
           v == Head(normalQueue).verdict
<1>1. /\ brokerQueue \in Seq(Message) /\ normalQueue \in Seq(Reply)
      /\ flowQueue \in [Markets -> SUBSET Item] /\ outcome \in [Requests -> Outcomes]
  BY DEF UniqueInv, TypeInv, TypeOK
<1>2. /\ UNCHANGED <<brokerQueue, flowQueue, marketReplies>>
      /\ normalQueue # <<>> /\ normalQueue' = Tail(normalQueue)
      /\ outcome' = [outcome EXCEPT ![Head(normalQueue).req] = v]
  BY DEF PopNormal, Visit
<1>3. /\ n \in Nat \ {0} /\ Head(normalQueue) = normalQueue[1]
      /\ Len(normalQueue') = n - 1
      /\ \A i \in 1 .. n - 1 : normalQueue'[i] = normalQueue[i + 1]
  BY <1>1, <1>2, EmptySeq, HeadTailProperties
<1>4. v \notin {"sent", "new"}
  BY <1>3 DEF UniqueInv
<1> HIDE DEF v
<1>5. \A q \in Requests : outcome'[q] = outcome[q] \/ outcome'[q] \notin {"sent", "new"}
  BY <1>1, <1>2, <1>4
<1>6. \A q \in Requests : outcome[q] # "new" => outcome'[q] # "new"
  BY <1>5
<1>7. \A i \in 1 .. Len(brokerQueue) : brokerQueue[i].req \in Requests
  <2>1. \A i \in 1 .. Len(brokerQueue) : brokerQueue[i] \in Message
    BY <1>1, ElementOfSeq
  <2>2. QED
    BY <2>1 DEF Message
<1>8. \A k \in Markets : \A b \in flowQueue[k] : b.req \in Requests
  BY <1>1 DEF Item
<1>9. \A i \in 1 .. Len(normalQueue') : normalQueue'[i].verdict \notin {"sent", "new"}
  <2>1. \A i \in 1 .. n - 1 : i + 1 \in 1 .. n
    BY <1>3
  <2>2. QED
    BY <1>3, <2>1 DEF UniqueInv
<1>10. QED
  BY <1>2, <1>5, <1>6, <1>7, <1>8, <1>9 DEF UniqueInv

\* What each step does to the places a request can be in.
LEMMA UniqueFrame ==
  ASSUME [Next]_vars
  PROVE  \/ Crash \/ Drain \/ PopNormal
         \/ \E r \in Requests : Submit(r)
         \/ \E m \in Markets : PopMarketReply(m)
         \/ \E m \in Markets : \E a \in flowQueue[m] :
              /\ brokerQueue' = brokerQueue
              /\ \/ Remove(m, a, "timeout") \/ Remove(m, a, "daily")
                 \/ IsFront(m, a) /\ Remove(m, a, "sent")
         \/ UNCHANGED <<brokerQueue, flowQueue, marketReplies, normalQueue, outcome>>
<1>1. ASSUME NEW m \in Markets,
             PopTimeout(m) \/ PopBeyondDaily(m) \/ PopSend(m) \/ PopBackTimeout(m)
      PROVE  \E a \in flowQueue[m] :
               /\ brokerQueue' = brokerQueue
               /\ \/ Remove(m, a, "timeout") \/ Remove(m, a, "daily")
                  \/ IsFront(m, a) /\ Remove(m, a, "sent")
  BY <1>1 DEF PopTimeout, PopBeyondDaily, PopSend, PopBackTimeout, Turn, Visit
<1>2. ASSUME NEW m \in Markets, PopWarning(m)
      PROVE  UNCHANGED <<brokerQueue, flowQueue, marketReplies, normalQueue, outcome>>
  BY <1>2 DEF PopWarning, queueVars
<1>3. ASSUME Tick \/ NewDay \/ Start \/ PopNothing \/ UNCHANGED vars
      PROVE  UNCHANGED <<brokerQueue, flowQueue, marketReplies, normalQueue, outcome>>
  BY <1>3 DEF Tick, NewDay, Start, PopNothing, Visit, vars, queueVars
<1>4. QED
  BY <1>1, <1>2, <1>3 DEF Next, TryPop

LEMMA UniqueInvStep == UniqueInv /\ [Next]_vars => UniqueInv'
<1>1. SUFFICES ASSUME UniqueInv, [Next]_vars PROVE UniqueInv'
  OBVIOUS
<1>2. TypeInv /\ TypeInv'
  BY <1>1, TypeInvStep DEF UniqueInv
<1>3. CASE UNCHANGED <<brokerQueue, flowQueue, marketReplies, normalQueue, outcome>>
  BY <1>1, <1>2, <1>3 DEF UniqueInv
<1>4. CASE Crash
  <2>1. /\ Len(brokerQueue') = 0 /\ Len(normalQueue') = 0
        /\ \A m \in Markets : flowQueue'[m] = {} /\ Len(marketReplies'[m]) = 0
    BY <1>4 DEF Crash
  <2>2. QED
    BY <1>2, <2>1 DEF UniqueInv
<1>5. ASSUME NEW m \in Markets, NEW a \in flowQueue[m], brokerQueue' = brokerQueue,
             Remove(m, a, "timeout") \/ Remove(m, a, "daily") \/ Remove(m, a, "sent")
      PROVE  UniqueInv'
  <2>1. {"timeout", "daily", "sent"} \subseteq Outcomes \ {"new"}
    BY DEF Outcomes
  <2>2. QED
    BY <1>1, <1>2, <1>5, <2>1, UniqueInvRemove
<1>6. QED
  BY <1>1, <1>2, <1>3, <1>4, <1>5, UniqueFrame, UniqueInvDrain, UniqueInvSubmit,
     UniqueInvMarketReply, UniqueInvNormal

LEMMA SendIsFront ==
  ASSUME UniqueInv, [Next]_vars, NEW m \in Markets, NEW a \in flowQueue[m], JustSent(a.req)
  PROVE  IsFront(m, a)
<1>1. TypeInv /\ TypeInv'
  BY TypeInvStep DEF UniqueInv
<1>2. /\ outcome \in [Requests -> Outcomes]
      /\ \A k \in Markets : \A c \in flowQueue[k] : c.req \in Requests
  <2>1. outcome \in [Requests -> Outcomes] /\ flowQueue \in [Markets -> SUBSET Item]
    BY DEF UniqueInv, TypeInv, TypeOK
  <2>2. QED
    BY <2>1 DEF Item
<1>3. outcome[a.req] = "pending" /\ outcome'[a.req] = "sent"
  BY DEF JustSent
<1>4. ~ Crash /\ ~ Drain /\ ~ UNCHANGED outcome
  BY <1>2, <1>3 DEF Crash, Drain
<1>5. ~ \E r \in Requests : Submit(r)
  BY <1>2, <1>3 DEF Submit
<1>6. ~ PopNormal /\ ~ \E k \in Markets : PopMarketReply(k)
  BY <1>1, <1>2, <1>3, UniqueInvNormal, UniqueInvMarketReply
<1>7. PICK k \in Markets : \E c \in flowQueue[k] :
        \/ Remove(k, c, "timeout") \/ Remove(k, c, "daily")
        \/ IsFront(k, c) /\ Remove(k, c, "sent")
  BY <1>4, <1>5, <1>6, UniqueFrame
<1>8. PICK c \in flowQueue[k] :
        \/ Remove(k, c, "timeout") \/ Remove(k, c, "daily")
        \/ IsFront(k, c) /\ Remove(k, c, "sent")
  BY <1>7
<1>9. ~ Remove(k, c, "timeout") /\ ~ Remove(k, c, "daily")
  BY <1>2, <1>3 DEF Remove
<1>10. IsFront(k, c) /\ a.req = c.req
  BY <1>2, <1>3, <1>8, <1>9 DEF Remove
<1>11. k = m /\ a = c
  BY <1>10 DEF UniqueInv
<1>12. QED
  BY <1>10, <1>11

\* Withdrawals before create/redeem before other orders, larger orders first,
\* whatever is queued meanwhile, as long as no amount reaches kItemMultiple.
THEOREM FlowPriorityRespected ==
  ASSUME \A r \in Requests : r.amount < Multiple
  PROVE  Spec => PriorityRespected
<1>1. Init => UniqueInv
  <2>1. SUFFICES ASSUME Init PROVE UniqueInv
    OBVIOUS
  <2>2. /\ Len(brokerQueue) = 0 /\ Len(normalQueue) = 0
        /\ \A m \in Markets : flowQueue[m] = {} /\ Len(marketReplies[m]) = 0
    BY <2>1 DEF Init
  <2>3. QED
    BY <2>1, <2>2, TypeInvInit DEF UniqueInv
<1>2. UniqueInv /\ [Next]_vars => UniqueInv'
  BY UniqueInvStep
<1> DEFINE A == \A m \in Markets : \A a, b \in flowQueue[m] :
                  JustSent(a.req) => SendOrder(a, b)
<1>3. UniqueInv /\ [Next]_vars => A
  <2>1. SUFFICES ASSUME UniqueInv, [Next]_vars, NEW m \in Markets, NEW a \in flowQueue[m],
                        NEW b \in flowQueue[m], JustSent(a.req)
                 PROVE  SendOrder(a, b)
    OBVIOUS
  <2>2. a \in Item /\ b \in Item
    BY <2>1 DEF UniqueInv, TypeInv, TypeOK
  <2>3. /\ a.req \in Requests /\ b.req \in Requests /\ a.seq \in Nat /\ b.seq \in Nat
        /\ a.req \in RequestType /\ b.req \in RequestType
    BY <2>2, FlowControlAssumption DEF Item
  <2>4. CASE a = b
    BY <2>3, <2>4 DEF SendOrder
  <2>5. CASE a # b
    <3>1. Before(a, b)
      BY <2>1, <2>5, SendIsFront DEF IsFront
    <3>2. QED
      BY <2>3, <3>1, KeyIsLexicographic
  <2>6. QED
    BY <2>4, <2>5
<1>4. QED
  BY <1>1, <1>2, <1>3, PTL DEF Spec, PriorityRespected

-----------------------------------------------------------------------------
(* One place for each request. *)

\* The requests of a queue, and that none is in it twice.
In(s) == {s[i].req : i \in 1 .. Len(s)}
Simple(s) == \A i, j \in 1 .. Len(s) : s[i].req = s[j].req => i = j

\* What Append and Tail do to that.
LEMMA AppendIn ==
  ASSUME NEW S, NEW s \in Seq(S), NEW e \in S
  PROVE  /\ In(Append(s, e)) = In(s) \cup {e.req}
         /\ Simple(s) /\ e.req \notin In(s) => Simple(Append(s, e))
<1> DEFINE n == Len(s)
           t == Append(s, e)
<1>1. /\ n \in Nat /\ Len(t) = n + 1 /\ t[n + 1] = e
      /\ \A i \in 1 .. n : t[i] = s[i]
  BY AppendProperties, LenProperties
<1> HIDE DEF t, n
<1>2. \A i : i \in 1 .. n + 1 <=> i \in 1 .. n \/ i = n + 1
  BY <1>1
<1>3. In(t) = {t[i].req : i \in 1 .. n + 1} /\ In(s) = {s[i].req : i \in 1 .. n}
  BY <1>1 DEF In, n
<1>4. In(t) = In(s) \cup {e.req}
  BY <1>1, <1>2, <1>3
<1>5. ASSUME Simple(s), e.req \notin In(s), NEW i \in 1 .. n + 1, NEW j \in 1 .. n + 1,
             t[i].req = t[j].req
      PROVE  i = j
  <2>1. \A k \in 1 .. n : s[k].req # e.req
    BY <1>3, <1>5
  <2>2. CASE i \in 1 .. n /\ j \in 1 .. n
    BY <1>1, <1>5, <2>2 DEF Simple, n
  <2>3. CASE i = n + 1 /\ j \in 1 .. n
    BY <1>1, <1>5, <2>1, <2>3
  <2>4. CASE i \in 1 .. n /\ j = n + 1
    BY <1>1, <1>5, <2>1, <2>4
  <2>5. QED
    BY <1>2, <2>2, <2>3, <2>4
<1>6. Simple(s) /\ e.req \notin In(s) => Simple(t)
  BY <1>1, <1>5 DEF Simple
<1>7. QED
  BY <1>4, <1>6 DEF t

\* What is left once the head has gone.
LEMMA TailIn ==
  ASSUME NEW S, NEW s \in Seq(S), s # <<>>, Simple(s)
  PROVE  /\ Head(s) \in S /\ Head(s).req \in In(s)
         /\ In(Tail(s)) = In(s) \ {Head(s).req} /\ Simple(Tail(s))
         /\ \E i \in 1 .. Len(s) : Head(s) = s[i]
<1> DEFINE n == Len(s)
           t == Tail(s)
<1>1. /\ n \in Nat \ {0} /\ Len(t) = n - 1 /\ Head(s) = s[1] /\ Head(s) \in S
      /\ \A i \in 1 .. n - 1 : t[i] = s[i + 1]
  BY EmptySeq, HeadTailProperties
<1> HIDE DEF t
<1>2. 1 \in 1 .. n /\ \A i \in 1 .. n - 1 : i + 1 \in 1 .. n /\ i + 1 # 1
  BY <1>1
<1>3. In(t) \subseteq In(s) \ {Head(s).req}
  <2>1. SUFFICES ASSUME NEW i \in 1 .. n - 1 PROVE t[i].req \in In(s) /\ t[i].req # s[1].req
    BY <1>1 DEF In
  <2>2. t[i] = s[i + 1] /\ i + 1 \in 1 .. n /\ i + 1 # 1
    BY <1>1, <1>2
  <2>3. QED
    BY <1>2, <2>2 DEF In, Simple
<1>4. In(s) \ {Head(s).req} \subseteq In(t)
  <2>1. SUFFICES ASSUME NEW i \in 1 .. n, s[i].req # s[1].req PROVE s[i].req \in In(t)
    BY <1>1 DEF In
  <2>2. i - 1 \in 1 .. n - 1 /\ (i - 1) + 1 = i
    BY <1>1, <2>1
  <2>3. t[i - 1] = s[i]
    BY <1>1, <2>2
  <2>4. QED
    BY <1>1, <2>2, <2>3 DEF In
<1>5. Simple(t)
  <2>1. SUFFICES ASSUME NEW i \in 1 .. n - 1, NEW j \in 1 .. n - 1, t[i].req = t[j].req
                 PROVE  i = j
    BY <1>1 DEF Simple
  <2>2. i + 1 = j + 1
    BY <1>1, <1>2, <2>1 DEF Simple
  <2>3. QED
    BY <2>2
<1>6. QED
  BY <1>1, <1>2, <1>3, <1>4, <1>5 DEF In, t

InFlow(r) == \E m \in Markets : \E a \in flowQueue[m] : a.req = r
InReply(r) == \E m \in Markets : r \in In(marketReplies[m])
InBroker(r) == r \in In(brokerQueue)
InNormal(r) == r \in In(normalQueue)
Somewhere(r) == InBroker(r) \/ InNormal(r) \/ InFlow(r) \/ InReply(r)

\* A request is in one queue at most, and in one while it is pending.
OnePlace(r) ==
  /\ InBroker(r) => ~InNormal(r) /\ ~InFlow(r) /\ ~InReply(r)
  /\ InNormal(r) => ~InFlow(r) /\ ~InReply(r)
  /\ InFlow(r) => ~InReply(r)
  /\ outcome[r] = "pending" <=> Somewhere(r)

OnceInv ==
  /\ UniqueInv
  /\ Simple(brokerQueue) /\ Simple(normalQueue)
  /\ \A m \in Markets : Simple(marketReplies[m])
  /\ \A m \in Markets : \A r \in In(marketReplies[m]) : r.market = m
  /\ \A r \in Requests : OnePlace(r)
  /\ \A i \in 1 .. Len(normalQueue) : normalQueue[i].verdict # "pending"
  /\ \A m \in Markets : \A i \in 1 .. Len(marketReplies[m]) :
       marketReplies[m][i].verdict # "pending"

\* Types of what the queues hold.
LEMMA OnceTypes ==
  ASSUME TypeInv
  PROVE  /\ brokerQueue \in Seq(Message) /\ normalQueue \in Seq(Reply)
         /\ marketReplies \in [Markets -> Seq(Reply)]
         /\ flowQueue \in [Markets -> SUBSET Item]
         /\ outcome \in [Requests -> Outcomes]
  BY DEF TypeInv, TypeOK

\* Moving a request from one queue to another, or out of all of them, where all
\* other requests stay where they are.
LEMMA OnePlaceKept ==
  ASSUME NEW r \in Requests, OnePlace(r),
         InBroker(r)' = InBroker(r), InNormal(r)' = InNormal(r),
         InFlow(r)' = InFlow(r), InReply(r)' = InReply(r), outcome'[r] = outcome[r]
  PROVE  OnePlace(r)'
  BY DEF OnePlace, Somewhere

\* A push puts a request that was nowhere behind the others (flow_control.cc:312).
LEMMA OnceSubmit ==
  ASSUME OnceInv, UniqueInv', NEW q \in Requests, Submit(q)
  PROVE  OnceInv'
<1> DEFINE e == [req |-> q, stamp |-> now]
<1>1. brokerQueue \in Seq(Message) /\ outcome \in [Requests -> Outcomes] /\ e \in Message
  BY OnceTypes DEF OnceInv, UniqueInv, TypeInv, TypeOK, Message
<1>2. /\ brokerQueue' = Append(brokerQueue, e) /\ e.req = q
      /\ UNCHANGED <<flowQueue, marketReplies, normalQueue>>
      /\ outcome[q] = "new" /\ outcome' = [outcome EXCEPT ![q] = "pending"]
  BY DEF Submit
<1> HIDE DEF e
<1>3. ~Somewhere(q) /\ OnePlace(q)
  BY <1>2 DEF OnceInv, OnePlace
<1>4. In(brokerQueue') = In(brokerQueue) \cup {q} /\ Simple(brokerQueue')
  BY <1>1, <1>2, <1>3, AppendIn DEF OnceInv, Somewhere, InBroker
<1>5. OnePlace(q)'
  <2>1. InBroker(q)' /\ ~InNormal(q)' /\ ~InFlow(q)' /\ ~InReply(q)'
    BY <1>2, <1>3, <1>4 DEF Somewhere, InBroker, InNormal, InFlow, InReply
  <2>2. outcome'[q] = "pending"
    BY <1>1, <1>2
  <2>3. QED
    BY <2>1, <2>2 DEF OnePlace, Somewhere
<1>6. ASSUME NEW r \in Requests, r # q PROVE OnePlace(r)'
  <2>1. /\ InBroker(r)' = InBroker(r) /\ InNormal(r)' = InNormal(r)
        /\ InFlow(r)' = InFlow(r) /\ InReply(r)' = InReply(r) /\ outcome'[r] = outcome[r]
    BY <1>1, <1>2, <1>4, <1>6 DEF InBroker, InNormal, InFlow, InReply
  <2>2. QED
    BY <2>1, OnePlaceKept DEF OnceInv
<1>7. QED
  BY <1>2, <1>4, <1>5, <1>6 DEF OnceInv

\* The drain moves a request from the broker queue to one of the others
\* (flow_control.cc:318-369).
LEMMA OnceDrain ==
  ASSUME OnceInv, UniqueInv', Drain
  PROVE  OnceInv'
<1> DEFINE e == Head(brokerQueue)
<1>0. /\ brokerQueue \in Seq(Message) /\ normalQueue \in Seq(Reply)
      /\ marketReplies \in [Markets -> Seq(Reply)]
      /\ flowQueue \in [Markets -> SUBSET Item] /\ outcome \in [Requests -> Outcomes]
  BY OnceTypes DEF OnceInv, UniqueInv
<1>1. /\ brokerQueue # <<>> /\ brokerQueue' = Tail(brokerQueue) /\ outcome' = outcome
      /\ DrainNormal(e.req) \/ DrainOversize(e.req) \/ DrainToFlow(e.req, e.stamp)
  BY DEF Drain
<1>2. /\ e \in Message /\ e.req \in In(brokerQueue)
      /\ In(brokerQueue') = In(brokerQueue) \ {e.req} /\ Simple(brokerQueue')
  BY <1>0, <1>1, TailIn DEF OnceInv
<1> HIDE DEF e
<1>3. PICK q \in Requests : q = e.req
  BY <1>2 DEF Message
<1>4. /\ OnePlace(q) /\ outcome[q] = "pending"
      /\ ~InNormal(q) /\ ~InFlow(q) /\ ~InReply(q)
  BY <1>2, <1>3 DEF OnceInv, OnePlace, Somewhere, InBroker
<1>5. \A r \in Requests : r # q => InBroker(r)' = InBroker(r)
  BY <1>2, <1>3 DEF InBroker
<1>6. ~InBroker(q)'
  BY <1>2, <1>3 DEF InBroker
<1>7. CASE DrainNormal(e.req)
  <2> DEFINE x == [req |-> e.req, verdict |-> IF Refused(e.req) THEN "refused" ELSE "passed"]
  <2>1. normalQueue' = Append(normalQueue, x) /\ UNCHANGED <<flowQueue, marketReplies>>
    BY <1>7 DEF DrainNormal
  <2>2. x \in Reply /\ x.req = q /\ x.verdict # "pending"
    BY <1>3 DEF Reply, Outcomes
  <2> HIDE DEF x
  <2>3. In(normalQueue') = In(normalQueue) \cup {q} /\ Simple(normalQueue')
    BY <1>0, <1>4, <2>1, <2>2, AppendIn DEF OnceInv, InNormal
  <2>4. \A i \in 1 .. Len(normalQueue') : normalQueue'[i].verdict # "pending"
    <3>1. /\ Len(normalQueue') = Len(normalQueue) + 1 /\ Len(normalQueue) \in Nat
          /\ \A i \in 1 .. Len(normalQueue) : normalQueue'[i] = normalQueue[i]
          /\ normalQueue'[Len(normalQueue) + 1] = x
      BY <1>0, <2>1, <2>2, AppendProperties, LenProperties
    <3>2. \A i \in 1 .. Len(normalQueue') : i \in 1 .. Len(normalQueue) \/ i = Len(normalQueue) + 1
      BY <3>1
    <3>3. QED
      BY <2>2, <3>1, <3>2 DEF OnceInv
  <2>5. ASSUME NEW r \in Requests PROVE OnePlace(r)'
    <3>1. InFlow(r)' = InFlow(r) /\ InReply(r)' = InReply(r) /\ outcome'[r] = outcome[r]
      BY <1>1, <2>1 DEF InFlow, InReply
    <3>2. CASE r = q
      <4>1. InNormal(q)'
        BY <2>3 DEF InNormal
      <4>2. QED
        BY <1>4, <1>6, <3>1, <3>2, <4>1 DEF OnePlace, Somewhere
    <3>3. CASE r # q
      <4>1. InNormal(r)' = InNormal(r)
        BY <2>3, <3>3 DEF InNormal
      <4>2. QED
        BY <1>5, <3>1, <3>3, <4>1, OnePlaceKept DEF OnceInv
    <3>4. QED
      BY <3>2, <3>3
  <2>6. QED
    BY <1>2, <2>1, <2>3, <2>4, <2>5 DEF OnceInv
<1>8. CASE DrainOversize(e.req)
  <2> DEFINE m == e.req.market
             x == [req |-> e.req, verdict |-> "oversize"]
  <2>1. /\ marketReplies' = [marketReplies EXCEPT ![m] = Append(marketReplies[m], x)]
        /\ UNCHANGED <<flowQueue, normalQueue>> /\ m \in Markets
    BY <1>8 DEF DrainOversize, FlowControlled
  <2>2. x \in Reply /\ x.req = q /\ x.verdict # "pending" /\ q.market = m
    BY <1>3 DEF Reply, Outcomes
  <2> HIDE DEF x, m
  <2>3. /\ marketReplies'[m] = Append(marketReplies[m], x) /\ marketReplies[m] \in Seq(Reply)
        /\ \A k \in Markets \ {m} : marketReplies'[k] = marketReplies[k]
    BY <1>0, <2>1
  <2>4. q \notin In(marketReplies[m])
    BY <1>4, <2>1 DEF InReply
  <2>5. In(marketReplies'[m]) = In(marketReplies[m]) \cup {q} /\ Simple(marketReplies'[m])
    <3>1. Simple(marketReplies[m])
      BY <2>1 DEF OnceInv
    <3>2. QED
      BY <2>2, <2>3, <2>4, <3>1, AppendIn
  <2>6. \A k \in Markets : /\ Simple(marketReplies'[k])
                           /\ \A r \in In(marketReplies'[k]) : r.market = k
    BY <2>1, <2>2, <2>3, <2>5 DEF OnceInv
  <2>7. ASSUME NEW k \in Markets, NEW i \in 1 .. Len(marketReplies'[k])
        PROVE  marketReplies'[k][i].verdict # "pending"
    <3>1. \A j \in 1 .. Len(marketReplies[k]) : marketReplies[k][j].verdict # "pending"
      BY DEF OnceInv
    <3>2. CASE k = m
      <4> DEFINE n == Len(marketReplies[m])
      <4>1. /\ Len(marketReplies'[m]) = n + 1 /\ n \in Nat
            /\ \A j \in 1 .. n : marketReplies'[m][j] = marketReplies[m][j]
            /\ marketReplies'[m][n + 1] = x
        BY <2>2, <2>3, AppendProperties, LenProperties
      <4>2. i \in 1 .. n \/ i = n + 1
        BY <2>7, <3>2, <4>1
      <4>3. QED
        BY <2>2, <3>1, <3>2, <4>1, <4>2
    <3>3. CASE k # m
      BY <2>3, <2>7, <3>1, <3>3
    <3>4. QED
      BY <3>2, <3>3
  <2>8. ASSUME NEW r \in Requests PROVE OnePlace(r)'
    <3>1. InFlow(r)' = InFlow(r) /\ InNormal(r)' = InNormal(r) /\ outcome'[r] = outcome[r]
      BY <1>1, <2>1 DEF InFlow, InNormal
    <3>2. CASE r = q
      <4>1. InReply(q)'
        BY <2>1, <2>5 DEF InReply
      <4>2. QED
        BY <1>4, <1>6, <3>1, <3>2, <4>1 DEF OnePlace, Somewhere
    <3>3. CASE r # q
      <4>1. \A k \in Markets : r \in In(marketReplies'[k]) <=> r \in In(marketReplies[k])
        BY <2>3, <2>5, <3>3
      <4>2. InReply(r)' = InReply(r)
        BY <4>1 DEF InReply
      <4>3. QED
        BY <1>5, <3>1, <3>3, <4>2, OnePlaceKept DEF OnceInv
    <3>4. QED
      BY <3>2, <3>3
  <2>9. QED
    BY <1>2, <2>1, <2>6, <2>7, <2>8 DEF OnceInv
<1>9. CASE DrainToFlow(e.req, e.stamp)
  <2> DEFINE m == e.req.market
             x == [req |-> e.req, seq |-> arrivals, stamp |-> e.stamp]
  <2>1. /\ flowQueue' = [flowQueue EXCEPT ![m] = flowQueue[m] \cup {x}]
        /\ UNCHANGED <<marketReplies, normalQueue>> /\ m \in Markets /\ x.req = q
    BY <1>3, <1>9 DEF DrainToFlow, FlowControlled
  <2> HIDE DEF x, m
  <2>2. /\ flowQueue'[m] = flowQueue[m] \cup {x}
        /\ \A k \in Markets \ {m} : flowQueue'[k] = flowQueue[k]
    BY <1>0, <2>1
  <2>3. ASSUME NEW r \in Requests PROVE OnePlace(r)'
    <3>1. InReply(r)' = InReply(r) /\ InNormal(r)' = InNormal(r) /\ outcome'[r] = outcome[r]
      BY <1>1, <2>1 DEF InReply, InNormal
    <3>2. CASE r = q
      <4>1. InFlow(q)'
        BY <2>1, <2>2 DEF InFlow
      <4>2. QED
        BY <1>4, <1>6, <3>1, <3>2, <4>1 DEF OnePlace, Somewhere
    <3>3. CASE r # q
      <4>1. \A k \in Markets : (\E a \in flowQueue'[k] : a.req = r) <=>
                               (\E a \in flowQueue[k] : a.req = r)
        BY <2>1, <2>2, <3>3
      <4>2. InFlow(r)' = InFlow(r)
        BY <4>1 DEF InFlow
      <4>3. QED
        BY <1>5, <3>1, <3>3, <4>2, OnePlaceKept DEF OnceInv
    <3>4. QED
      BY <3>2, <3>3
  <2>4. QED
    BY <1>2, <2>1, <2>3 DEF OnceInv
<1>10. QED
  BY <1>1, <1>7, <1>8, <1>9

\* An item taken from a flow control queue is answered.
LEMMA OnceRemove ==
  ASSUME OnceInv, UniqueInv', NEW m \in Markets, NEW a \in flowQueue[m],
         NEW verdict \in Outcomes \ {"new", "pending"}, Remove(m, a, verdict),
         brokerQueue' = brokerQueue
  PROVE  OnceInv'
<1>1. flowQueue \in [Markets -> SUBSET Item] /\ outcome \in [Requests -> Outcomes]
  BY OnceTypes DEF OnceInv, UniqueInv
<1>2. PICK q \in Requests : q = a.req
  BY <1>1 DEF Item
<1>3. /\ flowQueue' = [flowQueue EXCEPT ![m] = flowQueue[m] \ {a}]
      /\ outcome' = [outcome EXCEPT ![q] = verdict]
      /\ UNCHANGED <<marketReplies, normalQueue>>
  BY <1>2 DEF Remove
<1>4. /\ flowQueue'[m] = flowQueue[m] \ {a}
      /\ \A k \in Markets \ {m} : flowQueue'[k] = flowQueue[k]
      /\ outcome'[q] # "pending" /\ \A r \in Requests \ {q} : outcome'[r] = outcome[r]
  BY <1>1, <1>3
<1>5. \A k \in Markets : \A b \in flowQueue[k] : b.req = q => k = m /\ b = a
  BY <1>2 DEF OnceInv, UniqueInv
<1>6. ASSUME NEW r \in Requests PROVE OnePlace(r)'
  <2>1. InBroker(r)' = InBroker(r) /\ InNormal(r)' = InNormal(r) /\ InReply(r)' = InReply(r)
    BY <1>3 DEF InBroker, InNormal, InReply
  <2>2. CASE r = q
    <3>1. InFlow(q) /\ ~InFlow(q)'
      BY <1>2, <1>4, <1>5 DEF InFlow
    <3>2. OnePlace(q)
      BY DEF OnceInv
    <3>3. QED
      BY <1>4, <2>1, <2>2, <3>1, <3>2 DEF OnePlace, Somewhere
  <2>3. CASE r # q
    <3>1. \A k \in Markets : (\E b \in flowQueue'[k] : b.req = r) <=>
                             (\E b \in flowQueue[k] : b.req = r)
      BY <1>2, <1>4, <2>3
    <3>2. InFlow(r)' = InFlow(r)
      BY <3>1 DEF InFlow
    <3>3. QED
      BY <1>4, <2>1, <2>3, <3>2, OnePlaceKept DEF OnceInv
  <2>4. QED
    BY <2>2, <2>3
<1>7. QED
  BY <1>3, <1>6 DEF OnceInv

\* So is the request of an error reply.
LEMMA OnceMarketReply ==
  ASSUME OnceInv, UniqueInv', NEW m \in Markets, PopMarketReply(m)
  PROVE  OnceInv'
<1> DEFINE e == Head(marketReplies[m])
<1>1. marketReplies \in [Markets -> Seq(Reply)] /\ outcome \in [Requests -> Outcomes]
  BY OnceTypes DEF OnceInv, UniqueInv
<1>2. /\ marketReplies[m] # <<>>
      /\ marketReplies' = [marketReplies EXCEPT ![m] = Tail(marketReplies[m])]
      /\ outcome' = [outcome EXCEPT ![e.req] = e.verdict]
      /\ UNCHANGED <<brokerQueue, flowQueue, normalQueue>>
  BY DEF PopMarketReply, Turn, Visit
<1>3. /\ marketReplies'[m] = Tail(marketReplies[m])
      /\ \A k \in Markets \ {m} : marketReplies'[k] = marketReplies[k]
      /\ marketReplies[m] \in Seq(Reply) /\ Simple(marketReplies[m])
  BY <1>1, <1>2 DEF OnceInv
<1>4. /\ e \in Reply /\ e.req \in In(marketReplies[m])
      /\ In(marketReplies'[m]) = In(marketReplies[m]) \ {e.req} /\ Simple(marketReplies'[m])
      /\ \E i \in 1 .. Len(marketReplies[m]) : e = marketReplies[m][i]
  BY <1>2, <1>3, TailIn
<1>5. e.verdict # "pending"
  BY <1>4 DEF OnceInv
<1> HIDE DEF e
<1>6. PICK q \in Requests : q = e.req
  BY <1>4 DEF Reply
<1>7. outcome'[q] # "pending" /\ \A r \in Requests \ {q} : outcome'[r] = outcome[r]
  BY <1>1, <1>2, <1>5, <1>6
<1>8. InReply(q) /\ q.market = m
  BY <1>4, <1>6 DEF InReply, OnceInv
<1>9. \A k \in Markets : q \notin In(marketReplies'[k])
  BY <1>3, <1>4, <1>6, <1>8 DEF OnceInv
<1>10. ASSUME NEW r \in Requests PROVE OnePlace(r)'
  <2>1. InBroker(r)' = InBroker(r) /\ InNormal(r)' = InNormal(r) /\ InFlow(r)' = InFlow(r)
    BY <1>2 DEF InBroker, InNormal, InFlow
  <2>2. CASE r = q
    <3>1. ~InReply(q)'
      BY <1>9 DEF InReply
    <3>2. OnePlace(q)
      BY DEF OnceInv
    <3>3. QED
      BY <1>7, <1>8, <2>1, <2>2, <3>1, <3>2 DEF OnePlace, Somewhere
  <2>3. CASE r # q
    <3>1. \A k \in Markets : r \in In(marketReplies'[k]) <=> r \in In(marketReplies[k])
      BY <1>3, <1>4, <1>6, <2>3
    <3>2. InReply(r)' = InReply(r)
      BY <3>1 DEF InReply
    <3>3. QED
      BY <1>7, <2>1, <2>3, <3>2, OnePlaceKept DEF OnceInv
  <2>4. QED
    BY <2>2, <2>3
<1>11. \A k \in Markets : /\ Simple(marketReplies'[k])
                          /\ \A r \in In(marketReplies'[k]) : r.market = k
  BY <1>3, <1>4 DEF OnceInv
<1>12. ASSUME NEW k \in Markets, NEW i \in 1 .. Len(marketReplies'[k])
       PROVE  marketReplies'[k][i].verdict # "pending"
  <2>1. \A j \in 1 .. Len(marketReplies[k]) : marketReplies[k][j].verdict # "pending"
    BY DEF OnceInv
  <2>2. CASE k = m
    <3>1. /\ Len(marketReplies[m]) \in Nat \ {0}
          /\ Len(Tail(marketReplies[m])) = Len(marketReplies[m]) - 1
          /\ \A j \in 1 .. Len(marketReplies[m]) - 1 :
               Tail(marketReplies[m])[j] = marketReplies[m][j + 1]
      BY <1>2, <1>3, EmptySeq, HeadTailProperties
    <3>2. i \in 1 .. Len(marketReplies[m]) - 1
      BY <1>3, <1>12, <2>2, <3>1
    <3>3. marketReplies'[k][i] = marketReplies[k][i + 1]
      BY <1>3, <2>2, <3>1, <3>2
    <3>4. i + 1 \in 1 .. Len(marketReplies[k])
      BY <2>2, <3>1, <3>2
    <3>5. QED
      BY <2>1, <3>3, <3>4
  <2>3. CASE k # m
    BY <1>3, <1>12, <2>1, <2>3
  <2>4. QED
    BY <2>2, <2>3
<1>13. QED
  BY <1>2, <1>10, <1>11, <1>12 DEF OnceInv

\* And one that no market controls.
LEMMA OnceNormal ==
  ASSUME OnceInv, UniqueInv', PopNormal
  PROVE  OnceInv'
<1> DEFINE e == Head(normalQueue)
<1>1. normalQueue \in Seq(Reply) /\ outcome \in [Requests -> Outcomes]
  BY OnceTypes DEF OnceInv, UniqueInv
<1>2. /\ normalQueue # <<>> /\ normalQueue' = Tail(normalQueue)
      /\ outcome' = [outcome EXCEPT ![e.req] = e.verdict]
      /\ UNCHANGED <<brokerQueue, flowQueue, marketReplies>>
  BY DEF PopNormal, Visit
<1>3. /\ e \in Reply /\ e.req \in In(normalQueue)
      /\ In(normalQueue') = In(normalQueue) \ {e.req} /\ Simple(normalQueue')
      /\ \E i \in 1 .. Len(normalQueue) : e = normalQueue[i]
  BY <1>1, <1>2, TailIn DEF OnceInv
<1>4. e.verdict # "pending"
  BY <1>3 DEF OnceInv
<1> HIDE DEF e
<1>5. PICK q \in Requests : q = e.req
  BY <1>3 DEF Reply
<1>6. outcome'[q] # "pending" /\ \A r \in Requests \ {q} : outcome'[r] = outcome[r]
  BY <1>1, <1>2, <1>4, <1>5
<1>7. ASSUME NEW r \in Requests PROVE OnePlace(r)'
  <2>1. InBroker(r)' = InBroker(r) /\ InReply(r)' = InReply(r) /\ InFlow(r)' = InFlow(r)
    BY <1>2 DEF InBroker, InReply, InFlow
  <2>2. CASE r = q
    <3>1. InNormal(q) /\ ~InNormal(q)'
      BY <1>3, <1>5 DEF InNormal
    <3>2. OnePlace(q)
      BY DEF OnceInv
    <3>3. QED
      BY <1>6, <2>1, <2>2, <3>1, <3>2 DEF OnePlace, Somewhere
  <2>3. CASE r # q
    <3>1. InNormal(r)' = InNormal(r)
      BY <1>3, <1>5, <2>3 DEF InNormal
    <3>2. QED
      BY <1>6, <2>1, <2>3, <3>1, OnePlaceKept DEF OnceInv
  <2>4. QED
    BY <2>2, <2>3
<1>8. ASSUME NEW i \in 1 .. Len(normalQueue') PROVE normalQueue'[i].verdict # "pending"
  <2>1. /\ Len(normalQueue) \in Nat \ {0} /\ Len(normalQueue') = Len(normalQueue) - 1
        /\ \A j \in 1 .. Len(normalQueue) - 1 : normalQueue'[j] = normalQueue[j + 1]
    BY <1>1, <1>2, EmptySeq, HeadTailProperties
  <2>2. i + 1 \in 1 .. Len(normalQueue) /\ normalQueue'[i] = normalQueue[i + 1]
    BY <1>8, <2>1
  <2>3. QED
    BY <2>2 DEF OnceInv
<1>9. QED
  BY <1>2, <1>3, <1>7, <1>8 DEF OnceInv

\* The empty queues hold nothing.
LEMMA NothingIn ==
  ASSUME brokerQueue = <<>>, normalQueue = <<>>,
         \A m \in Markets : flowQueue[m] = {} /\ marketReplies[m] = <<>>
  PROVE  /\ \A r : ~Somewhere(r)
         /\ Simple(brokerQueue) /\ Simple(normalQueue)
         /\ \A m \in Markets : Simple(marketReplies[m]) /\ In(marketReplies[m]) = {}
<1>1. \A i : i \notin 1 .. Len(<<>>)
  OBVIOUS
<1>2. In(<<>>) = {} /\ Simple(<<>>)
  BY <1>1 DEF In, Simple
<1>3. QED
  BY <1>2 DEF Somewhere, InBroker, InNormal, InFlow, InReply

\* Every step leaves each request in one place (flow_control.cc:312-437).
LEMMA OnceStep ==
  ASSUME OnceInv, [Next]_vars
  PROVE  OnceInv'
<1>1. UniqueInv /\ UniqueInv'
  BY UniqueInvStep DEF OnceInv
<1>2. CASE UNCHANGED <<brokerQueue, flowQueue, marketReplies, normalQueue, outcome>>
  <2>1. \A r \in Requests : OnePlace(r)'
    BY <1>2 DEF OnceInv, OnePlace, Somewhere, InBroker, InNormal, InFlow, InReply
  <2>2. QED
    BY <1>1, <1>2, <2>1 DEF OnceInv
<1>3. CASE Crash
  <2>1. /\ brokerQueue' = <<>> /\ normalQueue' = <<>>
        /\ \A m \in Markets : flowQueue'[m] = {} /\ marketReplies'[m] = <<>>
        /\ outcome' = [r \in Requests |->
                         IF outcome[r] = "pending" THEN "lost" ELSE outcome[r]]
    BY <1>3 DEF Crash
  <2>2. /\ \A r : ~Somewhere(r)'
        /\ Simple(brokerQueue') /\ Simple(normalQueue')
        /\ \A m \in Markets : Simple(marketReplies'[m]) /\ In(marketReplies'[m]) = {}
    <3>1. \A i : i \notin 1 .. Len(<<>>)
      OBVIOUS
    <3>2. In(<<>>) = {} /\ Simple(<<>>)
      BY <3>1 DEF In, Simple
    <3>3. QED
      BY <2>1, <3>2 DEF Somewhere, InBroker, InNormal, InFlow, InReply
  <2>3. \A r \in Requests : outcome'[r] # "pending"
    BY <2>1
  <2>4. \A r \in Requests : OnePlace(r)'
    BY <2>2, <2>3 DEF OnePlace, Somewhere
  <2>5. \A i : i \notin 1 .. Len(<<>>)
    OBVIOUS
  <2>6. QED
    BY <1>1, <2>1, <2>2, <2>4, <2>5 DEF OnceInv
<1>4. ASSUME NEW m \in Markets, NEW a \in flowQueue[m], brokerQueue' = brokerQueue,
             Remove(m, a, "timeout") \/ Remove(m, a, "daily") \/ Remove(m, a, "sent")
      PROVE  OnceInv'
  <2>1. {"timeout", "daily", "sent"} \subseteq Outcomes \ {"new", "pending"}
    BY DEF Outcomes
  <2>2. QED
    BY <1>1, <1>4, <2>1, OnceRemove
<1>5. QED
  BY <1>1, <1>2, <1>3, <1>4, UniqueFrame, OnceDrain, OnceSubmit, OnceMarketReply, OnceNormal

\* At the beginning there is none.
LEMMA OnceInit == Init => OnceInv
<1> SUFFICES ASSUME Init PROVE OnceInv
  OBVIOUS
<1>1. /\ brokerQueue = <<>> /\ normalQueue = <<>>
      /\ \A m \in Markets : flowQueue[m] = {} /\ marketReplies[m] = <<>>
      /\ outcome = [r \in Requests |-> "new"]
  BY DEF Init
<1>2. \A i : i \notin 1 .. Len(<<>>)
  OBVIOUS
<1>3. UniqueInv
  BY <1>1, <1>2, TypeInvInit DEF UniqueInv
<1>4. \A r \in Requests : OnePlace(r)
  <2>1. \A r \in Requests : ~Somewhere(r) /\ outcome[r] # "pending"
    BY <1>1, NothingIn
  <2>2. QED
    BY <2>1 DEF OnePlace, Somewhere
<1>5. QED
  BY <1>1, <1>2, <1>3, <1>4, NothingIn DEF OnceInv

\* Where a request that is in a queue once stands there.
LEMMA OnePosition ==
  ASSUME NEW s, DOMAIN s = 1 .. Len(s), Simple(s), NEW r, NEW name
  PROVE  /\ PlacesIn(name, s, r) # {} <=> r \in In(s)
         /\ \A p, q \in PlacesIn(name, s, r) : p = q
<1> DEFINE J == {j \in DOMAIN s : s[j].req = r}
<1>1. J # {} <=> r \in In(s)
  BY DEF In
<1>2. \A i, j \in J : i = j
  BY DEF Simple
<1>3. QED
  BY <1>1, <1>2 DEF PlacesIn

\* The places of a request that is in one queue are one, those of another none.
LEMMA OnceMeans ==
  ASSUME OnceInv, NEW r \in Requests
  PROVE  Cardinality(Places(r)) = IF outcome[r] = "pending" THEN 1 ELSE 0
<1> DEFINE B == PlacesIn(<<"broker">>, brokerQueue, r)
           N == PlacesIn(<<"normal">>, normalQueue, r)
           Fs == UNION {PlacesInFlow(m, r) : m \in Markets}
           R(m) == PlacesIn(<<"reply", m>>, marketReplies[m], r)
           Rs == UNION {R(m) : m \in Markets}
           P == Places(r)
<1>1. P = B \cup N \cup Fs \cup Rs
  BY DEF Places
<1>2. /\ DOMAIN brokerQueue = 1 .. Len(brokerQueue)
      /\ DOMAIN normalQueue = 1 .. Len(normalQueue)
      /\ \A m \in Markets : DOMAIN marketReplies[m] = 1 .. Len(marketReplies[m])
  <2>1. /\ brokerQueue \in Seq(Message) /\ normalQueue \in Seq(Reply)
        /\ marketReplies \in [Markets -> Seq(Reply)]
    BY OnceTypes DEF OnceInv, UniqueInv
  <2>2. QED
    BY <2>1, LenProperties
<1>3. (B # {} <=> InBroker(r)) /\ \A p, q \in B : p = q
  BY <1>2, OnePosition DEF InBroker, OnceInv
<1>4. (N # {} <=> InNormal(r)) /\ \A p, q \in N : p = q
  BY <1>2, OnePosition DEF InNormal, OnceInv
<1>5. (Fs # {} <=> InFlow(r)) /\ \A p, q \in Fs : p = q
  <2>1. \A m \in Markets : PlacesInFlow(m, r) # {} <=> \E a \in flowQueue[m] : a.req = r
    BY DEF PlacesInFlow
  <2>2. Fs # {} <=> InFlow(r)
    BY <2>1 DEF InFlow
  <2>3. ASSUME NEW p \in Fs, NEW q \in Fs PROVE p = q
    <3>1. PICK m \in Markets : p \in PlacesInFlow(m, r)
      OBVIOUS
    <3>2. PICK k \in Markets : q \in PlacesInFlow(k, r)
      OBVIOUS
    <3>3. PICK a \in flowQueue[m] : p = <<<<"flow", m>>, a>> /\ a.req = r
      BY <3>1 DEF PlacesInFlow
    <3>4. PICK b \in flowQueue[k] : q = <<<<"flow", k>>, b>> /\ b.req = r
      BY <3>2 DEF PlacesInFlow
    <3>5. m = k /\ a = b
      BY <3>3, <3>4 DEF OnceInv, UniqueInv
    <3>6. QED
      BY <3>3, <3>4, <3>5
  <2>4. QED
    BY <2>2, <2>3
<1>6. (Rs # {} <=> InReply(r)) /\ \A p, q \in Rs : p = q
  <2>1. ASSUME NEW m \in Markets
        PROVE  /\ R(m) # {} <=> r \in In(marketReplies[m])
               /\ \A p, q \in R(m) : p = q
    <3>1. Simple(marketReplies[m])
      BY DEF OnceInv
    <3>2. QED
      BY <1>2, <3>1, OnePosition
  <2>2. Rs # {} <=> InReply(r)
    <3>1. ASSUME Rs # {} PROVE InReply(r)
      <4>1. PICK m \in Markets : R(m) # {}
        BY <3>1
      <4>2. QED
        BY <2>1, <4>1 DEF InReply
    <3>2. ASSUME InReply(r) PROVE Rs # {}
      <4>1. PICK m \in Markets : r \in In(marketReplies[m])
        BY <3>2 DEF InReply
      <4>2. PICK p : p \in R(m)
        BY <2>1, <4>1
      <4>3. QED
        BY <4>2
    <3>3. QED
      BY <3>1, <3>2
  <2>3. ASSUME NEW p \in Rs, NEW q \in Rs PROVE p = q
    <3>1. PICK m \in Markets : p \in R(m)
      OBVIOUS
    <3>2. PICK k \in Markets : q \in R(k)
      OBVIOUS
    <3>3. r \in In(marketReplies[m]) /\ r \in In(marketReplies[k])
      BY <2>1, <3>1, <3>2
    <3>4. m = k
      BY <3>3 DEF OnceInv
    <3>5. QED
      BY <2>1, <3>1, <3>2, <3>4
  <2>4. QED
    BY <2>2, <2>3
<1> HIDE DEF B, N, Fs, Rs, P
<1>8. OnePlace(r)
  BY DEF OnceInv
<1>9. CASE outcome[r] = "pending"
  <2>3. P # {} /\ \A p, q \in P : p = q
    BY <1>3, <1>4, <1>5, <1>6, <1>1, <1>8, <1>9 DEF OnePlace, Somewhere
  <2>1. PICK p : P = {p}
    BY <2>3
  <2>2. QED
    BY <1>9, <2>1, FS_Singleton DEF P
<1>10. CASE outcome[r] # "pending"
  <2>1. P = {}
    BY <1>3, <1>4, <1>5, <1>6, <1>1, <1>8, <1>10 DEF OnePlace, Somewhere
  <2>2. QED
    BY <1>10, <2>1, FS_EmptySet DEF P
<1>11. QED
  BY <1>9, <1>10

\* Every message is in exactly one place until it is returned, and is never returned
\* twice, however drains, timeouts, refusals and sends follow each other, and is gone
\* after a crash (flow_control.cc:312-437).
THEOREM FlowAnsweredOnce == Spec => []AnsweredOnce
<1>1. Init => OnceInv
  BY OnceInit
<1>2. OnceInv /\ [Next]_vars => OnceInv'
  BY OnceStep
<1>3. OnceInv => AnsweredOnce
  BY OnceMeans DEF AnsweredOnce
<1>4. QED
  BY <1>1, <1>2, <1>3, PTL DEF Spec

-----------------------------------------------------------------------------
(* The count of the queued commands. *)

\* The commands of a set of items.
CommandsOf(Q) == SumFunctionOnSet([a \in Q |-> a.req.size], Q)

SizeInv ==
  /\ UniqueInv
  /\ \A m \in Markets : IsFiniteSet(flowQueue[m]) /\ cmdSize[m] = CommandsOf(flowQueue[m])

\* One item more, or less.
LEMMA CommandsOfAdded ==
  ASSUME NEW Q, IsFiniteSet(Q), NEW e, e \notin Q, \A a \in Q \cup {e} : a.req.size \in Int
  PROVE  IsFiniteSet(Q \cup {e}) /\ CommandsOf(Q \cup {e}) = CommandsOf(Q) + e.req.size
<1> DEFINE f == [a \in Q |-> a.req.size]
           g == [a \in Q \cup {e} |-> a.req.size]
<1>1. IsFiniteSet(Q \cup {e})
  BY FS_AddElement
<1>2. /\ \A a \in Q \cup {e} : g[a] \in Int
      /\ \A a \in Q : f[a] \in Int /\ f[a] = g[a]
      /\ g[e] = e.req.size
  OBVIOUS
<1> HIDE DEF f, g
<1>3. SumFunctionOnSet(g, Q \cup {e}) = g[e] + SumFunctionOnSet(g, Q)
  BY <1>2, SumAdd
<1>4. SumFunctionOnSet(f, Q) = SumFunctionOnSet(g, Q)
  BY <1>2, SumSame
<1>5. SumFunctionOnSet(f, Q) \in Int
  BY <1>2, SumInt
<1>6. g[e] \in Int
  BY <1>2
<1>7. SumFunctionOnSet(g, Q \cup {e}) = SumFunctionOnSet(f, Q) + e.req.size
  BY <1>2, <1>3, <1>4, <1>5, <1>6
<1>8. QED
  BY <1>1, <1>7 DEF CommandsOf, f, g

\* The same, backwards.
LEMMA CommandsOfRemoved ==
  ASSUME NEW Q, IsFiniteSet(Q), NEW e \in Q, \A a \in Q : a.req.size \in Int
  PROVE  IsFiniteSet(Q \ {e}) /\ CommandsOf(Q \ {e}) = CommandsOf(Q) - e.req.size
<1>1. IsFiniteSet(Q \ {e}) /\ (Q \ {e}) \cup {e} = Q /\ e \notin Q \ {e}
  BY FS_RemoveElement
<1> DEFINE W == Q \ {e}
<1>2. CommandsOf(W \cup {e}) = CommandsOf(W) + e.req.size
  BY <1>1, CommandsOfAdded
<1>3. CommandsOf(W) \in Int
  <2> DEFINE f == [a \in W |-> a.req.size]
  <2>1. \A a \in W : f[a] \in Int
    OBVIOUS
  <2>2. SumFunctionOnSet(f, W) \in Int
    BY <1>1, <2>1, SumInt
  <2>3. QED
    BY <2>2 DEF CommandsOf
<1>4. e.req.size \in Int
  OBVIOUS
<1> HIDE DEF W
<1>5. CommandsOf(W) = CommandsOf(W \cup {e}) - e.req.size
  BY <1>2, <1>3, <1>4
<1>6. QED
  BY <1>1, <1>5 DEF W

\* What the size of an item is.
LEMMA ItemSize ==
  ASSUME TypeInv, NEW m \in Markets, NEW a \in flowQueue[m]
  PROVE  a.req.size \in Int
<1>1. a.req \in Requests
  BY DEF TypeInv, TypeOK, Item
<1>2. QED
  BY <1>1, FlowControlAssumption DEF RequestType

\* An item enters only if its request has none there yet.
LEMMA SizeDrain ==
  ASSUME SizeInv, UniqueInv', Drain
  PROVE  SizeInv'
<1>1. PICK e \in Message : e = Head(brokerQueue)
  BY HeadTailProperties DEF Drain, SizeInv, UniqueInv, TypeInv, TypeOK
<1>2. CASE DrainNormal(e.req) \/ DrainOversize(e.req)
  BY <1>2 DEF SizeInv, DrainNormal, DrainOversize
<1>3. CASE DrainToFlow(e.req, e.stamp)
  <2>1. PICK m \in Markets : m = e.req.market
    BY <1>3 DEF DrainToFlow, FlowControlled
  <2>2. PICK x : x = [req |-> e.req, seq |-> arrivals, stamp |-> e.stamp]
    OBVIOUS
  <2>3. /\ flowQueue' = [flowQueue EXCEPT ![m] = @ \cup {x}]
        /\ cmdSize' = [cmdSize EXCEPT ![m] = @ + x.req.size]
    BY <1>3, <2>1, <2>2 DEF DrainToFlow
  <2>4. flowQueue \in [Markets -> SUBSET Item] /\ cmdSize \in [Markets -> Int]
    BY DEF SizeInv, UniqueInv, TypeInv, TypeOK
  <2>5. x \notin flowQueue[m]
    <3>1. brokerQueue \in Seq(Message) /\ brokerQueue # <<>>
      BY DEF SizeInv, UniqueInv, TypeInv, TypeOK, Drain
    <3>2. e = brokerQueue[1] /\ 1 \in 1 .. Len(brokerQueue)
      BY <1>1, <3>1
    <3>3. x.req = e.req
      BY <2>2
    <3>4. QED
      BY <3>2, <3>3 DEF SizeInv, UniqueInv
  <2>6. \A a \in flowQueue[m] \cup {x} : a.req.size \in Int
    <3>1. TypeInv /\ e.req \in Requests
      BY DEF SizeInv, UniqueInv, Message
    <3>2. x.req.size \in Int
      BY <2>2, <3>1, FlowControlAssumption DEF RequestType
    <3>3. QED
      BY <3>1, <3>2, ItemSize
  <2>7. IsFiniteSet(flowQueue[m]) /\ cmdSize[m] = CommandsOf(flowQueue[m])
    BY DEF SizeInv
  <2>8. /\ IsFiniteSet(flowQueue[m] \cup {x})
        /\ CommandsOf(flowQueue[m] \cup {x}) = CommandsOf(flowQueue[m]) + x.req.size
    BY <2>5, <2>6, <2>7, CommandsOfAdded
  <2>9. ASSUME NEW k \in Markets
        PROVE  IsFiniteSet(flowQueue'[k]) /\ cmdSize'[k] = CommandsOf(flowQueue'[k])
    <3>1. CASE k = m
      BY <2>3, <2>4, <2>7, <2>8, <3>1
    <3>2. CASE k # m
      <4>1. flowQueue'[k] = flowQueue[k] /\ cmdSize'[k] = cmdSize[k]
        BY <2>3, <2>4, <3>2
      <4>2. QED
        BY <4>1 DEF SizeInv
    <3>3. QED
      BY <3>1, <3>2
  <2>10. QED
    BY <2>9 DEF SizeInv, CommandsOf
<1>4. QED
  BY <1>1, <1>2, <1>3 DEF Drain

\* Every removal takes off what the item had added.
LEMMA SizeRemove ==
  ASSUME SizeInv, UniqueInv', NEW m \in Markets, NEW x \in flowQueue[m], NEW verdict,
         Remove(m, x, verdict)
  PROVE  SizeInv'
<1>1. /\ flowQueue' = [flowQueue EXCEPT ![m] = @ \ {x}]
      /\ cmdSize' = [cmdSize EXCEPT ![m] = @ - x.req.size]
  BY DEF Remove
<1>2. flowQueue \in [Markets -> SUBSET Item] /\ cmdSize \in [Markets -> Int]
  BY DEF SizeInv, UniqueInv, TypeInv, TypeOK
<1>3. \A a \in flowQueue[m] : a.req.size \in Int
  BY ItemSize DEF SizeInv, UniqueInv
<1>4. IsFiniteSet(flowQueue[m]) /\ cmdSize[m] = CommandsOf(flowQueue[m])
  BY DEF SizeInv
<1>5. /\ IsFiniteSet(flowQueue[m] \ {x})
      /\ CommandsOf(flowQueue[m] \ {x}) = CommandsOf(flowQueue[m]) - x.req.size
  BY <1>3, <1>4, CommandsOfRemoved
<1>6. ASSUME NEW k \in Markets
      PROVE  IsFiniteSet(flowQueue'[k]) /\ cmdSize'[k] = CommandsOf(flowQueue'[k])
  <2>1. CASE k = m
    BY <1>1, <1>2, <1>4, <1>5, <2>1
  <2>2. CASE k # m
    <3>1. flowQueue'[k] = flowQueue[k] /\ cmdSize'[k] = cmdSize[k]
      BY <1>1, <1>2, <2>2
    <3>2. QED
      BY <3>1 DEF SizeInv
  <2>3. QED
    BY <2>1, <2>2
<1>7. QED
  BY <1>6 DEF SizeInv, CommandsOf

\* Empty queues hold no commands.
LEMMA NoCommands == IsFiniteSet({}) /\ CommandsOf({}) = 0
  BY FS_EmptySet, SumOfNone DEF CommandsOf

\* Every step keeps the count.
LEMMA SizeStep ==
  ASSUME SizeInv, [Next]_vars
  PROVE  SizeInv'
<1>1. UniqueInv /\ UniqueInv'
  BY UniqueInvStep DEF SizeInv
<1>2. CASE UNCHANGED <<flowQueue, cmdSize>>
  BY <1>1, <1>2 DEF SizeInv
<1>3. CASE Crash
  <2>1. \A m \in Markets : flowQueue'[m] = {} /\ cmdSize'[m] = 0
    BY <1>3 DEF Crash
  <2>2. QED
    BY <1>1, <2>1, NoCommands DEF SizeInv, CommandsOf
<1>4. CASE Drain
  BY <1>1, <1>4, SizeDrain
<1>5. CASE TryPop
  <2>1. CASE \E m \in Markets : PopTimeout(m) \/ PopBeyondDaily(m) \/ PopSend(m)
                                \/ PopBackTimeout(m)
    <3>1. PICK m \in Markets : \E a \in flowQueue[m] : \E verdict : Remove(m, a, verdict)
      BY <2>1 DEF PopTimeout, PopBeyondDaily, PopSend, PopBackTimeout
    <3>2. QED
      BY <1>1, <3>1, SizeRemove
  <2>2. CASE (\E m \in Markets : PopMarketReply(m)) \/ PopNormal \/ PopNothing
    BY <1>2, <2>2 DEF PopMarketReply, PopNormal, PopNothing
  <2>3. QED
    BY <1>5, <2>1, <2>2 DEF TryPop
<1>6. QED
  BY <1>2, <1>3, <1>4, <1>5
  DEF Next, Tick, NewDay, Submit, Start, PopWarning, queueVars, vars

\* cmd_size_ is the number of commands in the queue, however items enter it and leave
\* it: sent, timed out at the front or the back, turned down or lost in a crash
\* (flow_control.cc:107, 137).
THEOREM FlowCmdSizeAccurate == Spec => []CmdSizeAccurate
<1>1. Init => SizeInv
  <2>1. Init => UniqueInv
    BY OnceInit DEF OnceInv
  <2>2. Init => \A m \in Markets : flowQueue[m] = {} /\ cmdSize[m] = 0
    BY DEF Init
  <2>3. QED
    BY <2>1, <2>2, NoCommands DEF SizeInv
<1>2. SizeInv /\ [Next]_vars => SizeInv'
  BY SizeStep
<1>3. SizeInv => CmdSizeAccurate
  BY DEF SizeInv, CmdSizeAccurate, CommandsOf
<1>4. QED
  BY <1>1, <1>2, <1>3, PTL DEF Spec

=============================================================================

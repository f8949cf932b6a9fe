-------------------------- MODULE MemServerKnockProofs --------------------------
(***************************************************************************)
(* Knocks in MemServer: each is written once, handed to the position       *)
(* masters once, and never dropped before it was written; and none is left *)
(* behind by the cursor of the knock query.  The first argument is about   *)
(* knocks_, the match numbers a process remembers: they cover what the     *)
(* process wrote itself and what was there of its day, and each of them    *)
(* stands for a frame of the reply file.  The second is about every cursor *)
(* there is: in the process, in the queue, at the counter.  The third is   *)
(* about the volumes last written: positions_ mirrors the reply file.      *)
(***************************************************************************)
EXTENDS MemServerProofs

KnockFrames == FramesOf("TradeKnock")

\* What a process wrote, and what happened since its day began, it remembers.
Remembered ==
  up => \A i \in KnockFrames :
          /\ repMem[i].knock \in Knocks
          /\ repMem[i].by = starts \/ natureDay <= DateOf[repMem[i].knock]
          => InnerMatchNo(repMem[i].knock) \in knocks
\* What it told the position masters, it remembers.
ToldRemembered ==
  \A k \in Knocks : handed[k] <= 1 /\ (handed[k] # 0 => up /\ InnerMatchNo(k) \in knocks)
\* What it remembers is in the reply file.
RememberedIsRecorded ==
  \A x \in knocks : \E i \in KnockFrames : InnerMatchNo(repMem[i].knock) = x
KnockInv == Remembered /\ ToldRemembered /\ RememberedIsRecorded /\ KnockRecordedOnce

LEMMA KnockInvInit == Init => KnockInv
<1> SUFFICES ASSUME Init PROVE KnockInv
  OBVIOUS
<1>1. KnockFrames = {} /\ knocks = {} /\ ~up /\ \A k \in Knocks : handed[k] = 0
  BY DEF Init, KnockFrames, FramesOf
<1>2. Remembered /\ ToldRemembered /\ RememberedIsRecorded
  BY <1>1 DEF Remembered, ToldRemembered, RememberedIsRecorded
<1>3. KnockRecordedOnce
  BY <1>1 DEF KnockRecordedOnce, KnockFrames
<1>4. QED
  BY <1>2, <1>3 DEF KnockInv

\* One more frame in the reply file.
LEMMA FrameAppended ==
  ASSUME TypeInv, NEW f \in FrameNow, repMem' = Append(repMem, f)
  PROVE  /\ \A i \in KnockFrames : i \in KnockFrames' /\ repMem'[i] = repMem[i] /\ i < Len(repMem) + 1
         /\ \A i \in KnockFrames' : i \in KnockFrames \/ i = Len(repMem) + 1
         /\ repMem'[Len(repMem) + 1] = f
         /\ Len(repMem) + 1 \in KnockFrames' <=> f.type = "TradeKnock"
         /\ Len(repMem) \in Nat /\ KnockFrames \subseteq Nat
<1>1. repMem \in Seq(FrameNow)
  BY DEF TypeInv, Flows
<1>2. /\ Len(repMem') = Len(repMem) + 1 /\ repMem' \in Seq(FrameNow)
      /\ repMem'[Len(repMem) + 1] = f
      /\ \A i \in 1 .. Len(repMem) : repMem'[i] = repMem[i]
  BY <1>1, AppendElements
<1>3. DOMAIN repMem' = 1 .. Len(repMem) + 1 /\ DOMAIN repMem = 1 .. Len(repMem) /\ Len(repMem) \in Nat
  BY <1>1, <1>2
<1>4. /\ \A i \in 1 .. Len(repMem) : i \in 1 .. Len(repMem) + 1 /\ i < Len(repMem) + 1 /\ i \in Nat
      /\ \A i \in 1 .. Len(repMem) + 1 : i \in 1 .. Len(repMem) \/ i = Len(repMem) + 1
      /\ Len(repMem) + 1 \in 1 .. Len(repMem) + 1
  BY <1>3
<1>5. KnockFrames' = {i \in DOMAIN repMem' : repMem'[i].type = "TradeKnock"}
  BY DEF KnockFrames, FramesOf
<1>6. QED
  BY <1>2, <1>3, <1>4, <1>5 DEF KnockFrames, FramesOf

\* Steps that are about no knock.
LEMMA KnockInvOther ==
  ASSUME TypeInv, KnockInv, UNCHANGED <<knocks, handed, up, starts, natureDay>>,
         \/ repMem' = repMem
         \/ \E f \in FrameNow : f.type # "TradeKnock" /\ repMem' = Append(repMem, f)
  PROVE  KnockInv'
<1>1. /\ KnockFrames' = KnockFrames
      /\ \A i \in KnockFrames : repMem'[i] = repMem[i]
  <2>1. CASE repMem' = repMem
    BY <2>1 DEF KnockFrames, FramesOf
  <2>2. CASE \E f \in FrameNow : f.type # "TradeKnock" /\ repMem' = Append(repMem, f)
    <3>1. PICK f \in FrameNow : f.type # "TradeKnock" /\ repMem' = Append(repMem, f)
      BY <2>2
    <3>2. QED
      BY <3>1, FrameAppended
  <2>3. QED
    BY <2>1, <2>2
<1>2. Remembered' /\ ToldRemembered' /\ RememberedIsRecorded'
  BY <1>1 DEF KnockInv, Remembered, ToldRemembered, RememberedIsRecorded, InnerMatchNo
<1>3. KnockRecordedOnce'
  BY <1>1 DEF KnockInv, KnockRecordedOnce, KnockFrames
<1>4. QED
  BY <1>2, <1>3 DEF KnockInv

\* IsNewMemTradeKnock and the frame that follows.
LEMMA RecordKeeps ==
  ASSUME TypeInv, KnockInv, NEW k \in Happened, up, Record(k),
         UNCHANGED <<up, starts, natureDay>>
  PROVE  /\ Remembered' /\ RememberedIsRecorded' /\ KnockRecordedOnce'
         /\ knocks \subseteq knocks' /\ InnerMatchNo(k) \in knocks'
<1>0. /\ k \in Knocks /\ k \in AllKnocks /\ DateOf[k] \in Nat /\ DateOf[k] <= day
      /\ starts \in Nat /\ natureDay \in Nat /\ \A j \in AllKnocks : DateOf[j] \in Nat
  BY ServerAssumption DEF Happened, AllKnocks, TypeInv, Core
<1>1. CASE ~IsNew(k)
  <2>1. UNCHANGED <<knocks, repMem>> /\ InnerMatchNo(k) \in knocks
    BY <1>1 DEF Record, IsNew
  <2>2. KnockFrames' = KnockFrames
    BY <2>1 DEF KnockFrames, FramesOf
  <2>3. Remembered' /\ RememberedIsRecorded'
    BY <2>1, <2>2 DEF KnockInv, Remembered, RememberedIsRecorded, InnerMatchNo
  <2>4. KnockRecordedOnce'
    BY <2>1, <2>2 DEF KnockInv, KnockRecordedOnce, KnockFrames
  <2>5. QED
    BY <2>1, <2>3, <2>4
<1>2. CASE IsNew(k)
  <2>1. PICK n \in Nat : n = Len(repMem) + 1
    BY DEF TypeInv, Flows
  <2>2. PICK f \in FrameNow :
          /\ f = KnockFrame(k)
          /\ f.type = "TradeKnock" /\ f.knock = k /\ f.by = starts /\ f.since = natureDay
    <3>1. starts \in 0 .. starts
      BY <1>0
    <3>2. KnockFrame(k) \in FrameNow
      BY <1>0, <3>1 DEF KnockFrame, FrameNow
    <3>3. /\ KnockFrame(k).type = "TradeKnock" /\ KnockFrame(k).knock = k
          /\ KnockFrame(k).by = starts /\ KnockFrame(k).since = natureDay
      BY DEF KnockFrame
    <3>4. QED
      BY <3>2, <3>3
  <2>3. knocks' = knocks \cup {InnerMatchNo(k)} /\ repMem' = Append(repMem, f)
        /\ InnerMatchNo(k) \notin knocks
    BY <1>2, <2>2 DEF Record, IsNew
  <2>4. /\ \A i \in KnockFrames : i \in KnockFrames' /\ repMem'[i] = repMem[i] /\ i < n
        /\ \A i \in KnockFrames' : i \in KnockFrames \/ i = n
        /\ repMem'[n] = f /\ n \in KnockFrames' /\ n \in Nat /\ KnockFrames \subseteq Nat
    BY <2>3, <2>2, <2>1, FrameAppended
  <2>5. Remembered'
    <3>1. SUFFICES ASSUME NEW i \in KnockFrames', repMem'[i].knock \in Knocks,
                          repMem'[i].by = starts \/ natureDay <= DateOf[repMem'[i].knock]
                   PROVE  InnerMatchNo(repMem'[i].knock) \in knocks'
      BY DEF Remembered, InnerMatchNo
    <3>2. CASE i = n
      BY <2>3, <2>2, <2>4, <3>2
    <3>3. CASE i \in KnockFrames
      BY <2>3, <2>4, <3>1, <3>3 DEF KnockInv, Remembered
    <3>4. QED
      BY <2>4, <3>2, <3>3
  <2>6. RememberedIsRecorded'
    <3>1. SUFFICES ASSUME NEW x \in knocks'
                   PROVE  \E i \in KnockFrames' : InnerMatchNo(repMem'[i].knock) = x
      BY DEF RememberedIsRecorded, InnerMatchNo
    <3>2. CASE x = InnerMatchNo(k)
      BY <2>2, <2>4, <3>2
    <3>3. CASE x \in knocks
      BY <2>4, <3>3 DEF KnockInv, RememberedIsRecorded
    <3>4. QED
      BY <2>3, <3>2, <3>3
  <2>7. KnockRecordedOnce'
    <3>1. SUFFICES ASSUME NEW i \in KnockFrames', NEW j \in KnockFrames',
                          i < j, repMem'[i].knock = repMem'[j].knock
                   PROVE  /\ repMem'[i].by < repMem'[j].by
                          /\ DateOf[repMem'[j].knock] < repMem'[j].since
      BY DEF KnockRecordedOnce, KnockFrames
    <3>2. CASE i \in KnockFrames /\ j \in KnockFrames
      BY <2>4, <3>1, <3>2 DEF KnockInv, KnockRecordedOnce, KnockFrames
    <3>3. CASE i \in KnockFrames /\ j = n
      <4>1. repMem'[j].knock = k /\ repMem'[j].by = starts /\ repMem'[j].since = natureDay
            /\ repMem[i].knock = k /\ repMem'[i] = repMem[i]
        BY <2>2, <2>4, <3>1, <3>3
      <4>2. repMem[i].by # starts /\ ~(natureDay <= DateOf[k])
        BY <1>0, <2>3, <3>3, <4>1 DEF KnockInv, Remembered
      <4>3. repMem[i] \in FrameNow /\ repMem[i].type = "TradeKnock"
        BY <3>3 DEF KnockFrames, FramesOf, TypeInv, Flows
      <4>4. repMem[i].by \in 0 .. starts
        BY <4>3, FrameCases
      <4>5. repMem[i].by < starts
        BY <1>0, <4>2, <4>4
      <4>6. DateOf[k] < natureDay
        BY <1>0, <4>2
      <4>7. QED
        BY <4>1, <4>5, <4>6
    <3>4. CASE i = n
      <4>1. j \in KnockFrames => j < n /\ j \in Nat
        BY <2>4
      <4>2. FALSE
        BY <2>4, <3>1, <3>4, <4>1
      <4>3. QED
        BY <4>2
    <3>5. QED
      BY <2>4, <3>2, <3>3, <3>4
  <2>8. QED
    BY <2>3, <2>5, <2>6, <2>7
<1>3. QED
  BY <1>1, <1>2

LEMMA KnockInvLoop ==
  ASSUME TypeInv, KnockInv, SendTradeKnock \/ SendQueryTradeKnockRep
  PROVE  KnockInv'
<1> USE DEF process
<1>1. CASE SendTradeKnock
  <2> DEFINE k == Head(queue).knock
  <2>1. queue # <<>> /\ up /\ Head(queue) \in MessageNow /\ Head(queue).type = "TradeKnock"
    BY <1>1, QueueSteps DEF SendTradeKnock, Front
  <2>2. k \in Happened /\ k \in Knocks
    BY <2>1, MessageCases DEF Happened
  <2>3. Record(k) /\ HandOver(k) /\ UNCHANGED <<up, starts, natureDay>>
    BY <1>1, Zenon DEF SendTradeKnock
  <2>4. /\ Remembered' /\ RememberedIsRecorded' /\ KnockRecordedOnce'
        /\ knocks \subseteq knocks' /\ InnerMatchNo(k) \in knocks'
    BY <2>1, <2>2, <2>3, RecordKeeps
  <2>5. ToldRemembered'
    <3>1. SUFFICES ASSUME NEW j \in Knocks
                   PROVE  handed'[j] <= 1 /\ (handed'[j] # 0 => up' /\ InnerMatchNo(j) \in knocks')
      BY DEF ToldRemembered, InnerMatchNo
    <3>2. handed \in [Knocks -> Nat] /\ up'
      BY <2>1, <2>3 DEF TypeInv, Core
    <3>3. handed[j] <= 1 /\ (handed[j] # 0 => InnerMatchNo(j) \in knocks)
      BY DEF KnockInv, ToldRemembered
    <3>4. CASE handed'[j] = handed[j]
      BY <2>4, <3>2, <3>3, <3>4
    <3>5. CASE j = k /\ IsNew(k) /\ handed' = [handed EXCEPT ![k] = @ + 1]
      <4>1. handed[j] = 0
        BY <3>3, <3>5 DEF IsNew
      <4>2. QED
        BY <2>2, <2>4, <3>2, <3>5, <4>1
    <3>6. QED
      BY <2>2, <2>3, <3>2, <3>4, <3>5 DEF HandOver
  <2>6. QED
    BY <2>4, <2>5 DEF KnockInv
<1>2. CASE SendQueryTradeKnockRep
  <2> DEFINE items == Head(queue).items
  <2>1. queue # <<>> /\ up /\ Head(queue) \in MessageNow /\ Head(queue).type = "QueryTradeKnockRep"
    BY <1>2, QueueSteps DEF SendQueryTradeKnockRep, Front
  <2>2. items \in Seq(Happened)
    BY <2>1, MessageCases
  <2>3. UNCHANGED <<up, starts, natureDay, handed>>
    BY <1>2, Zenon DEF SendQueryTradeKnockRep
  <2>4. CASE items = <<>>
    <3>1. UNCHANGED <<knocks, repMem>>
      BY <1>2, <2>4 DEF SendQueryTradeKnockRep
    <3>2. QED
      BY <2>3, <3>1, KnockInvOther
  <2>5. CASE items # <<>>
    <3>1. Head(items) \in Happened
      BY <2>2, <2>5, TailElements
    <3>2. Record(Head(items))
      BY <1>2, <2>5 DEF SendQueryTradeKnockRep
    <3>3. Remembered' /\ RememberedIsRecorded' /\ KnockRecordedOnce' /\ knocks \subseteq knocks'
      BY <2>1, <2>3, <3>1, <3>2, RecordKeeps
    <3>4. ToldRemembered'
      BY <2>3, <3>3 DEF KnockInv, ToldRemembered, InnerMatchNo
    <3>5. QED
      BY <3>3, <3>4 DEF KnockInv
  <2>6. QED
    BY <2>4, <2>5
<1>3. QED
  BY <1>1, <1>2

\* Another broker's knock is written once and of no account here.
LEMMA KnockInvOthers ==
  ASSUME TypeInv, KnockInv, NEW k \in OthersKnocks, WriteOthersKnock(k)
  PROVE  KnockInv'
<1> USE DEF calendar, process, memory
<1>1. PICK n \in Nat : n = Len(repMem) + 1
  BY DEF TypeInv, Flows
<1>2. /\ UNCHANGED <<knocks, handed, up, starts, natureDay>>
      /\ repMem' = Append(repMem, OthersFrame(k))
      /\ DateOf[k] = day /\ ~Recorded(k) /\ day \in Nat /\ starts \in Nat
      /\ k \in AllKnocks /\ k \notin Knocks
  BY ServerAssumption DEF WriteOthersKnock, AllKnocks, TypeInv, Core
<1>3. PICK f \in FrameNow : f = OthersFrame(k) /\ f.type = "TradeKnock" /\ f.knock = k
  <2>1. 0 \in 0 .. starts /\ DateOf[k] <= day
    BY <1>2
  <2>2. QED
    BY <1>2, <2>1 DEF OthersFrame, FrameNow
<1>4. /\ \A i \in KnockFrames : i \in KnockFrames' /\ repMem'[i] = repMem[i] /\ i < n
      /\ \A i \in KnockFrames' : i \in KnockFrames \/ i = n
      /\ repMem'[n] = f /\ n \in Nat /\ KnockFrames \subseteq Nat
  BY <1>2, <1>3, <1>1, FrameAppended
<1>5. Remembered'
  <2>1. SUFFICES ASSUME up, NEW i \in KnockFrames', repMem'[i].knock \in Knocks,
                        repMem'[i].by = starts \/ natureDay <= DateOf[repMem'[i].knock]
                 PROVE  InnerMatchNo(repMem'[i].knock) \in knocks
    BY <1>2 DEF Remembered, InnerMatchNo
  <2>2. i \in KnockFrames /\ repMem'[i] = repMem[i]
    BY <1>2, <1>3, <1>4, <2>1
  <2>3. QED
    BY <2>1, <2>2 DEF KnockInv, Remembered
<1>6. ToldRemembered' /\ RememberedIsRecorded'
  BY <1>2, <1>4 DEF KnockInv, ToldRemembered, RememberedIsRecorded, InnerMatchNo
<1>7. KnockRecordedOnce'
  <2>1. SUFFICES ASSUME NEW i \in KnockFrames', NEW j \in KnockFrames',
                        i < j, repMem'[i].knock = repMem'[j].knock
                 PROVE  /\ repMem'[i].by < repMem'[j].by
                        /\ DateOf[repMem'[j].knock] < repMem'[j].since
    BY DEF KnockRecordedOnce, KnockFrames
  <2>2. CASE i \in KnockFrames /\ j \in KnockFrames
    BY <1>4, <2>1, <2>2 DEF KnockInv, KnockRecordedOnce, KnockFrames
  <2>3. CASE i \in KnockFrames /\ j = n
    <3>1. repMem[i].knock # k
      BY <1>2, <2>3 DEF Recorded, KnockFrames
    <3>2. repMem'[i] = repMem[i] /\ repMem'[j].knock = k
      BY <1>3, <1>4, <2>3
    <3>3. QED
      BY <2>1, <3>1, <3>2
  <2>4. CASE i = n
    <3>1. j \in KnockFrames => j < n /\ j \in Nat
      BY <1>4
    <3>2. FALSE
      BY <1>4, <2>1, <2>4, <3>1
    <3>3. QED
      BY <3>2
  <2>5. QED
    BY <1>4, <2>2, <2>3, <2>4
<1>8. QED
  BY <1>5, <1>6, <1>7 DEF KnockInv

\* LoadTradingData: a new process remembers the knocks of its day.
LEMMA KnockInvStart ==
  ASSUME TypeInv, KnockInv, Start
  PROVE  KnockInv'
<1> USE DEF calendar, process, memory
<1>1. /\ starts' = starts + 1 /\ natureDay' = day /\ ~up /\ UNCHANGED <<handed, repMem, day>>
      /\ knocks' = SeenToday
      /\ starts \in Nat /\ day \in Nat /\ \A k \in AllKnocks : DateOf[k] \in Nat
  BY ServerAssumption DEF Start, LoadTradingData, TypeInv, Core
<1>2. KnockFrames' = KnockFrames
  BY <1>1 DEF KnockFrames, FramesOf
<1>3. \A i \in KnockFrames : /\ repMem[i].knock \in AllKnocks /\ DateOf[repMem[i].knock] <= day
                             /\ repMem[i].by \in 0 .. starts
  <2>1. \A i \in KnockFrames : repMem[i] \in FrameNow /\ repMem[i].type = "TradeKnock"
    BY DEF KnockFrames, FramesOf, TypeInv, Flows
  <2>2. QED
    BY <2>1, FrameCases
<1>4. Remembered'
  <2>1. SUFFICES ASSUME NEW i \in KnockFrames,
                        repMem[i].by = starts + 1 \/ day <= DateOf[repMem[i].knock]
                 PROVE  InnerMatchNo(repMem[i].knock) \in SeenToday
    BY <1>1, <1>2 DEF Remembered, InnerMatchNo
  <2>2. DateOf[repMem[i].knock] = day
    BY <1>1, <1>3, <2>1
  <2>3. QED
    BY <2>2 DEF SeenToday, KnockFrames
<1>5. ToldRemembered'
  BY <1>1 DEF KnockInv, ToldRemembered
<1>6. RememberedIsRecorded'
  <2>1. \A x \in SeenToday : \E i \in KnockFrames : InnerMatchNo(repMem[i].knock) = x
    BY DEF SeenToday, KnockFrames
  <2>2. QED
    BY <1>1, <1>2, <2>1 DEF RememberedIsRecorded, InnerMatchNo
<1>7. KnockRecordedOnce'
  BY <1>1, <1>2 DEF KnockInv, KnockRecordedOnce, KnockFrames
<1>8. QED
  BY <1>4, <1>5, <1>6, <1>7 DEF KnockInv

LEMMA KnockInvCrash ==
  ASSUME TypeInv, KnockInv, Crash
  PROVE  KnockInv'
<1>1. /\ ~up' /\ knocks' = {} /\ repMem' = repMem /\ handed' = [k \in Knocks |-> 0]
  BY DEF Crash
<1>2. KnockFrames' = KnockFrames
  BY <1>1 DEF KnockFrames, FramesOf
<1>3. Remembered' /\ ToldRemembered' /\ RememberedIsRecorded'
  BY <1>1 DEF Remembered, ToldRemembered, RememberedIsRecorded
<1>4. KnockRecordedOnce'
  BY <1>1, <1>2 DEF KnockInv, KnockRecordedOnce, KnockFrames
<1>5. QED
  BY <1>3, <1>4 DEF KnockInv

LEMMA KnockInvStep ==
  ASSUME TypeInv, KnockInv, [Next]_vars
  PROVE  KnockInv'
<1> USE DEF calendar, counter, session, asking, requestFile, process, memory
<1>1. CASE \/ \E r \in Requests : WriteRequest(r) \/ Reply(r)
           \/ \E k \in Knocks : MakeKnock(k) \/ PushKnock(k)
           \/ \E c \in Codes : Trade(c)
           \/ Midnight
           \/ \E i \in DOMAIN queries : AnswerQuery(i) \/ FailQuery(i)
           \/ \E i \in DOMAIN reqMem : ReadReqMem(i)
           \/ RunKnockQuery \/ RunPositionQuery \/ RunWatch
           \/ SendTradeRequest \/ SendQuery \/ SendMonitorRisk
           \/ UNCHANGED vars
  <2>1. UNCHANGED <<knocks, handed, up, starts, natureDay, repMem>>
    BY <1>1, Zenon
    DEF WriteRequest, Reply, MakeKnock, PushKnock, Trade, Midnight, AnswerQuery, FailQuery, ReadReqMem,
        RunKnockQuery, RunPositionQuery, RunWatch, SendTradeRequest, SendQuery, SendMonitorRisk, vars
  <2>2. QED
    BY <2>1, KnockInvOther
<1>2. CASE SendTradeReply
  <2>1. queue # <<>> /\ Head(queue) \in MessageNow /\ Head(queue).type = "TradeRep"
    BY <1>2, QueueSteps DEF SendTradeReply, Front
  <2>2. Head(queue).id \in Requests
    BY <2>1, MessageCases
  <2>3. TradeRep(Head(queue).id) \in FrameNow /\ TradeRep(Head(queue).id).type # "TradeKnock"
    BY <2>2 DEF FrameNow, TradeRep
  <2>4. repMem' = repMem \/ repMem' = Append(repMem, TradeRep(Head(queue).id))
    BY <1>2, Zenon DEF SendTradeReply
  <2>5. UNCHANGED <<knocks, handed, up, starts, natureDay>>
    BY <1>2, Zenon DEF SendTradeReply
  <2>6. QED
    BY <2>3, <2>4, <2>5, KnockInvOther
<1>3. CASE SendQueryTradePositionRep
  <2>1. queue # <<>> /\ Head(queue) \in MessageNow /\ Head(queue).type = "QueryTradePositionRep"
    BY <1>3, QueueSteps DEF SendQueryTradePositionRep, Front
  <2>2. Head(queue).holdings \subseteq Holding
    BY <2>1, MessageCases
  <2>3. repMem' = repMem \/ \E p \in Head(queue).holdings : repMem' = Append(repMem, PositionFrame(p))
    BY <1>3 DEF SendQueryTradePositionRep
  <2>4. \A p \in Holding : PositionFrame(p) \in FrameNow /\ PositionFrame(p).type # "TradeKnock"
    BY DEF Holding, PositionFrame, FrameNow, TypeInv, Core
  <2>5. UNCHANGED <<knocks, handed, up, starts, natureDay>>
    BY <1>3, Zenon DEF SendQueryTradePositionRep
  <2>6. QED
    BY <2>2, <2>3, <2>4, <2>5, KnockInvOther
<1>4. CASE HandleSignal
  <2>1. HeartBeat \in FrameNow /\ HeartBeat.type # "TradeKnock"
    BY DEF FrameNow, HeartBeat
  <2>2. repMem' = repMem \/ repMem' = Append(repMem, HeartBeat)
    BY <1>4, Zenon DEF HandleSignal, DoWatch
  <2>3. UNCHANGED <<knocks, handed, up, starts, natureDay>>
    BY <1>4, Zenon DEF HandleSignal
  <2>4. QED
    BY <2>1, <2>2, <2>3, KnockInvOther
<1>5. QED
  BY <1>1, <1>2, <1>3, <1>4, KnockInvLoop, KnockInvOthers, KnockInvStart, KnockInvCrash
  DEF Next, HandleQueueMessage

LEMMA KnockInvAlways == Spec => [](TypeInv /\ KnockInv)
BY TypeInvInit, TypeInvStep, KnockInvInit, KnockInvStep, PTL DEF Spec

\* However a knock comes, pushed or queried, in this process or a later one, the reply
\* file holds it once, but for processes started on a later day (IsNewMemTradeKnock).
THEOREM ServerRecordsKnocksOnce == Spec => []KnockRecordedOnce
BY KnockInvAlways, PTL DEF KnockInv

\* A process tells the position masters of a knock at most once (SendTradeKnock).
THEOREM ServerTellsMastersOnce == Spec => []MastersToldOnce
<1>1. KnockInv => MastersToldOnce
  BY DEF KnockInv, ToldRemembered, MastersToldOnce
<1>2. QED
  BY <1>1, KnockInvAlways, PTL

LEMMA TailShrinks ==
  ASSUME NEW S, NEW s \in Seq(S), s # <<>>
  PROVE  Tail(s) # s /\ \A m \in S : Tail(s) # Append(s, m)
<1>1. Len(Tail(s)) = Len(s) - 1 /\ Len(s) \in Nat
  BY TailElements
<1>2. \A m \in S : Len(Append(s, m)) = Len(s) + 1
  BY AppendElements
<1>3. \A n \in Nat : n - 1 # n /\ n - 1 # n + 1
  OBVIOUS
<1>4. Len(Tail(s)) # Len(s) /\ \A m \in S : Len(Tail(s)) # Len(Append(s, m))
  BY <1>1, <1>2, <1>3, Zenon
<1>5. QED
  BY <1>4, Zenon

\* A knock at the front of the queue leaves it only through SendTradeKnock: every
\* other step keeps the queue, appends to it, or begins or ends the process.
LEMMA KnockTaken ==
  ASSUME TypeInv, [Next]_vars, NEW k \in Knocks,
         queue # <<>>, Head(queue) = TradeKnock(k), queue' = Tail(queue), up'
  PROVE  SendTradeKnock
<1> USE DEF calendar, counter, session, asking, requestFile, process, memory
<1>1. queue # queue' /\ \A m \in MessageNow : queue' # Append(queue, m)
  <2>1. queue \in Seq(MessageNow)
    BY DEF TypeInv, Flows
  <2>2. QED
    BY <2>1, TailShrinks
<1>2. Head(queue).type = "TradeKnock"
  BY DEF TradeKnock
<1>3. ASSUME \/ \E r \in Requests : WriteRequest(r)
             \/ \E j \in Knocks : MakeKnock(j)
             \/ \E j \in OthersKnocks : WriteOthersKnock(j)
             \/ \E c \in Codes : Trade(c)
             \/ Midnight
             \/ UNCHANGED vars
      PROVE  FALSE
  BY <1>1, <1>3 DEF WriteRequest, MakeKnock, WriteOthersKnock, Trade, Midnight, vars
<1>4. ASSUME \/ \E r \in Requests : Reply(r)
             \/ \E i \in DOMAIN reqMem : ReadReqMem(i)
      PROVE  FALSE
  <2>1. \E r \in Requests : queue' = Append(queue, TradeRep(r)) \/ queue' = Append(queue, TradeReq(r))
    <3>1. CASE \E r \in Requests : Reply(r)
      BY <3>1 DEF Reply, Push
    <3>2. CASE \E i \in DOMAIN reqMem : ReadReqMem(i)
      <4>1. PICK i \in DOMAIN reqMem : ReadReqMem(i)
        BY <3>2
      <4>2. reqMem[i] \in Requests
        BY DEF TypeInv, Core
      <4>3. QED
        BY <4>1, <4>2 DEF ReadReqMem, PassOn, Push
    <3>3. QED
      BY <1>4, <3>1, <3>2
  <2>2. QED
    BY <1>1, <2>1, MakeMessage
<1>5. ASSUME NEW j \in Knocks, PushKnock(j)
      PROVE  FALSE
  <2>1. j \in Happened /\ queue' = Append(queue, TradeKnock(j))
    BY <1>5 DEF PushKnock, Push, Elements, TypeInv, Core
  <2>2. QED
    BY <1>1, <2>1, MakeMessage
<1>6. ASSUME NEW i \in DOMAIN queries, AnswerQuery(i) \/ FailQuery(i)
      PROVE  FALSE
  <2>1. queries[i] \in QueryNow
    BY DEF TypeInv, Flows
  <2>2. \A m \in Answers(queries[i]) \cup ErrorAnswers(queries[i]) : m \in MessageNow
    BY <2>1, AnswersTypes
  <2>3. \/ queue' = queue
        \/ \E m \in Answers(queries[i]) \cup ErrorAnswers(queries[i]) : queue' = Append(queue, m)
    BY <1>6 DEF AnswerQuery, FailQuery, Push
  <2>4. QED
    BY <1>1, <2>2, <2>3
<1>7. ASSUME RunKnockQuery \/ RunPositionQuery \/ RunWatch
      PROVE  FALSE
  <2>1. KnockQuery(nextCursor) \in MessageNow /\ PositionQuery(FALSE) \in MessageNow
        /\ Signal \in MessageNow
    BY MakeMessage DEF TypeInv, Core
  <2>2. QED
    BY <1>1, <1>7, <2>1 DEF RunKnockQuery, RunPositionQuery, RunWatch, Push
<1>8. ~Start /\ ~Crash
  BY DEF Start, Crash, TypeInv
<1>9. HandleQueueMessage => SendTradeKnock
  BY <1>2 DEF HandleQueueMessage, SendTradeRequest, SendTradeReply, SendQuery,
       SendQueryTradeKnockRep, SendQueryTradePositionRep, SendMonitorRisk, HandleSignal, Front
<1>10. QED
  BY <1>3, <1>4, <1>5, <1>6, <1>7, <1>8, <1>9 DEF Next

\* Where match numbers tell knocks apart, what a process remembers is in the file.
LEMMA RecordedByNumber ==
  ASSUME Spot \/ \A j, k \in AllKnocks : MatchNo[j] = MatchNo[k] => j = k,
         TypeInv', RememberedIsRecorded', NEW k \in Knocks, InnerMatchNo(k) \in knocks'
  PROVE  Recorded(k)'
<1>1. PICK i \in KnockFrames' : InnerMatchNo(repMem'[i].knock) = InnerMatchNo(k)
  BY DEF RememberedIsRecorded, InnerMatchNo
<1>2. repMem'[i].knock \in AllKnocks /\ k \in AllKnocks
  <2>1. (repMem[i] \in FrameNow /\ repMem[i].type = "TradeKnock")'
    BY <1>1 DEF KnockFrames, FramesOf, TypeInv, Flows
  <2>2. QED
    BY <2>1, FrameCases DEF AllKnocks, FrameNow
<1>3. repMem'[i].knock = k
  BY <1>1, <1>2, ServerAssumption DEF InnerMatchNo
<1>4. QED
  BY <1>1, <1>3 DEF Recorded, KnockFrames

\* Where match numbers tell knocks apart (they do for stocks, whose knocks carry the
\* order number in them), a pushed knock is never dropped unless the reply file has it.
THEOREM ServerDropsNoKnock ==
  ASSUME Spot \/ \A j, k \in AllKnocks : MatchNo[j] = MatchNo[k] => j = k
  PROVE  Spec => PushedIsRecorded
<1>1. ASSUME TypeInv, KnockInv, [Next]_vars, NEW k \in Knocks,
             queue # <<>>, Head(queue) = TradeKnock(k), queue' = Tail(queue), up'
      PROVE  Recorded(k)'
  <2>1. SendTradeKnock
    BY <1>1, KnockTaken
  <2>2. Head(queue).knock = k /\ Head(queue) \in MessageNow /\ Head(queue).type = "TradeKnock"
    BY <1>1, QueueSteps DEF TradeKnock
  <2>3. k \in Happened /\ Record(k) /\ up /\ UNCHANGED <<up, starts, natureDay>>
    BY <2>1, <2>2, MessageCases DEF SendTradeKnock, Front, process
  <2>4. InnerMatchNo(k) \in knocks' /\ RememberedIsRecorded'
    BY <1>1, <2>3, RecordKeeps
  <2>5. TypeInv' /\ k \in Knocks
    BY <1>1, TypeInvStep
  <2>6. QED
    BY <2>4, <2>5, RecordedByNumber
<1>2. ASSUME TypeInv, KnockInv, [Next]_vars
      PROVE  [\A k \in Knocks :
                (queue # <<>> /\ Head(queue) = TradeKnock(k) /\ queue' = Tail(queue) /\ up')
                  => Recorded(k)']_vars
  BY <1>1, <1>2
<1>3. QED
  BY <1>2, KnockInvAlways, PTL DEF Spec, PushedIsRecorded

-----------------------------------------------------------------------------
(* The cursor of the knock query.                                          *)

Rec == {repMem[i].knock : i \in KnockFrames}   \* the knocks in the reply file
\* The first n knocks of the counter's list m are in R or among the items.
Covered(m, R, n, items) == \A i \in 1 .. n : m[i] \in R \/ m[i] \in Elements(items)
\* The rest of the reply that is being worked off.
FrontItems(q) ==
  IF q # <<>> /\ Head(q).type = "QueryTradeKnockRep" THEN Head(q).items ELSE <<>>

\* Cursors only stand behind knocks that are in the reply file, or will be once the
\* reply they came with is worked off.
CursorInv ==
  /\ \A q \in Elements(queries) :
       q.type = "QueryTradeKnockReq" => Covered(made, Rec, q.cursor, <<>>)
  /\ \A m \in Elements(queue) :
       /\ m.type = "QueryTradeKnockRep" => Covered(made, Rec, m.next_cursor, m.items)
       /\ m.type = "QueryTradeKnockReq" => Covered(made, Rec, m.cursor, FrontItems(queue))
  /\ Covered(made, Rec, nextCursor, FrontItems(queue))

\* Neither the reply file nor the counter's list forgets.
FilesGrow ==
  /\ Rec \subseteq Rec'
  /\ \A i \in 1 .. Len(made) : made'[i] = made[i]

LEMMA CoveredStays ==
  ASSUME FilesGrow, Len(made) \in Nat, NEW n \in 0 .. Len(made), NEW s, NEW t,
         Covered(made, Rec, n, s), Elements(s) \subseteq Elements(t) \cup Rec'
  PROVE  Covered(made', Rec', n, t)
<1>1. \A i \in 1 .. n : i \in 1 .. Len(made)
  OBVIOUS
<1>2. QED
  BY <1>1 DEF FilesGrow, Covered

LEMMA WithoutSubset ==
  ASSUME NEW S, NEW s \in Seq(S), NEW i \in DOMAIN s
  PROVE  Elements(Without(s, i)) \subseteq Elements(s)
<1> DEFINE a == SubSeq(s, 1, i - 1)
           b == SubSeq(s, i + 1, Len(s))
<1>1. i \in 1 .. Len(s) /\ Len(s) \in Nat /\ DOMAIN s = 1 .. Len(s)
  OBVIOUS
<1>2. a \in Seq(S) /\ Len(a) = i - 1 /\ \A j \in 1 .. i - 1 : a[j] = s[j]
  BY <1>1
<1>3. b \in Seq(S) /\ Len(b) = Len(s) - i /\ \A j \in 1 .. Len(s) - i : b[j] = s[i + j]
  BY <1>1
<1> HIDE DEF a, b
<1>4. \A j \in DOMAIN (a \o b) : \/ j \in 1 .. Len(a) /\ (a \o b)[j] = a[j]
                                 \/ j - Len(a) \in 1 .. Len(b) /\ (a \o b)[j] = b[j - Len(a)]
  BY <1>2, <1>3
<1>5. \A j \in DOMAIN (a \o b) : \E l \in DOMAIN s : (a \o b)[j] = s[l]
  <2>1. SUFFICES ASSUME NEW j \in DOMAIN (a \o b)
                 PROVE  \E l \in DOMAIN s : (a \o b)[j] = s[l]
    OBVIOUS
  <2>2. CASE j \in 1 .. Len(a) /\ (a \o b)[j] = a[j]
    <3>1. j \in DOMAIN s /\ a[j] = s[j]
      BY <1>1, <1>2, <2>2
    <3>2. QED
      BY <2>2, <3>1
  <2>3. CASE j - Len(a) \in 1 .. Len(b) /\ (a \o b)[j] = b[j - Len(a)]
    <3>1. PICK l \in 1 .. Len(b) : l = j - Len(a)
      BY <2>3
    <3>2. i + l \in 1 .. Len(s) /\ b[l] = s[i + l]
      BY <1>1, <1>3, <3>1
    <3>3. QED
      BY <1>1, <2>3, <3>1, <3>2
  <2>4. QED
    BY <1>4, <2>2, <2>3
<1>6. Without(s, i) = a \o b
  BY DEF Without, a, b
<1>7. QED
  BY <1>5, <1>6 DEF Elements

LEMMA ReplyFileGrows ==
  ASSUME TypeInv, [Next]_vars
  PROVE  repMem' = repMem \/ \E f \in FrameNow : repMem' = Append(repMem, f)
<1> USE DEF calendar, counter, session, asking, requestFile, process, memory
<1>1. \A t : Front(t) => queue # <<>> /\ Head(queue) \in MessageNow /\ Head(queue).type = t
  BY QueueSteps DEF Front
<1>2. \A k \in Happened : KnockFrame(k) \in FrameNow
  <2>1. starts \in 0 .. starts /\ \A k \in Happened : k \in AllKnocks /\ natureDay \in Nat
    BY DEF TypeInv, Core, Happened, AllKnocks
  <2>2. QED
    BY <2>1 DEF Happened, FrameNow, KnockFrame
<1>3. CASE SendTradeKnock
  <2>1. Head(queue).knock \in Happened
    BY <1>1, <1>3, MessageCases DEF SendTradeKnock
  <2>2. QED
    BY <1>2, <1>3, <2>1 DEF SendTradeKnock, Record
<1>4. CASE SendQueryTradeKnockRep
  <2>1. Head(queue).items \in Seq(Happened)
    BY <1>1, <1>4, MessageCases DEF SendQueryTradeKnockRep
  <2>2. Head(queue).items # <<>> => Head(Head(queue).items) \in Happened
    BY <2>1, TailElements
  <2>3. QED
    BY <1>2, <1>4, <2>2 DEF SendQueryTradeKnockRep, Record
<1>5. CASE SendTradeReply
  <2>1. Head(queue).id \in Requests
    BY <1>1, <1>5, MessageCases DEF SendTradeReply
  <2>2. TradeRep(Head(queue).id) \in FrameNow
    BY <2>1 DEF FrameNow, TradeRep
  <2>3. QED
    BY <1>5, <2>2 DEF SendTradeReply
<1>6. CASE SendQueryTradePositionRep
  <2>1. Head(queue).holdings \subseteq Holding
    BY <1>1, <1>6, MessageCases DEF SendQueryTradePositionRep
  <2>2. \A p \in Holding : PositionFrame(p) \in FrameNow
    BY DEF Holding, PositionFrame, FrameNow, TypeInv, Core
  <2>3. repMem' = repMem \/ \E p \in Head(queue).holdings : repMem' = Append(repMem, PositionFrame(p))
    BY <1>6 DEF SendQueryTradePositionRep
  <2>4. QED
    BY <2>1, <2>2, <2>3
<1>7. CASE HandleSignal
  <2>1. HeartBeat \in FrameNow
    BY DEF FrameNow
  <2>2. repMem' = repMem \/ repMem' = Append(repMem, HeartBeat)
    BY <1>7, Zenon DEF HandleSignal, DoWatch
  <2>3. QED
    BY <2>1, <2>2
<1>8. CASE \E k \in OthersKnocks : WriteOthersKnock(k)
  <2>1. PICK k \in OthersKnocks : WriteOthersKnock(k)
    BY <1>8
  <2>2. 0 \in 0 .. starts /\ DateOf[k] <= day /\ day \in Nat /\ k \in AllKnocks
    BY <2>1 DEF WriteOthersKnock, AllKnocks, TypeInv, Core
  <2>3. OthersFrame(k) \in FrameNow
    BY <2>2 DEF FrameNow, OthersFrame
  <2>4. QED
    BY <2>1, <2>3 DEF WriteOthersKnock
<1>9. CASE \/ \E r \in Requests : WriteRequest(r) \/ Reply(r)
           \/ \E k \in Knocks : MakeKnock(k) \/ PushKnock(k)
           \/ \E c \in Codes : Trade(c)
           \/ Midnight
           \/ \E i \in DOMAIN queries : AnswerQuery(i) \/ FailQuery(i)
           \/ \E i \in DOMAIN reqMem : ReadReqMem(i)
           \/ RunKnockQuery \/ RunPositionQuery \/ RunWatch
           \/ SendTradeRequest \/ SendQuery \/ SendMonitorRisk
           \/ Start \/ Crash \/ UNCHANGED vars
  BY <1>9, Zenon
  DEF WriteRequest, Reply, MakeKnock, PushKnock, Trade, Midnight, AnswerQuery, FailQuery, ReadReqMem,
      RunKnockQuery, RunPositionQuery, RunWatch, SendTradeRequest, SendQuery, SendMonitorRisk,
      Start, Crash, vars
<1>10. QED
  BY <1>3, <1>4, <1>5, <1>6, <1>7, <1>8, <1>9 DEF Next, HandleQueueMessage

LEMMA FilesGrowAlways ==
  ASSUME TypeInv, [Next]_vars
  PROVE  FilesGrow
<1> USE DEF calendar, counter, session, asking, requestFile, process, memory
<1>1. Rec \subseteq Rec'
  <2>1. CASE repMem' = repMem
    BY <2>1 DEF Rec, KnockFrames, FramesOf
  <2>2. CASE \E f \in FrameNow : repMem' = Append(repMem, f)
    <3>1. \A i \in KnockFrames : i \in KnockFrames' /\ repMem'[i] = repMem[i]
      BY <2>2, FrameAppended
    <3>2. QED
      BY <3>1 DEF Rec
  <2>3. QED
    BY <2>1, <2>2, ReplyFileGrows
<1>2. \A i \in 1 .. Len(made) : made'[i] = made[i]
  <2>1. made' = made \/ \E k \in Knocks : MakeKnock(k)
    BY Zenon
    DEF Next, HandleQueueMessage, WriteRequest, Reply, PushKnock, WriteOthersKnock, Trade, Midnight,
        AnswerQuery, FailQuery, ReadReqMem, RunKnockQuery, RunPositionQuery, RunWatch,
        SendTradeRequest, SendTradeReply, SendTradeKnock, SendQuery, SendQueryTradeKnockRep,
        SendQueryTradePositionRep, SendMonitorRisk, HandleSignal, Start, Crash, vars
  <2>2. ASSUME NEW k \in Knocks, MakeKnock(k)
        PROVE  \A i \in 1 .. Len(made) : made'[i] = made[i]
    <3>1. made \in Seq(Knocks) /\ made' = Append(made, k)
      BY <2>2, NowIsTyped DEF MakeKnock, TypeOK
    <3>2. QED
      BY <3>1, AppendElements
  <2>3. QED
    BY <2>1, <2>2
<1>3. QED
  BY <1>1, <1>2 DEF FilesGrow

LEMMA CursorKeeps ==
  ASSUME TypeInv, CursorInv, FilesGrow,
         Elements(FrontItems(queue)) \subseteq Elements(FrontItems(queue')) \cup Rec',
         Covered(made', Rec', nextCursor', FrontItems(queue')),
         \A q \in Elements(queries') :
           \/ q \in Elements(queries)
           \/ q.type = "QueryTradeKnockReq" => Covered(made', Rec', q.cursor, <<>>),
         \A m \in Elements(queue') :
           \/ m \in Elements(queue)
           \/ /\ m.type = "QueryTradeKnockRep" => Covered(made', Rec', m.next_cursor, m.items)
              /\ m.type = "QueryTradeKnockReq" => m.cursor = nextCursor'
  PROVE  CursorInv'
<1>1. /\ \A q \in Elements(queries) : q \in QueryNow
      /\ \A m \in Elements(queue) : m \in MessageNow
      /\ Len(made) \in Nat
  BY DEF TypeInv, Flows, Core, Elements
<1>2. \A q \in Elements(queries') :
        q.type = "QueryTradeKnockReq" => Covered(made', Rec', q.cursor, <<>>)
  <2>1. SUFFICES ASSUME NEW q \in Elements(queries), q.type = "QueryTradeKnockReq"
                 PROVE  Covered(made', Rec', q.cursor, <<>>)
    OBVIOUS
  <2>2. q.cursor \in 0 .. Len(made) /\ Covered(made, Rec, q.cursor, <<>>)
    BY <1>1, <2>1, QueryCases DEF CursorInv
  <2>3. QED
    BY <1>1, <2>2, CoveredStays
<1>3. ASSUME NEW m \in Elements(queue'), m.type = "QueryTradeKnockRep"
      PROVE  Covered(made', Rec', m.next_cursor, m.items)
  <2>1. SUFFICES ASSUME m \in Elements(queue)
                 PROVE  Covered(made', Rec', m.next_cursor, m.items)
    BY <1>3
  <2>2. m.next_cursor \in 0 .. Len(made) /\ Covered(made, Rec, m.next_cursor, m.items)
    BY <1>1, <1>3, <2>1, MessageCases DEF CursorInv
  <2>3. QED
    BY <1>1, <2>2, CoveredStays
<1>4. ASSUME NEW m \in Elements(queue'), m.type = "QueryTradeKnockReq"
      PROVE  Covered(made', Rec', m.cursor, FrontItems(queue'))
  <2>1. SUFFICES ASSUME m \in Elements(queue)
                 PROVE  Covered(made', Rec', m.cursor, FrontItems(queue'))
    BY <1>4
  <2>2. m \in QueryNow /\ Covered(made, Rec, m.cursor, FrontItems(queue))
    BY <1>1, <1>4, <2>1, MessageCases DEF CursorInv
  <2>3. m.cursor \in 0 .. Len(made)
    BY <1>4, <2>2, QueryCases
  <2>4. QED
    BY <1>1, <2>2, <2>3, CoveredStays
<1>5. CursorInv' <=>
        /\ \A q \in Elements(queries') :
             q.type = "QueryTradeKnockReq" => Covered(made', Rec', q.cursor, <<>>)
        /\ \A m \in Elements(queue') :
             /\ m.type = "QueryTradeKnockRep" => Covered(made', Rec', m.next_cursor, m.items)
             /\ m.type = "QueryTradeKnockReq" => Covered(made', Rec', m.cursor, FrontItems(queue'))
        /\ Covered(made', Rec', nextCursor', FrontItems(queue'))
  BY DEF CursorInv, Covered, FrontItems, Elements
<1>6. QED
  BY <1>2, <1>3, <1>4, <1>5, Zenon

\* Messages at the back leave the front as it is.
LEMMA FrontAppend ==
  ASSUME NEW S, NEW s \in Seq(S), NEW m \in S
  PROVE  Elements(FrontItems(s)) \subseteq Elements(FrontItems(Append(s, m)))
<1>1. CASE s = <<>>
  BY <1>1 DEF FrontItems, Elements
<1>2. CASE s # <<>>
  <2>1. Append(s, m) # <<>> /\ Head(Append(s, m)) = Head(s)
    BY <1>2
  <2>2. QED
    BY <1>2, <2>1 DEF FrontItems
<1>3. QED
  BY <1>1, <1>2

\* Steps that leave the cursor alone and do not work off a reply.
LEMMA CursorPush ==
  ASSUME TypeInv, CursorInv, FilesGrow, nextCursor' = nextCursor,
         queries' = queries \/ \E i \in DOMAIN queries : queries' = Without(queries, i),
         \/ queue' = queue
         \/ \E m \in MessageNow :
              /\ queue' = Append(queue, m)
              /\ m.type = "QueryTradeKnockRep" => Covered(made', Rec', m.next_cursor, m.items)
              /\ m.type = "QueryTradeKnockReq" => m.cursor = nextCursor
  PROVE  CursorInv'
<1>1. queue \in Seq(MessageNow) /\ queries \in Seq(QueryNow)
      /\ nextCursor \in 0 .. Len(made) /\ Len(made) \in Nat
  BY DEF TypeInv, Flows, Core
<1>2. Elements(FrontItems(queue)) \subseteq Elements(FrontItems(queue'))
  BY <1>1, FrontAppend
<1>3. Covered(made', Rec', nextCursor', FrontItems(queue'))
  BY <1>1, <1>2, CoveredStays DEF CursorInv
<1>4. \A q \in Elements(queries') : q \in Elements(queries)
  BY <1>1, WithoutSubset
<1>5. \A m \in Elements(queue') :
        \/ m \in Elements(queue)
        \/ /\ m.type = "QueryTradeKnockRep" => Covered(made', Rec', m.next_cursor, m.items)
           /\ m.type = "QueryTradeKnockReq" => m.cursor = nextCursor'
  <2>1. CASE queue' = queue
    BY <2>1
  <2>2. CASE \E m \in MessageNow :
               /\ queue' = Append(queue, m)
               /\ m.type = "QueryTradeKnockRep" => Covered(made', Rec', m.next_cursor, m.items)
               /\ m.type = "QueryTradeKnockReq" => m.cursor = nextCursor
    <3>1. PICK m \in MessageNow :
            /\ queue' = Append(queue, m)
            /\ m.type = "QueryTradeKnockRep" => Covered(made', Rec', m.next_cursor, m.items)
            /\ m.type = "QueryTradeKnockReq" => m.cursor = nextCursor
      BY <2>2
    <3>2. Elements(queue') = Elements(queue) \cup {m}
      BY <1>1, <3>1, AppendElements
    <3>3. QED
      BY <3>1, <3>2
  <2>3. QED
    BY <2>1, <2>2
<1>6. QED
  BY <1>2, <1>3, <1>4, <1>5, CursorKeeps

LEMMA MessageElements ==
  \A s \in Seq(MessageNow), m \in MessageNow :
    /\ Elements(Append(s, m)) = Elements(s) \cup {m}
    /\ Elements(<<m>> \o s) = Elements(s) \cup {m}
BY AppendElements, ConsElements

\* The main loop is done with a message that has no items to work off.
LEMMA CursorDone ==
  ASSUME TypeInv, CursorInv, FilesGrow, nextCursor' = nextCursor, queue # <<>>,
         FrontItems(queue) = <<>>,
         \/ queries' = queries
         \/ queries' = Append(queries, Head(queue)) /\ Head(queue) \in QueryNow,
         \/ queue' = Tail(queue)
         \/ \E m \in MessageNow :
              /\ queue' = Append(Tail(queue), m) \/ queue' = <<m>> \o Tail(queue)
              /\ m.type \notin {"QueryTradeKnockRep", "QueryTradeKnockReq"}
  PROVE  CursorInv'
<1>1. queue \in Seq(MessageNow) /\ queries \in Seq(QueryNow)
      /\ nextCursor \in 0 .. Len(made) /\ Len(made) \in Nat
  BY DEF TypeInv, Flows, Core
<1>2. Elements(FrontItems(queue)) = {}
  BY DEF Elements
<1>3. Covered(made', Rec', nextCursor', FrontItems(queue'))
  BY <1>1, <1>2, CoveredStays DEF CursorInv
<1>4. Tail(queue) \in Seq(MessageNow) /\ Elements(queue) = Elements(Tail(queue)) \cup {Head(queue)}
      /\ Head(queue) \in MessageNow
  BY <1>1, TailElements
<1>5. \A q \in Elements(queries') :
        \/ q \in Elements(queries)
        \/ q.type = "QueryTradeKnockReq" => Covered(made', Rec', q.cursor, <<>>)
  <2>1. SUFFICES ASSUME queries' = Append(queries, Head(queue)), Head(queue) \in QueryNow,
                        Head(queue).type = "QueryTradeKnockReq"
                 PROVE  Covered(made', Rec', Head(queue).cursor, <<>>)
    <3>1. Head(queue) \in QueryNow =>
            Elements(Append(queries, Head(queue))) = Elements(queries) \cup {Head(queue)}
      BY <1>1, AppendElements
    <3>2. QED
      BY <3>1
  <2>2. Head(queue).cursor \in 0 .. Len(made)
    BY <2>1, QueryCases
  <2>3. Covered(made, Rec, Head(queue).cursor, <<>>)
    BY <1>4, <2>1 DEF CursorInv
  <2>4. QED
    BY <1>1, <2>2, <2>3, CoveredStays
<1>6. \A m \in Elements(queue') :
        \/ m \in Elements(queue)
        \/ m.type \notin {"QueryTradeKnockRep", "QueryTradeKnockReq"}
  <2>1. CASE queue' = Tail(queue)
    BY <1>4, <2>1
  <2>2. \A m \in MessageNow :
          /\ Elements(Append(Tail(queue), m)) = Elements(Tail(queue)) \cup {m}
          /\ Elements(<<m>> \o Tail(queue)) = Elements(Tail(queue)) \cup {m}
    BY <1>4, MessageElements, Zenon
  <2>3. CASE \E m \in MessageNow :
               /\ queue' = Append(Tail(queue), m) \/ queue' = <<m>> \o Tail(queue)
               /\ m.type \notin {"QueryTradeKnockRep", "QueryTradeKnockReq"}
    <3>1. PICK m \in MessageNow :
            /\ queue' = Append(Tail(queue), m) \/ queue' = <<m>> \o Tail(queue)
            /\ m.type \notin {"QueryTradeKnockRep", "QueryTradeKnockReq"}
      BY <2>3
    <3>2. Elements(queue') = Elements(Tail(queue)) \cup {m}
      BY <2>2, <3>1
    <3>3. QED
      BY <1>4, <3>1, <3>2
  <2>4. QED
    BY <2>1, <2>3
<1>7. QED
  BY <1>2, <1>3, <1>5, <1>6, CursorKeeps

\* What the counter answers lies right behind the cursor of the query.
LEMMA AnswerCovers ==
  ASSUME TypeInv, CursorInv, FilesGrow, made' = made, NEW i \in DOMAIN queries,
         NEW answer \in Answers(queries[i]) \cup ErrorAnswers(queries[i])
  PROVE  /\ answer.type = "QueryTradeKnockRep" =>
              Covered(made', Rec', answer.next_cursor, answer.items)
         /\ answer.type # "QueryTradeKnockReq"
<1>1. PICK q \in QueryNow : q = queries[i]
  BY DEF TypeInv, Flows
<1>2. q \in Elements(queries) /\ made \in Seq(Knocks) /\ Len(made) \in Nat
  BY <1>1, NowIsTyped DEF Elements, TypeOK
<1>3. CASE q.type = "QueryTradeKnockReq"
  <2>1. PICK c \in 0 .. Len(made) : c = q.cursor
    BY <1>3, QueryCases
  <2>2. Covered(made, Rec', c, <<>>)
    <3>1. Covered(made, Rec, c, <<>>)
      BY <1>2, <1>3, <2>1 DEF CursorInv
    <3>2. QED
      BY <3>1 DEF Covered, FilesGrow
  <2>3. CASE answer \in {KnockPage(d, <<>>) : d \in {0, c}}
    <3>1. PICK d \in {0, c} : answer = KnockPage(d, <<>>)
      BY <2>3
    <3>2. Covered(made, Rec', d, <<>>)
      BY <2>2 DEF Covered
    <3>3. answer.type = "QueryTradeKnockRep" /\ answer.next_cursor = d /\ answer.items = <<>>
      BY <3>1 DEF KnockPage
    <3>4. QED
      BY <3>2, <3>3
  <2>4. ASSUME NEW n \in 0 .. PageSize, n <= Len(made) - c,
               answer = KnockPage(c + n, SubSeq(made, c + 1, c + n))
        PROVE  /\ answer.type = "QueryTradeKnockRep"
               /\ Covered(made, Rec', answer.next_cursor, answer.items)
    <3> DEFINE items == SubSeq(made, c + 1, c + n)
    <3>1. n \in Nat /\ c \in Nat /\ c + n <= Len(made)
      BY <1>2, <2>1, <2>4, ServerAssumption
    <3>2. Len(items) = n /\ DOMAIN items = 1 .. n /\ \A j \in 1 .. n : items[j] = made[c + j]
      BY <1>2, <3>1
    <3>3. answer.type = "QueryTradeKnockRep" /\ answer.next_cursor = c + n /\ answer.items = items
      BY <2>4 DEF KnockPage
    <3> HIDE DEF items
    <3>4. ASSUME NEW j \in 1 .. c + n
          PROVE  made[j] \in Rec' \/ made[j] \in Elements(items)
      <4>1. CASE j \in 1 .. c
        BY <2>2, <4>1 DEF Covered, Elements
      <4>2. CASE j \notin 1 .. c
        <5>1. PICK l \in 1 .. n : j = c + l
          <6>1. j - c \in 1 .. n /\ j = c + (j - c)
            BY <3>1, <4>2
          <6>2. QED
            BY <6>1
        <5>2. QED
          BY <3>2, <5>1 DEF Elements
      <4>3. QED
        BY <4>1, <4>2
    <3>5. QED
      BY <3>3, <3>4 DEF Covered
  <2>5. answer \in {KnockPage(d, <<>>) : d \in {0, c}}
        \/ \E n \in 0 .. PageSize :
             n <= Len(made) - c /\ answer = KnockPage(c + n, SubSeq(made, c + 1, c + n))
    BY <1>1, <1>3, <2>1 DEF Answers, ErrorAnswers
  <2>6. QED
    BY <2>3, <2>4, <2>5
<1>4. CASE q.type # "QueryTradeKnockReq"
  <2>1. \E b, S : answer = PositionPage(b, S)
    BY <1>1, <1>4 DEF Answers, ErrorAnswers
  <2>2. QED
    BY <2>1 DEF PositionPage
<1>5. QED
  BY <1>3, <1>4

\* Outside, at the counter and in the threads beside the main loop.
LEMMA CursorOutside ==
  ASSUME TypeInv, CursorInv, [Next]_vars,
         \/ UNCHANGED vars
         \/ \E r \in Requests : WriteRequest(r) \/ Reply(r)
         \/ \E k \in Knocks : MakeKnock(k) \/ PushKnock(k)
         \/ \E k \in OthersKnocks : WriteOthersKnock(k)
         \/ \E c \in Codes : Trade(c)
         \/ Midnight
         \/ \E i \in DOMAIN queries : AnswerQuery(i) \/ FailQuery(i)
         \/ \E i \in DOMAIN reqMem : ReadReqMem(i)
         \/ RunKnockQuery \/ RunPositionQuery \/ RunWatch
  PROVE  CursorInv'
<1> USE DEF calendar, counter, session, asking, requestFile, process, memory
<1>0. FilesGrow
  BY FilesGrowAlways
<1>1. CASE \/ UNCHANGED vars
           \/ \E r \in Requests : WriteRequest(r)
           \/ \E k \in Knocks : MakeKnock(k)
           \/ \E k \in OthersKnocks : WriteOthersKnock(k)
           \/ \E c \in Codes : Trade(c)
           \/ Midnight
  <2>1. queue' = queue /\ queries' = queries /\ nextCursor' = nextCursor
    BY <1>1, Zenon DEF vars, WriteRequest, MakeKnock, WriteOthersKnock, Trade, Midnight
  <2>2. QED
    BY <1>0, <2>1, CursorPush
<1>2. ASSUME NEW m \in MessageNow, queue' = Append(queue, m), queries' = queries,
             nextCursor' = nextCursor, m.type # "QueryTradeKnockRep",
             m.type = "QueryTradeKnockReq" => m.cursor = nextCursor
      PROVE  CursorInv'
  BY <1>0, <1>2, CursorPush
<1>3. /\ \A r \in Requests : TradeRep(r).type = "TradeRep" /\ TradeReq(r).type = "TradeReq"
      /\ \A k \in Knocks : TradeKnock(k).type = "TradeKnock"
      /\ PositionQuery(FALSE).type = "QueryTradePositionReq" /\ Signal.type = "InnerCyclicSignal"
      /\ KnockQuery(nextCursor).type = "QueryTradeKnockReq"
      /\ KnockQuery(nextCursor).cursor = nextCursor
  BY DEF TradeRep, TradeReq, TradeKnock, PositionQuery, Signal, KnockQuery
<1>4. ASSUME NEW r \in Requests, Reply(r)
      PROVE  CursorInv'
  <2>1. queue' = Append(queue, TradeRep(r)) /\ queries' = queries /\ nextCursor' = nextCursor
    BY <1>4 DEF Reply, Push
  <2>2. QED
    BY <1>2, <1>3, <2>1, MakeMessage
<1>5. ASSUME NEW k \in Knocks, PushKnock(k)
      PROVE  CursorInv'
  <2>1. queue' = Append(queue, TradeKnock(k)) /\ queries' = queries /\ nextCursor' = nextCursor
        /\ k \in Happened
    BY <1>5 DEF PushKnock, Push, Elements, TypeInv, Core
  <2>2. QED
    BY <1>2, <1>3, <2>1, MakeMessage
<1>6. ASSUME NEW i \in DOMAIN queries, AnswerQuery(i) \/ FailQuery(i)
      PROVE  CursorInv'
  <2>1. /\ queries' = Without(queries, i) /\ nextCursor' = nextCursor /\ made' = made
        /\ \/ queue' = queue
           \/ \E m \in Answers(queries[i]) \cup ErrorAnswers(queries[i]) : queue' = Append(queue, m)
    BY <1>6 DEF AnswerQuery, FailQuery, Push
  <2>2. \A m \in Answers(queries[i]) \cup ErrorAnswers(queries[i]) :
          /\ m \in MessageNow
          /\ m.type = "QueryTradeKnockRep" => Covered(made', Rec', m.next_cursor, m.items)
          /\ m.type # "QueryTradeKnockReq"
    <3>1. queries[i] \in QueryNow
      BY DEF TypeInv, Flows
    <3>2. QED
      BY <1>0, <2>1, <3>1, AnswersTypes, AnswerCovers
  <2>3. QED
    BY <1>0, <2>1, <2>2, CursorPush
<1>7. ASSUME NEW i \in DOMAIN reqMem, ReadReqMem(i)
      PROVE  CursorInv'
  <2>1. reqMem[i] \in Requests
    BY DEF TypeInv, Core
  <2>2. /\ queue' = Append(queue, TradeRep(reqMem[i])) \/ queue' = Append(queue, TradeReq(reqMem[i]))
        /\ queries' = queries /\ nextCursor' = nextCursor
    BY <1>7 DEF ReadReqMem, PassOn, Push
  <2>3. QED
    BY <1>2, <1>3, <2>1, <2>2, MakeMessage
<1>8. CASE RunKnockQuery \/ RunPositionQuery \/ RunWatch
  <2>1. \/ queue' = Append(queue, KnockQuery(nextCursor))
        \/ queue' = Append(queue, PositionQuery(FALSE))
        \/ queue' = Append(queue, Signal)
    BY <1>8 DEF RunKnockQuery, RunPositionQuery, RunWatch, Push
  <2>2. queries' = queries /\ nextCursor' = nextCursor
    BY <1>8 DEF RunKnockQuery, RunPositionQuery, RunWatch
  <2>3. KnockQuery(nextCursor) \in MessageNow /\ PositionQuery(FALSE) \in MessageNow
        /\ Signal \in MessageNow
    BY MakeMessage DEF TypeInv, Core
  <2>4. QED
    BY <1>2, <1>3, <2>1, <2>2, <2>3
<1>9. QED
  BY <1>1, <1>4, <1>5, <1>6, <1>7, <1>8

\* The main loop, but for replies to knock queries.
LEMMA CursorLoop ==
  ASSUME TypeInv, CursorInv, [Next]_vars,
         SendTradeRequest \/ SendTradeReply \/ SendTradeKnock \/ SendQuery
           \/ SendQueryTradePositionRep \/ SendMonitorRisk \/ HandleSignal
  PROVE  CursorInv'
<1> USE DEF calendar, counter, session, asking, requestFile, process, memory
<1>1. FilesGrow
  BY FilesGrowAlways
<1>2. queue # <<>> /\ nextCursor' = nextCursor
  BY Zenon DEF SendTradeRequest, SendTradeReply, SendTradeKnock, SendQuery,
     SendQueryTradePositionRep, SendMonitorRisk, HandleSignal, Front
<1>3. Head(queue) \in MessageNow /\ Head(queue).type # "QueryTradeKnockRep"
  BY <1>2, QueueSteps
  DEF SendTradeRequest, SendTradeReply, SendTradeKnock, SendQuery,
     SendQueryTradePositionRep, SendMonitorRisk, HandleSignal, Front
<1>4. FrontItems(queue) = <<>>
  BY <1>3 DEF FrontItems
<1>5. CASE SendTradeReply \/ SendTradeKnock \/ SendMonitorRisk \/ HandleSignal
  <2>1. queue' = Tail(queue) /\ queries' = queries
    BY <1>5, Zenon DEF SendTradeReply, SendTradeKnock, SendMonitorRisk, HandleSignal, Done
  <2>2. QED
    BY <1>1, <1>2, <1>4, <2>1, CursorDone
<1>6. CASE SendTradeRequest
  <2>1. Head(queue).id \in Requests
    BY <1>3, <1>6, MessageCases DEF SendTradeRequest, Front
  <2>2. TradeRep(Head(queue).id) \in MessageNow /\ TradeRep(Head(queue).id).type = "TradeRep"
    BY <2>1, MakeMessage DEF TradeRep
  <2>3. queue' = Tail(queue) \/ queue' = Append(Tail(queue), TradeRep(Head(queue).id))
    BY <1>6, Zenon DEF SendTradeRequest, OnTradeRequest, Done
  <2>4. queries' = queries
    BY <1>6, Zenon DEF SendTradeRequest
  <2>5. QED
    BY <1>1, <1>2, <1>4, <2>2, <2>3, <2>4, CursorDone
<1>7. CASE SendQuery
  <2>1. Head(queue) \in QueryNow
    BY <1>3, <1>7, MessageCases DEF SendQuery, Front
  <2>2. MonitorRisk \in MessageNow /\ MonitorRisk.type = "MonitorRisk"
    BY MakeMessage DEF MonitorRisk
  <2>3. \/ queries' = Append(queries, Head(queue)) /\ queue' = Tail(queue)
        \/ queries' = queries /\ queue' = Append(Tail(queue), MonitorRisk)
    BY <1>7, Zenon DEF SendQuery, OnQuery, Done
  <2>4. QED
    BY <1>1, <1>2, <1>4, <2>1, <2>2, <2>3, CursorDone
<1>8. CASE SendQueryTradePositionRep
  <2>1. Head(queue).holdings \subseteq Holding
    BY <1>3, <1>8, MessageCases DEF SendQueryTradePositionRep, Front
  <2>2. \A p : PositionPage(FALSE, Head(queue).holdings \ {p}) \in MessageNow
               /\ PositionPage(FALSE, Head(queue).holdings \ {p}).type = "QueryTradePositionRep"
    BY <2>1, MakeMessage DEF PositionPage
  <2>3. \/ queue' = Tail(queue)
        \/ \E p : queue' = <<PositionPage(FALSE, Head(queue).holdings \ {p})>> \o Tail(queue)
    BY <1>8, Zenon DEF SendQueryTradePositionRep, Done
  <2>4. queries' = queries
    BY <1>8, Zenon DEF SendQueryTradePositionRep
  <2>5. QED
    BY <1>1, <1>2, <1>4, <2>2, <2>3, <2>4, CursorDone
<1>9. QED
  BY <1>5, <1>6, <1>7, <1>8

\* SendQueryTradeKnockRep records the first item and keeps the rest at the front.
LEMMA CursorReply ==
  ASSUME TypeInv, CursorInv, [Next]_vars, SendQueryTradeKnockRep,
         \A k \in Happened : Record(k) => k \in Rec'
  PROVE  CursorInv'
<1> USE DEF asking
<1>1. FilesGrow
  BY FilesGrowAlways
<1>2. /\ queue # <<>> /\ Head(queue) \in MessageNow /\ Head(queue).type = "QueryTradeKnockRep"
      /\ queries' = queries
  BY QueueSteps, Zenon DEF SendQueryTradeKnockRep, Front
<1>3. PICK page \in MessageNow : page = Head(queue) /\ page.type = "QueryTradeKnockRep"
  BY <1>2
<1>4. page.items \in Seq(Happened) /\ page.next_cursor \in 0 .. Len(made)
  BY <1>3, MessageCases
<1>5. queue \in Seq(MessageNow) /\ nextCursor \in 0 .. Len(made) /\ Len(made) \in Nat
  BY DEF TypeInv, Flows, Core
<1>6. /\ Tail(queue) \in Seq(MessageNow)
      /\ Elements(queue) = Elements(Tail(queue)) \cup {page}
  BY <1>2, <1>3, <1>5, TailElements
<1>7. FrontItems(queue) = page.items
  BY <1>2, <1>3 DEF FrontItems
<1>8. nextCursor' \in 0 .. Len(made) /\ Covered(made, Rec, nextCursor', page.items)
      /\ Covered(made, Rec, page.next_cursor, page.items)
  <2>1. nextCursor' = CursorAfter(page)
    BY <1>3 DEF SendQueryTradeKnockRep
  <2>2. nextCursor' = nextCursor \/ nextCursor' = page.next_cursor
    BY <2>1 DEF CursorAfter
  <2>3. Covered(made, Rec, nextCursor, page.items) /\ Covered(made, Rec, page.next_cursor, page.items)
    BY <1>3, <1>6, <1>7 DEF CursorInv
  <2>4. QED
    BY <1>4, <1>5, <2>2, <2>3
<1>9. CASE page.items = <<>>
  <2>1. queue' = Tail(queue)
    BY <1>3, <1>9 DEF SendQueryTradeKnockRep, Done
  <2>2. Elements(page.items) = {}
    BY <1>9 DEF Elements
  <2>3. Covered(made', Rec', nextCursor', FrontItems(queue'))
    BY <1>1, <1>5, <1>8, <2>2, CoveredStays
  <2>4. QED
    BY <1>1, <1>2, <1>6, <1>7, <2>1, <2>2, <2>3, CursorKeeps
<1>10. CASE page.items # <<>>
  <2>1. /\ queue' = <<KnockPage(page.next_cursor, Tail(page.items))>> \o Tail(queue)
        /\ Record(Head(page.items))
    BY <1>3, <1>10 DEF SendQueryTradeKnockRep, Rest
  <2>2. /\ Head(page.items) \in Happened /\ Tail(page.items) \in Seq(Happened)
        /\ Elements(page.items) = Elements(Tail(page.items)) \cup {Head(page.items)}
    BY <1>4, <1>10, TailElements
  <2>3. PICK rest \in MessageNow :
          /\ rest = KnockPage(page.next_cursor, Tail(page.items))
          /\ rest.type = "QueryTradeKnockRep" /\ rest.next_cursor = page.next_cursor
          /\ rest.items = Tail(page.items)
    BY <1>4, <2>2, MakeMessage DEF KnockPage
  <2>4. Elements(page.items) \subseteq Elements(rest.items) \cup Rec'
    BY <2>1, <2>2, <2>3
  <2>5. Covered(made', Rec', nextCursor', rest.items)
        /\ Covered(made', Rec', rest.next_cursor, rest.items)
    BY <1>1, <1>4, <1>5, <1>8, <2>3, <2>4, CoveredStays
  <2>6. /\ Elements(queue') = Elements(Tail(queue)) \cup {rest}
        /\ FrontItems(queue') = rest.items
    <3>0. Tail(queue) \in Seq(MessageNow) /\ rest \in MessageNow
      BY <1>6
    <3>1. Elements(<<rest>> \o Tail(queue)) = Elements(Tail(queue)) \cup {rest}
      BY <3>0, MessageElements, Zenon
    <3>2. <<rest>> \o Tail(queue) # <<>> /\ Head(<<rest>> \o Tail(queue)) = rest
      BY <3>0
    <3>3. FrontItems(<<rest>> \o Tail(queue)) = rest.items
      BY <2>3, <3>2 DEF FrontItems
    <3>4. QED
      BY <2>1, <2>3, <3>1, <3>3
  <2>7. \A m \in Elements(queue') :
          \/ m \in Elements(queue)
          \/ /\ m.type = "QueryTradeKnockRep" => Covered(made', Rec', m.next_cursor, m.items)
             /\ m.type = "QueryTradeKnockReq" => m.cursor = nextCursor'
    BY <1>6, <2>3, <2>5, <2>6
  <2>8. QED
    BY <1>1, <1>2, <1>7, <2>4, <2>5, <2>6, <2>7, CursorKeeps
<1>11. QED
  BY <1>9, <1>10

LEMMA CursorInit == Init => CursorInv
BY DEF Init, CursorInv, Covered, Elements, FrontItems

\* What Record leaves in the reply file, for the steps that begin with CursorInv.
LEMMA CursorStep ==
  ASSUME TypeInv, CursorInv, [Next]_vars,
         \A k \in Happened : SendQueryTradeKnockRep /\ Record(k) => k \in Rec'
  PROVE  CursorInv'
<1>1. CASE Start \/ Crash
  <2>1. FilesGrow
    BY FilesGrowAlways
  <2>2. queue = <<>> \/ queue' = <<>>
    BY <1>1 DEF Start, Crash, TypeInv
  <2>3. CASE Start
    <3>1. /\ nextCursor' = nextCursor /\ queries' = queries /\ queue = <<>>
          /\ queue' = <<>> \/ queue' = <<PositionQuery(TRUE)>>
      BY <2>3 DEF Start, OnStart, TypeInv, asking
    <3>2. PositionQuery(TRUE) \in MessageNow /\ PositionQuery(TRUE).type = "QueryTradePositionReq"
      BY MakeMessage DEF PositionQuery
    <3>3. \A e : Append(<<>>, e) = <<e>>
      OBVIOUS
    <3>4. queue' = queue \/ queue' = Append(queue, PositionQuery(TRUE))
      BY <3>1, <3>3
    <3>5. QED
      BY <2>1, <3>1, <3>2, <3>4, CursorPush
  <2>4. CASE Crash
    <3>1. queue' = <<>> /\ queries' = <<>> /\ nextCursor' = 0
      BY <2>4 DEF Crash
    <3>2. Elements(queries') = {} /\ Elements(queue') = {}
      BY <3>1 DEF Elements
    <3>3. \A s, t, u : Covered(s, t, 0, u)
      BY DEF Covered
    <3>4. QED
      BY <3>1, <3>2, <3>3 DEF CursorInv
  <2>5. QED
    BY <1>1, <2>3, <2>4
<1>2. QED
  BY <1>1, CursorOutside, CursorLoop, CursorReply DEF Next, HandleQueueMessage

\* Where match numbers tell knocks apart, every knock behind the cursor is in the
\* reply file or in the rest of the reply being worked off, so that nothing is lost
\* with the items a later query does not ask for (SendQueryTradeKnockRep, RunQuery).
THEOREM ServerCursorCovered ==
  ASSUME Spot \/ \A j, k \in AllKnocks : MatchNo[j] = MatchNo[k] => j = k
  PROVE  Spec => []CursorCovered
<1>1. ASSUME TypeInv, KnockInv, CursorInv, [Next]_vars
      PROVE  CursorInv'
  <2>1. ASSUME NEW k \in Happened, SendQueryTradeKnockRep, Record(k)
        PROVE  k \in Rec'
    <3>1. up /\ UNCHANGED <<up, starts, natureDay>>
      BY <2>1 DEF SendQueryTradeKnockRep, Front, process
    <3>2. InnerMatchNo(k) \in knocks' /\ RememberedIsRecorded'
      BY <1>1, <2>1, <3>1, RecordKeeps
    <3>3. TypeInv'
      BY <1>1, TypeInvStep
    <3>4. Recorded(k)'
      BY <2>1, <3>2, <3>3, RecordedByNumber DEF Happened
    <3>5. QED
      BY <3>4 DEF Recorded, Rec, KnockFrames
  <2>2. QED
    BY <1>1, <2>1, CursorStep
<1>2. CursorInv => CursorCovered
  BY DEF CursorInv, CursorCovered, Covered, Rec, Recorded, FrontItems, KnockFrames, Elements
<1>3. QED
  BY <1>1, <1>2, CursorInit, KnockInvAlways, PTL DEF Spec

-----------------------------------------------------------------------------
(* Positions. *)

\* The frames that say what the account holds of a code.
TellsOf(c) ==
  {i \in FramesOf("TradePosition") :
     repMem[i].code = c /\ (repMem[i].date = natureDay \/ repMem[i].by = starts)}
\* No frame is of a process yet to come.
NotAhead == \A i \in FramesOf("TradePosition") : repMem[i].by \in 0 .. starts
MirrorInv == NotAhead /\ PositionsMirrored

\* A set of such frames has a latest.
LEMMA LatestIn ==
  ASSUME TypeInv, NEW S, S \subseteq FramesOf("TradePosition"), S # {}
  PROVE  Latest(S) \in S /\ \A j \in S : j <= Latest(S)
<1>1. S \subseteq 1 .. Len(repMem) /\ Len(repMem) \in Nat
  BY DEF FramesOf, TypeInv, Flows
<1>2. \E m \in S : \A j \in S : j <= m
  BY <1>1, HasLatest
<1>3. QED
  BY <1>2 DEF Latest

\* The frames of positions after one more frame.
LEMMA PositionFrames ==
  ASSUME TypeInv, NEW f \in FrameNow, repMem' = Append(repMem, f)
  PROVE  /\ \A i \in FramesOf("TradePosition") :
              i \in FramesOf("TradePosition")' /\ repMem'[i] = repMem[i] /\ i < Len(repMem) + 1
         /\ \A i \in FramesOf("TradePosition")' :
              i \in FramesOf("TradePosition") \/ i = Len(repMem) + 1
         /\ Len(repMem) + 1 \in FramesOf("TradePosition")' <=> f.type = "TradePosition"
         /\ repMem'[Len(repMem) + 1] = f /\ Len(repMem) + 1 \in Nat
<1>1. repMem \in Seq(FrameNow)
  BY DEF TypeInv, Flows
<1>2. /\ Len(repMem') = Len(repMem) + 1 /\ repMem' \in Seq(FrameNow)
      /\ repMem'[Len(repMem) + 1] = f
      /\ \A i \in 1 .. Len(repMem) : repMem'[i] = repMem[i]
  BY <1>1, AppendElements
<1>3. DOMAIN repMem' = 1 .. Len(repMem) + 1 /\ DOMAIN repMem = 1 .. Len(repMem) /\ Len(repMem) \in Nat
  BY <1>1, <1>2
<1>4. /\ \A i \in 1 .. Len(repMem) : i \in 1 .. Len(repMem) + 1 /\ i < Len(repMem) + 1
      /\ \A i \in 1 .. Len(repMem) + 1 : i \in 1 .. Len(repMem) \/ i = Len(repMem) + 1
      /\ Len(repMem) + 1 \in 1 .. Len(repMem) + 1
  BY <1>3
<1>5. QED
  BY <1>2, <1>3, <1>4 DEF FramesOf

\* Steps that are about no position.
LEMMA MirrorOther ==
  ASSUME TypeInv, MirrorInv, UNCHANGED <<positions, up, starts, natureDay>>,
         \/ repMem' = repMem
         \/ \E f \in FrameNow : f.type # "TradePosition" /\ repMem' = Append(repMem, f)
  PROVE  MirrorInv'
<1>1. /\ FramesOf("TradePosition")' = FramesOf("TradePosition")
      /\ \A i \in FramesOf("TradePosition") : repMem'[i] = repMem[i]
  <2>1. CASE repMem' = repMem
    BY <2>1 DEF FramesOf
  <2>2. CASE \E f \in FrameNow : f.type # "TradePosition" /\ repMem' = Append(repMem, f)
    BY <2>2, PositionFrames
  <2>3. QED
    BY <2>1, <2>2
<1>2. NotAhead'
  BY <1>1 DEF MirrorInv, NotAhead
<1>3. ASSUME up, NEW c \in Codes PROVE positions'[c] = VolumeOf(TellsOf(c))'
  <2>1. TellsOf(c)' = TellsOf(c)
    BY <1>1 DEF TellsOf
  <2>2. positions[c] = VolumeOf(TellsOf(c))
    BY <1>3 DEF MirrorInv, PositionsMirrored, TellsOf
  <2>3. TellsOf(c) \subseteq FramesOf("TradePosition")
    BY DEF TellsOf
  <2>4. TellsOf(c) # {} => repMem'[Latest(TellsOf(c))] = repMem[Latest(TellsOf(c))]
    BY <1>1, <2>3, LatestIn
  <2>5. QED
    BY <2>1, <2>2, <2>4 DEF VolumeOf
<1>4. PositionsMirrored'
  BY <1>3 DEF PositionsMirrored, TellsOf
<1>5. QED
  BY <1>2, <1>4 DEF MirrorInv

\* One holding of an answer: it is written unless the last frame of the code says so.
LEMMA MirrorReply ==
  ASSUME TypeInv, MirrorInv, SendQueryTradePositionRep
  PROVE  MirrorInv'
<1>1. /\ queue # <<>> /\ up /\ Head(queue) \in MessageNow
      /\ Head(queue).type = "QueryTradePositionRep"
  BY QueueSteps DEF SendQueryTradePositionRep, Front
<1>2. Head(queue).holdings \subseteq Holding
  BY <1>1, MessageCases
<1>3. UNCHANGED <<up, starts, natureDay>>
  BY Zenon DEF SendQueryTradePositionRep, process
<1>4. CASE UNCHANGED <<positions, repMem>>
  BY <1>3, <1>4, MirrorOther
<1>5. ASSUME NEW p \in Head(queue).holdings,
             positions' = [positions EXCEPT ![p.code] = p.volume],
             repMem' = IF Changed(p) THEN Append(repMem, PositionFrame(p)) ELSE repMem
      PROVE  MirrorInv'
  <2>1. /\ p.code \in Codes /\ p.volume \in Nat /\ p.date \in Nat
        /\ positions \in [Codes -> Int] /\ starts \in Nat
    BY <1>2, <1>5 DEF Holding, TypeInv, Core
  <2>2. CASE ~Changed(p)
    <3>1. positions' = positions
      BY <1>5, <2>1, <2>2 DEF Changed
    <3>2. QED
      BY <1>3, <1>5, <2>2, <3>1, MirrorOther
  <2>3. CASE Changed(p)
    <3>1. PICK n \in Nat : n = Len(repMem) + 1
      BY DEF TypeInv, Flows
    <3>2. PICK f \in FrameNow :
            /\ f = PositionFrame(p) /\ f.type = "TradePosition"
            /\ f.code = p.code /\ f.volume = p.volume /\ f.by = starts
      <4>1. PositionFrame(p) \in FrameNow
        BY <2>1 DEF PositionFrame, FrameNow
      <4>2. /\ PositionFrame(p).type = "TradePosition" /\ PositionFrame(p).by = starts
            /\ PositionFrame(p).code = p.code /\ PositionFrame(p).volume = p.volume
        BY DEF PositionFrame
      <4>3. QED
        BY <4>1, <4>2, Zenon
    <3>3. /\ \A i \in FramesOf("TradePosition") :
               i \in FramesOf("TradePosition")' /\ repMem'[i] = repMem[i] /\ i < n
          /\ \A i \in FramesOf("TradePosition")' : i \in FramesOf("TradePosition") \/ i = n
          /\ n \in FramesOf("TradePosition")' /\ repMem'[n] = f
      BY <1>5, <2>3, <3>1, <3>2, PositionFrames
    <3>4. NotAhead'
      <4>1. starts \in 0 .. starts
        BY <2>1
      <4>2. QED
        BY <1>3, <3>2, <3>3, <4>1 DEF MirrorInv, NotAhead
    <3>5. ASSUME NEW c \in Codes PROVE positions'[c] = VolumeOf(TellsOf(c))'
      <4>1. TellsOf(c) \subseteq FramesOf("TradePosition")
        BY DEF TellsOf
      <4>2. CASE c # p.code
        <5>1. TellsOf(c)' = TellsOf(c)
          BY <1>3, <3>2, <3>3, <4>2 DEF TellsOf
        <5>2. positions[c] = VolumeOf(TellsOf(c)) /\ positions'[c] = positions[c]
          BY <1>1, <1>5, <2>1, <4>2 DEF MirrorInv, PositionsMirrored, TellsOf
        <5>3. TellsOf(c) # {} => repMem'[Latest(TellsOf(c))] = repMem[Latest(TellsOf(c))]
          BY <3>3, <4>1, LatestIn
        <5>4. QED
          BY <5>1, <5>2, <5>3 DEF VolumeOf
      <4>3. CASE c = p.code
        <5>1. n \in TellsOf(c)'
          BY <1>3, <3>2, <3>3, <4>3 DEF TellsOf
        <5>2. \A j \in TellsOf(c)' : j <= n /\ j \in Nat
          <6>1. \A j \in FramesOf("TradePosition") : j \in Nat
            BY DEF FramesOf, TypeInv, Flows
          <6>2. \A j \in FramesOf("TradePosition")' : (j < n /\ j \in Nat) \/ j = n
            BY <3>3, <6>1
          <6>3. QED
            BY <3>1, <6>2 DEF TellsOf
        <5>3. Latest(TellsOf(c)') = n
          <6>1. \E m \in TellsOf(c)' : \A j \in TellsOf(c)' : j <= m
            BY <5>1, <5>2
          <6>2. /\ Latest(TellsOf(c)') \in TellsOf(c)'
                /\ \A j \in TellsOf(c)' : j <= Latest(TellsOf(c)')
            BY <6>1 DEF Latest
          <6>3. n <= Latest(TellsOf(c)') /\ Latest(TellsOf(c)') <= n /\ Latest(TellsOf(c)') \in Nat
            BY <5>1, <5>2, <6>2
          <6>4. QED
            BY <6>3
        <5>4. VolumeOf(TellsOf(c))' = p.volume
          BY <3>2, <3>3, <5>1, <5>3 DEF VolumeOf
        <5>5. QED
          BY <1>5, <2>1, <4>3, <5>4
      <4>4. QED
        BY <4>2, <4>3
    <3>6. PositionsMirrored'
      BY <3>5 DEF PositionsMirrored, TellsOf
    <3>7. QED
      BY <3>4, <3>6 DEF MirrorInv
  <2>4. QED
    BY <2>2, <2>3
<1>6. UNCHANGED <<positions, repMem>>
        \/ \E p \in Head(queue).holdings :
             /\ positions' = [positions EXCEPT ![p.code] = p.volume]
             /\ repMem' = IF Changed(p) THEN Append(repMem, PositionFrame(p)) ELSE repMem
  BY DEF SendQueryTradePositionRep
<1>7. QED
  BY <1>4, <1>5, <1>6

\* LoadTradingData: the frames of the day are those a new process looks at.
LEMMA MirrorStart ==
  ASSUME TypeInv, MirrorInv, Start
  PROVE  MirrorInv'
<1>1. /\ starts' = starts + 1 /\ natureDay' = day /\ repMem' = repMem /\ starts \in Nat
      /\ positions' = [c \in Codes |-> VolumeOf(FramesToday(c))]
  BY DEF Start, LoadTradingData, TypeInv, Core
<1>2. FramesOf("TradePosition")' = FramesOf("TradePosition")
  BY <1>1 DEF FramesOf
<1>3. \A i \in FramesOf("TradePosition") :
        repMem[i].by \in 0 .. starts /\ repMem[i].by \in 0 .. starts + 1 /\ repMem[i].by # starts + 1
  BY <1>1 DEF MirrorInv, NotAhead
<1>4. NotAhead'
  BY <1>1, <1>2, <1>3 DEF NotAhead
<1>5. ASSUME NEW c \in Codes PROVE positions'[c] = VolumeOf(TellsOf(c))'
  <2>1. TellsOf(c)' = FramesToday(c)
    BY <1>1, <1>2, <1>3 DEF TellsOf, FramesToday
  <2>2. QED
    BY <1>1, <2>1 DEF VolumeOf
<1>6. PositionsMirrored'
  BY <1>5 DEF PositionsMirrored, TellsOf
<1>7. QED
  BY <1>4, <1>6 DEF MirrorInv

LEMMA MirrorCrash ==
  ASSUME MirrorInv, Crash
  PROVE  MirrorInv'
<1>1. ~up' /\ repMem' = repMem /\ starts' = starts
  BY DEF Crash
<1>2. QED
  BY <1>1 DEF MirrorInv, NotAhead, PositionsMirrored, FramesOf

LEMMA MirrorInit == Init => MirrorInv
BY DEF Init, MirrorInv, NotAhead, PositionsMirrored, FramesOf

LEMMA MirrorStep ==
  ASSUME TypeInv, MirrorInv, [Next]_vars
  PROVE  MirrorInv'
<1> USE DEF calendar, counter, session, asking, requestFile, process, memory
<1>1. CASE \/ \E r \in Requests : WriteRequest(r) \/ Reply(r)
           \/ \E k \in Knocks : MakeKnock(k) \/ PushKnock(k)
           \/ \E c \in Codes : Trade(c)
           \/ Midnight
           \/ \E i \in DOMAIN queries : AnswerQuery(i) \/ FailQuery(i)
           \/ \E i \in DOMAIN reqMem : ReadReqMem(i)
           \/ RunKnockQuery \/ RunPositionQuery \/ RunWatch
           \/ SendTradeRequest \/ SendQuery \/ SendMonitorRisk
           \/ UNCHANGED vars
  <2>1. UNCHANGED <<positions, up, starts, natureDay, repMem>>
    BY <1>1, Zenon
    DEF WriteRequest, Reply, MakeKnock, PushKnock, Trade, Midnight, AnswerQuery, FailQuery, ReadReqMem,
        RunKnockQuery, RunPositionQuery, RunWatch, SendTradeRequest, SendQuery, SendMonitorRisk, vars
  <2>2. QED
    BY <2>1, MirrorOther
<1>2. CASE SendTradeReply
  <2>1. queue # <<>> /\ Head(queue) \in MessageNow /\ Head(queue).type = "TradeRep"
    BY <1>2, QueueSteps DEF SendTradeReply, Front
  <2>2. Head(queue).id \in Requests
    BY <2>1, MessageCases
  <2>3. TradeRep(Head(queue).id) \in FrameNow /\ TradeRep(Head(queue).id).type # "TradePosition"
    BY <2>2 DEF FrameNow, TradeRep
  <2>4. /\ repMem' = repMem \/ repMem' = Append(repMem, TradeRep(Head(queue).id))
        /\ UNCHANGED <<positions, up, starts, natureDay>>
    BY <1>2, Zenon DEF SendTradeReply
  <2>5. QED
    BY <2>3, <2>4, MirrorOther
<1>3. CASE SendTradeKnock \/ SendQueryTradeKnockRep
  <2>1. queue # <<>> /\ Head(queue) \in MessageNow
    BY <1>3, QueueSteps DEF SendTradeKnock, SendQueryTradeKnockRep, Front
  <2>2. UNCHANGED <<positions, up, starts, natureDay>>
    BY <1>3, Zenon DEF SendTradeKnock, SendQueryTradeKnockRep
  <2>3. repMem' = repMem \/ \E k \in Happened : repMem' = Append(repMem, KnockFrame(k))
    <3>1. CASE SendTradeKnock
      <4>1. Head(queue).knock \in Happened
        BY <2>1, <3>1, MessageCases DEF SendTradeKnock, Front
      <4>2. Record(Head(queue).knock)
        BY <3>1, Zenon DEF SendTradeKnock
      <4>3. QED
        BY <4>1, <4>2 DEF Record
    <3>2. CASE SendQueryTradeKnockRep
      <4>1. Head(queue).items \in Seq(Happened)
        BY <2>1, <3>2, MessageCases DEF SendQueryTradeKnockRep, Front
      <4>2. CASE Head(queue).items = <<>>
        BY <3>2, <4>2 DEF SendQueryTradeKnockRep
      <4>3. CASE Head(queue).items # <<>>
        <5>1. Head(Head(queue).items) \in Happened
          BY <4>1, <4>3, TailElements
        <5>2. Record(Head(Head(queue).items))
          BY <3>2, <4>3 DEF SendQueryTradeKnockRep
        <5>3. QED
          BY <5>1, <5>2 DEF Record
      <4>4. QED
        BY <4>2, <4>3
    <3>3. QED
      BY <1>3, <3>1, <3>2
  <2>4. \A k \in Happened : KnockFrame(k) \in FrameNow /\ KnockFrame(k).type # "TradePosition"
    <3>1. starts \in 0 .. starts /\ natureDay \in Nat
      BY DEF TypeInv, Core
    <3>2. QED
      BY <3>1 DEF KnockFrame, FrameNow, Happened, AllKnocks
  <2>5. QED
    BY <2>2, <2>3, <2>4, MirrorOther
<1>4. CASE HandleSignal
  <2>1. HeartBeat \in FrameNow /\ HeartBeat.type # "TradePosition"
    BY DEF FrameNow, HeartBeat
  <2>2. /\ repMem' = repMem \/ repMem' = Append(repMem, HeartBeat)
        /\ UNCHANGED <<positions, up, starts, natureDay>>
    BY <1>4, Zenon DEF HandleSignal, DoWatch
  <2>3. QED
    BY <2>1, <2>2, MirrorOther
<1>5. ASSUME NEW k \in OthersKnocks, WriteOthersKnock(k) PROVE MirrorInv'
  <2>1. /\ repMem' = Append(repMem, OthersFrame(k)) /\ DateOf[k] = day /\ k \in AllKnocks
        /\ UNCHANGED <<positions, up, starts, natureDay>>
        /\ day \in Nat /\ 0 \in 0 .. starts /\ DateOf[k] <= day
    BY <1>5 DEF WriteOthersKnock, AllKnocks, TypeInv, Core
  <2>2. OthersFrame(k) \in FrameNow /\ OthersFrame(k).type # "TradePosition"
    BY <2>1 DEF OthersFrame, FrameNow
  <2>3. QED
    BY <2>1, <2>2, MirrorOther
<1>6. QED
  BY <1>1, <1>2, <1>3, <1>4, <1>5, MirrorReply, MirrorStart, MirrorCrash
  DEF Next, HandleQueueMessage

\* Whatever answers, restarts and midnights come between: positions_ is what a reader of
\* the reply file takes for the positions, so what SendQueryTradePositionRep leaves out
\* is there already.
THEOREM ServerMirrorsPositions == Spec => []PositionsMirrored
<1>1. Spec => [](TypeInv /\ MirrorInv)
  BY TypeInvInit, TypeInvStep, MirrorInit, MirrorStep, PTL DEF Spec
<1>2. QED
  BY <1>1, PTL DEF MirrorInv
==============================================================================

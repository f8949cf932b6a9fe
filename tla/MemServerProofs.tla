----------------------------- MODULE MemServerProofs -----------------------------
(***************************************************************************)
(* Type correctness of MemServer.  What the queue, the counter and the     *)
(* reply memory hold never runs ahead of the counter's list of knocks, of  *)
(* the calendar or of the processes started: the cursors of queries and    *)
(* replies point into the list, the knocks have happened.                  *)
(***************************************************************************)
EXTENDS MemServer, SequenceTheorems, WellFoundedInduction, TLAPS

\* What Append, Tail and Cons do to the elements of a sequence.
LEMMA AppendElements ==
  ASSUME NEW S, NEW s \in Seq(S), NEW e \in S
  PROVE  /\ Append(s, e) \in Seq(S)
         /\ Len(Append(s, e)) = Len(s) + 1
         /\ Append(s, e)[Len(s) + 1] = e
         /\ \A i \in 1 .. Len(s) : Append(s, e)[i] = s[i]
         /\ Elements(Append(s, e)) = Elements(s) \cup {e}
<1>1. /\ Append(s, e) \in Seq(S)
      /\ Len(Append(s, e)) = Len(s) + 1
      /\ Append(s, e)[Len(s) + 1] = e
      /\ \A i \in 1 .. Len(s) : Append(s, e)[i] = s[i]
  OBVIOUS
<1>2. DOMAIN Append(s, e) = 1 .. Len(s) + 1 /\ DOMAIN s = 1 .. Len(s) /\ Len(s) \in Nat
  BY <1>1
<1>3. \A i \in 1 .. Len(s) + 1 : i = Len(s) + 1 \/ i \in 1 .. Len(s)
  BY <1>2
<1>4. 1 .. Len(s) \subseteq 1 .. Len(s) + 1 /\ Len(s) + 1 \in 1 .. Len(s) + 1
  BY <1>2
<1>5. QED
  BY <1>1, <1>2, <1>3, <1>4, Zenon DEF Elements

LEMMA TailElements ==
  ASSUME NEW S, NEW s \in Seq(S), s # <<>>
  PROVE  /\ Tail(s) \in Seq(S)
         /\ Head(s) \in S
         /\ Head(s) = s[1] /\ 1 \in DOMAIN s
         /\ Len(Tail(s)) = Len(s) - 1
         /\ \A i \in 1 .. Len(s) - 1 : Tail(s)[i] = s[i + 1]
         /\ Elements(s) = Elements(Tail(s)) \cup {Head(s)}
<1>1. /\ Tail(s) \in Seq(S)
      /\ Head(s) \in S
      /\ Head(s) = s[1] /\ 1 \in DOMAIN s
      /\ Len(Tail(s)) = Len(s) - 1
      /\ \A i \in 1 .. Len(s) - 1 : Tail(s)[i] = s[i + 1]
  OBVIOUS
<1>2. DOMAIN Tail(s) = 1 .. Len(s) - 1 /\ DOMAIN s = 1 .. Len(s) /\ Len(s) \in Nat \ {0}
  BY <1>1
<1>3. \A i \in DOMAIN s : i = 1 \/ \E j \in DOMAIN Tail(s) : s[i] = Tail(s)[j]
  <2>1. SUFFICES ASSUME NEW i \in DOMAIN s, i # 1
                 PROVE  \E j \in DOMAIN Tail(s) : s[i] = Tail(s)[j]
    OBVIOUS
  <2>2. i - 1 \in 1 .. Len(s) - 1 /\ (i - 1) + 1 = i
    BY <1>2, <2>1
  <2>3. QED
    BY <1>1, <1>2, <2>2
<1>4. \A j \in DOMAIN Tail(s) : \E i \in DOMAIN s : s[i] = Tail(s)[j]
  <2>1. SUFFICES ASSUME NEW j \in DOMAIN Tail(s)
                 PROVE  \E i \in DOMAIN s : s[i] = Tail(s)[j]
    OBVIOUS
  <2>2. j + 1 \in DOMAIN s /\ Tail(s)[j] = s[j + 1]
    BY <1>1, <1>2
  <2>3. QED
    BY <2>2
<1>5. Elements(s) \subseteq Elements(Tail(s)) \cup {Head(s)}
  BY <1>1, <1>3 DEF Elements
<1>6. Elements(Tail(s)) \cup {Head(s)} \subseteq Elements(s)
  BY <1>1, <1>4 DEF Elements
<1>7. QED
  BY <1>1, <1>5, <1>6

LEMMA ConsElements ==
  ASSUME NEW S, NEW s \in Seq(S), NEW e \in S
  PROVE  /\ <<e>> \o s \in Seq(S)
         /\ Len(<<e>> \o s) = Len(s) + 1
         /\ (<<e>> \o s)[1] = e
         /\ \A i \in 1 .. Len(s) : (<<e>> \o s)[i + 1] = s[i]
         /\ Elements(<<e>> \o s) = Elements(s) \cup {e}
<1> DEFINE t == <<e>> \o s
<1>0. <<e>> \in Seq(S) /\ Len(<<e>>) = 1 /\ <<e>>[1] = e
  OBVIOUS
<1>1. t \in Seq(S) /\ Len(t) = Len(s) + 1
  BY <1>0, ConcatProperties
<1>2. t[1] = e /\ \A i \in 1 .. Len(s) : t[i + 1] = s[i]
  BY <1>0
<1>3. DOMAIN t = 1 .. Len(s) + 1 /\ DOMAIN s = 1 .. Len(s) /\ Len(s) \in Nat
  BY <1>1
<1> HIDE DEF t
<1>4. \A i \in DOMAIN t : t[i] = e \/ \E j \in DOMAIN s : t[i] = s[j]
  <2>1. SUFFICES ASSUME NEW i \in DOMAIN t, i # 1
                 PROVE  \E j \in DOMAIN s : t[i] = s[j]
    BY <1>2
  <2>2. i - 1 \in 1 .. Len(s) /\ (i - 1) + 1 = i
    BY <1>3, <2>1
  <2>3. QED
    BY <1>2, <1>3, <2>2
<1>5. \A j \in DOMAIN s : \E i \in DOMAIN t : s[j] = t[i]
  <2>1. SUFFICES ASSUME NEW j \in DOMAIN s
                 PROVE  \E i \in DOMAIN t : s[j] = t[i]
    OBVIOUS
  <2>2. j + 1 \in DOMAIN t /\ t[j + 1] = s[j]
    BY <1>2, <1>3
  <2>3. QED
    BY <2>2
<1>6. 1 \in DOMAIN t
  BY <1>3
<1>7. Elements(t) = Elements(s) \cup {e}
  <2>1. Elements(t) \subseteq Elements(s) \cup {e}
    BY <1>2, <1>4 DEF Elements
  <2>2. Elements(s) \cup {e} \subseteq Elements(t)
    BY <1>2, <1>5, <1>6 DEF Elements
  <2>3. QED
    BY <2>1, <2>2
<1>8. QED
  BY <1>1, <1>2, <1>7 DEF t

LEMMA WithoutElements ==
  ASSUME NEW S, NEW s \in Seq(S), NEW i \in DOMAIN s
  PROVE  Without(s, i) \in Seq(S)
BY DEF Without

Happened == {k \in Knocks : DateOf[k] <= day}
KnockQueries == [type : {"QueryTradeKnockReq"}, cursor : 0 .. Len(made)]
PositionQueries == [type : {"QueryTradePositionReq"}, init : BOOLEAN]
TradeMessages == [type : {"TradeReq", "TradeRep"}, id : Requests]
KnockMessages == [type : {"TradeKnock"}, knock : Happened]
KnockPages ==
  [type : {"QueryTradeKnockRep"}, next_cursor : 0 .. Len(made), items : Seq(Happened)]
PositionPages ==
  [type : {"QueryTradePositionRep"}, init : BOOLEAN, holdings : SUBSET Holding]
QueryNow == KnockQueries \cup PositionQueries
MessageNow ==
  TradeMessages \cup KnockMessages \cup QueryNow \cup KnockPages \cup PositionPages
    \cup {MonitorRisk, Signal}
FrameNow ==
  [type : {"TradeRep"}, id : Requests]
    \cup [type : {"TradeKnock"}, knock : {k \in AllKnocks : DateOf[k] <= day},
          by : 0 .. starts, since : Nat]
    \cup [type : {"TradePosition"}, code : Codes, volume : Nat, date : Nat, by : Nat]
    \cup {HeartBeat}

LEMMA MessageCases ==
  ASSUME NEW m \in MessageNow
  PROVE  /\ m.type = "TradeReq" => m.id \in Requests /\ m = TradeReq(m.id)
         /\ m.type = "TradeRep" => m.id \in Requests /\ m = TradeRep(m.id)
         /\ m.type = "TradeKnock" => m.knock \in Happened /\ m = TradeKnock(m.knock)
         /\ m.type \in {"QueryTradeKnockReq", "QueryTradePositionReq"} => m \in QueryNow
         /\ m.type = "QueryTradeKnockRep" =>
              m.next_cursor \in 0 .. Len(made) /\ m.items \in Seq(Happened)
         /\ m.type = "QueryTradePositionRep" => m.init \in BOOLEAN /\ m.holdings \subseteq Holding
<1>1. m \in TradeMessages => /\ m.type \in {"TradeReq", "TradeRep"} /\ m.id \in Requests
                             /\ m.type = "TradeReq" => m = TradeReq(m.id)
                             /\ m.type = "TradeRep" => m = TradeRep(m.id)
  BY DEF TradeMessages, TradeReq, TradeRep
<1>2. m \in KnockMessages => /\ m.type = "TradeKnock" /\ m.knock \in Happened
                             /\ m = TradeKnock(m.knock)
  BY DEF KnockMessages, TradeKnock
<1>3. m \in QueryNow => m.type \in {"QueryTradeKnockReq", "QueryTradePositionReq"}
  BY DEF QueryNow, KnockQueries, PositionQueries
<1>4. m \in KnockPages => /\ m.type = "QueryTradeKnockRep"
                          /\ m.next_cursor \in 0 .. Len(made) /\ m.items \in Seq(Happened)
  BY DEF KnockPages
<1>5. m \in PositionPages => /\ m.type = "QueryTradePositionRep"
                             /\ m.init \in BOOLEAN /\ m.holdings \subseteq Holding
  BY DEF PositionPages
<1>6. MonitorRisk.type = "MonitorRisk" /\ Signal.type = "InnerCyclicSignal"
  BY DEF MonitorRisk, Signal
<1>7. m \in {MonitorRisk, Signal} => m.type \in {"MonitorRisk", "InnerCyclicSignal"}
  BY <1>6
<1>8. QED
  BY <1>1, <1>2, <1>3, <1>4, <1>5, <1>7 DEF MessageNow

LEMMA QueryCases ==
  ASSUME NEW q \in QueryNow
  PROVE  /\ q.type \in {"QueryTradeKnockReq", "QueryTradePositionReq"}
         /\ q.type = "QueryTradeKnockReq" => q.cursor \in 0 .. Len(made)
         /\ q.type # "QueryTradeKnockReq" => q.init \in BOOLEAN
<1>1. q \in KnockQueries => q.type = "QueryTradeKnockReq" /\ q.cursor \in 0 .. Len(made)
  BY DEF KnockQueries
<1>2. q \in PositionQueries => q.type = "QueryTradePositionReq" /\ q.init \in BOOLEAN
  BY DEF PositionQueries
<1>3. QED
  BY <1>1, <1>2 DEF QueryNow

LEMMA FrameCases ==
  ASSUME NEW f \in FrameNow
  PROVE  /\ f.type = "TradeRep" => f.id \in Requests /\ f = TradeRep(f.id)
         /\ f.type = "TradeKnock" =>
              /\ f.knock \in AllKnocks /\ DateOf[f.knock] <= day
              /\ f.by \in 0 .. starts /\ f.since \in Nat
         /\ f.type = "TradePosition" => f.code \in Codes /\ f.volume \in Nat
BY DEF FrameNow, TradeRep, HeartBeat

LEMMA MakeMessage ==
  /\ \A r \in Requests : TradeReq(r) \in MessageNow /\ TradeRep(r) \in MessageNow
  /\ \A k \in Happened : TradeKnock(k) \in MessageNow
  /\ \A c \in 0 .. Len(made) : KnockQuery(c) \in QueryNow
  /\ \A c \in 0 .. Len(made), s \in Seq(Happened) : KnockPage(c, s) \in MessageNow
  /\ \A b \in BOOLEAN : PositionQuery(b) \in QueryNow
  /\ \A b \in BOOLEAN, S \in SUBSET Holding : PositionPage(b, S) \in MessageNow
  /\ MonitorRisk \in MessageNow /\ Signal \in MessageNow
  /\ QueryNow \subseteq MessageNow
<1>1. \A r \in Requests : TradeReq(r) \in TradeMessages /\ TradeRep(r) \in TradeMessages
  BY DEF TradeMessages, TradeReq, TradeRep
<1>2. \A k \in Happened : TradeKnock(k) \in KnockMessages
  BY DEF KnockMessages, TradeKnock
<1>3. \A c \in 0 .. Len(made) : KnockQuery(c) \in KnockQueries
  BY DEF KnockQueries, KnockQuery
<1>4. \A c \in 0 .. Len(made), s \in Seq(Happened) : KnockPage(c, s) \in KnockPages
  BY DEF KnockPages, KnockPage
<1>5. \A b \in BOOLEAN : PositionQuery(b) \in PositionQueries
  BY DEF PositionQueries, PositionQuery
<1>6. \A b \in BOOLEAN, S \in SUBSET Holding : PositionPage(b, S) \in PositionPages
  BY DEF PositionPages, PositionPage
<1>7. QED
  BY <1>1, <1>2, <1>3, <1>4, <1>5, <1>6 DEF MessageNow, QueryNow

-----------------------------------------------------------------------------
(* The inductive type invariant.                                           *)

Core ==
  /\ plan \in Plans /\ day \in Nat
  /\ made \in Seq(Happened)
  /\ moved \in [Codes -> Nat] /\ \A c \in Codes : moved[c] < Len(plan.volumes[c])
  /\ sent \in [Requests -> Nat] /\ replied \subseteq Requests
  /\ failures \in Nat
  /\ reqMem \in Seq(Requests) /\ consumed \subseteq Requests
  /\ stamp \in [Requests -> Nat]
  /\ up \in BOOLEAN /\ starts \in Nat /\ natureDay \in Nat
  /\ knocks \subseteq AllKnocks /\ handed \in [Knocks -> Nat]
  /\ pending \subseteq Requests /\ positions \in [Codes -> Int]
  /\ nextCursor \in 0 .. Len(made) /\ beaten \in BOOLEAN
Flows ==
  /\ queue \in Seq(MessageNow) /\ queries \in Seq(QueryNow) /\ repMem \in Seq(FrameNow)
TypeInv == Core /\ Flows /\ (up \/ queue = <<>>)

LEMMA NowIsTyped ==
  ASSUME TypeInv
  PROVE  TypeOK
<1>1. Happened \subseteq Knocks
  BY DEF Happened
<1>2. made \in Seq(Knocks) /\ 0 .. Len(made) \subseteq Nat
  BY <1>1, SeqMonotonic DEF TypeInv, Core
<1>3. KnockPages \subseteq
        [type : {"QueryTradeKnockRep"}, next_cursor : Nat, items : Seq(Knocks)]
  <2>1. Seq(Happened) \subseteq Seq(Knocks)
    BY <1>1, SeqMonotonic
  <2>2. QED
    BY <1>2, <2>1 DEF KnockPages
<1>4. QueryNow \subseteq Query
  <2>1. KnockQueries \subseteq [type : {"QueryTradeKnockReq"}, cursor : Nat]
    BY <1>2 DEF KnockQueries
  <2>2. QED
    BY <2>1 DEF QueryNow, PositionQueries, Query
<1>5. KnockMessages \subseteq [type : {"TradeKnock"}, knock : Knocks]
  BY <1>1 DEF KnockMessages
<1>6. MessageNow \subseteq Message
  BY <1>3, <1>4, <1>5 DEF MessageNow, Message, TradeMessages, PositionPages
<1>7. FrameNow \subseteq Frame
  BY DEF FrameNow, Frame, TypeInv, Core
<1>8. queue \in Seq(Message) /\ queries \in Seq(Query) /\ repMem \in Seq(Frame)
  BY <1>4, <1>6, <1>7, SeqMonotonic DEF TypeInv, Flows
<1>9. QED
  BY <1>2, <1>8 DEF TypeInv, Core, TypeOK

LEMMA NowSame ==
  ASSUME UNCHANGED <<day, made, starts>>
  PROVE  /\ Happened' = Happened /\ MessageNow' = MessageNow /\ QueryNow' = QueryNow
         /\ FrameNow' = FrameNow
BY DEF Happened, MessageNow, QueryNow, FrameNow, TradeMessages, KnockMessages, KnockQueries,
       PositionQueries, KnockPages, PositionPages

\* Days, the counter's list and the number of processes only grow, and what was typed
\* stays typed.
LEMMA NowGrows ==
  ASSUME day \in Nat, day' \in Nat, day <= day', Len(made) \in Nat, Len(made') \in Nat,
         Len(made) <= Len(made'), starts \in Nat, starts' \in Nat, starts <= starts',
         DateOf \in [AllKnocks -> Nat]
  PROVE  /\ Happened \subseteq Happened' /\ MessageNow \subseteq MessageNow'
         /\ QueryNow \subseteq QueryNow' /\ FrameNow \subseteq FrameNow'
<1>1. \A k \in AllKnocks : DateOf[k] <= day => DateOf[k] <= day'
  OBVIOUS
<1>2. Happened \subseteq Happened'
  BY <1>1 DEF Happened, AllKnocks
<1>3. 0 .. Len(made) \subseteq 0 .. Len(made') /\ 0 .. starts \subseteq 0 .. starts'
  OBVIOUS
<1>4. KnockPages \subseteq KnockPages'
  <2>1. Seq(Happened) \subseteq Seq(Happened')
    BY <1>2, SeqMonotonic
  <2>2. QED
    BY <1>3, <2>1 DEF KnockPages
<1>5. KnockQueries \subseteq KnockQueries' /\ PositionQueries' = PositionQueries
  BY <1>3 DEF KnockQueries, PositionQueries
<1>6. KnockMessages \subseteq KnockMessages' /\ TradeMessages' = TradeMessages
      /\ PositionPages' = PositionPages
  BY <1>2 DEF KnockMessages, TradeMessages, PositionPages
<1>7. FrameNow \subseteq FrameNow'
  <2> DEFINE Past == {k \in AllKnocks : DateOf[k] <= day}
             PastKnocks(P, n) == [type : {"TradeKnock"}, knock : P, by : 0 .. n, since : Nat]
  <2>1. Past \subseteq Past'
    BY <1>1
  <2>2. PastKnocks(Past, starts) \subseteq PastKnocks(Past', starts')
    BY <1>3, <2>1
  <2>3. QED
    BY <2>2 DEF FrameNow
<1>8. QED
  BY <1>2, <1>4, <1>5, <1>6, <1>7 DEF MessageNow, QueryNow

\* A step that leaves the calendar, the list and the number of processes alone needs
\* only to keep what flows well typed.
LEMMA FlowsStay ==
  ASSUME TypeInv, UNCHANGED <<day, made, starts>>,
         queue' \in Seq(MessageNow), queries' \in Seq(QueryNow), repMem' \in Seq(FrameNow)
  PROVE  Flows' /\ made' \in Seq(Happened') /\ Len(made') = Len(made)
BY NowSame DEF TypeInv, Core, Flows

\* One more message, one message less.
LEMMA QueueSteps ==
  ASSUME TypeInv
  PROVE  /\ \A m \in MessageNow : Append(queue, m) \in Seq(MessageNow)
         /\ queue # <<>> => /\ Tail(queue) \in Seq(MessageNow)
                            /\ Head(queue) \in MessageNow
                            /\ \A m \in MessageNow : /\ Append(Tail(queue), m) \in Seq(MessageNow)
                                                     /\ <<m>> \o Tail(queue) \in Seq(MessageNow)
<1>1. queue \in Seq(MessageNow)
  BY DEF TypeInv, Flows
<1>2. \A m \in MessageNow : Append(queue, m) \in Seq(MessageNow)
  BY <1>1, AppendElements
<1>3. ASSUME queue # <<>>
      PROVE  /\ Tail(queue) \in Seq(MessageNow)
             /\ Head(queue) \in MessageNow
             /\ \A m \in MessageNow : /\ Append(Tail(queue), m) \in Seq(MessageNow)
                                      /\ <<m>> \o Tail(queue) \in Seq(MessageNow)
  <2>1. Tail(queue) \in Seq(MessageNow) /\ Head(queue) \in MessageNow
    BY <1>1, <1>3, TailElements
  <2>2. QED
    BY <2>1, AppendElements, ConsElements
<1>4. QED
  BY <1>2, <1>3

LEMMA TypeInvInit == Init => TypeInv
<1> SUFFICES ASSUME Init PROVE TypeInv
  OBVIOUS
<1> USE DEF Init
<1>1. plan \in PlanType
  BY ServerAssumption
<1>2. \A c \in Codes : plan.volumes[c] \in Seq(Nat) /\ plan.volumes[c] # <<>>
  BY <1>1 DEF PlanType
<1>3. \A c \in Codes : 0 < Len(plan.volumes[c])
  BY <1>2, EmptySeq
<1>4. Len(made) = 0 /\ made \in Seq(Happened)
  OBVIOUS
<1>5. moved \in [Codes -> Nat] /\ \A c \in Codes : moved[c] < Len(plan.volumes[c])
  BY <1>3
<1>6. positions \in [Codes -> Int]
  BY DEF NoVolume
<1>7. nextCursor \in 0 .. Len(made)
  BY <1>4
<1>8. /\ sent \in [Requests -> Nat] /\ stamp \in [Requests -> Nat]
      /\ handed \in [Knocks -> Nat] /\ reqMem \in Seq(Requests)
      /\ day \in Nat /\ failures \in Nat /\ starts \in Nat /\ natureDay \in Nat
  OBVIOUS
<1>9. /\ replied \subseteq Requests /\ consumed \subseteq Requests /\ pending \subseteq Requests
      /\ knocks \subseteq AllKnocks /\ up \in BOOLEAN /\ beaten \in BOOLEAN /\ plan \in Plans
  OBVIOUS
<1>10. Core
  BY <1>4, <1>5, <1>6, <1>7, <1>8, <1>9, Zenon DEF Core
<1>11. QED
  BY <1>10 DEF TypeInv, Flows

\* What happens outside, between the counter, the other brokers and the calendar.
LEMMA TypeInvOutside ==
  ASSUME TypeInv,
         \/ \E r \in Requests : WriteRequest(r)
         \/ \E k \in Knocks : MakeKnock(k)
         \/ \E k \in OthersKnocks : WriteOthersKnock(k)
         \/ \E c \in Codes : Trade(c)
         \/ Midnight
  PROVE  TypeInv'
<1> USE DEF calendar, counter, session, asking, requestFile, process, memory
<1>0. DateOf \in [AllKnocks -> Nat] /\ Len(made) \in Nat /\ day \in Nat /\ starts \in Nat
  BY ServerAssumption DEF TypeInv, Core
<1>1. CASE \E r \in Requests : WriteRequest(r)
  <2>1. PICK r \in Requests : WriteRequest(r)
    BY <1>1
  <2>2. Flows' /\ made' \in Seq(Happened') /\ Len(made') = Len(made)
    BY <2>1, FlowsStay DEF WriteRequest, TypeInv, Flows
  <2>3. reqMem' \in Seq(Requests) /\ stamp' \in [Requests -> Nat]
    BY <2>1, AppendElements DEF WriteRequest, TypeInv, Core
  <2>4. Core'
    BY <2>1, <2>2, <2>3 DEF WriteRequest, TypeInv, Core
  <2>5. QED
    BY <2>1, <2>2, <2>4 DEF WriteRequest, TypeInv
<1>2. CASE \E k \in Knocks : MakeKnock(k)
  <2>1. PICK k \in Knocks : MakeKnock(k)
    BY <1>2
  <2>2. k \in Happened /\ Happened' = Happened
    BY <2>1, <1>0 DEF MakeKnock, Happened, AllKnocks
  <2>3. made' \in Seq(Happened') /\ Len(made') = Len(made) + 1
    BY <2>1, <2>2, AppendElements DEF MakeKnock, TypeInv, Core
  <2>4. MessageNow \subseteq MessageNow' /\ QueryNow \subseteq QueryNow'
        /\ FrameNow \subseteq FrameNow'
    BY <2>1, <2>3, <1>0, NowGrows DEF MakeKnock
  <2>5. Flows'
    BY <2>1, <2>4, SeqMonotonic DEF MakeKnock, TypeInv, Flows
  <2>6. nextCursor \in 0 .. Len(made')
    BY <1>0, <2>3 DEF TypeInv, Core
  <2>7. Core'
    BY <2>1, <2>3, <2>6 DEF MakeKnock, TypeInv, Core
  <2>8. QED
    BY <2>1, <2>5, <2>7 DEF MakeKnock, TypeInv
<1>3. CASE \E k \in OthersKnocks : WriteOthersKnock(k)
  <2>1. PICK k \in OthersKnocks : WriteOthersKnock(k)
    BY <1>3
  <2>2. k \in AllKnocks /\ DateOf[k] = day
    BY <2>1 DEF WriteOthersKnock, AllKnocks
  <2>3. OthersFrame(k) \in FrameNow
    BY <1>0, <2>2 DEF FrameNow, OthersFrame
  <2>4. repMem' \in Seq(FrameNow)
    BY <2>1, <2>3, AppendElements DEF WriteOthersKnock, TypeInv, Flows
  <2>5. Flows' /\ made' \in Seq(Happened') /\ Len(made') = Len(made)
    BY <2>1, <2>4, FlowsStay DEF WriteOthersKnock, TypeInv, Flows
  <2>6. Core'
    BY <2>1, <2>5 DEF WriteOthersKnock, TypeInv, Core
  <2>7. QED
    BY <2>1, <2>5, <2>6 DEF WriteOthersKnock, TypeInv
<1>4. CASE \E c \in Codes : Trade(c)
  <2>1. PICK c \in Codes : Trade(c)
    BY <1>4
  <2>2. Flows' /\ made' \in Seq(Happened') /\ Len(made') = Len(made)
    BY <2>1, FlowsStay DEF Trade, TypeInv, Flows
  <2>3. plan' = plan /\ plan \in PlanType
    BY <2>1, ServerAssumption DEF Trade, TypeInv, Core
  <2>4. moved' \in [Codes -> Nat] /\ \A d \in Codes : moved'[d] < Len(plan'.volumes[d])
    BY <2>1, <2>3 DEF Trade, TypeInv, Core
  <2>5. Core'
    BY <2>1, <2>2, <2>4 DEF Trade, TypeInv, Core
  <2>6. QED
    BY <2>1, <2>2, <2>5 DEF Trade, TypeInv
<1>5. CASE Midnight
  <2>1. day' = day + 1 /\ made' = made /\ starts' = starts /\ plan' = plan
    BY <1>5 DEF Midnight
  <2>2. /\ Happened \subseteq Happened' /\ MessageNow \subseteq MessageNow'
        /\ QueryNow \subseteq QueryNow' /\ FrameNow \subseteq FrameNow'
    BY <1>0, <2>1, NowGrows
  <2>3. Flows' /\ made' \in Seq(Happened')
    BY <1>5, <2>1, <2>2, SeqMonotonic DEF Midnight, TypeInv, Flows, Core
  <2>4. Core'
    BY <1>0, <1>5, <2>1, <2>3 DEF Midnight, TypeInv, Core
  <2>5. QED
    BY <1>5, <2>3, <2>4 DEF Midnight, TypeInv
<1>6. QED
  BY <1>1, <1>2, <1>3, <1>4, <1>5

\* The counter may say nothing but what has happened.
LEMMA AnswersTypes ==
  ASSUME TypeInv, NEW q \in QueryNow, NEW answer \in Answers(q) \cup ErrorAnswers(q)
  PROVE  answer \in MessageNow
<1>1. made \in Seq(Happened) /\ Len(made) \in Nat /\ day \in Nat
  BY DEF TypeInv, Core
<1>2. CASE q.type = "QueryTradeKnockReq"
  <2>1. q.cursor \in 0 .. Len(made)
    BY <1>2, QueryCases
  <2>2. ASSUME NEW c \in {0, q.cursor} PROVE KnockPage(c, <<>>) \in MessageNow
    <3>1. c \in 0 .. Len(made) /\ <<>> \in Seq(Happened)
      BY <1>1, <2>1
    <3>2. QED
      BY <3>1, MakeMessage, Zenon
  <2>3. ASSUME NEW n \in 0 .. PageSize, n <= Len(made) - q.cursor
        PROVE  KnockPage(q.cursor + n, SubSeq(made, q.cursor + 1, q.cursor + n)) \in MessageNow
    <3>1. q.cursor + n \in 0 .. Len(made)
      BY <1>1, <2>1, <2>3
    <3>2. SubSeq(made, q.cursor + 1, q.cursor + n) \in Seq(Happened)
      BY <1>1, <2>1, <3>1
    <3>3. QED
      BY <3>1, <3>2, MakeMessage
  <2>4. QED
    BY <1>2, <2>2, <2>3 DEF Answers, ErrorAnswers
<1>3. CASE q.type # "QueryTradeKnockReq"
  <2>1. q.init \in BOOLEAN
    BY <1>3, QueryCases
  <2>2. plan \in PlanType
    BY ServerAssumption DEF TypeInv, Core
  <2>3. \A c \in Codes : Volume(c) \in Nat
    <3>1. TAKE c \in Codes
    <3>2. plan.volumes[c] \in Seq(Nat) /\ moved[c] + 1 \in 1 .. Len(plan.volumes[c])
      BY <2>2 DEF PlanType, TypeInv, Core
    <3>3. QED
      BY <3>2, ElementOfSeq DEF Volume
  <2>4. Holdings \subseteq Holding
    BY <1>1, <2>3 DEF Holdings, Holding
  <2>5. PositionPage(q.init, Holdings) \in MessageNow /\ PositionPage(q.init, {}) \in MessageNow
    BY <2>1, <2>4, MakeMessage
  <2>6. QED
    BY <1>3, <2>5 DEF Answers, ErrorAnswers
<1>4. QED
  BY <1>2, <1>3

\* What comes in through SendRtnMessage and what the threads push.
LEMMA TypeInvPush ==
  ASSUME TypeInv,
         \/ \E r \in Requests : Reply(r)
         \/ \E k \in Knocks : PushKnock(k)
         \/ \E i \in DOMAIN queries : AnswerQuery(i) \/ FailQuery(i)
         \/ \E i \in DOMAIN reqMem : ReadReqMem(i)
         \/ RunKnockQuery \/ RunPositionQuery \/ RunWatch
  PROVE  TypeInv'
<1> USE DEF calendar, counter, session, asking, requestFile, process, memory
<1>0. made \in Seq(Happened) /\ reqMem \in Seq(Requests) /\ queries \in Seq(QueryNow)
      /\ repMem \in Seq(FrameNow) /\ queue \in Seq(MessageNow)
  BY DEF TypeInv, Core, Flows
<1>1. CASE \E r \in Requests : Reply(r)
  <2>1. PICK r \in Requests : Reply(r)
    BY <1>1
  <2>2. queue' \in Seq(MessageNow)
    BY <2>1, MakeMessage, QueueSteps DEF Reply, Push
  <2>3. Flows' /\ made' \in Seq(Happened') /\ Len(made') = Len(made)
    BY <1>0, <2>1, <2>2, FlowsStay DEF Reply
  <2>4. QED
    BY <2>1, <2>3 DEF Reply, TypeInv, Core
<1>2. CASE \E k \in Knocks : PushKnock(k)
  <2>1. PICK k \in Knocks : PushKnock(k)
    BY <1>2
  <2>2. k \in Happened
    BY <1>0, <2>1 DEF PushKnock, Elements
  <2>3. queue' \in Seq(MessageNow)
    BY <2>1, <2>2, MakeMessage, QueueSteps DEF PushKnock, Push
  <2>4. Flows' /\ made' \in Seq(Happened') /\ Len(made') = Len(made)
    BY <1>0, <2>1, <2>3, FlowsStay DEF PushKnock
  <2>5. QED
    BY <2>1, <2>4 DEF PushKnock, TypeInv, Core
<1>3. CASE \E i \in DOMAIN queries : AnswerQuery(i) \/ FailQuery(i)
  <2>1. PICK i \in DOMAIN queries : AnswerQuery(i) \/ FailQuery(i)
    BY <1>3
  <2>2. queries[i] \in QueryNow /\ Without(queries, i) \in Seq(QueryNow)
    BY <1>0, WithoutElements
  <2>3. queue' \in Seq(MessageNow)
    BY <1>0, <2>1, <2>2, AnswersTypes, QueueSteps DEF AnswerQuery, FailQuery, Push
  <2>4. UNCHANGED <<day, made, starts, repMem>> /\ queries' = Without(queries, i)
    BY <2>1 DEF AnswerQuery, FailQuery
  <2>5. Flows' /\ made' \in Seq(Happened') /\ Len(made') = Len(made)
    BY <1>0, <2>2, <2>3, <2>4, FlowsStay
  <2>6. failures' \in Nat
    BY <2>1 DEF AnswerQuery, FailQuery, TypeInv, Core
  <2>7. UNCHANGED <<calendar, counter, session, requestFile, process, memory>> /\ up
    BY <2>1 DEF AnswerQuery, FailQuery
  <2>8. QED
    BY <2>5, <2>6, <2>7 DEF TypeInv, Core
<1>4. CASE \E i \in DOMAIN reqMem : ReadReqMem(i)
  <2>1. PICK i \in DOMAIN reqMem : ReadReqMem(i)
    BY <1>4
  <2>2. reqMem[i] \in Requests
    BY <1>0
  <2>3. queue' \in Seq(MessageNow)
    BY <2>1, <2>2, MakeMessage, QueueSteps DEF ReadReqMem, PassOn, Push
  <2>4. Flows' /\ made' \in Seq(Happened') /\ Len(made') = Len(made)
    BY <1>0, <2>1, <2>3, FlowsStay DEF ReadReqMem
  <2>5. QED
    BY <2>1, <2>2, <2>4 DEF ReadReqMem, Consume, TypeInv, Core
<1>5. CASE RunKnockQuery \/ RunPositionQuery \/ RunWatch
  <2>1. nextCursor \in 0 .. Len(made)
    BY DEF TypeInv, Core
  <2>2. queue' \in Seq(MessageNow)
    BY <1>5, <2>1, MakeMessage, QueueSteps DEF RunKnockQuery, RunPositionQuery, RunWatch, Push
  <2>3. UNCHANGED <<day, made, starts, repMem, queries>>
    BY <1>5 DEF RunKnockQuery, RunPositionQuery, RunWatch
  <2>4. Flows' /\ made' \in Seq(Happened') /\ Len(made') = Len(made)
    BY <1>0, <2>2, <2>3, FlowsStay
  <2>5. QED
    BY <1>5, <2>4 DEF RunKnockQuery, RunPositionQuery, RunWatch, TypeInv, Core
<1>6. QED
  BY <1>1, <1>2, <1>3, <1>4, <1>5

\* Recording a knock that has happened.
LEMMA RecordTypes ==
  ASSUME TypeInv, NEW k \in Happened, Record(k)
  PROVE  knocks' \subseteq AllKnocks /\ repMem' \in Seq(FrameNow)
<1>1. k \in AllKnocks /\ k \in Knocks /\ DateOf[k] <= day
  BY DEF Happened, AllKnocks
<1>2. InnerMatchNo(k) \in AllKnocks
  BY <1>1, ServerAssumption DEF InnerMatchNo
<1>3. KnockFrame(k) \in FrameNow
  BY <1>1 DEF FrameNow, KnockFrame, TypeInv, Core
<1>4. repMem \in Seq(FrameNow) /\ knocks \subseteq AllKnocks
  BY DEF TypeInv, Core, Flows
<1>5. QED
  BY <1>2, <1>3, <1>4, AppendElements DEF Record
\* The main loop.
LEMMA TypeInvLoop ==
  ASSUME TypeInv, HandleQueueMessage
  PROVE  TypeInv'
<1> USE DEF calendar, counter, session, asking, requestFile, process, memory
<1>0. /\ made \in Seq(Happened) /\ reqMem \in Seq(Requests) /\ queries \in Seq(QueryNow)
      /\ repMem \in Seq(FrameNow) /\ queue \in Seq(MessageNow)
      /\ sent \in [Requests -> Nat] /\ failures \in Nat
  BY DEF TypeInv, Core, Flows
<1>1. /\ queue # <<>> /\ up
      /\ Head(queue) \in MessageNow /\ Tail(queue) \in Seq(MessageNow)
  <2>1. queue # <<>> /\ up
    BY DEF HandleQueueMessage, SendTradeRequest, SendTradeReply, SendTradeKnock, SendQuery,
           SendQueryTradeKnockRep, SendQueryTradePositionRep, SendMonitorRisk, HandleSignal, Front
  <2>2. QED
    BY <2>1, QueueSteps
<1>2. /\ \A f \in FrameNow : Append(repMem, f) \in Seq(FrameNow)
       /\ \A q \in QueryNow : Append(queries, q) \in Seq(QueryNow)
  BY <1>0, AppendElements
<1>3. CASE SendTradeRequest
  <2>1. Head(queue).id \in Requests
    BY <1>1, <1>3, MessageCases DEF SendTradeRequest, Front
  <2>2. queue' \in Seq(MessageNow)
    BY <1>1, <1>3, <2>1, MakeMessage, QueueSteps DEF SendTradeRequest, OnTradeRequest, Done
  <2>3. Flows' /\ made' \in Seq(Happened') /\ Len(made') = Len(made)
    BY <1>0, <1>3, <2>2, FlowsStay DEF SendTradeRequest
  <2>4. sent' \in [Requests -> Nat]
    BY <1>0, <1>3, <2>1 DEF SendTradeRequest, OnTradeRequest
  <2>5. pending' \subseteq Requests
    BY <1>3, <2>1 DEF SendTradeRequest, TypeInv, Core
  <2>6. UNCHANGED <<calendar, counter, replied, asking, requestFile, repMem, process,
                    knocks, handed, positions, nextCursor, beaten>>
    BY <1>3, Zenon DEF SendTradeRequest
  <2>7. QED
    BY <1>1, <2>3, <2>4, <2>5, <2>6 DEF TypeInv, Core
<1>4. CASE SendTradeReply
  <2>1. Head(queue).id \in Requests
    BY <1>1, <1>4, MessageCases DEF SendTradeReply, Front
  <2>2. TradeRep(Head(queue).id) \in FrameNow
    BY <2>1 DEF FrameNow, TradeRep
  <2>3. /\ pending' = pending \/ pending' = pending \ {Head(queue).id}
        /\ repMem' = repMem \/ repMem' = Append(repMem, TradeRep(Head(queue).id))
        /\ UNCHANGED <<calendar, counter, session, asking, requestFile, process,
                       knocks, handed, positions, nextCursor, beaten>>
    BY <1>4, Zenon DEF SendTradeReply
  <2>4. pending' \subseteq Requests
    BY <2>3 DEF TypeInv, Core
  <2>5. repMem' \in Seq(FrameNow)
    BY <1>0, <1>2, <2>2, <2>3, Zenon
  <2>6. Flows' /\ made' \in Seq(Happened') /\ Len(made') = Len(made)
    BY <1>0, <1>1, <1>4, <2>3, <2>5, FlowsStay DEF SendTradeReply, Done
  <2>7. QED
    BY <1>1, <2>3, <2>6, <2>4 DEF TypeInv, Core
<1>5. CASE SendTradeKnock
  <2>1. Head(queue).knock \in Happened
    BY <1>1, <1>5, MessageCases DEF SendTradeKnock, Front
  <2>2. knocks' \subseteq AllKnocks /\ repMem' \in Seq(FrameNow)
    BY <1>5, <2>1, RecordTypes DEF SendTradeKnock
  <2>3. handed' \in [Knocks -> Nat]
    <3>1. \/ handed' = handed
          \/ handed' = [handed EXCEPT ![Head(queue).knock] = @ + 1]
      BY <1>5, Zenon DEF SendTradeKnock, HandOver
    <3>2. handed \in [Knocks -> Nat]
      BY DEF TypeInv, Core
    <3>3. QED
      BY <3>1, <3>2
  <2>4. Flows' /\ made' \in Seq(Happened') /\ Len(made') = Len(made)
    BY <1>0, <1>1, <1>5, <2>2, FlowsStay DEF SendTradeKnock, Done
  <2>5. UNCHANGED <<calendar, counter, session, asking, requestFile, process,
                    pending, positions, nextCursor, beaten>>
    BY <1>5, Zenon DEF SendTradeKnock
  <2>6. QED
    BY <1>1, <2>2, <2>3, <2>4, <2>5 DEF TypeInv, Core
<1>6. CASE SendQuery
  <2>1. Head(queue) \in QueryNow
    BY <1>1, <1>6, MessageCases DEF SendQuery, Front
  <2>2. queries' \in Seq(QueryNow) /\ failures' \in Nat
    <3>1. /\ queries' = queries \/ queries' = Append(queries, Head(queue))
          /\ failures' = failures \/ failures' = failures + 1
      BY <1>6, Zenon DEF SendQuery, OnQuery
    <3>2. queries' \in Seq(QueryNow)
      <4>1. Append(queries, Head(queue)) \in Seq(QueryNow) /\ queries \in Seq(QueryNow)
        BY <1>0, <1>2, <2>1
      <4>2. QED
        BY <3>1, <4>1, Zenon
    <3>3. failures' \in Nat
      BY <1>0, <3>1
    <3>4. QED
      BY <3>2, <3>3
  <2>3. queue' \in Seq(MessageNow)
    BY <1>1, <1>6, MakeMessage, QueueSteps DEF SendQuery, OnQuery, Done
  <2>4. UNCHANGED <<calendar, counter, session, requestFile, repMem, process, memory>>
    BY <1>6 DEF SendQuery
  <2>5. Flows' /\ made' \in Seq(Happened') /\ Len(made') = Len(made)
    BY <1>0, <2>2, <2>3, <2>4, FlowsStay
  <2>6. QED
    BY <1>1, <2>2, <2>4, <2>5 DEF TypeInv, Core
<1>7. CASE SendQueryTradeKnockRep
  <2> DEFINE page == Head(queue)
  <2>1. page.next_cursor \in 0 .. Len(made) /\ page.items \in Seq(Happened)
    BY <1>1, <1>7, MessageCases DEF SendQueryTradeKnockRep, Front
  <2>2. nextCursor' \in 0 .. Len(made)
    BY <1>7, <2>1 DEF SendQueryTradeKnockRep, CursorAfter, TypeInv, Core
  <2>3. ASSUME page.items # <<>>
        PROVE  Head(page.items) \in Happened /\ Tail(page.items) \in Seq(Happened)
    BY <2>1, <2>3, TailElements
  <2>4. knocks' \subseteq AllKnocks /\ repMem' \in Seq(FrameNow)
    <3>1. CASE page.items = <<>>
      BY <1>0, <1>7, <3>1 DEF SendQueryTradeKnockRep, TypeInv, Core
    <3>2. CASE page.items # <<>>
      BY <1>7, <2>3, <3>2, RecordTypes DEF SendQueryTradeKnockRep
    <3>3. QED
      BY <3>1, <3>2
  <2>5. queue' \in Seq(MessageNow)
    <3>1. CASE page.items = <<>>
      BY <1>1, <1>7, <3>1 DEF SendQueryTradeKnockRep, Done
    <3>2. CASE page.items # <<>>
      <4>1. KnockPage(page.next_cursor, Tail(page.items)) \in MessageNow
        BY <2>1, <2>3, <3>2, MakeMessage
      <4>2. queue' = <<KnockPage(page.next_cursor, Tail(page.items))>> \o Tail(queue)
        BY <1>7, <3>2 DEF SendQueryTradeKnockRep, Rest
      <4>3. QED
        BY <1>1, <4>1, <4>2, QueueSteps
    <3>3. QED
      BY <3>1, <3>2
  <2>6. UNCHANGED <<calendar, counter, session, asking, requestFile, process, handed,
                    pending, positions, beaten>>
    BY <1>7 DEF SendQueryTradeKnockRep
  <2>7. Flows' /\ made' \in Seq(Happened') /\ Len(made') = Len(made)
    BY <1>0, <2>4, <2>5, <2>6, FlowsStay
  <2>8. QED
    BY <1>1, <2>2, <2>4, <2>6, <2>7 DEF TypeInv, Core
<1>8. CASE SendQueryTradePositionRep
  <2> DEFINE page == Head(queue)
  <2>1. page.holdings \subseteq Holding
    BY <1>1, <1>8, MessageCases DEF SendQueryTradePositionRep, Front
  <2>2. UNCHANGED <<calendar, counter, session, asking, requestFile, process, knocks, handed,
                    pending, nextCursor, beaten>>
    BY <1>8 DEF SendQueryTradePositionRep
  <2>3. /\ queue' \in Seq(MessageNow) /\ repMem' \in Seq(FrameNow)
        /\ positions' \in [Codes -> Int]
    <3>1. CASE page.init \/ page.holdings = {}
      BY <1>0, <1>1, <1>8, <3>1 DEF SendQueryTradePositionRep, Done, TypeInv, Core
    <3>2. CASE ~(page.init \/ page.holdings = {})
      <4>1. PICK p \in page.holdings :
              /\ queue' = <<PositionPage(FALSE, page.holdings \ {p})>> \o Tail(queue)
              /\ positions' = [positions EXCEPT ![p.code] = p.volume]
              /\ repMem' = IF Changed(p) THEN Append(repMem, PositionFrame(p)) ELSE repMem
        BY <1>8, <3>2 DEF SendQueryTradePositionRep
      <4>2. p.code \in Codes /\ p.volume \in Nat /\ p.date \in Nat
        BY <2>1 DEF Holding
      <4>3. PositionPage(FALSE, page.holdings \ {p}) \in MessageNow
        <5>1. page.holdings \ {p} \in SUBSET Holding
          BY <2>1
        <5>2. QED
          BY <5>1, MakeMessage
      <4>4. PositionFrame(p) \in FrameNow
        BY <4>2 DEF PositionFrame, FrameNow, TypeInv, Core
      <4>5. repMem' \in Seq(FrameNow)
        BY <1>0, <1>2, <4>1, <4>4, Zenon
      <4>6. positions' \in [Codes -> Int]
        BY <4>1, <4>2 DEF TypeInv, Core
      <4>7. QED
        BY <1>1, <4>1, <4>3, <4>5, <4>6, QueueSteps
    <3>3. QED
      BY <3>1, <3>2
  <2>4. Flows' /\ made' \in Seq(Happened') /\ Len(made') = Len(made)
    BY <1>0, <2>2, <2>3, FlowsStay
  <2>5. QED
    BY <1>1, <2>2, <2>3, <2>4 DEF TypeInv, Core
<1>9. CASE SendMonitorRisk
  <2>1. UNCHANGED <<calendar, counter, session, asking, requestFile, repMem, process, memory>>
        /\ queue' = Tail(queue)
    BY <1>9 DEF SendMonitorRisk, Done
  <2>2. Flows' /\ made' \in Seq(Happened') /\ Len(made') = Len(made)
    BY <1>0, <1>1, <2>1, FlowsStay
  <2>3. QED
    BY <1>1, <2>1, <2>2 DEF TypeInv, Core
<1>10. CASE HandleSignal
  <2>1. UNCHANGED <<calendar, counter, session, asking, requestFile, process, knocks, handed,
                    positions, nextCursor>> /\ queue' = Tail(queue)
    BY <1>10 DEF HandleSignal, Done
  <2>2. HeartBeat \in FrameNow
    BY DEF FrameNow
  <2>3. repMem' \in Seq(FrameNow)
    <3>1. repMem' = repMem \/ repMem' = Append(repMem, HeartBeat)
      BY <1>10, Zenon DEF HandleSignal, DoWatch
    <3>2. QED
      BY <1>0, <1>2, <2>2, <3>1, Zenon
  <2>4. pending' \subseteq Requests /\ beaten' \in BOOLEAN
    BY <1>10 DEF HandleSignal, DoWatch, TypeInv, Core
  <2>5. Flows' /\ made' \in Seq(Happened') /\ Len(made') = Len(made)
    BY <1>0, <1>1, <2>1, <2>3, FlowsStay
  <2>6. QED
    BY <1>1, <2>1, <2>4, <2>5 DEF TypeInv, Core
<1>11. QED
  BY <1>3, <1>4, <1>5, <1>6, <1>7, <1>8, <1>9, <1>10 DEF HandleQueueMessage

\* A set of positions of a sequence has a last one: its distance from the end is least.
LEMMA HasLatest ==
  ASSUME NEW n \in Nat, NEW S, S \subseteq 1 .. n, S # {}
  PROVE  \E m \in S : \A j \in S : j <= m
<1> DEFINE R == OpToRel(<, Nat)
           T == {n - i : i \in S}
<1>1. IsWellFoundedOn(R, Nat)
  BY NatLessThanWellFounded
<1>2. \A x, y \in Nat : y < x => <<y, x>> \in R
  BY DEF OpToRel
<1>3. T \subseteq Nat /\ T # {}
  <2>1. \A i \in S : n - i \in Nat
    OBVIOUS
  <2>2. QED
    BY <2>1
<1> HIDE DEF R, T
<1>4. PICK x \in T : \A y \in T : ~ (<<y, x>> \in R)
  BY <1>1, <1>3, WFMin, Zenon
<1>5. PICK m \in S : x = n - m
  BY <1>4 DEF T
<1>6. ASSUME NEW j \in S
      PROVE  j <= m
  <2>1. n - j \in T /\ n - j \in Nat /\ x \in Nat
    BY <1>3, <1>4 DEF T
  <2>2. ~ (n - j < x)
    BY <1>2, <1>4, <2>1
  <2>3. j \in Int /\ m \in Int
    OBVIOUS
  <2>4. QED
    BY <1>5, <2>2, <2>3
<1>7. QED
  BY <1>6

\* What the reply file says of a code is a volume, if there are frames of it.
LEMMA VolumeOfTypes ==
  ASSUME repMem \in Seq(FrameNow), NEW S, S \subseteq FramesOf("TradePosition")
  PROVE  VolumeOf(S) \in Int
<1>1. CASE S = {}
  BY <1>1 DEF VolumeOf, NoVolume
<1>2. CASE S # {}
  <2>1. S \subseteq 1 .. Len(repMem) /\ Len(repMem) \in Nat
    BY DEF FramesOf
  <2>2. \E m \in S : \A j \in S : j <= m
    BY <1>2, <2>1, HasLatest
  <2>3. Latest(S) \in S
    BY <2>2 DEF Latest
  <2>4. Latest(S) \in DOMAIN repMem /\ repMem[Latest(S)].type = "TradePosition"
    BY <2>3 DEF FramesOf
  <2>5. repMem[Latest(S)].volume \in Nat
    BY <2>4, FrameCases
  <2>6. QED
    BY <1>2, <2>5 DEF VolumeOf
<1>3. QED
  BY <1>1, <1>2

LEMMA TypeInvStart ==
  ASSUME TypeInv, Start
  PROVE  TypeInv'
<1> USE DEF calendar, counter, session, asking, requestFile, process, memory
<1>0. /\ DateOf \in [AllKnocks -> Nat] /\ Len(made) \in Nat /\ day \in Nat /\ starts \in Nat
      /\ plan \in PlanType
  BY ServerAssumption DEF TypeInv, Core
<1>1. /\ day' = day /\ made' = made /\ starts' = starts + 1 /\ up' /\ natureDay' = day
      /\ UNCHANGED <<calendar, counter, session, asking, requestFile, repMem, handed, pending,
                     nextCursor, beaten>>
  BY <1>0, Zenon DEF Start
<1>2. MessageNow \subseteq MessageNow' /\ QueryNow \subseteq QueryNow' /\ FrameNow \subseteq FrameNow'
      /\ Happened' = Happened
  BY <1>0, <1>1, NowGrows DEF Happened
<1>3. queue' \in Seq(MessageNow')
  <2>1. PositionQuery(TRUE) \in MessageNow
    BY MakeMessage
  <2>2. PositionQuery(TRUE) \in MessageNow'
    BY <1>2, <2>1
  <2>3. queue' = <<PositionQuery(TRUE)>> \/ queue' = <<>>
    BY DEF Start, OnStart
  <2>4. \A S, m : m \in S => <<m>> \in Seq(S)
    OBVIOUS
  <2>5. \A S : <<>> \in Seq(S)
    OBVIOUS
  <2>6. QED
    BY <2>2, <2>3, <2>4, <2>5, Zenon
<1>4. Flows'
  BY <1>1, <1>2, <1>3, SeqMonotonic DEF TypeInv, Flows
<1>5. knocks' \subseteq AllKnocks
  <2>1. SUFFICES ASSUME NEW i \in FramesOf("TradeKnock")
                 PROVE  InnerMatchNo(repMem[i].knock) \in AllKnocks
    BY DEF Start, LoadTradingData, SeenToday
  <2>2. i \in DOMAIN repMem /\ repMem[i].type = "TradeKnock" /\ repMem \in Seq(FrameNow)
    BY DEF FramesOf, TypeInv, Flows
  <2>3. repMem[i].knock \in AllKnocks
    BY <2>2, FrameCases
  <2>4. QED
    BY <2>3, ServerAssumption DEF InnerMatchNo
<1>6. positions' \in [Codes -> Int]
  <2>1. repMem \in Seq(FrameNow)
    BY DEF TypeInv, Flows
  <2>2. \A c \in Codes : VolumeOf(FramesToday(c)) \in Int
    BY <2>1, VolumeOfTypes DEF FramesToday
  <2>3. positions' = [c \in Codes |-> VolumeOf(FramesToday(c))]
    BY DEF Start, LoadTradingData
  <2>4. QED
    BY <2>2, <2>3
<1>7. Core'
  BY <1>0, <1>1, <1>2, <1>5, <1>6 DEF TypeInv, Core
<1>8. QED
  BY <1>1, <1>4, <1>7 DEF TypeInv

LEMMA TypeInvCrash ==
  ASSUME TypeInv, Crash
  PROVE  TypeInv'
<1> USE DEF calendar, counter, session, asking, requestFile, process, memory
<1>1. queue' = <<>> /\ queries' = <<>> /\ UNCHANGED <<day, made, starts, repMem>>
  BY DEF Crash
<1>2. Flows' /\ made' \in Seq(Happened') /\ Len(made') = Len(made)
  BY <1>1, FlowsStay DEF TypeInv, Flows
<1>3. handed' \in [Knocks -> Nat] /\ positions' \in [Codes -> Int]
  BY DEF Crash, NoVolume
<1>4. nextCursor' \in 0 .. Len(made')
  BY <1>2 DEF Crash, TypeInv, Core
<1>5. QED
  BY <1>1, <1>2, <1>3, <1>4 DEF Crash, TypeInv, Core

LEMMA TypeInvStutter ==
  ASSUME TypeInv, UNCHANGED vars
  PROVE  TypeInv'
<1>1. UNCHANGED <<calendar, counter, session, asking, requestFile, repMem, process, queue, memory>>
  BY DEF vars
<1>2. Flows' /\ made' \in Seq(Happened') /\ Len(made') = Len(made)
  BY <1>1, FlowsStay DEF calendar, counter, asking, process, TypeInv, Flows
<1>3. QED
  BY <1>1, <1>2 DEF calendar, counter, session, asking, requestFile, process, memory, TypeInv, Core

LEMMA TypeInvStep ==
  ASSUME TypeInv, [Next]_vars
  PROVE  TypeInv'
BY TypeInvOutside, TypeInvPush, TypeInvLoop, TypeInvStart, TypeInvCrash, TypeInvStutter DEF Next

LEMMA TypeInvAlways == Spec => []TypeInv
BY TypeInvInit, TypeInvStep, PTL DEF Spec

\* For every account, plan and number of starts the server's variables keep their
\* types: no cursor of a query or of the server itself ever points behind the counter's
\* list of knocks (RunQuery, SendQueryTradeKnockRep, Crash).
THEOREM ServerTypeCorrect == Spec => []TypeOK
BY TypeInvAlways, NowIsTyped, PTL

-----------------------------------------------------------------------------
(* The life of a request: it is sent at most once, answered at most once, and moves as
   RequestLife says.  A request is in the queue at most once, as a request or as an
   answer; what the queue holds of it, the mark in the request file and the answers in
   the reply file fit together (RequestInv).  Steps about knocks, positions and signals
   touch none of these (Quiet). *)

AtMostOne(s, T) == \A i, j \in DOMAIN s : s[i] \in T /\ s[j] \in T => i = j
OfRequest(r) == {TradeReq(r), TradeRep(r)}   \* what the queue may hold of a request
Asked(r) == TradeReq(r) \in Elements(queue)
Answering(r) == TradeRep(r) \in Elements(queue)
InRep(r) == TradeRep(r) \in Elements(repMem)

\* At most one element of T: what Append, Tail and Cons do to that.
LEMMA AppendOne ==
  ASSUME NEW S, NEW s \in Seq(S), NEW e \in S, NEW T, AtMostOne(s, T),
         e \notin T \/ Elements(s) \cap T = {}
  PROVE  AtMostOne(Append(s, e), T)
<1>1. /\ Len(Append(s, e)) = Len(s) + 1 /\ Append(s, e) \in Seq(S)
      /\ Append(s, e)[Len(s) + 1] = e
      /\ \A i \in 1 .. Len(s) : Append(s, e)[i] = s[i]
  BY AppendElements
<1>2. DOMAIN Append(s, e) = 1 .. Len(s) + 1 /\ DOMAIN s = 1 .. Len(s) /\ Len(s) \in Nat
  BY <1>1
<1>3. \A i \in 1 .. Len(s) + 1 : i = Len(s) + 1 \/ i \in DOMAIN s
  BY <1>2
<1>4. \A i \in DOMAIN s : Append(s, e)[i] = s[i] /\ s[i] \in Elements(s)
  BY <1>1, <1>2 DEF Elements
<1>5. SUFFICES ASSUME NEW i \in 1 .. Len(s) + 1, NEW j \in 1 .. Len(s) + 1,
                      Append(s, e)[i] \in T, Append(s, e)[j] \in T
               PROVE  i = j
  BY <1>2 DEF AtMostOne
<1>6. CASE i \in DOMAIN s /\ j \in DOMAIN s
  BY <1>4, <1>5, <1>6 DEF AtMostOne
<1>7. CASE i = Len(s) + 1 /\ j \in DOMAIN s
  BY <1>1, <1>4, <1>5, <1>7
<1>8. CASE i \in DOMAIN s /\ j = Len(s) + 1
  BY <1>1, <1>4, <1>5, <1>8
<1>9. QED
  BY <1>3, <1>6, <1>7, <1>8

LEMMA TailOne ==
  ASSUME NEW S, NEW s \in Seq(S), s # <<>>, NEW T, AtMostOne(s, T)
  PROVE  /\ AtMostOne(Tail(s), T)
         /\ Head(s) \in T => Elements(Tail(s)) \cap T = {}
<1>1. /\ Tail(s) \in Seq(S) /\ Head(s) = s[1] /\ 1 \in DOMAIN s
      /\ Len(Tail(s)) = Len(s) - 1
      /\ \A i \in 1 .. Len(s) - 1 : Tail(s)[i] = s[i + 1]
  BY TailElements
<1>2. DOMAIN Tail(s) = 1 .. Len(s) - 1 /\ DOMAIN s = 1 .. Len(s) /\ Len(s) \in Nat \ {0}
  BY <1>1
<1>3. \A i \in DOMAIN Tail(s) : i \in Int /\ i + 1 \in DOMAIN s /\ i + 1 # 1 /\ Tail(s)[i] = s[i + 1]
  BY <1>1, <1>2
<1>4. AtMostOne(Tail(s), T)
  <2>1. SUFFICES ASSUME NEW i \in DOMAIN Tail(s), NEW j \in DOMAIN Tail(s),
                        Tail(s)[i] \in T, Tail(s)[j] \in T
                 PROVE  i = j
    BY DEF AtMostOne
  <2>2. i + 1 = j + 1
    BY <1>3, <2>1 DEF AtMostOne
  <2>3. QED
    BY <1>3, <2>2
<1>5. ASSUME Head(s) \in T, NEW j \in DOMAIN Tail(s), Tail(s)[j] \in T
      PROVE  FALSE
  BY <1>1, <1>3, <1>5 DEF AtMostOne
<1>6. QED
  BY <1>4, <1>5 DEF Elements

LEMMA ConsOne ==
  ASSUME NEW S, NEW s \in Seq(S), NEW e \in S, NEW T, AtMostOne(s, T), e \notin T
  PROVE  AtMostOne(<<e>> \o s, T)
<1> DEFINE t == <<e>> \o s
<1>1. /\ Len(t) = Len(s) + 1 /\ t \in Seq(S) /\ t[1] = e
      /\ \A i \in 1 .. Len(s) : t[i + 1] = s[i]
  BY ConsElements
<1> HIDE DEF t
<1>2. DOMAIN t = 1 .. Len(s) + 1 /\ DOMAIN s = 1 .. Len(s) /\ Len(s) \in Nat
  BY <1>1
<1>3. \A i \in DOMAIN t : i = 1 \/ (i \in Int /\ i - 1 \in DOMAIN s /\ t[i] = s[i - 1])
  <2>1. \A i \in DOMAIN t : i # 1 => i - 1 \in 1 .. Len(s) /\ (i - 1) + 1 = i /\ i \in Int
    BY <1>2
  <2>2. QED
    BY <1>1, <1>2, <2>1
<1>4. SUFFICES ASSUME NEW i \in DOMAIN t, NEW j \in DOMAIN t, t[i] \in T, t[j] \in T
               PROVE  i = j
  BY DEF AtMostOne, t
<1>5. i # 1 /\ j # 1
  BY <1>1, <1>4
<1>6. i - 1 = j - 1
  BY <1>3, <1>4, <1>5 DEF AtMostOne
<1>7. QED
  BY <1>3, <1>5, <1>6

\* The queue t holds of request r what s held of it.
SameTrade(r, s, t) ==
  /\ TradeReq(r) \in Elements(t) <=> TradeReq(r) \in Elements(s)
  /\ TradeRep(r) \in Elements(t) <=> TradeRep(r) \in Elements(s)
  /\ AtMostOne(s, OfRequest(r)) => AtMostOne(t, OfRequest(r))
\* The reply file t holds the answers to r s held.
SameReplies(r, s, t) ==
  /\ TradeRep(r) \in Elements(t) <=> TradeRep(r) \in Elements(s)
  /\ AtMostOne(s, {TradeRep(r)}) => AtMostOne(t, {TradeRep(r)})
\* A message that is not about r.
Quiet(r, m) == m # TradeReq(r) /\ m # TradeRep(r)

LEMMA QuietMessages ==
  ASSUME NEW r
  PROVE  /\ \A m : m.type \notin {"TradeReq", "TradeRep"} => Quiet(r, m)
         /\ \A q : q # r => Quiet(r, TradeReq(q)) /\ Quiet(r, TradeRep(q))
         /\ \A k : Quiet(r, TradeKnock(k)) /\ Quiet(r, KnockFrame(k)) /\ Quiet(r, OthersFrame(k))
         /\ \A c : Quiet(r, KnockQuery(c))
         /\ \A c, s : Quiet(r, KnockPage(c, s))
         /\ \A b : Quiet(r, PositionQuery(b))
         /\ \A b, S : Quiet(r, PositionPage(b, S))
         /\ \A p : Quiet(r, PositionFrame(p))
         /\ Quiet(r, MonitorRisk) /\ Quiet(r, Signal) /\ Quiet(r, HeartBeat)
<1>1. \A m : m.type \notin {"TradeReq", "TradeRep"} => Quiet(r, m)
  BY DEF Quiet, TradeReq, TradeRep
<1>2. \A q : /\ TradeReq(q).type = "TradeReq" /\ TradeReq(q).id = q
             /\ TradeRep(q).type = "TradeRep" /\ TradeRep(q).id = q
  BY DEF TradeReq, TradeRep
<1>3. \A q : q # r => Quiet(r, TradeReq(q)) /\ Quiet(r, TradeRep(q))
  BY <1>2 DEF Quiet
<1>4. \A k : /\ TradeKnock(k).type = "TradeKnock" /\ KnockFrame(k).type = "TradeKnock"
             /\ OthersFrame(k).type = "TradeKnock"
  BY DEF TradeKnock, KnockFrame, OthersFrame
<1>5. /\ \A c : KnockQuery(c).type = "QueryTradeKnockReq"
      /\ \A c, s : KnockPage(c, s).type = "QueryTradeKnockRep"
      /\ \A b : PositionQuery(b).type = "QueryTradePositionReq"
      /\ \A b, S : PositionPage(b, S).type = "QueryTradePositionRep"
      /\ \A p : PositionFrame(p).type = "TradePosition"
      /\ MonitorRisk.type = "MonitorRisk" /\ Signal.type = "InnerCyclicSignal"
      /\ HeartBeat.type = "HeartBeat"
  BY DEF KnockQuery, KnockPage, PositionQuery, PositionPage, PositionFrame, MonitorRisk, Signal,
         HeartBeat
<1>6. QED
  BY <1>1, <1>3, <1>4, <1>5

LEMMA QuietAppend ==
  ASSUME NEW S, NEW s \in Seq(S), NEW m \in S, NEW r, Quiet(r, m)
  PROVE  SameTrade(r, s, Append(s, m)) /\ SameReplies(r, s, Append(s, m))
<1>1. Elements(Append(s, m)) = Elements(s) \cup {m}
  BY AppendElements
<1>2. m \notin OfRequest(r) /\ m \notin {TradeRep(r)}
  BY DEF Quiet, OfRequest
<1>3. /\ AtMostOne(s, OfRequest(r)) => AtMostOne(Append(s, m), OfRequest(r))
      /\ AtMostOne(s, {TradeRep(r)}) => AtMostOne(Append(s, m), {TradeRep(r)})
  BY <1>2, AppendOne
<1>4. QED
  BY <1>1, <1>3 DEF SameTrade, SameReplies, Quiet

LEMMA QuietTail ==
  ASSUME NEW S, NEW s \in Seq(S), s # <<>>, NEW r, Quiet(r, Head(s))
  PROVE  SameTrade(r, s, Tail(s))
<1>1. Elements(s) = Elements(Tail(s)) \cup {Head(s)}
  BY TailElements
<1>2. AtMostOne(s, OfRequest(r)) => AtMostOne(Tail(s), OfRequest(r))
  BY TailOne
<1>3. QED
  BY <1>1, <1>2 DEF SameTrade, Quiet

LEMMA QuietCons ==
  ASSUME NEW S, NEW s \in Seq(S), NEW m \in S, NEW r, Quiet(r, m)
  PROVE  SameTrade(r, s, <<m>> \o s)
<1>1. Elements(<<m>> \o s) = Elements(s) \cup {m}
  BY ConsElements
<1>2. m \notin OfRequest(r)
  BY DEF Quiet, OfRequest
<1>3. AtMostOne(s, OfRequest(r)) => AtMostOne(<<m>> \o s, OfRequest(r))
  BY <1>2, ConsOne
<1>4. QED
  BY <1>1, <1>3 DEF SameTrade, Quiet

LEMMA SameTradeTransitive ==
  ASSUME NEW r, NEW s, NEW t, NEW u, SameTrade(r, s, t), SameTrade(r, t, u)
  PROVE  SameTrade(r, s, u)
BY Zenon DEF SameTrade

\* One quiet message more, less or replaced; one quiet frame more.
LEMMA QuietQueue ==
  ASSUME TypeInv, NEW r
  PROVE  /\ SameTrade(r, queue, queue) /\ SameReplies(r, repMem, repMem)
         /\ \A m \in MessageNow : Quiet(r, m) => SameTrade(r, queue, Append(queue, m))
         /\ \A f \in FrameNow : Quiet(r, f) => SameReplies(r, repMem, Append(repMem, f))
         /\ queue # <<>> /\ Quiet(r, Head(queue)) =>
              /\ SameTrade(r, queue, Tail(queue))
              /\ \A m \in MessageNow : Quiet(r, m) =>
                   /\ SameTrade(r, queue, Append(Tail(queue), m))
                   /\ SameTrade(r, queue, <<m>> \o Tail(queue))
<1>1. queue \in Seq(MessageNow) /\ repMem \in Seq(FrameNow)
  BY DEF TypeInv, Flows
<1>2. SameTrade(r, queue, queue) /\ SameReplies(r, repMem, repMem)
  BY DEF SameTrade, SameReplies
<1>3. \A m \in MessageNow : Quiet(r, m) => SameTrade(r, queue, Append(queue, m))
  BY <1>1, QuietAppend
<1>4. \A f \in FrameNow : Quiet(r, f) => SameReplies(r, repMem, Append(repMem, f))
  BY <1>1, QuietAppend
<1>5. ASSUME queue # <<>>, Quiet(r, Head(queue))
      PROVE  /\ SameTrade(r, queue, Tail(queue))
             /\ \A m \in MessageNow : Quiet(r, m) =>
                  /\ SameTrade(r, queue, Append(Tail(queue), m))
                  /\ SameTrade(r, queue, <<m>> \o Tail(queue))
  <2>1. Tail(queue) \in Seq(MessageNow)
    BY <1>1, <1>5, TailElements
  <2>2. SameTrade(r, queue, Tail(queue))
    BY <1>1, <1>5, QuietTail
  <2>3. \A m \in MessageNow : Quiet(r, m) =>
          /\ SameTrade(r, Tail(queue), Append(Tail(queue), m))
          /\ SameTrade(r, Tail(queue), <<m>> \o Tail(queue))
    BY <2>1, QuietAppend, QuietCons
  <2>4. QED
    BY <2>2, <2>3, SameTradeTransitive
<1>6. QED
  BY <1>2, <1>3, <1>4, <1>5

-----------------------------------------------------------------------------
(* The inductive invariant and the phase, by request.                      *)

Consistent(r) ==
  /\ AtMostOne(queue, OfRequest(r))
  /\ Asked(r) => r \in consumed /\ sent[r] = 0 /\ ~InRep(r)
  /\ Answering(r) => /\ r \in consumed
                     /\ sent[r] > 0 => r \in replied
                     /\ Fresh(r) => ~InRep(r)
  /\ sent[r] <= 1 /\ (sent[r] > 0 => r \in consumed)
  /\ up /\ sent[r] > 0 /\ Fresh(r) /\ r \notin replied => ~InRep(r)
  /\ InRep(r) => r \in consumed
  /\ r \in consumed => r \in Written
  /\ stamp[r] <= starts
  /\ AtMostOne(repMem, {TradeRep(r)})
RequestInv == \A r \in Requests : Consistent(r)

Phase(r) ==
  IF r \notin Written THEN "new"
  ELSE IF InRep(r) THEN "answered"
  ELSE IF sent[r] > 0 THEN "sent"
  ELSE IF r \notin consumed THEN "waiting"
  ELSE IF Asked(r) THEN "taken"
  ELSE IF Answering(r) THEN "refused" ELSE "lost"

\* A step that leaves request r alone.
Untouched(r) ==
  /\ sent'[r] = sent[r] /\ stamp'[r] = stamp[r]
  /\ r \in replied' <=> r \in replied
  /\ r \in consumed' <=> r \in consumed
  /\ r \in Written' <=> r \in Written
  /\ UNCHANGED <<up, starts>>
  /\ SameTrade(r, queue, queue') /\ SameReplies(r, repMem, repMem')

LEMMA UntouchedStays ==
  ASSUME NEW r, Consistent(r), Untouched(r)
  PROVE  Consistent(r)' /\ Phase(r)' = Phase(r)
<1>1. (Asked(r)' <=> Asked(r)) /\ (Answering(r)' <=> Answering(r)) /\ (InRep(r)' <=> InRep(r))
  BY Zenon DEF Untouched, SameTrade, SameReplies, Asked, Answering, InRep, Elements, TradeReq, TradeRep
<1>2. AtMostOne(queue', OfRequest(r)) /\ AtMostOne(repMem', {TradeRep(r)})
  BY DEF Untouched, SameTrade, SameReplies, Consistent
<1>3. Fresh(r)' <=> Fresh(r)
  BY DEF Untouched, Fresh
<1>4. OfRequest(r)' = OfRequest(r) /\ TradeRep(r)' = TradeRep(r)
  BY DEF OfRequest, TradeReq, TradeRep
<1>5. AtMostOne(queue, OfRequest(r))' /\ AtMostOne(repMem, {TradeRep(r)})'
  BY <1>2, <1>4 DEF AtMostOne
<1>6. Consistent(r)'
  BY <1>1, <1>3, <1>5 DEF Consistent, Untouched
<1>7. Phase(r)' = Phase(r)
  BY <1>1 DEF Phase, Untouched
<1>8. QED
  BY <1>6, <1>7

LEMMA RequestInvInit == Init => RequestInv
<1> SUFFICES ASSUME Init, NEW r \in Requests PROVE Consistent(r)
  BY DEF RequestInv
<1>1. queue = <<>> /\ repMem = <<>> /\ sent[r] = 0 /\ stamp[r] = 0 /\ starts = 0 /\ consumed = {}
  BY DEF Init
<1>2. Elements(<<>>) = {} /\ \A T : AtMostOne(<<>>, T)
  BY DEF Elements, AtMostOne
<1>3. QED
  BY <1>1, <1>2 DEF Consistent, Asked, Answering, InRep

-----------------------------------------------------------------------------
(* Steps that are about no request.                                        *)

KnockStep ==
  \/ \E k \in Knocks : MakeKnock(k) \/ PushKnock(k)
  \/ \E k \in OthersKnocks : WriteOthersKnock(k)
  \/ SendTradeKnock \/ SendQueryTradeKnockRep
QueryStep ==
  \/ \E i \in DOMAIN queries : AnswerQuery(i) \/ FailQuery(i)
  \/ RunKnockQuery \/ RunPositionQuery \/ SendQuery \/ SendQueryTradePositionRep
OtherStep ==
  (\E c \in Codes : Trade(c)) \/ Midnight \/ RunWatch \/ SendMonitorRisk \/ HandleSignal

\* Nothing but the queue and the reply file may have changed of what a request needs.
LEMMA UntouchedBy ==
  ASSUME UNCHANGED <<sent, replied, reqMem, consumed, stamp, up, starts>>, NEW r,
         SameTrade(r, queue, queue'), SameReplies(r, repMem, repMem')
  PROVE  Untouched(r)
BY DEF Untouched, Written

LEMMA FrontTypes ==
  ASSUME TypeInv, NEW t, Front(t)
  PROVE  /\ queue # <<>> /\ up /\ Head(queue) \in MessageNow
         /\ t \notin {"TradeReq", "TradeRep"} => \A r : Quiet(r, Head(queue))
<1>1. queue # <<>> /\ up /\ Head(queue).type = t
  BY DEF Front
<1>2. QED
  BY <1>1, QueueSteps, QuietMessages

LEMMA RecordQuiet ==
  ASSUME TypeInv, NEW k \in Happened, Record(k), NEW r
  PROVE  SameReplies(r, repMem, repMem')
<1>1. k \in AllKnocks /\ DateOf[k] <= day
  BY DEF Happened, AllKnocks
<1>2. KnockFrame(k) \in FrameNow
  BY <1>1 DEF FrameNow, KnockFrame, TypeInv, Core
<1>3. repMem' = repMem \/ repMem' = Append(repMem, KnockFrame(k))
  BY Zenon DEF Record
<1>4. QED
  BY <1>2, <1>3, QuietQueue, QuietMessages, Zenon

LEMMA KnockStepQuiet ==
  ASSUME TypeInv, KnockStep, NEW r
  PROVE  Untouched(r)
<1> USE DEF calendar, counter, session, asking, requestFile, process, memory
<1>1. CASE \E k \in Knocks : MakeKnock(k)
  BY <1>1, QuietQueue, UntouchedBy DEF MakeKnock
<1>2. CASE \E k \in Knocks : PushKnock(k)
  <2>1. PICK k \in Knocks : PushKnock(k)
    BY <1>2
  <2>2. k \in Happened
    BY <2>1 DEF PushKnock, Elements, TypeInv, Core
  <2>3. TradeKnock(k) \in MessageNow /\ queue' = Append(queue, TradeKnock(k))
    BY <2>1, <2>2, MakeMessage DEF PushKnock, Push
  <2>4. SameTrade(r, queue, queue') /\ SameReplies(r, repMem, repMem)
    BY <2>3, QuietQueue, QuietMessages
  <2>5. QED
    BY <2>1, <2>4, UntouchedBy DEF PushKnock
<1>3. CASE \E k \in OthersKnocks : WriteOthersKnock(k)
  <2>1. PICK k \in OthersKnocks : WriteOthersKnock(k)
    BY <1>3
  <2>2. k \in AllKnocks /\ DateOf[k] <= day /\ repMem' = Append(repMem, OthersFrame(k))
    BY <2>1 DEF WriteOthersKnock, AllKnocks, TypeInv, Core
  <2>3. OthersFrame(k) \in FrameNow
    BY <2>2 DEF FrameNow, OthersFrame, TypeInv, Core
  <2>4. SameReplies(r, repMem, repMem') /\ SameTrade(r, queue, queue)
    BY <2>2, <2>3, QuietQueue, QuietMessages
  <2>5. QED
    BY <2>1, <2>4, UntouchedBy DEF WriteOthersKnock
<1>4. CASE SendTradeKnock
  <2>1. queue # <<>> /\ Head(queue) \in MessageNow /\ Quiet(r, Head(queue))
        /\ Head(queue).type = "TradeKnock"
    BY <1>4, FrontTypes DEF SendTradeKnock, Front
  <2>2. Head(queue).knock \in Happened
    BY <2>1, MessageCases
  <2>3. SameReplies(r, repMem, repMem')
    BY <1>4, <2>2, RecordQuiet DEF SendTradeKnock
  <2>4. SameTrade(r, queue, queue')
    BY <1>4, <2>1, QuietQueue DEF SendTradeKnock, Done
  <2>5. QED
    BY <1>4, <2>3, <2>4, UntouchedBy DEF SendTradeKnock
<1>5. CASE SendQueryTradeKnockRep
  <2> DEFINE page == Head(queue)
  <2>1. queue # <<>> /\ page \in MessageNow /\ Quiet(r, page)
        /\ page.type = "QueryTradeKnockRep"
    BY <1>5, FrontTypes DEF SendQueryTradeKnockRep, Front
  <2>2. page.next_cursor \in 0 .. Len(made) /\ page.items \in Seq(Happened)
    BY <2>1, MessageCases
  <2>3. CASE page.items = <<>>
    <3>1. queue' = Tail(queue) /\ repMem' = repMem
      BY <1>5, <2>3 DEF SendQueryTradeKnockRep, Done
    <3>2. SameTrade(r, queue, queue') /\ SameReplies(r, repMem, repMem')
      BY <2>1, <3>1, QuietQueue
    <3>3. QED
      BY <1>5, <3>2, UntouchedBy DEF SendQueryTradeKnockRep
  <2>4. CASE page.items # <<>>
    <3>1. Head(page.items) \in Happened /\ Tail(page.items) \in Seq(Happened)
      BY <2>2, <2>4, TailElements
    <3>2. /\ queue' = <<KnockPage(page.next_cursor, Tail(page.items))>> \o Tail(queue)
          /\ Record(Head(page.items))
      BY <1>5, <2>4 DEF SendQueryTradeKnockRep, Rest
    <3>3. KnockPage(page.next_cursor, Tail(page.items)) \in MessageNow
      BY <2>2, <3>1, MakeMessage
    <3>4. SameTrade(r, queue, queue')
      BY <2>1, <3>2, <3>3, QuietQueue, QuietMessages
    <3>5. SameReplies(r, repMem, repMem')
      BY <3>1, <3>2, RecordQuiet
    <3>6. QED
      BY <1>5, <3>4, <3>5, UntouchedBy DEF SendQueryTradeKnockRep
  <2>5. QED
    BY <2>3, <2>4
<1>6. QED
  BY <1>1, <1>2, <1>3, <1>4, <1>5 DEF KnockStep

LEMMA AnswersQuiet ==
  ASSUME NEW q, NEW answer \in Answers(q) \cup ErrorAnswers(q), NEW r
  PROVE  Quiet(r, answer)
<1>1. (\E c, s : answer = KnockPage(c, s)) \/ (\E b, S : answer = PositionPage(b, S))
  BY DEF Answers, ErrorAnswers
<1>2. QED
  BY <1>1, QuietMessages

LEMMA QueryStepQuiet ==
  ASSUME TypeInv, QueryStep, NEW r
  PROVE  Untouched(r)
<1> USE DEF calendar, counter, session, asking, requestFile, process, memory
<1>1. CASE \E i \in DOMAIN queries : AnswerQuery(i) \/ FailQuery(i)
  <2>1. PICK i \in DOMAIN queries : AnswerQuery(i) \/ FailQuery(i)
    BY <1>1
  <2>2. queries[i] \in QueryNow
    BY DEF TypeInv, Flows
  <2>3. \/ queue' = queue
        \/ \E m \in Answers(queries[i]) \cup ErrorAnswers(queries[i]) : queue' = Append(queue, m)
    BY <2>1 DEF AnswerQuery, FailQuery, Push
  <2>4. SameTrade(r, queue, queue') /\ SameReplies(r, repMem, repMem)
    BY <2>2, <2>3, AnswersTypes, AnswersQuiet, QuietQueue
  <2>5. QED
    BY <2>1, <2>4, UntouchedBy DEF AnswerQuery, FailQuery
<1>2. CASE RunKnockQuery \/ RunPositionQuery
  <2>1. nextCursor \in 0 .. Len(made)
    BY DEF TypeInv, Core
  <2>2. KnockQuery(nextCursor) \in MessageNow /\ PositionQuery(FALSE) \in MessageNow
    BY <2>1, MakeMessage
  <2>3. queue' = Append(queue, KnockQuery(nextCursor)) \/ queue' = Append(queue, PositionQuery(FALSE))
    BY <1>2 DEF RunKnockQuery, RunPositionQuery, Push
  <2>4. SameTrade(r, queue, queue') /\ SameReplies(r, repMem, repMem)
    BY <2>2, <2>3, QuietQueue, QuietMessages
  <2>5. QED
    BY <1>2, <2>4, UntouchedBy DEF RunKnockQuery, RunPositionQuery
<1>3. CASE SendQuery
  <2>1. queue # <<>> /\ Quiet(r, Head(queue))
    BY <1>3, FrontTypes DEF SendQuery
  <2>2. queue' = Tail(queue) \/ queue' = Append(Tail(queue), MonitorRisk)
    BY <1>3, Zenon DEF SendQuery, OnQuery, Done
  <2>3. SameTrade(r, queue, queue') /\ SameReplies(r, repMem, repMem)
    BY <2>1, <2>2, MakeMessage, QuietQueue, QuietMessages
  <2>4. QED
    BY <1>3, <2>3, UntouchedBy DEF SendQuery
<1>4. CASE SendQueryTradePositionRep
  <2> DEFINE page == Head(queue)
  <2>1. queue # <<>> /\ page \in MessageNow /\ Quiet(r, page)
        /\ page.type = "QueryTradePositionRep"
    BY <1>4, FrontTypes DEF SendQueryTradePositionRep, Front
  <2>2. page.holdings \subseteq Holding
    BY <2>1, MessageCases
  <2>3. CASE page.init \/ page.holdings = {}
    <3>1. queue' = Tail(queue) /\ repMem' = repMem
      BY <1>4, <2>3 DEF SendQueryTradePositionRep, Done
    <3>2. SameTrade(r, queue, queue') /\ SameReplies(r, repMem, repMem')
      BY <2>1, <3>1, QuietQueue
    <3>3. QED
      BY <1>4, <3>2, UntouchedBy DEF SendQueryTradePositionRep
  <2>4. CASE ~(page.init \/ page.holdings = {})
    <3>1. PICK p \in page.holdings :
            /\ queue' = <<PositionPage(FALSE, page.holdings \ {p})>> \o Tail(queue)
            /\ repMem' = IF Changed(p) THEN Append(repMem, PositionFrame(p)) ELSE repMem
      BY <1>4, <2>4 DEF SendQueryTradePositionRep
    <3>2. p.code \in Codes /\ p.volume \in Nat /\ p.date \in Nat
      BY <2>2 DEF Holding
    <3>3. PositionFrame(p) \in FrameNow
      BY <3>2 DEF PositionFrame, FrameNow, TypeInv, Core
    <3>4. page.holdings \ {p} \in SUBSET Holding
      BY <2>2
    <3>5. PositionPage(FALSE, page.holdings \ {p}) \in MessageNow
      BY <3>4, MakeMessage
    <3>6. SameTrade(r, queue, queue')
      BY <2>1, <3>1, <3>5, QuietQueue, QuietMessages
    <3>7. SameReplies(r, repMem, repMem')
      BY <3>1, <3>3, QuietQueue, QuietMessages
    <3>8. QED
      BY <1>4, <3>6, <3>7, UntouchedBy DEF SendQueryTradePositionRep
  <2>5. QED
    BY <2>3, <2>4
<1>5. QED
  BY <1>1, <1>2, <1>3, <1>4 DEF QueryStep

LEMMA OtherStepQuiet ==
  ASSUME TypeInv, OtherStep, NEW r
  PROVE  Untouched(r)
<1> USE DEF calendar, counter, session, asking, requestFile, process, memory
<1>1. CASE (\E c \in Codes : Trade(c)) \/ Midnight
  BY <1>1, QuietQueue, UntouchedBy DEF Trade, Midnight
<1>2. CASE RunWatch
  <2>1. queue' = Append(queue, Signal) /\ Signal \in MessageNow
    BY <1>2, MakeMessage DEF RunWatch, Push
  <2>2. SameTrade(r, queue, queue') /\ SameReplies(r, repMem, repMem)
    BY <2>1, QuietQueue, QuietMessages
  <2>3. QED
    BY <1>2, <2>2, UntouchedBy DEF RunWatch
<1>3. CASE SendMonitorRisk
  <2>1. SameTrade(r, queue, queue') /\ SameReplies(r, repMem, repMem)
    BY <1>3, FrontTypes, QuietQueue DEF SendMonitorRisk, Done
  <2>2. QED
    BY <1>3, <2>1, UntouchedBy DEF SendMonitorRisk
<1>4. CASE HandleSignal
  <2>1. SameTrade(r, queue, queue')
    BY <1>4, FrontTypes, QuietQueue DEF HandleSignal, Done
  <2>2. repMem' = repMem \/ repMem' = Append(repMem, HeartBeat)
    BY <1>4, Zenon DEF HandleSignal, DoWatch
  <2>3. HeartBeat \in FrameNow
    BY DEF FrameNow
  <2>4. SameReplies(r, repMem, repMem')
    BY <2>2, <2>3, QuietQueue, QuietMessages
  <2>5. QED
    BY <1>4, <2>1, <2>4, UntouchedBy DEF HandleSignal
<1>5. QED
  BY <1>1, <1>2, <1>3, <1>4 DEF OtherStep

-----------------------------------------------------------------------------
(* Steps about one request: what they do to it, and that they leave the    *)
(* others alone.                                                           *)

Others(r) == \A q \in Requests \ {r} : Untouched(q)

\* Answers in the reply file are frames with the request's id.
LEMMA AnsweredIs ==
  ASSUME TypeInv, NEW r \in Requests
  PROVE  Answered(r) <=> InRep(r)
<1>1. \A i \in DOMAIN repMem : repMem[i] \in FrameNow
  BY DEF TypeInv, Flows
<1>2. TradeRep(r).type = "TradeRep" /\ TradeRep(r).id = r
  BY DEF TradeRep
<1>3. \A i \in DOMAIN repMem : (repMem[i].type = "TradeRep" /\ repMem[i].id = r)
                                 <=> repMem[i] = TradeRep(r)
  BY <1>1, <1>2, FrameCases
<1>4. QED
  BY <1>3 DEF Answered, InRep, FramesOf, Elements

LEMMA TradeMessagesDiffer ==
  ASSUME NEW r
  PROVE  TradeReq(r) # TradeRep(r) /\ TradeReq(r) \in OfRequest(r) /\ TradeRep(r) \in OfRequest(r)
<1>1. TradeReq(r).type = "TradeReq" /\ TradeRep(r).type = "TradeRep"
  BY DEF TradeReq, TradeRep
<1>2. QED
  BY <1>1 DEF OfRequest

LEMMA AppendDiffers ==
  ASSUME NEW S, NEW s \in Seq(S), NEW e \in S
  PROVE  Append(s, e) # s
<1>1. Len(Append(s, e)) = Len(s) + 1 /\ Len(s) \in Nat
  OBVIOUS
<1>2. Len(Append(s, e)) # Len(s)
  BY <1>1
<1>3. QED
  BY <1>2, Zenon

LEMMA Zero == \A n \in Nat : n > 0 <=> n # 0
OBVIOUS

LEMMA WriteRequestStep ==
  ASSUME TypeInv, RequestInv, NEW r \in Requests, WriteRequest(r)
  PROVE  Consistent(r)' /\ Phase(r) = "new" /\ Phase(r)' = "waiting" /\ Others(r)
<1> USE DEF calendar, counter, session, asking, requestFile, process, memory
<1>0. Consistent(r) /\ sent[r] \in Nat
  BY DEF RequestInv, TypeInv, Core
<1>1. /\ r \notin Written /\ Written' = Written \cup {r}
      /\ stamp' = [stamp EXCEPT ![r] = starts] /\ stamp \in [Requests -> Nat] /\ starts \in Nat
      /\ UNCHANGED <<sent, replied, consumed, up, starts, queue, repMem>>
  BY AppendElements DEF WriteRequest, Written, TypeInv, Core
<1>2. /\ Consistent(r) /\ sent[r] = 0 /\ r \notin consumed
      /\ ~Asked(r) /\ ~Answering(r) /\ ~InRep(r)
  BY <1>0, <1>1, Zero DEF Consistent
<1>3. /\ ~Asked(r)' /\ ~Answering(r)' /\ ~InRep(r)'
      /\ AtMostOne(queue, OfRequest(r))' /\ AtMostOne(repMem, {TradeRep(r)})'
  BY <1>1, <1>2 DEF Asked, Answering, InRep, Elements, Consistent, AtMostOne, OfRequest, TradeReq, TradeRep
<1>4. Consistent(r)'
  BY <1>1, <1>2, <1>3 DEF Consistent
<1>5. Phase(r) = "new" /\ Phase(r)' = "waiting"
  BY <1>1, <1>2, <1>3 DEF Phase
<1>6. Others(r)
  BY <1>1, QuietQueue DEF Others, Untouched
<1>7. QED
  BY <1>4, <1>5, <1>6

\* A message about r goes into the queue, where there was none.
LEMMA PushOne ==
  ASSUME TypeInv, NEW r \in Requests, NEW m \in OfRequest(r), queue' = Append(queue, m),
         AtMostOne(queue, OfRequest(r)), ~Asked(r), ~Answering(r)
  PROVE  /\ AtMostOne(queue, OfRequest(r))'
         /\ Asked(r)' <=> m = TradeReq(r)
         /\ Answering(r)' <=> m = TradeRep(r)
         /\ \A q \in Requests \ {r} : SameTrade(q, queue, queue')
<1>1. m \in MessageNow /\ queue \in Seq(MessageNow)
  BY MakeMessage DEF OfRequest, TypeInv, Flows
<1>2. Elements(queue) \cap OfRequest(r) = {}
  BY DEF Asked, Answering, OfRequest
<1>3. AtMostOne(queue', OfRequest(r)) /\ Elements(queue') = Elements(queue) \cup {m}
  BY <1>1, <1>2, AppendElements, AppendOne
<1>4. OfRequest(r)' = OfRequest(r) /\ Elements(queue)' = Elements(queue')
  BY DEF OfRequest, TradeReq, TradeRep, Elements
<1>5. \A q \in Requests \ {r} : Quiet(q, m)
  BY QuietMessages DEF OfRequest
<1>6. \A q \in Requests \ {r} : SameTrade(q, queue, queue')
  BY <1>1, <1>5, QuietQueue
<1>7. /\ Asked(r)' <=> m = TradeReq(r)
      /\ Answering(r)' <=> m = TradeRep(r)
  BY <1>3, <1>4 DEF Asked, Answering, TradeReq, TradeRep
<1>8. QED
  BY <1>3, <1>4, <1>6, <1>7 DEF AtMostOne

\* The message about r at the front leaves the queue.
LEMMA TakeOne ==
  ASSUME TypeInv, NEW r \in Requests, queue # <<>>, Head(queue) \in OfRequest(r),
         AtMostOne(queue, OfRequest(r)),
         queue' = Tail(queue) \/ queue' = Append(Tail(queue), TradeRep(r))
  PROVE  /\ AtMostOne(queue, OfRequest(r))'
         /\ ~Asked(r)'
         /\ Answering(r)' <=> queue' # Tail(queue)
         /\ Asked(r) <=> Head(queue) = TradeReq(r)
         /\ Answering(r) <=> Head(queue) = TradeRep(r)
         /\ \A q \in Requests \ {r} : SameTrade(q, queue, queue')
<1>1. /\ Tail(queue) \in Seq(MessageNow) /\ TradeRep(r) \in MessageNow /\ queue \in Seq(MessageNow)
      /\ Elements(queue) = Elements(Tail(queue)) \cup {Head(queue)}
  BY QueueSteps, MakeMessage, TailElements DEF TypeInv, Flows
<1>2. Elements(Tail(queue)) \cap OfRequest(r) = {} /\ AtMostOne(Tail(queue), OfRequest(r))
  BY <1>1, TailOne
<1>3. /\ Elements(Append(Tail(queue), TradeRep(r))) = Elements(Tail(queue)) \cup {TradeRep(r)}
      /\ AtMostOne(Append(Tail(queue), TradeRep(r)), OfRequest(r))
  <2> DEFINE rest == Tail(queue)
  <2>1. rest \in Seq(MessageNow) /\ TradeRep(r) \in MessageNow /\ AtMostOne(rest, OfRequest(r))
        /\ Elements(rest) \cap OfRequest(r) = {}
    BY <1>1, <1>2
  <2> HIDE DEF rest
  <2>2. AtMostOne(Append(rest, TradeRep(r)), OfRequest(r))
    BY <2>1, AppendOne
  <2>3. Elements(Append(rest, TradeRep(r))) = Elements(rest) \cup {TradeRep(r)}
    BY <2>1, AppendElements
  <2>4. QED
    BY <2>2, <2>3 DEF rest
<1>4. Append(Tail(queue), TradeRep(r)) # Tail(queue)
  BY <1>1, AppendDiffers
<1>5. OfRequest(r)' = OfRequest(r) /\ Elements(queue)' = Elements(queue')
  BY DEF OfRequest, TradeReq, TradeRep, Elements
<1>6. TradeReq(r)' = TradeReq(r) /\ TradeRep(r)' = TradeRep(r)
  BY DEF TradeReq, TradeRep
<1>7. ~Asked(r)' /\ (Answering(r)' <=> queue' # Tail(queue))
  BY <1>2, <1>3, <1>5, <1>6, <1>4, TradeMessagesDiffer DEF Asked, Answering
<1>8. /\ Asked(r) <=> Head(queue) = TradeReq(r)
      /\ Answering(r) <=> Head(queue) = TradeRep(r)
  BY <1>1, <1>2, TradeMessagesDiffer DEF Asked, Answering
<1>9. \A q \in Requests \ {r} : Quiet(q, Head(queue)) /\ Quiet(q, TradeRep(r))
  BY QuietMessages DEF OfRequest
<1>10. \A q \in Requests \ {r} : SameTrade(q, queue, queue')
  BY <1>1, <1>9, QuietQueue
<1>11. AtMostOne(queue, OfRequest(r))'
  BY <1>2, <1>3, <1>5 DEF AtMostOne
<1>12. QED
  BY <1>7, <1>8, <1>10, <1>11

LEMMA ReplyStep ==
  ASSUME TypeInv, RequestInv, NEW r \in Requests, Reply(r)
  PROVE  Consistent(r)' /\ Phase(r)' = Phase(r) /\ Others(r)
<1> USE DEF calendar, counter, session, asking, requestFile, process, memory
<1>0. Consistent(r) /\ sent[r] \in Nat
  BY DEF RequestInv, TypeInv, Core
<1>1. /\ up /\ sent[r] > 0 /\ r \notin replied /\ replied' = replied \cup {r}
      /\ queue' = Append(queue, TradeRep(r))
      /\ UNCHANGED <<sent, reqMem, consumed, stamp, up, starts, repMem>>
  BY DEF Reply, Push
<1>2. Consistent(r) /\ ~Asked(r) /\ ~Answering(r) /\ r \in consumed /\ (Fresh(r) => ~InRep(r))
  BY <1>0, <1>1, Zero DEF Consistent
<1>3. /\ AtMostOne(queue, OfRequest(r))' /\ ~Asked(r)' /\ Answering(r)'
      /\ \A q \in Requests \ {r} : SameTrade(q, queue, queue')
  BY <1>1, <1>2, PushOne, TradeMessagesDiffer DEF Consistent
<1>4. /\ InRep(r)' <=> InRep(r)
      /\ AtMostOne(repMem, {TradeRep(r)})' <=> AtMostOne(repMem, {TradeRep(r)})
      /\ Fresh(r)' <=> Fresh(r)
      /\ Written' = Written
  BY <1>1 DEF InRep, AtMostOne, Elements, Fresh, Written, TradeRep
<1>5. Consistent(r)'
  BY <1>1, <1>2, <1>3, <1>4 DEF Consistent
<1>6. Phase(r)' = Phase(r)
  BY <1>1, <1>4 DEF Phase
<1>7. Others(r)
  BY <1>1, <1>3, <1>4, QuietQueue DEF Others, Untouched
<1>8. QED
  BY <1>5, <1>6, <1>7

LEMMA ReadReqMemStep ==
  ASSUME TypeInv, RequestInv, NEW r \in Requests, NEW i \in DOMAIN reqMem, reqMem[i] = r,
         ReadReqMem(i)
  PROVE  Consistent(r)' /\ Phase(r) = "waiting" /\ Phase(r)' \in {"taken", "refused"} /\ Others(r)
<1> USE DEF calendar, counter, session, asking, requestFile, process, memory
<1>0. Consistent(r) /\ sent[r] \in Nat
  BY DEF RequestInv, TypeInv, Core
<1>1. /\ r \in Written /\ r \notin consumed /\ consumed' = consumed \cup {r}
      /\ queue' = Append(queue, TradeRep(r)) \/ queue' = Append(queue, TradeReq(r))
      /\ UNCHANGED <<sent, replied, reqMem, stamp, up, starts, repMem>>
  BY DEF ReadReqMem, PassOn, Consume, Push, Written, Elements
<1>2. /\ Consistent(r) /\ ~Asked(r) /\ ~Answering(r) /\ ~InRep(r) /\ sent[r] = 0
  BY <1>0, <1>1, Zero DEF Consistent
<1>3. /\ AtMostOne(queue, OfRequest(r))'
      /\ Asked(r)' <=> ~Answering(r)'
      /\ \A q \in Requests \ {r} : SameTrade(q, queue, queue')
  BY <1>1, <1>2, PushOne, TradeMessagesDiffer DEF Consistent
<1>4. /\ InRep(r)' <=> InRep(r)
      /\ AtMostOne(repMem, {TradeRep(r)})' <=> AtMostOne(repMem, {TradeRep(r)})
      /\ Written' = Written
  BY <1>1 DEF InRep, AtMostOne, Elements, Written, TradeRep
<1>5. Consistent(r)'
  BY <1>0, <1>1, <1>2, <1>3, <1>4 DEF Consistent
<1>6. Phase(r) = "waiting" /\ Phase(r)' \in {"taken", "refused"}
  BY <1>1, <1>2, <1>3, <1>4 DEF Phase
<1>7. Others(r)
  BY <1>1, <1>3, <1>4, QuietQueue DEF Others, Untouched
<1>8. QED
  BY <1>5, <1>6, <1>7

LEMMA SendTradeRequestStep ==
  ASSUME TypeInv, RequestInv, NEW r \in Requests, SendTradeRequest, Head(queue) = TradeReq(r)
  PROVE  Consistent(r)' /\ Phase(r) = "taken" /\ Phase(r)' \in {"sent", "refused"} /\ Others(r)
<1> USE DEF calendar, counter, session, asking, requestFile, process, memory
<1>0. Consistent(r) /\ sent \in [Requests -> Nat]
  BY DEF RequestInv, TypeInv, Core
<1>1. /\ Head(queue).id = r
      /\ queue # <<>> /\ up
      /\ UNCHANGED <<replied, reqMem, consumed, stamp, up, starts, repMem>>
      /\ \/ sent' = [sent EXCEPT ![r] = @ + 1] /\ queue' = Tail(queue)
         \/ sent' = sent /\ queue' = Append(Tail(queue), TradeRep(r))
  <2>1. Head(queue).id = r
    BY DEF TradeReq
  <2>2. QED
    BY <2>1, Zenon DEF SendTradeRequest, OnTradeRequest, Front, Done
<1>2. /\ AtMostOne(queue, OfRequest(r))' /\ ~Asked(r)'
      /\ Answering(r)' <=> queue' # Tail(queue)
      /\ Asked(r) /\ ~Answering(r)
      /\ \A q \in Requests \ {r} : SameTrade(q, queue, queue')
  BY <1>0, <1>1, TakeOne, TradeMessagesDiffer DEF Consistent
<1>3. sent[r] = 0 /\ r \in consumed /\ ~InRep(r) /\ r \in Written
  BY <1>0, <1>2 DEF Consistent
<1>4. /\ InRep(r)' <=> InRep(r)
      /\ AtMostOne(repMem, {TradeRep(r)})' <=> AtMostOne(repMem, {TradeRep(r)})
      /\ Written' = Written
  BY <1>1 DEF InRep, AtMostOne, Elements, Written, TradeRep
<1>5. Append(Tail(queue), TradeRep(r)) # Tail(queue)
  <2>1. Tail(queue) \in Seq(MessageNow) /\ TradeRep(r) \in MessageNow
    BY <1>1, QueueSteps, MakeMessage
  <2>2. QED
    BY <2>1, AppendDiffers
<1>6. \/ sent'[r] = 1 /\ ~Answering(r)'
      \/ sent'[r] = 0 /\ Answering(r)'
  BY <1>0, <1>1, <1>2, <1>3, <1>5
<1>7. Consistent(r)'
  BY <1>0, <1>1, <1>2, <1>3, <1>4, <1>6 DEF Consistent
<1>8. Phase(r) = "taken" /\ Phase(r)' \in {"sent", "refused"}
  BY <1>1, <1>2, <1>3, <1>4, <1>6 DEF Phase
<1>9. \A q \in Requests \ {r} : sent'[q] = sent[q]
  BY <1>0, <1>1
<1>10. Others(r)
  BY <1>1, <1>2, <1>4, <1>9, QuietQueue DEF Others, Untouched
<1>11. QED
  BY <1>7, <1>8, <1>10

\* An answer older than the process is dropped, any other is written.
LEMMA SendTradeReplyStep ==
  ASSUME TypeInv, RequestInv, NEW r \in Requests, SendTradeReply, Head(queue) = TradeRep(r)
  PROVE  /\ Consistent(r)' /\ Others(r)
         /\ \/ Phase(r) \in {"refused", "sent"} /\ Phase(r)' = "answered"
            \/ Phase(r) = "refused" /\ Phase(r)' = "lost"
            \/ Phase(r)' = Phase(r)
<1> USE DEF calendar, counter, session, asking, requestFile, process, memory
<1>0. Consistent(r) /\ sent[r] \in Nat
  BY DEF RequestInv, TypeInv, Core
<1>1. /\ Head(queue).id = r
      /\ queue # <<>> /\ up /\ queue' = Tail(queue)
      /\ UNCHANGED <<sent, replied, reqMem, consumed, stamp, up, starts>>
      /\ repMem' = IF Fresh(r) THEN Append(repMem, TradeRep(r)) ELSE repMem
  <2>1. Head(queue).id = r
    BY DEF TradeRep
  <2>2. QED
    BY <2>1, Zenon DEF SendTradeReply, Front, Done
<1>2. /\ AtMostOne(queue, OfRequest(r))' /\ ~Asked(r)' /\ ~Answering(r)'
      /\ ~Asked(r) /\ Answering(r)
      /\ \A q \in Requests \ {r} : SameTrade(q, queue, queue')
  BY <1>0, <1>1, TakeOne, TradeMessagesDiffer DEF Consistent
<1>3. /\ r \in consumed /\ r \in Written /\ (sent[r] > 0 => r \in replied)
      /\ Fresh(r) => ~InRep(r)
  BY <1>0, <1>2 DEF Consistent
<1>4. Written' = Written /\ (Fresh(r)' <=> Fresh(r)) /\ TradeRep(r)' = TradeRep(r)
  BY <1>1 DEF Written, Fresh, TradeRep, Elements
<1>5. repMem \in Seq(FrameNow) /\ TradeRep(r) \in FrameNow
  BY DEF TypeInv, Flows, FrameNow, TradeRep
<1>6. /\ InRep(r)' <=> (InRep(r) \/ Fresh(r))
      /\ AtMostOne(repMem', {TradeRep(r)})
      /\ \A q \in Requests \ {r} : SameReplies(q, repMem, repMem')
  <2>1. CASE Fresh(r)
    <3>1. repMem' = Append(repMem, TradeRep(r)) /\ Elements(repMem) \cap {TradeRep(r)} = {}
      BY <1>1, <1>3, <2>1 DEF InRep
    <3>2. Elements(repMem') = Elements(repMem) \cup {TradeRep(r)}
      BY <1>5, <3>1, AppendElements
    <3>3. AtMostOne(repMem', {TradeRep(r)})
      BY <1>0, <1>5, <3>1, AppendOne DEF Consistent
    <3>4. \A q \in Requests \ {r} : SameReplies(q, repMem, repMem')
      BY <1>5, <3>1, QuietQueue, QuietMessages
    <3>5. QED
      BY <1>4, <2>1, <3>2, <3>3, <3>4 DEF InRep, Elements
  <2>2. CASE ~Fresh(r)
    <3>1. repMem' = repMem
      BY <1>1, <2>2
    <3>2. InRep(r)' <=> InRep(r)
      BY <1>4, <3>1 DEF InRep, Elements
    <3>3. QED
      BY <1>0, <2>2, <3>1, <3>2, QuietQueue DEF Consistent
  <2>3. QED
    BY <2>1, <2>2
<1>7. AtMostOne(repMem, {TradeRep(r)})'
  BY <1>4, <1>6 DEF AtMostOne
<1>8. Consistent(r)'
  BY <1>0, <1>1, <1>2, <1>3, <1>4, <1>6, <1>7 DEF Consistent
<1>9. CASE Fresh(r)
  <2>1. Phase(r) \in {"refused", "sent"} /\ Phase(r)' = "answered"
    BY <1>1, <1>2, <1>3, <1>4, <1>6, <1>9 DEF Phase
  <2>2. QED
    BY <1>1, <1>2, <1>4, <1>6, <1>8, <2>1 DEF Others, Untouched
<1>10. CASE ~Fresh(r)
  <2>1. (Phase(r) = "refused" /\ Phase(r)' = "lost") \/ Phase(r)' = Phase(r)
    BY <1>1, <1>2, <1>3, <1>4, <1>6, <1>10 DEF Phase
  <2>2. QED
    BY <1>1, <1>2, <1>4, <1>6, <1>8, <2>1 DEF Others, Untouched
<1>11. QED
  BY <1>9, <1>10

LEMMA StartStep ==
  ASSUME TypeInv, RequestInv, Start, NEW r \in Requests
  PROVE  Consistent(r)' /\ Phase(r)' = Phase(r)
<1> USE DEF calendar, counter, session, asking, requestFile, process, memory
<1>0. Consistent(r) /\ sent[r] \in Nat /\ starts \in Nat /\ stamp[r] \in Nat
  BY DEF RequestInv, TypeInv, Core
<1>1. /\ queue = <<>> /\ starts' = starts + 1 /\ ~up
      /\ queue' = <<>> \/ queue' = <<PositionQuery(TRUE)>>
      /\ UNCHANGED <<sent, replied, reqMem, consumed, stamp, repMem>>
  BY DEF Start, OnStart, TypeInv
<1>2. stamp[r] <= starts /\ ~Fresh(r)' /\ stamp'[r] <= starts'
  BY <1>0, <1>1 DEF Consistent, Fresh
<1>3. PositionQuery(TRUE) # TradeReq(r) /\ PositionQuery(TRUE) # TradeRep(r)
  BY QuietMessages DEF Quiet
<1>4. /\ Elements(queue') = {} \/ Elements(queue') = {PositionQuery(TRUE)}
      /\ \A T : AtMostOne(queue', T)
      /\ Elements(queue) = {}
  <2>1. \A m : DOMAIN <<m>> = {1} /\ <<m>>[1] = m
    OBVIOUS
  <2>2. DOMAIN <<>> = {}
    OBVIOUS
  <2>3. \A m, T : Elements(<<m>>) = {m} /\ AtMostOne(<<m>>, T)
    BY <2>1 DEF Elements, AtMostOne
  <2>4. \A T : Elements(<<>>) = {} /\ AtMostOne(<<>>, T)
    BY <2>2 DEF Elements, AtMostOne
  <2>5. queue = <<>> /\ (queue' = <<>> \/ queue' = <<PositionQuery(TRUE)>>)
    BY <1>1
  <2> DEFINE first == <<PositionQuery(TRUE)>>
  <2>6. Elements(first) = {PositionQuery(TRUE)} /\ \A T : AtMostOne(first, T)
    BY <2>3
  <2>7. queue = <<>> /\ (queue' = <<>> \/ queue' = first)
    BY <2>5
  <2> HIDE DEF first
  <2>8. QED
    BY <2>4, <2>6, <2>7, Zenon
<1>5. /\ ~Asked(r)' /\ ~Answering(r)' /\ ~Asked(r) /\ ~Answering(r)
      /\ AtMostOne(queue, OfRequest(r))'
  BY <1>3, <1>4 DEF Asked, Answering, Elements, AtMostOne, TradeReq, TradeRep, OfRequest
<1>6. /\ InRep(r)' <=> InRep(r)
      /\ AtMostOne(repMem, {TradeRep(r)})' <=> AtMostOne(repMem, {TradeRep(r)})
      /\ Written' = Written
  BY <1>1 DEF InRep, AtMostOne, Elements, Written, TradeRep
<1>7. Consistent(r)'
  BY <1>0, <1>1, <1>2, <1>5, <1>6 DEF Consistent
<1>8. Phase(r)' = Phase(r)
  BY <1>1, <1>5, <1>6 DEF Phase
<1>9. QED
  BY <1>7, <1>8

LEMMA CrashStep ==
  ASSUME TypeInv, RequestInv, Crash, NEW r \in Requests
  PROVE  /\ Consistent(r)'
         /\ Phase(r)' = IF Phase(r) \in {"taken", "refused"} THEN "lost" ELSE Phase(r)
<1> USE DEF calendar, counter, session, asking, requestFile, process, memory
<1>0. Consistent(r) /\ sent[r] \in Nat /\ starts \in Nat /\ stamp[r] \in Nat
  BY DEF RequestInv, TypeInv, Core
<1>1. /\ queue' = <<>> /\ ~up' /\ replied' = {}
      /\ UNCHANGED <<sent, reqMem, consumed, stamp, starts, repMem>>
  BY DEF Crash
<1>2. Elements(queue') = {} /\ \A T : AtMostOne(queue', T)
  BY <1>1 DEF Elements, AtMostOne
<1>3. ~Asked(r)' /\ ~Answering(r)' /\ AtMostOne(queue, OfRequest(r))'
  BY <1>2 DEF Asked, Answering, Elements, AtMostOne, TradeReq, TradeRep, OfRequest
<1>4. /\ InRep(r)' <=> InRep(r)
      /\ AtMostOne(repMem, {TradeRep(r)})' <=> AtMostOne(repMem, {TradeRep(r)})
      /\ Written' = Written
  BY <1>1 DEF InRep, AtMostOne, Elements, Written, TradeRep
<1>5. Consistent(r)'
  BY <1>0, <1>1, <1>3, <1>4 DEF Consistent
<1>6. Phase(r)' = IF Phase(r) \in {"taken", "refused"} THEN "lost" ELSE Phase(r)
  BY <1>1, <1>3, <1>4 DEF Phase
<1>7. QED
  BY <1>5, <1>6

-----------------------------------------------------------------------------
(* The theorems.                                                           *)

\* What a step of the server does to the phases of the requests.
MovesTo(r, from, to) ==
  Phase(r) \in from /\ Phase(r)' = to /\ \A q \in Requests \ {r} : Phase(q)' = Phase(q)
PhaseStep ==
  \/ \A r \in Requests : Phase(r)' = Phase(r)
  \/ \A r \in Requests :
       Phase(r)' = IF Phase(r) \in {"taken", "refused"} THEN "lost" ELSE Phase(r)
  \/ \E r \in Requests :
       \/ MovesTo(r, {"new"}, "waiting")
       \/ MovesTo(r, {"waiting"}, "taken")
       \/ MovesTo(r, {"waiting", "taken"}, "refused")
       \/ MovesTo(r, {"taken"}, "sent")
       \/ MovesTo(r, {"refused", "sent"}, "answered")
       \/ MovesTo(r, {"refused"}, "lost")

LEMMA OthersStay ==
  ASSUME RequestInv, NEW r \in Requests, Consistent(r)', Others(r)
  PROVE  RequestInv' /\ \A q \in Requests \ {r} : Phase(q)' = Phase(q)
<1>1. \A q \in Requests \ {r} : Consistent(q)' /\ Phase(q)' = Phase(q)
  BY UntouchedStays DEF Others, RequestInv
<1>2. \A q \in Requests : Consistent(q)'
  BY <1>1
<1>3. QED
  BY <1>1, <1>2 DEF RequestInv

LEMMA RequestInvStep ==
  ASSUME TypeInv, RequestInv, [Next]_vars
  PROVE  RequestInv' /\ PhaseStep
<1>1. ASSUME NEW r \in Requests, WriteRequest(r)
      PROVE  RequestInv' /\ PhaseStep
  BY <1>1, WriteRequestStep, OthersStay DEF PhaseStep, MovesTo
<1>2. ASSUME NEW r \in Requests, Reply(r)
      PROVE  RequestInv' /\ PhaseStep
  BY <1>2, ReplyStep, OthersStay DEF PhaseStep
<1>3. ASSUME NEW i \in DOMAIN reqMem, ReadReqMem(i)
      PROVE  RequestInv' /\ PhaseStep
  <2>1. PICK r \in Requests : reqMem[i] = r
    BY DEF TypeInv, Core
  <2>2. Consistent(r)' /\ Phase(r) = "waiting" /\ Phase(r)' \in {"taken", "refused"} /\ Others(r)
    BY <1>3, <2>1, ReadReqMemStep
  <2>3. QED
    BY <2>2, OthersStay DEF PhaseStep, MovesTo
<1>4. CASE SendTradeRequest
  <2>1. Front("TradeReq")
    BY <1>4 DEF SendTradeRequest
  <2>2. PICK r \in Requests : Head(queue) = TradeReq(r)
    BY <2>1, FrontTypes, MessageCases DEF Front
  <2>3. QED
    BY <1>4, <2>2, SendTradeRequestStep, OthersStay DEF PhaseStep, MovesTo
<1>5. CASE SendTradeReply
  <2>1. Front("TradeRep")
    BY <1>5 DEF SendTradeReply
  <2>2. PICK r \in Requests : Head(queue) = TradeRep(r)
    BY <2>1, FrontTypes, MessageCases DEF Front
  <2>3. QED
    BY <1>5, <2>2, SendTradeReplyStep, OthersStay DEF PhaseStep, MovesTo
<1>6. CASE Start
  BY <1>6, StartStep DEF RequestInv, PhaseStep
<1>7. CASE Crash
  BY <1>7, CrashStep DEF RequestInv, PhaseStep
<1>8. CASE KnockStep \/ QueryStep \/ OtherStep \/ UNCHANGED vars
  <2>1. UNCHANGED vars => \A r \in Requests : Untouched(r)
    BY QuietQueue, UntouchedBy
       DEF vars, calendar, counter, session, asking, requestFile, process, memory
  <2>2. \A r \in Requests : Untouched(r)
    BY <1>8, <2>1, KnockStepQuiet, QueryStepQuiet, OtherStepQuiet
  <2>3. QED
    BY <2>2, UntouchedStays DEF RequestInv, PhaseStep
<1>9. QED
  BY <1>1, <1>2, <1>3, <1>4, <1>5, <1>6, <1>7, <1>8
  DEF Next, HandleQueueMessage, KnockStep, QueryStep, OtherStep

LEMMA RequestInvAlways == Spec => [](TypeInv /\ RequestInv)
BY TypeInvInit, TypeInvStep, RequestInvInit, RequestInvStep, PTL DEF Spec

\* However often the process dies and starts again, no request reaches the counter
\* twice (ReadReqMem, SendTradeOrder, SendTradeWithdraw).
THEOREM ServerSendsOnce == Spec => []SentOnce
<1>1. TypeInv /\ RequestInv => SentOnce
  BY DEF RequestInv, Consistent, SentOnce
<1>2. QED
  BY <1>1, RequestInvAlways, PTL

\* The reply file never holds two answers to one request, whoever answered it and in
\* which session (SendTradeOrderRep, SendTradeWithdrawRep).
THEOREM ServerAnswersOnce == Spec => []AnsweredOnce
<1>1. ASSUME TypeInv, RequestInv
      PROVE  AnsweredOnce
  <2>1. SUFFICES ASSUME NEW i \in FramesOf("TradeRep"), NEW j \in FramesOf("TradeRep"),
                        repMem[i].id = repMem[j].id
                 PROVE  i = j
    BY DEF AnsweredOnce
  <2>2. /\ i \in DOMAIN repMem /\ repMem[i] \in FrameNow /\ repMem[i].type = "TradeRep"
        /\ j \in DOMAIN repMem /\ repMem[j] \in FrameNow /\ repMem[j].type = "TradeRep"
    BY <1>1 DEF FramesOf, TypeInv, Flows
  <2>3. PICK r \in Requests : repMem[i] = TradeRep(r) /\ repMem[j] = TradeRep(r)
    BY <2>1, <2>2, FrameCases
  <2>4. AtMostOne(repMem, {TradeRep(r)})
    BY <1>1 DEF RequestInv, Consistent
  <2>5. QED
    BY <2>2, <2>3, <2>4 DEF AtMostOne
<1>2. QED
  BY <1>1, RequestInvAlways, PTL

\* The phases as MemServer maps them to RequestLife.
LifePhase ==
  [r \in Requests |->
    IF r \notin Written THEN "new"
    ELSE IF Answered(r) THEN "answered"
    ELSE IF sent[r] > 0 THEN "sent"
    ELSE IF r \notin consumed THEN "waiting"
    ELSE IF TradeReq(r) \in Elements(queue) THEN "taken"
    ELSE IF TradeRep(r) \in Elements(queue) THEN "refused" ELSE "lost"]

LEMMA LifePhaseIs ==
  ASSUME TypeInv
  PROVE  LifePhase = [r \in Requests |-> Phase(r)]
BY AnsweredIs DEF LifePhase, Phase, Asked, Answering

LEMMA LifeMoves ==
  ASSUME NEW r \in Requests, NEW from, NEW to, MovesTo(r, from, to),
         LifePhase = [q \in Requests |-> Phase(q)],
         LifePhase' = [q \in Requests |-> Phase(q)']
  PROVE  LifePhase[r] \in from /\ LifePhase' = [LifePhase EXCEPT ![r] = to]
BY DEF MovesTo

\* Whatever the threads, the counter and the crashes do, a gateway sees RequestLife.
THEOREM ServerImplementsLife == Spec => ImplementsLife
<1>1. Init => Life!LifeInit
  BY DEF Init, Life!LifeInit, Written, Elements
<1>2. TypeInv => LifePhase = [q \in Requests |-> Phase(q)]
  BY LifePhaseIs
<1>3. (TypeInv => LifePhase = [q \in Requests |-> Phase(q)])'
  BY <1>2, PTL
<1>4. ASSUME TypeInv, TypeInv', PhaseStep
      PROVE  [Life!LifeNext]_LifePhase
  <2>1. /\ LifePhase = [q \in Requests |-> Phase(q)]
        /\ LifePhase' = [q \in Requests |-> Phase(q)']
    BY <1>4, <1>2, <1>3
  <2>2. CASE \A r \in Requests : Phase(r)' = Phase(r)
    BY <2>1, <2>2
  <2>3. CASE \A r \in Requests :
               Phase(r)' = IF Phase(r) \in {"taken", "refused"} THEN "lost" ELSE Phase(r)
    <3>1. LifePhase' = [r \in Requests |-> IF LifePhase[r] \in {"taken", "refused"}
                                           THEN "lost" ELSE LifePhase[r]]
      BY <2>1, <2>3
    <3>2. Life!Crash
      BY <3>1 DEF Life!Crash, LifePhase
    <3>3. QED
      BY <3>2 DEF Life!LifeNext
  <2>4. ASSUME NEW r \in Requests,
               \/ MovesTo(r, {"new"}, "waiting")
               \/ MovesTo(r, {"waiting"}, "taken")
               \/ MovesTo(r, {"waiting", "taken"}, "refused")
               \/ MovesTo(r, {"taken"}, "sent")
               \/ MovesTo(r, {"refused", "sent"}, "answered")
               \/ MovesTo(r, {"refused"}, "lost")
        PROVE  Life!LifeNext
    <3>1. ASSUME NEW from, NEW to, MovesTo(r, from, to)
          PROVE  Life!Moves(r, from, to)
      <4>1. LifePhase[r] \in from /\ LifePhase' = [LifePhase EXCEPT ![r] = to]
        BY <2>1, <3>1, LifeMoves
      <4>2. QED
        BY <4>1 DEF Life!Moves, LifePhase
    <3>2. \/ Life!Write(r) \/ Life!Take(r) \/ Life!Refuse(r) \/ Life!Send(r)
          \/ Life!Answer(r) \/ Life!Drop(r)
      BY <2>4, <3>1
      DEF Life!Write, Life!Take, Life!Refuse, Life!Send, Life!Answer, Life!Drop
    <3>3. QED
      BY <3>2 DEF Life!LifeNext
  <2>5. QED
    BY <1>4, <2>2, <2>3, <2>4 DEF PhaseStep
<1>5. QED
  BY <1>1, <1>4, RequestInvAlways, TypeInvStep, RequestInvStep, PTL
  DEF Spec, ImplementsLife, Life!LifeSpec, LifePhase
==============================================================================

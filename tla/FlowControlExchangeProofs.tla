----------------------- MODULE FlowControlExchangeProofs -----------------------
(***************************************************************************)
(* The flow control of the server implements the rule of the exchange: the *)
(* window of the code, a cushion wider than the second of the rule, is     *)
(* what makes up for commands that catch up with each other on their way.  *)
(***************************************************************************)
EXTENDS FlowControlExchange, FlowControlProofs, FiniteSetTheorems

\* A command arrives within the cushion, or is still on its way and not late.
ArrivesWithinCushion ==
  \A m \in Markets :
    /\ DOMAIN arrivedAt[m] \subseteq DOMAIN sentAt[m]
    /\ \A i \in DOMAIN arrivedAt[m] :
         /\ arrivedAt[m][i] \in Nat
         /\ sentAt[m][i] <= arrivedAt[m][i] /\ arrivedAt[m][i] <= sentAt[m][i] + Cushion
    /\ \A i \in OnTheWay(m) : now <= sentAt[m][i] + Cushion

ExchangeInv ==
  /\ TpsInv
  /\ arrivedAt = [m \in Markets |-> arrivedAt[m]]
  /\ ArrivesWithinCushion

\* Steps of the server append to what was sent, at the present moment, or let a
\* moment pass.
LEMMA SendsGrow ==
  ASSUME TypeInv, [Next]_vars
  PROVE  \/ now' = now + 1 /\ sentAt' = sentAt
         \/ /\ now' = now
            /\ \A m \in Markets :
                 /\ DOMAIN sentAt[m] \subseteq DOMAIN sentAt'[m]
                 /\ \A i \in DOMAIN sentAt[m] : sentAt'[m][i] = sentAt[m][i]
                 /\ \A i \in DOMAIN sentAt'[m] \ DOMAIN sentAt[m] : sentAt'[m][i] = now
<1>1. CASE Tick
  BY <1>1 DEF Tick, sendVars
<1>2. CASE UNCHANGED <<now, sentAt>>
  BY <1>2
<1>3. CASE Crash \/ Start
  BY <1>2, <1>3 DEF Crash, Start, clockVars
<1>4. ASSUME NEW m \in Markets, PopSend(m)
      PROVE  /\ now' = now
             /\ \A k \in Markets :
                 /\ DOMAIN sentAt[k] \subseteq DOMAIN sentAt'[k]
                 /\ \A i \in DOMAIN sentAt[k] : sentAt'[k][i] = sentAt[k][i]
                 /\ \A i \in DOMAIN sentAt'[k] \ DOMAIN sentAt[k] : sentAt'[k][i] = now
  <2>1. PICK a \in flowQueue[m] : RecordSend(m, a.req.size)
    BY <1>4 DEF PopSend
  <2>2. now' = now
    BY <1>4 DEF PopSend, Turn, Visit, clockVars
  <2> DEFINE n == Len(sentAt[m])
             size == a.req.size
  <2>3. size \in Nat
    <3>1. a \in Item
      BY DEF TypeInv, TypeOK
    <3>2. QED
      BY <3>1, FlowControlAssumption DEF Item, RequestType
  <2>4. /\ sentAt'[m] = [i \in 1 .. n + size |-> IF i <= n THEN sentAt[m][i] ELSE now]
        /\ \A k \in Markets \ {m} : sentAt'[k] = sentAt[k]
    BY <2>1 DEF RecordSend, TypeInv, TypeOK
  <2>5. n \in Nat /\ DOMAIN sentAt[m] = 1 .. n
    BY SentTimes
  <2> HIDE DEF n, size
  <2>6. /\ DOMAIN sentAt'[m] = 1 .. n + size
        /\ \A i \in 1 .. n + size : sentAt'[m][i] = IF i <= n THEN sentAt[m][i] ELSE now
    BY <2>4
  <2>7. QED
    BY <2>2, <2>3, <2>4, <2>5, <2>6
<1>5. QED
  BY <1>1, <1>2, <1>3, <1>4, SendFrame

LEMMA ExchangeInvServer ==
  ASSUME MinDowntime > Window, ExchangeInv,
         ServerStep \/ UNCHANGED exchangeVars
  PROVE  /\ ExchangeInv'
         /\ arrivedAt' = arrivedAt
         /\ now' = now \/ now' > now
<1>1. [Next]_vars /\ arrivedAt' = arrivedAt
  BY DEF ServerStep, exchangeVars
<1>2. TypeInv /\ TypeInv' /\ TpsInv' /\ now \in Nat
  BY <1>1, TpsInvStep, SentTimes DEF ExchangeInv, TpsInv, TypeInv, TypeOK
<1>3. now' > now => \A m \in Markets : \A i \in OnTheWay(m) : now' <= sentAt[m][i] + Cushion
  BY <1>2 DEF ServerStep, exchangeVars, vars, clockVars
<1>4. CASE now' = now + 1 /\ sentAt' = sentAt
  <2>1. ArrivesWithinCushion'
    BY <1>1, <1>2, <1>3, <1>4 DEF ExchangeInv, ArrivesWithinCushion, OnTheWay
  <2>2. QED
    BY <1>1, <1>2, <1>4, <2>1 DEF ExchangeInv
<1>5. CASE /\ now' = now
           /\ \A m \in Markets :
                /\ DOMAIN sentAt[m] \subseteq DOMAIN sentAt'[m]
                /\ \A i \in DOMAIN sentAt[m] : sentAt'[m][i] = sentAt[m][i]
                /\ \A i \in DOMAIN sentAt'[m] \ DOMAIN sentAt[m] : sentAt'[m][i] = now
  <2>1. ASSUME NEW m \in Markets
        PROVE  /\ DOMAIN arrivedAt'[m] \subseteq DOMAIN sentAt'[m]
               /\ \A i \in DOMAIN arrivedAt'[m] :
                    /\ arrivedAt'[m][i] \in Nat
                    /\ sentAt'[m][i] <= arrivedAt'[m][i]
                    /\ arrivedAt'[m][i] <= sentAt'[m][i] + Cushion
    BY <1>1, <1>5 DEF ExchangeInv, ArrivesWithinCushion
  <2>2. ASSUME NEW m \in Markets, NEW i \in DOMAIN sentAt'[m] \ DOMAIN arrivedAt'[m]
        PROVE  now' <= sentAt'[m][i] + Cushion
    <3>1. CASE i \in DOMAIN sentAt[m]
      BY <1>1, <1>5, <2>2, <3>1 DEF ExchangeInv, ArrivesWithinCushion, OnTheWay
    <3>2. CASE i \notin DOMAIN sentAt[m]
      BY <1>2, <1>5, <2>2, <3>2, CushionAssumption
    <3>3. QED
      BY <3>1, <3>2
  <2>3. ArrivesWithinCushion'
    BY <2>1, <2>2 DEF ArrivesWithinCushion, OnTheWay
  <2>4. QED
    BY <1>1, <1>2, <1>5, <2>3 DEF ExchangeInv
<1>6. QED
  BY <1>1, <1>2, <1>4, <1>5, SendsGrow

\* Of commands that were sent within one window no more than the limit exist.
LEMMA WindowHoldsLimit ==
  ASSUME TpsInv, NEW m \in Markets, TpsLimit[m] > 0,
         NEW B, B \subseteq DOMAIN sentAt[m], B # {},
         \A i \in B : now - sentAt[m][i] <= Window
  PROVE  IsFiniteSet(B) /\ Cardinality(B) <= TpsLimit[m]
<1> DEFINE L == TpsLimit[m]
           lo == Min(B)
<1>1. TypeInv
  BY DEF TpsInv
<1>2. /\ DOMAIN sentAt[m] = 1 .. Len(sentAt[m]) /\ Len(sentAt[m]) \in Nat
      /\ \A i \in 1 .. Len(sentAt[m]) : sentAt[m][i] \in Nat
      /\ now \in Nat /\ Window \in Nat
  BY <1>1, SentTimes
<1>3. L \in Nat \ {0}
  BY FlowControlAssumption
<1>4. B \subseteq Nat
  BY <1>2
<1>5. lo \in B /\ \A i \in B : lo <= i
  <2>1. B # {}
    OBVIOUS
  <2>2. QED
    BY <1>4, <2>1, MinIsLeast
<1> HIDE DEF lo, L
<1>6. ASSUME NEW i \in B PROVE i \in lo .. lo + L - 1
  <2>1. i \in Nat /\ lo \in Nat /\ lo <= i
    BY <1>4, <1>5
  <2>2. i - lo >= L => sentAt[m][i] - sentAt[m][lo] > Window
    BY <1>5 DEF TpsInv, TpsRespected, L
  <2>3. sentAt[m][i] <= now /\ now - sentAt[m][lo] <= Window
    BY <1>2, <1>5 DEF TpsInv
  <2>4. sentAt[m][i] \in Nat /\ sentAt[m][lo] \in Nat /\ now \in Nat /\ Window \in Nat
    BY <1>2, <1>5
  <2>5. ~ (i - lo >= L)
    BY <2>2, <2>3, <2>4
  <2>6. QED
    BY <1>3, <2>1, <2>5
<1>7. lo \in Nat /\ lo + L - 1 \in Int
  BY <1>3, <1>4, <1>5
<1> DEFINE hi == lo + L - 1
<1>8. hi \in Int /\ hi - lo + 1 = L /\ ~ (lo > hi)
  BY <1>3, <1>7
<1>9. B \in SUBSET (lo .. hi)
  BY <1>6
<1> HIDE DEF hi
<1>10. IsFiniteSet(lo .. hi) /\ Cardinality(lo .. hi) = IF lo > hi THEN 0 ELSE hi - lo + 1
  BY <1>7, <1>8, FS_Interval
<1>11. IsFiniteSet(B) /\ Cardinality(B) <= Cardinality(lo .. hi)
  BY <1>9, <1>10, FS_Subset
<1>12. QED
  BY <1>8, <1>10, <1>11 DEF L

\* The abstract module counts with its own copy of the library's operator.
LEMMA RuleCardinality == \A S : Rule!Cardinality(S) = Cardinality(S)
BY Zenon DEF Rule!Cardinality, Cardinality

LEMMA ExchangeInvArrive ==
  ASSUME ExchangeInv, NEW m \in Markets, NEW c \in OnTheWay(m), Arrive(m, c)
  PROVE  ExchangeInv' /\ Rule!RuleNext
<1>1. UNCHANGED vars /\ now' = now /\ sentAt' = sentAt
  BY DEF Arrive, vars, clockVars, sendVars
<1>2. TypeInv /\ TpsInv'
  <2>1. TpsInv
    BY DEF ExchangeInv
  <2>2. QED
    BY <1>1, <2>1 DEF TpsInv, TypeInv, TypeOK, Anchored, TpsRespected, vars, clockVars, queueVars,
       sendVars, alarmVars
<1>3. /\ DOMAIN sentAt[m] = 1 .. Len(sentAt[m]) /\ now \in Nat /\ Window \in Nat
      /\ \A i \in DOMAIN sentAt[m] : sentAt[m][i] \in Nat
  BY <1>2, SentTimes
<1>4. /\ c \in DOMAIN sentAt[m] /\ c \notin DOMAIN arrivedAt[m]
      /\ DOMAIN arrivedAt[m] \subseteq DOMAIN sentAt[m]
      /\ now <= sentAt[m][c] + Cushion
  BY DEF ExchangeInv, ArrivesWithinCushion, OnTheWay
<1>5. Cushion \in Nat /\ Second \in Nat /\ Second + Cushion <= Window
  BY CushionAssumption, FlowControlAssumption
<1>6. /\ arrivedAt' = [k \in Markets |-> arrivedAt'[k]]
      /\ arrivedAt'[m] = [d \in DOMAIN arrivedAt[m] \cup {c} |->
                            IF d = c THEN now ELSE arrivedAt[m][d]]
      /\ \A k \in Markets \ {m} : arrivedAt'[k] = arrivedAt[k]
  BY DEF Arrive, ExchangeInv
<1>7. /\ DOMAIN arrivedAt'[m] = DOMAIN arrivedAt[m] \cup {c}
      /\ arrivedAt'[m][c] = now
      /\ \A d \in DOMAIN arrivedAt[m] : arrivedAt'[m][d] = arrivedAt[m][d]
  BY <1>4, <1>6
<1>8. ArrivesWithinCushion'
  <2>1. ASSUME NEW k \in Markets
        PROVE  /\ DOMAIN arrivedAt'[k] \subseteq DOMAIN sentAt[k]
               /\ \A i \in DOMAIN arrivedAt'[k] :
                    /\ arrivedAt'[k][i] \in Nat
                    /\ sentAt[k][i] <= arrivedAt'[k][i]
                    /\ arrivedAt'[k][i] <= sentAt[k][i] + Cushion
               /\ \A i \in DOMAIN sentAt[k] \ DOMAIN arrivedAt'[k] :
                    now <= sentAt[k][i] + Cushion
    <3>1. CASE k = m
      <4>1. sentAt[m][c] <= now
        BY <1>3, <1>4 DEF ExchangeInv, TpsInv
      <4>2. QED
        BY <1>3, <1>4, <1>7, <3>1, <4>1 DEF ExchangeInv, ArrivesWithinCushion, OnTheWay
    <3>2. CASE k # m
      BY <1>6, <3>2 DEF ExchangeInv, ArrivesWithinCushion, OnTheWay
    <3>3. QED
      BY <3>1, <3>2
  <2>2. QED
    BY <1>1, <2>1 DEF ArrivesWithinCushion, OnTheWay
<1>9. TpsLimit[m] > 0 => Cardinality(Rule!InLastSecond(m)) < TpsLimit[m]
  <2>1. SUFFICES ASSUME TpsLimit[m] > 0
                 PROVE  Cardinality(Rule!InLastSecond(m)) < TpsLimit[m]
    OBVIOUS
  <2> DEFINE A == Rule!InLastSecond(m)
             B == A \cup {c}
  <2>2. A \subseteq DOMAIN arrivedAt[m] /\ \A i \in A : now - arrivedAt[m][i] <= Second
    BY DEF Rule!InLastSecond
  <2>3. \A i \in A : now - sentAt[m][i] <= Window
    <3>1. SUFFICES ASSUME NEW i \in A PROVE now - sentAt[m][i] <= Window
      OBVIOUS
    <3>2. i \in DOMAIN arrivedAt[m] /\ now - arrivedAt[m][i] <= Second
      BY <2>2
    <3>3. arrivedAt[m][i] \in Nat /\ arrivedAt[m][i] <= sentAt[m][i] + Cushion
          /\ sentAt[m][i] \in Nat
      BY <1>3, <1>4, <3>2 DEF ExchangeInv, ArrivesWithinCushion
    <3>4. arrivedAt[m][i] \in Nat /\ sentAt[m][i] \in Nat /\ now \in Nat /\ Window \in Nat
      BY <1>3, <3>3
    <3>5. QED
      BY <1>5, <3>2, <3>3, <3>4
  <2>4. now - sentAt[m][c] <= Window
    BY <1>3, <1>4, <1>5
  <2> HIDE DEF A
  <2>5. B \subseteq DOMAIN sentAt[m] /\ B # {} /\ \A i \in B : now - sentAt[m][i] <= Window
    BY <1>4, <2>2, <2>3, <2>4
  <2>6. IsFiniteSet(B) /\ Cardinality(B) <= TpsLimit[m]
    BY <2>1, <2>5, WindowHoldsLimit DEF ExchangeInv
  <2>7. IsFiniteSet(A)
    BY <2>6, FS_Subset
  <2>8. Cardinality(B) = Cardinality(A) + 1 /\ Cardinality(A) \in Nat
    BY <1>4, <2>2, <2>7, FS_AddElement, FS_CardinalityType
  <2>9. QED
    BY <2>6, <2>8, FlowControlAssumption DEF A
<1>10. Rule!Accept(m, c)
  BY <1>1, <1>4, <1>9, RuleCardinality DEF Rule!Accept, Arrive
<1>11. Rule!RuleNext
  BY <1>7, <1>10 DEF Rule!RuleNext
<1>12. QED
  BY <1>2, <1>6, <1>8, <1>11 DEF ExchangeInv

\* Whatever the delays on the way and however often the server is restarted: if a
\* stopped server stays down longer than the window, no exchange ever sees more
\* than th_tps_limit commands within a second.
THEOREM ExchangeRuleImplemented ==
  ASSUME MinDowntime > Window
  PROVE  ExchangeSpec => ImplementsExchangeRule
<1>1. ExchangeInit => ExchangeInv /\ Rule!RuleInit
  <2>1. SUFFICES ASSUME ExchangeInit PROVE ExchangeInv /\ Rule!RuleInit
    OBVIOUS
  <2>2. /\ Init /\ now = 0 /\ \A m \in Markets : sentAt[m] = <<>> /\ DOMAIN arrivedAt[m] = {}
    BY <2>1 DEF ExchangeInit, Init
  <2>3. TpsInv
    BY <2>2, TypeInvInit DEF TpsInv, TpsRespected
  <2>4. ArrivesWithinCushion
    BY <2>2 DEF ArrivesWithinCushion, OnTheWay
  <2>5. QED
    BY <2>1, <2>2, <2>3, <2>4 DEF ExchangeInv, ExchangeInit, Rule!RuleInit
<1>2. ExchangeInv /\ [ExchangeNext]_exchangeVars
        => ExchangeInv' /\ [Rule!RuleNext]_(Rule!ruleVars)
  <2>1. SUFFICES ASSUME ExchangeInv, [ExchangeNext]_exchangeVars
                 PROVE  ExchangeInv' /\ [Rule!RuleNext]_(Rule!ruleVars)
    OBVIOUS
  <2>2. CASE ServerStep \/ UNCHANGED exchangeVars
    <3>1. ExchangeInv' /\ arrivedAt' = arrivedAt /\ (now' = now \/ now' > now)
      BY <2>1, <2>2, ExchangeInvServer
    <3>2. QED
      BY <3>1 DEF Rule!RuleNext, Rule!Advance, Rule!ruleVars
  <2>3. CASE \E m \in Markets : \E c \in OnTheWay(m) : Arrive(m, c)
    BY <2>1, <2>3, ExchangeInvArrive
  <2>4. QED
    BY <2>1, <2>2, <2>3 DEF ExchangeNext
<1>3. QED
  BY <1>1, <1>2, PTL DEF ExchangeSpec, ImplementsExchangeRule, Rule!RuleSpec
==============================================================================

---------------------------- MODULE RiskMasterProofs ----------------------------
(***************************************************************************)
(* Safety of RiskMaster, in seven parts.  Each states an invariant of      *)
(* what the one before it leaves open:                                     *)
(*   TypeInv     what the state and the messages under way look like;      *)
(*   HandInv     one request at a time, and who waits for whom;            *)
(*   ObjInv      what an order object stands for (DistinctPrices);         *)
(*   Within      every lot traded is counted at one place: in an object,   *)
(*               in an early knock, or in a knock still under way;         *)
(*   Moves       what the risk thread hears of an order is so;             *)
(*   Firm        an order that works has an object that the book keeps;    *)
(*   Pledged     an accepted order keeps the objects apart in price.       *)
(* The theorems: RiskTypeCorrect, RiskHandshake, RiskCountsOnce,           *)
(* RiskKnownIsGuarded, RiskNoSelfKnock.                                    *)
(***************************************************************************)
EXTENDS RiskMaster, SequenceTheorems, FiniteSetTheorems, WellFoundedInduction, TLAPS

-----------------------------------------------------------------------------
(* Messages, items and sequences of orders. *)

\* What an order number stands for.
LEMMA NumberFacts ==
  ASSUME NEW n \in Numbers
  PROVE  /\ n[1] \in Messages /\ n[2] \in Items(n[1]) /\ n = <<n[1], n[2]>>
         /\ n[1].items[n[2]] \in ItemType /\ n # NoNumber
<1>1. PICK m \in Messages, i \in Nat : i \in Items(m) /\ n = <<m, i>>
  BY DEF Numbers, NumbersOf, Items
<1>2. m.items \in Seq(ItemType)
  BY RiskMasterAssumption, AntiSelfKnockAssumption DEF MessageType
<1>3. m.items[i] \in ItemType
  BY <1>1, <1>2 DEF Items
<1>4. n[1] = m /\ n[2] = i
  BY <1>1
<1>5. <<m, i>> # <<>>
  OBVIOUS
<1>6. QED
  BY <1>1, <1>3, <1>4, <1>5 DEF NoNumber

\* The items of a message have numbers.
LEMMA ItemFacts ==
  ASSUME NEW m \in Messages, NEW i \in Items(m)
  PROVE  /\ <<m, i>> \in Numbers /\ i \in Nat \ {0}
         /\ m.items[i].code \in Codes /\ m.items[i].price \in Nat
         /\ m.items[i].volume \in Nat \ {0}
<1>1. m.items \in Seq(ItemType)
  BY AntiSelfKnockAssumption DEF MessageType
<1>2. m.items[i] \in ItemType /\ i \in Nat \ {0}
  BY <1>1 DEF Items
<1>3. <<m, i>> \in Numbers
  BY DEF Numbers, NumbersOf
<1>4. QED
  BY <1>2, <1>3 DEF ItemType

\* A message has a first item, and an index goes up to the one behind the last.
LEMMA ItemsFacts ==
  ASSUME NEW m \in Messages
  PROVE  /\ Len(m.items) \in Nat \ {0} /\ 1 \in Items(m)
         /\ m.fund \in Funds /\ m.side \in {"buy", "sell"}
         /\ \A i \in Items(m) : i \in Nat \ {0} /\ i + 1 \in Nat \ {0}
<1>1. m.items \in Seq(ItemType) /\ m.items # <<>>
  BY AntiSelfKnockAssumption DEF MessageType
<1>2. Len(m.items) \in Nat \ {0}
  BY <1>1, EmptySeq, LenProperties
<1>3. QED
  BY <1>2, AntiSelfKnockAssumption DEF Items, MessageType

\* A record for each index makes a sequence.
LEMMA MapSeq ==
  ASSUME NEW S, NEW T, NEW s \in Seq(S), NEW f, DOMAIN f = DOMAIN s,
         f = [o \in DOMAIN f |-> f[o]], \A o \in DOMAIN s : f[o] \in T
  PROVE  f \in Seq(T) /\ Len(f) = Len(s)
<1>1. DOMAIN f = 1 .. Len(s) /\ Len(s) \in Nat
  BY LenProperties
<1>2. f \in [1 .. Len(s) -> T]
  BY <1>1
<1>3. QED
  BY <1>2, <1>1, IsASeq, LenProperties

\* One element more at the end.
LEMMA AppendFacts ==
  ASSUME NEW S, NEW s \in Seq(S), NEW x \in S, NEW n, n = Len(s) + 1
  PROVE  /\ Append(s, x) \in Seq(S) /\ Append(s, x)[n] = x
         /\ DOMAIN Append(s, x) = DOMAIN s \cup {n} /\ n \notin DOMAIN s
         /\ \A p \in DOMAIN s : Append(s, x)[p] = s[p]
<1> DEFINE t == Append(s, x)
<1>1. /\ t \in Seq(S) /\ Len(t) = Len(s) + 1 /\ t[Len(s) + 1] = x
      /\ \A p \in 1 .. Len(s) : t[p] = s[p]
  BY AppendProperties
<1>2. DOMAIN s = 1 .. Len(s) /\ Len(s) \in Nat
  BY LenProperties
<1>3. DOMAIN t = 1 .. Len(t)
  BY <1>1, LenProperties
<1> HIDE DEF t
<1>4. DOMAIN t = DOMAIN s \cup {n} /\ n \notin DOMAIN s
  BY <1>1, <1>2, <1>3
<1>5. QED
  BY <1>1, <1>2, <1>4 DEF t

\* The least element of a set of natural numbers exists, so Min is defined.
LEMMA MinIsLeast ==
  ASSUME NEW S, S \subseteq Nat, S # {}
  PROVE  Min(S) \in S /\ \A y \in S : Min(S) <= y
<1>1. \E x \in S : \A y \in S : ~ (<<y, x>> \in OpToRel(<, Nat))
  BY NatLessThanWellFounded, WFMin
<1>2. PICK x \in S : \A y \in S : ~ (<<y, x>> \in OpToRel(<, Nat))
  BY <1>1
<1>3. \A y \in S : x <= y
  <2>1. SUFFICES ASSUME NEW y \in S, y < x PROVE FALSE
    OBVIOUS
  <2>2. <<y, x>> \in OpToRel(<, Nat)
    BY <2>1 DEF OpToRel
  <2>3. QED
    BY <1>2, <2>2
<1>4. QED
  BY <1>3 DEF Min

-----------------------------------------------------------------------------
(* Types. *)

CheckTask == [kind: {"check", "pass"}, msg: Own, item: Nat \ {0}]
RepTask ==
  [kind: {"rep"}, msg: Messages, item: Nat \ {0}, accepted: SUBSET Nat,
   members: Seq(Nat), knocks: Seq(Knock)]
KnocksTask == [kind: {"knocks"}, rest: Seq(Knock)]

Queued == Returns \cup OrderRequest \cup WithdrawRequest

\* The state of the risker.
BookTypes ==
  /\ orders \in Seq(Order)
  /\ book \subseteq DOMAIN orders
  /\ single = [n \in DOMAIN single |-> single[n]] /\ DOMAIN single \subseteq Numbers
  /\ \A n \in DOMAIN single : single[n] \in DOMAIN orders
  /\ batch = [m \in DOMAIN batch |-> batch[m]] /\ DOMAIN batch \subseteq Messages
  /\ \A m \in DOMAIN batch :
       /\ batch[m] \in Seq(Nat)
       /\ \A k \in DOMAIN batch[m] : batch[m][k] \in DOMAIN orders
  /\ early = [n \in DOMAIN early |-> early[n]] /\ DOMAIN early \subseteq Numbers
  /\ \A n \in DOMAIN early : early[n] \in Seq(Knock)

\* What the risk thread is in the middle of.
TaskTypes ==
  /\ task \in {Idle} \cup CheckTask \cup RepTask \cup KnocksTask
  /\ task.kind = "rep" => \A k \in DOMAIN task.members : task.members[k] \in DOMAIN orders

TypeInv ==
  /\ now \in Nat /\ BookTypes /\ TaskTypes
  /\ tradeQueue \in Seq(Queued)
  /\ \A k \in DOMAIN tradeQueue : tradeQueue[k].kind = "order" => tradeQueue[k].msg \in Own
  /\ asyncState \in {"idle", "running", "done"}
  /\ caller \in {Idle} \cup OrderRequest \cup WithdrawRequest
  /\ verdict \in [Messages -> {"new", "checking", "passed", "refused"}]
  /\ checkedAt \in [Messages -> Nat]
  /\ life \in [Numbers -> {"none", "working", "ended"}]
  /\ left \in [Numbers -> Nat]
  /\ returns \subseteq Returns
  /\ withdrawal \in [Messages -> [state: {"none", "asked", "done"}, item: Nat]]
  /\ repMemory \in Seq(Messages)

\* An object the risker knows keeps what it stands for.
Like(x, y) ==
  /\ y.msg = x.msg /\ y.code = x.code /\ y.price = x.price /\ y.volume = x.volume
  /\ y.born = x.born
Grown ==
  DOMAIN orders \subseteq DOMAIN orders' /\ \A o \in DOMAIN orders : Like(orders[o], orders'[o])

\* An object is an order.
LEMMA ObjectFacts ==
  ASSUME BookTypes, NEW o \in DOMAIN orders
  PROVE  /\ orders[o] \in Order /\ orders[o].msg \in Messages /\ o \in Nat
         /\ orders[o].price \in Nat /\ orders[o].volume \in Nat /\ orders[o].matched \in Nat
         /\ orders[o].number \in Numbers \cup {NoNumber}
<1>1. orders \in Seq(Order)
  BY DEF BookTypes
<1>2. orders[o] \in Order /\ o \in Nat
  BY <1>1
<1>3. QED
  BY <1>2 DEF Order

\* Changes of single fields keep the type of an order.
LEMMA OrderFields ==
  ASSUME NEW x \in Order
  PROVE  /\ [x EXCEPT !.finish = TRUE] \in Order
         /\ [x EXCEPT !.withdrawn = TRUE] \in Order
         /\ \A v \in Nat : [x EXCEPT !.withdrawAsked = v] \in Order
         /\ \A v \in Nat : [x EXCEPT !.matched = @ + v] \in Order
         /\ \A n \in Numbers : [x EXCEPT !.number = n] \in Order
<1>1. [x EXCEPT !.finish = TRUE] \in Order /\ [x EXCEPT !.withdrawn = TRUE] \in Order
  BY DEF Order
<1>2. \A v \in Nat : [x EXCEPT !.withdrawAsked = v] \in Order
  BY DEF Order
<1>3. ASSUME NEW v \in Nat PROVE [x EXCEPT !.matched = @ + v] \in Order
  <2>1. x.matched \in Nat
    BY DEF Order
  <2>2. x.matched + v \in Nat
    BY <2>1
  <2>3. QED
    BY <2>2 DEF Order
<1>4. \A n \in Numbers : [x EXCEPT !.number = n] \in Order
  BY DEF Order
<1>5. QED
  BY <1>1, <1>2, <1>3, <1>4

\* A new object.
LEMMA NewOrderFacts ==
  ASSUME now \in Nat, NEW m \in Messages, NEW i \in Items(m), NEW n \in Numbers \cup {NoNumber}
  PROVE  NewOrder(m, i, n) \in Order
BY ItemFacts DEF NewOrder, Order

\* What a knock of a known order does to its object, before the end is noticed.
Told(k, x) ==
  IF k.type = "trade" THEN [x EXCEPT !.matched = @ + k.volume] ELSE [x EXCEPT !.withdrawn = TRUE]

LEMMA ToldFacts ==
  ASSUME NEW k \in Knock, NEW x \in Order
  PROVE  Told(k, x) \in Order
<1>1. k.volume \in Nat
  BY DEF Knock
<1>2. QED
  BY <1>1, OrderFields DEF Told

\* What they keep.
LEMMA LikeItself == \A x : Like(x, x)
  BY DEF Like
LEMMA LikeFinished ==
  \A x \in Order : Like(x, [x EXCEPT !.finish = TRUE])
  BY DEF Like, Order
LEMMA LikeAsked ==
  \A x \in Order : \A t : Like(x, [x EXCEPT !.withdrawAsked = t])
  BY DEF Like, Order
LEMMA LikeWithdrawn ==
  \A x \in Order : Like(x, [x EXCEPT !.withdrawn = TRUE])
  BY DEF Like, Order
LEMMA LikeTold ==
  ASSUME NEW k, NEW x \in Order
  PROVE  Like(x, Told(k, x))
  BY DEF Like, Told, Order

\* What the end of the objects of R does.
LEMMA FinishFacts ==
  ASSUME BookTypes, NEW ords \in Seq(Order), Len(ords) = Len(orders),
         NEW R \in SUBSET DOMAIN orders, \A o \in R : Finished(ords[o]),
         FinishAll(ords, R)
  PROVE  /\ orders' \in Seq(Order) /\ DOMAIN orders' = DOMAIN orders
         /\ \A o \in DOMAIN orders :
              \/ orders'[o] = ords[o] /\ o \notin R
              \/ Finished(ords[o]) /\ orders'[o] = [ords[o] EXCEPT !.finish = TRUE]
         /\ DOMAIN batch' \subseteq DOMAIN batch
         /\ batch' = [m \in DOMAIN batch' |-> batch'[m]]
         /\ \A m \in DOMAIN batch' : batch'[m] = batch[m]
         /\ DOMAIN single' = DOMAIN single \ {ords[o].number : o \in R}
         /\ single' = [n \in DOMAIN single' |-> single'[n]]
         /\ \A n \in DOMAIN single' : single'[n] = single[n]
<1> DEFINE touched == {m \in DOMAIN batch : \E o \in R : ords[o].msg = m /\ ords[o].number # NoNumber}
           ended == {m \in touched : \A k \in DOMAIN batch[m] : Finished(ords[batch[m][k]])}
           evaluated == UNION {{batch[m][k] : k \in {l \in DOMAIN batch[m] :
                                  \A j \in 1 .. l : Finished(ords[batch[m][j]])}} : m \in touched}
<1>1. /\ orders' = [o \in DOMAIN ords |->
                      IF o \in R \cup evaluated THEN [ords[o] EXCEPT !.finish = TRUE] ELSE ords[o]]
      /\ batch' = Restrict(batch, DOMAIN batch \ ended)
      /\ single' = Restrict(single, DOMAIN single \ {ords[o].number : o \in R})
  BY DEF FinishAll
<1>2. \A o \in evaluated : Finished(ords[o])
  <2>1. SUFFICES ASSUME NEW o \in evaluated PROVE Finished(ords[o])
    OBVIOUS
  <2>2. PICK m \in touched : o \in {batch[m][k] : k \in {l \in DOMAIN batch[m] :
                                  \A j \in 1 .. l : Finished(ords[batch[m][j]])}}
    OBVIOUS
  <2>3. PICK l \in DOMAIN batch[m] :
          o = batch[m][l] /\ \A j \in 1 .. l : Finished(ords[batch[m][j]])
    BY <2>2
  <2>4. l \in 1 .. l
    <3>1. m \in DOMAIN batch
      BY DEF touched
    <3>2. PICK s \in Seq(Nat) : s = batch[m]
      BY <3>1 DEF BookTypes
    <3>3. l \in Nat /\ l >= 1
      BY <3>2, LenProperties
    <3>4. QED
      BY <3>3
  <2>5. QED
    BY <2>3, <2>4
<1>3. DOMAIN ords = DOMAIN orders /\ \A o \in DOMAIN ords : ords[o] \in Order
  BY LenProperties DEF BookTypes
<1> HIDE DEF touched, ended, evaluated
<1>4. /\ DOMAIN orders' = DOMAIN ords /\ orders' = [o \in DOMAIN orders' |-> orders'[o]]
      /\ \A o \in DOMAIN ords : orders'[o] = IF o \in R \cup evaluated
                                             THEN [ords[o] EXCEPT !.finish = TRUE] ELSE ords[o]
  BY <1>1
<1>5. \A o \in DOMAIN ords : orders'[o] \in Order
  BY <1>3, <1>4, OrderFields
<1>6. orders' \in Seq(Order)
  BY <1>4, <1>5, MapSeq
<1>7. \A o \in DOMAIN orders :
              \/ orders'[o] = ords[o] /\ o \notin R
              \/ Finished(ords[o]) /\ orders'[o] = [ords[o] EXCEPT !.finish = TRUE]
  BY <1>2, <1>3, <1>4
<1>8. /\ DOMAIN batch' \subseteq DOMAIN batch
      /\ batch' = [m \in DOMAIN batch' |-> batch'[m]]
      /\ \A m \in DOMAIN batch' : batch'[m] = batch[m]
  BY <1>1 DEF Restrict
<1>9. /\ DOMAIN single' = DOMAIN single \ {ords[o].number : o \in R}
      /\ single' = [n \in DOMAIN single' |-> single'[n]]
      /\ \A n \in DOMAIN single' : single'[n] = single[n]
  BY <1>1 DEF Restrict
<1>10. QED
  BY <1>3, <1>4, <1>6, <1>7, <1>8, <1>9

\* The check of an item: ended objects leave the book.
LEMMA CheckItemFacts ==
  ASSUME BookTypes, NEW m \in Messages, NEW i \in Items(m), CheckItem(m, i)
  PROVE  /\ orders' \in Seq(Order) /\ DOMAIN orders' = DOMAIN orders
         /\ \A o \in DOMAIN orders :
              \/ orders'[o] = orders[o]
              \/ Finished(orders[o]) /\ orders'[o] = [orders[o] EXCEPT !.finish = TRUE]
         /\ book' \subseteq book /\ \A o \in book \ book' : o \in Swept(m, i)
         /\ BookTypes' /\ Grown /\ early' = early
         /\ DOMAIN single' \subseteq DOMAIN single
         /\ \A n \in DOMAIN single' : single'[n] = single[n]
         /\ \A n \in DOMAIN single \ DOMAIN single' :
              \E o \in Swept(m, i) : orders[o].number = n
         /\ DOMAIN batch' \subseteq DOMAIN batch
         /\ \A b \in DOMAIN batch' : batch'[b] = batch[b]
<1>1. CASE UNCHANGED riskerVars
  BY <1>1, LikeItself DEF riskerVars, BookTypes, Grown
<1>2. CASE FinishAll(orders, Swept(m, i)) /\ book' = book \ Swept(m, i) /\ early' = early
  <2>1. Swept(m, i) \subseteq book /\ \A o \in Swept(m, i) : Finished(orders[o])
    BY DEF Swept, Opposite
  <2>2. Swept(m, i) \in SUBSET DOMAIN orders /\ orders \in Seq(Order)
    BY <2>1 DEF BookTypes
  <2>3. /\ orders' \in Seq(Order) /\ DOMAIN orders' = DOMAIN orders
        /\ \A o \in DOMAIN orders :
              \/ orders'[o] = orders[o] /\ o \notin Swept(m, i)
              \/ Finished(orders[o]) /\ orders'[o] = [orders[o] EXCEPT !.finish = TRUE]
        /\ DOMAIN batch' \subseteq DOMAIN batch
        /\ batch' = [b \in DOMAIN batch' |-> batch'[b]]
        /\ \A b \in DOMAIN batch' : batch'[b] = batch[b]
        /\ DOMAIN single' = DOMAIN single \ {orders[o].number : o \in Swept(m, i)}
        /\ single' = [n \in DOMAIN single' |-> single'[n]]
        /\ \A n \in DOMAIN single' : single'[n] = single[n]
    BY <1>2, <2>1, <2>2, FinishFacts
  <2>4. Grown
    <3>1. \A o \in DOMAIN orders : orders[o] \in Order
      BY <2>2
    <3>2. \A o \in DOMAIN orders : Like(orders[o], orders'[o])
      BY <2>3, <3>1, LikeItself, LikeFinished
    <3>3. QED
      BY <2>3, <3>2 DEF Grown
  <2>5. BookTypes'
    BY <1>2, <2>3 DEF BookTypes
  <2>6. QED
    BY <1>2, <2>3, <2>4, <2>5
<1>3. QED
  BY <1>1, <1>2 DEF CheckItem

\* A request that passes puts one object for each guarded item into its book.
LEMMA PassItemFacts ==
  ASSUME BookTypes, now \in Nat, NEW m \in Messages, NEW i \in Items(m), PassItem(m, i)
  PROVE  /\ BookTypes' /\ Grown
         /\ \A o \in DOMAIN orders : orders'[o] = orders[o]
         /\ UNCHANGED <<single, batch, early>>
         /\ ~Guards(m, i) => UNCHANGED <<orders, book>>
         /\ Guards(m, i) => \E o \in DOMAIN orders' :
              /\ o \notin DOMAIN orders /\ DOMAIN orders' = DOMAIN orders \cup {o}
              /\ book' = book \cup {o} /\ orders'[o] = NewOrder(m, i, NoNumber)
<1>1. CASE ~Guards(m, i)
  BY <1>1, LikeItself DEF PassItem, riskerVars, BookTypes, Grown
<1>2. CASE Guards(m, i)
  <2>1. orders \in Seq(Order) /\ NewOrder(m, i, NoNumber) \in Order
    BY NewOrderFacts DEF BookTypes
  <2>2. PICK o \in Nat : o = Len(orders) + 1
    BY <2>1
  <2>3. /\ orders' \in Seq(Order) /\ orders'[o] = NewOrder(m, i, NoNumber)
        /\ DOMAIN orders' = DOMAIN orders \cup {o} /\ o \notin DOMAIN orders
        /\ \A p \in DOMAIN orders : orders'[p] = orders[p]
    BY <1>2, <2>1, <2>2, AppendFacts DEF PassItem
  <2>4. book' = book \cup {o} /\ UNCHANGED <<single, batch, early>>
    BY <1>2, <2>2 DEF PassItem
  <2>5. BookTypes'
    BY <2>3, <2>4 DEF BookTypes
  <2>6. Grown
    BY <2>3, LikeItself DEF Grown
  <2>7. QED
    BY <1>2, <2>3, <2>4, <2>5, <2>6
<1>3. QED
  BY <1>1, <1>2

\* A reply without a number takes the object of its item out of the book.
LEMMA RejectedFacts ==
  ASSUME BookTypes, NEW m \in Messages, NEW i \in Items(m), RepItemRejected(m, i)
  PROVE  /\ BookTypes' /\ Grown /\ UNCHANGED <<orders, single, batch, early>>
         /\ OfReply(m, i) = {} => book' = book
         /\ OfReply(m, i) # {} => \E o \in OfReply(m, i) : book' = book \ {o}
<1>1. OfReply(m, i) \subseteq Nat
  BY DEF OfReply, BookTypes
<1>2. OfReply(m, i) # {} => Min(OfReply(m, i)) \in OfReply(m, i)
  BY <1>1, MinIsLeast
<1>3. UNCHANGED <<orders, single, batch, early>>
  BY DEF RepItemRejected
<1>4. /\ OfReply(m, i) = {} => book' = book
      /\ OfReply(m, i) # {} => \E o \in OfReply(m, i) : book' = book \ {o}
  BY <1>2 DEF RepItemRejected
<1>5. BookTypes'
  BY <1>3, <1>4 DEF BookTypes
<1>6. QED
  BY <1>3, <1>4, <1>5, LikeItself DEF Grown

\* The object with its number.
Numbered(x, n) == [x EXCEPT !.number = n]

\* A number is given to an object.
LEMMA NumberGiven ==
  ASSUME BookTypes, NEW n \in Numbers, NEW o \in DOMAIN orders', RegisterNumber(n, o),
         orders' \in Seq(Order), DOMAIN orders \subseteq DOMAIN orders',
         book' \subseteq DOMAIN orders'
  PROVE  /\ BookTypes' /\ batch' = batch
         /\ DOMAIN single' = DOMAIN single \cup {n} /\ single'[n] = o
         /\ \A k \in DOMAIN single : k # n => single'[k] = single[k]
         /\ DOMAIN early' = DOMAIN early \ {n}
         /\ \A k \in DOMAIN early' : early'[k] = early[k]
<1>1. /\ DOMAIN single' = DOMAIN single \cup {n} /\ single'[n] = o
      /\ single' = [k \in DOMAIN single' |-> single'[k]]
      /\ \A k \in DOMAIN single : k # n => single'[k] = single[k]
      /\ DOMAIN early' = DOMAIN early \ {n} /\ early' = [k \in DOMAIN early' |-> early'[k]]
      /\ \A k \in DOMAIN early' : early'[k] = early[k]
      /\ batch' = batch
  BY DEF RegisterNumber, Restrict
<1>2. BookTypes'
  BY <1>1 DEF BookTypes
<1>3. QED
  BY <1>1, <1>2

\* A reply with a number: the object o has it from now on, old or new.
LEMMA RegisteredFacts ==
  ASSUME BookTypes, now \in Nat, NEW m \in Messages, NEW i \in Items(m), NEW o,
         NEW n, n = <<m, i>>,
         RepItemKnown(m, i, o) \/ RepItemUnknown(m, i, o)
  PROVE  /\ BookTypes' /\ Grown /\ o \in DOMAIN orders' /\ o \in book' /\ batch' = batch
         /\ book \subseteq book' /\ \A p \in book' : p \in book \/ p = o
         /\ \A p \in DOMAIN orders' : p \in DOMAIN orders \/ p = o
         /\ \A p \in DOMAIN orders : p # o => orders'[p] = orders[p]
         /\ n \in Numbers /\ n \in DOMAIN single' /\ single'[n] = o
         /\ \A k \in DOMAIN single' : k = n \/ (k \in DOMAIN single /\ single'[k] = single[k])
         /\ \A k \in DOMAIN single : k \in DOMAIN single'
         /\ \A k \in DOMAIN early' : k # n /\ k \in DOMAIN early /\ early'[k] = early[k]
         /\ \A k \in DOMAIN early : k # n => k \in DOMAIN early'
<1>1. n \in Numbers
  BY ItemFacts
<1>2. RegisterNumber(n, o)
  BY DEF RepItemKnown, RepItemUnknown
<1>4. CASE RepItemKnown(m, i, o)
  <2>1. OfReply(m, i) \subseteq Nat /\ OfReply(m, i) \subseteq book /\ OfReply(m, i) # {}
    <3>1. OfReply(m, i) \subseteq book
      BY DEF OfReply
    <3>2. DOMAIN orders \subseteq Nat /\ book \subseteq DOMAIN orders
      BY DEF BookTypes
    <3>3. QED
      BY <1>4, <3>1, <3>2 DEF RepItemKnown
  <2>2. o \in OfReply(m, i) /\ o \in book /\ o \in DOMAIN orders
    BY <1>4, <2>1, MinIsLeast DEF RepItemKnown, BookTypes
  <2>3. orders' = [orders EXCEPT ![o].number = n] /\ book' = book
    BY <1>4 DEF RepItemKnown
  <2>4. orders \in Seq(Order) /\ orders[o] \in Order
    BY <2>2 DEF BookTypes
  <2>5. [orders[o] EXCEPT !.number = n] \in Order
    BY <1>1, <2>4, OrderFields
  <2>6. /\ DOMAIN orders' = DOMAIN orders /\ orders'[o] = [orders[o] EXCEPT !.number = n]
        /\ \A p \in DOMAIN orders : p # o => orders'[p] = orders[p]
    BY <2>2, <2>3
  <2>7. orders' \in Seq(Order)
    BY <2>2, <2>3, <2>4, <2>5, ExceptSeq
  <2>8. Grown
    <3>1. Like(orders[o], orders'[o])
      BY <2>4, <2>6 DEF Like, Order
    <3>2. QED
      BY <2>6, <3>1, LikeItself DEF Grown
  <2>9. /\ BookTypes' /\ batch' = batch
        /\ DOMAIN single' = DOMAIN single \cup {n} /\ single'[n] = o
        /\ \A k \in DOMAIN single : k # n => single'[k] = single[k]
        /\ DOMAIN early' = DOMAIN early \ {n}
        /\ \A k \in DOMAIN early' : early'[k] = early[k]
    <3>1. book' \subseteq DOMAIN orders' /\ o \in DOMAIN orders' /\ DOMAIN orders \subseteq DOMAIN orders'
      BY <2>2, <2>3, <2>6 DEF BookTypes
    <3>2. QED
      BY <1>1, <1>2, <2>7, <3>1, NumberGiven
  <2>10. book' = book \cup {o} /\ DOMAIN orders' = DOMAIN orders \cup {o} /\ o \in DOMAIN orders'
    BY <2>2, <2>3, <2>6
  <2>11. QED
    BY <1>1, <2>2, <2>6, <2>8, <2>9, <2>10
<1>5. CASE RepItemUnknown(m, i, o)
  <2>1. orders \in Seq(Order) /\ NewOrder(m, i, n) \in Order
    BY <1>1, NewOrderFacts DEF BookTypes
  <2>2. /\ orders' = Append(orders, NewOrder(m, i, n)) /\ book' = book \cup {o}
        /\ OfReply(m, i) = {} /\ o = Len(orders) + 1
    BY <1>5 DEF RepItemUnknown
  <2>3. /\ orders' \in Seq(Order) /\ orders'[o] = NewOrder(m, i, n)
        /\ DOMAIN orders' = DOMAIN orders \cup {o} /\ o \notin DOMAIN orders
        /\ \A p \in DOMAIN orders : orders'[p] = orders[p]
    BY <2>1, <2>2, AppendFacts
  <2>4. /\ BookTypes' /\ batch' = batch
        /\ DOMAIN single' = DOMAIN single \cup {n} /\ single'[n] = o
        /\ \A k \in DOMAIN single : k # n => single'[k] = single[k]
        /\ DOMAIN early' = DOMAIN early \ {n}
        /\ \A k \in DOMAIN early' : early'[k] = early[k]
    <3>1. book' \subseteq DOMAIN orders' /\ o \in DOMAIN orders' /\ DOMAIN orders \subseteq DOMAIN orders'
      BY <2>2, <2>3 DEF BookTypes
    <3>2. QED
      BY <1>1, <1>2, <2>3, <3>1, NumberGiven
  <2>5. Grown
    BY <2>3, LikeItself DEF Grown
  <2>6. QED
    BY <1>1, <2>2, <2>3, <2>4, <2>5
<1>6. QED
  BY <1>4, <1>5

\* It is the one the request made, or a new one.
LEMMA RegisteredObject ==
  ASSUME BookTypes, NEW m \in Messages, NEW i \in Items(m), NEW o, NEW n, n = <<m, i>>,
         now \in Nat, RepItemKnown(m, i, o) \/ RepItemUnknown(m, i, o)
  PROVE  \/ /\ o \in OfReply(m, i) /\ o \in DOMAIN orders
            /\ orders'[o] = Numbered(orders[o], n)
         \/ /\ OfReply(m, i) = {} /\ o \notin DOMAIN orders
            /\ orders'[o] = NewOrder(m, i, n)
<1>1. CASE RepItemKnown(m, i, o)
  <2>1. OfReply(m, i) \subseteq book
    BY DEF OfReply
  <2>2. book \subseteq DOMAIN orders /\ DOMAIN orders \subseteq Nat
    BY DEF BookTypes
  <2>3. OfReply(m, i) # {} /\ o = Min(OfReply(m, i)) /\ orders' = [orders EXCEPT ![o].number = n]
    BY <1>1 DEF RepItemKnown
  <2>4. o \in OfReply(m, i)
    BY <2>1, <2>2, <2>3, MinIsLeast
  <2>5. o \in DOMAIN orders
    BY <2>1, <2>2, <2>4
  <2>6. orders'[o] = Numbered(orders[o], n)
    BY <2>3, <2>5 DEF Numbered
  <2>7. QED
    BY <2>4, <2>5, <2>6
<1>2. CASE RepItemUnknown(m, i, o)
  <2>1. orders \in Seq(Order) /\ NewOrder(m, i, n) \in Order
    BY ItemFacts, NewOrderFacts DEF BookTypes
  <2>2. /\ orders' = Append(orders, NewOrder(m, i, n))
        /\ OfReply(m, i) = {} /\ o = Len(orders) + 1
    BY <1>2 DEF RepItemUnknown
  <2>3. orders'[o] = NewOrder(m, i, n) /\ o \notin DOMAIN orders
    BY <2>1, <2>2, AppendFacts
  <2>4. QED
    BY <2>2, <2>3
<1>3. QED
  BY <1>1, <1>2

\* A knock of an order that is registered changes its object o and may end others.
LEMMA KnownFacts ==
  ASSUME BookTypes, NEW k \in Knock, KnockKnown(k)
  PROVE  /\ BookTypes' /\ Grown /\ book' = book /\ early' = early
         /\ DOMAIN orders' = DOMAIN orders /\ k.number \in DOMAIN single
         /\ DOMAIN single' \subseteq DOMAIN single
         /\ \A n \in DOMAIN single' : single'[n] = single[n]
         /\ DOMAIN batch' \subseteq DOMAIN batch
         /\ \A b \in DOMAIN batch' : batch'[b] = batch[b]
         /\ \E o \in DOMAIN orders :
              /\ o = single[k.number]
              /\ \/ orders'[o] = Told(k, orders[o])
                 \/ /\ Finished(Told(k, orders[o]))
                    /\ orders'[o] = [Told(k, orders[o]) EXCEPT !.finish = TRUE]
              /\ \A n \in DOMAIN single \ DOMAIN single' :
                   n = orders[o].number /\ orders'[o].finish
              /\ \A p \in DOMAIN orders : p # o =>
                   \/ orders'[p] = orders[p]
                   \/ Finished(orders[p]) /\ orders'[p] = [orders[p] EXCEPT !.finish = TRUE]
<1>1. k.number \in DOMAIN single /\ book' = book /\ early' = early
  BY DEF KnockKnown
<1>2. PICK o \in DOMAIN orders : o = single[k.number]
  BY <1>1 DEF BookTypes
<1>3. PICK ords : ords = [orders EXCEPT ![o] = Told(k, orders[o])]
  OBVIOUS
<1>4. orders \in Seq(Order) /\ orders[o] \in Order /\ Told(k, orders[o]) \in Order
  BY <1>2, ToldFacts DEF BookTypes
<1>5. /\ ords \in Seq(Order) /\ Len(ords) = Len(orders) /\ DOMAIN ords = DOMAIN orders
      /\ ords[o] = Told(k, orders[o]) /\ \A p \in DOMAIN orders : p # o => ords[p] = orders[p]
  BY <1>2, <1>3, <1>4, ExceptSeq
<1>6. \/ Finished(ords[o]) /\ FinishAll(ords, {o})
      \/ orders' = ords /\ UNCHANGED <<single, batch>>
  BY <1>2, <1>3 DEF KnockKnown, Told
<1>7. CASE Finished(ords[o]) /\ FinishAll(ords, {o})
  <2>1. {o} \in SUBSET DOMAIN orders /\ \A q \in {o} : Finished(ords[q])
    BY <1>2, <1>7
  <2>2. /\ orders' \in Seq(Order) /\ DOMAIN orders' = DOMAIN orders
        /\ \A p \in DOMAIN orders :
              \/ orders'[p] = ords[p] /\ p \notin {o}
              \/ Finished(ords[p]) /\ orders'[p] = [ords[p] EXCEPT !.finish = TRUE]
        /\ DOMAIN batch' \subseteq DOMAIN batch
        /\ batch' = [b \in DOMAIN batch' |-> batch'[b]]
        /\ \A b \in DOMAIN batch' : batch'[b] = batch[b]
        /\ DOMAIN single' = DOMAIN single \ {ords[q].number : q \in {o}}
        /\ single' = [n \in DOMAIN single' |-> single'[n]]
        /\ \A n \in DOMAIN single' : single'[n] = single[n]
    BY <1>5, <1>7, <2>1, FinishFacts
  <2>3. BookTypes'
    BY <1>1, <2>2 DEF BookTypes
  <2>4. \A p \in DOMAIN orders : orders[p] \in Order /\ ords[p] \in Order
    BY <1>4, <1>5
  <2>5. orders'[o] = [Told(k, orders[o]) EXCEPT !.finish = TRUE] /\ orders'[o].finish
    <3>1. PICK x \in Order : x = Told(k, orders[o])
      BY <1>4
    <3>2. [x EXCEPT !.finish = TRUE].finish
      BY DEF Order
    <3>3. o \in DOMAIN orders /\ o \in {o} /\ ords[o] = x
      BY <1>2, <1>5, <3>1
    <3>4. orders'[o] = [x EXCEPT !.finish = TRUE]
      BY <2>2, <3>3
    <3>5. QED
      BY <3>1, <3>2, <3>4
  <2>6. ords[o].number = orders[o].number
    <3>1. PICK x \in Order : x = orders[o]
      BY <1>4
    <3>2. Told(k, x).number = x.number
      BY DEF Told, Order
    <3>3. QED
      BY <1>5, <3>1, <3>2
  <2>7. Grown
    <3>1. Like(orders[o], orders'[o])
      <4>1. Like(orders[o], Told(k, orders[o]))
        BY <1>4, LikeTold
      <4>2. Like(Told(k, orders[o]), [Told(k, orders[o]) EXCEPT !.finish = TRUE])
        BY <1>4, LikeFinished
      <4>3. QED
        BY <2>5, <4>1, <4>2 DEF Like
    <3>2. \A p \in DOMAIN orders : p # o => Like(orders[p], orders'[p])
      BY <1>5, <2>2, <2>4, LikeItself, LikeFinished
    <3>3. QED
      BY <2>2, <3>1, <3>2 DEF Grown
  <2>8. \A n \in DOMAIN single \ DOMAIN single' : n = orders[o].number /\ orders'[o].finish
    BY <2>2, <2>5, <2>6
  <2>9. \A p \in DOMAIN orders : p # o =>
          \/ orders'[p] = orders[p]
          \/ Finished(orders[p]) /\ orders'[p] = [orders[p] EXCEPT !.finish = TRUE]
    BY <1>5, <2>2
  <2>10. Finished(Told(k, orders[o]))
    BY <1>5, <1>7
  <2>11. QED
    BY <1>1, <1>2, <2>2, <2>3, <2>5, <2>7, <2>8, <2>9, <2>10
<1>8. CASE orders' = ords /\ UNCHANGED <<single, batch>>
  <2>1. BookTypes'
    BY <1>1, <1>5, <1>8 DEF BookTypes
  <2>2. Grown
    <3>1. Like(orders[o], orders'[o])
      BY <1>4, <1>5, <1>8, LikeTold
    <3>2. QED
      BY <1>5, <1>8, <3>1, LikeItself DEF Grown
  <2>3. \A b \in DOMAIN batch' : batch'[b] = batch[b]
    BY <1>8
  <2>4. QED
    BY <1>1, <1>2, <1>5, <1>8, <2>1, <2>2, <2>3
<1>9. QED
  BY <1>6, <1>7, <1>8

\* A knock that overtook its reply is kept, or passed over.
LEMMA EarlyFacts ==
  ASSUME BookTypes, NEW k \in Knock, KnockEarly(k)
  PROVE  /\ BookTypes' /\ UNCHANGED <<orders, book, single, batch>>
         /\ k.number \notin DOMAIN single
         /\ \/ early' = early
            \/ /\ k.type # "withdrawn" /\ Guards(k.number[1], k.number[2])
               /\ DOMAIN early' = DOMAIN early \cup {k.number}
               /\ \A n \in DOMAIN early : n # k.number => early'[n] = early[n]
               /\ early'[k.number] =
                    (IF k.number \in DOMAIN early THEN early[k.number] ELSE <<>>) \o <<k>>
         /\ k.type # "withdrawn" /\ Guards(k.number[1], k.number[2]) => early' # early
<1>1. UNCHANGED <<orders, book, single, batch>> /\ k.number \notin DOMAIN single
  BY DEF KnockEarly
<1>2. k.number \in Numbers
  BY DEF Knock
<1>3. CASE k.type = "withdrawn" \/ ~Guards(k.number[1], k.number[2])
  <2>1. early' = early
    BY <1>3 DEF KnockEarly
  <2>2. BookTypes'
    BY <1>1, <2>1 DEF BookTypes
  <2>3. QED
    BY <1>1, <1>3, <2>1, <2>2
<1>4. CASE ~ (k.type = "withdrawn" \/ ~Guards(k.number[1], k.number[2]))
  <2>1. PICK s : s = (IF k.number \in DOMAIN early THEN early[k.number] ELSE <<>>)
    OBVIOUS
  <2>2. s \in Seq(Knock)
    BY <2>1 DEF BookTypes
  <2>3. early' = [n \in DOMAIN early \cup {k.number} |->
                    IF n = k.number THEN s \o <<k>> ELSE early[n]]
    BY <1>4, <2>1 DEF KnockEarly
  <2>4. s \o <<k>> \in Seq(Knock) /\ Len(s \o <<k>>) = Len(s) + 1 /\ Len(s) \in Nat
    BY <2>2
  <2>5. BookTypes'
    BY <1>1, <1>2, <2>3, <2>4 DEF BookTypes
  <2>6. /\ DOMAIN early' = DOMAIN early \cup {k.number}
        /\ \A n \in DOMAIN early : n # k.number => early'[n] = early[n]
        /\ early'[k.number] = s \o <<k>>
    BY <2>3
  <2>7. early' # early
    <3>1. CASE k.number \in DOMAIN early
      <4>1. s \o <<k>> # s
        BY <2>4
      <4>2. QED
        BY <2>1, <2>6, <3>1, <4>1
    <3>2. CASE k.number \notin DOMAIN early
      BY <2>6, <3>2
    <3>3. QED
      BY <3>1, <3>2
  <2>8. QED
    BY <1>1, <1>4, <2>1, <2>5, <2>6, <2>7
<1>5. QED
  BY <1>3, <1>4

\* A request to withdraw and its answer: the time or the outcome is noted.
LEMMA WithdrawReqFacts ==
  ASSUME BookTypes, now \in Nat, NEW m, NEW i, HandleTradeWithdrawReq(m, i)
  PROVE  /\ BookTypes' /\ Grown /\ UNCHANGED <<book, single, batch, early>>
         /\ DOMAIN orders' = DOMAIN orders
         /\ \A o \in DOMAIN orders :
              orders'[o] = IF o \in Targets(m, i) THEN [orders[o] EXCEPT !.withdrawAsked = now]
                           ELSE orders[o]
<1>1. /\ DOMAIN orders' = DOMAIN orders /\ orders' = [o \in DOMAIN orders' |-> orders'[o]]
      /\ \A o \in DOMAIN orders :
           orders'[o] = IF o \in Targets(m, i) THEN [orders[o] EXCEPT !.withdrawAsked = now]
                        ELSE orders[o]
      /\ UNCHANGED <<book, single, batch, early>>
  BY DEF HandleTradeWithdrawReq
<1>2. orders \in Seq(Order) /\ \A o \in DOMAIN orders : orders[o] \in Order
  BY DEF BookTypes
<1>3. \A o \in DOMAIN orders : orders'[o] \in Order
  <2>1. ASSUME NEW o \in DOMAIN orders PROVE orders'[o] \in Order
    <3>1. orders[o] \in Order
      BY <1>2
    <3>2. [orders[o] EXCEPT !.withdrawAsked = now] \in Order
      BY <3>1, OrderFields
    <3>3. [orders[o] EXCEPT !.withdrawn = TRUE] \in Order
      BY <3>1, OrderFields
    <3>4. QED
      BY <1>1, <3>1, <3>2, <3>3
  <2>2. QED
    BY <2>1
<1>4. orders' \in Seq(Order)
  BY <1>1, <1>2, <1>3, MapSeq
<1>5. BookTypes'
  BY <1>1, <1>4 DEF BookTypes
<1>6. \A o \in DOMAIN orders : Like(orders[o], orders'[o])
  <2>1. ASSUME NEW o \in DOMAIN orders PROVE Like(orders[o], orders'[o])
    <3>1. PICK x \in Order : x = orders[o]
      BY <1>2
    <3>2. Like(x, x) /\ Like(x, [x EXCEPT !.withdrawAsked = now])
      BY LikeItself, LikeAsked
    <3>3. QED
      BY <1>1, <3>1, <3>2
  <2>2. QED
    BY <2>1
<1>7. QED
  BY <1>1, <1>5, <1>6 DEF Grown

LEMMA WithdrawRepFacts ==
  ASSUME BookTypes, now \in Nat, NEW m, NEW i, NEW ok \in BOOLEAN,
         HandleTradeWithdrawRep(m, i, ok)
  PROVE  /\ BookTypes' /\ Grown /\ UNCHANGED <<book, single, early>>
         /\ DOMAIN batch' \subseteq DOMAIN batch
         /\ \A b \in DOMAIN batch' : batch'[b] = batch[b]
         /\ DOMAIN orders' = DOMAIN orders
         /\ \A o \in DOMAIN orders :
              orders'[o] = IF o \notin Targets(m, i) THEN orders[o]
                           ELSE IF ok THEN [orders[o] EXCEPT !.withdrawn = TRUE]
                           ELSE [orders[o] EXCEPT !.withdrawAsked = now]
<1>1. /\ DOMAIN orders' = DOMAIN orders /\ orders' = [o \in DOMAIN orders' |-> orders'[o]]
      /\ \A o \in DOMAIN orders :
           orders'[o] = IF o \notin Targets(m, i) THEN orders[o]
                        ELSE IF ok THEN [orders[o] EXCEPT !.withdrawn = TRUE]
                        ELSE [orders[o] EXCEPT !.withdrawAsked = now]
      /\ UNCHANGED <<book, single, early>>
  BY DEF HandleTradeWithdrawRep
<1>2. orders \in Seq(Order) /\ \A o \in DOMAIN orders : orders[o] \in Order
  BY DEF BookTypes
<1>3. \A o \in DOMAIN orders : orders'[o] \in Order
  <2>1. ASSUME NEW o \in DOMAIN orders PROVE orders'[o] \in Order
    <3>1. orders[o] \in Order
      BY <1>2
    <3>2. [orders[o] EXCEPT !.withdrawAsked = now] \in Order
      BY <3>1, OrderFields
    <3>3. [orders[o] EXCEPT !.withdrawn = TRUE] \in Order
      BY <3>1, OrderFields
    <3>4. QED
      BY <1>1, <3>1, <3>2, <3>3
  <2>2. QED
    BY <2>1
<1>4. orders' \in Seq(Order)
  BY <1>1, <1>2, <1>3, MapSeq
<1>5. /\ DOMAIN batch' \subseteq DOMAIN batch
      /\ \A b \in DOMAIN batch' : batch'[b] = batch[b]
      /\ batch = [b \in DOMAIN batch |-> batch[b]] => batch' = [b \in DOMAIN batch' |-> batch'[b]]
  BY DEF HandleTradeWithdrawRep, Restrict
<1>6. BookTypes'
  BY <1>1, <1>4, <1>5 DEF BookTypes
<1>7. \A o \in DOMAIN orders : Like(orders[o], orders'[o])
  <2>1. ASSUME NEW o \in DOMAIN orders PROVE Like(orders[o], orders'[o])
    <3>1. PICK x \in Order : x = orders[o]
      BY <1>2
    <3>2. Like(x, x) /\ Like(x, [x EXCEPT !.withdrawAsked = now]) /\ Like(x, [x EXCEPT !.withdrawn = TRUE])
      BY LikeItself, LikeAsked, LikeWithdrawn
    <3>3. QED
      BY <1>1, <3>1, <3>2
  <2>2. QED
    BY <2>1
<1>8. QED
  BY <1>1, <1>5, <1>6, <1>7 DEF Grown

\* The numbers of a batch are remembered together.
LEMMA BatchFacts ==
  ASSUME BookTypes, NEW m \in Messages, NEW members \in Seq(Nat),
         \A k \in DOMAIN members : members[k] \in DOMAIN orders, RegisterBatch(m, members)
  PROVE  /\ BookTypes' /\ Grown /\ UNCHANGED <<orders, book, single, early>>
         /\ \/ members = <<>> /\ batch' = batch
            \/ /\ members # <<>> /\ DOMAIN batch' = DOMAIN batch \cup {m} /\ batch'[m] = members
               /\ \A b \in DOMAIN batch : b # m => batch'[b] = batch[b]
<1>1. /\ UNCHANGED <<orders, book, single, early>>
      /\ batch' = [b \in DOMAIN batch' |-> batch'[b]]
      /\ \/ members = <<>> /\ batch' = batch
         \/ /\ members # <<>> /\ DOMAIN batch' = DOMAIN batch \cup {m} /\ batch'[m] = members
            /\ \A b \in DOMAIN batch : b # m => batch'[b] = batch[b]
  BY DEF RegisterBatch, BookTypes
<1>2. BookTypes'
  BY <1>1 DEF BookTypes
<1>3. QED
  BY <1>1, <1>2, LikeItself DEF Grown

-----------------------------------------------------------------------------
(* Types are kept. *)

\* A step that leaves the risker alone.
LEMMA BookFrame ==
  ASSUME BookTypes, UNCHANGED riskerVars
  PROVE  BookTypes' /\ Grown
BY LikeItself DEF BookTypes, riskerVars, Grown

\* The queue of the risk thread gets one message more, or one less.
LEMMA QueuePut ==
  ASSUME TypeInv, NEW r \in Queued, r.kind = "order" => r.msg \in Own,
         tradeQueue' = Append(tradeQueue, r)
  PROVE  /\ tradeQueue' \in Seq(Queued)
         /\ \A k \in DOMAIN tradeQueue' : tradeQueue'[k].kind = "order" => tradeQueue'[k].msg \in Own
<1>1. tradeQueue \in Seq(Queued)
  BY DEF TypeInv
<1>2. PICK n : n = Len(tradeQueue) + 1
  OBVIOUS
<1>3. /\ tradeQueue' \in Seq(Queued) /\ tradeQueue'[n] = r
      /\ DOMAIN tradeQueue' = DOMAIN tradeQueue \cup {n}
      /\ \A p \in DOMAIN tradeQueue : tradeQueue'[p] = tradeQueue[p]
  BY <1>1, <1>2, AppendFacts
<1>4. QED
  BY <1>3 DEF TypeInv

LEMMA QueueTaken ==
  ASSUME TypeInv, tradeQueue # <<>>, tradeQueue' = Tail(tradeQueue)
  PROVE  /\ tradeQueue' \in Seq(Queued)
         /\ \A k \in DOMAIN tradeQueue' : tradeQueue'[k].kind = "order" => tradeQueue'[k].msg \in Own
         /\ Head(tradeQueue) \in Queued
         /\ Head(tradeQueue).kind = "order" => Head(tradeQueue).msg \in Own
<1>1. tradeQueue \in Seq(Queued)
  BY DEF TypeInv
<1>2. PICK n \in Nat \ {0} : n = Len(tradeQueue)
  BY <1>1, EmptySeq, LenProperties
<1>3. /\ tradeQueue' \in Seq(Queued) /\ Len(tradeQueue') = n - 1
      /\ \A i \in 1 .. n - 1 : tradeQueue'[i] = tradeQueue[i + 1]
      /\ Head(tradeQueue) = tradeQueue[1] /\ Head(tradeQueue) \in Queued
  BY <1>1, <1>2, HeadTailProperties
<1>4. DOMAIN tradeQueue = 1 .. n /\ DOMAIN tradeQueue' = 1 .. n - 1
  BY <1>1, <1>2, <1>3, LenProperties
<1>5. 1 \in 1 .. n /\ \A i \in 1 .. n - 1 : i + 1 \in 1 .. n
  BY <1>2
<1>6. \A k \in DOMAIN tradeQueue' : k + 1 \in DOMAIN tradeQueue /\ tradeQueue'[k] = tradeQueue[k + 1]
  BY <1>3, <1>4, <1>5
<1>7. \A k \in DOMAIN tradeQueue : tradeQueue[k].kind = "order" => tradeQueue[k].msg \in Own
  BY DEF TypeInv
<1>8. Head(tradeQueue) = tradeQueue[1] /\ 1 \in DOMAIN tradeQueue
  BY <1>3, <1>4, <1>5
<1>9. QED
  BY <1>3, <1>6, <1>7, <1>8

\* The kinds tell the messages apart.
LEMMA QueuedKinds ==
  ASSUME NEW r \in Queued
  PROVE  /\ r.kind = "order" => r \in OrderRequest
         /\ r.kind = "withdraw" => r \in WithdrawRequest
         /\ r.kind = "rep" => r \in Reply
         /\ r.kind = "wrep" => r \in WithdrawReply
         /\ r.kind = "knock" => r \in Knock
         /\ r.kind \in {"order", "withdraw", "rep", "wrep", "knock"}
BY DEF Queued, Returns, OrderRequest, WithdrawRequest, Reply, WithdrawReply, Knock

LEMMA TaskKinds ==
  ASSUME TaskTypes
  PROVE  /\ task.kind \in {"check", "pass"} => task \in CheckTask
         /\ task.kind = "rep" => task \in RepTask
         /\ task.kind = "knocks" => task \in KnocksTask
         /\ task.kind = "idle" => task = Idle
         /\ task = Idle => task.kind = "idle"
BY DEF TaskTypes, Idle, CheckTask, RepTask, KnocksTask

\* What neither the risk thread nor its queue is about.
OutsideTypes ==
  /\ caller \in {Idle} \cup OrderRequest \cup WithdrawRequest
  /\ asyncState \in {"idle", "running", "done"}
  /\ verdict \in [Messages -> {"new", "checking", "passed", "refused"}]
  /\ life \in [Numbers -> {"none", "working", "ended"}]
  /\ left \in [Numbers -> Nat]
  /\ returns \subseteq Returns
  /\ withdrawal \in [Messages -> [state: {"none", "asked", "done"}, item: Nat]]
  /\ repMemory \in Seq(Messages)

\* The gateway thread.
LEMMA TypeGateway ==
  ASSUME TypeInv,
         (\E m \in Messages : Request(m) \/ \E i \in 0 .. Len(m.items) : RequestWithdraw(m, i))
         \/ Collect \/ CollectWithdraw
  PROVE  TypeInv'
<1>1. ASSUME NEW m \in Messages, Request(m) PROVE TypeInv'
  <2>1. UNCHANGED <<now, riskerVars, task, checkedAt, life, left, returns, withdrawal, repMemory>>
    BY <1>1 DEF Request, truthVars, foreignVars
  <2>2. PICK r : r = [kind |-> "order", msg |-> m]
    OBVIOUS
  <2>3. r \in OrderRequest /\ r \in Queued /\ r.msg \in Own
    BY <1>1, <2>2 DEF Request, OrderRequest, Queued
  <2>4. tradeQueue' = Append(tradeQueue, r) /\ caller' = r /\ asyncState' = "running"
    BY <1>1, <2>2 DEF Request
  <2>5. /\ tradeQueue' \in Seq(Queued)
        /\ \A k \in DOMAIN tradeQueue' : tradeQueue'[k].kind = "order" => tradeQueue'[k].msg \in Own
    BY <2>3, <2>4, QueuePut
  <2>6. verdict' \in [Messages -> {"new", "checking", "passed", "refused"}]
    BY <1>1 DEF Request, TypeInv
  <2>7. BookTypes' /\ TaskTypes'
    BY <2>1, BookFrame DEF TypeInv, TaskTypes, riskerVars
  <2>8. QED
    BY <2>1, <2>3, <2>4, <2>5, <2>6, <2>7 DEF TypeInv
<1>2. ASSUME NEW m \in Messages, NEW i \in 0 .. Len(m.items), RequestWithdraw(m, i) PROVE TypeInv'
  <2>1. UNCHANGED <<now, riskerVars, task, checkedAt, verdict, life, left, returns, withdrawal,
                    repMemory>>
    BY <1>2 DEF RequestWithdraw, truthVars, foreignVars
  <2>2. PICK r : r = [kind |-> "withdraw", msg |-> m, item |-> i]
    OBVIOUS
  <2>3. r \in WithdrawRequest /\ r \in Queued /\ r.kind # "order"
    BY <2>2, ItemsFacts DEF WithdrawRequest, Queued
  <2>4. tradeQueue' = Append(tradeQueue, r) /\ caller' = r /\ asyncState' = "running"
    BY <1>2, <2>2 DEF RequestWithdraw
  <2>5. /\ tradeQueue' \in Seq(Queued)
        /\ \A k \in DOMAIN tradeQueue' : tradeQueue'[k].kind = "order" => tradeQueue'[k].msg \in Own
    BY <2>3, <2>4, QueuePut
  <2>6. BookTypes' /\ TaskTypes'
    BY <2>1, BookFrame DEF TypeInv, TaskTypes, riskerVars
  <2>7. QED
    BY <2>1, <2>3, <2>4, <2>5, <2>6 DEF TypeInv
<1>3. ASSUME Collect PROVE TypeInv'
  <2>1. UNCHANGED <<now, riskerVars, task, tradeQueue, checkedAt, left, withdrawal, repMemory>>
    BY <1>3 DEF Collect, foreignVars
  <2>2. PICK m \in Messages : m = caller.msg
    <3>1. caller \in {Idle} \cup OrderRequest \cup WithdrawRequest /\ caller.kind = "order"
      BY <1>3 DEF Collect, TypeInv
    <3>2. caller \in OrderRequest
      BY <3>1 DEF Idle, OrderRequest, WithdrawRequest
    <3>3. QED
      BY <3>2 DEF OrderRequest
  <2>3. asyncState' = "idle" /\ caller' = Idle
    BY <1>3 DEF Collect
  <2>4. /\ verdict' \in [Messages -> {"new", "checking", "passed", "refused"}]
        /\ life' \in [Numbers -> {"none", "working", "ended"}]
    BY <1>3, <2>2 DEF Collect, TypeInv
  <2>5. returns' \subseteq Returns
    <3>1. [kind |-> "rep", msg |-> m, accepted |-> {}] \in Returns
      BY DEF Returns, Reply
    <3>2. QED
      BY <1>3, <2>2, <3>1 DEF Collect, TypeInv
  <2>6. BookTypes' /\ TaskTypes'
    BY <2>1, BookFrame DEF TypeInv, TaskTypes, riskerVars
  <2>7. QED
    BY <2>1, <2>3, <2>4, <2>5, <2>6 DEF TypeInv
<1>4. ASSUME CollectWithdraw PROVE TypeInv'
  <2>1. UNCHANGED <<now, riskerVars, task, tradeQueue, checkedAt, verdict, life, left, returns,
                    repMemory>>
    BY <1>4 DEF CollectWithdraw, foreignVars
  <2>2. caller.msg \in Messages /\ caller.item \in Nat
    BY <1>4 DEF CollectWithdraw, TypeInv, Idle, OrderRequest, WithdrawRequest
  <2>3. /\ asyncState' = "idle" /\ caller' = Idle
        /\ withdrawal' = [withdrawal EXCEPT ![caller.msg] = [state |-> "asked", item |-> caller.item]]
    BY <1>4 DEF CollectWithdraw
  <2>4. withdrawal' \in [Messages -> [state: {"none", "asked", "done"}, item: Nat]]
    BY <2>2, <2>3 DEF TypeInv
  <2>5. BookTypes' /\ TaskTypes'
    BY <2>1, BookFrame DEF TypeInv, TaskTypes, riskerVars
  <2>6. QED
    BY <2>1, <2>3, <2>4, <2>5 DEF TypeInv
<1>5. QED
  BY <1>1, <1>2, <1>3, <1>4

\* Counter and exchange.
LEMMA TypeTruth ==
  ASSUME TypeInv,
         \/ \E m \in Messages :
              \/ ForeignOrder(m)
              \/ \E accepted \in SUBSET Items(m) : CounterReply(m, accepted)
              \/ \E ok \in BOOLEAN : Withdraw(m, ok)
         \/ \E n \in Numbers :
              \/ \E v \in 1 .. left[n] : Trade(n, v)
              \/ \E type \in {"withdrawn", "failed"} : End(n, type)
  PROVE  TypeInv'
<1>1. ASSUME UNCHANGED <<now, riskerVars, task, tradeQueue, checkedAt, asyncState, caller>>,
             OutsideTypes'
      PROVE  TypeInv'
  <2>1. BookTypes' /\ TaskTypes'
    BY <1>1, BookFrame DEF TypeInv, TaskTypes, riskerVars
  <2>2. QED
    BY <1>1, <2>1 DEF TypeInv, OutsideTypes
<1>2. ASSUME NEW m \in Messages, ForeignOrder(m) PROVE TypeInv'
  <2>1. repMemory' \in Seq(Messages)
    BY <1>2 DEF ForeignOrder, TypeInv
  <2>2. /\ verdict' \in [Messages -> {"new", "checking", "passed", "refused"}]
        /\ life' \in [Numbers -> {"none", "working", "ended"}]
    BY <1>2 DEF ForeignOrder, TypeInv
  <2>3. UNCHANGED <<now, riskerVars, task, tradeQueue, checkedAt, asyncState, caller, left, returns,
                    withdrawal>>
    BY <1>2 DEF ForeignOrder
  <2>4. QED
    BY <1>1, <2>1, <2>2, <2>3 DEF OutsideTypes, TypeInv
<1>3. ASSUME NEW m \in Messages, NEW accepted \in SUBSET Items(m), CounterReply(m, accepted)
      PROVE  TypeInv'
  <2>1. UNCHANGED <<now, riskerVars, task, tradeQueue, gatewayVars, left, withdrawal, repMemory>>
    BY <1>3 DEF CounterReply, foreignVars
  <2>2. life' \in [Numbers -> {"none", "working", "ended"}]
    BY <1>3 DEF CounterReply, TypeInv
  <2>3. returns' \subseteq Returns
    <3>1. accepted \in SUBSET Nat
      BY ItemsFacts
    <3>2. [kind |-> "rep", msg |-> m, accepted |-> accepted] \in Returns
      BY <3>1 DEF Returns, Reply
    <3>3. QED
      BY <1>3, <3>2 DEF CounterReply, TypeInv
  <2>4. QED
    BY <1>1, <2>1, <2>2, <2>3 DEF OutsideTypes, TypeInv, gatewayVars
<1>4. ASSUME NEW m \in Messages, NEW ok \in BOOLEAN, Withdraw(m, ok) PROVE TypeInv'
  <2>1. UNCHANGED <<now, riskerVars, task, tradeQueue, gatewayVars, left, repMemory>>
    BY <1>4 DEF Withdraw, foreignVars
  <2>2. PICK i : i = withdrawal[m].item
    OBVIOUS
  <2>3. i \in Nat
    BY <2>2 DEF TypeInv
  <2>4. PICK hit : hit = {n \in NumbersOf(m) : life[n] = "working" /\ (i = 0 \/ n = <<m, i>>)}
    OBVIOUS
  <2>5. /\ life' = [n \in Numbers |-> IF ok /\ n \in hit THEN "ended" ELSE life[n]]
        /\ returns' = returns
             \cup {[kind |-> "wrep", msg |-> m, item |-> i, ok |-> ok]}
             \cup (IF ok THEN {[kind |-> "knock", number |-> n, type |-> "withdrawn",
                                volume |-> left[n], left |-> left[n]] : n \in hit} ELSE {})
        /\ withdrawal' = [withdrawal EXCEPT ![m].state = "done"]
    BY <1>4, <2>2, <2>4 DEF Withdraw
  <2>6. hit \subseteq Numbers
    BY <2>4 DEF Numbers
  <2>7. returns' \subseteq Returns
    <3>1. [kind |-> "wrep", msg |-> m, item |-> i, ok |-> ok] \in Returns
      BY <2>3 DEF Returns, WithdrawReply
    <3>2. \A n \in hit : [kind |-> "knock", number |-> n, type |-> "withdrawn",
                          volume |-> left[n], left |-> left[n]] \in Returns
      BY <2>6 DEF Returns, Knock, TypeInv
    <3>3. returns \subseteq Returns
      BY DEF TypeInv
    <3>4. QED
      BY <2>5, <3>1, <3>2, <3>3
  <2>8. life' \in [Numbers -> {"none", "working", "ended"}]
    BY <2>5 DEF TypeInv
  <2>9. withdrawal' \in [Messages -> [state: {"none", "asked", "done"}, item: Nat]]
    BY <2>5 DEF TypeInv
  <2>10. QED
    BY <1>1, <2>1, <2>7, <2>8, <2>9 DEF OutsideTypes, TypeInv, gatewayVars
<1>5. ASSUME NEW n \in Numbers, NEW v \in 1 .. left[n], Trade(n, v) PROVE TypeInv'
  <2>1. UNCHANGED <<now, riskerVars, task, tradeQueue, gatewayVars, withdrawal, repMemory>>
    BY <1>5 DEF Trade, foreignVars
  <2>2. left[n] \in Nat /\ v \in Nat /\ left[n] - v \in Nat
    BY DEF TypeInv
  <2>3. left' \in [Numbers -> Nat]
    BY <1>5, <2>2 DEF Trade, TypeInv
  <2>4. life' \in [Numbers -> {"none", "working", "ended"}]
    BY <1>5 DEF Trade, TypeInv
  <2>5. returns' \subseteq Returns
    <3>1. [kind |-> "knock", number |-> n, type |-> "trade", volume |-> v,
           left |-> left[n] - v] \in Returns
      BY <2>2 DEF Returns, Knock
    <3>2. QED
      BY <1>5, <3>1 DEF Trade, TypeInv
  <2>6. QED
    BY <1>1, <2>1, <2>3, <2>4, <2>5 DEF OutsideTypes, TypeInv, gatewayVars
<1>6. ASSUME NEW n \in Numbers, NEW type \in {"withdrawn", "failed"}, End(n, type) PROVE TypeInv'
  <2>1. UNCHANGED <<now, riskerVars, task, tradeQueue, gatewayVars, left, withdrawal, repMemory>>
    BY <1>6 DEF End, foreignVars
  <2>2. life' \in [Numbers -> {"none", "working", "ended"}]
    BY <1>6 DEF End, TypeInv
  <2>3. returns' \subseteq Returns
    <3>1. [kind |-> "knock", number |-> n, type |-> type, volume |-> left[n],
           left |-> left[n]] \in Returns
      BY DEF Returns, Knock, TypeInv
    <3>2. QED
      BY <1>6, <3>1 DEF End, TypeInv
  <2>4. QED
    BY <1>1, <2>1, <2>2, <2>3 DEF OutsideTypes, TypeInv, gatewayVars
<1>7. QED
  BY <1>2, <1>3, <1>4, <1>5, <1>6

\* Time, the deliveries of the main thread and the reader of the reply memory.
LEMMA TypeMain ==
  ASSUME TypeInv, Tick \/ (\E r \in returns : Deliver(r)) \/ ReadRep
  PROVE  TypeInv'
<1>1. CASE Tick
  <2>1. UNCHANGED <<riskerVars, task, tradeQueue, gatewayVars, truthVars, foreignVars>>
    BY <1>1 DEF Tick
  <2>2. now' \in Nat
    BY <1>1 DEF Tick, TypeInv
  <2>3. BookTypes' /\ TaskTypes'
    BY <2>1, BookFrame DEF TypeInv, TaskTypes, riskerVars
  <2>4. QED
    BY <2>1, <2>2, <2>3 DEF TypeInv, gatewayVars, truthVars, foreignVars
<1>2. ASSUME NEW r \in returns, Deliver(r) PROVE TypeInv'
  <2>1. UNCHANGED <<now, riskerVars, task, gatewayVars, life, left, withdrawal, foreignVars>>
    BY <1>2 DEF Deliver
  <2>2. r \in Queued /\ r.kind # "order"
    BY DEF TypeInv, Queued, Returns, Reply, WithdrawReply, Knock
  <2>3. /\ tradeQueue' \in Seq(Queued)
        /\ \A k \in DOMAIN tradeQueue' : tradeQueue'[k].kind = "order" => tradeQueue'[k].msg \in Own
    BY <1>2, <2>2, QueuePut DEF Deliver
  <2>4. returns' \subseteq Returns
    BY <1>2 DEF Deliver, TypeInv
  <2>5. BookTypes' /\ TaskTypes'
    BY <2>1, BookFrame DEF TypeInv, TaskTypes, riskerVars
  <2>6. QED
    BY <2>1, <2>3, <2>4, <2>5 DEF TypeInv, gatewayVars, foreignVars
<1>3. CASE ReadRep
  <2>1. UNCHANGED <<now, riskerVars, task, tradeQueue, gatewayVars, truthVars>>
    BY <1>3 DEF ReadRep
  <2>2. repMemory' \in Seq(Messages)
    BY <1>3, HeadTailProperties DEF ReadRep, TypeInv
  <2>3. BookTypes' /\ TaskTypes'
    BY <2>1, BookFrame DEF TypeInv, TaskTypes, riskerVars
  <2>4. QED
    BY <2>1, <2>2, <2>3 DEF TypeInv, gatewayVars, truthVars
<1>4. QED
  BY <1>1, <1>2, <1>3

\* A knock, new or replayed.
LEMMA KnockFacts ==
  ASSUME BookTypes, NEW k \in Knock, OnTradeKnock(k)
  PROVE  BookTypes' /\ Grown /\ book' = book /\ DOMAIN orders' = DOMAIN orders
<1>1. CASE KnockKnown(k)
  BY <1>1, KnownFacts
<1>2. CASE KnockEarly(k)
  BY <1>2, EarlyFacts, LikeItself DEF Grown
<1>3. QED
  BY <1>1, <1>2 DEF OnTradeKnock

\* The risk thread takes a message.
LEMMA TypeTake ==
  ASSUME TypeInv, Take
  PROVE  TypeInv' /\ Grown
<1>1. PICK r : r = Head(tradeQueue)
  OBVIOUS
<1>2. /\ tradeQueue' \in Seq(Queued)
      /\ \A k \in DOMAIN tradeQueue' : tradeQueue'[k].kind = "order" => tradeQueue'[k].msg \in Own
      /\ r \in Queued /\ (r.kind = "order" => r.msg \in Own)
  BY <1>1, QueueTaken DEF Take
<1>3. UNCHANGED <<now, caller, verdict, life, left, returns, withdrawal, repMemory>>
  BY DEF Take, Frame, truthVars, foreignVars
<1>4. ASSUME BookTypes', Grown, TaskTypes', checkedAt' \in [Messages -> Nat],
             asyncState' \in {"idle", "running", "done"}
      PROVE  TypeInv' /\ Grown
  BY <1>2, <1>3, <1>4 DEF TypeInv
<1>5. BookTypes /\ now \in Nat /\ checkedAt \in [Messages -> Nat]
      /\ asyncState \in {"idle", "running", "done"}
  BY DEF TypeInv
<1>6. ASSUME task' = Idle PROVE TaskTypes'
  BY <1>6 DEF TaskTypes, Idle
<1>7. CASE r.kind = "order"
  <2>1. /\ task' = [kind |-> "check", msg |-> r.msg, item |-> 1]
        /\ checkedAt' = [checkedAt EXCEPT ![r.msg] = now]
        /\ UNCHANGED <<riskerVars, asyncState, asyncResult>>
    BY <1>1, <1>7 DEF Take
  <2>2. task' \in CheckTask
    BY <1>2, <1>7, <2>1 DEF CheckTask
  <2>3. TaskTypes'
    BY <2>2 DEF TaskTypes, CheckTask
  <2>4. checkedAt' \in [Messages -> Nat]
    BY <1>5, <2>1
  <2>5. QED
    BY <1>4, <1>5, <2>1, <2>3, <2>4, BookFrame
<1>8. CASE r.kind = "withdraw"
  <2>1. HandleTradeWithdrawReq(r.msg, r.item) /\ asyncState' = "done" /\ task' = Idle
        /\ UNCHANGED checkedAt
    BY <1>1, <1>8 DEF Take, Answer
  <2>2. BookTypes' /\ Grown
    BY <1>5, <2>1, WithdrawReqFacts
  <2>3. QED
    BY <1>4, <1>5, <1>6, <2>1, <2>2
<1>9. CASE r.kind = "rep"
  <2>1. /\ task' = [kind |-> "rep", msg |-> r.msg, item |-> 1, accepted |-> r.accepted,
                    members |-> <<>>, knocks |-> <<>>]
        /\ UNCHANGED <<riskerVars, asyncState, asyncResult, checkedAt>>
    BY <1>1, <1>9 DEF Take
  <2>2. r.msg \in Messages /\ r.accepted \in SUBSET Nat
    BY <1>2, <1>9, QueuedKinds DEF Reply
  <2>3. task' \in RepTask /\ DOMAIN task'.members = {}
    <3>1. <<>> \in Seq(Nat) /\ <<>> \in Seq(Knock) /\ DOMAIN <<>> = {}
      BY EmptySeq, LenProperties
    <3>2. QED
      BY <2>1, <2>2, <3>1 DEF RepTask
  <2>4. TaskTypes'
    BY <2>3 DEF TaskTypes
  <2>5. QED
    BY <1>4, <1>5, <2>1, <2>4, BookFrame
<1>10. CASE r.kind = "wrep"
  <2>1. /\ HandleTradeWithdrawRep(r.msg, r.item, r.ok)
        /\ task' = Idle /\ UNCHANGED <<asyncState, asyncResult, checkedAt>>
    BY <1>1, <1>10 DEF Take
  <2>2. r.ok \in BOOLEAN
    BY <1>2, <1>10, QueuedKinds DEF WithdrawReply
  <2>3. BookTypes' /\ Grown
    BY <1>5, <2>1, <2>2, WithdrawRepFacts
  <2>4. QED
    BY <1>4, <1>5, <1>6, <2>1, <2>3
<1>11. CASE r.kind = "knock"
  <2>1. OnTradeKnock(r) /\ task' = Idle /\ UNCHANGED <<asyncState, asyncResult, checkedAt>>
    BY <1>1, <1>11 DEF Take
  <2>2. BookTypes' /\ Grown
    BY <1>2, <1>5, <1>11, <2>1, KnockFacts, QueuedKinds
  <2>3. QED
    BY <1>4, <1>5, <1>6, <2>1, <2>2
<1>12. QED
  BY <1>2, <1>7, <1>8, <1>9, <1>10, <1>11, QueuedKinds

\* What no step of the thread inside a message touches.
LEMMA TypeInside ==
  ASSUME TypeInv, BookTypes', TaskTypes', UNCHANGED <<tradeQueue, checkedAt>>, Frame,
         asyncState' \in {"idle", "running", "done"}
  PROVE  TypeInv'
BY DEF TypeInv, Frame, truthVars, foreignVars

\* The check of a request, item by item, and what follows when it passes.
LEMMA TypeCheck ==
  ASSUME TypeInv, Check \/ Pass
  PROVE  TypeInv' /\ Grown
<1>1. task \in CheckTask
  BY TaskKinds DEF Check, Pass, TypeInv
<1>2. PICK m \in Own, i \in Nat \ {0} : m = task.msg /\ i = task.item
  BY <1>1 DEF CheckTask
<1>3. BookTypes /\ now \in Nat /\ m \in Messages /\ asyncState \in {"idle", "running", "done"}
  BY DEF TypeInv, Own
<1>4. UNCHANGED <<tradeQueue, checkedAt>> /\ Frame
  BY DEF Check, Pass
<1>5. asyncState' \in {"idle", "running", "done"}
  BY <1>3 DEF Check, Pass, Refuse, Answer
<1>6. BookTypes' /\ Grown
  <2>1. CASE Check
    <3>1. (i \in Items(m) /\ CheckItem(m, i)) \/ UNCHANGED riskerVars
      BY <1>2, <2>1 DEF Check
    <3>2. QED
      BY <1>3, <3>1, CheckItemFacts, BookFrame
  <2>2. CASE Pass
    <3>1. (i \in Items(m) /\ PassItem(m, i)) \/ UNCHANGED riskerVars
      BY <1>2, <2>2 DEF Pass
    <3>2. QED
      BY <1>3, <3>1, PassItemFacts, BookFrame
  <2>3. QED
    BY <2>1, <2>2
<1>7. TaskTypes'
  <2>1. \/ task' = Idle \/ task' = [task EXCEPT !.item = i + 1]
        \/ task' = [kind |-> "pass", msg |-> m, item |-> 1]
    BY <1>2 DEF Check, Pass
  <2>2. i + 1 \in Nat \ {0}
    OBVIOUS
  <2>3. [task EXCEPT !.item = i + 1] \in CheckTask
    BY <1>1, <2>2 DEF CheckTask
  <2>4. [kind |-> "pass", msg |-> m, item |-> 1] \in CheckTask
    BY DEF CheckTask
  <2>5. task' \in {Idle} \cup CheckTask
    BY <2>1, <2>3, <2>4
  <2>6. QED
    BY <2>5 DEF TaskTypes, Idle, CheckTask
<1>8. QED
  BY <1>4, <1>5, <1>6, <1>7, TypeInside

\* The reply of an order, item by item, and the knocks that came before it.
LEMMA TypeRep ==
  ASSUME TypeInv, HandleRep \/ ReplayKnock
  PROVE  TypeInv' /\ Grown
<1>1. BookTypes /\ now \in Nat /\ TaskTypes
      /\ UNCHANGED <<tradeQueue, asyncState, checkedAt>> /\ Frame
  BY DEF TypeInv, HandleRep, ReplayKnock
<1>2. asyncState' \in {"idle", "running", "done"}
  BY <1>1 DEF TypeInv
<1>3. ASSUME HandleRep PROVE BookTypes' /\ Grown /\ TaskTypes'
  <2>1. task \in RepTask /\ task.kind = "rep"
    BY <1>1, <1>3, TaskKinds DEF HandleRep
  <2>2. PICK m \in Messages, i \in Nat \ {0} : m = task.msg /\ i = task.item
    BY <2>1 DEF RepTask
  <2>3. /\ task.members \in Seq(Nat) /\ task.knocks \in Seq(Knock) /\ i + 1 \in Nat \ {0}
        /\ \A k \in DOMAIN task.members : task.members[k] \in DOMAIN orders
    BY <1>1, <2>1 DEF RepTask, TaskTypes
  <2>4. ASSUME task' = [task EXCEPT !.item = i + 1], Grown PROVE TaskTypes'
    <3>1. task' \in RepTask /\ task'.members = task.members
      BY <2>1, <2>3, <2>4 DEF RepTask
    <3>2. QED
      BY <2>3, <2>4, <3>1 DEF TaskTypes, Grown
  <2>5. CASE i \in Items(m) /\ ~Guards(m, i)
    BY <1>1, <1>3, <2>2, <2>4, <2>5, BookFrame DEF HandleRep
  <2>6. CASE i \in Items(m) /\ Guards(m, i) /\ i \notin task.accepted
    BY <1>1, <1>3, <2>2, <2>4, <2>6, RejectedFacts DEF HandleRep
  <2>7. CASE i \in Items(m) /\ Guards(m, i) /\ i \in task.accepted
    <3>1. PICK o : RegisterReply(m, i, o)
      BY <1>3, <2>2, <2>7 DEF HandleRep
    <3>2. RepItemKnown(m, i, o) \/ RepItemUnknown(m, i, o)
      BY <3>1 DEF RegisterReply
    <3>4. PICK n : n = <<m, i>>
      OBVIOUS
    <3>3. BookTypes' /\ Grown /\ o \in DOMAIN orders'
      BY <1>1, <2>7, <3>2, <3>4, RegisteredFacts
    <3>5. task' = [task EXCEPT
             !.item = i + 1,
             !.members = IF IsBatch(m) THEN Append(task.members, o) ELSE task.members,
             !.knocks = IF n \in DOMAIN early THEN early[n] ELSE task.knocks]
      BY <2>2, <3>1, <3>4 DEF RegisterReply
    <3>6. PICK s : s = IF IsBatch(m) THEN Append(task.members, o) ELSE task.members
      OBVIOUS
    <3>7. PICK e : e = IF n \in DOMAIN early THEN early[n] ELSE task.knocks
      OBVIOUS
    <3>8. o \in Nat /\ o \in DOMAIN orders'
      BY <3>3 DEF BookTypes
    <3>9. s \in Seq(Nat) /\ \A k \in DOMAIN s : s[k] \in DOMAIN orders'
      <4>1. PICK t : t = Append(task.members, o)
        OBVIOUS
      <4>2. PICK l : l = Len(task.members) + 1
        OBVIOUS
      <4>3. /\ t \in Seq(Nat) /\ DOMAIN t = DOMAIN task.members \cup {l} /\ t[l] = o
            /\ \A k \in DOMAIN task.members : t[k] = task.members[k]
        BY <2>3, <3>8, <4>1, <4>2, AppendFacts
      <4>4. DOMAIN orders \subseteq DOMAIN orders'
        BY <3>3 DEF Grown
      <4>5. s = t \/ s = task.members
        BY <3>6, <4>1
      <4>6. QED
        BY <2>3, <3>8, <4>3, <4>4, <4>5
    <3>10. e \in Seq(Knock)
      BY <1>1, <2>3, <3>7 DEF BookTypes
    <3>11. task' = [task EXCEPT !.item = i + 1, !.members = s, !.knocks = e]
      BY <3>5, <3>6, <3>7
    <3>12. task' \in RepTask /\ task'.members = s
      BY <2>1, <2>3, <3>9, <3>10, <3>11 DEF RepTask
    <3>13. QED
      BY <3>3, <3>9, <3>12 DEF TaskTypes
  <2>8. CASE i \notin Items(m)
    <3>1. /\ RegisterBatch(m, task.members)
          /\ task' = [kind |-> "knocks", rest |-> task.knocks]
      BY <1>3, <2>2, <2>8 DEF HandleRep
    <3>2. BookTypes' /\ Grown
      BY <1>1, <2>3, <3>1, BatchFacts
    <3>3. task' \in KnocksTask
      BY <2>3, <3>1 DEF KnocksTask
    <3>4. QED
      BY <3>2, <3>3 DEF TaskTypes, KnocksTask
  <2>9. QED
    BY <2>5, <2>6, <2>7, <2>8
<1>4. ASSUME ReplayKnock PROVE BookTypes' /\ Grown /\ TaskTypes'
  <2>1. task \in KnocksTask
    BY <1>1, <1>4, TaskKinds DEF ReplayKnock
  <2>2. task.rest \in Seq(Knock)
    BY <2>1 DEF KnocksTask
  <2>3. CASE task.rest = <<>>
    BY <1>1, <1>4, <2>3, BookFrame DEF ReplayKnock, TaskTypes, Idle
  <2>4. CASE task.rest # <<>>
    <3>1. OnTradeKnock(Head(task.rest)) /\ task' = [task EXCEPT !.rest = Tail(task.rest)]
      BY <1>4, <2>4 DEF ReplayKnock
    <3>2. Head(task.rest) \in Knock /\ Tail(task.rest) \in Seq(Knock)
      BY <2>2, <2>4, HeadTailProperties
    <3>3. BookTypes' /\ Grown
      BY <1>1, <3>1, <3>2, KnockFacts
    <3>4. task' \in KnocksTask
      BY <2>1, <3>1, <3>2 DEF KnocksTask
    <3>5. QED
      BY <3>3, <3>4 DEF TaskTypes, KnocksTask
  <2>5. QED
    BY <2>3, <2>4
<1>5. QED
  BY <1>1, <1>2, <1>3, <1>4, TypeInside

\* The initial state.
LEMMA TypeInvInit ==
  ASSUME Init
  PROVE  TypeInv
<1>2. <<>> \in Seq(Order) /\ <<>> \in Seq(Queued) /\ <<>> \in Seq(Messages) /\ DOMAIN <<>> = {}
  BY EmptySeq, LenProperties
<1>3. BookTypes
  BY <1>2 DEF Init, BookTypes
<1>4. TaskTypes
  BY DEF Init, TaskTypes, Idle
<1>5. \A n \in Numbers : n[1].items[n[2]].volume \in Nat
  BY NumberFacts DEF ItemType
<1>6. left \in [Numbers -> Nat] /\ life \in [Numbers -> {"none", "working", "ended"}]
  BY <1>5 DEF Init
<1>7. /\ verdict \in [Messages -> {"new", "checking", "passed", "refused"}]
      /\ checkedAt \in [Messages -> Nat]
      /\ withdrawal \in [Messages -> [state: {"none", "asked", "done"}, item: Nat]]
  BY DEF Init, NoWithdrawal
<1>8. now \in Nat /\ asyncState = "idle" /\ caller = Idle /\ tradeQueue = <<>>
      /\ repMemory = <<>> /\ returns = {}
  BY DEF Init
<1>9. QED
  BY <1>2, <1>3, <1>4, <1>6, <1>7, <1>8 DEF TypeInv

\* Every step keeps the types.
LEMMA TypeInvStep ==
  ASSUME TypeInv, [Next]_vars
  PROVE  TypeInv'
<1>2. CASE UNCHANGED vars
  <2>1. UNCHANGED <<now, riskerVars, task, tradeQueue, gatewayVars, truthVars, foreignVars>>
    BY <1>2 DEF vars
  <2>2. BookTypes' /\ TaskTypes'
    BY <2>1, BookFrame DEF TypeInv, TaskTypes, riskerVars
  <2>3. QED
    BY <2>1, <2>2 DEF TypeInv, gatewayVars, truthVars, foreignVars
<1>3. CASE RiskThread
  BY <1>3, TypeTake, TypeCheck, TypeRep, TypeMain DEF RiskThread
<1>4. CASE Surroundings
  BY <1>4, TypeGateway, TypeTruth, TypeMain DEF Surroundings
<1>5. QED
  BY <1>2, <1>3, <1>4 DEF Next

\* The types are those of the program, in every run: what the books, the maps of
\* numbers and batches and a reply half dealt with refer to are objects that exist
\* (risker/common/order_book.cc, anti_self_knock_risker.cc, risk_master.cc).
THEOREM RiskTypeCorrect == Spec => []TypeOK
<1>1. TypeInv => TypeOK
  BY DEF TypeInv, BookTypes, TypeOK, Queued
<1>2. QED
  BY <1>1, TypeInvInit, TypeInvStep, PTL DEF Spec

-----------------------------------------------------------------------------
(* The handshake. *)

\* The elements of a sequence without its first one.
LEMMA TailFacts ==
  ASSUME NEW S, NEW s \in Seq(S), s # <<>>
  PROVE  \E n \in Nat \ {0} :
           /\ DOMAIN s = 1 .. n /\ DOMAIN Tail(s) = 1 .. n - 1 /\ Head(s) = s[1] /\ 1 \in DOMAIN s
           /\ Head(s) \in S /\ Tail(s) \in Seq(S)
           /\ \A k \in 1 .. n - 1 : k + 1 \in 1 .. n /\ Tail(s)[k] = s[k + 1]
<1>1. PICK n \in Nat \ {0} : n = Len(s)
  BY EmptySeq, LenProperties
<1>2. /\ Tail(s) \in Seq(S) /\ Len(Tail(s)) = n - 1 /\ Head(s) = s[1] /\ Head(s) \in S
      /\ \A k \in 1 .. n - 1 : Tail(s)[k] = s[k + 1]
  BY <1>1, HeadTailProperties
<1>3. DOMAIN s = 1 .. n /\ DOMAIN Tail(s) = 1 .. n - 1
  BY <1>1, <1>2, LenProperties
<1>4. 1 \in 1 .. n /\ \A k \in 1 .. n - 1 : k + 1 \in 1 .. n
  BY <1>1
<1>5. QED
  BY <1>1, <1>2, <1>3, <1>4

\* The requests of the gateway thread that wait in the queue.
Asked == {k \in DOMAIN tradeQueue : tradeQueue[k].kind \in {"order", "withdraw"}}

\* The request of the gateway thread is in one place.
OneRequest ==
  /\ caller # Idle <=> asyncState # "idle"
  /\ task.kind \in {"check", "pass"} =>
       asyncState = "running" /\ caller = [kind |-> "order", msg |-> task.msg]
  /\ IF asyncState = "running" /\ task.kind \notin {"check", "pass"}
     THEN \E k \in DOMAIN tradeQueue : Asked = {k}
     ELSE Asked = {}
  /\ \A k \in Asked : tradeQueue[k] = caller

\* Replies are those of messages that were let through or refused.
Settled(m) == m \in replied /\ verdict[m] \in {"passed", "refused"}
RepliesSettled ==
  /\ replied \subseteq Messages
  /\ \A m \in replied : verdict[m] \in {"passed", "refused"}
  /\ \A r \in returns : r.kind = "rep" => r.msg \in replied
  /\ \A k \in DOMAIN tradeQueue : tradeQueue[k].kind = "rep" => tradeQueue[k].msg \in replied
  /\ task.kind = "rep" => task.msg \in replied

\* The request was let through, or is about to be.
Passing == task.kind = "pass" \/ (asyncState = "done" /\ asyncResult = "")
Listed(m) == \E o \in book : orders[o].msg = m
\* A request has objects only when it has passed, and then for what is guarded.
ObjectsPassed ==
  /\ caller.kind = "order" => verdict[caller.msg] = "checking" /\ caller.msg \in Own
  /\ \A o \in DOMAIN orders :
       \/ verdict[orders[o].msg] \in {"passed", "refused"}
       \/ caller.kind = "order" /\ orders[o].msg = caller.msg /\ Passing
  /\ task.kind = "pass" =>
       \A i \in Items(task.msg) : i < task.item /\ Guards(task.msg, i) => Listed(task.msg)
  /\ caller.kind = "order" /\ asyncState = "done" /\ asyncResult = "" =>
       \A i \in Items(caller.msg) : Guards(caller.msg, i) => Listed(caller.msg)

HandInv == OneRequest /\ RepliesSettled /\ ObjectsPassed

\* The kinds of requests.
LEMMA CallerKinds ==
  ASSUME TypeInv
  PROVE  /\ caller.kind = "order" => caller \in OrderRequest /\ caller.msg \in Messages
         /\ caller.kind = "withdraw" => caller \in WithdrawRequest
         /\ caller.kind \in {"idle", "order", "withdraw"}
         /\ caller = Idle <=> caller.kind = "idle"
BY DEF TypeInv, Idle, OrderRequest, WithdrawRequest

\* One message more in the queue, one less.
LEMMA AskedPut ==
  ASSUME TypeInv, NEW r \in Queued, tradeQueue' = Append(tradeQueue, r)
  PROVE  \E n : /\ n \notin DOMAIN tradeQueue /\ DOMAIN tradeQueue' = DOMAIN tradeQueue \cup {n}
                /\ tradeQueue'[n] = r /\ \A k \in DOMAIN tradeQueue : tradeQueue'[k] = tradeQueue[k]
                /\ Asked' = IF r.kind \in {"order", "withdraw"} THEN Asked \cup {n} ELSE Asked
                /\ Asked \subseteq DOMAIN tradeQueue
<1>1. tradeQueue \in Seq(Queued)
  BY DEF TypeInv
<1>2. PICK n : n = Len(tradeQueue) + 1
  OBVIOUS
<1>3. /\ n \notin DOMAIN tradeQueue /\ DOMAIN tradeQueue' = DOMAIN tradeQueue \cup {n}
      /\ tradeQueue'[n] = r /\ \A k \in DOMAIN tradeQueue : tradeQueue'[k] = tradeQueue[k]
  BY <1>1, <1>2, AppendFacts
<1>4. Asked' = IF r.kind \in {"order", "withdraw"} THEN Asked \cup {n} ELSE Asked
  BY <1>3 DEF Asked
<1>5. QED
  BY <1>3, <1>4 DEF Asked

LEMMA AskedTaken ==
  ASSUME TypeInv, tradeQueue # <<>>, tradeQueue' = Tail(tradeQueue)
  PROVE  \E n \in Nat \ {0} :
           /\ DOMAIN tradeQueue = 1 .. n /\ DOMAIN tradeQueue' = 1 .. n - 1
           /\ Head(tradeQueue) = tradeQueue[1]
           /\ 1 \in Asked <=> Head(tradeQueue).kind \in {"order", "withdraw"}
           /\ \A k \in DOMAIN tradeQueue' :
                k + 1 \in DOMAIN tradeQueue /\ tradeQueue'[k] = tradeQueue[k + 1]
           /\ \A k \in Asked' : k + 1 \in Asked /\ k + 1 # 1
           /\ \A k \in Asked : k # 1 => k - 1 \in Asked' /\ (k - 1) + 1 = k
<1>1. tradeQueue \in Seq(Queued)
  BY DEF TypeInv
<1>2. PICK n \in Nat \ {0} :
           /\ DOMAIN tradeQueue = 1 .. n /\ DOMAIN Tail(tradeQueue) = 1 .. n - 1
           /\ Head(tradeQueue) = tradeQueue[1] /\ 1 \in DOMAIN tradeQueue
           /\ \A k \in 1 .. n - 1 : k + 1 \in 1 .. n /\ Tail(tradeQueue)[k] = tradeQueue[k + 1]
  BY <1>1, TailFacts
<1>3. /\ DOMAIN tradeQueue' = 1 .. n - 1
      /\ \A k \in DOMAIN tradeQueue' :
           k + 1 \in DOMAIN tradeQueue /\ tradeQueue'[k] = tradeQueue[k + 1]
  BY <1>2
<1>4. 1 \in Asked <=> Head(tradeQueue).kind \in {"order", "withdraw"}
  BY <1>2 DEF Asked
<1>5. \A k \in Asked' : k + 1 \in Asked /\ k + 1 # 1
  BY <1>3 DEF Asked
<1>6. ASSUME NEW k \in Asked, k # 1 PROVE k - 1 \in Asked' /\ (k - 1) + 1 = k
  <2>1. k \in 1 .. n /\ tradeQueue[k].kind \in {"order", "withdraw"}
    BY <1>2 DEF Asked
  <2>2. k - 1 \in 1 .. n - 1 /\ (k - 1) + 1 = k
    BY <1>2, <1>6, <2>1
  <2>3. tradeQueue'[k - 1] = tradeQueue[k] /\ k - 1 \in DOMAIN tradeQueue'
    BY <1>3, <2>2
  <2>4. QED
    BY <2>1, <2>2, <2>3 DEF Asked
<1>7. QED
  BY <1>2, <1>3, <1>4, <1>5, <1>6

\* The queue without its head, where that is a request and where it is not.
LEMMA RequestTaken ==
  ASSUME TypeInv, OneRequest, tradeQueue # <<>>, tradeQueue' = Tail(tradeQueue),
         Head(tradeQueue).kind \in {"order", "withdraw"}
  PROVE  Asked' = {} /\ Head(tradeQueue) = caller /\ asyncState = "running"
<1>1. PICK n \in Nat \ {0} :
           /\ Head(tradeQueue) = tradeQueue[1] /\ 1 \in Asked
           /\ \A k \in Asked' : k + 1 \in Asked /\ k + 1 # 1
  BY AskedTaken
<1>2. Asked # {} /\ asyncState = "running" /\ tradeQueue[1] = caller
  BY <1>1 DEF OneRequest
<1>3. PICK k \in DOMAIN tradeQueue : Asked = {k}
  BY <1>2 DEF OneRequest
<1>4. Asked = {1}
  BY <1>1, <1>3
<1>5. Asked' = {}
  BY <1>1, <1>4
<1>6. QED
  BY <1>1, <1>2, <1>5

LEMMA OtherTaken ==
  ASSUME TypeInv, OneRequest, tradeQueue # <<>>, tradeQueue' = Tail(tradeQueue),
         Head(tradeQueue).kind \notin {"order", "withdraw"},
         UNCHANGED <<caller, asyncState>>,
         task.kind \notin {"check", "pass"}, task'.kind \notin {"check", "pass"}
  PROVE  OneRequest'
<1>1. PICK n \in Nat \ {0} :
           /\ DOMAIN tradeQueue = 1 .. n /\ DOMAIN tradeQueue' = 1 .. n - 1
           /\ \A k \in DOMAIN tradeQueue' :
                k + 1 \in DOMAIN tradeQueue /\ tradeQueue'[k] = tradeQueue[k + 1]
           /\ 1 \notin Asked
           /\ \A k \in Asked' : k + 1 \in Asked /\ k + 1 # 1
           /\ \A k \in Asked : k # 1 => k - 1 \in Asked' /\ (k - 1) + 1 = k
  BY AskedTaken
<1>2. \A k \in Asked' : k \in DOMAIN tradeQueue' /\ k \in Nat
  BY <1>1 DEF Asked
<1>3. \A k \in Asked' : tradeQueue'[k] = caller
  BY <1>1, <1>2 DEF OneRequest
<1>4. CASE asyncState = "running"
  <2>1. PICK k \in DOMAIN tradeQueue : Asked = {k}
    BY <1>4 DEF OneRequest
  <2>2. k \in Nat /\ k # 1 /\ k - 1 \in Asked'
    BY <1>1, <2>1
  <2>3. \A l \in Asked' : l = k - 1
    BY <1>1, <1>2, <2>1, <2>2
  <2>4. Asked' = {k - 1} /\ k - 1 \in DOMAIN tradeQueue'
    BY <1>2, <2>2, <2>3
  <2>5. \E l \in DOMAIN tradeQueue' : Asked' = {l}
    BY <2>4
  <2>6. QED
    BY <1>3, <1>4, <2>5 DEF OneRequest
<1>5. CASE asyncState # "running"
  <2>1. Asked = {}
    BY <1>5 DEF OneRequest
  <2>2. Asked' = {}
    BY <1>1, <2>1
  <2>3. QED
    BY <1>3, <1>5, <2>2 DEF OneRequest
<1>6. QED
  BY <1>4, <1>5

\* The gateway thread asks and is answered.
LEMMA HandRequest ==
  ASSUME TypeInv, HandInv, task = Idle, NEW m \in Messages, NEW i \in Nat,
         Request(m) \/ RequestWithdraw(m, i)
  PROVE  HandInv'
<1>1. PICK r \in Queued : /\ r.kind \in {"order", "withdraw"} /\ caller' = r /\ r # Idle
                          /\ tradeQueue' = Append(tradeQueue, r)
                          /\ r.kind = "order" => Request(m) /\ r.msg = m
                          /\ r.kind = "withdraw" => RequestWithdraw(m, i)
  <2>1. CASE Request(m)
    <3>1. PICK r : r = [kind |-> "order", msg |-> m]
      OBVIOUS
    <3>2. r \in Queued /\ r # Idle /\ r.kind = "order" /\ r.msg = m
      BY <3>1 DEF Queued, OrderRequest, Idle
    <3>3. caller' = r /\ tradeQueue' = Append(tradeQueue, r)
      BY <2>1, <3>1 DEF Request
    <3>4. QED
      BY <2>1, <3>2, <3>3
  <2>2. CASE RequestWithdraw(m, i)
    <3>1. PICK r : r = [kind |-> "withdraw", msg |-> m, item |-> i]
      OBVIOUS
    <3>2. r \in Queued /\ r # Idle /\ r.kind = "withdraw"
      BY <3>1 DEF Queued, WithdrawRequest, Idle
    <3>3. caller' = r /\ tradeQueue' = Append(tradeQueue, r)
      BY <2>2, <3>1 DEF RequestWithdraw
    <3>4. QED
      BY <2>2, <3>2, <3>3
  <2>3. QED
    BY <2>1, <2>2
<1>2. /\ asyncState = "idle" /\ caller = Idle /\ asyncState' = "running"
      /\ UNCHANGED <<riskerVars, task, returns, replied>> /\ task.kind = "idle"
  BY DEF Request, RequestWithdraw, truthVars, Idle
<1>3. PICK n :
        /\ n \notin DOMAIN tradeQueue /\ DOMAIN tradeQueue' = DOMAIN tradeQueue \cup {n}
        /\ tradeQueue'[n] = r /\ \A k \in DOMAIN tradeQueue : tradeQueue'[k] = tradeQueue[k]
        /\ Asked' = Asked \cup {n}
  BY <1>1, AskedPut
<1>4. OneRequest'
  <2>1. Asked = {}
    BY <1>2 DEF HandInv, OneRequest
  <2>2. Asked' = {n} /\ n \in DOMAIN tradeQueue' /\ tradeQueue'[n] = caller'
    BY <1>1, <1>3, <2>1
  <2>3. \E k \in DOMAIN tradeQueue' : Asked' = {k}
    BY <2>2
  <2>4. QED
    BY <1>1, <1>2, <2>2, <2>3 DEF OneRequest
<1>5. \A b \in Messages : verdict[b] \in {"passed", "refused"} => verdict'[b] = verdict[b]
  BY DEF Request, RequestWithdraw, TypeInv
<1>6. RepliesSettled'
  <2>1. \A b \in replied : verdict'[b] \in {"passed", "refused"}
    BY <1>5 DEF HandInv, RepliesSettled
  <2>2. \A k \in DOMAIN tradeQueue' : tradeQueue'[k].kind = "rep" => tradeQueue'[k].msg \in replied
    BY <1>1, <1>3 DEF HandInv, RepliesSettled
  <2>3. QED
    BY <1>2, <2>1, <2>2 DEF HandInv, RepliesSettled
<1>7. \A o \in DOMAIN orders : orders[o].msg \in Messages
  BY ObjectFacts DEF TypeInv
<1>8. \A o \in DOMAIN orders' : verdict'[orders'[o].msg] \in {"passed", "refused"}
  BY <1>2, <1>5, <1>7 DEF riskerVars, HandInv, ObjectsPassed, Idle
<1>9. caller'.kind = "order" => verdict'[caller'.msg] = "checking" /\ caller'.msg \in Own
  BY <1>1 DEF Request, TypeInv
<1>10. ObjectsPassed'
  BY <1>2, <1>8, <1>9 DEF ObjectsPassed
<1>11. QED
  BY <1>4, <1>6, <1>10 DEF HandInv

LEMMA HandCollect ==
  ASSUME TypeInv, HandInv, task = Idle, Collect \/ CollectWithdraw
  PROVE  HandInv'
<1>1. /\ asyncState = "done" /\ asyncState' = "idle" /\ caller' = Idle
      /\ UNCHANGED <<riskerVars, task, tradeQueue>> /\ task.kind = "idle"
      /\ caller.kind \in {"order", "withdraw"}
  BY DEF Collect, CollectWithdraw, Idle
<1>2. OneRequest'
  <2>1. Asked = {} /\ Asked' = Asked
    BY <1>1 DEF HandInv, OneRequest, Asked
  <2>2. QED
    BY <1>1, <2>1 DEF OneRequest, Idle
<1>3. \A o \in DOMAIN orders : orders[o].msg \in Messages
  BY ObjectFacts DEF TypeInv
<1>4. CASE Collect
  <2>1. PICK m \in Messages : m = caller.msg /\ caller.kind = "order"
    BY <1>4, CallerKinds DEF Collect
  <2>2. \/ verdict' = [verdict EXCEPT ![m] = "passed"] /\ UNCHANGED <<returns, replied>>
        \/ /\ verdict' = [verdict EXCEPT ![m] = "refused"] /\ replied' = replied \cup {m}
           /\ returns' = returns \cup {[kind |-> "rep", msg |-> m, accepted |-> {}]}
    BY <1>4, <2>1 DEF Collect
  <2>3. /\ verdict'[m] \in {"passed", "refused"}
        /\ \A b \in Messages : b # m => verdict'[b] = verdict[b]
    BY <2>2 DEF TypeInv
  <2>4. RepliesSettled'
    <3>1. replied' \subseteq Messages /\ replied \subseteq replied'
      BY <2>2 DEF HandInv, RepliesSettled
    <3>2. \A b \in replied' : verdict'[b] \in {"passed", "refused"}
      BY <2>2, <2>3, <3>1 DEF HandInv, RepliesSettled
    <3>3. \A r \in returns' : r.kind = "rep" => r.msg \in replied'
      BY <2>2 DEF HandInv, RepliesSettled
    <3>4. QED
      BY <1>1, <3>1, <3>2, <3>3 DEF HandInv, RepliesSettled
  <2>5. \A o \in DOMAIN orders : verdict'[orders[o].msg] \in {"passed", "refused"}
    BY <1>3, <2>1, <2>3 DEF HandInv, ObjectsPassed
  <2>6. ObjectsPassed'
    BY <1>1, <2>5 DEF ObjectsPassed, riskerVars, Idle
  <2>7. QED
    BY <1>2, <2>4, <2>6 DEF HandInv
<1>5. CASE CollectWithdraw
  <2>1. UNCHANGED <<verdict, returns, replied>> /\ caller.kind = "withdraw"
    BY <1>5 DEF CollectWithdraw
  <2>2. RepliesSettled'
    BY <1>1, <2>1 DEF HandInv, RepliesSettled
  <2>3. ObjectsPassed'
    BY <1>1, <2>1 DEF HandInv, ObjectsPassed, riskerVars, Idle
  <2>4. QED
    BY <1>2, <2>2, <2>3 DEF HandInv
<1>6. QED
  BY <1>4, <1>5

\* Nothing of the handshake is touched.
LEMMA HandFrame ==
  ASSUME HandInv, UNCHANGED <<orders, book, task, caller, asyncState, asyncResult>>,
         RepliesSettled', OneRequest', UNCHANGED verdict
  PROVE  HandInv'
BY DEF HandInv, ObjectsPassed, Passing, Listed

LEMMA OneRequestFrame ==
  ASSUME OneRequest, UNCHANGED <<tradeQueue, task, caller, asyncState>>
  PROVE  OneRequest'
<1>1. Asked' = Asked
  BY DEF Asked
<1>2. QED
  BY <1>1 DEF OneRequest

\* Counter and exchange.
LEMMA HandTruth ==
  ASSUME TypeInv, HandInv,
         \/ \E m \in Messages :
              \/ ForeignOrder(m)
              \/ \E accepted \in SUBSET Items(m) : CounterReply(m, accepted)
              \/ \E ok \in BOOLEAN : Withdraw(m, ok)
         \/ \E n \in Numbers :
              \/ \E v \in 1 .. left[n] : Trade(n, v)
              \/ \E type \in {"withdrawn", "failed"} : End(n, type)
  PROVE  HandInv'
<1>1. /\ UNCHANGED <<orders, book, task, caller, asyncState, asyncResult, tradeQueue>>
  <2>1. ASSUME NEW m \in Messages, ForeignOrder(m) \/ \E accepted \in SUBSET Items(m) : CounterReply(m, accepted)
        PROVE  UNCHANGED <<orders, book, task, caller, asyncState, asyncResult, tradeQueue>>
    BY <2>1 DEF ForeignOrder, CounterReply, riskerVars, gatewayVars
  <2>2. ASSUME NEW m \in Messages, NEW ok \in BOOLEAN, Withdraw(m, ok)
        PROVE  UNCHANGED <<orders, book, task, caller, asyncState, asyncResult, tradeQueue>>
    BY <2>2 DEF Withdraw, riskerVars, gatewayVars
  <2>3. ASSUME NEW n \in Numbers, \E v \in 1 .. left[n] : Trade(n, v)
        PROVE  UNCHANGED <<orders, book, task, caller, asyncState, asyncResult, tradeQueue>>
    BY <2>3 DEF Trade, riskerVars, gatewayVars
  <2>4. ASSUME NEW n \in Numbers, \E type \in {"withdrawn", "failed"} : End(n, type)
        PROVE  UNCHANGED <<orders, book, task, caller, asyncState, asyncResult, tradeQueue>>
    BY <2>4 DEF End, riskerVars, gatewayVars
  <2>5. QED
    BY <2>1, <2>2, <2>3, <2>4
<1>2. OneRequest'
  BY <1>1, OneRequestFrame DEF HandInv
<1>3. ASSUME replied' = replied, verdict' = verdict,
             \A r \in returns' : r \in returns \/ r.kind # "rep"
      PROVE  HandInv'
  <2>1. RepliesSettled'
    BY <1>1, <1>3 DEF HandInv, RepliesSettled
  <2>2. QED
    BY <1>1, <1>2, <1>3, <2>1, HandFrame
<1>4. ASSUME NEW m \in Messages, ForeignOrder(m) PROVE HandInv'
  <2>1. /\ m \notin Own /\ verdict' = [verdict EXCEPT ![m] = "passed"]
        /\ replied' = replied \cup {m} /\ returns' = returns
    BY <1>4 DEF ForeignOrder
  <2>2. /\ verdict'[m] = "passed" /\ \A b \in Messages : b # m => verdict'[b] = verdict[b]
    BY <2>1 DEF TypeInv
  <2>3. RepliesSettled'
    BY <1>1, <2>1, <2>2 DEF HandInv, RepliesSettled
  <2>4. caller.kind = "order" => caller.msg \in Own /\ caller.msg \in Messages
    BY DEF HandInv, ObjectsPassed, Own
  <2>5. \A o \in DOMAIN orders : orders[o].msg \in Messages
    BY ObjectFacts DEF TypeInv
  <2>6. caller.kind = "order" => verdict'[caller.msg] = "checking"
    BY <2>1, <2>2, <2>4 DEF HandInv, ObjectsPassed
  <2>7. \A o \in DOMAIN orders :
          \/ verdict'[orders[o].msg] \in {"passed", "refused"}
          \/ caller.kind = "order" /\ orders[o].msg = caller.msg /\ Passing
    BY <2>1, <2>2, <2>5 DEF HandInv, ObjectsPassed
  <2>8. ObjectsPassed'
    BY <1>1, <2>4, <2>6, <2>7 DEF HandInv, ObjectsPassed, Passing, Listed
  <2>9. QED
    BY <1>2, <2>3, <2>8 DEF HandInv
<1>5. ASSUME NEW m \in Messages, NEW accepted \in SUBSET Items(m), CounterReply(m, accepted)
      PROVE  HandInv'
  <2>1. /\ verdict[m] = "passed" /\ replied' = replied \cup {m} /\ verdict' = verdict
        /\ returns' = returns \cup {[kind |-> "rep", msg |-> m, accepted |-> accepted]}
    BY <1>5 DEF CounterReply, gatewayVars
  <2>2. RepliesSettled'
    <3>1. replied' \subseteq Messages /\ \A b \in replied' : verdict'[b] \in {"passed", "refused"}
      BY <2>1 DEF HandInv, RepliesSettled
    <3>2. \A r \in returns' : r.kind = "rep" => r.msg \in replied'
      BY <2>1 DEF HandInv, RepliesSettled
    <3>3. QED
      BY <1>1, <2>1, <3>1, <3>2 DEF HandInv, RepliesSettled
  <2>3. QED
    BY <1>1, <1>2, <2>1, <2>2, HandFrame
<1>6. ASSUME NEW m \in Messages, NEW ok \in BOOLEAN, Withdraw(m, ok) PROVE HandInv'
  <2>1. replied' = replied /\ verdict' = verdict
    BY <1>6 DEF Withdraw, gatewayVars
  <2>2. \A r \in returns' : r \in returns \/ r.kind # "rep"
    <3>1. PICK i : i = withdrawal[m].item
      OBVIOUS
    <3>2. PICK hit : hit = {n \in NumbersOf(m) : life[n] = "working" /\ (i = 0 \/ n = <<m, i>>)}
      OBVIOUS
    <3>3. returns' = returns
             \cup {[kind |-> "wrep", msg |-> m, item |-> i, ok |-> ok]}
             \cup (IF ok THEN {[kind |-> "knock", number |-> n, type |-> "withdrawn",
                                volume |-> left[n], left |-> left[n]] : n \in hit} ELSE {})
      BY <1>6, <3>1, <3>2 DEF Withdraw
    <3>4. QED
      BY <3>3
  <2>3. QED
    BY <1>3, <2>1, <2>2
<1>7. ASSUME NEW n \in Numbers, NEW v \in 1 .. left[n], Trade(n, v) PROVE HandInv'
  BY <1>3, <1>7 DEF Trade, gatewayVars
<1>8. ASSUME NEW n \in Numbers, NEW type \in {"withdrawn", "failed"}, End(n, type) PROVE HandInv'
  BY <1>3, <1>8 DEF End, gatewayVars
<1>9. QED
  BY <1>4, <1>5, <1>6, <1>7, <1>8

\* Deliveries, time and the reader of the reply memory.
LEMMA HandMain ==
  ASSUME TypeInv, HandInv, task = Idle, Tick \/ (\E r \in returns : Deliver(r)) \/ ReadRep
  PROVE  HandInv'
<1>1. CASE Tick \/ ReadRep
  <2>1. UNCHANGED <<orders, book, task, caller, asyncState, asyncResult, tradeQueue, verdict,
                    replied, returns>>
    BY <1>1 DEF Tick, ReadRep, riskerVars, gatewayVars, truthVars
  <2>2. RepliesSettled'
    BY <2>1 DEF HandInv, RepliesSettled
  <2>3. QED
    BY <2>1, <2>2, OneRequestFrame, HandFrame DEF HandInv
<1>2. ASSUME NEW r \in returns, Deliver(r) PROVE HandInv'
  <2>1. /\ UNCHANGED <<orders, book, task, caller, asyncState, asyncResult, verdict, replied>>
        /\ tradeQueue' = Append(tradeQueue, r) /\ returns' \subseteq returns
    BY <1>2 DEF Deliver, riskerVars, gatewayVars
  <2>2. r \in Queued /\ r.kind \notin {"order", "withdraw"}
    BY DEF TypeInv, Queued, Returns, Reply, WithdrawReply, Knock
  <2>3. PICK n :
          /\ n \notin DOMAIN tradeQueue /\ DOMAIN tradeQueue' = DOMAIN tradeQueue \cup {n}
          /\ tradeQueue'[n] = r /\ \A k \in DOMAIN tradeQueue : tradeQueue'[k] = tradeQueue[k]
          /\ Asked' = Asked /\ Asked \subseteq DOMAIN tradeQueue
    BY <2>1, <2>2, AskedPut
  <2>4. OneRequest'
    BY <2>1, <2>3 DEF HandInv, OneRequest
  <2>5. RepliesSettled'
    BY <2>1, <2>3 DEF HandInv, RepliesSettled
  <2>6. QED
    BY <2>1, <2>4, <2>5, HandFrame
<1>3. QED
  BY <1>1, <1>2

\* The risk thread takes a message: the request, or something else.
LEMMA HandTake ==
  ASSUME TypeInv, HandInv, Take
  PROVE  HandInv'
<1>1. PICK r \in Queued : r = Head(tradeQueue)
  BY QueueTaken DEF Take
<1>2. /\ task.kind = "idle" /\ tradeQueue # <<>> /\ tradeQueue' = Tail(tradeQueue)
      /\ UNCHANGED <<caller, verdict, returns, replied>>
  BY DEF Take, Frame, truthVars, Idle
<1>3. Grown /\ BookTypes
  BY TypeTake DEF TypeInv
<1>4. PICK n \in Nat \ {0} :
           /\ Head(tradeQueue) = tradeQueue[1] /\ 1 \in DOMAIN tradeQueue
           /\ \A k \in DOMAIN tradeQueue' :
                k + 1 \in DOMAIN tradeQueue /\ tradeQueue'[k] = tradeQueue[k + 1]
  BY <1>2, AskedTaken DEF Asked
<1>5. ASSUME task'.kind = "rep" => r.kind = "rep" /\ task'.msg = r.msg PROVE RepliesSettled'
  <2>1. \A k \in DOMAIN tradeQueue' : tradeQueue'[k].kind = "rep" => tradeQueue'[k].msg \in replied
    BY <1>4 DEF HandInv, RepliesSettled
  <2>2. r.kind = "rep" => r.msg \in replied
    BY <1>1, <1>4 DEF HandInv, RepliesSettled
  <2>3. QED
    BY <1>2, <1>5, <2>1, <2>2 DEF HandInv, RepliesSettled
<1>6. CASE r.kind = "order"
  <2>1. /\ task' = [kind |-> "check", msg |-> r.msg, item |-> 1]
        /\ UNCHANGED <<riskerVars, asyncState, asyncResult>>
    BY <1>1, <1>6 DEF Take
  <2>2. Asked' = {} /\ r = caller /\ asyncState = "running"
    BY <1>1, <1>2, <1>6, RequestTaken DEF HandInv
  <2>3. caller = [kind |-> "order", msg |-> r.msg]
    BY <1>6, <2>2, CallerKinds DEF OrderRequest
  <2>4. OneRequest'
    BY <1>2, <2>1, <2>2, <2>3 DEF HandInv, OneRequest
  <2>5. RepliesSettled'
    BY <1>5, <2>1
  <2>6. ~Passing
    BY <1>2, <2>2 DEF Passing
  <2>7. ObjectsPassed'
    BY <1>2, <2>1, <2>2, <2>6 DEF HandInv, ObjectsPassed, Passing, riskerVars
  <2>8. QED
    BY <2>4, <2>5, <2>7 DEF HandInv
<1>7. CASE r.kind = "withdraw"
  <2>1. HandleTradeWithdrawReq(r.msg, r.item) /\ asyncState' = "done" /\ task' = Idle
    BY <1>1, <1>7 DEF Take, Answer
  <2>2. Asked' = {} /\ r = caller /\ asyncState = "running"
    BY <1>1, <1>2, <1>7, RequestTaken DEF HandInv
  <2>3. OneRequest'
    BY <1>2, <2>1, <2>2 DEF HandInv, OneRequest, Idle
  <2>4. RepliesSettled'
    BY <1>5, <2>1 DEF Idle
  <2>5. DOMAIN orders' = DOMAIN orders
    BY <2>1, WithdrawReqFacts, <1>3 DEF TypeInv
  <2>6. caller.kind = "withdraw" /\ caller' = caller /\ task'.kind = "idle"
    BY <1>2, <1>7, <2>1, <2>2 DEF Idle
  <2>7. \A o \in DOMAIN orders' : orders'[o].msg = orders[o].msg
    BY <1>3, <2>5 DEF Grown, Like
  <2>8. ObjectsPassed'
    BY <1>2, <2>5, <2>6, <2>7 DEF HandInv, ObjectsPassed
  <2>9. QED
    BY <2>3, <2>4, <2>8 DEF HandInv
<1>8. CASE r.kind \in {"rep", "wrep", "knock"}
  <2>1. /\ asyncState' = asyncState /\ asyncResult' = asyncResult
        /\ task'.kind \in {"idle", "rep"}
        /\ task'.kind = "rep" => r.kind = "rep" /\ task'.msg = r.msg
    <3>1. UNCHANGED <<asyncState, asyncResult>>
      BY <1>1, <1>8 DEF Take
    <3>2. CASE r.kind = "rep"
      <4>1. task' = [kind |-> "rep", msg |-> r.msg, item |-> 1, accepted |-> r.accepted,
                     members |-> <<>>, knocks |-> <<>>]
        BY <1>1, <3>2 DEF Take
      <4>2. task'.kind = "rep" /\ task'.msg = r.msg
        BY <4>1
      <4>3. QED
        BY <3>1, <3>2, <4>2
    <3>3. CASE r.kind # "rep"
      <4>1. task' = Idle
        BY <1>1, <1>8, <3>3 DEF Take
      <4>2. QED
        BY <3>1, <4>1 DEF Idle
    <3>4. QED
      BY <3>2, <3>3
  <2>2. OneRequest'
    <3>1. task.kind \notin {"check", "pass"} /\ task'.kind \notin {"check", "pass"}
      BY <1>2, <2>1
    <3>2. Head(tradeQueue).kind \notin {"order", "withdraw"}
      BY <1>1, <1>8
    <3>3. QED
      BY <1>2, <2>1, <3>1, <3>2, OtherTaken DEF HandInv
  <2>3. RepliesSettled'
    BY <1>5, <2>1
  <2>4. book' = book /\ DOMAIN orders' = DOMAIN orders
    <3>1. CASE r.kind = "rep"
      BY <1>1, <3>1 DEF Take, riskerVars
    <3>2. CASE r.kind = "wrep"
      <4>1. HandleTradeWithdrawRep(r.msg, r.item, r.ok) /\ r.ok \in BOOLEAN
        BY <1>1, <3>2, QueuedKinds DEF Take, WithdrawReply
      <4>2. QED
        BY <1>3, <4>1, WithdrawRepFacts DEF TypeInv
    <3>3. CASE r.kind = "knock"
      <4>1. OnTradeKnock(r) /\ r \in Knock
        BY <1>1, <3>3, QueuedKinds DEF Take
      <4>2. QED
        BY <1>3, <4>1, KnockFacts
    <3>4. QED
      BY <1>8, <3>1, <3>2, <3>3
  <2>5. \A o \in DOMAIN orders' : orders'[o].msg = orders[o].msg
    BY <1>3, <2>4 DEF Grown, Like
  <2>6. task'.kind # "pass" /\ task.kind # "pass"
    BY <1>2, <2>1
  <2>7. book \subseteq DOMAIN orders
    BY <1>3 DEF BookTypes
  <2>8. \A m : Listed(m) => \E o \in book' : orders'[o].msg = m
    BY <2>4, <2>5, <2>7 DEF Listed
  <2>9. ObjectsPassed'
    <3>1. \A o \in DOMAIN orders' :
            \/ verdict[orders'[o].msg] \in {"passed", "refused"}
            \/ /\ caller.kind = "order" /\ orders'[o].msg = caller.msg
               /\ asyncState = "done" /\ asyncResult = ""
      BY <2>4, <2>5, <2>6 DEF HandInv, ObjectsPassed, Passing
    <3>2. caller.kind = "order" /\ asyncState = "done" /\ asyncResult = "" =>
            \A i \in Items(caller.msg) : Guards(caller.msg, i) =>
              \E o \in book' : orders'[o].msg = caller.msg
      BY <2>8 DEF HandInv, ObjectsPassed
    <3>3. QED
      BY <1>2, <2>1, <2>6, <3>1, <3>2 DEF HandInv, ObjectsPassed, Passing, Listed
  <2>10. QED
    BY <2>2, <2>3, <2>9 DEF HandInv
<1>9. QED
  BY <1>6, <1>7, <1>8, QueuedKinds

\* The check of the request: no object of it is made.
LEMMA HandCheck ==
  ASSUME TypeInv, HandInv, Check
  PROVE  HandInv'
<1>1. PICK m \in Messages, i \in Nat \ {0} : m = task.msg /\ i = task.item
  BY TaskKinds DEF Check, TypeInv, CheckTask, Own
<1>2. /\ task.kind = "check" /\ task.msg = m
      /\ UNCHANGED <<caller, verdict, returns, replied, tradeQueue>>
      /\ Grown /\ BookTypes
  BY <1>1, TypeCheck DEF Check, Frame, truthVars, TypeInv
<1>3. /\ asyncState = "running" /\ caller = [kind |-> "order", msg |-> m]
      /\ Asked = {} /\ Asked' = Asked
  BY <1>2 DEF HandInv, OneRequest, Asked
<1>4. \/ /\ asyncState' = "done" /\ asyncResult' = "error" /\ task' = Idle
      \/ /\ asyncState' = asyncState
         /\ task' = [task EXCEPT !.item = i + 1] \/ task' = [kind |-> "pass", msg |-> m, item |-> 1]
  BY <1>1 DEF Check, Refuse, Answer
<1>5. task \in CheckTask
  BY TaskKinds DEF Check, TypeInv
<1>6. \/ task'.kind = "idle" /\ asyncState' = "done"
      \/ task'.kind = "check" /\ task'.msg = m /\ asyncState' = asyncState
      \/ task'.kind = "pass" /\ task'.msg = m /\ task'.item = 1 /\ asyncState' = asyncState
  BY <1>2, <1>4, <1>5 DEF CheckTask, Idle
<1>7. OneRequest'
  BY <1>2, <1>3, <1>4, <1>6 DEF HandInv, OneRequest, Idle
<1>8. RepliesSettled'
  BY <1>2, <1>6 DEF HandInv, RepliesSettled
<1>9. DOMAIN orders' = DOMAIN orders
  <2>1. (i \in Items(m) /\ CheckItem(m, i)) \/ UNCHANGED riskerVars
    BY <1>1 DEF Check
  <2>2. QED
    BY <1>2, <2>1, CheckItemFacts DEF riskerVars
<1>10. \A o \in DOMAIN orders' : verdict[orders'[o].msg] \in {"passed", "refused"}
  <2>1. ~Passing
    BY <1>2, <1>3 DEF Passing
  <2>2. \A o \in DOMAIN orders : verdict[orders[o].msg] \in {"passed", "refused"}
    BY <2>1 DEF HandInv, ObjectsPassed
  <2>3. QED
    BY <1>2, <1>9, <2>2 DEF Grown, Like
<1>11. \A j \in Items(m) : ~ j < 1
  BY ItemsFacts
<1>12. ~ (asyncState' = "done" /\ asyncResult' = "")
  BY <1>3, <1>4
<1>13. ObjectsPassed'
  BY <1>2, <1>6, <1>10, <1>11, <1>12 DEF HandInv, ObjectsPassed
<1>14. QED
  BY <1>7, <1>8, <1>13 DEF HandInv

\* The request has passed: its objects come into the book.
LEMMA HandPass ==
  ASSUME TypeInv, HandInv, Pass
  PROVE  HandInv'
<1>1. PICK m \in Messages, i \in Nat \ {0} : m = task.msg /\ i = task.item
  BY TaskKinds DEF Pass, TypeInv, CheckTask, Own
<1>2. /\ task.kind = "pass" /\ task.msg = m /\ task.item = i
      /\ UNCHANGED <<caller, verdict, returns, replied, tradeQueue>>
      /\ Grown /\ BookTypes /\ now \in Nat
  BY <1>1, TypeCheck DEF Pass, Frame, truthVars, TypeInv
<1>3. /\ asyncState = "running" /\ caller = [kind |-> "order", msg |-> m]
      /\ Asked = {} /\ Asked' = Asked
  BY <1>2 DEF HandInv, OneRequest, Asked
<1>4. task \in CheckTask
  BY TaskKinds DEF Pass, TypeInv
<1>5. \A j \in Items(m) : j < i /\ Guards(m, j) => Listed(m)
  BY <1>2 DEF HandInv, ObjectsPassed
<1>6. \A o \in DOMAIN orders : verdict[orders[o].msg] \in {"passed", "refused"} \/ orders[o].msg = m
  BY <1>3 DEF HandInv, ObjectsPassed
<1>7. CASE i \in Items(m)
  <2>1. PassItem(m, i) /\ task' = [task EXCEPT !.item = i + 1] /\ asyncState' = asyncState
    BY <1>1, <1>7 DEF Pass
  <2>2. task'.kind = "pass" /\ task'.msg = m /\ task'.item = i + 1
    BY <1>2, <1>4, <2>1 DEF CheckTask
  <2>3. OneRequest'
    BY <1>2, <1>3, <2>1, <2>2 DEF HandInv, OneRequest
  <2>4. RepliesSettled'
    BY <1>2, <2>2 DEF HandInv, RepliesSettled
  <2>5. /\ \A o \in DOMAIN orders : orders'[o] = orders[o]
        /\ ~Guards(m, i) => UNCHANGED <<orders, book>>
        /\ Guards(m, i) => \E o \in DOMAIN orders' :
             /\ o \notin DOMAIN orders /\ DOMAIN orders' = DOMAIN orders \cup {o}
             /\ book' = book \cup {o} /\ orders'[o] = NewOrder(m, i, NoNumber)
    BY <1>2, <1>7, <2>1, PassItemFacts
  <2>6. book \subseteq DOMAIN orders /\ NewOrder(m, i, NoNumber).msg = m
    BY <1>2 DEF BookTypes, NewOrder
  <2>7. \A o \in DOMAIN orders' : verdict[orders'[o].msg] \in {"passed", "refused"} \/ orders'[o].msg = m
    BY <1>6, <2>5, <2>6
  <2>8. \A j \in Items(m) : j < i + 1 /\ Guards(m, j) => Listed(m)'
    <3>1. ASSUME NEW j \in Items(m), j < i + 1, Guards(m, j) PROVE \E o \in book' : orders'[o].msg = m
      <4>1. CASE j < i
        <5>1. PICK o \in book : orders[o].msg = m
          BY <1>5, <3>1, <4>1 DEF Listed
        <5>2. o \in book' /\ orders'[o].msg = m
          BY <2>5, <2>6, <5>1
        <5>3. QED
          BY <5>2
      <4>2. CASE ~ j < i
        <5>1. j = i
          BY <3>1, <4>2, ItemsFacts
        <5>2. QED
          BY <2>5, <2>6, <3>1, <5>1
      <4>3. QED
        BY <4>1, <4>2
    <3>2. QED
      BY <3>1 DEF Listed
  <2>9. asyncState' # "done" /\ caller'.kind = "order" /\ caller'.msg = m
    BY <1>2, <1>3, <2>1
  <2>10. ObjectsPassed'
    BY <1>2, <2>2, <2>7, <2>8, <2>9 DEF HandInv, ObjectsPassed, Passing
  <2>11. QED
    BY <2>3, <2>4, <2>10 DEF HandInv
<1>8. CASE i \notin Items(m)
  <2>1. asyncState' = "done" /\ asyncResult' = "" /\ task' = Idle /\ UNCHANGED riskerVars
    BY <1>1, <1>8 DEF Pass, Answer
  <2>2. task'.kind = "idle"
    BY <2>1 DEF Idle
  <2>3. OneRequest'
    BY <1>2, <1>3, <2>1, <2>2 DEF HandInv, OneRequest
  <2>4. RepliesSettled'
    BY <1>2, <2>2 DEF HandInv, RepliesSettled
  <2>5. \A j \in Items(m) : j < i
    BY <1>8, ItemsFacts DEF Items
  <2>6. ObjectsPassed'
    BY <1>2, <1>3, <1>5, <1>6, <2>1, <2>2, <2>5
       DEF HandInv, ObjectsPassed, Passing, Listed, riskerVars
  <2>7. QED
    BY <2>3, <2>4, <2>6 DEF HandInv
<1>9. QED
  BY <1>7, <1>8

\* A reply and the knocks before it: the message has been let through long since.
LEMMA HandRep ==
  ASSUME TypeInv, HandInv, HandleRep \/ ReplayKnock
  PROVE  HandInv'
<1>1. /\ UNCHANGED <<tradeQueue, asyncState, asyncResult, caller, verdict, returns, replied>>
      /\ Grown /\ BookTypes /\ now \in Nat /\ task.kind \in {"rep", "knocks"}
  BY TypeRep DEF HandleRep, ReplayKnock, Frame, truthVars, TypeInv
<1>2. ASSUME task'.kind \in {"idle", "rep", "knocks"} PROVE OneRequest'
  <2>1. Asked' = Asked
    BY <1>1 DEF Asked
  <2>2. QED
    BY <1>1, <1>2, <2>1 DEF HandInv, OneRequest
<1>3. ASSUME task'.kind = "rep" => task'.msg \in replied PROVE RepliesSettled'
  BY <1>1, <1>3 DEF HandInv, RepliesSettled
<1>4. \A o \in DOMAIN orders :
        \/ verdict[orders[o].msg] \in {"passed", "refused"}
        \/ /\ caller.kind = "order" /\ orders[o].msg = caller.msg
           /\ asyncState = "done" /\ asyncResult = ""
  BY <1>1 DEF HandInv, ObjectsPassed, Passing
<1>5. ASSUME \A o \in DOMAIN orders' \ DOMAIN orders : orders'[o].msg \in replied,
             \A o \in book \ book' : orders[o].msg \in replied,
             task'.kind # "pass"
      PROVE  ObjectsPassed'
  <2>1. \A o \in DOMAIN orders : orders'[o].msg = orders[o].msg /\ o \in DOMAIN orders'
    BY <1>1 DEF Grown, Like
  <2>2. \A o \in DOMAIN orders' :
        \/ verdict[orders'[o].msg] \in {"passed", "refused"}
        \/ /\ caller.kind = "order" /\ orders'[o].msg = caller.msg
           /\ asyncState = "done" /\ asyncResult = ""
    BY <1>4, <1>5, <2>1 DEF HandInv, RepliesSettled
  <2>3. caller.kind = "order" => caller.msg \notin replied
    BY DEF HandInv, ObjectsPassed, RepliesSettled
  <2>4. caller.kind = "order" /\ Listed(caller.msg) => \E o \in book' : orders'[o].msg = caller.msg
    <3>1. SUFFICES ASSUME caller.kind = "order", NEW o \in book, orders[o].msg = caller.msg
                   PROVE  o \in book' /\ orders'[o].msg = caller.msg
      BY DEF Listed
    <3>2. o \in DOMAIN orders
      BY <1>1 DEF BookTypes
    <3>3. QED
      BY <1>5, <2>1, <2>3, <3>1, <3>2
  <2>5. caller.kind = "order" /\ asyncState = "done" /\ asyncResult = "" =>
          \A i \in Items(caller.msg) : Guards(caller.msg, i) =>
            \E o \in book' : orders'[o].msg = caller.msg
    BY <2>4 DEF HandInv, ObjectsPassed
  <2>6. QED
    BY <1>1, <1>5, <2>2, <2>5 DEF HandInv, ObjectsPassed, Passing, Listed
<1>6. CASE HandleRep
  <2>1. task \in RepTask /\ task.kind = "rep"
    BY <1>6, TaskKinds DEF HandleRep, TypeInv
  <2>2. PICK m \in Messages, i \in Nat \ {0} : m = task.msg /\ i = task.item
    BY <2>1 DEF RepTask
  <2>3. m \in replied
    BY <2>1, <2>2 DEF HandInv, RepliesSettled
  <2>4. \A o \in OfReply(m, i) : orders[o].msg = m
    BY DEF OfReply
  <2>5. CASE i \in Items(m) /\ ~Guards(m, i)
    <3>1. task' = [task EXCEPT !.item = i + 1] /\ UNCHANGED riskerVars
      BY <1>6, <2>2, <2>5 DEF HandleRep
    <3>2. task'.kind = "rep" /\ task'.msg = m
      BY <2>1, <2>2, <3>1 DEF RepTask
    <3>3. QED
      BY <1>2, <1>3, <1>5, <2>3, <3>1, <3>2 DEF HandInv, riskerVars
  <2>6. CASE i \in Items(m) /\ Guards(m, i) /\ i \notin task.accepted
    <3>1. task' = [task EXCEPT !.item = i + 1] /\ RepItemRejected(m, i)
      BY <1>6, <2>2, <2>6 DEF HandleRep
    <3>2. task'.kind = "rep" /\ task'.msg = m
      BY <2>1, <2>2, <3>1 DEF RepTask
    <3>3. orders' = orders /\ \A o \in book \ book' : orders[o].msg = m
      BY <1>1, <2>4, <2>6, <3>1, RejectedFacts
    <3>4. QED
      BY <1>2, <1>3, <1>5, <2>3, <3>2, <3>3 DEF HandInv
  <2>7. CASE i \in Items(m) /\ Guards(m, i) /\ i \in task.accepted
    <3>1. PICK o : RegisterReply(m, i, o)
      BY <1>6, <2>2, <2>7 DEF HandleRep
    <3>2. RepItemKnown(m, i, o) \/ RepItemUnknown(m, i, o)
      BY <3>1 DEF RegisterReply
    <3>3. task'.kind = "rep" /\ task'.msg = m
      BY <2>1, <2>2, <3>1 DEF RegisterReply, RepTask
    <3>9. PICK n : n = <<m, i>>
      OBVIOUS
    <3>4. /\ book \subseteq book' /\ \A p \in DOMAIN orders' : p \in DOMAIN orders \/ p = o
          /\ o \notin DOMAIN orders => orders'[o] = NewOrder(m, i, n)
      <4>1. book \subseteq book' /\ \A p \in DOMAIN orders' : p \in DOMAIN orders \/ p = o
        BY <1>1, <2>7, <3>2, <3>9, RegisteredFacts
      <4>2. o \notin DOMAIN orders => orders'[o] = NewOrder(m, i, n)
        BY <1>1, <2>7, <3>2, <3>9, RegisteredObject
      <4>3. QED
        BY <4>1, <4>2
    <3>5. \A p \in DOMAIN orders' \ DOMAIN orders : orders'[p].msg = m
      BY <3>4 DEF NewOrder
    <3>6. book \ book' = {}
      BY <3>4
    <3>7. QED
      BY <1>2, <1>3, <1>5, <2>3, <3>3, <3>5, <3>6 DEF HandInv
  <2>8. CASE i \notin Items(m)
    <3>1. task' = [kind |-> "knocks", rest |-> task.knocks] /\ RegisterBatch(m, task.members)
      BY <1>6, <2>2, <2>8 DEF HandleRep
    <3>2. task'.kind = "knocks"
      BY <3>1
    <3>3. orders' = orders /\ book' = book
      BY <3>1 DEF RegisterBatch
    <3>4. QED
      BY <1>2, <1>3, <1>5, <3>2, <3>3 DEF HandInv
  <2>9. QED
    BY <2>5, <2>6, <2>7, <2>8
<1>7. CASE ReplayKnock
  <2>1. task \in KnocksTask
    BY <1>7, TaskKinds DEF ReplayKnock, TypeInv
  <2>2. task'.kind \in {"idle", "knocks"}
    BY <1>7, <2>1 DEF ReplayKnock, KnocksTask, Idle
  <2>3. book' = book /\ DOMAIN orders' = DOMAIN orders
    <3>1. task.rest \in Seq(Knock)
      BY <2>1 DEF KnocksTask
    <3>2. UNCHANGED riskerVars \/ (task.rest # <<>> /\ OnTradeKnock(Head(task.rest)))
      BY <1>7 DEF ReplayKnock
    <3>3. task.rest # <<>> => Head(task.rest) \in Knock
      BY <3>1, HeadTailProperties
    <3>4. QED
      BY <1>1, <3>2, <3>3, KnockFacts DEF riskerVars
  <2>4. QED
    BY <1>2, <1>3, <1>5, <2>2, <2>3 DEF HandInv
<1>8. QED
  BY <1>6, <1>7

LEMMA HandInvInit ==
  ASSUME Init
  PROVE  HandInv
<1>1. /\ caller = Idle /\ asyncState = "idle" /\ task = Idle /\ tradeQueue = <<>> /\ orders = <<>>
      /\ returns = {} /\ replied = {}
  BY DEF Init
<1>2. DOMAIN <<>> = {}
  BY EmptySeq, LenProperties
<1>3. Asked = {}
  BY <1>1, <1>2 DEF Asked
<1>4. OneRequest /\ RepliesSettled
  BY <1>1, <1>2, <1>3 DEF OneRequest, RepliesSettled, Idle
<1>5. ObjectsPassed
  BY <1>1, <1>2 DEF ObjectsPassed, Idle
<1>6. QED
  BY <1>4, <1>5 DEF HandInv

LEMMA HandInvStep ==
  ASSUME TypeInv, HandInv, [Next]_vars
  PROVE  HandInv'
<1>1. CASE UNCHANGED vars
  <2>1. UNCHANGED <<orders, book, task, caller, asyncState, asyncResult, tradeQueue, verdict,
                    replied, returns>>
    BY <1>1 DEF vars, riskerVars, gatewayVars, truthVars
  <2>2. RepliesSettled'
    BY <2>1 DEF HandInv, RepliesSettled
  <2>3. QED
    BY <2>1, <2>2, OneRequestFrame, HandFrame DEF HandInv
<1>2. CASE RiskThread
  <2>1. ReadRep => task = Idle
    BY DEF ReadRep
  <2>2. QED
    BY <1>2, <2>1, HandTake, HandCheck, HandPass, HandRep, HandMain DEF RiskThread
<1>3. CASE task = Idle /\ Surroundings
  <2>1. \A m \in Messages : \A i \in 0 .. Len(m.items) : i \in Nat
    BY ItemsFacts
  <2>2. 0 \in Nat
    OBVIOUS
  <2>3. QED
    BY <1>3, <2>1, <2>2, HandRequest, HandCollect, HandTruth, HandMain DEF Surroundings
<1>4. QED
  BY <1>1, <1>2, <1>3 DEF Next

\* The invariant is strong enough.
LEMMA HandInvImplies ==
  ASSUME TypeInv, HandInv
  PROVE  Handshake
<1>1. caller # Idle <=> asyncState # "idle"
  BY DEF HandInv, OneRequest
<1>2. IF asyncState = "running" /\ task.kind \notin {"check", "pass"} THEN Cardinality(Asked) = 1
      ELSE Asked = {}
  BY FS_Singleton DEF HandInv, OneRequest
<1>3. ASSUME NEW m \in Own, \E i \in Items(m) : Guards(m, i),
             caller.kind = "order" /\ asyncState = "done" /\ caller.msg = m
      PROVE  asyncResult = "" <=> \E o \in book : orders[o].msg = m
  <2>1. CASE asyncResult = ""
    BY <1>3, <2>1 DEF HandInv, ObjectsPassed, Listed
  <2>2. CASE asyncResult # ""
    <3>1. ~Passing
      BY <1>3, <2>2 DEF HandInv, OneRequest, Passing
    <3>2. \A o \in book : orders[o].msg # m
      BY <1>3, <3>1 DEF HandInv, ObjectsPassed, TypeInv, BookTypes
    <3>3. QED
      BY <2>2, <3>2
  <2>3. QED
    BY <2>1, <2>2
<1>4. QED
  BY <1>1, <1>2, <1>3 DEF Handshake, Asked

\* The answer the gateway thread takes is the one to its own request, and what it
\* lets through is in the books (risk_master.cc:308-333, 152-156, 182-186).
THEOREM RiskHandshake == Spec => []Handshake
BY TypeInvInit, TypeInvStep, HandInvInit, HandInvStep, HandInvImplies, PTL DEF Spec

-----------------------------------------------------------------------------
(* What the objects stand for. *)

\* No two items of a message ask for the same: the code would take the replies to
\* both for that to the first (order_book.cc:140).
DistinctPrices ==
  \A m \in Messages : \A i, j \in Items(m) :
    m.items[i].code = m.items[j].code /\ m.items[i].price = m.items[j].price => i = j

VolumeOf(n) == n[1].items[n[2]].volume
\* The record x is that of the order n.
OfItem(x, n) ==
  /\ x.msg = n[1] /\ x.code = n[1].items[n[2]].code
  /\ x.price = n[1].items[n[2]].price /\ x.volume = VolumeOf(n)
\* A record without a number is that of an item, of which nothing is known.
Blank(x) ==
  /\ x.matched = 0 /\ x.withdrawAsked = 0 /\ ~x.withdrawn
  /\ \E j \in Items(x.msg) : OfItem(x, <<x.msg, j>>)
Stems ==
  \A o \in DOMAIN orders :
    LET n == orders[o].number
    IN IF n = NoNumber THEN Blank(orders[o]) /\ (o \in book => ~orders[o].finish)
       ELSE OfItem(orders[o], n) /\ n[1] \in replied
Mapped == \A n \in DOMAIN single : orders[single[n]].number = n
EarlyOwn == \A n \in DOMAIN early : \A j \in DOMAIN early[n] : early[n][j].number = n
\* The objects of a batch have numbers of that message.
MembersOwn ==
  /\ \A m \in DOMAIN batch : \A k \in DOMAIN batch[m] :
       orders[batch[m][k]].number # NoNumber /\ orders[batch[m][k]].msg = m
  /\ task.kind = "rep" => \A k \in DOMAIN task.members :
       orders[task.members[k]].number # NoNumber /\ orders[task.members[k]].msg = task.msg

ObjInv == Stems /\ Mapped /\ EarlyOwn /\ MembersOwn

\* An object of a batch.
Member(o) == \E m \in DOMAIN batch : \E k \in DOMAIN batch[m] : o = batch[m][k]
LEMMA MemberNumbered ==
  ASSUME ObjInv, NEW o, Member(o)
  PROVE  orders[o].number # NoNumber
  BY DEF ObjInv, MembersOwn, Member

\* Only what has ended, or belongs to a batch, is marked finished.
LEMMA FinishMembers ==
  ASSUME BookTypes, NEW ords \in Seq(Order), Len(ords) = Len(orders), NEW R, FinishAll(ords, R)
  PROVE  \A o \in DOMAIN orders : orders'[o] = ords[o] \/ o \in R \/ Member(o)
<1> DEFINE touched == {m \in DOMAIN batch : \E o \in R : ords[o].msg = m /\ ords[o].number # NoNumber}
           evaluated == UNION {{batch[m][k] : k \in {l \in DOMAIN batch[m] :
                                  \A j \in 1 .. l : Finished(ords[batch[m][j]])}} : m \in touched}
<1>1. orders' = [o \in DOMAIN ords |->
                   IF o \in R \cup evaluated THEN [ords[o] EXCEPT !.finish = TRUE] ELSE ords[o]]
  BY DEF FinishAll
<1>2. \A o \in evaluated : Member(o)
  BY DEF Member
<1>3. DOMAIN ords = DOMAIN orders
  BY LenProperties DEF BookTypes
<1> HIDE DEF touched, evaluated
<1>4. QED
  BY <1>1, <1>2, <1>3

LEMMA CheckItemMembers ==
  ASSUME BookTypes, NEW m \in Messages, NEW i \in Items(m), CheckItem(m, i)
  PROVE  \A o \in DOMAIN orders : orders'[o] = orders[o] \/ Member(o) \/ o \notin book'
<1>1. CASE UNCHANGED riskerVars
  BY <1>1 DEF riskerVars
<1>2. CASE FinishAll(orders, Swept(m, i)) /\ book' = book \ Swept(m, i)
  <2>1. orders \in Seq(Order)
    BY DEF BookTypes
  <2>2. \A o \in DOMAIN orders : orders'[o] = orders[o] \/ o \in Swept(m, i) \/ Member(o)
    BY <1>2, <2>1, FinishMembers
  <2>3. QED
    BY <1>2, <2>2
<1>3. QED
  BY <1>1, <1>2 DEF CheckItem

LEMMA KnownMembers ==
  ASSUME BookTypes, NEW k \in Knock, KnockKnown(k)
  PROVE  \A p \in DOMAIN orders : p # single[k.number] => orders'[p] = orders[p] \/ Member(p)
<1>1. PICK o \in DOMAIN orders : o = single[k.number]
  BY DEF KnockKnown, BookTypes
<1>2. PICK ords : ords = [orders EXCEPT ![o] = Told(k, orders[o])]
  OBVIOUS
<1>3. orders \in Seq(Order) /\ orders[o] \in Order /\ Told(k, orders[o]) \in Order
  BY <1>1, ToldFacts DEF BookTypes
<1>4. /\ ords \in Seq(Order) /\ Len(ords) = Len(orders)
      /\ \A p \in DOMAIN orders : p # o => ords[p] = orders[p]
  BY <1>1, <1>2, <1>3, ExceptSeq
<1>5. FinishAll(ords, {o}) \/ orders' = ords
  BY <1>1, <1>2 DEF KnockKnown, Told
<1>6. CASE FinishAll(ords, {o})
  <2>1. \A p \in DOMAIN orders : orders'[p] = ords[p] \/ p \in {o} \/ Member(p)
    BY <1>4, <1>6, FinishMembers
  <2>2. QED
    BY <1>1, <1>4, <2>1
<1>7. QED
  BY <1>1, <1>4, <1>5, <1>6

\* Objects keep their numbers, and those without stay what they are.
LEMMA ObjFrame ==
  ASSUME BookTypes, ObjInv, Grown, DOMAIN orders' = DOMAIN orders, EarlyOwn',
         replied \subseteq replied', book' \subseteq book,
         \A o \in DOMAIN orders :
           /\ orders'[o].number = orders[o].number
           /\ orders[o].number = NoNumber =>
                \/ orders'[o] = orders[o]
                \/ o \notin book' /\ orders'[o] = [orders[o] EXCEPT !.finish = TRUE],
         \A n \in DOMAIN single' : n \in DOMAIN single /\ single'[n] = single[n],
         \A m \in DOMAIN batch' : m \in DOMAIN batch /\ batch'[m] = batch[m],
         task'.kind = "rep" => \/ task'.members = <<>>
                               \/ /\ task.kind = "rep" /\ task'.members = task.members
                                  /\ task'.msg = task.msg,
         TaskTypes
  PROVE  ObjInv'
<1>1. \A o \in DOMAIN orders : Like(orders[o], orders'[o])
  BY DEF Grown
<1>2. Stems'
  <2>1. SUFFICES ASSUME NEW o \in DOMAIN orders
                 PROVE  IF orders'[o].number = NoNumber
                        THEN Blank(orders'[o]) /\ (o \in book' => ~orders'[o].finish)
                        ELSE OfItem(orders'[o], orders'[o].number)
                             /\ orders'[o].number[1] \in replied'
    BY DEF Stems, Blank, OfItem, VolumeOf
  <2>2. CASE orders[o].number = NoNumber
    <3>1. Blank(orders[o]) /\ (o \in book => ~orders[o].finish)
      BY <2>2 DEF ObjInv, Stems
    <3>2. CASE orders'[o] = orders[o]
      BY <2>2, <3>1, <3>2
    <3>3. CASE o \notin book' /\ orders'[o] = [orders[o] EXCEPT !.finish = TRUE]
      <4>1. PICK x \in Order : x = orders[o]
        BY ObjectFacts
      <4>2. PICK y : y = [x EXCEPT !.finish = TRUE]
        OBVIOUS
      <4>3. /\ y.msg = x.msg /\ y.code = x.code /\ y.price = x.price /\ y.volume = x.volume
            /\ y.matched = x.matched /\ y.withdrawAsked = x.withdrawAsked
            /\ y.withdrawn = x.withdrawn /\ y.number = x.number
        BY <4>1, <4>2 DEF Order
      <4>4. Blank(y)
        BY <3>1, <4>1, <4>3 DEF Blank, OfItem
      <4>5. QED
        BY <2>2, <3>3, <4>1, <4>2, <4>3, <4>4
    <3>4. QED
      BY <2>2, <3>2, <3>3
  <2>3. CASE orders[o].number # NoNumber
    <3>1. OfItem(orders[o], orders[o].number) /\ orders[o].number[1] \in replied
      BY <2>3 DEF ObjInv, Stems
    <3>2. QED
      BY <1>1, <2>3, <3>1 DEF Like, OfItem
  <2>4. QED
    BY <2>2, <2>3
<1>3. Mapped'
  BY DEF ObjInv, Mapped, BookTypes
<1>4. MembersOwn'
  <2>1. \A m \in DOMAIN batch' : \A k \in DOMAIN batch'[m] :
          orders'[batch'[m][k]].number # NoNumber /\ orders'[batch'[m][k]].msg = m
    <3>1. SUFFICES ASSUME NEW m \in DOMAIN batch', NEW k \in DOMAIN batch'[m]
                   PROVE  orders'[batch'[m][k]].number # NoNumber /\ orders'[batch'[m][k]].msg = m
      OBVIOUS
    <3>2. m \in DOMAIN batch /\ batch'[m] = batch[m]
      OBVIOUS
    <3>3. PICK o \in DOMAIN orders : o = batch[m][k] /\ o = batch'[m][k]
      BY <3>2 DEF BookTypes
    <3>4. orders[o].number # NoNumber /\ orders[o].msg = m
      BY <3>2, <3>3 DEF ObjInv, MembersOwn
    <3>5. QED
      BY <1>1, <3>3, <3>4 DEF Like
  <2>2. task'.kind = "rep" => \A k \in DOMAIN task'.members :
          orders'[task'.members[k]].number # NoNumber /\ orders'[task'.members[k]].msg = task'.msg
    <3>1. CASE task'.members = <<>>
      BY <3>1
    <3>2. CASE task.kind = "rep" /\ task'.members = task.members /\ task'.msg = task.msg
      BY <1>1, <3>2 DEF ObjInv, MembersOwn, TaskTypes, Like
    <3>3. QED
      BY <3>1, <3>2
  <2>3. QED
    BY <2>1, <2>2 DEF MembersOwn
<1>5. QED
  BY <1>2, <1>3, <1>4 DEF ObjInv

\* What the gateway thread, the main thread and the world outside leave of the risker.
LEMMA AroundFrame ==
  ASSUME Surroundings \/ ReadRep \/ UNCHANGED vars
  PROVE  /\ UNCHANGED <<orders, book, single, batch, early, task, asyncResult, checkedAt>>
         /\ replied \subseteq replied'
         /\ now' = now \/ Tick
         /\ again' = again \/ (Duplicates /\ again \subseteq again')
         /\ \/ UNCHANGED <<caller, asyncState>>
            \/ Collect \/ CollectWithdraw
            \/ \E m \in Messages : Request(m) \/ \E i \in 0 .. Len(m.items) : RequestWithdraw(m, i)
<1> DEFINE Frames ==
      /\ UNCHANGED <<orders, book, single, batch, early, task, asyncResult, checkedAt>>
      /\ replied \subseteq replied'
      /\ now' = now \/ Tick
      /\ again' = again \/ (Duplicates /\ again \subseteq again')
<1>1. CASE UNCHANGED vars \/ ReadRep
  <2>1. Frames /\ UNCHANGED <<caller, asyncState>>
    BY <1>1 DEF vars, ReadRep, riskerVars, gatewayVars, truthVars
  <2>2. QED
    BY <2>1
<1>2. CASE Tick
  <2>1. Frames /\ UNCHANGED <<caller, asyncState>>
    BY <1>2 DEF Tick, riskerVars, gatewayVars, truthVars
  <2>2. QED
    BY <2>1
<1>3. CASE Collect
  <2>1. Frames
    BY <1>3 DEF Collect, riskerVars
  <2>2. QED
    BY <1>3, <2>1
<1>4. CASE CollectWithdraw
  <2>1. Frames
    BY <1>4 DEF CollectWithdraw, riskerVars
  <2>2. QED
    BY <1>4, <2>1
<1>5. ASSUME NEW m \in Messages, Request(m) \/ \E i \in 0 .. Len(m.items) : RequestWithdraw(m, i)
      PROVE  Frames
  <2>1. CASE Request(m)
    BY <2>1 DEF Request, riskerVars, truthVars
  <2>2. CASE \E i \in 0 .. Len(m.items) : RequestWithdraw(m, i)
    BY <2>2 DEF RequestWithdraw, riskerVars, truthVars
  <2>3. QED
    BY <1>5, <2>1, <2>2
<1>6. ASSUME NEW m \in Messages,
             \/ ForeignOrder(m) \/ \E accepted \in SUBSET Items(m) : CounterReply(m, accepted)
             \/ \E ok \in BOOLEAN : Withdraw(m, ok)
      PROVE  Frames /\ UNCHANGED <<caller, asyncState>>
  <2>1. CASE ForeignOrder(m)
    BY <2>1 DEF ForeignOrder, riskerVars
  <2>2. CASE \E accepted \in SUBSET Items(m) : CounterReply(m, accepted)
    BY <2>2 DEF CounterReply, riskerVars, gatewayVars
  <2>3. CASE \E ok \in BOOLEAN : Withdraw(m, ok)
    BY <2>3 DEF Withdraw, riskerVars, gatewayVars
  <2>4. QED
    BY <1>6, <2>1, <2>2, <2>3
<1>7. ASSUME NEW n \in Numbers,
             \/ \E v \in 1 .. left[n] : Trade(n, v)
             \/ \E type \in {"withdrawn", "failed"} : End(n, type)
      PROVE  Frames /\ UNCHANGED <<caller, asyncState>>
  BY <1>7 DEF Trade, End, riskerVars, gatewayVars
<1>8. ASSUME NEW r \in returns, Deliver(r) PROVE Frames /\ UNCHANGED <<caller, asyncState>>
  BY <1>8 DEF Deliver, riskerVars, gatewayVars
<1>9. CASE Surroundings
  <2>1. CASE Tick \/ Collect \/ CollectWithdraw
    BY <1>2, <1>3, <1>4, <2>1
  <2>2. CASE \E m \in Messages : Request(m) \/ \E i \in 0 .. Len(m.items) : RequestWithdraw(m, i)
    BY <1>5, <2>2
  <2>3. CASE \E m \in Messages :
               \/ ForeignOrder(m) \/ \E accepted \in SUBSET Items(m) : CounterReply(m, accepted)
               \/ \E ok \in BOOLEAN : Withdraw(m, ok)
    BY <1>6, <2>3
  <2>4. CASE \E n \in Numbers :
               \/ \E v \in 1 .. left[n] : Trade(n, v)
               \/ \E type \in {"withdrawn", "failed"} : End(n, type)
    BY <1>7, <2>4
  <2>5. CASE \E r \in returns : Deliver(r)
    BY <1>8, <2>5
  <2>6. QED
    BY <1>9, <2>1, <2>2, <2>3, <2>4, <2>5 DEF Surroundings
<1>10. QED
  BY <1>1, <1>9

\* What the risk thread leaves of the rest.
LEMMA InsideFrame ==
  ASSUME Take \/ Check \/ Pass \/ HandleRep \/ ReplayKnock
  PROVE  /\ UNCHANGED <<now, caller, verdict, life, left, replied, told, returns, withdrawal, again>>
         /\ checkedAt' = checkedAt \/ Take
<1>1. CASE Take
  BY <1>1 DEF Take, Frame, truthVars
<1>2. CASE Check \/ Pass
  BY <1>2 DEF Check, Pass, Frame, truthVars
<1>3. CASE HandleRep \/ ReplayKnock
  BY <1>3 DEF HandleRep, ReplayKnock, Frame, truthVars
<1>4. QED
  BY <1>1, <1>2, <1>3

\* A step that leaves the risker alone, and its task but for the message it checks.
LEMMA ObjKept ==
  ASSUME BookTypes, ObjInv, UNCHANGED riskerVars, replied \subseteq replied', TaskTypes,
         task'.kind = "rep" => \/ task'.members = <<>>
                               \/ /\ task.kind = "rep" /\ task'.members = task.members
                                  /\ task'.msg = task.msg
  PROVE  ObjInv'
<1>1. UNCHANGED <<orders, book, single, batch, early>>
  BY DEF riskerVars
<1>2. Grown
  BY BookFrame
<1>3. EarlyOwn'
  BY <1>1 DEF ObjInv, EarlyOwn
<1>4. QED
  BY <1>1, <1>2, <1>3, ObjFrame

LEMMA ObjOutside ==
  ASSUME TypeInv, ObjInv, Surroundings \/ ReadRep \/ UNCHANGED vars
  PROVE  ObjInv'
<1>1. UNCHANGED <<riskerVars, task>>
  BY AroundFrame DEF riskerVars
<1>2. replied \subseteq replied'
  BY AroundFrame
<1>3. QED
  BY <1>1, <1>2, ObjKept DEF TypeInv

\* A withdrawal is about objects with numbers.
LEMMA TargetsNumbered ==
  ASSUME BookTypes, ObjInv, NEW m, NEW i, NEW o \in Targets(m, i)
  PROVE  orders[o].number # NoNumber
<1>1. CASE \E b \in DOMAIN batch : \E k \in DOMAIN batch[b] : o = batch[b][k]
  BY <1>1, MemberNumbered DEF Member
<1>2. CASE \E n \in DOMAIN single : o = single[n]
  BY <1>2, NumberFacts DEF ObjInv, Mapped, BookTypes
<1>3. QED
  BY <1>1, <1>2 DEF Targets

\* A knock of an order the risker knows, or one it keeps.
LEMMA ObjKnown ==
  ASSUME TypeInv, ObjInv, NEW k \in Knock, KnockKnown(k), replied' = replied,
         task'.kind # "rep"
  PROVE  ObjInv'
<1>1. BookTypes /\ TaskTypes
  BY DEF TypeInv
<1>2. /\ BookTypes' /\ Grown /\ book' = book /\ early' = early /\ DOMAIN orders' = DOMAIN orders
      /\ DOMAIN batch' \subseteq DOMAIN batch
      /\ \A b \in DOMAIN batch' : batch'[b] = batch[b]
      /\ k.number \in DOMAIN single
      /\ \A n \in DOMAIN single' : n \in DOMAIN single /\ single'[n] = single[n]
  BY <1>1, KnownFacts
<1>3. PICK o1 \in DOMAIN orders :
        /\ o1 = single[k.number]
        /\ \/ orders'[o1] = Told(k, orders[o1])
           \/ /\ Finished(Told(k, orders[o1]))
              /\ orders'[o1] = [Told(k, orders[o1]) EXCEPT !.finish = TRUE]
        /\ \A n \in DOMAIN single \ DOMAIN single' :
             n = orders[o1].number /\ orders'[o1].finish
        /\ \A o \in DOMAIN orders : o # o1 =>
             \/ orders'[o] = orders[o]
             \/ Finished(orders[o]) /\ orders'[o] = [orders[o] EXCEPT !.finish = TRUE]
  BY <1>1, KnownFacts
<1>4. orders[o1].number = k.number /\ k.number # NoNumber
  BY <1>1, <1>2, <1>3, NumberFacts DEF ObjInv, Mapped, BookTypes
<1>5. orders'[o1].number = orders[o1].number
  <2>1. PICK x \in Order : x = orders[o1]
    BY <1>1, ObjectFacts
  <2>2. PICK y \in Order : y = Told(k, x)
    BY <2>1, ToldFacts
  <2>3. y.number = x.number
    BY <2>1, <2>2 DEF Told, Order
  <2>4. orders'[o1] = y \/ orders'[o1] = [y EXCEPT !.finish = TRUE]
    BY <1>3, <2>1, <2>2
  <2>5. QED
    BY <2>1, <2>2, <2>3, <2>4 DEF Order
<1>6. \A o \in DOMAIN orders : orders'[o].number = orders[o].number
  <2>1. SUFFICES ASSUME NEW o \in DOMAIN orders, o # o1
                 PROVE  orders'[o].number = orders[o].number
    BY <1>5
  <2>2. PICK x \in Order : x = orders[o]
    BY <1>1, ObjectFacts
  <2>3. orders'[o] = x \/ orders'[o] = [x EXCEPT !.finish = TRUE]
    BY <1>3, <2>1, <2>2
  <2>4. QED
    BY <2>2, <2>3 DEF Order
<1>7. \A o \in DOMAIN orders : orders[o].number = NoNumber => orders'[o] = orders[o]
  <2>1. \A o \in DOMAIN orders : o # o1 => orders'[o] = orders[o] \/ Member(o)
    BY <1>1, <1>3, KnownMembers
  <2>2. QED
    BY <1>4, <2>1, MemberNumbered
<1>8. EarlyOwn'
  BY <1>2 DEF ObjInv, EarlyOwn
<1>9. QED
  BY <1>1, <1>2, <1>6, <1>7, <1>8, ObjFrame

LEMMA ObjEarly ==
  ASSUME TypeInv, ObjInv, NEW k \in Knock, KnockEarly(k), replied' = replied,
         task'.kind # "rep"
  PROVE  ObjInv'
<1>1. BookTypes /\ TaskTypes
  BY DEF TypeInv
<1>2. /\ BookTypes' /\ UNCHANGED <<orders, book, single, batch>>
      /\ \/ early' = early
         \/ /\ DOMAIN early' = DOMAIN early \cup {k.number}
            /\ \A n \in DOMAIN early : n # k.number => early'[n] = early[n]
            /\ early'[k.number] =
                 (IF k.number \in DOMAIN early THEN early[k.number] ELSE <<>>) \o <<k>>
  BY <1>1, EarlyFacts
<1>3. PICK s : s = IF k.number \in DOMAIN early THEN early[k.number] ELSE <<>>
  OBVIOUS
<1>4. s \in Seq(Knock) /\ \A j \in DOMAIN s : s[j].number = k.number
  BY <1>1, <1>3 DEF BookTypes, ObjInv, EarlyOwn
<1>5. PICK e : e = Len(s) + 1
  OBVIOUS
<1>6. PICK t : t = s \o <<k>>
  OBVIOUS
<1>7. DOMAIN t = DOMAIN s \cup {e} /\ t[e] = k /\ \A j \in DOMAIN s : t[j] = s[j]
  <2>1. Append(s, k) = t
    BY <1>4, <1>6
  <2>2. QED
    BY <1>4, <1>5, <2>1, AppendFacts
<1>8. EarlyOwn'
  <2>1. CASE early' = early
    BY <2>1 DEF ObjInv, EarlyOwn
  <2>2. CASE early' # early
    <3>1. /\ DOMAIN early' = DOMAIN early \cup {k.number}
          /\ \A n \in DOMAIN early : n # k.number => early'[n] = early[n]
          /\ early'[k.number] = t
      BY <1>2, <1>3, <1>6, <2>2
    <3>2. QED
      BY <1>4, <1>7, <3>1 DEF ObjInv, EarlyOwn
  <2>3. QED
    BY <2>1, <2>2
<1>9. Grown
  BY <1>2, LikeItself DEF Grown
<1>10. QED
  BY <1>1, <1>2, <1>8, <1>9, ObjFrame

\* A withdrawal, or its answer, leaves numbers and objects without them as they are.
LEMMA ObjTargets ==
  ASSUME TypeInv, ObjInv, NEW m, NEW i, replied' = replied, task'.kind # "rep",
         Grown, UNCHANGED <<book, single, early>>, DOMAIN orders' = DOMAIN orders,
         \A b \in DOMAIN batch' : b \in DOMAIN batch /\ batch'[b] = batch[b],
         \A o \in DOMAIN orders :
           /\ o \notin Targets(m, i) => orders'[o] = orders[o]
           /\ \/ orders'[o] = orders[o]
              \/ orders'[o] = [orders[o] EXCEPT !.withdrawAsked = now]
              \/ orders'[o] = [orders[o] EXCEPT !.withdrawn = TRUE]
  PROVE  ObjInv'
<1>1. BookTypes /\ TaskTypes
  BY DEF TypeInv
<1>2. \A o \in DOMAIN orders : orders[o].number = NoNumber => orders'[o] = orders[o]
  BY <1>1, TargetsNumbered
<1>3. \A o \in DOMAIN orders : orders'[o].number = orders[o].number
  <2>1. SUFFICES ASSUME NEW o \in DOMAIN orders PROVE orders'[o].number = orders[o].number
    OBVIOUS
  <2>2. PICK x \in Order : x = orders[o]
    BY <1>1, ObjectFacts
  <2>3. PICK t \in Nat : t = now
    BY DEF TypeInv
  <2>4. \/ orders'[o] = x \/ orders'[o] = [x EXCEPT !.withdrawAsked = t]
        \/ orders'[o] = [x EXCEPT !.withdrawn = TRUE]
    BY <2>2, <2>3
  <2>5. CASE orders'[o] = [x EXCEPT !.withdrawAsked = t]
    BY <2>2, <2>5 DEF Order
  <2>6. CASE orders'[o] = [x EXCEPT !.withdrawn = TRUE]
    BY <2>2, <2>6 DEF Order
  <2>7. QED
    BY <2>2, <2>4, <2>5, <2>6
<1>4. EarlyOwn'
  BY DEF ObjInv, EarlyOwn
<1>5. QED
  BY <1>1, <1>2, <1>3, <1>4, ObjFrame

LEMMA ObjTake ==
  ASSUME TypeInv, ObjInv, Take
  PROVE  ObjInv'
<1>1. PICK r : r = Head(tradeQueue)
  OBVIOUS
<1>2. r \in Queued /\ BookTypes /\ TaskTypes /\ now \in Nat
  BY <1>1, QueueTaken DEF Take, TypeInv
<1>3. replied' = replied
  BY DEF Take, Frame, truthVars
<1>4. CASE r.kind = "order"
  <2>1. UNCHANGED riskerVars /\ task' = [kind |-> "check", msg |-> r.msg, item |-> 1]
    BY <1>1, <1>4 DEF Take
  <2>2. task'.kind # "rep"
    BY <2>1
  <2>3. QED
    BY <1>2, <1>3, <2>1, <2>2, ObjKept
<1>5. CASE r.kind = "rep"
  <2>1. UNCHANGED riskerVars
        /\ task' = [kind |-> "rep", msg |-> r.msg, item |-> 1, accepted |-> r.accepted,
                    members |-> <<>>, knocks |-> <<>>]
    BY <1>1, <1>5 DEF Take
  <2>2. task'.members = <<>>
    BY <2>1
  <2>3. QED
    BY <1>2, <1>3, <2>1, <2>2, ObjKept
<1>6. ASSUME task' = Idle PROVE task'.kind # "rep"
  BY <1>6 DEF Idle
<1>7. CASE r.kind = "withdraw"
  <2>1. HandleTradeWithdrawReq(r.msg, r.item) /\ task' = Idle
    BY <1>1, <1>7 DEF Take
  <2>2. /\ Grown /\ UNCHANGED <<book, single, batch, early>> /\ DOMAIN orders' = DOMAIN orders
        /\ \A o \in DOMAIN orders :
             orders'[o] = IF o \in Targets(r.msg, r.item)
                          THEN [orders[o] EXCEPT !.withdrawAsked = now] ELSE orders[o]
    BY <1>2, <2>1, WithdrawReqFacts
  <2>3. QED
    BY <1>3, <1>6, <2>1, <2>2, ObjTargets
<1>8. CASE r.kind = "wrep"
  <2>1. HandleTradeWithdrawRep(r.msg, r.item, r.ok) /\ r.ok \in BOOLEAN /\ task' = Idle
    BY <1>1, <1>2, <1>8, QueuedKinds DEF Take, WithdrawReply
  <2>2. /\ Grown /\ UNCHANGED <<book, single, early>> /\ DOMAIN orders' = DOMAIN orders
        /\ DOMAIN batch' \subseteq DOMAIN batch
        /\ \A b \in DOMAIN batch' : batch'[b] = batch[b]
        /\ \A o \in DOMAIN orders :
             orders'[o] = IF o \notin Targets(r.msg, r.item) THEN orders[o]
                          ELSE IF r.ok THEN [orders[o] EXCEPT !.withdrawn = TRUE]
                          ELSE [orders[o] EXCEPT !.withdrawAsked = now]
    BY <1>2, <2>1, WithdrawRepFacts
  <2>3. QED
    BY <1>3, <1>6, <2>1, <2>2, ObjTargets
<1>9. CASE r.kind = "knock"
  <2>1. OnTradeKnock(r) /\ task' = Idle /\ r \in Knock
    BY <1>1, <1>2, <1>9, QueuedKinds DEF Take
  <2>2. QED
    BY <1>3, <1>6, <2>1, ObjKnown, ObjEarly DEF OnTradeKnock
<1>10. QED
  BY <1>2, <1>4, <1>5, <1>7, <1>8, <1>9, QueuedKinds

LEMMA ObjReplay ==
  ASSUME TypeInv, ObjInv, ReplayKnock
  PROVE  ObjInv'
<1>1. BookTypes /\ TaskTypes /\ replied' = replied
  BY DEF TypeInv, ReplayKnock, Frame, truthVars
<1>2. task \in KnocksTask /\ task.rest \in Seq(Knock) /\ task.kind = "knocks"
  BY <1>1, TaskKinds DEF ReplayKnock, KnocksTask
<1>3. CASE task.rest = <<>>
  <2>1. UNCHANGED riskerVars /\ task'.kind # "rep"
    BY <1>3 DEF ReplayKnock, Idle
  <2>2. QED
    BY <1>1, <2>1, ObjKept
<1>4. CASE task.rest # <<>>
  <2>1. PICK r : r = Head(task.rest)
    OBVIOUS
  <2>2. OnTradeKnock(r) /\ task' = [task EXCEPT !.rest = Tail(task.rest)]
    BY <1>4, <2>1 DEF ReplayKnock
  <2>3. r \in Knock
    BY <1>2, <1>4, <2>1, TailFacts
  <2>4. task'.kind # "rep"
    BY <1>2, <2>2 DEF KnocksTask
  <2>5. QED
    BY <1>1, <2>2, <2>3, <2>4, ObjKnown, ObjEarly DEF OnTradeKnock
<1>5. QED
  BY <1>3, <1>4

LEMMA ObjCheck ==
  ASSUME TypeInv, ObjInv, Check
  PROVE  ObjInv'
<1>1. /\ BookTypes /\ TaskTypes /\ replied' = replied /\ task \in CheckTask
  BY TaskKinds DEF TypeInv, Check, Frame, truthVars
<1>2. PICK m \in Messages, i \in Nat \ {0} : m = task.msg /\ i = task.item
  BY <1>1 DEF CheckTask, Own
<1>3. task'.kind # "rep"
  <2>1. \/ task' = Idle \/ task' = [task EXCEPT !.item = i + 1]
        \/ task' = [kind |-> "pass", msg |-> m, item |-> 1]
    BY <1>2 DEF Check
  <2>2. CASE task' = [task EXCEPT !.item = i + 1]
    BY <1>1, <2>2 DEF CheckTask
  <2>3. QED
    BY <2>1, <2>2 DEF Idle
<1>4. CASE UNCHANGED riskerVars
  BY <1>1, <1>3, <1>4, ObjKept
<1>5. CASE i \in Items(m) /\ CheckItem(m, i)
  <2>1. /\ DOMAIN orders' = DOMAIN orders /\ Grown /\ early' = early /\ book' \subseteq book
        /\ \A o \in DOMAIN orders :
             \/ orders'[o] = orders[o]
             \/ Finished(orders[o]) /\ orders'[o] = [orders[o] EXCEPT !.finish = TRUE]
        /\ DOMAIN single' \subseteq DOMAIN single
        /\ \A n \in DOMAIN single' : single'[n] = single[n]
        /\ DOMAIN batch' \subseteq DOMAIN batch
        /\ \A b \in DOMAIN batch' : batch'[b] = batch[b]
    BY <1>1, <1>5, CheckItemFacts
  <2>2. \A o \in DOMAIN orders : orders'[o] = orders[o] \/ Member(o) \/ o \notin book'
    BY <1>1, <1>5, CheckItemMembers
  <2>3. \A o \in DOMAIN orders : orders'[o].number = orders[o].number
    <3>1. SUFFICES ASSUME NEW o \in DOMAIN orders PROVE orders'[o].number = orders[o].number
      OBVIOUS
    <3>2. PICK x \in Order : x = orders[o]
      BY <1>1, ObjectFacts
    <3>3. orders'[o] = x \/ orders'[o] = [x EXCEPT !.finish = TRUE]
      BY <2>1, <3>2
    <3>4. QED
      BY <3>2, <3>3 DEF Order
  <2>4. EarlyOwn'
    BY <2>1 DEF ObjInv, EarlyOwn
  <2>5. \A o \in DOMAIN orders : orders[o].number = NoNumber =>
          \/ orders'[o] = orders[o]
          \/ o \notin book' /\ orders'[o] = [orders[o] EXCEPT !.finish = TRUE]
    BY <2>1, <2>2, MemberNumbered
  <2>6. QED
    BY <1>1, <1>3, <2>1, <2>3, <2>4, <2>5, ObjFrame
<1>6. QED
  BY <1>2, <1>4, <1>5 DEF Check

LEMMA ObjPass ==
  ASSUME TypeInv, ObjInv, Pass
  PROVE  ObjInv'
<1>1. /\ BookTypes /\ TaskTypes /\ replied' = replied /\ task \in CheckTask /\ now \in Nat
  BY TaskKinds DEF TypeInv, Pass, Frame, truthVars
<1>2. PICK m \in Messages, i \in Nat \ {0} : m = task.msg /\ i = task.item
  BY <1>1 DEF CheckTask, Own
<1>3. task'.kind # "rep"
  <2>1. task' = Idle \/ task' = [task EXCEPT !.item = i + 1]
    BY <1>2 DEF Pass
  <2>2. CASE task' = [task EXCEPT !.item = i + 1]
    BY <1>1, <2>2 DEF CheckTask
  <2>3. QED
    BY <2>1, <2>2 DEF Idle
<1>4. CASE UNCHANGED riskerVars
  BY <1>1, <1>3, <1>4, ObjKept
<1>5. CASE i \in Items(m) /\ PassItem(m, i)
  <2>1. /\ \A o \in DOMAIN orders : orders'[o] = orders[o]
        /\ UNCHANGED <<single, batch, early>>
        /\ DOMAIN orders \subseteq DOMAIN orders'
        /\ \A o \in DOMAIN orders' : o \in DOMAIN orders \/ orders'[o] = NewOrder(m, i, NoNumber)
        /\ \A o \in book' : o \in book \/ o \notin DOMAIN orders
    BY <1>1, <1>5, PassItemFacts DEF Grown
  <2>2. PICK y : y = NewOrder(m, i, NoNumber)
    OBVIOUS
  <2>3. y.number = NoNumber /\ Blank(y) /\ ~y.finish
    BY <1>5, <2>2 DEF NewOrder, Blank, OfItem, VolumeOf
  <2>4. Stems'
    <3>1. SUFFICES ASSUME NEW o \in DOMAIN orders'
                   PROVE  IF orders'[o].number = NoNumber
                          THEN Blank(orders'[o]) /\ (o \in book' => ~orders'[o].finish)
                          ELSE OfItem(orders'[o], orders'[o].number)
                               /\ orders'[o].number[1] \in replied'
      BY DEF Stems, Blank, OfItem, VolumeOf
    <3>2. CASE o \in DOMAIN orders
      BY <1>1, <2>1, <3>2 DEF ObjInv, Stems
    <3>3. CASE o \notin DOMAIN orders
      BY <2>1, <2>2, <2>3, <3>3
    <3>4. QED
      BY <3>2, <3>3
  <2>5. Mapped'
    BY <1>1, <2>1 DEF ObjInv, Mapped, BookTypes
  <2>6. EarlyOwn'
    BY <2>1 DEF ObjInv, EarlyOwn
  <2>7. MembersOwn'
    BY <1>1, <1>3, <2>1 DEF ObjInv, MembersOwn, BookTypes
  <2>8. QED
    BY <2>4, <2>5, <2>6, <2>7 DEF ObjInv
<1>6. QED
  BY <1>2, <1>4, <1>5 DEF Pass

\* The object a reply with a number is about, before and after.
LEMMA ObjChosen ==
  ASSUME BookTypes, ObjInv, DistinctPrices, now \in Nat, NEW m \in Messages, NEW i \in Items(m),
         NEW o, NEW n, n = <<m, i>>, RepItemKnown(m, i, o) \/ RepItemUnknown(m, i, o)
  PROVE  /\ n \in Numbers /\ n[1] = m /\ n[2] = i /\ n # NoNumber
         /\ \/ /\ o \in OfReply(m, i) /\ o \in DOMAIN orders
               /\ orders'[o] = Numbered(orders[o], n)
               /\ orders[o].number = n \/ (orders[o].number = NoNumber /\ Blank(orders[o]))
               /\ OfItem(orders[o], n)
            \/ /\ OfReply(m, i) = {} /\ o \notin DOMAIN orders
               /\ orders'[o] = NewOrder(m, i, n)
         /\ OfItem(orders'[o], n) /\ orders'[o].number = n
<1>1. n \in Numbers /\ n[1] = m /\ n[2] = i /\ n # NoNumber
  BY ItemFacts, NumberFacts
<1>2. \/ /\ o \in OfReply(m, i) /\ o \in DOMAIN orders /\ orders'[o] = Numbered(orders[o], n)
      \/ /\ OfReply(m, i) = {} /\ o \notin DOMAIN orders /\ orders'[o] = NewOrder(m, i, n)
  BY RegisteredObject
<1>3. CASE /\ o \in OfReply(m, i) /\ o \in DOMAIN orders
           /\ orders'[o] = Numbered(orders[o], n)
  <2>1. PICK x \in Order : x = orders[o]
    BY <1>3, ObjectFacts
  <2>2. x.msg = m /\ x.code = m.items[i].code /\ x.price = m.items[i].price
    BY <1>3, <2>1 DEF OfReply
  <2>3. ASSUME NEW j \in Items(m), x.code = m.items[j].code, x.price = m.items[j].price PROVE j = i
    BY <2>2, <2>3 DEF DistinctPrices
  <2>4. (x.number = n \/ (x.number = NoNumber /\ Blank(x))) /\ OfItem(x, n)
    <3>1. CASE x.number = NoNumber
      <4>1. Blank(x)
        BY <1>3, <2>1, <3>1 DEF ObjInv, Stems
      <4>2. PICK j \in Items(m) : OfItem(x, <<m, j>>)
        BY <2>2, <4>1 DEF Blank
      <4>3. j = i
        BY <2>3, <4>2 DEF OfItem
      <4>4. QED
        BY <3>1, <4>1, <4>2, <4>3
    <3>2. CASE x.number # NoNumber
      <4>1. PICK b \in Numbers : b = x.number
        BY <1>3, <2>1, <3>2, ObjectFacts
      <4>2. OfItem(x, b)
        BY <1>3, <2>1, <3>2, <4>1 DEF ObjInv, Stems
      <4>3. b[1] = m /\ b[2] \in Items(m) /\ b = <<b[1], b[2]>>
        BY <2>2, <4>1, <4>2, NumberFacts DEF OfItem
      <4>4. b[2] = i
        BY <2>3, <4>2, <4>3 DEF OfItem
      <4>5. QED
        BY <4>1, <4>2, <4>3, <4>4
    <3>3. QED
      BY <3>1, <3>2
  <2>5. PICK y : y = Numbered(x, n)
    OBVIOUS
  <2>6. /\ y.number = n /\ y.msg = x.msg /\ y.code = x.code /\ y.price = x.price
        /\ y.volume = x.volume
    BY <2>1, <2>5 DEF Numbered, Order
  <2>7. OfItem(y, n)
    BY <2>4, <2>6 DEF OfItem
  <2>8. QED
    BY <1>1, <1>3, <2>1, <2>4, <2>5, <2>6, <2>7
<1>4. CASE OfReply(m, i) = {} /\ o \notin DOMAIN orders /\ orders'[o] = NewOrder(m, i, n)
  <2>1. PICK y : y = NewOrder(m, i, n)
    OBVIOUS
  <2>2. OfItem(y, n) /\ y.number = n
    BY <1>1, <2>1 DEF NewOrder, OfItem, VolumeOf
  <2>3. QED
    BY <1>1, <1>4, <2>1, <2>2
<1>5. QED
  BY <1>2, <1>3, <1>4

LEMMA ObjRegister ==
  ASSUME TypeInv, ObjInv, DistinctPrices, task \in RepTask, replied' = replied,
         NEW m \in Messages, m \in replied, NEW i \in Items(m), m = task.msg, i = task.item,
         NEW o, RegisterReply(m, i, o)
  PROVE  ObjInv'
<1>1. BookTypes /\ TaskTypes /\ now \in Nat
  BY DEF TypeInv
<1>2. RepItemKnown(m, i, o) \/ RepItemUnknown(m, i, o)
  BY DEF RegisterReply
<1>3. PICK n : n = <<m, i>>
  OBVIOUS
<1>4. /\ n \in Numbers /\ n[1] = m /\ n # NoNumber
      /\ \/ /\ o \in DOMAIN orders
            /\ orders[o].number = n \/ (orders[o].number = NoNumber /\ Blank(orders[o]))
         \/ o \notin DOMAIN orders
      /\ OfItem(orders'[o], n) /\ orders'[o].number = n
  BY <1>1, <1>2, <1>3, ObjChosen
<1>5. /\ BookTypes' /\ Grown /\ o \in DOMAIN orders' /\ batch' = batch
      /\ \A p \in book' : p \in book \/ p = o
      /\ \A p \in DOMAIN orders' : p \in DOMAIN orders \/ p = o
      /\ \A p \in DOMAIN orders : p # o => orders'[p] = orders[p]
      /\ single'[n] = o
      /\ \A k \in DOMAIN single' : k = n \/ (k \in DOMAIN single /\ single'[k] = single[k])
      /\ \A k \in DOMAIN early' : k # n /\ k \in DOMAIN early /\ early'[k] = early[k]
  BY <1>1, <1>2, <1>3, RegisteredFacts
<1>6. Stems'
  <2>1. SUFFICES ASSUME NEW p \in DOMAIN orders'
                 PROVE  IF orders'[p].number = NoNumber
                        THEN Blank(orders'[p]) /\ (p \in book' => ~orders'[p].finish)
                        ELSE OfItem(orders'[p], orders'[p].number)
                             /\ orders'[p].number[1] \in replied'
    BY DEF Stems, Blank, OfItem, VolumeOf
  <2>2. CASE p = o
    BY <1>4, <2>2
  <2>3. CASE p # o
    <3>1. p \in DOMAIN orders /\ orders'[p] = orders[p] /\ (p \in book' => p \in book)
      BY <1>5, <2>3
    <3>2. QED
      BY <3>1 DEF ObjInv, Stems
  <2>4. QED
    BY <2>2, <2>3
<1>7. Mapped'
  <2>1. SUFFICES ASSUME NEW k \in DOMAIN single' PROVE orders'[single'[k]].number = k
    BY DEF Mapped
  <2>2. CASE k = n
    BY <1>4, <1>5, <2>2
  <2>3. CASE k # n
    <3>1. PICK p \in DOMAIN orders : p = single[k] /\ p = single'[k] /\ orders[p].number = k
      BY <1>1, <1>5, <2>1, <2>3 DEF BookTypes, ObjInv, Mapped
    <3>2. k # NoNumber
      BY <1>1, <1>5, <2>1, <2>3, NumberFacts DEF BookTypes
    <3>3. p # o
      BY <1>4, <2>3, <3>1, <3>2
    <3>4. QED
      BY <1>5, <3>1, <3>3
  <2>4. QED
    BY <2>2, <2>3
<1>8. EarlyOwn'
  BY <1>5 DEF ObjInv, EarlyOwn
<1>9. \A p \in DOMAIN orders : /\ orders'[p].msg = orders[p].msg
                               /\ orders[p].number # NoNumber => orders'[p].number # NoNumber
  BY <1>4, <1>5 DEF Grown, Like
<1>10. \A b \in DOMAIN batch' : \A k \in DOMAIN batch'[b] :
         orders'[batch'[b][k]].number # NoNumber /\ orders'[batch'[b][k]].msg = b
  <2>1. SUFFICES ASSUME NEW b \in DOMAIN batch, NEW k \in DOMAIN batch[b]
                 PROVE  orders'[batch[b][k]].number # NoNumber /\ orders'[batch[b][k]].msg = b
    BY <1>5
  <2>2. PICK p \in DOMAIN orders : p = batch[b][k]
    BY <1>1 DEF BookTypes
  <2>3. orders[p].number # NoNumber /\ orders[p].msg = b
    BY <2>2 DEF ObjInv, MembersOwn
  <2>4. QED
    BY <1>9, <2>2, <2>3
<1>11. /\ task'.kind = "rep" /\ task'.msg = m
       /\ task'.members = IF IsBatch(m) THEN Append(task.members, o) ELSE task.members
  <2>1. PICK e : e = IF n \in DOMAIN early THEN early[n] ELSE task.knocks
    OBVIOUS
  <2>2. PICK s : s = IF IsBatch(m) THEN Append(task.members, o) ELSE task.members
    OBVIOUS
  <2>3. task' = [task EXCEPT !.item = i + 1, !.members = s, !.knocks = e]
    BY <1>3, <2>1, <2>2 DEF RegisterReply
  <2>4. QED
    BY <2>2, <2>3 DEF RepTask
<1>12. \A k \in DOMAIN task'.members :
         orders'[task'.members[k]].number # NoNumber /\ orders'[task'.members[k]].msg = m
  <2>1. \A k \in DOMAIN task.members :
          orders'[task.members[k]].number # NoNumber /\ orders'[task.members[k]].msg = m
    <3>1. SUFFICES ASSUME NEW k \in DOMAIN task.members
                   PROVE  /\ orders'[task.members[k]].number # NoNumber
                          /\ orders'[task.members[k]].msg = m
      OBVIOUS
    <3>2. PICK p \in DOMAIN orders : p = task.members[k]
      BY <1>1 DEF TaskTypes, RepTask
    <3>3. orders[p].number # NoNumber /\ orders[p].msg = m
      BY <3>2 DEF ObjInv, MembersOwn, RepTask
    <3>4. QED
      BY <1>9, <3>2, <3>3
  <2>2. orders'[o].number # NoNumber /\ orders'[o].msg = m
    BY <1>4 DEF OfItem
  <2>3. PICK t : t = Append(task.members, o)
    OBVIOUS
  <2>4. PICK l : l = Len(task.members) + 1
    OBVIOUS
  <2>5. task.members \in Seq(Nat) /\ o \in Nat
    BY <1>5 DEF RepTask, BookTypes
  <2>6. /\ DOMAIN t = DOMAIN task.members \cup {l} /\ t[l] = o
        /\ \A k \in DOMAIN task.members : t[k] = task.members[k]
    BY <2>3, <2>4, <2>5, AppendFacts
  <2>7. task'.members = t \/ task'.members = task.members
    BY <1>11, <2>3
  <2>8. QED
    BY <2>1, <2>2, <2>6, <2>7
<1>13. MembersOwn'
  BY <1>10, <1>11, <1>12 DEF MembersOwn
<1>14. QED
  BY <1>6, <1>7, <1>8, <1>13 DEF ObjInv

LEMMA ObjRep ==
  ASSUME TypeInv, HandInv, ObjInv, DistinctPrices, HandleRep
  PROVE  ObjInv'
<1>1. BookTypes /\ TaskTypes /\ replied' = replied
  BY DEF TypeInv, HandleRep, Frame, truthVars
<1>2. task \in RepTask /\ task.kind = "rep" /\ task.msg \in replied
  BY <1>1, TaskKinds DEF HandleRep, HandInv, RepliesSettled
<1>3. PICK m \in Messages, i \in Nat \ {0} : m = task.msg /\ i = task.item
  BY <1>2 DEF RepTask
<1>4. ASSUME task' = [task EXCEPT !.item = i + 1]
      PROVE  task'.kind = "rep" /\ task'.members = task.members /\ task'.msg = task.msg
  BY <1>2, <1>4 DEF RepTask
<1>5. CASE i \in Items(m) /\ ~Guards(m, i)
  <2>1. UNCHANGED riskerVars /\ task' = [task EXCEPT !.item = i + 1]
    BY <1>3, <1>5 DEF HandleRep
  <2>2. QED
    BY <1>1, <1>2, <1>4, <2>1, ObjKept
<1>6. CASE i \in Items(m) /\ Guards(m, i) /\ i \notin task.accepted
  <2>1. RepItemRejected(m, i) /\ task' = [task EXCEPT !.item = i + 1]
    BY <1>3, <1>6 DEF HandleRep
  <2>2. Grown /\ UNCHANGED <<orders, single, batch, early>> /\ book' \subseteq book
    BY <1>1, <1>6, <2>1, RejectedFacts
  <2>3. EarlyOwn'
    BY <2>2 DEF ObjInv, EarlyOwn
  <2>4. QED
    BY <1>1, <1>2, <1>4, <2>1, <2>2, <2>3, ObjFrame
<1>7. CASE i \in Items(m) /\ Guards(m, i) /\ i \in task.accepted
  <2>1. PICK o : RegisterReply(m, i, o)
    BY <1>3, <1>7 DEF HandleRep
  <2>2. QED
    BY <1>1, <1>2, <1>3, <1>7, <2>1, ObjRegister
<1>8. CASE i \notin Items(m)
  <2>1. RegisterBatch(m, task.members) /\ task' = [kind |-> "knocks", rest |-> task.knocks]
    BY <1>3, <1>8 DEF HandleRep
  <2>2. task.members \in Seq(Nat) /\ \A k \in DOMAIN task.members : task.members[k] \in DOMAIN orders
    BY <1>1, <1>2 DEF RepTask, TaskTypes
  <2>3. /\ UNCHANGED <<orders, book, single, early>>
        /\ \/ batch' = batch
           \/ /\ DOMAIN batch' = DOMAIN batch \cup {m} /\ batch'[m] = task.members
              /\ \A b \in DOMAIN batch : b # m => batch'[b] = batch[b]
    BY <1>1, <2>1, <2>2, BatchFacts
  <2>4. Stems' /\ Mapped' /\ EarlyOwn'
    BY <1>1, <2>3 DEF ObjInv, Stems, Mapped, EarlyOwn
  <2>5. \A k \in DOMAIN task.members :
          orders[task.members[k]].number # NoNumber /\ orders[task.members[k]].msg = m
    BY <1>2, <1>3 DEF ObjInv, MembersOwn
  <2>6. MembersOwn'
    <3>1. task'.kind # "rep"
      BY <2>1
    <3>2. \A b \in DOMAIN batch' : \A k \in DOMAIN batch'[b] :
            orders[batch'[b][k]].number # NoNumber /\ orders[batch'[b][k]].msg = b
      <4>1. CASE batch' = batch
        BY <4>1 DEF ObjInv, MembersOwn
      <4>2. CASE batch' # batch
        <5>1. SUFFICES ASSUME NEW b \in DOMAIN batch', NEW k \in DOMAIN batch'[b]
                       PROVE  orders[batch'[b][k]].number # NoNumber /\ orders[batch'[b][k]].msg = b
          OBVIOUS
        <5>2. CASE b = m
          BY <2>3, <2>5, <4>2, <5>1, <5>2
        <5>3. CASE b # m
          <6>1. b \in DOMAIN batch /\ batch'[b] = batch[b]
            BY <2>3, <4>2, <5>1, <5>3
          <6>2. QED
            BY <5>1, <6>1 DEF ObjInv, MembersOwn
        <5>4. QED
          BY <5>2, <5>3
      <4>3. QED
        BY <4>1, <4>2
    <3>3. QED
      BY <2>3, <3>1, <3>2 DEF MembersOwn
  <2>7. QED
    BY <2>4, <2>6 DEF ObjInv
<1>9. QED
  BY <1>5, <1>6, <1>7, <1>8

LEMMA ObjInvInit ==
  ASSUME Init
  PROVE  ObjInv
<1>1. /\ orders = <<>> /\ DOMAIN single = {} /\ DOMAIN early = {} /\ DOMAIN batch = {}
      /\ task.kind = "idle"
  BY DEF Init, Idle
<1>2. QED
  BY <1>1 DEF ObjInv, Stems, Mapped, EarlyOwn, MembersOwn

LEMMA ObjInvStep ==
  ASSUME TypeInv, HandInv, ObjInv, DistinctPrices, [Next]_vars
  PROVE  ObjInv'
BY ObjOutside, ObjTake, ObjCheck, ObjPass, ObjRep, ObjReplay DEF Next, RiskThread

-----------------------------------------------------------------------------
(* What has been counted. *)

\* The early knocks the risk thread has in hand.
InHand == IF task.kind = "rep" THEN task.knocks ELSE IF task.kind = "knocks" THEN task.rest ELSE <<>>
\* A trade of the order was pushed twice.
Doubled(n) == \E r \in again : r.number = n
\* Trade k waits at position j of place p for the risk thread to count it.
TradeAt(p, j, k) ==
  /\ k.kind = "knock" /\ k.type = "trade" /\ ~Doubled(k.number)
  /\ \/ p = "returns" /\ j = 0 /\ k \in returns
     \/ p = "queue" /\ j \in DOMAIN tradeQueue /\ tradeQueue[j] = k
     \/ p = "early" /\ k.number \in DOMAIN early /\ j \in DOMAIN early[k.number]
          /\ early[k.number][j] = k
     \/ p = "hand" /\ j \in DOMAIN InHand /\ InHand[j] = k

\* The lots of an order, counted from the last to be traded: trade k is that of the
\* lots k.left + 1 .. k.left + k.volume.
Apart(k, l) == k.left + k.volume <= l.left \/ l.left + l.volume <= k.left
Misses(u, k) == u <= k.left \/ u > k.left + k.volume

TradesBounded ==
  /\ \A n \in Numbers : left[n] <= VolumeOf(n)
  /\ \A p, j, k : TradeAt(p, j, k) =>
       left[k.number] <= k.left /\ k.left + k.volume <= VolumeOf(k.number)
TradesApart ==
  \A p, j, k, q, i, l :
    TradeAt(p, j, k) /\ TradeAt(q, i, l) /\ k.number = l.number /\ ~(p = q /\ j = i /\ k = l)
      => Apart(k, l)
\* The lots C of number n are x, traded, and not told by a trade that waits.
Lots(C, n, x) ==
  /\ C \subseteq (left[n] + 1) .. VolumeOf(n) /\ Cardinality(C) = x
  /\ \A p, j, k : TradeAt(p, j, k) /\ k.number = n => \A u \in C : Misses(u, k)
Counted ==
  \A o \in DOMAIN orders : orders[o].number # NoNumber /\ ~Doubled(orders[o].number) =>
    \E C : Lots(C, orders[o].number, orders[o].matched)

CountInv == TradesBounded /\ TradesApart /\ Counted

\* Trades that wait are knocks of this broker.
LEMMA TradeKinds ==
  ASSUME TypeInv, NEW p, NEW j, NEW k, TradeAt(p, j, k)
  PROVE  /\ k \in Knock /\ k.number \in Numbers /\ k.volume \in Nat /\ k.left \in Nat
         /\ left[k.number] \in Nat /\ VolumeOf(k.number) \in Nat \ {0}
<1>1. k \in Knock
  <2>1. CASE p = "returns"
    BY <2>1, QueuedKinds DEF TradeAt, Doubled, TypeInv, Queued
  <2>2. CASE p = "queue"
    BY <2>2, QueuedKinds DEF TradeAt, Doubled, TypeInv
  <2>3. CASE p = "early"
    BY <2>3 DEF TradeAt, Doubled, TypeInv, BookTypes
  <2>4. CASE p = "hand"
    <3>1. InHand \in Seq(Knock)
      BY TaskKinds DEF InHand, TypeInv, TaskTypes, RepTask, KnocksTask
    <3>2. QED
      BY <2>4, <3>1 DEF TradeAt, Doubled
  <2>5. QED
    BY <2>1, <2>2, <2>3, <2>4 DEF TradeAt, Doubled
<1>2. k.number \in Numbers /\ k.volume \in Nat /\ k.left \in Nat
  BY <1>1 DEF Knock
<1>3. left[k.number] \in Nat
  BY <1>2 DEF TypeInv
<1>4. VolumeOf(k.number) \in Nat \ {0}
  BY <1>2, NumberFacts DEF VolumeOf, ItemType
<1>5. QED
  BY <1>1, <1>2, <1>3, <1>4

\* The volume counted for an order is at most what has been traded of it.
Within ==
  \A o \in DOMAIN orders : orders[o].number # NoNumber /\ ~Doubled(orders[o].number) =>
    orders[o].matched <= VolumeOf(orders[o].number) - left[orders[o].number]

LEMMA WithinHolds ==
  ASSUME TypeInv, CountInv
  PROVE  Within
<1>1. SUFFICES ASSUME NEW o \in DOMAIN orders, orders[o].number # NoNumber,
                      ~Doubled(orders[o].number)
               PROVE  orders[o].matched <= VolumeOf(orders[o].number) - left[orders[o].number]
  BY DEF Within
<1> DEFINE n == orders[o].number
<1>2. n \in Numbers /\ left[n] \in Nat /\ VolumeOf(n) \in Nat /\ left[n] <= VolumeOf(n)
  <2>1. n \in Numbers
    BY <1>1, ObjectFacts DEF TypeInv
  <2>2. QED
    BY <2>1, NumberFacts DEF TypeInv, VolumeOf, ItemType, CountInv, TradesBounded
<1>3. PICK C : Lots(C, n, orders[o].matched)
  BY <1>1 DEF CountInv, Counted, Doubled
<1>4. /\ IsFiniteSet((left[n] + 1) .. VolumeOf(n))
      /\ Cardinality((left[n] + 1) .. VolumeOf(n)) = VolumeOf(n) - left[n]
  <2>1. left[n] + 1 \in Int /\ VolumeOf(n) \in Int
    BY <1>2
  <2>2. /\ IsFiniteSet((left[n] + 1) .. VolumeOf(n))
        /\ Cardinality((left[n] + 1) .. VolumeOf(n)) =
             IF left[n] + 1 > VolumeOf(n) THEN 0 ELSE VolumeOf(n) - (left[n] + 1) + 1
    BY <2>1, FS_Interval
  <2>3. QED
    BY <1>2, <2>2
<1>5. Cardinality(C) <= Cardinality((left[n] + 1) .. VolumeOf(n))
  BY <1>3, <1>4, FS_Subset DEF Lots
<1>6. QED
  BY <1>3, <1>4, <1>5 DEF Lots

\* Nothing is counted: what waits is where it was, or gone.
LEMMA WaitingStays ==
  ASSUME TradesApart, \A p, j, k : TradeAt(p, j, k)' => TradeAt(p, j, k)
  PROVE  TradesApart' /\ \A p, j, k : TradeAt(p, j, k)' => \E q, i : TradeAt(q, i, k)
<1>1. \A p, j, k, q, i, l :
        TradeAt(p, j, k)' /\ TradeAt(q, i, l)' /\ k.number = l.number /\ ~(p = q /\ j = i /\ k = l)
          => Apart(k, l)
  BY DEF TradesApart
<1>2. TradesApart'
  BY <1>1 DEF TradesApart, Apart
<1>3. QED
  BY <1>2
\* One trade moves: the first that waits in the queue or in hand is taken out; it may
\* be kept as an early knock.
LEMMA FirstTaken ==
  ASSUME TradesApart, NEW c \in {"queue", "hand"}, NEW k0, NEW e,
         \A k : k.number = k0.number => ~TradeAt("early", e, k),
         \A p, j, k : TradeAt(p, j, k)' =>
           \/ p = c /\ j \in Nat \ {0} /\ TradeAt(p, j + 1, k)
           \/ p # c /\ TradeAt(p, j, k)
           \/ p = "early" /\ j = e /\ k = k0 /\ TradeAt(c, 1, k0)
  PROVE  TradesApart' /\ \A p, j, k : TradeAt(p, j, k)' => \E q, i : TradeAt(q, i, k)
<1>1. \A p, j, k, q, i, l :
        TradeAt(p, j, k)' /\ TradeAt(q, i, l)' /\ k.number = l.number /\ ~(p = q /\ j = i /\ k = l)
          => Apart(k, l)
  <2>1. SUFFICES ASSUME NEW p, NEW j, NEW k, NEW q, NEW i, NEW l,
                        TradeAt(p, j, k)', TradeAt(q, i, l)', k.number = l.number,
                        ~(p = q /\ j = i /\ k = l)
                 PROVE  Apart(k, l)
    OBVIOUS
  <2>2. \/ p = c /\ j \in Nat \ {0} /\ TradeAt(p, j + 1, k)
        \/ p # c /\ TradeAt(p, j, k)
        \/ p = "early" /\ j = e /\ k = k0 /\ TradeAt(c, 1, k0)
    BY <2>1
  <2>3. \/ q = c /\ i \in Nat \ {0} /\ TradeAt(q, i + 1, l)
        \/ q # c /\ TradeAt(q, i, l)
        \/ q = "early" /\ i = e /\ l = k0 /\ TradeAt(c, 1, k0)
    BY <2>1
  <2>4. \A p1, j1, q1, i1 :
          TradeAt(p1, j1, k) /\ TradeAt(q1, i1, l) /\ ~(p1 = q1 /\ j1 = i1 /\ k = l) => Apart(k, l)
    BY <2>1 DEF TradesApart
  <2>5. CASE p = c /\ j \in Nat \ {0} /\ TradeAt(p, j + 1, k)
    <3>1. CASE q = c /\ i \in Nat \ {0} /\ TradeAt(q, i + 1, l)
      <4>1. j + 1 = i + 1 => j = i
        BY <2>5, <3>1
      <4>2. QED
        BY <2>1, <2>4, <2>5, <3>1, <4>1
    <3>2. CASE q # c /\ TradeAt(q, i, l)
      BY <2>4, <2>5, <3>2
    <3>3. CASE q = "early" /\ i = e /\ l = k0 /\ TradeAt(c, 1, k0)
      <4>1. j + 1 # 1
        BY <2>5
      <4>2. QED
        BY <2>4, <2>5, <3>3, <4>1
    <3>4. QED
      BY <2>3, <3>1, <3>2, <3>3
  <2>6. CASE p # c /\ TradeAt(p, j, k)
    <3>1. CASE q = c /\ i \in Nat \ {0} /\ TradeAt(q, i + 1, l)
      BY <2>4, <2>6, <3>1
    <3>2. CASE q # c /\ TradeAt(q, i, l)
      BY <2>1, <2>4, <2>6, <3>2
    <3>3. CASE q = "early" /\ i = e /\ l = k0 /\ TradeAt(c, 1, k0)
      BY <2>4, <2>6, <3>3
    <3>4. QED
      BY <2>3, <3>1, <3>2, <3>3
  <2>7. CASE p = "early" /\ j = e /\ k = k0 /\ TradeAt(c, 1, k0)
    <3>1. CASE q = c /\ i \in Nat \ {0} /\ TradeAt(q, i + 1, l)
      <4>1. i + 1 # 1
        BY <3>1
      <4>2. QED
        BY <2>4, <2>7, <3>1, <4>1
    <3>2. CASE q # c /\ TradeAt(q, i, l)
      BY <2>4, <2>7, <3>2
    <3>3. CASE q = "early" /\ i = e /\ l = k0 /\ TradeAt(c, 1, k0)
      BY <2>1, <2>7, <3>3
    <3>4. QED
      BY <2>3, <3>1, <3>2, <3>3
  <2>8. QED
    BY <2>2, <2>5, <2>6, <2>7
<1>2. TradesApart'
  BY <1>1 DEF TradesApart, Apart
<1>3. QED
  BY <1>2

\* The main thread passes a knock on.
LEMMA LastPut ==
  ASSUME TradesApart, NEW r, NEW e, \A k : ~TradeAt("queue", e, k),
         \A p, j, k : TradeAt(p, j, k)' =>
           \/ TradeAt(p, j, k) /\ ~(p = "returns" /\ k = r)
           \/ p = "queue" /\ j = e /\ k = r /\ TradeAt("returns", 0, r)
  PROVE  TradesApart' /\ \A p, j, k : TradeAt(p, j, k)' => \E q, i : TradeAt(q, i, k)
<1>1. \A p, j, k, q, i, l :
        TradeAt(p, j, k)' /\ TradeAt(q, i, l)' /\ k.number = l.number /\ ~(p = q /\ j = i /\ k = l)
          => Apart(k, l)
  <2>1. SUFFICES ASSUME NEW p, NEW j, NEW k, NEW q, NEW i, NEW l,
                        TradeAt(p, j, k)', TradeAt(q, i, l)', k.number = l.number,
                        ~(p = q /\ j = i /\ k = l)
                 PROVE  Apart(k, l)
    OBVIOUS
  <2>2. \/ TradeAt(p, j, k) /\ ~(p = "returns" /\ k = r)
        \/ p = "queue" /\ j = e /\ k = r /\ TradeAt("returns", 0, r)
    BY <2>1
  <2>3. \/ TradeAt(q, i, l) /\ ~(q = "returns" /\ l = r)
        \/ q = "queue" /\ i = e /\ l = r /\ TradeAt("returns", 0, r)
    BY <2>1
  <2>4. \A p1, j1, q1, i1 :
          TradeAt(p1, j1, k) /\ TradeAt(q1, i1, l) /\ ~(p1 = q1 /\ j1 = i1 /\ k = l) => Apart(k, l)
    BY <2>1 DEF TradesApart
  <2>5. QED
    BY <2>1, <2>2, <2>3, <2>4
<1>2. TradesApart'
  BY <1>1 DEF TradesApart, Apart
<1>3. QED
  BY <1>2

\* The reply to an order takes its early knocks in hand, instead of those there.
LEMMA EarlyTaken ==
  ASSUME TradesApart, NEW n,
         \A p, j, k : TradeAt(p, j, k)' =>
           \/ TradeAt(p, j, k) /\ p # "hand" /\ ~(p = "early" /\ k.number = n)
           \/ p = "hand" /\ k.number = n /\ TradeAt("early", j, k)
  PROVE  TradesApart' /\ \A p, j, k : TradeAt(p, j, k)' => \E q, i : TradeAt(q, i, k)
<1>1. \A p, j, k, q, i, l :
        TradeAt(p, j, k)' /\ TradeAt(q, i, l)' /\ k.number = l.number /\ ~(p = q /\ j = i /\ k = l)
          => Apart(k, l)
  <2>1. SUFFICES ASSUME NEW p, NEW j, NEW k, NEW q, NEW i, NEW l,
                        TradeAt(p, j, k)', TradeAt(q, i, l)', k.number = l.number,
                        ~(p = q /\ j = i /\ k = l)
                 PROVE  Apart(k, l)
    OBVIOUS
  <2>2. \/ TradeAt(p, j, k) /\ p # "hand" /\ ~(p = "early" /\ k.number = n)
        \/ p = "hand" /\ k.number = n /\ TradeAt("early", j, k)
    BY <2>1
  <2>3. \/ TradeAt(q, i, l) /\ q # "hand" /\ ~(q = "early" /\ l.number = n)
        \/ q = "hand" /\ l.number = n /\ TradeAt("early", i, l)
    BY <2>1
  <2>4. \A p1, j1, q1, i1 :
          TradeAt(p1, j1, k) /\ TradeAt(q1, i1, l) /\ ~(p1 = q1 /\ j1 = i1 /\ k = l) => Apart(k, l)
    BY <2>1 DEF TradesApart
  <2>5. QED
    BY <2>1, <2>2, <2>3, <2>4
<1>2. TradesApart'
  BY <1>1 DEF TradesApart, Apart
<1>3. QED
  BY <1>2

\* The lots counted for an object stay what they are while trades only move.
LEMMA LotsStay ==
  ASSUME UNCHANGED left, \A p, j, k : TradeAt(p, j, k)' => \E q, i : TradeAt(q, i, k),
         NEW C, NEW n, NEW x, Lots(C, n, x)
  PROVE  Lots(C, n, x)'
<1>1. \A p, j, k : TradeAt(p, j, k)' /\ k.number = n => \A u \in C : Misses(u, k)
  BY DEF Lots
<1>2. QED
  BY <1>1 DEF Lots, VolumeOf, Misses

\* Nothing has been counted for an object that is new.
LEMMA NoLots ==
  ASSUME NEW n
  PROVE  \E C : Lots(C, n, 0)
<1>1. Cardinality({}) = 0
  BY FS_EmptySet
<1>2. Lots({}, n, 0)
  BY <1>1 DEF Lots
<1>3. QED
  BY <1>2

\* A step that counts no trade.
LEMMA CountFrame ==
  ASSUME CountInv, UNCHANGED left, again \subseteq again', TradesApart',
         \A p, j, k : TradeAt(p, j, k)' => \E q, i : TradeAt(q, i, k),
         \A o \in DOMAIN orders' :
           \/ orders'[o].matched = 0
           \/ /\ o \in DOMAIN orders /\ orders'[o].number = orders[o].number
              /\ orders'[o].matched = orders[o].matched
  PROVE  CountInv'
<1>1. TradesBounded'
  <2>1. \A p, j, k : TradeAt(p, j, k)' =>
          left[k.number] <= k.left /\ k.left + k.volume <= VolumeOf(k.number)
    BY DEF CountInv, TradesBounded
  <2>2. QED
    BY <2>1 DEF CountInv, TradesBounded, VolumeOf
<1>2. Counted'
  <2>1. SUFFICES ASSUME NEW o \in DOMAIN orders', orders'[o].number # NoNumber,
                        NEW n, n = orders'[o].number, NEW x, x = orders'[o].matched, ~Doubled(n)
                 PROVE  \E C : Lots(C, n, x)'
    BY DEF Counted, Lots, VolumeOf, Doubled
  <2>2. \E C : Lots(C, n, x)
    <3>1. CASE x = 0
      BY <3>1, NoLots
    <3>2. CASE o \in DOMAIN orders /\ n = orders[o].number /\ x = orders[o].matched
      BY <2>1, <3>2 DEF CountInv, Counted
    <3>3. QED
      BY <2>1, <3>1, <3>2
  <2>3. QED
    BY <2>2, LotsStay
<1>3. QED
  BY <1>1, <1>2 DEF CountInv

\* Requests, replies and what the counter does to orders count no trade.
LEMMA CountAround ==
  ASSUME TypeInv, ObjInv, CountInv, UNCHANGED <<riskerVars, task, left, again>>,
         \A r \in returns' : r.kind = "knock" /\ r.type = "trade" => r \in returns,
         \A j \in DOMAIN tradeQueue' : tradeQueue'[j].kind = "knock" =>
           j \in DOMAIN tradeQueue /\ tradeQueue'[j] = tradeQueue[j]
  PROVE  CountInv'
<1>1. \A p, j, k : TradeAt(p, j, k)' => TradeAt(p, j, k)
  BY DEF TradeAt, Doubled, InHand, riskerVars
<1>2. /\ TradesApart'
      /\ \A p, j, k : TradeAt(p, j, k)' => \E q, i : TradeAt(q, i, k)
  BY <1>1, WaitingStays DEF CountInv
<1>4. UNCHANGED orders
  BY DEF riskerVars
<1>5. QED
  BY <1>2, <1>4, CountFrame

LEMMA CountOutside ==
  ASSUME TypeInv, ObjInv, CountInv,
         \/ Tick \/ Collect \/ CollectWithdraw \/ ReadRep
         \/ \E m \in Messages :
              \/ Request(m) \/ ForeignOrder(m)
              \/ \E accepted \in SUBSET Items(m) : CounterReply(m, accepted)
              \/ \E i \in 0 .. Len(m.items) : RequestWithdraw(m, i)
              \/ \E ok \in BOOLEAN : Withdraw(m, ok)
         \/ \E n \in Numbers : \E type \in {"withdrawn", "failed"} : End(n, type)
  PROVE  CountInv'
<1>1. tradeQueue \in Seq(Queued)
  BY DEF TypeInv
<1>2. UNCHANGED <<riskerVars, task, left, again>>
  BY DEF Tick, Collect, CollectWithdraw, ReadRep, Request, ForeignOrder, CounterReply,
     RequestWithdraw, Withdraw, End, truthVars
<1>3. \A r \in returns' : r.kind = "knock" /\ r.type = "trade" => r \in returns
  <2>1. ASSUME NEW n \in Numbers, NEW type \in {"withdrawn", "failed"}, End(n, type)
        PROVE  \A r \in returns' : r.kind = "knock" /\ r.type = "trade" => r \in returns
    <3>1. type # "trade"
      BY <2>1
    <3>2. QED
      BY <2>1, <3>1 DEF End
  <2>2. ASSUME NEW m \in Messages, NEW ok \in BOOLEAN, Withdraw(m, ok)
        PROVE  \A r \in returns' : r.kind = "knock" /\ r.type = "trade" => r \in returns
    <3>1. SUFFICES ASSUME NEW r \in returns', r.kind = "knock", r.type = "trade",
                          r \notin returns
                   PROVE  FALSE
      OBVIOUS
    <3>2. PICK i : i = withdrawal[m].item
      OBVIOUS
    <3>3. \/ r = [kind |-> "wrep", msg |-> m, item |-> i, ok |-> ok]
          \/ \E n : r = [kind |-> "knock", number |-> n, type |-> "withdrawn",
                         volume |-> left[n], left |-> left[n]]
      BY <2>2, <3>1, <3>2 DEF Withdraw
    <3>4. QED
      BY <3>1, <3>3
  <2>3. ASSUME NEW m \in Messages, NEW accepted, CounterReply(m, accepted)
        PROVE  \A r \in returns' : r.kind = "knock" /\ r.type = "trade" => r \in returns
    BY <2>3 DEF CounterReply
  <2>4. ASSUME Collect
        PROVE  \A r \in returns' : r.kind = "knock" /\ r.type = "trade" => r \in returns
    <3>1. CASE asyncResult = ""
      BY <2>4, <3>1 DEF Collect
    <3>2. CASE asyncResult # ""
      <4>1. PICK x : x = [kind |-> "rep", msg |-> caller.msg, accepted |-> {}]
        OBVIOUS
      <4>2. returns' = returns \cup {x}
        BY <2>4, <3>2, <4>1 DEF Collect
      <4>3. x.kind # "knock"
        BY <4>1
      <4>4. QED
        BY <4>2, <4>3
    <3>3. QED
      BY <3>1, <3>2
  <2>5. CASE UNCHANGED returns
    BY <2>5
  <2>6. QED
    BY <2>1, <2>2, <2>3, <2>4, <2>5 DEF Tick, CollectWithdraw, ReadRep, Request, ForeignOrder,
       RequestWithdraw, truthVars
<1>4. ASSUME NEW r \in Queued, r.kind # "knock", tradeQueue' = Append(tradeQueue, r)
      PROVE  \A j \in DOMAIN tradeQueue' : tradeQueue'[j].kind = "knock" =>
                j \in DOMAIN tradeQueue /\ tradeQueue'[j] = tradeQueue[j]
  BY <1>1, <1>4, AppendFacts
<1>5. ASSUME UNCHANGED tradeQueue
      PROVE  \A j \in DOMAIN tradeQueue' : tradeQueue'[j].kind = "knock" =>
                j \in DOMAIN tradeQueue /\ tradeQueue'[j] = tradeQueue[j]
  BY <1>5
<1>6. ASSUME NEW m \in Messages, Request(m) PROVE CountInv'
  <2>1. PICK r : r = [kind |-> "order", msg |-> m]
    OBVIOUS
  <2>2. r \in Queued /\ r.kind # "knock"
    BY <2>1 DEF Queued, OrderRequest
  <2>3. tradeQueue' = Append(tradeQueue, r)
    BY <1>6, <2>1 DEF Request
  <2>4. QED
    BY <1>2, <1>3, <1>4, <2>2, <2>3, CountAround
<1>7. ASSUME NEW m \in Messages, NEW i \in 0 .. Len(m.items), RequestWithdraw(m, i)
      PROVE  CountInv'
  <2>1. PICK r : r = [kind |-> "withdraw", msg |-> m, item |-> i]
    OBVIOUS
  <2>2. r \in Queued /\ r.kind # "knock"
    <3>1. i \in Nat
      BY ItemsFacts
    <3>2. QED
      BY <2>1, <3>1 DEF Queued, WithdrawRequest
  <2>3. tradeQueue' = Append(tradeQueue, r)
    BY <1>7, <2>1 DEF RequestWithdraw
  <2>4. QED
    BY <1>2, <1>3, <1>4, <2>2, <2>3, CountAround
<1>8. CASE UNCHANGED tradeQueue
  BY <1>2, <1>3, <1>5, <1>8, CountAround
<1>9. QED
  BY <1>6, <1>7, <1>8 DEF Tick, Collect, CollectWithdraw, ReadRep, ForeignOrder, CounterReply,
     Withdraw, End

\* A trade takes lots nobody was told of yet.
LEMMA CountTrade ==
  ASSUME TypeInv, ObjInv, CountInv, NEW n \in Numbers, NEW v \in 1 .. left[n], Trade(n, v)
  PROVE  CountInv'
<1>1. PICK r : r = [kind |-> "knock", number |-> n, type |-> "trade", volume |-> v,
                    left |-> left[n] - v]
  OBVIOUS
<1>2. /\ left[n] \in Nat /\ v \in Nat \ {0} /\ v <= left[n] /\ left[n] - v \in Nat
      /\ VolumeOf(n) \in Nat /\ left[n] <= VolumeOf(n)
  BY NumberFacts DEF TypeInv, VolumeOf, ItemType, CountInv, TradesBounded
<1>3. /\ returns' = returns \cup {r} /\ UNCHANGED <<riskerVars, task, tradeQueue, again>>
      /\ left' = [left EXCEPT ![n] = left[n] - v]
  BY <1>1 DEF Trade
<1>4. /\ DOMAIN left = Numbers /\ left'[n] = left[n] - v
      /\ \A b \in Numbers : b # n => left'[b] = left[b]
  BY <1>3 DEF TypeInv
<1>5. \A p, j, k : TradeAt(p, j, k)' => TradeAt(p, j, k) \/ (p = "returns" /\ j = 0 /\ k = r)
  BY <1>3 DEF TradeAt, Doubled, InHand, riskerVars
<1>6. \A p, j, k : TradeAt(p, j, k) =>
        /\ left[k.number] <= k.left /\ k.left + k.volume <= VolumeOf(k.number)
        /\ k.number \in Numbers /\ k.left \in Nat /\ k.volume \in Nat
  BY TradeKinds DEF CountInv, TradesBounded
<1>7. TradesBounded'
  <2>1. \A b \in Numbers : left'[b] <= VolumeOf(b)
    BY <1>2, <1>4 DEF CountInv, TradesBounded
  <2>2. \A p, j, k : TradeAt(p, j, k) =>
          left'[k.number] <= k.left /\ k.left + k.volume <= VolumeOf(k.number)
    BY <1>2, <1>4, <1>6
  <2>3. left'[r.number] <= r.left /\ r.left + r.volume <= VolumeOf(r.number)
    BY <1>1, <1>2, <1>4
  <2>4. \A p, j, k : TradeAt(p, j, k)' =>
          left'[k.number] <= k.left /\ k.left + k.volume <= VolumeOf(k.number)
    BY <1>5, <2>2, <2>3
  <2>5. QED
    BY <2>1, <2>4 DEF TradesBounded, VolumeOf
<1>8. TradesApart'
  <2>1. \A p, j, k : TradeAt(p, j, k) /\ k.number = n => Apart(k, r) /\ Apart(r, k)
    <3>1. SUFFICES ASSUME NEW p, NEW j, NEW k, TradeAt(p, j, k), k.number = n
                   PROVE  r.left + r.volume <= k.left
      BY DEF Apart
    <3>2. left[n] <= k.left /\ k.left \in Nat
      BY <1>6, <3>1
    <3>3. QED
      BY <1>1, <1>2, <3>2
  <2>2. \A p, j, k, q, i, l :
          TradeAt(p, j, k)' /\ TradeAt(q, i, l)' /\ k.number = l.number
            /\ ~(p = q /\ j = i /\ k = l) => Apart(k, l)
    <3>1. SUFFICES ASSUME NEW p, NEW j, NEW k, NEW q, NEW i, NEW l,
                          TradeAt(p, j, k)', TradeAt(q, i, l)', k.number = l.number,
                          ~(p = q /\ j = i /\ k = l)
                   PROVE  Apart(k, l)
      OBVIOUS
    <3>2. TradeAt(p, j, k) \/ (p = "returns" /\ j = 0 /\ k = r)
      BY <1>5, <3>1
    <3>3. TradeAt(q, i, l) \/ (q = "returns" /\ i = 0 /\ l = r)
      BY <1>5, <3>1
    <3>4. r.number = n
      BY <1>1
    <3>5. QED
      BY <2>1, <3>1, <3>2, <3>3, <3>4 DEF CountInv, TradesApart
  <2>3. QED
    BY <2>2 DEF TradesApart, Apart
<1>9. Counted'
  <2>1. UNCHANGED orders
    BY <1>3 DEF riskerVars
  <2>2. SUFFICES ASSUME NEW o \in DOMAIN orders, orders[o].number # NoNumber,
                        NEW b, b = orders[o].number, NEW x, x = orders[o].matched, ~Doubled(b)
                 PROVE  \E C : Lots(C, b, x)'
    BY <1>3, <2>1 DEF Counted, Lots, VolumeOf, Doubled
  <2>3. PICK C : Lots(C, b, x)
    BY <2>2 DEF CountInv, Counted
  <2>4. b \in Numbers /\ left[b] \in Nat /\ left'[b] \in Nat /\ left'[b] <= left[b]
        /\ VolumeOf(b) \in Nat
    <3>1. b \in Numbers
      BY <2>2, ObjectFacts DEF TypeInv
    <3>2. VolumeOf(b) \in Nat
      BY <3>1, NumberFacts DEF VolumeOf, ItemType
    <3>3. left[b] \in Nat
      BY <3>1 DEF TypeInv
    <3>4. left'[b] \in Nat /\ left'[b] <= left[b]
      <4>1. CASE b = n
        BY <1>2, <1>4, <4>1
      <4>2. CASE b # n
        BY <1>4, <3>1, <3>3, <4>2
      <4>3. QED
        BY <4>1, <4>2
    <3>5. QED
      BY <3>1, <3>2, <3>3, <3>4
  <2>5. C \subseteq (left[b] + 1) .. VolumeOf(b)
    BY <2>3 DEF Lots
  <2>6. C \subseteq (left'[b] + 1) .. VolumeOf(b)
    BY <2>4, <2>5
  <2>7. ASSUME b = n, NEW u \in C PROVE Misses(u, r)
    <3>1. u > left[n] /\ u \in Int
      BY <1>2, <2>5, <2>7
    <3>2. r.left = left[n] - v /\ r.volume = v
      BY <1>1
    <3>3. QED
      BY <1>2, <3>1, <3>2 DEF Misses
  <2>8. \A p, j, k : TradeAt(p, j, k)' /\ k.number = b => \A u \in C : Misses(u, k)
    <3>1. r.number = n
      BY <1>1
    <3>2. QED
      BY <1>5, <2>3, <2>7, <3>1 DEF Lots
  <2>9. QED
    BY <2>3, <2>6, <2>8 DEF Lots, VolumeOf, Misses
<1>11. QED
  BY <1>7, <1>8, <1>9 DEF CountInv

\* A knock is passed on to the risk thread, once or twice.
LEMMA CountDeliver ==
  ASSUME TypeInv, ObjInv, CountInv, NEW r \in returns, Deliver(r)
  PROVE  CountInv'
<1>1. /\ tradeQueue' = Append(tradeQueue, r) /\ UNCHANGED <<riskerVars, task, left>>
      /\ \/ returns' = returns \ {r} /\ again' = again
         \/ returns' = returns /\ again' = again \cup {r}
  BY DEF Deliver
<1>2. r \in Queued
  BY DEF TypeInv, Queued
<1>3. PICK e : e = Len(tradeQueue) + 1
  OBVIOUS
<1>4. /\ e \notin DOMAIN tradeQueue /\ DOMAIN tradeQueue' = DOMAIN tradeQueue \cup {e}
      /\ tradeQueue'[e] = r /\ \A j \in DOMAIN tradeQueue : tradeQueue'[j] = tradeQueue[j]
  BY <1>1, <1>2, <1>3, AppendFacts DEF TypeInv
<1>5. \A k : ~TradeAt("queue", e, k)
  BY <1>4 DEF TradeAt
<1>6. \A k : ~Doubled(k.number)' => ~Doubled(k.number)
  BY <1>1 DEF Doubled
<1>7. \A p, j, k : TradeAt(p, j, k)' =>
        TradeAt(p, j, k) \/ (p = "queue" /\ j = e /\ k = r)
  BY <1>1, <1>4, <1>6 DEF TradeAt, InHand, riskerVars
<1>8. UNCHANGED orders /\ again \subseteq again'
  BY <1>1 DEF riskerVars
<1>9. CASE returns' = returns \ {r} /\ again' = again
  <2>1. \A p, j, k : TradeAt(p, j, k)' =>
        \/ TradeAt(p, j, k) /\ ~(p = "returns" /\ k = r)
        \/ p = "queue" /\ j = e /\ k = r /\ TradeAt("returns", 0, r)
    <3>1. \A j, k : TradeAt("returns", j, k)' => k # r
      BY <1>9 DEF TradeAt
    <3>2. \A k : TradeAt("queue", e, k)' /\ k = r => TradeAt("returns", 0, r)
      BY <1>6, <1>9 DEF TradeAt
    <3>3. QED
      BY <1>5, <1>7, <3>1, <3>2
  <2>2. /\ TradesApart'
        /\ \A p, j, k : TradeAt(p, j, k)' => \E q, i : TradeAt(q, i, k)
    BY <1>5, <2>1, LastPut DEF CountInv
  <2>3. QED
    BY <1>1, <1>8, <2>2, CountFrame
<1>10. CASE returns' = returns /\ again' = again \cup {r}
  <2>1. \A p, j, k : TradeAt(p, j, k)' => k # r
    BY <1>10 DEF TradeAt, Doubled
  <2>2. \A p, j, k : TradeAt(p, j, k)' => TradeAt(p, j, k)
    BY <1>7, <2>1
  <2>3. /\ TradesApart'
        /\ \A p, j, k : TradeAt(p, j, k)' => \E q, i : TradeAt(q, i, k)
    BY <2>2, WaitingStays DEF CountInv
  <2>4. QED
    BY <1>1, <1>8, <2>3, CountFrame
<1>11. QED
  BY <1>1, <1>9, <1>10

\* A trade that is told adds its lots to those counted.
LEMMA LotsAdded ==
  ASSUME TypeInv, ObjInv, CountInv, UNCHANGED left, NEW k0, NEW c, TradeAt(c, 1, k0),
         \A p, j, k : TradeAt(p, j, k)' =>
           \E q, i : TradeAt(q, i, k) /\ ~(q = c /\ i = 1 /\ k = k0),
         NEW C, NEW x \in Nat, Lots(C, k0.number, x)
  PROVE  \E D : Lots(D, k0.number, x + k0.volume)'
<1> DEFINE n == k0.number
           U == (k0.left + 1) .. (k0.left + k0.volume)
<1>1. /\ n \in Numbers /\ k0.left \in Nat /\ k0.volume \in Nat /\ left[n] \in Nat
      /\ VolumeOf(n) \in Nat /\ left[n] <= k0.left /\ k0.left + k0.volume <= VolumeOf(n)
  BY TradeKinds DEF CountInv, TradesBounded
<1>2. IsFiniteSet(U) /\ Cardinality(U) = k0.volume
  <2>1. k0.left + 1 \in Int /\ k0.left + k0.volume \in Int
    BY <1>1
  <2>2. /\ IsFiniteSet(U)
        /\ Cardinality(U) = IF k0.left + 1 > k0.left + k0.volume THEN 0
                            ELSE (k0.left + k0.volume) - (k0.left + 1) + 1
    BY <2>1, FS_Interval
  <2>3. QED
    BY <1>1, <2>2
<1>3. IsFiniteSet(C) /\ Cardinality(C) = x
  <2>1. left[n] + 1 \in Int /\ VolumeOf(n) \in Int
    BY <1>1
  <2>2. IsFiniteSet((left[n] + 1) .. VolumeOf(n))
    BY <2>1, FS_Interval
  <2>3. QED
    BY <2>2, FS_Subset DEF Lots
<1>4. C \cap U = {}
  <2>1. SUFFICES ASSUME NEW u \in C, u \in U PROVE FALSE
    OBVIOUS
  <2>2. Misses(u, k0)
    BY DEF Lots
  <2>3. u \in Int /\ u > k0.left /\ u <= k0.left + k0.volume
    BY <1>1, <2>1
  <2>4. QED
    BY <1>1, <2>2, <2>3 DEF Misses
<1>5. Cardinality(C \cup U) = x + k0.volume
  <2>1. Cardinality(C \cup U) = Cardinality(C) + Cardinality(U) - Cardinality(C \cap U)
    BY <1>2, <1>3, FS_Union
  <2>2. Cardinality(C \cap U) = 0
    BY <1>4, FS_EmptySet
  <2>3. QED
    BY <1>1, <1>2, <1>3, <2>1, <2>2
<1>6. C \cup U \subseteq (left[n] + 1) .. VolumeOf(n)
  <2>1. C \subseteq (left[n] + 1) .. VolumeOf(n)
    BY DEF Lots
  <2>2. U \subseteq (left[n] + 1) .. VolumeOf(n)
    BY <1>1
  <2>3. QED
    BY <2>1, <2>2
<1>7. ASSUME NEW p, NEW j, NEW k, TradeAt(p, j, k)', k.number = n, NEW u \in C \cup U
      PROVE  Misses(u, k)
  <2>1. PICK q, i : TradeAt(q, i, k) /\ ~(q = c /\ i = 1 /\ k = k0)
    BY <1>7
  <2>2. CASE u \in C
    BY <1>7, <2>1, <2>2 DEF Lots
  <2>3. CASE u \in U
    <3>1. Apart(k, k0)
      BY <1>7, <2>1 DEF CountInv, TradesApart
    <3>2. k.left \in Nat /\ k.volume \in Nat
      BY <2>1, TradeKinds
    <3>3. u \in Int /\ u > k0.left /\ u <= k0.left + k0.volume
      BY <1>1, <2>3
    <3>4. QED
      BY <1>1, <3>1, <3>2, <3>3 DEF Apart, Misses
  <2>4. QED
    BY <1>7, <2>2, <2>3
<1>8. PICK D : D = C \cup U
  OBVIOUS
<1>9. /\ D \subseteq (left'[n] + 1) .. VolumeOf(n) /\ Cardinality(D) = x + k0.volume
      /\ \A p, j, k : TradeAt(p, j, k)' /\ k.number = n => \A u \in D : Misses(u, k)
  BY <1>5, <1>6, <1>7, <1>8
<1>10. Lots(D, n, x + k0.volume)'
  BY <1>9 DEF Lots, VolumeOf, Misses
<1>11. QED
  BY <1>10

\* The risk thread is told of a knock from the queue, or of one it kept.
LEMMA CountEarly ==
  ASSUME TypeInv, ObjInv, CountInv, NEW k0 \in Knock, KnockEarly(k0), NEW c \in {"queue", "hand"},
         UNCHANGED <<left, again>>, k0.type = "trade" /\ ~Doubled(k0.number) => TradeAt(c, 1, k0),
         \A p, j, k : TradeAt(p, j, k)' /\ p # "early" =>
           \/ p = c /\ j \in Nat \ {0} /\ TradeAt(p, j + 1, k)
           \/ p # c /\ TradeAt(p, j, k)
  PROVE  CountInv'
<1>1. BookTypes
  BY DEF TypeInv
<1>2. /\ UNCHANGED <<orders, single>>
      /\ \/ early' = early
         \/ /\ DOMAIN early' = DOMAIN early \cup {k0.number}
            /\ \A n \in DOMAIN early : n # k0.number => early'[n] = early[n]
            /\ early'[k0.number] =
                 (IF k0.number \in DOMAIN early THEN early[k0.number] ELSE <<>>) \o <<k0>>
  BY <1>1, EarlyFacts
<1>3. PICK s : s = IF k0.number \in DOMAIN early THEN early[k0.number] ELSE <<>>
  OBVIOUS
<1>4. s \in Seq(Knock) /\ (k0.number \notin DOMAIN early => DOMAIN s = {})
  BY <1>1, <1>3 DEF BookTypes
<1>5. PICK e : e = Len(s) + 1
  OBVIOUS
<1>6. PICK t : t = s \o <<k0>>
  OBVIOUS
<1>7. /\ DOMAIN t = DOMAIN s \cup {e} /\ e \notin DOMAIN s /\ t[e] = k0
      /\ \A j \in DOMAIN s : t[j] = s[j]
  <2>1. Append(s, k0) = t
    BY <1>4, <1>6
  <2>2. QED
    BY <1>4, <1>5, <2>1, AppendFacts
<1>8. \A k : k.number = k0.number => ~TradeAt("early", e, k)
  BY <1>3, <1>7 DEF TradeAt, Doubled
<1>9. \A j, k : TradeAt("early", j, k)' => TradeAt("early", j, k) \/ (j = e /\ k = k0)
  <2>1. CASE early' = early
    BY <2>1 DEF TradeAt, Doubled
  <2>2. CASE early' # early
    <3>1. /\ DOMAIN early' = DOMAIN early \cup {k0.number}
          /\ \A n \in DOMAIN early : n # k0.number => early'[n] = early[n]
          /\ early'[k0.number] = t
      BY <1>2, <1>3, <1>6, <2>2
    <3>2. SUFFICES ASSUME NEW j, NEW k, TradeAt("early", j, k)', ~(j = e /\ k = k0)
                   PROVE  TradeAt("early", j, k)
      OBVIOUS
    <3>3. /\ k.kind = "knock" /\ k.type = "trade" /\ k.number \in DOMAIN early'
          /\ j \in DOMAIN early'[k.number] /\ early'[k.number][j] = k
      BY <3>2 DEF TradeAt, Doubled
    <3>4. CASE k.number = k0.number
      BY <1>3, <1>4, <1>7, <3>1, <3>2, <3>3, <3>4 DEF TradeAt, Doubled
    <3>5. CASE k.number # k0.number
      <4>1. k.number \in DOMAIN early /\ early'[k.number] = early[k.number]
        BY <3>1, <3>3, <3>5
      <4>2. ~Doubled(k.number)
        BY <3>2 DEF TradeAt, Doubled
      <4>3. QED
        BY <3>3, <4>1, <4>2 DEF TradeAt
    <3>6. QED
      BY <3>4, <3>5
  <2>3. QED
    BY <2>1, <2>2
<1>10. \A p, j, k : TradeAt(p, j, k)' =>
         \/ p = c /\ j \in Nat \ {0} /\ TradeAt(p, j + 1, k)
         \/ p # c /\ TradeAt(p, j, k)
         \/ p = "early" /\ j = e /\ k = k0 /\ TradeAt(c, 1, k0)
  <2>1. \A j, k : TradeAt("early", j, k)' => k.type = "trade" /\ ~Doubled(k.number)
    BY DEF TradeAt, Doubled
  <2>2. QED
    BY <1>9, <2>1
<1>11. /\ TradesApart'
       /\ \A p, j, k : TradeAt(p, j, k)' => \E q, i : TradeAt(q, i, k)
  BY <1>8, <1>10, FirstTaken DEF CountInv
<1>13. QED
  BY <1>2, <1>11, CountFrame

\* ... of an order it knows.
LEMMA CountKnown ==
  ASSUME TypeInv, ObjInv, CountInv, NEW k0 \in Knock, KnockKnown(k0), NEW c \in {"queue", "hand"},
         UNCHANGED <<left, again>>, k0.type = "trade" /\ ~Doubled(k0.number) => TradeAt(c, 1, k0),
         \A p, j, k : TradeAt(p, j, k)' /\ p # "early" =>
           \/ p = c /\ j \in Nat \ {0} /\ TradeAt(p, j + 1, k)
           \/ p # c /\ TradeAt(p, j, k)
  PROVE  CountInv'
<1>1. BookTypes
  BY DEF TypeInv
<1>2. /\ BookTypes' /\ Grown /\ early' = early /\ DOMAIN orders' = DOMAIN orders
      /\ k0.number \in DOMAIN single
      /\ \A n \in DOMAIN single' : n \in DOMAIN single /\ single'[n] = single[n]
  BY <1>1, KnownFacts
<1>3. PICK o1 \in DOMAIN orders :
        /\ o1 = single[k0.number]
        /\ \/ orders'[o1] = Told(k0, orders[o1])
           \/ /\ Finished(Told(k0, orders[o1]))
              /\ orders'[o1] = [Told(k0, orders[o1]) EXCEPT !.finish = TRUE]
        /\ \A n \in DOMAIN single \ DOMAIN single' :
             n = orders[o1].number /\ orders'[o1].finish
        /\ \A o \in DOMAIN orders : o # o1 =>
             \/ orders'[o] = orders[o]
             \/ Finished(orders[o]) /\ orders'[o] = [orders[o] EXCEPT !.finish = TRUE]
  BY <1>1, KnownFacts
<1>4. orders[o1].number = k0.number /\ k0.number \in Numbers /\ k0.number # NoNumber
  <2>1. k0.number \in Numbers
    BY DEF Knock
  <2>2. QED
    BY <1>2, <1>3, <2>1, NumberFacts DEF ObjInv, Mapped
<1>5. \A o \in DOMAIN orders : o # o1 =>
        orders'[o].number = orders[o].number /\ orders'[o].matched = orders[o].matched
  BY <1>1, <1>3, ObjectFacts DEF Order
<1>6. /\ orders'[o1].number = k0.number
      /\ orders'[o1].matched = IF k0.type = "trade" THEN orders[o1].matched + k0.volume
                               ELSE orders[o1].matched
  <2>1. PICK x \in Order : x = orders[o1]
    BY <1>1, ObjectFacts
  <2>2. PICK y \in Order : y = Told(k0, x)
    BY <2>1, ToldFacts
  <2>3. y.number = x.number
        /\ y.matched = IF k0.type = "trade" THEN x.matched + k0.volume ELSE x.matched
    BY <2>1, <2>2 DEF Told, Order
  <2>4. orders'[o1] = y \/ orders'[o1] = [y EXCEPT !.finish = TRUE]
    BY <1>3, <2>1, <2>2
  <2>5. orders'[o1].number = y.number /\ orders'[o1].matched = y.matched
    BY <2>4 DEF Order
  <2>6. QED
    BY <1>4, <2>1, <2>3, <2>5
<1>8. \A j, k : TradeAt("early", j, k)' => TradeAt("early", j, k)
  BY <1>2 DEF TradeAt, Doubled
<1>9. \A p, j, k : TradeAt(p, j, k)' =>
         \/ p = c /\ j \in Nat \ {0} /\ TradeAt(p, j + 1, k)
         \/ p # c /\ TradeAt(p, j, k)
  BY <1>8
<1>10. /\ TradesApart'
       /\ \A p, j, k : TradeAt(p, j, k)' => \E q, i : TradeAt(q, i, k)
  <2>1. \A k : k.number = k0.number => ~TradeAt("early", 0, k)
    BY <1>1 DEF BookTypes, TradeAt
  <2>2. \A p, j, k : TradeAt(p, j, k)' =>
         \/ p = c /\ j \in Nat \ {0} /\ TradeAt(p, j + 1, k)
         \/ p # c /\ TradeAt(p, j, k)
         \/ p = "early" /\ j = 0 /\ k = k0 /\ TradeAt(c, 1, k0)
    BY <1>9
  <2>3. QED
    BY <2>1, <2>2, FirstTaken DEF CountInv
<1>11. CASE k0.type # "trade"
  <2>1. \A o \in DOMAIN orders' :
           /\ o \in DOMAIN orders /\ orders'[o].number = orders[o].number
           /\ orders'[o].matched = orders[o].matched
    BY <1>2, <1>4, <1>5, <1>6, <1>11
  <2>2. QED
    BY <1>10, <2>1, CountFrame
<1>12. CASE k0.type = "trade"
  <2>1. \A p, j, k : TradeAt(p, j, k)' =>
          \E q, i : TradeAt(q, i, k) /\ ~(q = c /\ i = 1 /\ k = k0)
    <3>1. \A j \in Nat \ {0} : j + 1 # 1
      OBVIOUS
    <3>2. QED
      BY <1>9, <3>1
  <2>2. TradesBounded'
    <3>1. \A p, j, k : TradeAt(p, j, k)' =>
            left[k.number] <= k.left /\ k.left + k.volume <= VolumeOf(k.number)
      BY <1>10 DEF CountInv, TradesBounded
    <3>2. QED
      BY <3>1 DEF CountInv, TradesBounded, VolumeOf
  <2>3. Counted'
    <3>1. SUFFICES ASSUME NEW o \in DOMAIN orders, orders'[o].number # NoNumber,
                          NEW n, n = orders'[o].number, NEW x, x = orders'[o].matched,
                          ~Doubled(n)
                   PROVE  \E C : Lots(C, n, x)'
      BY <1>2 DEF Counted, Lots, VolumeOf, Doubled
    <3>2. CASE o = o1
      <4>6. ~Doubled(k0.number)
        BY <1>6, <3>1, <3>2
      <4>1. PICK C : Lots(C, k0.number, orders[o1].matched)
        BY <1>4, <4>6 DEF CountInv, Counted
      <4>2. PICK y \in Nat : y = orders[o1].matched
        BY <1>1, ObjectFacts
      <4>3. \E D : Lots(D, k0.number, y + k0.volume)'
        BY <1>12, <2>1, <4>1, <4>2, <4>6, LotsAdded
      <4>4. n = k0.number /\ x = y + k0.volume
        BY <1>6, <1>12, <3>1, <3>2, <4>2
      <4>5. QED
        BY <4>3, <4>4
    <3>3. CASE o # o1
      <4>1. n = orders[o].number /\ x = orders[o].matched
        BY <1>5, <3>1, <3>3
      <4>2. PICK C : Lots(C, n, x)
        BY <3>1, <4>1 DEF CountInv, Counted
      <4>3. QED
        BY <1>10, <4>2, LotsStay
    <3>4. QED
      BY <3>2, <3>3
  <2>4. QED
    BY <1>10, <2>2, <2>3 DEF CountInv
<1>13. QED
  BY <1>11, <1>12

\* The front of the queue is taken; nothing is in hand before and after.
LEMMA FrontTaken ==
  ASSUME TypeInv, Take
  PROVE  /\ \A p, j, k : TradeAt(p, j, k)' /\ p # "early" =>
              \/ p = "queue" /\ j \in Nat \ {0} /\ TradeAt(p, j + 1, k)
              \/ p # "queue" /\ TradeAt(p, j, k)
         /\ /\ Head(tradeQueue).kind = "knock" /\ Head(tradeQueue).type = "trade"
            /\ ~Doubled(Head(tradeQueue).number)
            => TradeAt("queue", 1, Head(tradeQueue))
         /\ \A k : ~TradeAt("early", 0, k)
<1>1. /\ tradeQueue \in Seq(Queued) /\ tradeQueue # <<>> /\ tradeQueue' = Tail(tradeQueue)
      /\ UNCHANGED <<returns, again>>
  BY DEF TypeInv, Take, Frame, truthVars
<1>2. PICK n \in Nat \ {0} :
        /\ DOMAIN tradeQueue = 1 .. n /\ DOMAIN Tail(tradeQueue) = 1 .. n - 1
        /\ Head(tradeQueue) = tradeQueue[1] /\ 1 \in DOMAIN tradeQueue
        /\ \A k \in 1 .. n - 1 : k + 1 \in 1 .. n /\ Tail(tradeQueue)[k] = tradeQueue[k + 1]
  BY <1>1, TailFacts
<1>3. InHand' = <<>>
  <2>1. \/ task' = Idle \/ task'.kind = "check" \/ (task'.kind = "rep" /\ task'.knocks = <<>>)
    <3>1. PICK r : r = Head(tradeQueue)
      OBVIOUS
    <3>2. \/ task' = Idle
          \/ task' = [kind |-> "check", msg |-> r.msg, item |-> 1]
          \/ task' = [kind |-> "rep", msg |-> r.msg, item |-> 1, accepted |-> r.accepted,
                      members |-> <<>>, knocks |-> <<>>]
      BY <3>1 DEF Take
    <3>3. QED
      BY <3>2
  <2>2. QED
    BY <2>1 DEF InHand, Idle
<1>4. \A j, k : TradeAt("queue", j, k)' => j \in Nat \ {0} /\ TradeAt("queue", j + 1, k)
  <2>1. SUFFICES ASSUME NEW j, NEW k, TradeAt("queue", j, k)'
                 PROVE  j \in Nat \ {0} /\ TradeAt("queue", j + 1, k)
    OBVIOUS
  <2>2. /\ k.kind = "knock" /\ k.type = "trade"
        /\ j \in DOMAIN Tail(tradeQueue) /\ Tail(tradeQueue)[j] = k /\ ~Doubled(k.number)
    BY <1>1, <2>1 DEF TradeAt, Doubled
  <2>3. QED
    BY <1>2, <2>2 DEF TradeAt
<1>5. \A j, k : ~TradeAt("hand", j, k)'
  BY <1>3 DEF TradeAt, Doubled
<1>6. \A j, k : TradeAt("returns", j, k)' => TradeAt("returns", j, k)
  BY <1>1 DEF TradeAt, Doubled
<1>7. \A p, j, k : TradeAt(p, j, k)' => p \in {"returns", "queue", "early", "hand"}
  BY DEF TradeAt, Doubled
<1>8. \A k : ~TradeAt("early", 0, k)
  BY DEF TypeInv, BookTypes, TradeAt
<1>9. QED
  BY <1>2, <1>4, <1>5, <1>6, <1>7, <1>8 DEF TradeAt, Doubled

LEMMA CountTake ==
  ASSUME TypeInv, ObjInv, CountInv, Take
  PROVE  CountInv'
<1>1. PICK r : r = Head(tradeQueue)
  OBVIOUS
<1>2. r \in Queued /\ BookTypes /\ now \in Nat
  BY <1>1, QueueTaken DEF Take, TypeInv
<1>3. UNCHANGED <<left, again>>
  BY DEF Take, Frame, truthVars
<1>4. ASSUME UNCHANGED <<single, early>>, Grown, DOMAIN orders' = DOMAIN orders,
             \A o \in DOMAIN orders : /\ orders'[o].number = orders[o].number
                                      /\ orders'[o].matched = orders[o].matched
      PROVE  CountInv'
  <2>1. \A j, k : TradeAt("early", j, k)' => TradeAt("early", j, k)
    BY <1>3, <1>4 DEF TradeAt, Doubled
  <2>2. /\ \A k : k.number = 0 => ~TradeAt("early", 0, k)
        /\ \A p, j, k : TradeAt(p, j, k)' =>
             \/ p = "queue" /\ j \in Nat \ {0} /\ TradeAt(p, j + 1, k)
             \/ p # "queue" /\ TradeAt(p, j, k)
    BY <2>1, FrontTaken
  <2>3. PICK k0 : k0 = [number |-> 0]
    OBVIOUS
  <2>4. k0.number = 0
    BY <2>3
  <2>5. /\ \A k : k.number = k0.number => ~TradeAt("early", 0, k)
        /\ \A p, j, k : TradeAt(p, j, k)' =>
             \/ p = "queue" /\ j \in Nat \ {0} /\ TradeAt(p, j + 1, k)
             \/ p # "queue" /\ TradeAt(p, j, k)
             \/ p = "early" /\ j = 0 /\ k = k0 /\ TradeAt("queue", 1, k0)
    BY <2>2, <2>4
  <2>6. /\ TradesApart'
        /\ \A p, j, k : TradeAt(p, j, k)' => \E q, i : TradeAt(q, i, k)
    BY <2>5, FirstTaken DEF CountInv
  <2>8. QED
    BY <1>3, <1>4, <2>6, CountFrame
<1>5. CASE r.kind \in {"order", "rep"}
  <2>1. UNCHANGED riskerVars
    BY <1>1, <1>5 DEF Take
  <2>2. Grown /\ UNCHANGED <<orders, single, early>>
    BY <1>2, <2>1, BookFrame DEF riskerVars
  <2>3. QED
    BY <1>4, <2>2
<1>6. CASE r.kind = "withdraw"
  <2>1. HandleTradeWithdrawReq(r.msg, r.item)
    BY <1>1, <1>6 DEF Take
  <2>2. /\ Grown /\ UNCHANGED <<single, early>> /\ DOMAIN orders' = DOMAIN orders
        /\ \A o \in DOMAIN orders : orders'[o] = [orders[o] EXCEPT !.withdrawAsked = now]
                                    \/ orders'[o] = orders[o]
    BY <1>2, <2>1, WithdrawReqFacts
  <2>3. \A o \in DOMAIN orders : /\ orders'[o].number = orders[o].number
                                 /\ orders'[o].matched = orders[o].matched
    BY <1>2, <2>2, ObjectFacts DEF Order
  <2>4. QED
    BY <1>4, <2>2, <2>3
<1>7. CASE r.kind = "wrep"
  <2>1. HandleTradeWithdrawRep(r.msg, r.item, r.ok) /\ r.ok \in BOOLEAN
    BY <1>1, <1>2, <1>7, QueuedKinds DEF Take, WithdrawReply
  <2>2. /\ Grown /\ UNCHANGED <<single, early>> /\ DOMAIN orders' = DOMAIN orders
        /\ \A o \in DOMAIN orders : \/ orders'[o] = [orders[o] EXCEPT !.withdrawn = TRUE]
                                    \/ orders'[o] = [orders[o] EXCEPT !.withdrawAsked = now]
                                    \/ orders'[o] = orders[o]
    BY <1>2, <2>1, WithdrawRepFacts
  <2>3. \A o \in DOMAIN orders : /\ orders'[o].number = orders[o].number
                                 /\ orders'[o].matched = orders[o].matched
    BY <1>2, <2>2, ObjectFacts DEF Order
  <2>4. QED
    BY <1>4, <2>2, <2>3
<1>8. CASE r.kind = "knock"
  <2>1. OnTradeKnock(r) /\ r \in Knock
    BY <1>1, <1>2, <1>8, QueuedKinds DEF Take
  <2>2. r.type = "trade" /\ ~Doubled(r.number) => TradeAt("queue", 1, r)
    BY <1>1, <1>8, FrontTaken
  <2>3. CASE KnockEarly(r)
    BY <1>3, <2>1, <2>2, <2>3, FrontTaken, CountEarly
  <2>4. CASE KnockKnown(r)
    BY <1>3, <2>1, <2>2, <2>4, FrontTaken, CountKnown
  <2>5. QED
    BY <2>1, <2>3, <2>4 DEF OnTradeKnock
<1>9. QED
  BY <1>2, <1>5, <1>6, <1>7, <1>8, QueuedKinds

\* A check ends objects and lists new ones.
LEMMA CountCheck ==
  ASSUME TypeInv, ObjInv, CountInv, Check \/ Pass
  PROVE  CountInv'
<1>1. task \in CheckTask
  BY TaskKinds DEF Check, Pass, TypeInv
<1>2. PICK m \in Own, i \in Nat \ {0} : m = task.msg /\ i = task.item
  BY <1>1 DEF CheckTask
<1>3. BookTypes /\ now \in Nat /\ m \in Messages
  BY DEF TypeInv, Own
<1>4. UNCHANGED <<tradeQueue, returns, left, again>>
  BY DEF Check, Pass, Frame, truthVars
<1>5. InHand' = InHand
  <2>1. task'.kind \in {"check", "pass", "idle"}
    <3>1. \/ task' = Idle \/ task' = [task EXCEPT !.item = i + 1]
          \/ task' = [kind |-> "pass", msg |-> m, item |-> 1]
      BY <1>2 DEF Check, Pass
    <3>2. CASE task' = Idle
      BY <3>2 DEF Idle
    <3>3. CASE task' = [task EXCEPT !.item = i + 1]
      BY <1>1, <3>3 DEF CheckTask
    <3>4. CASE task' = [kind |-> "pass", msg |-> m, item |-> 1]
      BY <3>4
    <3>5. QED
      BY <3>1, <3>2, <3>3, <3>4
  <2>2. task.kind \in {"check", "pass", "idle"}
    BY DEF Check, Pass
  <2>3. QED
    BY <2>1, <2>2 DEF InHand
<1>6. ASSUME early' = early
      PROVE  /\ TradesApart' /\ EarlyOwn'
             /\ \A p, j, k : TradeAt(p, j, k)' => \E q, l : TradeAt(q, l, k)
  <2>1. \A p, j, k : TradeAt(p, j, k)' => TradeAt(p, j, k)
    BY <1>4, <1>5, <1>6 DEF TradeAt, Doubled
  <2>2. EarlyOwn'
    BY <1>6 DEF ObjInv, EarlyOwn
  <2>3. QED
    BY <2>1, <2>2, WaitingStays DEF CountInv
<1>7. CASE UNCHANGED riskerVars
  <2>1. UNCHANGED <<orders, single, early>>
    BY <1>7 DEF riskerVars
  <2>3. QED
    BY <1>4, <1>6, <2>1, CountFrame
<1>8. CASE i \in Items(m) /\ CheckItem(m, i)
  <2>1. /\ DOMAIN orders' = DOMAIN orders /\ Grown /\ early' = early
        /\ \A o \in DOMAIN orders : \/ orders'[o] = orders[o]
                                    \/ orders'[o] = [orders[o] EXCEPT !.finish = TRUE]
        /\ \A n \in DOMAIN single' : n \in DOMAIN single /\ single'[n] = single[n]
    BY <1>3, <1>8, CheckItemFacts
  <2>2. \A o \in DOMAIN orders : /\ orders'[o].number = orders[o].number
                                 /\ orders'[o].matched = orders[o].matched
    BY <1>3, <2>1, ObjectFacts DEF Order
  <2>4. QED
    BY <1>4, <1>6, <2>1, <2>2, CountFrame
<1>9. CASE i \in Items(m) /\ PassItem(m, i)
  <2>1. /\ \A o \in DOMAIN orders : orders'[o] = orders[o]
        /\ UNCHANGED <<single, early>>
        /\ DOMAIN orders \subseteq DOMAIN orders'
        /\ \A o \in DOMAIN orders' : o \in DOMAIN orders \/ orders'[o] = NewOrder(m, i, NoNumber)
    BY <1>3, <1>9, PassItemFacts DEF Grown
  <2>2. \A o \in DOMAIN orders' : o \notin DOMAIN orders => orders'[o].matched = 0
    BY <2>1 DEF NewOrder
  <2>6. QED
    BY <1>4, <1>6, <2>1, <2>2, CountFrame
<1>10. QED
  BY <1>2, <1>7, <1>8, <1>9 DEF Check, Pass

\* What is in hand while the items of a reply are worked off.
LEMMA HandKept ==
  ASSUME task \in RepTask, NEW x, task' = [task EXCEPT !.item = x]
  PROVE  InHand' = InHand
<1>1. task'.kind = "rep" /\ task.kind = "rep" /\ task'.knocks = task.knocks
  BY DEF RepTask
<1>2. QED
  BY <1>1 DEF InHand

\* The reply gives an object its number.
LEMMA CountRegister ==
  ASSUME TypeInv, ObjInv, CountInv, DistinctPrices, task \in RepTask,
         NEW m \in Messages, NEW i \in Items(m), m = task.msg, i = task.item,
         NEW o, RegisterReply(m, i, o), UNCHANGED <<tradeQueue, returns, left, again>>
  PROVE  CountInv'
<1>1. BookTypes /\ now \in Nat
  BY DEF TypeInv
<1>2. RepItemKnown(m, i, o) \/ RepItemUnknown(m, i, o)
  BY DEF RegisterReply
<1>3. PICK n : n = <<m, i>>
  OBVIOUS
<1>4. /\ orders'[o].number = n
      /\ \/ /\ o \in DOMAIN orders /\ orders'[o] = Numbered(orders[o], n)
            /\ orders[o].number = n \/ (orders[o].number = NoNumber /\ Blank(orders[o]))
         \/ orders'[o] = NewOrder(m, i, n)
  BY <1>1, <1>2, <1>3, ObjChosen
<1>5. /\ BookTypes' /\ Grown /\ o \in DOMAIN orders'
      /\ \A p \in DOMAIN orders' : p \in DOMAIN orders \/ p = o
      /\ \A p \in DOMAIN orders : p # o => orders'[p] = orders[p]
      /\ single'[n] = o
      /\ \A k \in DOMAIN single' : k = n \/ (k \in DOMAIN single /\ single'[k] = single[k])
      /\ \A k \in DOMAIN early' : k # n /\ k \in DOMAIN early /\ early'[k] = early[k]
  BY <1>1, <1>2, <1>3, RegisteredFacts
<1>8. \/ orders'[o].matched = 0
      \/ /\ o \in DOMAIN orders /\ orders'[o].number = orders[o].number
         /\ orders'[o].matched = orders[o].matched
  <2>1. CASE /\ o \in DOMAIN orders /\ orders'[o] = Numbered(orders[o], n)
             /\ orders[o].number = n \/ (orders[o].number = NoNumber /\ Blank(orders[o]))
    <3>1. PICK x \in Order : x = orders[o]
      BY <1>1, <2>1, ObjectFacts
    <3>2. orders'[o].matched = x.matched
      BY <2>1, <3>1 DEF Numbered, Order
    <3>3. x.number = NoNumber /\ Blank(x) => x.matched = 0
      BY DEF Blank
    <3>4. QED
      BY <1>4, <2>1, <3>1, <3>2, <3>3
  <2>2. CASE orders'[o] = NewOrder(m, i, n)
    BY <2>2 DEF NewOrder
  <2>3. QED
    BY <1>4, <2>1, <2>2
<1>12. /\ task'.kind = "rep"
       /\ task'.knocks = IF n \in DOMAIN early THEN early[n] ELSE task.knocks
  <2>1. PICK e : e = IF n \in DOMAIN early THEN early[n] ELSE task.knocks
    OBVIOUS
  <2>2. PICK s : s = IF IsBatch(m) THEN Append(task.members, o) ELSE task.members
    OBVIOUS
  <2>3. task' = [task EXCEPT !.item = i + 1, !.members = s, !.knocks = e]
    BY <1>3, <2>1, <2>2 DEF RegisterReply
  <2>4. QED
    BY <2>1, <2>3 DEF RepTask
<1>13. InHand = task.knocks
  BY DEF InHand, RepTask
<1>14. InHand' = IF n \in DOMAIN early THEN early[n] ELSE InHand
  BY <1>12, <1>13 DEF InHand
<1>15. \A j, k : TradeAt("early", j, k)' => TradeAt("early", j, k) /\ k.number # n
  BY <1>5 DEF TradeAt, Doubled
<1>16. /\ TradesApart'
       /\ \A p, j, k : TradeAt(p, j, k)' => \E q, l : TradeAt(q, l, k)
  <2>1. \A j, k : TradeAt("returns", j, k)' => TradeAt("returns", j, k)
    BY DEF TradeAt, Doubled
  <2>2. \A j, k : TradeAt("queue", j, k)' => TradeAt("queue", j, k)
    BY DEF TradeAt, Doubled
  <2>3. \A p, j, k : TradeAt(p, j, k)' => p \in {"returns", "queue", "early", "hand"}
    BY DEF TradeAt, Doubled
  <2>4. CASE n \in DOMAIN early
    <3>1. \A j \in DOMAIN early[n] : early[n][j].number = n
      BY <2>4 DEF ObjInv, EarlyOwn
    <3>2. InHand' = early[n]
      BY <1>14, <2>4
    <3>3. \A j, k : TradeAt("hand", j, k)' => k.number = n /\ TradeAt("early", j, k)
      BY <2>4, <3>1, <3>2 DEF TradeAt, Doubled
    <3>4. \A p, j, k : TradeAt(p, j, k)' =>
           \/ TradeAt(p, j, k) /\ p # "hand" /\ ~(p = "early" /\ k.number = n)
           \/ p = "hand" /\ k.number = n /\ TradeAt("early", j, k)
      BY <1>15, <2>1, <2>2, <2>3, <3>3
    <3>5. QED
      BY <3>4, EarlyTaken DEF CountInv
  <2>5. CASE n \notin DOMAIN early
    <3>1. \A j, k : TradeAt("hand", j, k)' => TradeAt("hand", j, k)
      BY <1>14, <2>5 DEF TradeAt, Doubled
    <3>2. \A p, j, k : TradeAt(p, j, k)' => TradeAt(p, j, k)
      BY <1>15, <2>1, <2>2, <2>3, <3>1
    <3>3. QED
      BY <3>2, WaitingStays DEF CountInv
  <2>6. QED
    BY <2>4, <2>5
<1>17. \A p \in DOMAIN orders' :
         \/ orders'[p].matched = 0
         \/ /\ p \in DOMAIN orders /\ orders'[p].number = orders[p].number
            /\ orders'[p].matched = orders[p].matched
  BY <1>5, <1>8
<1>18. QED
  BY <1>16, <1>17, CountFrame

LEMMA CountRep ==
  ASSUME TypeInv, ObjInv, CountInv, DistinctPrices, HandleRep
  PROVE  CountInv'
<1>1. BookTypes /\ TaskTypes /\ UNCHANGED <<tradeQueue, returns, left, again>>
  BY DEF TypeInv, HandleRep, Frame, truthVars
<1>2. task \in RepTask /\ task.kind = "rep"
  BY <1>1, TaskKinds DEF HandleRep
<1>3. PICK m \in Messages, i \in Nat \ {0} : m = task.msg /\ i = task.item
  BY <1>2 DEF RepTask
<1>4. ASSUME InHand' = InHand, UNCHANGED <<orders, single, early>> PROVE CountInv'
  <2>1. \A p, j, k : TradeAt(p, j, k)' => TradeAt(p, j, k)
    BY <1>1, <1>4 DEF TradeAt, Doubled
  <2>3. /\ TradesApart'
        /\ \A p, j, k : TradeAt(p, j, k)' => \E q, l : TradeAt(q, l, k)
    BY <2>1, WaitingStays DEF CountInv
  <2>4. QED
    BY <1>1, <1>4, <2>3, CountFrame
<1>5. CASE i \in Items(m) /\ ~(Guards(m, i) /\ i \in task.accepted)
  <2>1. task' = [task EXCEPT !.item = i + 1] /\ UNCHANGED <<orders, single, early>>
    BY <1>3, <1>5 DEF HandleRep, riskerVars, RepItemRejected
  <2>2. QED
    BY <1>2, <1>4, <2>1, HandKept
<1>6. CASE i \in Items(m) /\ Guards(m, i) /\ i \in task.accepted
  <2>1. PICK o : RegisterReply(m, i, o)
    BY <1>3, <1>6 DEF HandleRep
  <2>2. QED
    BY <1>1, <1>2, <1>3, <1>6, <2>1, CountRegister
<1>7. CASE i \notin Items(m)
  <2>1. /\ task' = [kind |-> "knocks", rest |-> task.knocks]
        /\ UNCHANGED <<orders, single, early>>
    BY <1>3, <1>7 DEF HandleRep, RegisterBatch
  <2>2. InHand' = InHand
    BY <1>2, <2>1 DEF InHand
  <2>3. QED
    BY <1>4, <2>1, <2>2
<1>8. QED
  BY <1>5, <1>6, <1>7

LEMMA CountReplay ==
  ASSUME TypeInv, ObjInv, CountInv, ReplayKnock
  PROVE  CountInv'
<1>1. BookTypes /\ TaskTypes /\ UNCHANGED <<tradeQueue, returns, left, again>>
  BY DEF TypeInv, ReplayKnock, Frame, truthVars
<1>2. task \in KnocksTask /\ task.rest \in Seq(Knock) /\ task.kind = "knocks"
  BY <1>1, TaskKinds DEF ReplayKnock, KnocksTask
<1>3. InHand = task.rest
  BY <1>2 DEF InHand
<1>4. CASE task.rest = <<>>
  <2>1. task' = Idle /\ UNCHANGED riskerVars
    BY <1>4 DEF ReplayKnock
  <2>2. UNCHANGED <<orders, single, early>>
    BY <2>1 DEF riskerVars
  <2>3. InHand' = InHand
    BY <1>3, <1>4, <2>1 DEF InHand, Idle
  <2>4. \A p, j, k : TradeAt(p, j, k)' => TradeAt(p, j, k)
    BY <1>1, <2>2, <2>3 DEF TradeAt, Doubled
  <2>6. /\ TradesApart'
        /\ \A p, j, k : TradeAt(p, j, k)' => \E q, l : TradeAt(q, l, k)
    BY <2>4, WaitingStays DEF CountInv
  <2>7. QED
    BY <1>1, <2>2, <2>6, CountFrame
<1>5. CASE task.rest # <<>>
  <2>1. PICK r : r = Head(task.rest)
    OBVIOUS
  <2>2. OnTradeKnock(r) /\ task' = [task EXCEPT !.rest = Tail(task.rest)]
    BY <1>5, <2>1 DEF ReplayKnock
  <2>3. InHand' = Tail(InHand)
    <3>1. task'.kind = "knocks" /\ task'.rest = Tail(task.rest)
      BY <1>2, <2>2 DEF KnocksTask
    <3>2. QED
      BY <1>3, <3>1 DEF InHand
  <2>4. InHand \in Seq(Knock) /\ InHand # <<>> /\ r = Head(InHand)
    BY <1>2, <1>3, <1>5, <2>1
  <2>5. PICK n \in Nat \ {0} :
          /\ DOMAIN InHand = 1 .. n /\ DOMAIN Tail(InHand) = 1 .. n - 1
          /\ Head(InHand) = InHand[1] /\ 1 \in DOMAIN InHand /\ Head(InHand) \in Knock
          /\ \A k \in 1 .. n - 1 : k + 1 \in 1 .. n /\ Tail(InHand)[k] = InHand[k + 1]
    BY <2>4, TailFacts
  <2>6. r \in Knock /\ (r.type = "trade" /\ ~Doubled(r.number) => TradeAt("hand", 1, r))
    BY <2>4, <2>5 DEF TradeAt, Doubled, Knock
  <2>7. \A p, j, k : TradeAt(p, j, k)' /\ p # "early" =>
           \/ p = "hand" /\ j \in Nat \ {0} /\ TradeAt(p, j + 1, k)
           \/ p # "hand" /\ TradeAt(p, j, k)
    <3>1. \A j, k : TradeAt("hand", j, k)' => j \in Nat \ {0} /\ TradeAt("hand", j + 1, k)
      <4>1. SUFFICES ASSUME NEW j, NEW k, TradeAt("hand", j, k)'
                     PROVE  j \in Nat \ {0} /\ TradeAt("hand", j + 1, k)
        OBVIOUS
      <4>2. /\ k.kind = "knock" /\ k.type = "trade" /\ ~Doubled(k.number)
            /\ j \in DOMAIN Tail(InHand) /\ Tail(InHand)[j] = k
        BY <1>1, <2>3, <4>1 DEF TradeAt, Doubled
      <4>3. QED
        BY <2>5, <4>2 DEF TradeAt
    <3>2. \A j, k : TradeAt("returns", j, k)' => TradeAt("returns", j, k)
      BY <1>1 DEF TradeAt, Doubled
    <3>3. \A j, k : TradeAt("queue", j, k)' => TradeAt("queue", j, k)
      BY <1>1 DEF TradeAt, Doubled
    <3>4. \A p, j, k : TradeAt(p, j, k)' => p \in {"returns", "queue", "early", "hand"}
      BY DEF TradeAt, Doubled
    <3>5. QED
      BY <3>1, <3>2, <3>3, <3>4
  <2>8. CASE KnockEarly(r)
    BY <1>1, <2>6, <2>7, <2>8, CountEarly
  <2>9. CASE KnockKnown(r)
    BY <1>1, <2>6, <2>7, <2>9, CountKnown
  <2>10. QED
    BY <2>2, <2>8, <2>9 DEF OnTradeKnock
<1>6. QED
  BY <1>4, <1>5

LEMMA CountInvInit ==
  ASSUME Init
  PROVE  CountInv
<1>1. /\ orders = <<>> /\ DOMAIN single = {} /\ DOMAIN early = {} /\ returns = {}
      /\ tradeQueue = <<>> /\ task = Idle
  BY DEF Init
<1>2. \A p, j, k : ~TradeAt(p, j, k)
  BY <1>1 DEF TradeAt, Doubled, InHand, Idle
<1>3. \A n \in Numbers : left[n] <= VolumeOf(n)
  <2>1. \A n \in Numbers : left[n] = VolumeOf(n)
    BY DEF Init, VolumeOf
  <2>2. \A n \in Numbers : VolumeOf(n) \in Nat
    BY NumberFacts DEF VolumeOf, ItemType
  <2>3. QED
    BY <2>1, <2>2
<1>4. QED
  BY <1>1, <1>2, <1>3 DEF CountInv, TradesBounded, TradesApart, Counted

LEMMA CountInvStep ==
  ASSUME TypeInv, HandInv, ObjInv, CountInv, DistinctPrices, [Next]_vars
  PROVE  CountInv'
<1>1. CASE UNCHANGED vars
  <2>1. UNCHANGED <<riskerVars, task, left, returns, tradeQueue, again>>
    BY <1>1 DEF vars, truthVars
  <2>2. QED
    BY <2>1, CountAround
<1>2. CASE RiskThread
  BY <1>2, CountTake, CountCheck, CountRep, CountReplay, CountOutside DEF RiskThread
<1>3. CASE Surroundings
  BY <1>3, CountOutside, CountTrade, CountDeliver DEF Surroundings
<1>4. QED
  BY <1>1, <1>2, <1>3 DEF Next

\* Only the main thread pushes a trade twice.
LEMMA AgainKept ==
  ASSUME [Next]_vars, again' # again
  PROVE  Duplicates /\ again \subseteq again'
BY AroundFrame, InsideFrame DEF Next, RiskThread

LEMMA RiskCountsWithin ==
  ASSUME DistinctPrices
  PROVE  Spec => []Within
<1> DEFINE IInv == TypeInv /\ HandInv /\ ObjInv /\ CountInv
<1>1. Init => IInv
  BY TypeInvInit, HandInvInit, ObjInvInit, CountInvInit
<1>2. IInv /\ [Next]_vars => IInv'
  BY TypeInvStep, HandInvStep, ObjInvStep, CountInvStep
<1>3. IInv => Within
  BY WithinHolds
<1>4. QED
  BY <1>1, <1>2, <1>3, PTL DEF Spec

\* However knocks and replies overtake each other, the risker never counts more for an
\* order than was traded of it, where the main thread pushes every trade once.
THEOREM RiskCountsOnce ==
  ASSUME ~Duplicates, DistinctPrices
  PROVE  Spec => []CountedOnce
<1>1. Spec => []Within
  BY RiskCountsWithin
<1>2. Init => again = {}
  BY DEF Init
<1>3. again = {} /\ [Next]_vars => (again = {})'
  BY AgainKept
<1>4. again = {} /\ Within => CountedOnce
  BY DEF Within, CountedOnce, VolumeOf, Doubled
<1>5. QED
  BY <1>1, <1>2, <1>3, <1>4, PTL DEF Spec

-----------------------------------------------------------------------------
(* What the risk thread hears of orders that work. *)

\* The life of an order follows the verdict about its message.
Lives ==
  /\ \A n \in Numbers : life[n] = "none" <=> verdict[n[1]] # "passed"
  /\ \A n \in Numbers : life[n] # "ended" => left[n] > 0
  /\ caller.kind = "withdraw" => verdict[caller.msg] = "passed"
  /\ \A m \in Messages : withdrawal[m].state = "asked" => verdict[m] = "passed"
  /\ told \subseteq replied /\ now > 0

\* Something the counter or the exchange returned is not worked off yet.
Heard(k) ==
  \/ k \in returns
  \/ \E j \in DOMAIN tradeQueue : tradeQueue[j] = k
  \/ \E n \in DOMAIN early : \E j \in DOMAIN early[n] : early[n][j] = k
  \/ \E j \in DOMAIN InHand : InHand[j] = k
Aims(k, n) == k.item = 0 \/ n = <<k.msg, k.item>>
\* What it says of an order is so.
Sound(k) ==
  /\ k.kind = "knock" /\ k.type # "trade" => life[k.number] = "ended"
  /\ k.kind = "wrep" /\ k.ok => \A n \in NumbersOf(k.msg) : Aims(k, n) => life[n] = "ended"
  /\ k.kind = "rep" => \A n \in NumbersOf(k.msg) : life[n] = "working" => n[2] \in k.accepted
SoundReply ==
  task.kind = "rep" => \A n \in NumbersOf(task.msg) : life[n] = "working" => n[2] \in task.accepted
Hearsay == (\A k : Heard(k) => Sound(k)) /\ SoundReply

\* An order begins to work with the verdict, and then it ends.
Moves ==
  \A n \in Numbers :
    \/ life'[n] = life[n]
    \/ life[n] = "working" /\ life'[n] = "ended"
    \/ /\ life[n] = "none" /\ life'[n] = "working"
       /\ verdict[n[1]] \notin {"passed", "refused"} /\ n[1] \notin replied

\* The numbers of a message are those of its items.
LEMMA NumbersOfFacts ==
  ASSUME NEW m \in Messages
  PROVE  /\ \A n \in NumbersOf(m) : n \in Numbers /\ n[1] = m /\ n[2] \in Items(m) /\ n = <<m, n[2]>>
         /\ \A n \in Numbers : n[1] = m => n \in NumbersOf(m)
<1>1. \A n \in NumbersOf(m) : n \in Numbers /\ n[1] = m /\ n[2] \in Items(m) /\ n = <<m, n[2]>>
  BY DEF NumbersOf, Numbers
<1>2. ASSUME NEW n \in Numbers, n[1] = m PROVE n \in NumbersOf(m)
  <2>1. n[2] \in Items(m) /\ n = <<m, n[2]>>
    BY <1>2, NumberFacts
  <2>2. QED
    BY <2>1 DEF NumbersOf
<1>3. QED
  BY <1>1, <1>2

LEMMA LivesRequest ==
  ASSUME TypeInv, HandInv, Lives,
         \/ \E m \in Messages :
              Request(m) \/ ForeignOrder(m) \/ \E i \in 0 .. Len(m.items) : RequestWithdraw(m, i)
         \/ Collect \/ CollectWithdraw \/ Tick
  PROVE  Lives' /\ Moves
<1>1. /\ verdict \in [Messages -> {"new", "checking", "passed", "refused"}]
      /\ life \in [Numbers -> {"none", "working", "ended"}]
      /\ withdrawal \in [Messages -> [state: {"none", "asked", "done"}, item: Nat]]
      /\ caller \in {Idle} \cup OrderRequest \cup WithdrawRequest /\ now \in Nat
      /\ \A m \in replied : verdict[m] \in {"passed", "refused"}
  BY DEF TypeInv, HandInv, RepliesSettled
<1>2. \A n \in Numbers : n[1] \in Messages
  BY NumberFacts
<1>3. ASSUME NEW m \in Messages, Request(m) PROVE Lives' /\ Moves
  <2>1. /\ verdict[m] = "new" /\ verdict' = [verdict EXCEPT ![m] = "checking"]
        /\ UNCHANGED <<life, left, withdrawal, told, replied, now>>
        /\ caller' = [kind |-> "order", msg |-> m]
    BY <1>3 DEF Request, truthVars
  <2>2. caller'.kind # "withdraw"
    BY <2>1
  <2>3. \A b \in Messages : verdict'[b] = IF b = m THEN "checking" ELSE verdict[b]
    BY <1>1, <2>1
  <2>4. QED
    BY <1>2, <2>1, <2>2, <2>3 DEF Lives, Moves
<1>4. ASSUME NEW m \in Messages, ForeignOrder(m) PROVE Lives' /\ Moves
  <2>1. /\ verdict[m] = "new" /\ verdict' = [verdict EXCEPT ![m] = "passed"]
        /\ life' = [n \in Numbers |-> IF n \in NumbersOf(m) THEN "working" ELSE life[n]]
        /\ UNCHANGED <<left, withdrawal, told, now, caller>> /\ replied' = replied \cup {m}
    BY <1>4 DEF ForeignOrder
  <2>2. \A b \in Messages : verdict'[b] = IF b = m THEN "passed" ELSE verdict[b]
    BY <1>1, <2>1
  <2>3. \A n \in Numbers : life'[n] = IF n[1] = m THEN "working" ELSE life[n]
    BY <2>1, NumbersOfFacts
  <2>4. \A n \in Numbers : n[1] = m => life[n] = "none"
    BY <2>1 DEF Lives
  <2>5. m \notin replied
    BY <1>1, <2>1
  <2>6. Moves
    BY <2>1, <2>3, <2>4, <2>5 DEF Moves
  <2>7. caller.kind = "withdraw" => caller.msg \in Messages
    BY <1>1 DEF Idle, OrderRequest, WithdrawRequest
  <2>8. QED
    BY <1>2, <2>1, <2>2, <2>3, <2>4, <2>6, <2>7 DEF Lives
<1>5. ASSUME NEW m \in Messages, NEW i \in 0 .. Len(m.items), RequestWithdraw(m, i)
      PROVE  Lives' /\ Moves
  <2>1. /\ UNCHANGED <<verdict, life, left, withdrawal, told, replied, now>>
        /\ caller' = [kind |-> "withdraw", msg |-> m, item |-> i]
        /\ \E n \in NumbersOf(m) : life[n] = "working"
    BY <1>5 DEF RequestWithdraw, truthVars
  <2>2. verdict[m] = "passed"
    BY <2>1, NumbersOfFacts DEF Lives
  <2>3. caller'.msg = m
    BY <2>1
  <2>4. QED
    BY <2>1, <2>2, <2>3 DEF Lives, Moves
<1>6. ASSUME Collect PROVE Lives' /\ Moves
  <2>1. PICK m \in Messages : m = caller.msg /\ verdict[m] = "checking"
    BY <1>6 DEF Collect, HandInv, ObjectsPassed, Own
  <2>2. /\ UNCHANGED <<left, withdrawal, told, now>> /\ caller' = Idle /\ replied \subseteq replied'
        /\ \/ /\ verdict' = [verdict EXCEPT ![m] = "passed"]
              /\ life' = [n \in Numbers |-> IF n \in NumbersOf(m) THEN "working" ELSE life[n]]
           \/ verdict' = [verdict EXCEPT ![m] = "refused"] /\ life' = life
    BY <1>6, <2>1 DEF Collect
  <2>3. caller'.kind # "withdraw"
    BY <2>2 DEF Idle
  <2>4. \A n \in Numbers : n[1] = m => life[n] = "none"
    BY <2>1 DEF Lives
  <2>5. m \notin replied
    BY <1>1, <2>1
  <2>6. CASE /\ verdict' = [verdict EXCEPT ![m] = "passed"]
             /\ life' = [n \in Numbers |-> IF n \in NumbersOf(m) THEN "working" ELSE life[n]]
    <3>1. \A b \in Messages : verdict'[b] = IF b = m THEN "passed" ELSE verdict[b]
      BY <1>1, <2>6
    <3>2. \A n \in Numbers : life'[n] = IF n[1] = m THEN "working" ELSE life[n]
      BY <2>6, NumbersOfFacts
    <3>3. Moves
      BY <2>1, <2>4, <2>5, <3>2 DEF Moves
    <3>4. QED
      BY <1>2, <2>2, <2>3, <2>4, <3>1, <3>2, <3>3 DEF Lives
  <2>7. CASE verdict' = [verdict EXCEPT ![m] = "refused"] /\ life' = life
    <3>1. \A b \in Messages : verdict'[b] = IF b = m THEN "refused" ELSE verdict[b]
      BY <1>1, <2>7
    <3>2. QED
      BY <1>2, <2>1, <2>2, <2>3, <2>7, <3>1 DEF Lives, Moves
  <2>8. QED
    BY <2>2, <2>6, <2>7
<1>7. ASSUME CollectWithdraw PROVE Lives' /\ Moves
  <2>1. PICK m \in Messages : m = caller.msg /\ caller.kind = "withdraw"
    BY <1>1, <1>7 DEF CollectWithdraw, Idle, OrderRequest, WithdrawRequest
  <2>2. PICK w : w = [state |-> "asked", item |-> caller.item]
    OBVIOUS
  <2>3. /\ UNCHANGED <<verdict, life, left, told, replied, now>> /\ caller' = Idle
        /\ withdrawal' = [withdrawal EXCEPT ![m] = w]
    BY <1>7, <2>1, <2>2 DEF CollectWithdraw
  <2>4. \A b \in Messages : b # m => withdrawal'[b] = withdrawal[b]
    BY <1>1, <2>3
  <2>5. caller'.kind # "withdraw"
    BY <2>3 DEF Idle
  <2>6. QED
    BY <2>1, <2>3, <2>4, <2>5 DEF Lives, Moves
<1>8. ASSUME Tick PROVE Lives' /\ Moves
  <2>1. UNCHANGED <<verdict, life, left, withdrawal, told, replied, caller>> /\ now' = now + 1
    BY <1>8 DEF Tick, truthVars, gatewayVars
  <2>2. QED
    BY <1>1, <2>1 DEF Lives, Moves
<1>9. QED
  BY <1>3, <1>4, <1>5, <1>6, <1>7, <1>8

\* Counter, exchange and main thread.
LEMMA LivesReturned ==
  ASSUME TypeInv, HandInv, Lives,
         \/ \E m \in Messages :
              \/ \E accepted \in SUBSET Items(m) : CounterReply(m, accepted)
              \/ \E ok \in BOOLEAN : Withdraw(m, ok)
         \/ \E n \in Numbers :
              \/ \E v \in 1 .. left[n] : Trade(n, v)
              \/ \E type \in {"withdrawn", "failed"} : End(n, type)
         \/ \E r \in returns : Deliver(r)
  PROVE  Lives' /\ Moves
<1>1. /\ life \in [Numbers -> {"none", "working", "ended"}] /\ left \in [Numbers -> Nat]
      /\ withdrawal \in [Messages -> [state: {"none", "asked", "done"}, item: Nat]]
      /\ \A r \in returns : r.kind = "rep" => r.msg \in replied
  BY DEF TypeInv, HandInv, RepliesSettled
<1>2. ASSUME NEW m \in Messages, NEW accepted, CounterReply(m, accepted) PROVE Lives' /\ Moves
  <2>1. /\ verdict[m] = "passed" /\ replied \subseteq replied'
        /\ UNCHANGED <<verdict, caller, left, withdrawal, told, now>>
        /\ life' = [n \in Numbers |->
                      IF n[1] = m /\ n[2] \notin accepted THEN "ended" ELSE life[n]]
        /\ \A i \in Items(m) \ accepted : life[<<m, i>>] = "working"
    BY <1>2 DEF CounterReply, gatewayVars
  <2>2. \A n \in Numbers : n[1] = m /\ n[2] \notin accepted => life[n] = "working"
    BY <2>1, NumberFacts
  <2>3. \A n \in Numbers : \/ life'[n] = life[n]
                           \/ life[n] = "working" /\ life'[n] = "ended" /\ verdict[n[1]] = "passed"
    BY <2>1, <2>2
  <2>4. QED
    BY <2>1, <2>3 DEF Lives, Moves
<1>3. ASSUME NEW m \in Messages, NEW ok \in BOOLEAN, Withdraw(m, ok) PROVE Lives' /\ Moves
  <2>1. PICK hit : hit = {n \in NumbersOf(m) : life[n] = "working" /\
                            (withdrawal[m].item = 0 \/ n = <<m, withdrawal[m].item>>)}
    OBVIOUS
  <2>2. PICK w : w = [withdrawal[m] EXCEPT !.state = "done"]
    OBVIOUS
  <2>3. /\ UNCHANGED <<verdict, caller, left, replied, told, now>>
        /\ life' = [n \in Numbers |-> IF ok /\ n \in hit THEN "ended" ELSE life[n]]
        /\ withdrawal' = [withdrawal EXCEPT ![m] = w]
    BY <1>3, <2>1, <2>2 DEF Withdraw, gatewayVars
  <2>4. w.state = "done"
    BY <1>1, <2>2
  <2>5. \A b \in Messages : withdrawal'[b].state = "asked" => withdrawal[b].state = "asked"
    BY <1>1, <2>3, <2>4
  <2>6. \A n \in Numbers : \/ life'[n] = life[n]
                           \/ life[n] = "working" /\ life'[n] = "ended"
    BY <2>1, <2>3
  <2>7. QED
    BY <2>3, <2>5, <2>6 DEF Lives, Moves
<1>4. ASSUME NEW n \in Numbers, NEW v \in 1 .. left[n], Trade(n, v) PROVE Lives' /\ Moves
  <2>1. PICK e : e = IF v = left[n] THEN "ended" ELSE life[n]
    OBVIOUS
  <2>2. PICK l : l = left[n] - v
    OBVIOUS
  <2>3. /\ UNCHANGED <<verdict, caller, withdrawal, replied, told, now>> /\ life[n] = "working"
        /\ life' = [life EXCEPT ![n] = e] /\ left' = [left EXCEPT ![n] = l]
    BY <1>4, <2>1, <2>2 DEF Trade, gatewayVars
  <2>4. e # "ended" => l > 0
    BY <1>1, <2>1, <2>2
  <2>5. \A b \in Numbers : b # n => life'[b] = life[b] /\ left'[b] = left[b]
    BY <1>1, <2>3
  <2>6. life'[n] = e /\ left'[n] = l /\ e \in {"working", "ended"}
    BY <1>1, <2>1, <2>3
  <2>7. QED
    BY <2>3, <2>4, <2>5, <2>6 DEF Lives, Moves
<1>5. ASSUME NEW n \in Numbers, NEW type, End(n, type) PROVE Lives' /\ Moves
  <2>1. /\ UNCHANGED <<verdict, caller, left, withdrawal, replied, told, now>>
        /\ life[n] = "working" /\ life' = [life EXCEPT ![n] = "ended"]
    BY <1>5 DEF End, gatewayVars
  <2>2. life'[n] = "ended" /\ \A b \in Numbers : b # n => life'[b] = life[b]
    BY <1>1, <2>1
  <2>3. QED
    BY <2>1, <2>2 DEF Lives, Moves
<1>6. ASSUME NEW r \in returns, Deliver(r) PROVE Lives' /\ Moves
  <2>1. /\ UNCHANGED <<verdict, caller, life, left, withdrawal, replied, now>>
        /\ told' = IF r.kind = "rep" THEN told \cup {r.msg} ELSE told
    BY <1>6 DEF Deliver, gatewayVars
  <2>2. QED
    BY <1>1, <2>1 DEF Lives, Moves
<1>7. QED
  BY <1>2, <1>3, <1>4, <1>5, <1>6

LEMMA LivesStep ==
  ASSUME TypeInv, HandInv, Lives, [Next]_vars
  PROVE  Lives' /\ Moves
<1>1. CASE RiskThread \/ UNCHANGED vars
  <2>1. UNCHANGED <<verdict, caller, life, left, withdrawal, replied, told, now>>
    BY <1>1 DEF RiskThread, Take, Check, Pass, HandleRep, ReplayKnock, ReadRep, Frame, vars,
       truthVars, gatewayVars
  <2>2. QED
    BY <2>1 DEF Lives, Moves
<1>2. CASE Surroundings
  BY <1>2, LivesRequest, LivesReturned DEF Surroundings
<1>3. QED
  BY <1>1, <1>2 DEF Next

\* What is heard is a message of the kind it says.
LEMMA HeardKinds ==
  ASSUME TypeInv, HandInv, NEW k, Heard(k)
  PROVE  /\ k.kind = "knock" => k.number \in Numbers
         /\ k.kind = "wrep" => k.msg \in Messages
         /\ k.kind = "rep" => k.msg \in Messages /\ k.msg \in replied
<1>1. ASSUME k \in Queued
      PROVE  /\ k.kind = "knock" => k.number \in Numbers
             /\ k.kind = "wrep" => k.msg \in Messages
             /\ k.kind = "rep" => k.msg \in Messages
  BY <1>1, QueuedKinds DEF Knock, WithdrawReply, Reply
<1>2. ASSUME k \in Knock PROVE k \in Queued /\ k.kind = "knock"
  BY <1>2 DEF Queued, Returns, Knock
<1>3. CASE k \in returns
  BY <1>1, <1>3 DEF TypeInv, Queued, HandInv, RepliesSettled
<1>4. CASE \E j \in DOMAIN tradeQueue : tradeQueue[j] = k
  BY <1>1, <1>4 DEF TypeInv, HandInv, RepliesSettled
<1>5. CASE \E n \in DOMAIN early : \E j \in DOMAIN early[n] : early[n][j] = k
  BY <1>1, <1>2, <1>5 DEF TypeInv, BookTypes
<1>6. CASE \E j \in DOMAIN InHand : InHand[j] = k
  <2>1. InHand \in Seq(Knock)
    BY TaskKinds DEF InHand, TypeInv, TaskTypes, RepTask, KnocksTask
  <2>2. QED
    BY <1>1, <1>2, <1>6, <2>1
<1>7. QED
  BY <1>3, <1>4, <1>5, <1>6 DEF Heard

\* What has been so stays so.
LEMMA SoundStays ==
  ASSUME TypeInv, HandInv, Moves, NEW k, Heard(k), Sound(k)
  PROVE  Sound(k)'
<1>1. ASSUME k.kind = "knock", k.type # "trade" PROVE life'[k.number] = "ended"
  <2>1. k.number \in Numbers /\ life[k.number] = "ended"
    BY <1>1, HeardKinds DEF Sound
  <2>2. QED
    BY <2>1 DEF Moves
<1>2. ASSUME k.kind = "wrep", k.ok, NEW n \in NumbersOf(k.msg), Aims(k, n)
      PROVE  life'[n] = "ended"
  <2>1. life[n] = "ended" /\ n \in Numbers
    BY <1>2, HeardKinds, NumbersOfFacts DEF Sound
  <2>2. QED
    BY <2>1 DEF Moves
<1>3. ASSUME k.kind = "rep", NEW n \in NumbersOf(k.msg), life'[n] = "working"
      PROVE  n[2] \in k.accepted
  <2>1. n \in Numbers /\ n[1] = k.msg /\ k.msg \in replied
    BY <1>3, HeardKinds, NumbersOfFacts
  <2>2. life[n] = "working"
    BY <1>3, <2>1 DEF Moves
  <2>3. QED
    BY <1>3, <2>2 DEF Sound
<1>4. QED
  BY <1>1, <1>2, <1>3 DEF Sound, Aims

LEMMA ReplyStays ==
  ASSUME TypeInv, HandInv, Moves, SoundReply
  PROVE  task.kind = "rep" =>
           \A n \in NumbersOf(task.msg) : life'[n] = "working" => n[2] \in task.accepted
<1>1. SUFFICES ASSUME task.kind = "rep", NEW n \in NumbersOf(task.msg), life'[n] = "working"
               PROVE  n[2] \in task.accepted
  OBVIOUS
<1>2. task.msg \in replied /\ task.msg \in Messages
  BY <1>1, TaskKinds DEF HandInv, RepliesSettled, TypeInv, RepTask
<1>3. n \in Numbers /\ n[1] = task.msg
  BY <1>1, <1>2, NumbersOfFacts
<1>4. life[n] = "working"
  BY <1>1, <1>2, <1>3 DEF Moves
<1>5. QED
  BY <1>1, <1>4 DEF SoundReply

\* Around the risk thread: what is new in the queue was heard before, what is new
\* among the returns is what just happened.
LEMMA HearsayAround ==
  ASSUME TypeInv, HandInv, Hearsay, Moves, UNCHANGED <<early, task>>,
         \A r \in returns' : r \in returns \/ Sound(r)',
         \A j \in DOMAIN tradeQueue' :
           \/ j \in DOMAIN tradeQueue /\ tradeQueue'[j] = tradeQueue[j]
           \/ tradeQueue'[j] \in returns
           \/ tradeQueue'[j].kind \in {"order", "withdraw"}
  PROVE  Hearsay'
<1>1. InHand' = InHand
  BY DEF InHand
<1>2. \A k : Heard(k)' => Heard(k) \/ Sound(k)'
  <2>1. SUFFICES ASSUME NEW k, Heard(k)', ~Heard(k) PROVE Sound(k)'
    OBVIOUS
  <2>2. \/ k \in returns' /\ k \notin returns
        \/ k.kind \in {"order", "withdraw"}
    BY <1>1, <2>1 DEF Heard
  <2>3. QED
    BY <2>2 DEF Sound
<1>3. \A k : Heard(k)' => Sound(k)'
  BY <1>2, SoundStays DEF Hearsay
<1>4. SoundReply'
  BY ReplyStays DEF Hearsay, SoundReply
<1>5. QED
  BY <1>3, <1>4 DEF Hearsay

\* The risk thread hears nothing new.
LEMMA HearsayInside ==
  ASSUME TypeInv, HandInv, Hearsay, Moves, \A k : Heard(k)' => Heard(k), SoundReply'
  PROVE  Hearsay'
BY SoundStays DEF Hearsay

LEMMA HearsayOutside ==
  ASSUME TypeInv, HandInv, Lives, Hearsay, Moves, Surroundings \/ ReadRep \/ UNCHANGED vars
  PROVE  Hearsay'
<1>1. UNCHANGED <<early, task>>
  BY AroundFrame
<1>2. /\ tradeQueue \in Seq(Queued)
      /\ life \in [Numbers -> {"none", "working", "ended"}]
      /\ caller \in {Idle} \cup OrderRequest \cup WithdrawRequest
      /\ \A m \in replied : verdict[m] \in {"passed", "refused"}
  BY DEF TypeInv, HandInv, RepliesSettled
<1>3. ASSUME NEW x, Append(tradeQueue, x) = tradeQueue', x \in Queued,
             x \in returns \/ x.kind \in {"order", "withdraw"},
             \A r \in returns' : r \in returns \/ Sound(r)'
      PROVE  Hearsay'
  <2>1. PICK e : e = Len(tradeQueue) + 1
    OBVIOUS
  <2>2. /\ DOMAIN tradeQueue' = DOMAIN tradeQueue \cup {e} /\ tradeQueue'[e] = x
        /\ \A p \in DOMAIN tradeQueue : tradeQueue'[p] = tradeQueue[p]
    BY <1>2, <1>3, <2>1, AppendFacts
  <2>3. QED
    BY <1>1, <1>3, <2>2, HearsayAround
<1>4. ASSUME UNCHANGED tradeQueue, \A r \in returns' : r \in returns \/ Sound(r)' PROVE Hearsay'
  BY <1>1, <1>4, HearsayAround
<1>5. ASSUME NEW m \in Messages, Request(m) PROVE Hearsay'
  <2>1. PICK x : x = [kind |-> "order", msg |-> m]
    OBVIOUS
  <2>2. Append(tradeQueue, x) = tradeQueue' /\ returns' = returns
    BY <1>5, <2>1 DEF Request, truthVars
  <2>3. x \in Queued /\ x.kind = "order"
    BY <2>1 DEF Queued, OrderRequest
  <2>4. QED
    BY <1>3, <2>2, <2>3
<1>6. ASSUME NEW m \in Messages, NEW i \in 0 .. Len(m.items), RequestWithdraw(m, i)
      PROVE  Hearsay'
  <2>1. PICK x : x = [kind |-> "withdraw", msg |-> m, item |-> i]
    OBVIOUS
  <2>2. Append(tradeQueue, x) = tradeQueue' /\ returns' = returns
    BY <1>6, <2>1 DEF RequestWithdraw, truthVars
  <2>3. x \in Queued /\ x.kind = "withdraw"
    <3>1. i \in Nat
      BY ItemsFacts
    <3>2. QED
      BY <2>1, <3>1 DEF Queued, WithdrawRequest
  <2>4. QED
    BY <1>3, <2>2, <2>3
<1>7. ASSUME NEW r \in returns, Deliver(r) PROVE Hearsay'
  <2>1. Append(tradeQueue, r) = tradeQueue' /\ returns' \subseteq returns
    BY <1>7 DEF Deliver
  <2>2. r \in Queued
    BY <1>7 DEF TypeInv, Queued
  <2>3. QED
    BY <1>3, <1>7, <2>1, <2>2
<1>8. ASSUME Collect PROVE Hearsay'
  <2>1. PICK m \in Messages : m = caller.msg /\ verdict[m] = "checking"
    BY <1>8 DEF Collect, HandInv, ObjectsPassed, Own
  <2>2. PICK x : x = [kind |-> "rep", msg |-> m, accepted |-> {}]
    OBVIOUS
  <2>3. UNCHANGED tradeQueue /\ (returns' = returns \/ (returns' = returns \cup {x} /\ life' = life))
    BY <1>8, <2>1, <2>2 DEF Collect
  <2>4. \A n \in NumbersOf(m) : life[n] # "working"
    BY <2>1, NumbersOfFacts DEF Lives
  <2>5. x.kind = "rep" /\ x.msg = m
    BY <2>2
  <2>6. life' = life => Sound(x)'
    BY <2>4, <2>5 DEF Sound
  <2>7. QED
    BY <1>4, <2>3, <2>6
<1>9. ASSUME NEW m \in Messages, NEW accepted, CounterReply(m, accepted) PROVE Hearsay'
  <2>1. PICK x : x = [kind |-> "rep", msg |-> m, accepted |-> accepted]
    OBVIOUS
  <2>2. /\ UNCHANGED tradeQueue /\ returns' = returns \cup {x}
        /\ life' = [n \in Numbers |->
                      IF n[1] = m /\ n[2] \notin accepted THEN "ended" ELSE life[n]]
    BY <1>9, <2>1 DEF CounterReply, gatewayVars
  <2>3. x.kind = "rep" /\ x.msg = m /\ x.accepted = accepted
    BY <2>1
  <2>4. \A n \in NumbersOf(m) : life'[n] = "working" => n[2] \in accepted
    BY <2>2, NumbersOfFacts
  <2>5. Sound(x)'
    BY <2>3, <2>4 DEF Sound
  <2>6. QED
    BY <1>4, <2>2, <2>5
<1>10. ASSUME NEW m \in Messages, NEW ok \in BOOLEAN, Withdraw(m, ok) PROVE Hearsay'
  <2>1. PICK i : i = withdrawal[m].item
    OBVIOUS
  <2>2. PICK hit : hit = {n \in NumbersOf(m) : life[n] = "working" /\ (i = 0 \/ n = <<m, i>>)}
    OBVIOUS
  <2>3. PICK x : x = [kind |-> "wrep", msg |-> m, item |-> i, ok |-> ok]
    OBVIOUS
  <2>4. PICK K : K = IF ok THEN {[kind |-> "knock", number |-> n, type |-> "withdrawn",
                                   volume |-> left[n], left |-> left[n]] : n \in hit} ELSE {}
    OBVIOUS
  <2>5. /\ UNCHANGED tradeQueue /\ returns' = returns \cup {x} \cup K
        /\ life' = [n \in Numbers |-> IF ok /\ n \in hit THEN "ended" ELSE life[n]]
        /\ withdrawal[m].state = "asked"
    BY <1>10, <2>1, <2>2, <2>3, <2>4 DEF Withdraw
  <2>6. verdict[m] = "passed"
    BY <2>5 DEF Lives
  <2>7. Sound(x)'
    <3>1. x.kind = "wrep" /\ x.msg = m /\ x.item = i /\ x.ok = ok
      BY <2>3
    <3>2. ASSUME ok, NEW n \in NumbersOf(m), i = 0 \/ n = <<m, i>> PROVE life'[n] = "ended"
      <4>1. n \in Numbers /\ n[1] = m
        BY NumbersOfFacts
      <4>2. life[n] # "none" /\ life[n] \in {"none", "working", "ended"}
        BY <1>2, <2>6, <4>1 DEF Lives
      <4>3. QED
        BY <2>2, <2>5, <3>2, <4>1, <4>2
    <3>3. QED
      BY <3>1, <3>2 DEF Sound, Aims
  <2>8. ASSUME NEW k \in K PROVE Sound(k)'
    <3>1. ok
      BY <2>4, <2>8
    <3>2. PICK n \in hit : k = [kind |-> "knock", number |-> n, type |-> "withdrawn",
                                volume |-> left[n], left |-> left[n]]
      BY <2>4, <2>8, <3>1
    <3>3. k.kind = "knock" /\ k.number = n
      BY <3>2
    <3>4. n \in Numbers
      BY <2>2, NumbersOfFacts
    <3>5. life'[n] = "ended"
      BY <2>5, <3>1, <3>4
    <3>6. QED
      BY <3>3, <3>5 DEF Sound
  <2>9. QED
    BY <1>4, <2>5, <2>7, <2>8
<1>11. ASSUME NEW n \in Numbers, NEW v, Trade(n, v) PROVE Hearsay'
  <2>1. PICK x : x = [kind |-> "knock", number |-> n, type |-> "trade", volume |-> v,
                      left |-> left[n] - v]
    OBVIOUS
  <2>2. UNCHANGED tradeQueue /\ returns' = returns \cup {x}
    BY <1>11, <2>1 DEF Trade
  <2>3. x.kind = "knock" /\ x.type = "trade"
    BY <2>1
  <2>4. Sound(x)'
    BY <2>3 DEF Sound
  <2>5. QED
    BY <1>4, <2>2, <2>4
<1>12. ASSUME NEW n \in Numbers, NEW type, End(n, type) PROVE Hearsay'
  <2>1. PICK x : x = [kind |-> "knock", number |-> n, type |-> type, volume |-> left[n],
                      left |-> left[n]]
    OBVIOUS
  <2>2. /\ UNCHANGED tradeQueue /\ returns' = returns \cup {x}
        /\ life' = [life EXCEPT ![n] = "ended"]
    BY <1>12, <2>1 DEF End
  <2>3. x.kind = "knock" /\ x.number = n /\ life'[n] = "ended"
    BY <1>2, <2>1, <2>2
  <2>4. Sound(x)'
    BY <2>3 DEF Sound
  <2>5. QED
    BY <1>4, <2>2, <2>4
<1>13. CASE Tick \/ CollectWithdraw \/ ReadRep \/ (\E m \in Messages : ForeignOrder(m))
            \/ UNCHANGED vars
  <2>1. UNCHANGED <<tradeQueue, returns>>
    BY <1>13 DEF Tick, CollectWithdraw, ReadRep, ForeignOrder, vars, truthVars
  <2>2. QED
    BY <1>4, <2>1
<1>14. QED
  BY <1>5, <1>6, <1>7, <1>8, <1>9, <1>10, <1>11, <1>12, <1>13 DEF Surroundings

\* What is kept of a knock that comes early.
LEMMA EarlyKept ==
  ASSUME BookTypes, NEW k \in Knock, OnTradeKnock(k)
  PROVE  \A n \in DOMAIN early' : \A j \in DOMAIN early'[n] :
           \/ early'[n][j] = k
           \/ n \in DOMAIN early /\ j \in DOMAIN early[n] /\ early'[n][j] = early[n][j]
<1>1. CASE early' = early
  BY <1>1
<1>2. CASE KnockEarly(k) /\ early' # early
  <2>1. PICK s : s = IF k.number \in DOMAIN early THEN early[k.number] ELSE <<>>
    OBVIOUS
  <2>2. /\ DOMAIN early' = DOMAIN early \cup {k.number}
        /\ \A n \in DOMAIN early : n # k.number => early'[n] = early[n]
        /\ early'[k.number] = s \o <<k>>
    BY <1>2, <2>1, EarlyFacts
  <2>3. s \in Seq(Knock) /\ (k.number \notin DOMAIN early => DOMAIN s = {})
    BY <2>1 DEF BookTypes
  <2>4. PICK e : e = Len(s) + 1
    OBVIOUS
  <2>5. PICK t : t = s \o <<k>>
    OBVIOUS
  <2>6. DOMAIN t = DOMAIN s \cup {e} /\ t[e] = k /\ \A j \in DOMAIN s : t[j] = s[j]
    <3>1. Append(s, k) = t
      BY <2>3, <2>5
    <3>2. QED
      BY <2>3, <2>4, <3>1, AppendFacts
  <2>7. SUFFICES ASSUME NEW n \in DOMAIN early', NEW j \in DOMAIN early'[n], early'[n][j] # k
                 PROVE  n \in DOMAIN early /\ j \in DOMAIN early[n] /\ early'[n][j] = early[n][j]
    OBVIOUS
  <2>8. CASE n = k.number
    BY <2>1, <2>2, <2>3, <2>5, <2>6, <2>7, <2>8
  <2>9. CASE n # k.number
    BY <2>2, <2>7, <2>9
  <2>10. QED
    BY <2>8, <2>9
<1>3. QED
  BY <1>1, <1>2, KnownFacts DEF OnTradeKnock

LEMMA HearsayTake ==
  ASSUME TypeInv, HandInv, Hearsay, Moves, Take, life' = life
  PROVE  Hearsay'
<1>1. /\ tradeQueue \in Seq(Queued) /\ tradeQueue # <<>> /\ tradeQueue' = Tail(tradeQueue)
      /\ UNCHANGED returns /\ BookTypes /\ now \in Nat
  BY DEF TypeInv, Take, Frame, truthVars
<1>2. PICK r : r = Head(tradeQueue)
  OBVIOUS
<1>3. PICK n \in Nat \ {0} :
        /\ DOMAIN tradeQueue = 1 .. n /\ DOMAIN Tail(tradeQueue) = 1 .. n - 1
        /\ Head(tradeQueue) = tradeQueue[1] /\ 1 \in DOMAIN tradeQueue
        /\ Head(tradeQueue) \in Queued
        /\ \A k \in 1 .. n - 1 : k + 1 \in 1 .. n /\ Tail(tradeQueue)[k] = tradeQueue[k + 1]
  BY <1>1, TailFacts
<1>4. Heard(r) /\ Sound(r) /\ r \in Queued
  BY <1>2, <1>3 DEF Heard, Hearsay
<1>5. /\ \/ task' = Idle
         \/ task' = [kind |-> "check", msg |-> r.msg, item |-> 1]
         \/ /\ r.kind = "rep"
            /\ task' = [kind |-> "rep", msg |-> r.msg, item |-> 1, accepted |-> r.accepted,
                        members |-> <<>>, knocks |-> <<>>]
      /\ \/ early' = early
         \/ r.kind = "knock" /\ OnTradeKnock(r)
  BY <1>2 DEF Take, riskerVars, HandleTradeWithdrawReq, HandleTradeWithdrawRep
<1>6. InHand' = <<>>
  <2>1. \/ task' = Idle \/ task'.kind = "check" \/ (task'.kind = "rep" /\ task'.knocks = <<>>)
    BY <1>5
  <2>2. QED
    BY <2>1 DEF InHand, Idle
<1>7. \A b \in DOMAIN early' : \A j \in DOMAIN early'[b] :
        \/ early'[b][j] = r
        \/ b \in DOMAIN early /\ j \in DOMAIN early[b] /\ early'[b][j] = early[b][j]
  <2>1. r.kind = "knock" => r \in Knock
    BY <1>4, QueuedKinds
  <2>2. QED
    BY <1>1, <1>5, <2>1, EarlyKept
<1>8. \A k : Heard(k)' => Heard(k)
  <2>1. \A j \in DOMAIN tradeQueue' : \E i \in DOMAIN tradeQueue : tradeQueue'[j] = tradeQueue[i]
    BY <1>1, <1>3
  <2>2. SUFFICES ASSUME NEW k, Heard(k)' PROVE Heard(k)
    OBVIOUS
  <2>3. CASE k \in returns'
    BY <1>1, <2>3 DEF Heard
  <2>4. CASE \E j \in DOMAIN tradeQueue' : tradeQueue'[j] = k
    BY <2>1, <2>4 DEF Heard
  <2>5. CASE \E b \in DOMAIN early' : \E j \in DOMAIN early'[b] : early'[b][j] = k
    BY <1>4, <1>7, <2>5 DEF Heard
  <2>6. CASE \E j \in DOMAIN InHand' : InHand'[j] = k
    BY <1>6, <2>6
  <2>7. QED
    BY <2>2, <2>3, <2>4, <2>5, <2>6 DEF Heard
<1>9. SoundReply'
  <2>1. CASE task' = Idle
    BY <2>1 DEF SoundReply, Idle
  <2>2. CASE task' = [kind |-> "check", msg |-> r.msg, item |-> 1]
    BY <2>2 DEF SoundReply
  <2>3. CASE /\ r.kind = "rep"
             /\ task' = [kind |-> "rep", msg |-> r.msg, item |-> 1, accepted |-> r.accepted,
                         members |-> <<>>, knocks |-> <<>>]
    <3>1. task'.msg = r.msg /\ task'.accepted = r.accepted
      BY <2>3
    <3>2. QED
      BY <1>4, <2>3, <3>1 DEF SoundReply, Sound
  <2>4. QED
    BY <1>5, <2>1, <2>2, <2>3
<1>10. QED
  BY <1>8, <1>9, HearsayInside

LEMMA HearsayCheck ==
  ASSUME TypeInv, HandInv, Hearsay, Moves, Check \/ Pass
  PROVE  Hearsay'
<1>1. BookTypes /\ now \in Nat /\ task \in CheckTask /\ UNCHANGED <<tradeQueue, returns>>
  BY TaskKinds DEF TypeInv, Check, Pass, Frame, truthVars
<1>2. PICK m \in Messages, i \in Nat \ {0} : m = task.msg /\ i = task.item
  BY <1>1 DEF CheckTask, Own
<1>3. early' = early
  BY <1>1, <1>2, CheckItemFacts, PassItemFacts DEF Check, Pass, riskerVars
<1>4. task'.kind \in {"check", "pass", "idle"}
  <2>1. \/ task' = Idle \/ task' = [task EXCEPT !.item = i + 1]
        \/ task' = [kind |-> "pass", msg |-> m, item |-> 1]
    BY <1>2 DEF Check, Pass
  <2>2. CASE task' = [task EXCEPT !.item = i + 1]
    BY <1>1, <2>2 DEF CheckTask
  <2>3. QED
    BY <2>1, <2>2 DEF Idle
<1>5. InHand' = <<>>
  BY <1>4 DEF InHand
<1>6. \A k : Heard(k)' => Heard(k)
  BY <1>1, <1>3, <1>5 DEF Heard
<1>7. SoundReply'
  BY <1>4 DEF SoundReply
<1>8. QED
  BY <1>6, <1>7, HearsayInside

LEMMA EarlyRegistered ==
  ASSUME BookTypes, now \in Nat, NEW m \in Messages, NEW i \in Items(m), NEW o, NEW n, n = <<m, i>>,
         RepItemKnown(m, i, o) \/ RepItemUnknown(m, i, o)
  PROVE  /\ o \in DOMAIN orders'
         /\ \A k \in DOMAIN early' : k # n /\ k \in DOMAIN early /\ early'[k] = early[k]
BY RegisteredFacts

LEMMA HearsayRep ==
  ASSUME TypeInv, HandInv, Hearsay, Moves, HandleRep, life' = life
  PROVE  Hearsay'
<1>1. /\ BookTypes /\ now \in Nat /\ TaskTypes /\ UNCHANGED <<tradeQueue, returns>>
  BY DEF TypeInv, HandleRep, Frame, truthVars
<1>2. task \in RepTask /\ task.kind = "rep"
  BY <1>1, TaskKinds DEF HandleRep
<1>3. PICK m \in Messages, i \in Nat \ {0} : m = task.msg /\ i = task.item
  BY <1>2 DEF RepTask
<1>4. InHand = task.knocks
  BY <1>2 DEF InHand
<1>5. ASSUME early' = early, InHand' = InHand PROVE \A k : Heard(k)' => Heard(k)
  BY <1>1, <1>5 DEF Heard
<1>6. ASSUME task' = [task EXCEPT !.item = i + 1] PROVE InHand' = InHand /\ SoundReply'
  <2>1. task'.msg = task.msg /\ task'.accepted = task.accepted
    BY <1>2, <1>6 DEF RepTask
  <2>2. QED
    BY <1>2, <1>6, <2>1, HandKept DEF Hearsay, SoundReply
<1>7. CASE i \in Items(m) /\ ~(Guards(m, i) /\ i \in task.accepted)
  <2>1. task' = [task EXCEPT !.item = i + 1] /\ UNCHANGED early
    BY <1>3, <1>7 DEF HandleRep, riskerVars, RepItemRejected
  <2>2. QED
    BY <1>5, <1>6, <2>1, HearsayInside
<1>8. CASE i \in Items(m) /\ Guards(m, i) /\ i \in task.accepted
  <2>1. PICK o : RegisterReply(m, i, o)
    BY <1>3, <1>8 DEF HandleRep
  <2>2. RepItemKnown(m, i, o) \/ RepItemUnknown(m, i, o)
    BY <2>1 DEF RegisterReply
  <2>3. PICK n : n = <<m, i>>
    OBVIOUS
  <2>4. /\ o \in DOMAIN orders'
        /\ \A k \in DOMAIN early' : k # n /\ k \in DOMAIN early /\ early'[k] = early[k]
    <3>1. i \in Items(m) /\ BookTypes /\ now \in Nat
      BY <1>1, <1>8
    <3>2. QED
      BY <2>2, <2>3, <3>1, EarlyRegistered
  <2>5. PICK s : s = IF IsBatch(m) THEN Append(task.members, o) ELSE task.members
    OBVIOUS
  <2>6. PICK e : e = IF n \in DOMAIN early THEN early[n] ELSE task.knocks
    OBVIOUS
  <2>7. task' = [task EXCEPT !.item = i + 1, !.members = s, !.knocks = e]
    BY <1>3, <2>1, <2>3, <2>5, <2>6 DEF RegisterReply
  <2>8. task'.kind = "rep" /\ task'.msg = task.msg /\ task'.accepted = task.accepted /\ task'.knocks = e
    BY <1>2, <2>7 DEF RepTask
  <2>9. InHand' = e
    BY <2>8 DEF InHand
  <2>10. \A k : Heard(k)' => Heard(k)
    <3>1. SUFFICES ASSUME NEW k, Heard(k)' PROVE Heard(k)
      OBVIOUS
    <3>2. CASE k \in returns' \/ \E j \in DOMAIN tradeQueue' : tradeQueue'[j] = k
      BY <1>1, <3>2 DEF Heard
    <3>3. CASE \E b \in DOMAIN early' : \E j \in DOMAIN early'[b] : early'[b][j] = k
      BY <2>4, <3>3 DEF Heard
    <3>4. CASE \E j \in DOMAIN InHand' : InHand'[j] = k
      BY <1>4, <2>6, <2>9, <3>4 DEF Heard
    <3>5. QED
      BY <3>1, <3>2, <3>3, <3>4 DEF Heard
  <2>11. SoundReply'
    BY <1>2, <2>8 DEF Hearsay, SoundReply
  <2>12. QED
    BY <2>10, <2>11, HearsayInside
<1>9. CASE i \notin Items(m)
  <2>1. task' = [kind |-> "knocks", rest |-> task.knocks] /\ early' = early
    BY <1>3, <1>9 DEF HandleRep, RegisterBatch
  <2>2. InHand' = InHand
    BY <1>4, <2>1 DEF InHand
  <2>3. SoundReply'
    BY <2>1 DEF SoundReply
  <2>4. QED
    BY <1>5, <2>1, <2>2, <2>3, HearsayInside
<1>10. QED
  BY <1>7, <1>8, <1>9

LEMMA HearsayReplay ==
  ASSUME TypeInv, HandInv, Hearsay, Moves, ReplayKnock
  PROVE  Hearsay'
<1>1. BookTypes /\ TaskTypes /\ UNCHANGED <<tradeQueue, returns>>
  BY DEF TypeInv, ReplayKnock, Frame, truthVars
<1>2. task \in KnocksTask /\ task.rest \in Seq(Knock) /\ task.kind = "knocks"
  BY <1>1, TaskKinds DEF ReplayKnock, KnocksTask
<1>3. InHand = task.rest
  BY <1>2 DEF InHand
<1>4. CASE task.rest = <<>>
  <2>1. task' = Idle /\ early' = early
    BY <1>4 DEF ReplayKnock, riskerVars
  <2>2. InHand' = <<>> /\ SoundReply'
    BY <2>1 DEF InHand, SoundReply, Idle
  <2>3. \A k : Heard(k)' => Heard(k)
    BY <1>1, <2>1, <2>2 DEF Heard
  <2>4. QED
    BY <2>2, <2>3, HearsayInside
<1>5. CASE task.rest # <<>>
  <2>1. PICK r : r = Head(task.rest)
    OBVIOUS
  <2>2. OnTradeKnock(r) /\ task' = [task EXCEPT !.rest = Tail(task.rest)]
    BY <1>5, <2>1 DEF ReplayKnock
  <2>3. task'.kind = "knocks" /\ task'.rest = Tail(task.rest)
    BY <1>2, <2>2 DEF KnocksTask
  <2>4. InHand' = Tail(InHand) /\ SoundReply'
    BY <1>3, <2>3 DEF InHand, SoundReply
  <2>5. PICK n \in Nat \ {0} :
          /\ DOMAIN InHand = 1 .. n /\ DOMAIN Tail(InHand) = 1 .. n - 1
          /\ Head(InHand) = InHand[1] /\ 1 \in DOMAIN InHand /\ Head(InHand) \in Knock
          /\ \A k \in 1 .. n - 1 : k + 1 \in 1 .. n /\ Tail(InHand)[k] = InHand[k + 1]
    BY <1>2, <1>3, <1>5, TailFacts
  <2>6. r \in Knock /\ Heard(r)
    BY <1>3, <2>1, <2>5 DEF Heard
  <2>7. \A b \in DOMAIN early' : \A j \in DOMAIN early'[b] :
          \/ early'[b][j] = r
          \/ b \in DOMAIN early /\ j \in DOMAIN early[b] /\ early'[b][j] = early[b][j]
    BY <1>1, <2>2, <2>6, EarlyKept
  <2>8. \A k : Heard(k)' => Heard(k)
    <3>1. SUFFICES ASSUME NEW k, Heard(k)' PROVE Heard(k)
      OBVIOUS
    <3>2. CASE k \in returns' \/ \E j \in DOMAIN tradeQueue' : tradeQueue'[j] = k
      BY <1>1, <3>2 DEF Heard
    <3>3. CASE \E b \in DOMAIN early' : \E j \in DOMAIN early'[b] : early'[b][j] = k
      BY <2>6, <2>7, <3>3 DEF Heard
    <3>4. CASE \E j \in DOMAIN InHand' : InHand'[j] = k
      BY <2>4, <2>5, <3>4 DEF Heard
    <3>5. QED
      BY <3>1, <3>2, <3>3, <3>4 DEF Heard
  <2>9. QED
    BY <2>4, <2>8, HearsayInside
<1>6. QED
  BY <1>4, <1>5

LEMMA HearsayStep ==
  ASSUME TypeInv, HandInv, Lives, Hearsay, [Next]_vars
  PROVE  Hearsay'
<1>1. Moves
  BY LivesStep
<1>2. RiskThread => life' = life
  BY DEF RiskThread, Take, Check, Pass, HandleRep, ReplayKnock, ReadRep, Frame, truthVars
<1>3. QED
  BY <1>1, <1>2, HearsayOutside, HearsayTake, HearsayCheck, HearsayRep, HearsayReplay
     DEF Next, RiskThread

LEMMA LivesInit ==
  ASSUME Init
  PROVE  Lives /\ Hearsay
<1>1. /\ life = [n \in Numbers |-> "none"] /\ verdict = [m \in Messages |-> "new"]
      /\ left = [n \in Numbers |-> n[1].items[n[2]].volume] /\ told = {} /\ now = 1
      /\ caller.kind = "idle" /\ withdrawal = [m \in Messages |-> NoWithdrawal]
      /\ returns = {} /\ tradeQueue = <<>> /\ DOMAIN early = {} /\ task.kind = "idle"
  BY DEF Init, Idle
<1>2. \A n \in Numbers : n[1] \in Messages /\ left[n] > 0
  BY <1>1, NumberFacts DEF ItemType
<1>3. Lives
  BY <1>1, <1>2 DEF Lives, NoWithdrawal
<1>4. InHand = <<>>
  BY <1>1 DEF InHand
<1>5. QED
  BY <1>1, <1>3, <1>4 DEF Hearsay, Heard, SoundReply

-----------------------------------------------------------------------------
(* The object of an order that works. *)

\* Nothing but time after a withdrawal request ends what the record is of.
Firmly(x) == ~x.withdrawn /\ (x.finish => x.withdrawAsked > 0)
Works(n) == life[n] = "working" /\ ~Doubled(n)
Firm == \A o \in DOMAIN orders : \A n \in Numbers : orders[o].number = n /\ Works(n) => Firmly(orders[o])

\* Of a step: object o is as it was but for its end, or firm if its order works.
SameOrEnded(o) ==
  /\ o \in DOMAIN orders
  /\ \/ orders'[o] = orders[o]
     \/ Finished(orders[o]) /\ orders'[o] = [orders[o] EXCEPT !.finish = TRUE]
StaysFirm(o) ==
  /\ o \in DOMAIN orders =>
       /\ orders'[o].number = orders[o].number \/ orders[o].number = NoNumber
       /\ orders[o].withdrawAsked > 0 => orders'[o].withdrawAsked > 0
  /\ \A n \in Numbers : orders'[o].number = n /\ Works(n)' => Firmly(orders'[o])
\* Of a step: the object of a working order stays and keeps its number.
Stands ==
  \A o \in DOMAIN orders : \A n \in Numbers : orders[o].number = n /\ Works(n)' =>
    /\ o \in DOMAIN orders' /\ orders'[o].number = n
    /\ orders[o].withdrawAsked > 0 => orders'[o].withdrawAsked > 0
    /\ o \in book => o \in book' \/ orders[o].withdrawAsked > 0

LEMMA AgainGrows ==
  ASSUME [Next]_vars
  PROVE  again \subseteq again'
BY AgainKept

LEMMA WasWorking ==
  ASSUME TypeInv, ObjInv, Moves, again \subseteq again',
         NEW o \in DOMAIN orders, NEW n \in Numbers, orders[o].number = n, Works(n)'
  PROVE  Works(n)
<1>1. n # NoNumber
  BY NumberFacts
<1>2. n[1] \in replied
  BY <1>1 DEF ObjInv, Stems
<1>3. life'[n] = "working" /\ ~Doubled(n)'
  BY DEF Works
<1>4. life[n] = "working"
  BY <1>2, <1>3 DEF Moves
<1>5. ~Doubled(n)
  BY <1>3 DEF Doubled
<1>6. QED
  BY <1>4, <1>5 DEF Works

\* A working order's object that counts as finished was asked to be withdrawn.
LEMMA WorkingFinished ==
  ASSUME TypeInv, ObjInv, Lives, Within, Firm, NEW o \in DOMAIN orders, NEW n \in Numbers,
         orders[o].number = n, Works(n), Finished(orders[o])
  PROVE  orders[o].withdrawAsked > 0
<1>1. PICK x \in Order : x = orders[o]
  BY ObjectFacts DEF TypeInv
<1>2. Firmly(x)
  BY <1>1 DEF Firm
<1>3. n # NoNumber
  BY NumberFacts
<1>4. OfItem(x, n)
  BY <1>1, <1>3 DEF ObjInv, Stems
<1>5. x.matched <= VolumeOf(n) - left[n]
  BY <1>1, <1>3 DEF Within, Works
<1>6. left[n] > 0 /\ left[n] \in Nat
  BY DEF Lives, Works, TypeInv
<1>7. x.volume = VolumeOf(n) /\ x.volume \in Nat /\ x.matched \in Nat
  BY <1>4 DEF OfItem, Order
<1>8. ~(x.matched >= x.volume)
  BY <1>5, <1>6, <1>7
<1>9. QED
  BY <1>1, <1>2, <1>3, <1>8 DEF Finished, Firmly

LEMMA FirmFrame ==
  ASSUME TypeInv, ObjInv, Lives, Within, Firm, Moves, again \subseteq again',
         DOMAIN orders \subseteq DOMAIN orders',
         \A o \in DOMAIN orders' : SameOrEnded(o) \/ StaysFirm(o),
         \A o \in book : \/ o \in book' \/ Finished(orders[o])
                         \/ \A n \in Numbers : orders[o].number = n => ~Works(n)'
  PROVE  Firm' /\ Stands
<1>1. ASSUME NEW o \in DOMAIN orders, SameOrEnded(o)
      PROVE  /\ orders'[o].number = orders[o].number
             /\ orders'[o].withdrawAsked = orders[o].withdrawAsked
             /\ \A n \in Numbers : orders[o].number = n /\ Works(n)' => Firmly(orders'[o])
  <2>1. PICK x \in Order : x = orders[o]
    BY ObjectFacts DEF TypeInv
  <2>2. CASE orders'[o] = orders[o]
    BY <2>2, WasWorking DEF Firm
  <2>3. CASE Finished(orders[o]) /\ orders'[o] = [orders[o] EXCEPT !.finish = TRUE]
    <3>1. PICK y : y = [x EXCEPT !.finish = TRUE]
      OBVIOUS
    <3>2. y.number = x.number /\ y.withdrawAsked = x.withdrawAsked /\ y.withdrawn = x.withdrawn
      BY <2>1, <3>1 DEF Order
    <3>3. ASSUME NEW n \in Numbers, x.number = n, Works(n)' PROVE Firmly(y)
      <4>1. Works(n)
        BY <2>1, <3>3, WasWorking
      <4>2. x.withdrawAsked > 0
        BY <2>1, <2>3, <3>3, <4>1, WorkingFinished
      <4>3. ~x.withdrawn
        BY <2>1, <3>3, <4>1 DEF Firm, Firmly
      <4>4. QED
        BY <3>2, <4>2, <4>3 DEF Firmly
    <3>4. QED
      BY <2>1, <2>3, <3>1, <3>2, <3>3
  <2>4. QED
    BY <1>1, <2>2, <2>3 DEF SameOrEnded
<1>2. ASSUME NEW o \in DOMAIN orders', NEW n \in Numbers, orders'[o].number = n, Works(n)'
      PROVE  Firmly(orders'[o])
  <2>1. CASE SameOrEnded(o)
    BY <1>1, <1>2, <2>1 DEF SameOrEnded
  <2>2. CASE StaysFirm(o)
    BY <1>2, <2>2 DEF StaysFirm
  <2>3. QED
    BY <1>2, <2>1, <2>2
<1>3. ASSUME NEW o \in DOMAIN orders, NEW n \in Numbers, orders[o].number = n, Works(n)'
      PROVE  /\ o \in DOMAIN orders' /\ orders'[o].number = n
             /\ orders[o].withdrawAsked > 0 => orders'[o].withdrawAsked > 0
             /\ o \in book => o \in book' \/ orders[o].withdrawAsked > 0
  <2>1. n # NoNumber /\ Works(n)
    BY <1>3, NumberFacts, WasWorking
  <2>2. o \in DOMAIN orders'
    OBVIOUS
  <2>3. orders'[o].number = n /\ (orders[o].withdrawAsked > 0 => orders'[o].withdrawAsked > 0)
    BY <1>1, <1>3, <2>1, <2>2 DEF StaysFirm
  <2>4. Finished(orders[o]) => orders[o].withdrawAsked > 0
    BY <1>3, <2>1, WorkingFinished
  <2>5. o \in book => o \in book' \/ orders[o].withdrawAsked > 0
    BY <1>3, <2>4
  <2>6. QED
    BY <2>2, <2>3, <2>5
<1>4. Firm'
  BY <1>2 DEF Firm
<1>5. Stands
  BY <1>3 DEF Stands
<1>6. QED
  BY <1>4, <1>5

\* The risk thread learns of a trade or of the end of an order.
LEMMA FirmKnock ==
  ASSUME TypeInv, ObjInv, Lives, Within, Firm, Moves, TypeInv', ObjInv', Lives', Within',
         UNCHANGED <<life, left, again>>, NEW k \in Knock, Sound(k), OnTradeKnock(k)
  PROVE  Firm' /\ Stands
<1>1. CASE KnockEarly(k)
  <2>1. UNCHANGED <<orders, book>>
    BY <1>1 DEF KnockEarly
  <2>2. QED
    BY <2>1, FirmFrame DEF SameOrEnded
<1>2. CASE KnockKnown(k)
  <2>1. /\ book' = book /\ DOMAIN orders' = DOMAIN orders /\ k.number \in DOMAIN single
        /\ BookTypes
    BY <1>2, KnownFacts DEF TypeInv
  <2>2. PICK o1 \in DOMAIN orders :
          /\ o1 = single[k.number]
          /\ \/ orders'[o1] = Told(k, orders[o1])
             \/ /\ Finished(Told(k, orders[o1]))
                /\ orders'[o1] = [Told(k, orders[o1]) EXCEPT !.finish = TRUE]
          /\ \A p \in DOMAIN orders : p # o1 =>
               \/ orders'[p] = orders[p]
               \/ Finished(orders[p]) /\ orders'[p] = [orders[p] EXCEPT !.finish = TRUE]
    BY <1>2, <2>1, KnownFacts
  <2>3. orders[o1].number = k.number
    BY <2>1, <2>2 DEF ObjInv, Mapped
  <2>4. PICK x \in Order : x = orders[o1]
    BY <2>1, ObjectFacts
  <2>5. PICK t \in Order : t = Told(k, x)
    BY ToldFacts
  <2>6. PICK y : y = orders'[o1]
    OBVIOUS
  <2>7. t.number = x.number /\ t.withdrawAsked = x.withdrawAsked /\ t.finish = x.finish
    BY <2>4, <2>5 DEF Told, Order
  <2>8. k.type = "trade" => t.withdrawn = x.withdrawn
    BY <2>4, <2>5 DEF Told, Order
  <2>9. /\ y.number = x.number /\ y.withdrawAsked = x.withdrawAsked /\ y.withdrawn = t.withdrawn
        /\ y.matched = t.matched /\ y.volume = t.volume
        /\ y.finish => x.finish \/ Finished(t)
    <3>1. CASE y = t
      BY <2>7, <3>1
    <3>2. CASE Finished(t) /\ y = [t EXCEPT !.finish = TRUE]
      BY <2>7, <3>2 DEF Order
    <3>3. QED
      BY <2>2, <2>4, <2>5, <2>6, <3>1, <3>2
  <2>10. ASSUME NEW n \in Numbers, y.number = n, Works(n)' PROVE Firmly(y)
    <3>1. n = k.number /\ n # NoNumber /\ Works(n) /\ life[n] = "working" /\ x.number = n
      BY <2>3, <2>4, <2>9, <2>10, NumberFacts, WasWorking DEF Works
    <3>2. k.type = "trade"
      BY <3>1 DEF Sound, Knock
    <3>3. Firmly(x)
      BY <2>4, <3>1 DEF Firm
    <3>4. ~y.withdrawn
      BY <2>8, <2>9, <3>2, <3>3 DEF Firmly
    <3>5. ~(t.matched >= t.volume)
      <4>1. o1 \in DOMAIN orders' /\ y \in Order
        BY <2>1, <2>6, ObjectFacts DEF TypeInv, BookTypes
      <4>2. OfItem(y, n)
        BY <2>6, <2>10, <3>1, <4>1 DEF ObjInv, Stems
      <4>3. y.matched <= VolumeOf(n) - left'[n]
        BY <2>6, <2>10, <3>1, <4>1 DEF Within, Works
      <4>4. left'[n] > 0 /\ left'[n] \in Nat
        BY <2>10 DEF Lives, Works, TypeInv
      <4>5. y.volume = VolumeOf(n) /\ y.volume \in Nat /\ y.matched \in Nat
        BY <4>1, <4>2 DEF OfItem, Order
      <4>6. QED
        BY <2>9, <4>3, <4>4, <4>5
    <3>6. Finished(t) => t.finish \/ t.withdrawn \/ t.withdrawAsked > 0
      BY <2>7, <3>1, <3>5 DEF Finished
    <3>7. y.finish => y.withdrawAsked > 0
      BY <2>7, <2>8, <2>9, <3>2, <3>3, <3>6 DEF Firmly
    <3>8. QED
      BY <3>4, <3>7 DEF Firmly
  <2>11. StaysFirm(o1)
    BY <2>4, <2>6, <2>9, <2>10 DEF StaysFirm
  <2>12. \A p \in DOMAIN orders : p # o1 => SameOrEnded(p)
    BY <2>2 DEF SameOrEnded
  <2>13. QED
    BY <2>1, <2>11, <2>12, FirmFrame
<1>3. QED
  BY <1>1, <1>2 DEF OnTradeKnock

\* A withdrawal is asked for, refused or carried out.
LEMMA FirmTargets ==
  ASSUME TypeInv, ObjInv, Lives, Within, Firm, Moves, UNCHANGED <<life, again, book>>, now > 0,
         NEW T, DOMAIN orders' = DOMAIN orders, NEW ok \in BOOLEAN,
         ok => \A o \in T \cap DOMAIN orders : \A n \in Numbers :
                 orders[o].number = n => life[n] = "ended",
         \A o \in DOMAIN orders :
           orders'[o] = IF o \notin T THEN orders[o]
                        ELSE IF ok THEN [orders[o] EXCEPT !.withdrawn = TRUE]
                        ELSE [orders[o] EXCEPT !.withdrawAsked = now]
  PROVE  Firm' /\ Stands
<1>1. ASSUME NEW o \in DOMAIN orders PROVE SameOrEnded(o) \/ StaysFirm(o)
  <2>1. PICK x \in Order : x = orders[o]
    BY ObjectFacts DEF TypeInv
  <2>2. CASE o \notin T
    BY <2>2 DEF SameOrEnded
  <2>3. CASE o \in T /\ ok
    <3>1. PICK y : y = [x EXCEPT !.withdrawn = TRUE]
      OBVIOUS
    <3>2. y.number = x.number /\ y.withdrawAsked = x.withdrawAsked /\ orders'[o] = y
      BY <2>1, <2>3, <3>1 DEF Order
    <3>3. \A n \in Numbers : x.number = n => ~Works(n)'
      BY <2>1, <2>3 DEF Works
    <3>4. QED
      BY <2>1, <3>2, <3>3 DEF StaysFirm
  <2>4. CASE o \in T /\ ~ok
    <3>1. PICK y : y = [x EXCEPT !.withdrawAsked = now]
      OBVIOUS
    <3>2. /\ y.number = x.number /\ y.withdrawAsked = now /\ y.withdrawn = x.withdrawn
          /\ orders'[o] = y
      BY <2>1, <2>4, <3>1 DEF Order
    <3>3. \A n \in Numbers : x.number = n /\ Works(n)' => ~x.withdrawn
      BY <2>1, WasWorking DEF Firm, Firmly
    <3>4. QED
      BY <2>1, <3>2, <3>3 DEF StaysFirm, Firmly
  <2>5. QED
    BY <2>2, <2>3, <2>4
<1>2. QED
  BY <1>1, FirmFrame

\* What a withdrawal aims at are objects of the orders it names.
LEMMA TargetsAimed ==
  ASSUME TypeInv, ObjInv, NEW m \in Messages, NEW i, NEW o \in Targets(m, i), NEW n \in Numbers,
         orders[o].number = n
  PROVE  n \in NumbersOf(m) /\ (i = 0 \/ n = <<m, i>>)
<1>1. CASE i = 0 /\ m \in DOMAIN batch
  <2>1. PICK k \in DOMAIN batch[m] : o = batch[m][k]
    BY <1>1 DEF Targets
  <2>2. orders[o].msg = m /\ o \in DOMAIN orders
    BY <1>1, <2>1 DEF ObjInv, MembersOwn, TypeInv, BookTypes
  <2>3. OfItem(orders[o], n)
    BY <2>2, NumberFacts DEF ObjInv, Stems
  <2>4. QED
    BY <1>1, <2>2, <2>3, NumbersOfFacts DEF OfItem
<1>2. CASE i # 0 /\ <<m, i>> \in DOMAIN single
  <2>1. o = single[<<m, i>>]
    BY <1>2 DEF Targets
  <2>2. n = <<m, i>> /\ n[1] = m
    BY <1>2, <2>1 DEF ObjInv, Mapped
  <2>3. QED
    BY <2>2, NumbersOfFacts
<1>3. QED
  BY <1>1, <1>2 DEF Targets

LEMMA FirmTake ==
  ASSUME TypeInv, ObjInv, Lives, Hearsay, Within, Firm, Moves, TypeInv', ObjInv', Lives', Within',
         UNCHANGED <<life, left, again>>, Take
  PROVE  Firm' /\ Stands
<1>1. PICK r : r = Head(tradeQueue)
  OBVIOUS
<1>2. r \in Queued /\ BookTypes /\ now \in Nat
  BY <1>1, QueueTaken DEF Take, TypeInv
<1>3. Sound(r)
  <2>1. tradeQueue \in Seq(Queued) /\ tradeQueue # <<>>
    BY DEF TypeInv, Take
  <2>2. 1 \in DOMAIN tradeQueue /\ r = tradeQueue[1]
    BY <1>1, <2>1, TailFacts
  <2>3. QED
    BY <2>2 DEF Hearsay, Heard
<1>4. CASE UNCHANGED riskerVars
  <2>1. UNCHANGED <<orders, book>>
    BY <1>4 DEF riskerVars
  <2>2. QED
    BY <2>1, FirmFrame DEF SameOrEnded
<1>5. CASE r.kind = "withdraw" /\ HandleTradeWithdrawReq(r.msg, r.item)
  <2>1. PICK T : T = Targets(r.msg, r.item)
    OBVIOUS
  <2>2. /\ UNCHANGED book /\ DOMAIN orders' = DOMAIN orders
        /\ \A o \in DOMAIN orders :
             orders'[o] = IF o \in T THEN [orders[o] EXCEPT !.withdrawAsked = now] ELSE orders[o]
    BY <1>2, <1>5, <2>1, WithdrawReqFacts
  <2>3. now > 0
    BY DEF Lives
  <2>4. PICK ok \in BOOLEAN : ok = FALSE
    OBVIOUS
  <2>5. \A o \in DOMAIN orders :
          orders'[o] = IF o \notin T THEN orders[o]
                       ELSE IF ok THEN [orders[o] EXCEPT !.withdrawn = TRUE]
                       ELSE [orders[o] EXCEPT !.withdrawAsked = now]
    BY <2>2, <2>4
  <2>6. QED
    BY <2>2, <2>3, <2>4, <2>5, FirmTargets
<1>6. CASE r.kind = "wrep" /\ HandleTradeWithdrawRep(r.msg, r.item, r.ok)
  <2>1. r.ok \in BOOLEAN /\ r.msg \in Messages
    BY <1>2, <1>6, QueuedKinds DEF WithdrawReply
  <2>2. PICK T : T = Targets(r.msg, r.item)
    OBVIOUS
  <2>3. PICK ok \in BOOLEAN : ok = r.ok
    BY <2>1
  <2>4. /\ UNCHANGED book /\ DOMAIN orders' = DOMAIN orders
        /\ \A o \in DOMAIN orders :
             orders'[o] = IF o \notin T THEN orders[o]
                          ELSE IF ok THEN [orders[o] EXCEPT !.withdrawn = TRUE]
                          ELSE [orders[o] EXCEPT !.withdrawAsked = now]
    BY <1>2, <1>6, <2>1, <2>2, <2>3, WithdrawRepFacts
  <2>5. ASSUME ok, NEW o \in T, NEW n \in Numbers, orders[o].number = n PROVE life[n] = "ended"
    <3>1. n \in NumbersOf(r.msg) /\ Aims(r, n)
      BY <2>1, <2>2, <2>5, TargetsAimed DEF Aims
    <3>2. QED
      BY <1>3, <1>6, <2>3, <2>5, <3>1 DEF Sound
  <2>6. now > 0
    BY DEF Lives
  <2>7. QED
    BY <2>4, <2>5, <2>6, FirmTargets
<1>7. CASE r.kind = "knock" /\ OnTradeKnock(r)
  <2>1. r \in Knock
    BY <1>2, <1>7, QueuedKinds
  <2>2. QED
    BY <1>3, <1>7, <2>1, FirmKnock
<1>8. QED
  BY <1>1, <1>4, <1>5, <1>6, <1>7 DEF Take

LEMMA FirmCheck ==
  ASSUME TypeInv, ObjInv, Lives, Within, Firm, Moves, UNCHANGED again, Check
  PROVE  Firm' /\ Stands
<1>1. PICK m \in Messages, i \in Nat \ {0} : m = task.msg /\ i = task.item
  BY TaskKinds DEF TypeInv, Check, CheckTask, Own
<1>2. CASE i \in Items(m)
  <2>1. CheckItem(m, i) /\ BookTypes
    BY <1>1, <1>2 DEF Check, TypeInv
  <2>2. /\ DOMAIN orders' = DOMAIN orders
        /\ \A o \in DOMAIN orders : SameOrEnded(o)
        /\ \A o \in book \ book' : o \in Swept(m, i)
    BY <1>2, <2>1, CheckItemFacts DEF SameOrEnded
  <2>3. \A o \in book : o \in book' \/ Finished(orders[o])
    BY <2>2 DEF Swept
  <2>4. QED
    BY <2>2, <2>3, FirmFrame
<1>3. CASE i \notin Items(m)
  <2>1. UNCHANGED <<orders, book>>
    BY <1>1, <1>3 DEF Check, riskerVars
  <2>2. QED
    BY <2>1, FirmFrame DEF SameOrEnded
<1>4. QED
  BY <1>2, <1>3

LEMMA FirmPass ==
  ASSUME TypeInv, ObjInv, Lives, Within, Firm, Moves, UNCHANGED again, Pass
  PROVE  Firm' /\ Stands
<1>1. PICK m \in Messages, i \in Nat \ {0} : m = task.msg /\ i = task.item
  BY TaskKinds DEF TypeInv, Pass, CheckTask, Own
<1>2. CASE UNCHANGED <<orders, book>>
  BY <1>2, FirmFrame DEF SameOrEnded
<1>3. CASE i \in Items(m) /\ Guards(m, i)
  <2>1. PassItem(m, i) /\ BookTypes /\ now \in Nat
    BY <1>1, <1>3 DEF Pass, TypeInv
  <2>2. \A o \in DOMAIN orders : orders'[o] = orders[o]
    BY <1>3, <2>1, PassItemFacts
  <2>3. PICK o1 \in DOMAIN orders' :
          /\ o1 \notin DOMAIN orders /\ DOMAIN orders' = DOMAIN orders \cup {o1}
          /\ book' = book \cup {o1} /\ orders'[o1] = NewOrder(m, i, NoNumber)
    BY <1>3, <2>1, PassItemFacts
  <2>4. StaysFirm(o1)
    <3>1. orders'[o1].number = NoNumber
      BY <2>3 DEF NewOrder
    <3>2. QED
      BY <2>3, <3>1, NumberFacts DEF StaysFirm
  <2>5. /\ DOMAIN orders \subseteq DOMAIN orders'
        /\ \A o \in DOMAIN orders' : SameOrEnded(o) \/ StaysFirm(o)
        /\ \A o \in book : o \in book'
    BY <2>2, <2>3, <2>4 DEF SameOrEnded
  <2>6. QED
    BY <2>5, FirmFrame
<1>4. CASE i \in Items(m) /\ ~Guards(m, i)
  <2>1. UNCHANGED <<orders, book>>
    BY <1>1, <1>4 DEF Pass, PassItem, riskerVars
  <2>2. QED
    BY <1>2, <2>1
<1>5. CASE i \notin Items(m)
  <2>1. UNCHANGED <<orders, book>>
    BY <1>1, <1>5 DEF Pass, riskerVars
  <2>2. QED
    BY <1>2, <2>1
<1>6. QED
  BY <1>3, <1>4, <1>5

\* The objects a reply can choose for an item have its number or none.
LEMMA ReplyNumbers ==
  ASSUME TypeInv, ObjInv, DistinctPrices, NEW m \in Messages, NEW i \in Items(m),
         NEW o \in OfReply(m, i), NEW n \in Numbers, orders[o].number = n
  PROVE  n = <<m, i>>
<1>1. o \in DOMAIN orders
  BY DEF OfReply, TypeInv, BookTypes
<1>2. PICK x \in Order : x = orders[o]
  BY <1>1, ObjectFacts DEF TypeInv
<1>3. x.msg = m /\ x.code = m.items[i].code /\ x.price = m.items[i].price
  BY <1>2 DEF OfReply
<1>4. OfItem(x, n)
  BY <1>1, <1>2, NumberFacts DEF ObjInv, Stems
<1>5. n[1] = m /\ n[2] \in Items(m) /\ n = <<n[1], n[2]>>
  BY <1>3, <1>4, NumberFacts DEF OfItem
<1>6. n[2] = i
  BY <1>3, <1>4, <1>5 DEF OfItem, DistinctPrices
<1>7. QED
  BY <1>5, <1>6

LEMMA FirmRegister ==
  ASSUME TypeInv, ObjInv, Lives, Within, Firm, Moves, UNCHANGED again, DistinctPrices,
         NEW m \in Messages, NEW i \in Items(m), NEW o,
         RepItemKnown(m, i, o) \/ RepItemUnknown(m, i, o)
  PROVE  Firm' /\ Stands
<1>1. BookTypes /\ now \in Nat
  BY DEF TypeInv
<1>2. PICK n : n = <<m, i>>
  OBVIOUS
<1>3. /\ n \in Numbers /\ orders'[o].number = n
      /\ \/ /\ o \in OfReply(m, i) /\ o \in DOMAIN orders /\ orders'[o] = Numbered(orders[o], n)
            /\ orders[o].number = n \/ (orders[o].number = NoNumber /\ Blank(orders[o]))
         \/ o \notin DOMAIN orders /\ orders'[o] = NewOrder(m, i, n)
  BY <1>1, <1>2, ObjChosen
<1>4. /\ o \in DOMAIN orders' /\ book \subseteq book'
      /\ \A p \in DOMAIN orders' : p \in DOMAIN orders \/ p = o
      /\ \A p \in DOMAIN orders : p # o => orders'[p] = orders[p]
      /\ BookTypes' /\ Grown
  BY <1>1, <1>2, RegisteredFacts
<1>5. StaysFirm(o)
  <2>1. CASE /\ o \in OfReply(m, i) /\ o \in DOMAIN orders /\ orders'[o] = Numbered(orders[o], n)
             /\ orders[o].number = n \/ (orders[o].number = NoNumber /\ Blank(orders[o]))
    <3>1. PICK x \in Order : x = orders[o]
      BY <1>1, <2>1, ObjectFacts
    <3>2. PICK y : y = Numbered(x, n)
      OBVIOUS
    <3>3. /\ y.number = n /\ y.withdrawAsked = x.withdrawAsked /\ y.withdrawn = x.withdrawn
          /\ y.finish = x.finish
      BY <3>1, <3>2 DEF Numbered, Order
    <3>4. ASSUME Works(n)' PROVE Firmly(x)
      <4>1. CASE x.number = n
        BY <1>3, <2>1, <3>1, <3>4, <4>1, WasWorking DEF Firm
      <4>2. CASE x.number = NoNumber /\ Blank(x)
        <5>1. o \in book
          BY <2>1 DEF OfReply
        <5>2. ~x.finish
          BY <2>1, <3>1, <4>2, <5>1 DEF ObjInv, Stems
        <5>3. QED
          BY <4>2, <5>2 DEF Blank, Firmly
      <4>3. QED
        BY <2>1, <3>1, <4>1, <4>2
    <3>5. QED
      BY <2>1, <3>1, <3>2, <3>3, <3>4 DEF StaysFirm, Firmly
  <2>2. CASE o \notin DOMAIN orders /\ orders'[o] = NewOrder(m, i, n)
    BY <2>2 DEF StaysFirm, Firmly, NewOrder
  <2>3. QED
    BY <1>3, <2>1, <2>2
<1>6. DOMAIN orders \subseteq DOMAIN orders'
  BY <1>4 DEF Grown
<1>7. \A p \in DOMAIN orders' : SameOrEnded(p) \/ StaysFirm(p)
  BY <1>4, <1>5 DEF SameOrEnded
<1>8. QED
  BY <1>4, <1>6, <1>7, FirmFrame

LEMMA FirmRep ==
  ASSUME TypeInv, HandInv, ObjInv, Lives, Hearsay, Within, Firm, Moves, UNCHANGED <<life, again>>,
         DistinctPrices, HandleRep
  PROVE  Firm' /\ Stands
<1>1. BookTypes /\ now \in Nat /\ task \in RepTask
  BY TaskKinds DEF TypeInv, HandleRep
<1>2. PICK m \in Messages, i \in Nat \ {0} : m = task.msg /\ i = task.item
  BY <1>1 DEF RepTask
<1>3. CASE UNCHANGED <<orders, book>>
  BY <1>3, FirmFrame DEF SameOrEnded
<1>4. CASE i \in Items(m) /\ ~Guards(m, i)
  <2>1. UNCHANGED <<orders, book>>
    BY <1>2, <1>4 DEF HandleRep, riskerVars
  <2>2. QED
    BY <1>3, <2>1
<1>5. CASE i \in Items(m) /\ Guards(m, i) /\ i \notin task.accepted
  <2>1. RepItemRejected(m, i)
    BY <1>2, <1>5 DEF HandleRep
  <2>2. /\ orders' = orders
        /\ book' = book \/ \E o \in OfReply(m, i) : book' = book \ {o}
    BY <1>1, <1>5, <2>1, RejectedFacts
  <2>3. PICK n : n = <<m, i>>
    OBVIOUS
  <2>4. n \in NumbersOf(m) /\ n[2] = i
    BY <1>5, <2>3 DEF NumbersOf
  <2>5. ~Works(n)'
    BY <1>1, <1>2, <1>5, <2>4 DEF Hearsay, SoundReply, Works, RepTask
  <2>6. ASSUME NEW o \in book, o \notin book' PROVE \A l \in Numbers : orders[o].number = l => ~Works(l)'
    <3>1. o \in OfReply(m, i)
      BY <2>2, <2>6
    <3>2. QED
      BY <1>5, <2>3, <2>5, <3>1, ReplyNumbers
  <2>7. QED
    BY <2>2, <2>6, FirmFrame DEF SameOrEnded
<1>6. CASE i \in Items(m) /\ Guards(m, i) /\ i \in task.accepted
  <2>1. PICK o : RegisterReply(m, i, o)
    BY <1>2, <1>6 DEF HandleRep
  <2>2. RepItemKnown(m, i, o) \/ RepItemUnknown(m, i, o)
    BY <2>1 DEF RegisterReply
  <2>3. i \in Items(m)
    BY <1>6
  <2>4. QED
    BY <2>2, <2>3, FirmRegister
<1>7. CASE i \notin Items(m)
  <2>1. UNCHANGED <<orders, book>>
    BY <1>2, <1>7 DEF HandleRep, RegisterBatch
  <2>2. QED
    BY <1>3, <2>1
<1>8. QED
  BY <1>4, <1>5, <1>6, <1>7

LEMMA FirmReplay ==
  ASSUME TypeInv, ObjInv, Lives, Hearsay, Within, Firm, Moves, TypeInv', ObjInv', Lives', Within',
         UNCHANGED <<life, left, again>>, ReplayKnock
  PROVE  Firm' /\ Stands
<1>1. task \in KnocksTask /\ task.rest \in Seq(Knock) /\ task.kind = "knocks"
  BY TaskKinds DEF TypeInv, ReplayKnock, KnocksTask
<1>2. CASE task.rest = <<>>
  <2>1. UNCHANGED <<orders, book>>
    BY <1>2 DEF ReplayKnock, riskerVars
  <2>2. QED
    BY <2>1, FirmFrame DEF SameOrEnded
<1>3. CASE task.rest # <<>>
  <2>1. PICK r : r = Head(task.rest)
    OBVIOUS
  <2>2. OnTradeKnock(r)
    BY <1>3, <2>1 DEF ReplayKnock
  <2>3. 1 \in DOMAIN task.rest /\ r = task.rest[1] /\ r \in Knock
    BY <1>1, <1>3, <2>1, TailFacts
  <2>4. InHand = task.rest
    BY <1>1 DEF InHand
  <2>5. Sound(r)
    BY <2>3, <2>4 DEF Hearsay, Heard
  <2>6. QED
    BY <2>2, <2>3, <2>5, FirmKnock
<1>4. QED
  BY <1>2, <1>3

LEMMA FirmStep ==
  ASSUME TypeInv, HandInv, ObjInv, Lives, Hearsay, Within, Firm, Moves,
         TypeInv', ObjInv', Lives', Within', DistinctPrices, [Next]_vars
  PROVE  Firm' /\ Stands
<1>1. again \subseteq again'
  BY AgainGrows
<1>2. CASE Surroundings \/ ReadRep \/ UNCHANGED vars
  <2>1. UNCHANGED <<orders, book>>
    BY <1>2, AroundFrame
  <2>2. QED
    BY <1>1, <2>1, FirmFrame DEF SameOrEnded
<1>3. CASE Take \/ Check \/ Pass \/ HandleRep \/ ReplayKnock
  <2>1. UNCHANGED <<life, left, again>>
    BY <1>3 DEF Take, Check, Pass, HandleRep, ReplayKnock, Frame, truthVars
  <2>2. QED
    BY <1>3, <2>1, FirmTake, FirmCheck, FirmPass, FirmRep, FirmReplay
<1>4. QED
  BY <1>2, <1>3 DEF Next, RiskThread

-----------------------------------------------------------------------------
\* The risk thread is done with the reply to order n.
Dealt(n) ==
  /\ n[1] \in told
  /\ ~(task.kind = "rep" /\ task.msg = n[1] /\ task.item <= n[2])
  /\ \A k \in DOMAIN tradeQueue : tradeQueue[k].kind = "rep" => tradeQueue[k].msg # n[1]
Present ==
  \A n \in Numbers : Works(n) /\ Guards(n[1], n[2]) /\ Dealt(n) =>
    \E o \in DOMAIN orders :
      orders[o].number = n /\ (o \in book \/ orders[o].withdrawAsked > 0)

LEMMA PresentFrame ==
  ASSUME TypeInv, Lives, Present, Moves, again \subseteq again', Stands,
         \A n \in Numbers : Dealt(n)' /\ Works(n)' /\ Guards(n[1], n[2]) =>
           Dealt(n) \/ \E o \in DOMAIN orders' : orders'[o].number = n /\ o \in book'
  PROVE  Present'
<1>1. SUFFICES ASSUME NEW n \in Numbers, Works(n)', Guards(n[1], n[2]), Dealt(n)', Dealt(n)
               PROVE  \E o \in DOMAIN orders' :
                        orders'[o].number = n /\ (o \in book' \/ orders'[o].withdrawAsked > 0)
  BY DEF Present
<1>2. n[1] \in replied
  BY <1>1 DEF Dealt, Lives
<1>3. Works(n)
  BY <1>1, <1>2 DEF Works, Moves, Doubled
<1>4. PICK o \in DOMAIN orders : orders[o].number = n /\ (o \in book \/ orders[o].withdrawAsked > 0)
  BY <1>1, <1>3 DEF Present
<1>5. QED
  BY <1>1, <1>4 DEF Stands

\* Around the risk thread only the main thread passes replies on.
LEMMA PresentOutside ==
  ASSUME TypeInv, Lives, Present, Moves, again \subseteq again', Stands,
         Surroundings \/ ReadRep \/ UNCHANGED vars
  PROVE  Present'
<1>1. task' = task
  BY AroundFrame
<1>2. ASSUME NEW x, x \in Queued, tradeQueue' = Append(tradeQueue, x),
             told' = IF x.kind = "rep" THEN told \cup {x.msg} ELSE told
      PROVE  Present'
  <2>1. PICK e : e = Len(tradeQueue) + 1
    OBVIOUS
  <2>2. /\ DOMAIN tradeQueue' = DOMAIN tradeQueue \cup {e} /\ tradeQueue'[e] = x
        /\ \A p \in DOMAIN tradeQueue : tradeQueue'[p] = tradeQueue[p]
    BY <1>2, <2>1, AppendFacts DEF TypeInv
  <2>3. ASSUME NEW n \in Numbers, Dealt(n)' PROVE Dealt(n)
    <3>1. \A k \in DOMAIN tradeQueue : tradeQueue[k].kind = "rep" => tradeQueue[k].msg # n[1]
      BY <2>2, <2>3 DEF Dealt
    <3>2. x.kind = "rep" => x.msg # n[1]
      BY <2>2, <2>3 DEF Dealt
    <3>3. n[1] \in told
      BY <1>2, <2>3, <3>2 DEF Dealt
    <3>4. QED
      BY <1>1, <2>3, <3>1, <3>3 DEF Dealt
  <2>4. QED
    BY <2>3, PresentFrame
<1>3. ASSUME UNCHANGED <<tradeQueue, told>> PROVE Present'
  BY <1>1, <1>3, PresentFrame DEF Dealt
<1>4. ASSUME NEW m \in Messages, Request(m) PROVE Present'
  <2>1. PICK x : x = [kind |-> "order", msg |-> m]
    OBVIOUS
  <2>2. tradeQueue' = Append(tradeQueue, x) /\ told' = told
    BY <1>4, <2>1 DEF Request
  <2>3. x \in Queued /\ x.kind = "order"
    BY <2>1 DEF Queued, OrderRequest
  <2>4. QED
    BY <1>2, <2>2, <2>3
<1>5. ASSUME NEW m \in Messages, NEW i \in 0 .. Len(m.items), RequestWithdraw(m, i)
      PROVE  Present'
  <2>1. PICK x : x = [kind |-> "withdraw", msg |-> m, item |-> i]
    OBVIOUS
  <2>2. tradeQueue' = Append(tradeQueue, x) /\ told' = told
    BY <1>5, <2>1 DEF RequestWithdraw
  <2>3. x \in Queued /\ x.kind = "withdraw"
    <3>1. i \in Nat
      BY ItemsFacts
    <3>2. QED
      BY <2>1, <3>1 DEF Queued, WithdrawRequest
  <2>4. QED
    BY <1>2, <2>2, <2>3
<1>6. ASSUME NEW r \in returns, Deliver(r) PROVE Present'
  <2>1. /\ tradeQueue' = Append(tradeQueue, r)
        /\ told' = IF r.kind = "rep" THEN told \cup {r.msg} ELSE told
    BY <1>6 DEF Deliver
  <2>2. r \in Queued
    BY <1>6 DEF TypeInv, Queued
  <2>3. QED
    BY <1>2, <2>1, <2>2
<1>7. CASE \/ Tick \/ Collect \/ CollectWithdraw \/ ReadRep \/ UNCHANGED vars
           \/ \E m \in Messages :
                \/ ForeignOrder(m)
                \/ \E accepted \in SUBSET Items(m) : CounterReply(m, accepted)
                \/ \E ok \in BOOLEAN : Withdraw(m, ok)
           \/ \E n \in Numbers :
                \/ \E v \in 1 .. left[n] : Trade(n, v)
                \/ \E type \in {"withdrawn", "failed"} : End(n, type)
  <2>1. UNCHANGED <<tradeQueue, told>>
    BY <1>7 DEF Tick, Collect, CollectWithdraw, ReadRep, ForeignOrder, CounterReply, Withdraw,
       Trade, End, vars
  <2>2. QED
    BY <1>3, <2>1
<1>8. QED
  BY <1>4, <1>5, <1>6, <1>7 DEF Surroundings

LEMMA PresentTake ==
  ASSUME TypeInv, Lives, Present, Moves, again \subseteq again', Stands, Take
  PROVE  Present'
<1>1. PICK r : r = Head(tradeQueue)
  OBVIOUS
<1>2. tradeQueue \in Seq(Queued) /\ tradeQueue # <<>> /\ tradeQueue' = Tail(tradeQueue)
      /\ told' = told /\ task = Idle
  BY DEF TypeInv, Take, Frame
<1>3. PICK l \in Nat \ {0} :
        /\ DOMAIN tradeQueue = 1 .. l /\ DOMAIN tradeQueue' = 1 .. l - 1 /\ r = tradeQueue[1]
        /\ \A k \in DOMAIN tradeQueue' :
             k + 1 \in DOMAIN tradeQueue /\ tradeQueue'[k] = tradeQueue[k + 1]
        /\ \A k \in DOMAIN tradeQueue : k # 1 =>
             k - 1 \in DOMAIN tradeQueue' /\ tradeQueue'[k - 1] = tradeQueue[k]
  <2>1. PICK l \in Nat \ {0} :
          /\ DOMAIN tradeQueue = 1 .. l /\ DOMAIN Tail(tradeQueue) = 1 .. l - 1
          /\ Head(tradeQueue) = tradeQueue[1] /\ 1 \in DOMAIN tradeQueue
          /\ Head(tradeQueue) \in Queued
          /\ \A k \in 1 .. l - 1 : k + 1 \in 1 .. l /\ Tail(tradeQueue)[k] = tradeQueue[k + 1]
    BY <1>2, TailFacts
  <2>2. ASSUME NEW k \in 1 .. l, k # 1 PROVE k - 1 \in 1 .. l - 1 /\ (k - 1) + 1 = k
    BY <2>2
  <2>3. \A k \in 1 .. l : k # 1 => k - 1 \in 1 .. l - 1 /\ Tail(tradeQueue)[k - 1] = tradeQueue[k]
    BY <2>1, <2>2
  <2>4. QED
    BY <1>1, <1>2, <2>1, <2>3
<1>4. ASSUME NEW n \in Numbers, Dealt(n)' PROVE Dealt(n)
  <2>1. r.kind = "rep" => r.msg # n[1]
    <3>1. ASSUME r.kind = "rep", r.msg = n[1] PROVE FALSE
      <4>1. task' = [kind |-> "rep", msg |-> r.msg, item |-> 1, accepted |-> r.accepted,
                     members |-> <<>>, knocks |-> <<>>]
        BY <1>1, <3>1 DEF Take
      <4>2. task'.kind = "rep" /\ task'.msg = n[1] /\ task'.item = 1
        BY <3>1, <4>1
      <4>3. 1 <= n[2]
        BY NumberFacts, ItemsFacts
      <4>4. QED
        BY <1>4, <4>2, <4>3 DEF Dealt
    <3>2. QED
      BY <3>1
  <2>2. ASSUME NEW k \in DOMAIN tradeQueue, tradeQueue[k].kind = "rep"
        PROVE  tradeQueue[k].msg # n[1]
    <3>1. CASE k = 1
      BY <1>3, <2>1, <2>2, <3>1
    <3>2. CASE k # 1
      <4>1. PICK j \in DOMAIN tradeQueue' : tradeQueue'[j] = tradeQueue[k]
        BY <1>3, <2>2, <3>2
      <4>2. QED
        BY <1>4, <2>2, <4>1 DEF Dealt
    <3>3. QED
      BY <3>1, <3>2
  <2>3. task.kind # "rep"
    BY <1>2 DEF Idle
  <2>4. QED
    BY <1>2, <1>4, <2>2, <2>3 DEF Dealt
<1>5. QED
  BY <1>4, PresentFrame

LEMMA PresentInside ==
  ASSUME TypeInv, Lives, Present, Moves, again \subseteq again', Stands,
         UNCHANGED <<tradeQueue, told>>, task.kind # "rep"
  PROVE  Present'
BY PresentFrame DEF Dealt

LEMMA PresentRegister ==
  ASSUME TypeInv, ObjInv, DistinctPrices, NEW m \in Messages, NEW i \in Items(m), NEW o,
         RepItemKnown(m, i, o) \/ RepItemUnknown(m, i, o), NEW n, n = <<m, i>>
  PROVE  o \in DOMAIN orders' /\ o \in book' /\ orders'[o].number = n
<1>1. BookTypes /\ now \in Nat
  BY DEF TypeInv
<1>2. orders'[o].number = n
  BY <1>1, ObjChosen
<1>3. o \in DOMAIN orders' /\ o \in book'
  BY <1>1, RegisteredFacts
<1>4. QED
  BY <1>2, <1>3

LEMMA PresentRep ==
  ASSUME TypeInv, ObjInv, Lives, Hearsay, Present, Moves, again \subseteq again', Stands,
         DistinctPrices, life' = life, HandleRep
  PROVE  Present'
<1>1. task \in RepTask /\ task.kind = "rep" /\ UNCHANGED <<tradeQueue, told>>
  BY TaskKinds DEF TypeInv, HandleRep, Frame
<1>2. PICK m \in Messages, i \in Nat \ {0} : m = task.msg /\ i = task.item
  BY <1>1 DEF RepTask
<1>3. ASSUME NEW n \in Numbers, Dealt(n)', Works(n)', Guards(n[1], n[2]), ~Dealt(n)
      PROVE  \E o \in DOMAIN orders' : orders'[o].number = n /\ o \in book'
  <2>1. n[1] = m /\ i <= n[2]
    BY <1>1, <1>2, <1>3 DEF Dealt
  <2>2. n[2] \in Items(m) /\ n = <<m, n[2]>> /\ n[2] \in Nat
    BY <2>1, NumberFacts, ItemsFacts
  <2>3. i \in Items(m)
    BY <2>1, <2>2, ItemsFacts DEF Items
  <2>4. PICK x : x = i + 1
    OBVIOUS
  <2>5. ASSUME task'.kind = "rep", task'.msg = m, task'.item = x PROVE n[2] = i
    <3>1. ~(x <= n[2])
      BY <1>3, <2>1, <2>5 DEF Dealt
    <3>2. QED
      BY <2>1, <2>2, <2>4, <3>1
  <2>6. CASE task' = [task EXCEPT !.item = x] /\ ~(Guards(m, i) /\ i \in task.accepted)
    <3>1. task'.kind = "rep" /\ task'.msg = m /\ task'.item = x
      BY <1>1, <1>2, <2>6 DEF RepTask
    <3>2. n[2] = i
      BY <2>5, <3>1
    <3>3. i \notin task.accepted
      BY <1>3, <2>1, <2>6, <3>2
    <3>4. n \in NumbersOf(m) /\ life[n] = "working"
      BY <1>3, <2>1, NumbersOfFacts DEF Works
    <3>5. FALSE
      BY <1>1, <1>2, <3>2, <3>3, <3>4 DEF Hearsay, SoundReply
    <3>6. QED
      BY <3>5
  <2>7. CASE \E o : RegisterReply(m, i, o)
    <3>1. PICK o : RegisterReply(m, i, o)
      BY <2>7
    <3>2. PICK s : s = IF IsBatch(m) THEN Append(task.members, o) ELSE task.members
      OBVIOUS
    <3>3. PICK e : e = IF <<m, i>> \in DOMAIN early THEN early[<<m, i>>] ELSE task.knocks
      OBVIOUS
    <3>4. task' = [task EXCEPT !.item = x, !.members = s, !.knocks = e]
      BY <1>2, <2>4, <3>1, <3>2, <3>3 DEF RegisterReply
    <3>5. task'.kind = "rep" /\ task'.msg = m /\ task'.item = x
      BY <1>1, <1>2, <3>4 DEF RepTask
    <3>6. n = <<m, i>>
      BY <2>2, <2>5, <3>5
    <3>7. RepItemKnown(m, i, o) \/ RepItemUnknown(m, i, o)
      BY <3>1 DEF RegisterReply
    <3>8. QED
      BY <2>3, <3>6, <3>7, PresentRegister
  <2>8. QED
    BY <1>2, <2>3, <2>4, <2>6, <2>7 DEF HandleRep
<1>4. QED
  BY <1>3, PresentFrame

LEMMA PresentStep ==
  ASSUME TypeInv, ObjInv, Lives, Hearsay, Present, Moves, Stands, DistinctPrices, [Next]_vars
  PROVE  Present'
<1>1. again \subseteq again'
  BY AgainGrows
<1>2. CASE Surroundings \/ ReadRep \/ UNCHANGED vars
  BY <1>1, <1>2, PresentOutside
<1>3. CASE Take
  BY <1>1, <1>3, PresentTake
<1>4. CASE HandleRep
  <2>1. life' = life
    BY <1>4 DEF HandleRep, Frame, truthVars
  <2>2. QED
    BY <1>1, <1>4, <2>1, PresentRep
<1>5. CASE Check \/ Pass \/ ReplayKnock
  <2>1. UNCHANGED <<tradeQueue, told>> /\ task.kind # "rep"
    BY <1>5 DEF Check, Pass, ReplayKnock, Frame
  <2>2. QED
    BY <1>1, <2>1, PresentInside
<1>6. QED
  BY <1>2, <1>3, <1>4, <1>5 DEF Next, RiskThread

LEMMA GuardInit ==
  ASSUME Init
  PROVE  Firm /\ Present
<1>1. orders = <<>> /\ told = {}
  BY DEF Init
<1>2. DOMAIN orders = {}
  BY <1>1
<1>3. QED
  BY <1>1, <1>2 DEF Firm, Present, Dealt

\* However late the reply comes and whatever is done to the order meanwhile, once the
\* risk thread has dealt with the reply, a working order no withdrawal was asked for
\* stands in the book and counts.
THEOREM RiskKnownIsGuarded ==
  ASSUME DistinctPrices
  PROVE  Spec => []KnownIsGuarded
<1> DEFINE IInv == TypeInv /\ HandInv /\ ObjInv /\ Lives /\ Hearsay
<1> DEFINE GInv == Firm /\ Present
<1>1. Spec => []Within
  BY RiskCountsWithin
<1>2. Init => IInv /\ GInv
  BY TypeInvInit, HandInvInit, ObjInvInit, LivesInit, GuardInit
<1>3. IInv /\ [Next]_vars => IInv'
  BY TypeInvStep, HandInvStep, ObjInvStep, LivesStep, HearsayStep
<1>4. IInv /\ IInv' /\ Within /\ Within' /\ GInv /\ [Next]_vars => GInv'
  BY LivesStep, FirmStep, PresentStep
<1>5. IInv /\ Within /\ GInv => KnownIsGuarded
  <2>1. SUFFICES ASSUME IInv, Within, GInv, task = Idle, NEW n \in Numbers,
                        n[1] \in told, life[n] = "working", Guards(n[1], n[2]),
                        \A k \in DOMAIN tradeQueue :
                          tradeQueue[k].kind = "rep" => tradeQueue[k].msg # n[1],
                        \A o \in DOMAIN orders : orders[o].number = n => orders[o].withdrawAsked = 0,
                        \A r \in again : r.number # n
                 PROVE  \E o \in book : orders[o].number = n /\ ~Finished(orders[o])
    BY DEF KnownIsGuarded
  <2>2. Works(n)
    BY <2>1 DEF Works, Doubled
  <2>3. Dealt(n)
    BY <2>1 DEF Dealt, Idle
  <2>4. PICK o \in DOMAIN orders :
          orders[o].number = n /\ (o \in book \/ orders[o].withdrawAsked > 0)
    BY <2>1, <2>2, <2>3 DEF Present
  <2>5. orders[o].withdrawAsked = 0
    BY <2>1, <2>4
  <2>6. ~Finished(orders[o])
    BY <2>1, <2>2, <2>4, <2>5, WorkingFinished
  <2>7. QED
    BY <2>4, <2>5, <2>6
<1>6. QED
  BY <1>1, <1>2, <1>3, <1>4, <1>5, PTL DEF Spec

-----------------------------------------------------------------------------
(* No trade with oneself. *)

\* The order works, or nothing can keep it from it any more.
Pledged(n) ==
  /\ n[1] \in Own /\ Guards(n[1], n[2])
  /\ \/ life[n] = "working"
     \/ caller.kind = "order" /\ caller.msg = n[1] /\ asyncState = "done" /\ asyncResult = ""
     \/ task.kind = "pass" /\ task.msg = n[1] /\ n[2] < task.item
\* Object o speaks for it in the book.
Upholds(o, n) ==
  /\ o \in book /\ OfItem(orders[o], n) /\ orders[o].number \in {NoNumber, n}
  /\ ~Finished(orders[o])
Upheld == \A n \in Numbers : Pledged(n) => \E o : Upholds(o, n)

Facing(a, b) == Opposed(a, b) \/ Opposed(b, a)
\* Pledged orders could trade with each other only if the later was sent in an auction.
PledgesApart ==
  \A a, b \in Numbers : Pledged(a) /\ Pledged(b) /\ Opposed(a, b) =>
    Max({checkedAt[a[1]], checkedAt[b[1]]}) \in Auction
\* What has passed the check could trade with none that is pledged.
CheckedApart ==
  task.kind \in {"check", "pass"} /\ now \notin Auction =>
    \A i \in Items(task.msg) : (task.kind = "check" => i < task.item) =>
      \A n \in Numbers : Pledged(n) => ~Facing(<<task.msg, i>>, n)
CheckedNow ==
  /\ \A m \in Messages : checkedAt[m] <= now
  /\ task.kind \in {"check", "pass"} => checkedAt[task.msg] = now

LEMMA MaxOfTwo ==
  ASSUME NEW x \in Nat, NEW y \in Nat, x <= y
  PROVE  Max({x, y}) = y /\ Max({y, x}) = y
<1>1. \E z \in {x, y} : \A w \in {x, y} : z >= w
  OBVIOUS
<1>2. Max({x, y}) \in {x, y} /\ \A w \in {x, y} : Max({x, y}) >= w
  BY <1>1 DEF Max
<1>3. {x, y} = {y, x}
  OBVIOUS
<1>4. QED
  BY <1>2, <1>3

\* An order with a number works, if it is pledged.
LEMMA PledgeWorks ==
  ASSUME TypeInv, HandInv, NEW n \in Numbers, Pledged(n), n[1] \in replied
  PROVE  life[n] = "working"
<1>1. verdict[n[1]] \in {"passed", "refused"}
  BY DEF HandInv, RepliesSettled
<1>2. ~(caller.kind = "order" /\ caller.msg = n[1])
  BY <1>1 DEF HandInv, ObjectsPassed
<1>3. ~(task.kind = "pass" /\ task.msg = n[1])
  <2>1. ASSUME task.kind = "pass", task.msg = n[1] PROVE FALSE
    <3>1. caller = [kind |-> "order", msg |-> task.msg]
      BY <2>1 DEF HandInv, OneRequest
    <3>2. caller.kind = "order" /\ caller.msg = n[1]
      BY <2>1, <3>1
    <3>3. QED
      BY <1>2, <3>2
  <2>2. QED
    BY <2>1
<1>4. QED
  BY <1>2, <1>3 DEF Pledged

LEMMA UpholderWorks ==
  ASSUME TypeInv, HandInv, ObjInv, NEW n \in Numbers, Pledged(n), NEW o, Upholds(o, n),
         orders[o].number # NoNumber
  PROVE  life[n] = "working" /\ orders[o].number = n /\ o \in DOMAIN orders
<1>1. o \in DOMAIN orders /\ orders[o].number = n
  BY DEF Upholds, TypeInv, BookTypes
<1>2. n[1] \in replied
  BY <1>1 DEF ObjInv, Stems
<1>3. QED
  BY <1>1, <1>2, PledgeWorks

\* Only Collect and the orders of others make orders work.
LEMMA OthersEnd ==
  ASSUME TypeInv, HandInv, Lives, Surroundings \/ ReadRep \/ UNCHANGED vars, ~Collect,
         ~(\E m \in Messages : ForeignOrder(m))
  PROVE  life' = life \/ \A k \in Numbers : life'[k] = "working" => life[k] = "working"
<1>1. life \in [Numbers -> {"none", "working", "ended"}]
  BY DEF TypeInv
<1>2. ASSUME NEW m \in Messages, NEW accepted, CounterReply(m, accepted)
      PROVE  \A k \in Numbers : life'[k] = "working" => life[k] = "working"
  <2>1. life' = [n \in Numbers |-> IF n[1] = m /\ n[2] \notin accepted THEN "ended" ELSE life[n]]
    BY <1>2 DEF CounterReply
  <2>2. QED
    BY <2>1
<1>3. ASSUME NEW m \in Messages, NEW ok, Withdraw(m, ok)
      PROVE  \A k \in Numbers : life'[k] = "working" => life[k] = "working"
  <2>1. PICK hit : life' = [n \in Numbers |-> IF ok /\ n \in hit THEN "ended" ELSE life[n]]
    BY <1>3 DEF Withdraw
  <2>2. QED
    BY <2>1
<1>4. ASSUME NEW n \in Numbers, NEW v, Trade(n, v)
      PROVE  \A k \in Numbers : life'[k] = "working" => life[k] = "working"
  <2>1. PICK e : e = IF v = left[n] THEN "ended" ELSE life[n]
    OBVIOUS
  <2>2. life' = [life EXCEPT ![n] = e] /\ life[n] = "working"
    BY <1>4, <2>1 DEF Trade
  <2>3. QED
    BY <1>1, <2>2
<1>5. ASSUME NEW n \in Numbers, NEW type, End(n, type)
      PROVE  \A k \in Numbers : life'[k] = "working" => life[k] = "working"
  <2>1. life' = [life EXCEPT ![n] = "ended"] /\ life[n] = "working"
    BY <1>5 DEF End
  <2>2. QED
    BY <1>1, <2>1
<1>6. CASE \/ Tick \/ CollectWithdraw \/ ReadRep \/ UNCHANGED vars
           \/ \E m \in Messages : Request(m) \/ \E i \in 0 .. Len(m.items) : RequestWithdraw(m, i)
           \/ \E r \in returns : Deliver(r)
  BY <1>6 DEF Tick, CollectWithdraw, ReadRep, vars, truthVars, Request, RequestWithdraw, Deliver
<1>7. QED
  BY <1>2, <1>3, <1>4, <1>5, <1>6 DEF Surroundings

\* The reply is worked off and becomes knocks to replay.
LEMMA RepTaskNext ==
  ASSUME TypeInv, HandleRep
  PROVE  task'.kind \in {"rep", "knocks"}
<1>1. task \in RepTask /\ task.kind = "rep"
  BY TaskKinds DEF TypeInv, HandleRep
<1>2. PICK m, i : m = task.msg /\ i = task.item
  OBVIOUS
<1>3. ASSUME NEW o, RegisterReply(m, i, o) PROVE task'.kind = "rep"
  <2>1. PICK s : s = IF IsBatch(m) THEN Append(task.members, o) ELSE task.members
    OBVIOUS
  <2>2. PICK e : e = IF <<m, i>> \in DOMAIN early THEN early[<<m, i>>] ELSE task.knocks
    OBVIOUS
  <2>3. task' = [task EXCEPT !.item = i + 1, !.members = s, !.knocks = e]
    BY <1>3, <2>1, <2>2 DEF RegisterReply
  <2>4. QED
    BY <1>1, <2>3 DEF RepTask
<1>4. ASSUME task' = [task EXCEPT !.item = i + 1] PROVE task'.kind = "rep"
  BY <1>1, <1>4 DEF RepTask
<1>5. ASSUME task' = [kind |-> "knocks", rest |-> task.knocks] PROVE task'.kind = "knocks"
  BY <1>5
<1>6. QED
  BY <1>2, <1>3, <1>4, <1>5 DEF HandleRep

LEMMA ReplayNext ==
  ASSUME TypeInv, ReplayKnock
  PROVE  task'.kind \in {"knocks", "idle"}
<1>1. task \in KnocksTask /\ task.kind = "knocks"
  BY TaskKinds DEF TypeInv, ReplayKnock
<1>2. task' = Idle \/ \E x : task' = [task EXCEPT !.rest = x]
  BY DEF ReplayKnock
<1>3. QED
  BY <1>1, <1>2 DEF Idle, KnocksTask

\* Pledges are given by the last handlers of the riskers only.
LEMMA PledgeStep ==
  ASSUME TypeInv, HandInv, Lives, [Next]_vars, NEW n \in Numbers, Pledged(n)', ~Pledged(n)
  PROVE  /\ Pass /\ n = <<task.msg, task.item>> /\ task.item \in Items(task.msg)
         /\ Guards(n[1], n[2]) /\ task'.kind = "pass" /\ task'.msg = task.msg
<1>1. n[1] \in Own /\ Guards(n[1], n[2]) /\ n[1] \in Messages /\ n[2] \in Nat \ {0} /\ n = <<n[1], n[2]>>
  BY NumberFacts, ItemsFacts DEF Pledged
<1>2. CASE Surroundings \/ ReadRep \/ UNCHANGED vars
  <2>1. UNCHANGED <<task, asyncResult>>
    BY <1>2, AroundFrame
  <2>2. CASE UNCHANGED <<caller, asyncState>>
    <3>1. life'[n] = "working" /\ life[n] # "working"
      BY <1>1, <2>1, <2>2 DEF Pledged
    <3>2. ~(\E m \in Messages : ForeignOrder(m))
      <4>1. ASSUME NEW m \in Messages, ForeignOrder(m) PROVE FALSE
        <5>1. m \notin Own /\ life' = [k \in Numbers |-> IF k \in NumbersOf(m) THEN "working" ELSE life[k]]
          BY <4>1 DEF ForeignOrder
        <5>2. n \in NumbersOf(m)
          BY <3>1, <5>1
        <5>3. n[1] = m
          BY <5>2, NumbersOfFacts
        <5>4. QED
          BY <1>1, <5>1, <5>3
      <4>2. QED
        BY <4>1
    <3>3. ~Collect
      <4>1. ASSUME Collect PROVE FALSE
        <5>1. asyncState = "done" /\ asyncState' = "idle"
          BY <4>1 DEF Collect
        <5>2. QED
          BY <2>2, <5>1
      <4>2. QED
        BY <4>1
    <3>4. life' = life \/ \A k \in Numbers : life'[k] = "working" => life[k] = "working"
      BY <1>2, <3>2, <3>3, OthersEnd
    <3>5. QED
      BY <3>1, <3>4
  <2>3. CASE ~UNCHANGED <<caller, asyncState>>
    <3>1. CASE Collect
      <4>1. PICK m : m = caller.msg
        OBVIOUS
      <4>2. /\ caller' = Idle /\ caller.kind = "order" /\ asyncState = "done"
            /\ \/ life' = life
               \/ /\ asyncResult = ""
                  /\ life' = [k \in Numbers |-> IF k \in NumbersOf(m) THEN "working" ELSE life[k]]
        BY <3>1, <4>1 DEF Collect
      <4>3. m \in Messages
        BY <4>1, <4>2, CallerKinds
      <4>4. caller'.kind # "order"
        BY <4>2 DEF Idle
      <4>5. life'[n] = "working" /\ life[n] # "working"
        BY <1>1, <2>1, <4>4 DEF Pledged
      <4>6. asyncResult = "" /\ n[1] = m
        BY <4>2, <4>3, <4>5, NumbersOfFacts
      <4>7. QED
        BY <1>1, <4>1, <4>2, <4>6 DEF Pledged
    <3>2. CASE CollectWithdraw \/ \E m \in Messages : Request(m) \/ \E i \in 0 .. Len(m.items) : RequestWithdraw(m, i)
      <4>1. life' = life /\ (caller' = Idle \/ asyncState' = "running")
        BY <3>2 DEF CollectWithdraw, Request, RequestWithdraw, truthVars
      <4>2. ~(caller'.kind = "order" /\ asyncState' = "done")
        BY <4>1 DEF Idle
      <4>3. QED
        BY <1>1, <2>1, <4>1, <4>2 DEF Pledged
    <3>3. QED
      BY <1>2, <2>3, <3>1, <3>2, AroundFrame
  <2>4. QED
    BY <2>2, <2>3
<1>3. CASE Take \/ Check \/ Pass \/ HandleRep \/ ReplayKnock
  <2>1. UNCHANGED <<caller, life>>
    BY <1>3 DEF Take, Check, Pass, HandleRep, ReplayKnock, Frame, truthVars
  <2>2. CASE Take
    <3>1. PICK r : r = Head(tradeQueue)
      OBVIOUS
    <3>2. task'.kind # "pass"
      <4>1. \/ task' = Idle
            \/ task' = [kind |-> "check", msg |-> r.msg, item |-> 1]
            \/ task' = [kind |-> "rep", msg |-> r.msg, item |-> 1, accepted |-> r.accepted,
                        members |-> <<>>, knocks |-> <<>>]
        BY <2>2, <3>1 DEF Take
      <4>2. QED
        BY <4>1 DEF Idle
    <3>3. CASE r.kind = "withdraw"
      <4>1. caller = r
        BY <2>2, <3>1, <3>3, RequestTaken DEF Take, HandInv
      <4>2. QED
        BY <1>1, <2>1, <3>2, <3>3, <4>1 DEF Pledged
    <3>4. CASE r.kind # "withdraw"
      <4>1. UNCHANGED <<asyncState, asyncResult>>
        BY <2>2, <3>1, <3>4 DEF Take
      <4>2. QED
        BY <1>1, <2>1, <3>2, <4>1 DEF Pledged
    <3>5. QED
      BY <3>3, <3>4
  <2>3. CASE HandleRep \/ ReplayKnock
    <3>1. UNCHANGED <<asyncState, asyncResult>>
      BY <2>3 DEF HandleRep, ReplayKnock
    <3>2. task'.kind # "pass"
      BY <2>3, RepTaskNext, ReplayNext
    <3>3. QED
      BY <1>1, <2>1, <3>1, <3>2 DEF Pledged
  <2>4. CASE Check
    <3>1. task \in CheckTask /\ task.kind = "check"
      BY <2>4, TaskKinds DEF TypeInv, Check
    <3>2. PICK x : x = task.item + 1
      OBVIOUS
    <3>3. \/ task' = Idle /\ asyncResult' = "error"
          \/ task' = [task EXCEPT !.item = x] /\ UNCHANGED <<asyncState, asyncResult>>
          \/ task' = [kind |-> "pass", msg |-> task.msg, item |-> 1] /\ UNCHANGED <<asyncState, asyncResult>>
      BY <2>4, <3>2 DEF Check, Refuse, Answer
    <3>4. task'.kind = "pass" => task'.item = 1
      BY <3>1, <3>3 DEF Idle, CheckTask
    <3>5. asyncResult' = "" => UNCHANGED <<asyncState, asyncResult>>
      BY <3>3
    <3>6. ~(task'.kind = "pass" /\ n[2] < task'.item)
      BY <1>1, <3>4
    <3>7. life'[n] = life[n]
      BY <2>1
    <3>8. QED
      BY <2>1, <3>5, <3>6, <3>7 DEF Pledged
  <2>5. CASE Pass
    <3>1. task \in CheckTask /\ task.kind = "pass"
      BY <2>5, TaskKinds DEF TypeInv, Pass
    <3>2. PICK m \in Messages, i \in Nat \ {0} : m = task.msg /\ i = task.item
      BY <3>1 DEF CheckTask, Own
    <3>3. CASE i \in Items(m)
      <4>1. PICK x : x = i + 1
        OBVIOUS
      <4>2. task' = [task EXCEPT !.item = x] /\ UNCHANGED <<asyncState, asyncResult>>
        BY <2>5, <3>2, <3>3, <4>1 DEF Pass
      <4>3. task'.kind = "pass" /\ task'.msg = m /\ task'.item = x
        BY <3>1, <3>2, <4>2 DEF CheckTask
      <4>4. n[1] = m /\ n[2] < x /\ ~(n[2] < i)
        BY <1>1, <2>1, <3>1, <3>2, <4>2, <4>3 DEF Pledged
      <4>5. n[2] = i
        BY <1>1, <4>1, <4>4
      <4>6. QED
        BY <1>1, <2>5, <3>2, <3>3, <4>3, <4>4, <4>5
    <3>4. CASE i \notin Items(m)
      <4>1. task' = Idle
        BY <2>5, <3>2, <3>4 DEF Pass
      <4>2. task'.kind # "pass"
        BY <4>1 DEF Idle
      <4>3. caller = [kind |-> "order", msg |-> m]
        BY <3>1, <3>2 DEF HandInv, OneRequest
      <4>4. n[1] = m
        <5>1. caller.msg = m
          BY <4>3
        <5>2. QED
          BY <1>1, <2>1, <4>2, <5>1 DEF Pledged
      <4>5. n[2] < i
        <5>1. n[2] \in Items(m)
          BY <4>4, NumberFacts
        <5>2. Len(m.items) \in Nat
          BY ItemsFacts
        <5>3. QED
          BY <3>4, <5>1, <5>2 DEF Items
      <4>6. QED
        BY <1>1, <3>1, <3>2, <4>4, <4>5 DEF Pledged
    <3>5. QED
      BY <3>3, <3>4
  <2>6. QED
    BY <1>3, <2>2, <2>3, <2>4, <2>5
<1>4. QED
  BY <1>2, <1>3 DEF Next, RiskThread

\* What is not over is not changed by the end of others.
LEMMA UpholdsKept ==
  ASSUME now' = now, NEW n, NEW o, Upholds(o, n), o \in book', SameOrEnded(o)
  PROVE  Upholds(o, n)'
<1>1. orders'[o] = orders[o]
  BY DEF SameOrEnded, Upholds
<1>2. QED
  BY <1>1 DEF Upholds, Finished

LEMMA UpheldSame ==
  ASSUME Upheld, now' = now,
         \A o \in book : (o \in book' \/ Finished(orders[o])) /\ SameOrEnded(o),
         \A n \in Numbers : Pledged(n)' => Pledged(n) \/ \E o : Upholds(o, n)'
  PROVE  Upheld'
<1>1. ASSUME NEW n \in Numbers, Pledged(n) PROVE \E o : Upholds(o, n)'
  <2>1. PICK o : Upholds(o, n)
    BY <1>1 DEF Upheld
  <2>2. o \in book' /\ SameOrEnded(o)
    BY <2>1 DEF Upholds
  <2>3. QED
    BY <2>1, <2>2, UpholdsKept
<1>2. QED
  BY <1>1 DEF Upheld

\* Time passes.
LEMMA UpheldTick ==
  ASSUME TypeInv, HandInv, ObjInv, ~LateReplies, WithdrawsHonoured, Upheld, Tick,
         \A n \in Numbers : Pledged(n)' => Pledged(n)
  PROVE  Upheld'
<1>1. SUFFICES ASSUME NEW n \in Numbers, Pledged(n) PROVE \E o : Upholds(o, n)'
  BY DEF Upheld
<1>2. PICK o : Upholds(o, n)
  BY <1>1 DEF Upheld
<1>3. /\ now' = now + 1 /\ now \in Nat /\ UNCHANGED <<orders, book>>
      /\ orders[o].number = NoNumber => now < orders[o].born + OrderTimeout
      /\ orders[o].withdrawAsked > 0 /\ life[orders[o].number] = "working" =>
           now < orders[o].withdrawAsked + OrderTimeout
  BY <1>2 DEF Tick, riskerVars, Upholds, TypeInv
<1>4. PICK x \in Order : x = orders[o]
  BY <1>2, ObjectFacts DEF Upholds, TypeInv, BookTypes
<1>5. x.born \in Nat /\ x.withdrawAsked \in Nat /\ OrderTimeout \in Nat
  BY AntiSelfKnockAssumption DEF Order
<1>6. x.number # NoNumber => life[x.number] = "working"
  BY <1>1, <1>2, <1>4, UpholderWorks
<1>7. PICK t \in Nat : now' = t /\ t = now + 1
  BY <1>3
<1>8. /\ x.number = NoNumber => ~(t - x.born > OrderTimeout)
      /\ x.number # NoNumber /\ x.withdrawAsked > 0 => ~(t - x.withdrawAsked > OrderTimeout)
  BY <1>3, <1>4, <1>5, <1>6, <1>7
<1>9. ~Finished(x)
  BY <1>2, <1>4 DEF Upholds
<1>10. ~Finished(x)'
  <2>1. ~x.finish /\ ~x.withdrawn /\ ~(x.matched >= x.volume)
    BY <1>9 DEF Finished
  <2>2. QED
    BY <1>7, <1>8, <2>1 DEF Finished
<1>11. Upholds(o, n)'
  BY <1>2, <1>3, <1>4, <1>10 DEF Upholds
<1>12. QED
  BY <1>11

\* The risk thread learns of a trade or of the end of an order.
LEMMA UpheldKnock ==
  ASSUME TypeInv, HandInv, ObjInv, Lives, TypeInv', ObjInv', Within', Upheld,
         UNCHANGED <<now, life, left>>, again' = {}, NEW k \in Knock, Sound(k), OnTradeKnock(k),
         \A n \in Numbers : Pledged(n)' => Pledged(n)
  PROVE  Upheld'
<1>1. CASE KnockEarly(k)
  <2>1. UNCHANGED <<orders, book>>
    BY <1>1 DEF KnockEarly
  <2>2. \A o \in book : SameOrEnded(o)
    BY <2>1 DEF SameOrEnded, TypeInv, BookTypes
  <2>3. QED
    BY <2>1, <2>2, UpheldSame
<1>2. CASE KnockKnown(k)
  <2>1. /\ book' = book /\ DOMAIN orders' = DOMAIN orders /\ k.number \in DOMAIN single
        /\ BookTypes /\ book \subseteq DOMAIN orders
    BY <1>2, KnownFacts DEF TypeInv, BookTypes
  <2>2. PICK o1 \in DOMAIN orders :
          /\ o1 = single[k.number]
          /\ \/ orders'[o1] = Told(k, orders[o1])
             \/ /\ Finished(Told(k, orders[o1]))
                /\ orders'[o1] = [Told(k, orders[o1]) EXCEPT !.finish = TRUE]
          /\ \A p \in DOMAIN orders : p # o1 =>
               \/ orders'[p] = orders[p]
               \/ Finished(orders[p]) /\ orders'[p] = [orders[p] EXCEPT !.finish = TRUE]
    BY <1>2, <2>1, KnownFacts
  <2>3. orders[o1].number = k.number
    BY <2>1, <2>2 DEF ObjInv, Mapped
  <2>4. PICK x \in Order : x = orders[o1]
    BY <2>1, ObjectFacts
  <2>5. PICK t \in Order : t = Told(k, x)
    BY ToldFacts
  <2>6. PICK y : y = orders'[o1]
    OBVIOUS
  <2>7. /\ t.number = x.number /\ t.withdrawAsked = x.withdrawAsked /\ t.finish = x.finish
        /\ t.born = x.born /\ t.volume = x.volume
    BY <2>4, <2>5 DEF Told, Order
  <2>8. k.type = "trade" => t.withdrawn = x.withdrawn
    BY <2>4, <2>5 DEF Told, Order
  <2>9. (y = t \/ (Finished(t) /\ y = [t EXCEPT !.finish = TRUE])) /\ y.matched = t.matched
    <3>1. y = t \/ (Finished(t) /\ y = [t EXCEPT !.finish = TRUE])
      BY <2>2, <2>4, <2>5, <2>6
    <3>2. QED
      BY <3>1 DEF Order
  <2>10. ASSUME NEW n \in Numbers, Pledged(n), Upholds(o1, n) PROVE Upholds(o1, n)'
    <3>1. n = k.number /\ n # NoNumber /\ life[n] = "working" /\ x.number = n
      <4>1. k.number \in Numbers /\ k.number # NoNumber
        BY NumberFacts DEF Knock
      <4>2. QED
        BY <2>3, <2>4, <2>10, <4>1, UpholderWorks
    <3>2. k.type = "trade"
      BY <3>1 DEF Sound, Knock
    <3>3. ~Finished(x)
      BY <2>4, <2>10 DEF Upholds
    <3>4. OfItem(x, n)
      BY <2>4, <2>10 DEF Upholds
    <3>5. ~(t.matched >= t.volume)
      <4>1. o1 \in DOMAIN orders' /\ y \in Order
        BY <2>1, <2>6, ObjectFacts DEF TypeInv, BookTypes
      <4>2. y.number = n
        BY <2>7, <2>9, <3>1 DEF Order
      <4>3. y.matched <= VolumeOf(n) - left'[n]
        BY <2>6, <3>1, <4>1, <4>2 DEF Within, Doubled
      <4>4. left'[n] > 0 /\ left'[n] \in Nat
        BY <3>1 DEF Lives, TypeInv
      <4>5. t.volume = VolumeOf(n) /\ t.volume \in Nat /\ t.matched \in Nat
        BY <2>7, <3>4 DEF OfItem, Order
      <4>6. QED
        BY <2>9, <4>3, <4>4, <4>5
    <3>6. ~Finished(t)
      BY <2>7, <2>8, <3>2, <3>3, <3>5 DEF Finished
    <3>7. y = t /\ ~Finished(y)'
      BY <2>9, <3>6 DEF Finished
    <3>8. Like(x, t)
      BY <2>4, <2>5, LikeTold
    <3>9. OfItem(y, n)
      BY <3>4, <3>7, <3>8 DEF Like, OfItem
    <3>10. QED
      BY <2>1, <2>6, <2>7, <2>10, <3>1, <3>7, <3>9 DEF Upholds
  <2>11. ASSUME NEW n \in Numbers, Pledged(n) PROVE \E o : Upholds(o, n)'
    <3>1. PICK o : Upholds(o, n)
      BY <2>11 DEF Upheld
    <3>2. CASE o = o1
      BY <2>10, <2>11, <3>1, <3>2
    <3>3. CASE o # o1
      <4>1. o \in book' /\ SameOrEnded(o)
        BY <2>1, <2>2, <3>1, <3>3 DEF Upholds, SameOrEnded
      <4>2. QED
        BY <3>1, <4>1, UpholdsKept
    <3>4. QED
      BY <3>2, <3>3
  <2>12. QED
    BY <2>11 DEF Upheld
<1>3. QED
  BY <1>1, <1>2 DEF OnTradeKnock

\* A withdrawal is asked for, refused or carried out.
LEMMA UpheldTargets ==
  ASSUME TypeInv, HandInv, ObjInv, Upheld, UNCHANGED <<now, book>>,
         NEW T, \A o \in T : orders[o].number # NoNumber, NEW ok \in BOOLEAN,
         ok => \A o \in T \cap DOMAIN orders : \A n \in Numbers :
                 orders[o].number = n => life[n] = "ended",
         \A o \in DOMAIN orders :
           orders'[o] = IF o \notin T THEN orders[o]
                        ELSE IF ok THEN [orders[o] EXCEPT !.withdrawn = TRUE]
                        ELSE [orders[o] EXCEPT !.withdrawAsked = now],
         \A n \in Numbers : Pledged(n)' => Pledged(n)
  PROVE  Upheld'
<1>1. SUFFICES ASSUME NEW n \in Numbers, Pledged(n) PROVE \E o : Upholds(o, n)'
  BY DEF Upheld
<1>2. PICK o : Upholds(o, n)
  BY <1>1 DEF Upheld
<1>3. o \in book /\ o \in DOMAIN orders
  BY <1>2 DEF Upholds, TypeInv, BookTypes
<1>4. PICK x \in Order : x = orders[o]
  BY <1>3, ObjectFacts DEF TypeInv
<1>5. CASE o \notin T
  <2>1. orders'[o] = orders[o]
    BY <1>3, <1>5
  <2>2. QED
    BY <1>2, <1>3, <2>1, UpholdsKept DEF SameOrEnded
<1>6. CASE o \in T
  <2>1. x.number = n /\ life[n] = "working"
    BY <1>1, <1>2, <1>4, <1>6, UpholderWorks
  <2>2. ~ok
    BY <1>3, <1>4, <1>6, <2>1
  <2>3. PICK y : y = [x EXCEPT !.withdrawAsked = now]
    OBVIOUS
  <2>4. orders'[o] = y
    BY <1>3, <1>4, <1>6, <2>2, <2>3
  <2>5. /\ y.number = x.number /\ y.withdrawAsked = now /\ y.withdrawn = x.withdrawn
        /\ y.finish = x.finish /\ y.matched = x.matched /\ y.volume = x.volume
        /\ y.born = x.born /\ y.msg = x.msg /\ y.code = x.code /\ y.price = x.price
    BY <1>4, <2>3 DEF Order
  <2>6. now - now = 0 /\ OrderTimeout \in Nat
    BY AntiSelfKnockAssumption DEF TypeInv
  <2>7. n # NoNumber
    BY NumberFacts
  <2>8. ~Finished(y)'
    BY <1>2, <1>4, <2>1, <2>5, <2>6, <2>7 DEF Upholds, Finished
  <2>9. OfItem(y, n)
    BY <1>2, <1>4, <2>5 DEF Upholds, OfItem
  <2>10. QED
    BY <1>3, <2>1, <2>4, <2>5, <2>8, <2>9 DEF Upholds
<1>7. QED
  BY <1>5, <1>6

LEMMA UpheldTake ==
  ASSUME TypeInv, HandInv, ObjInv, Lives, Hearsay, TypeInv', ObjInv', Within', Upheld,
         UNCHANGED <<now, life, left>>, again' = {}, Take,
         \A n \in Numbers : Pledged(n)' => Pledged(n)
  PROVE  Upheld'
<1>1. PICK r : r = Head(tradeQueue)
  OBVIOUS
<1>2. r \in Queued /\ BookTypes /\ now \in Nat
  BY <1>1, QueueTaken DEF Take, TypeInv
<1>3. Sound(r)
  <2>1. tradeQueue \in Seq(Queued) /\ tradeQueue # <<>>
    BY DEF TypeInv, Take
  <2>2. 1 \in DOMAIN tradeQueue /\ r = tradeQueue[1]
    BY <1>1, <2>1, TailFacts
  <2>3. QED
    BY <2>2 DEF Hearsay, Heard
<1>4. CASE UNCHANGED riskerVars
  <2>1. UNCHANGED <<orders, book>>
    BY <1>4 DEF riskerVars
  <2>2. \A o \in book : SameOrEnded(o)
    BY <1>2, <2>1 DEF SameOrEnded, BookTypes
  <2>3. QED
    BY <2>1, <2>2, UpheldSame
<1>5. CASE r.kind = "withdraw" /\ HandleTradeWithdrawReq(r.msg, r.item)
  <2>1. PICK T : T = Targets(r.msg, r.item)
    OBVIOUS
  <2>2. /\ UNCHANGED book
        /\ \A o \in DOMAIN orders :
             orders'[o] = IF o \in T THEN [orders[o] EXCEPT !.withdrawAsked = now] ELSE orders[o]
    BY <1>2, <1>5, <2>1, WithdrawReqFacts
  <2>3. \A o \in T : orders[o].number # NoNumber
    BY <1>2, <2>1, TargetsNumbered
  <2>4. PICK ok \in BOOLEAN : ok = FALSE
    OBVIOUS
  <2>5. \A o \in DOMAIN orders :
          orders'[o] = IF o \notin T THEN orders[o]
                       ELSE IF ok THEN [orders[o] EXCEPT !.withdrawn = TRUE]
                       ELSE [orders[o] EXCEPT !.withdrawAsked = now]
    BY <2>2, <2>4
  <2>6. QED
    BY <2>2, <2>3, <2>4, <2>5, UpheldTargets
<1>6. CASE r.kind = "wrep" /\ HandleTradeWithdrawRep(r.msg, r.item, r.ok)
  <2>1. r.ok \in BOOLEAN /\ r.msg \in Messages
    BY <1>2, <1>6, QueuedKinds DEF WithdrawReply
  <2>2. PICK T : T = Targets(r.msg, r.item)
    OBVIOUS
  <2>3. PICK ok \in BOOLEAN : ok = r.ok
    BY <2>1
  <2>4. /\ UNCHANGED book
        /\ \A o \in DOMAIN orders :
             orders'[o] = IF o \notin T THEN orders[o]
                          ELSE IF ok THEN [orders[o] EXCEPT !.withdrawn = TRUE]
                          ELSE [orders[o] EXCEPT !.withdrawAsked = now]
    BY <1>2, <1>6, <2>1, <2>2, <2>3, WithdrawRepFacts
  <2>5. ASSUME ok, NEW o \in T, NEW n \in Numbers, orders[o].number = n PROVE life[n] = "ended"
    <3>1. n \in NumbersOf(r.msg) /\ Aims(r, n)
      BY <2>1, <2>2, <2>5, TargetsAimed DEF Aims
    <3>2. QED
      BY <1>3, <1>6, <2>3, <2>5, <3>1 DEF Sound
  <2>6. \A o \in T : orders[o].number # NoNumber
    BY <1>2, <2>2, TargetsNumbered
  <2>7. QED
    BY <2>4, <2>5, <2>6, UpheldTargets
<1>7. CASE r.kind = "knock" /\ OnTradeKnock(r)
  <2>1. r \in Knock
    BY <1>2, <1>7, QueuedKinds
  <2>2. QED
    BY <1>3, <1>7, <2>1, UpheldKnock
<1>8. QED
  BY <1>1, <1>4, <1>5, <1>6, <1>7 DEF Take

LEMMA UpheldCheck ==
  ASSUME TypeInv, Upheld, now' = now, Check, \A n \in Numbers : Pledged(n)' => Pledged(n)
  PROVE  Upheld'
<1>1. PICK m \in Messages, i \in Nat \ {0} : m = task.msg /\ i = task.item
  BY TaskKinds DEF TypeInv, Check, CheckTask, Own
<1>2. BookTypes /\ book \subseteq DOMAIN orders
  BY DEF TypeInv, BookTypes
<1>3. CASE i \in Items(m)
  <2>1. CheckItem(m, i)
    BY <1>1, <1>3 DEF Check
  <2>2. /\ \A o \in DOMAIN orders : SameOrEnded(o)
        /\ \A o \in book \ book' : o \in Swept(m, i)
    BY <1>2, <1>3, <2>1, CheckItemFacts DEF SameOrEnded
  <2>3. \A o \in book : o \in book' \/ Finished(orders[o])
    BY <2>2 DEF Swept
  <2>4. QED
    BY <1>2, <2>2, <2>3, UpheldSame
<1>4. CASE i \notin Items(m)
  <2>1. UNCHANGED <<orders, book>>
    BY <1>1, <1>4 DEF Check, riskerVars
  <2>2. QED
    BY <1>2, <2>1, UpheldSame DEF SameOrEnded
<1>5. QED
  BY <1>3, <1>4

LEMMA UpheldPass ==
  ASSUME TypeInv, Upheld, now' = now, Pass,
         \A n \in Numbers : Pledged(n)' /\ ~Pledged(n) =>
           /\ n = <<task.msg, task.item>> /\ task.item \in Items(task.msg)
           /\ Guards(task.msg, task.item)
  PROVE  Upheld'
<1>1. PICK m \in Messages, i \in Nat \ {0} : m = task.msg /\ i = task.item
  BY TaskKinds DEF TypeInv, Pass, CheckTask, Own
<1>2. BookTypes /\ book \subseteq DOMAIN orders /\ now \in Nat
  BY DEF TypeInv, BookTypes
<1>3. CASE i \in Items(m) /\ Guards(m, i)
  <2>1. PassItem(m, i)
    BY <1>1, <1>3 DEF Pass
  <2>2. \A o \in DOMAIN orders : orders'[o] = orders[o]
    BY <1>2, <1>3, <2>1, PassItemFacts
  <2>3. PICK o1 \in DOMAIN orders' :
          book' = book \cup {o1} /\ orders'[o1] = NewOrder(m, i, NoNumber)
    BY <1>2, <1>3, <2>1, PassItemFacts
  <2>4. PICK n : n = <<m, i>>
    OBVIOUS
  <2>5. Upholds(o1, n)'
    <3>1. PICK y : y = NewOrder(m, i, NoNumber)
      OBVIOUS
    <3>2. /\ y.number = NoNumber /\ ~y.finish /\ ~y.withdrawn /\ y.matched = 0
          /\ y.volume = m.items[i].volume /\ y.born = now
          /\ y.msg = m /\ y.code = m.items[i].code /\ y.price = m.items[i].price
      BY <3>1 DEF NewOrder
    <3>3. y.volume \in Nat \ {0} /\ OrderTimeout \in Nat /\ now - now = 0
      <4>1. i \in Items(m)
        BY <1>3
      <4>2. m.items[i].volume \in Nat \ {0}
        BY <4>1, ItemFacts
      <4>3. QED
        BY <1>2, <3>2, <4>2, AntiSelfKnockAssumption
    <3>4. ~Finished(y)'
      BY <3>2, <3>3 DEF Finished
    <3>5. n[1] = m /\ n[2] = i
      BY <2>4
    <3>6. OfItem(y, n)
      BY <3>2, <3>5 DEF OfItem, VolumeOf
    <3>7. QED
      BY <2>3, <3>1, <3>2, <3>4, <3>6 DEF Upholds
  <2>6. \A o \in book : o \in book' /\ SameOrEnded(o)
    BY <1>2, <2>2, <2>3 DEF SameOrEnded
  <2>7. \A k \in Numbers : Pledged(k)' => Pledged(k) \/ k = n
    BY <1>1, <2>4
  <2>8. QED
    BY <2>5, <2>6, <2>7, UpheldSame
<1>4. CASE ~(i \in Items(m) /\ Guards(m, i))
  <2>1. UNCHANGED <<orders, book>>
    BY <1>1, <1>4 DEF Pass, PassItem, riskerVars
  <2>2. \A n \in Numbers : Pledged(n)' => Pledged(n)
    BY <1>1, <1>4
  <2>3. QED
    BY <1>2, <2>1, <2>2, UpheldSame DEF SameOrEnded
<1>5. QED
  BY <1>3, <1>4

\* An object in the book that speaks for an order of m is that of the item.
LEMMA ItemOfObject ==
  ASSUME DistinctPrices, NEW m \in Messages, NEW i \in Items(m), NEW n \in Numbers, NEW x,
         OfItem(x, n), OfItem(x, <<m, i>>)
  PROVE  n = <<m, i>>
<1>1. n[1] = m /\ n[2] \in Items(m) /\ n = <<n[1], n[2]>>
  BY NumberFacts DEF OfItem
<1>2. n[2] = i
  BY <1>1 DEF OfItem, DistinctPrices
<1>3. QED
  BY <1>1, <1>2

LEMMA ChosenObject ==
  ASSUME BookTypes, ObjInv, DistinctPrices, now \in Nat, NEW m \in Messages, NEW i \in Items(m),
         NEW o, NEW n, n = <<m, i>>, RepItemKnown(m, i, o) \/ RepItemUnknown(m, i, o)
  PROVE  /\ n \in Numbers /\ orders'[o].number = n /\ OfItem(orders'[o], n) /\ n # NoNumber
         /\ o \in DOMAIN orders =>
              /\ orders'[o] = Numbered(orders[o], n) /\ OfItem(orders[o], n)
              /\ orders[o].number = n \/ (orders[o].number = NoNumber /\ Blank(orders[o]))
BY ObjChosen

LEMMA UpheldRegister ==
  ASSUME TypeInv, HandInv, ObjInv, Upheld, now' = now, DistinctPrices,
         NEW m \in Messages, NEW i \in Items(m), NEW o,
         RepItemKnown(m, i, o) \/ RepItemUnknown(m, i, o),
         \A n \in Numbers : Pledged(n)' => Pledged(n)
  PROVE  Upheld'
<1>1. BookTypes /\ now \in Nat /\ book \subseteq DOMAIN orders
  BY DEF TypeInv, BookTypes
<1>2. PICK n : n = <<m, i>>
  OBVIOUS
<1>3. /\ n \in Numbers /\ orders'[o].number = n /\ OfItem(orders'[o], n) /\ n # NoNumber
      /\ o \in DOMAIN orders =>
           /\ orders'[o] = Numbered(orders[o], n) /\ OfItem(orders[o], n)
           /\ orders[o].number = n \/ (orders[o].number = NoNumber /\ Blank(orders[o]))
  BY <1>1, <1>2, ChosenObject
<1>4. /\ book \subseteq book' /\ \A p \in DOMAIN orders : p # o => orders'[p] = orders[p]
  BY <1>1, <1>2, RegisteredFacts
<1>5. ASSUME NEW l \in Numbers, Pledged(l), Upholds(o, l) PROVE Upholds(o, l)'
  <2>1. o \in book /\ o \in DOMAIN orders /\ o \in book'
    BY <1>1, <1>4, <1>5 DEF Upholds
  <2>2. PICK x \in Order : x = orders[o]
    BY <1>1, <2>1, ObjectFacts
  <2>3. l = n
    BY <1>2, <1>3, <1>5, <2>1, ItemOfObject DEF Upholds
  <2>4. PICK y : y = Numbered(x, n)
    OBVIOUS
  <2>5. /\ y.number = n /\ y.withdrawAsked = x.withdrawAsked /\ y.withdrawn = x.withdrawn
        /\ y.finish = x.finish /\ y.matched = x.matched /\ y.volume = x.volume
    BY <2>2, <2>4 DEF Numbered, Order
  <2>6. x.number = NoNumber => x.withdrawAsked = 0
    BY <1>3, <2>1, <2>2 DEF Blank
  <2>7. x.number \in {NoNumber, n} /\ ~Finished(x)
    BY <1>5, <2>2, <2>3 DEF Upholds
  <2>8. ~Finished(y)'
    BY <1>3, <2>5, <2>6, <2>7 DEF Finished
  <2>9. QED
    BY <1>3, <2>1, <2>2, <2>3, <2>4, <2>5, <2>8 DEF Upholds
<1>6. ASSUME NEW l \in Numbers, Pledged(l) PROVE \E p : Upholds(p, l)'
  <2>1. PICK p : Upholds(p, l)
    BY <1>6 DEF Upheld
  <2>2. CASE p = o
    BY <1>5, <1>6, <2>1, <2>2
  <2>3. CASE p # o
    <3>1. p \in book' /\ SameOrEnded(p)
      BY <1>1, <1>4, <2>1, <2>3 DEF Upholds, SameOrEnded
    <3>2. QED
      BY <2>1, <3>1, UpholdsKept
  <2>4. QED
    BY <2>2, <2>3
<1>7. QED
  BY <1>6 DEF Upheld

LEMMA UpheldRep ==
  ASSUME TypeInv, HandInv, ObjInv, Hearsay, Upheld, UNCHANGED <<now, life>>, DistinctPrices,
         HandleRep, \A n \in Numbers : Pledged(n)' => Pledged(n)
  PROVE  Upheld'
<1>1. BookTypes /\ book \subseteq DOMAIN orders /\ task \in RepTask /\ task.kind = "rep"
  BY TaskKinds DEF TypeInv, BookTypes, HandleRep
<1>2. PICK m \in Messages, i \in Nat \ {0} : m = task.msg /\ i = task.item
  BY <1>1 DEF RepTask
<1>3. CASE UNCHANGED <<orders, book>>
  BY <1>1, <1>3, UpheldSame DEF SameOrEnded
<1>4. CASE i \in Items(m) /\ ~Guards(m, i)
  <2>1. UNCHANGED <<orders, book>>
    BY <1>2, <1>4 DEF HandleRep, riskerVars
  <2>2. QED
    BY <1>3, <2>1
<1>5. CASE i \in Items(m) /\ Guards(m, i) /\ i \notin task.accepted
  <2>1. RepItemRejected(m, i)
    BY <1>2, <1>5 DEF HandleRep
  <2>2. /\ orders' = orders
        /\ book' = book \/ \E o \in OfReply(m, i) : book' = book \ {o}
    BY <1>1, <1>5, <2>1, RejectedFacts
  <2>3. PICK n : n = <<m, i>>
    OBVIOUS
  <2>4. n \in NumbersOf(m) /\ n \in Numbers /\ n[1] = m /\ n[2] = i
    BY <1>5, <2>3, ItemFacts DEF NumbersOf
  <2>5. life[n] # "working"
    BY <1>1, <1>2, <1>5, <2>4 DEF Hearsay, SoundReply
  <2>6. m \in replied
    BY <1>1, <1>2 DEF HandInv, RepliesSettled
  <2>7. ~Pledged(n)
    BY <2>4, <2>5, <2>6, PledgeWorks
  <2>8. ASSUME NEW l \in Numbers, Pledged(l), NEW o, Upholds(o, l) PROVE Upholds(o, l)'
    <3>1. ASSUME o \in OfReply(m, i) PROVE FALSE
      <4>1. l[1] = m /\ l[2] \in Items(m) /\ l = <<l[1], l[2]>>
        BY <2>8, <3>1, NumberFacts DEF Upholds, OfItem, OfReply
      <4>2. l[2] = i
        BY <1>5, <2>8, <3>1, <4>1 DEF Upholds, OfItem, OfReply, DistinctPrices
      <4>3. QED
        BY <2>3, <2>7, <2>8, <4>1, <4>2
    <3>2. o \in book' /\ SameOrEnded(o)
      BY <1>1, <2>2, <2>8, <3>1 DEF Upholds, SameOrEnded
    <3>3. QED
      BY <2>8, <3>2, UpholdsKept
  <2>9. QED
    BY <2>8 DEF Upheld
<1>6. CASE i \in Items(m) /\ Guards(m, i) /\ i \in task.accepted
  <2>1. PICK o : RegisterReply(m, i, o)
    BY <1>2, <1>6 DEF HandleRep
  <2>2. RepItemKnown(m, i, o) \/ RepItemUnknown(m, i, o)
    BY <2>1 DEF RegisterReply
  <2>3. i \in Items(m)
    BY <1>6
  <2>4. QED
    BY <2>2, <2>3, UpheldRegister
<1>7. CASE i \notin Items(m)
  <2>1. UNCHANGED <<orders, book>>
    BY <1>2, <1>7 DEF HandleRep, RegisterBatch
  <2>2. QED
    BY <1>3, <2>1
<1>8. QED
  BY <1>4, <1>5, <1>6, <1>7

LEMMA UpheldReplay ==
  ASSUME TypeInv, HandInv, ObjInv, Lives, Hearsay, TypeInv', ObjInv', Within', Upheld,
         UNCHANGED <<now, life, left>>, again' = {}, ReplayKnock,
         \A n \in Numbers : Pledged(n)' => Pledged(n)
  PROVE  Upheld'
<1>1. /\ task \in KnocksTask /\ task.rest \in Seq(Knock) /\ task.kind = "knocks"
      /\ book \subseteq DOMAIN orders
  BY TaskKinds DEF TypeInv, ReplayKnock, KnocksTask, BookTypes
<1>2. CASE task.rest = <<>>
  <2>1. UNCHANGED <<orders, book>>
    BY <1>2 DEF ReplayKnock, riskerVars
  <2>2. QED
    BY <1>1, <2>1, UpheldSame DEF SameOrEnded
<1>3. CASE task.rest # <<>>
  <2>1. PICK r : r = Head(task.rest)
    OBVIOUS
  <2>2. OnTradeKnock(r)
    BY <1>3, <2>1 DEF ReplayKnock
  <2>3. 1 \in DOMAIN task.rest /\ r = task.rest[1] /\ r \in Knock
    BY <1>1, <1>3, <2>1, TailFacts
  <2>4. InHand = task.rest
    BY <1>1 DEF InHand
  <2>5. Sound(r)
    BY <2>3, <2>4 DEF Hearsay, Heard
  <2>6. QED
    BY <2>2, <2>3, <2>5, UpheldKnock
<1>4. QED
  BY <1>2, <1>3

LEMMA UpheldStep ==
  ASSUME TypeInv, HandInv, ObjInv, Lives, Hearsay, TypeInv', ObjInv', Within', again' = {},
         ~LateReplies, WithdrawsHonoured, DistinctPrices, Upheld, [Next]_vars
  PROVE  Upheld'
<1>1. \A n \in Numbers : Pledged(n)' /\ ~Pledged(n) =>
        /\ Pass /\ n = <<task.msg, task.item>> /\ task.item \in Items(task.msg)
        /\ Guards(n[1], n[2])
  BY PledgeStep
<1>2. CASE Tick
  <2>1. ~Pass
    <3>1. now' = now + 1 /\ now \in Nat
      BY <1>2 DEF Tick, TypeInv
    <3>2. Pass => now' = now
      BY DEF Pass, Frame
    <3>3. QED
      BY <3>1, <3>2
  <2>2. QED
    BY <1>1, <1>2, <2>1, UpheldTick
<1>3. CASE now' = now /\ (Surroundings \/ ReadRep \/ UNCHANGED vars)
  <2>1. UNCHANGED <<orders, book, task>> /\ book \subseteq DOMAIN orders
    BY <1>3, AroundFrame DEF TypeInv, BookTypes
  <2>2. CASE Pass
    <3>1. \A n \in Numbers : Pledged(n)' /\ ~Pledged(n) =>
            /\ n = <<task.msg, task.item>> /\ task.item \in Items(task.msg)
            /\ Guards(task.msg, task.item)
      BY <1>1
    <3>2. QED
      BY <1>3, <2>2, <3>1, UpheldPass
  <2>3. CASE ~Pass
    BY <1>1, <1>3, <2>1, <2>3, UpheldSame DEF SameOrEnded
  <2>4. QED
    BY <2>2, <2>3
<1>4. CASE Take \/ Check \/ Pass \/ HandleRep \/ ReplayKnock
  <2>1. UNCHANGED <<now, life, left>>
    BY <1>4, InsideFrame
  <2>2. CASE Pass
    <3>1. \A n \in Numbers : Pledged(n)' /\ ~Pledged(n) =>
            /\ n = <<task.msg, task.item>> /\ task.item \in Items(task.msg)
            /\ Guards(task.msg, task.item)
      BY <1>1
    <3>2. QED
      BY <2>1, <2>2, <3>1, UpheldPass
  <2>3. CASE ~Pass
    <3>1. \A n \in Numbers : Pledged(n)' => Pledged(n)
      BY <1>1, <2>3
    <3>2. QED
      BY <1>4, <2>1, <2>3, <3>1, UpheldTake, UpheldCheck, UpheldRep, UpheldReplay
  <2>4. QED
    BY <2>2, <2>3
<1>5. CASE Surroundings /\ ~Tick
  <2>1. now' = now
    BY <1>5, AroundFrame
  <2>2. QED
    BY <1>3, <1>5, <2>1
<1>6. CASE ReadRep \/ UNCHANGED vars
  <2>1. now' = now
    BY <1>6 DEF ReadRep, vars
  <2>2. QED
    BY <1>3, <1>6, <2>1
<1>7. QED
  BY <1>2, <1>4, <1>5, <1>6 DEF Next, RiskThread

\* An item that could trade with a pledged order is refused.
LEMMA FacingRefused ==
  ASSUME TypeInv, NEW m \in Messages, NEW i \in Items(m), NEW n \in Numbers, NEW o, Upholds(o, n),
         Facing(<<m, i>>, n)
  PROVE  Guards(m, i) /\ Refuses(m, i)
<1>1. PICK x : x = orders[o]
  OBVIOUS
<1>2. PICK a : a = <<m, i>>
  OBVIOUS
<1>3. a[1] = m /\ a[2] = i
  BY <1>2
<1>4. /\ x.msg = n[1] /\ x.code = n[1].items[n[2]].code /\ x.price = n[1].items[n[2]].price
      /\ o \in book /\ ~Finished(x)
  BY <1>1 DEF Upholds, OfItem
<1>5. m.items[i].price \in Nat /\ n[1].items[n[2]].price \in Nat
  BY ItemFacts, NumberFacts
<1>6. Guards(m, i) /\ Crosses(x, m, i)
  <2>1. CASE Opposed(a, n)
    <3>1. /\ m.side = "buy" /\ n[1].side = "sell" /\ m.items[i].code = x.code
          /\ m.items[i].price >= x.price /\ Guards(m, i)
      BY <1>3, <1>4, <2>1 DEF Opposed
    <3>2. QED
      BY <1>4, <1>5, <3>1 DEF Crosses
  <2>2. CASE Opposed(n, a)
    <3>1. /\ n[1].side = "buy" /\ m.side = "sell" /\ m.items[i].code = x.code
          /\ x.price >= m.items[i].price /\ Guards(m, i)
      BY <1>3, <1>4, <2>2 DEF Opposed
    <3>2. QED
      BY <1>4, <1>5, <3>1 DEF Crosses
  <2>3. QED
    BY <1>2, <2>1, <2>2 DEF Facing
<1>7. QED
  BY <1>1, <1>4, <1>6 DEF Refuses, Opposite

\* Orders of one message are on one side.
LEMMA NoneFacesItself ==
  ASSUME NEW a, NEW b, a[1] = b[1]
  PROVE  ~Facing(a, b)
BY DEF Facing, Opposed

LEMMA CheckedNowStep ==
  ASSUME TypeInv, HandInv, CheckedNow, [Next]_vars
  PROVE  CheckedNow'
<1>1. checkedAt \in [Messages -> Nat] /\ now \in Nat /\ TaskTypes
  BY DEF TypeInv
<1>2. ASSUME UNCHANGED checkedAt, now' = now,
             task'.kind \in {"check", "pass"} => task.kind \in {"check", "pass"} /\ task'.msg = task.msg
      PROVE  CheckedNow'
  BY <1>2 DEF CheckedNow
<1>3. CASE Surroundings /\ task = Idle
  <2>1. UNCHANGED <<checkedAt, task>> /\ task.kind = "idle" /\ (now' = now \/ now' = now + 1)
    <3>1. now' = now \/ now' = now + 1
      BY <1>3, AroundFrame DEF Tick
    <3>2. QED
      BY <1>3, <3>1, AroundFrame DEF Idle
  <2>2. QED
    BY <1>1, <2>1 DEF CheckedNow
<1>4. CASE Take
  <2>1. PICK r : r = Head(tradeQueue)
    OBVIOUS
  <2>2. now' = now /\ task = Idle
    BY <1>4 DEF Take, Frame
  <2>3. CASE r.kind = "order"
    <3>1. /\ task' = [kind |-> "check", msg |-> r.msg, item |-> 1]
          /\ checkedAt' = [checkedAt EXCEPT ![r.msg] = now]
      BY <1>4, <2>1, <2>3 DEF Take
    <3>2. r.msg \in Messages
      BY <1>4, <2>1, <2>3, QueueTaken DEF Take, Own
    <3>3. task'.msg = r.msg /\ checkedAt'[r.msg] = now
      BY <1>1, <3>1, <3>2
    <3>4. \A m \in Messages : checkedAt'[m] <= now
      BY <1>1, <3>1 DEF CheckedNow
    <3>5. QED
      BY <2>2, <3>3, <3>4 DEF CheckedNow
  <2>4. CASE r.kind # "order"
    <3>1. /\ checkedAt' = checkedAt
          /\ \/ task' = Idle
             \/ task' = [kind |-> "rep", msg |-> r.msg, item |-> 1, accepted |-> r.accepted,
                         members |-> <<>>, knocks |-> <<>>]
      BY <1>4, <2>1, <2>4 DEF Take
    <3>2. task'.kind \notin {"check", "pass"}
      BY <3>1 DEF Idle
    <3>3. QED
      BY <1>2, <2>2, <3>1, <3>2
  <2>5. QED
    BY <2>3, <2>4
<1>5. CASE Check \/ Pass
  <2>1. task \in CheckTask /\ UNCHANGED <<checkedAt, now>> /\ task.kind \in {"check", "pass"}
    BY <1>1, <1>5, TaskKinds DEF Check, Pass, Frame
  <2>2. PICK x : x = task.item + 1
    OBVIOUS
  <2>3. \/ task' = Idle \/ task' = [task EXCEPT !.item = x]
        \/ task' = [kind |-> "pass", msg |-> task.msg, item |-> 1]
    BY <1>5, <2>2 DEF Check, Pass
  <2>4. task'.kind = "idle" \/ task'.msg = task.msg
    BY <2>1, <2>3 DEF Idle, CheckTask
  <2>5. QED
    BY <1>2, <2>1, <2>4
<1>6. CASE HandleRep \/ ReplayKnock
  <2>1. UNCHANGED <<checkedAt, now>>
    BY <1>6 DEF HandleRep, ReplayKnock, Frame
  <2>2. task'.kind \notin {"check", "pass"}
    BY <1>6, RepTaskNext, ReplayNext
  <2>3. QED
    BY <1>2, <2>1, <2>2
<1>7. CASE ReadRep \/ UNCHANGED vars
  <2>1. UNCHANGED <<checkedAt, task, now>>
    BY <1>7 DEF ReadRep, vars, gatewayVars
  <2>2. QED
    BY <1>2, <2>1
<1>8. QED
  BY <1>3, <1>4, <1>5, <1>6, <1>7 DEF Next, RiskThread

LEMMA CheckedApartStep ==
  ASSUME TypeInv, HandInv, Lives, Upheld, CheckedApart, [Next]_vars
  PROVE  CheckedApart'
<1>1. TaskTypes /\ now \in Nat
  BY DEF TypeInv
<1>2. \A n \in Numbers : Pledged(n)' => Pledged(n) \/ (Pass /\ n[1] = task.msg)
  <2>1. \A n \in Numbers : Pledged(n)' /\ ~Pledged(n) => Pass /\ n = <<task.msg, task.item>>
    BY PledgeStep
  <2>2. QED
    BY <2>1
<1>3. CASE task'.kind \notin {"check", "pass"}
  BY <1>3 DEF CheckedApart
<1>4. CASE Take
  <2>1. PICK r : r = Head(tradeQueue)
    OBVIOUS
  <2>2. CASE task' = [kind |-> "check", msg |-> r.msg, item |-> 1] /\ r.kind = "order"
    <3>1. task'.kind = "check" /\ task'.msg = r.msg /\ task'.item = 1
      BY <2>2
    <3>2. r.msg \in Messages
      BY <1>4, <2>1, <2>2, QueueTaken DEF Take, Own
    <3>3. \A i \in Items(r.msg) : ~(i < 1)
      BY <3>2, ItemsFacts
    <3>4. QED
      BY <3>1, <3>3 DEF CheckedApart
  <2>3. CASE task' = Idle
    BY <1>3, <2>3 DEF Idle
  <2>4. CASE task' = [kind |-> "rep", msg |-> r.msg, item |-> 1, accepted |-> r.accepted,
                      members |-> <<>>, knocks |-> <<>>]
    BY <1>3, <2>4
  <2>5. QED
    BY <1>4, <2>1, <2>2, <2>3, <2>4 DEF Take
<1>5. CASE Check
  <2>1. task \in CheckTask /\ task.kind = "check" /\ now' = now
    BY <1>1, <1>5, TaskKinds DEF Check, Frame
  <2>2. PICK m \in Messages, i \in Nat \ {0} : m = task.msg /\ i = task.item
    BY <2>1 DEF CheckTask, Own
  <2>3. \A n \in Numbers : Pledged(n)' => Pledged(n)
    <3>1. ~Pass
      BY <2>1 DEF Pass
    <3>2. QED
      BY <1>2, <3>1
  <2>4. PICK x : x = i + 1
    OBVIOUS
  <2>5. CASE task' = Idle
    BY <1>3, <2>5 DEF Idle
  <2>6. CASE i \in Items(m) /\ ~Fails(m, i) /\ task' = [task EXCEPT !.item = x]
    <3>1. task'.kind = "check" /\ task'.msg = m /\ task'.item = x
      BY <2>1, <2>2, <2>6 DEF CheckTask
    <3>2. SUFFICES ASSUME now \notin Auction, NEW j \in Items(m), j < x, NEW n \in Numbers, Pledged(n)
                   PROVE  ~Facing(<<m, j>>, n)
      BY <2>1, <2>3, <3>1 DEF CheckedApart
    <3>3. CASE j < i
      BY <2>1, <2>2, <3>2, <3>3 DEF CheckedApart
    <3>4. CASE j = i
      <4>1. PICK o : Upholds(o, n)
        BY <3>2 DEF Upheld
      <4>2. ~(Guards(m, i) /\ Refuses(m, i))
        BY <2>6, <3>2 DEF Fails
      <4>3. QED
        BY <3>2, <3>4, <4>1, <4>2, FacingRefused
    <3>5. j \in Nat
      BY <3>2, ItemsFacts
    <3>6. QED
      BY <2>2, <2>4, <3>2, <3>3, <3>4, <3>5
  <2>7. CASE i \notin Items(m) /\ task' = [kind |-> "pass", msg |-> m, item |-> 1]
    <3>1. task'.kind = "pass" /\ task'.msg = m
      BY <2>7
    <3>2. \A j \in Items(m) : j < i
      <4>1. Len(m.items) \in Nat
        BY ItemsFacts
      <4>2. QED
        BY <2>2, <2>7, <4>1 DEF Items
    <3>3. QED
      BY <2>1, <2>2, <2>3, <3>1, <3>2 DEF CheckedApart
  <2>8. QED
    BY <1>5, <2>2, <2>4, <2>5, <2>6, <2>7 DEF Check
<1>6. CASE Pass
  <2>1. task \in CheckTask /\ task.kind = "pass" /\ now' = now
    BY <1>1, <1>6, TaskKinds DEF Pass, Frame
  <2>2. PICK m \in Messages : m = task.msg
    BY <2>1 DEF CheckTask, Own
  <2>3. PICK x : x = task.item + 1
    OBVIOUS
  <2>4. CASE task' = Idle
    BY <1>3, <2>4 DEF Idle
  <2>5. CASE task' = [task EXCEPT !.item = x]
    <3>1. task'.kind = "pass" /\ task'.msg = m
      BY <2>1, <2>2, <2>5 DEF CheckTask
    <3>2. SUFFICES ASSUME now \notin Auction, NEW j \in Items(m), NEW n \in Numbers, Pledged(n)'
                   PROVE  ~Facing(<<m, j>>, n)
      BY <2>1, <3>1 DEF CheckedApart
    <3>3. CASE Pledged(n)
      BY <2>1, <2>2, <3>2, <3>3 DEF CheckedApart
    <3>4. CASE n[1] = m
      BY <3>4, NoneFacesItself
    <3>5. QED
      BY <1>2, <2>2, <3>2, <3>3, <3>4
  <2>6. QED
    BY <1>6, <2>3, <2>4, <2>5 DEF Pass
<1>7. CASE HandleRep \/ ReplayKnock
  <2>1. task'.kind \notin {"check", "pass"}
    BY <1>7, RepTaskNext, ReplayNext
  <2>2. QED
    BY <1>3, <2>1
<1>8. CASE (Surroundings /\ task = Idle) \/ ReadRep
  <2>1. task' = Idle
    BY <1>8, AroundFrame DEF ReadRep
  <2>2. QED
    BY <1>3, <2>1 DEF Idle
<1>9. CASE UNCHANGED vars
  <2>1. UNCHANGED <<task, now, life, caller, asyncState, asyncResult>>
    BY <1>9 DEF vars, gatewayVars, truthVars
  <2>2. \A n : Pledged(n)' <=> Pledged(n)
    BY <2>1 DEF Pledged
  <2>3. QED
    BY <2>1, <2>2 DEF CheckedApart
<1>10. QED
  BY <1>4, <1>5, <1>6, <1>7, <1>8, <1>9 DEF Next, RiskThread

LEMMA PledgesApartStep ==
  ASSUME TypeInv, HandInv, Lives, CheckedApart, CheckedNow, PledgesApart, [Next]_vars
  PROVE  PledgesApart'
<1>1. checkedAt \in [Messages -> Nat] /\ now \in Nat /\ TaskTypes
  BY DEF TypeInv
<1>2. ASSUME NEW n \in Numbers, Pledged(n) PROVE checkedAt'[n[1]] = checkedAt[n[1]]
  <2>1. CASE checkedAt' = checkedAt
    BY <2>1
  <2>2. CASE Take
    <3>1. PICK r : r = Head(tradeQueue)
      OBVIOUS
    <3>2. CASE r.kind = "order"
      <4>1. r = caller /\ asyncState = "running" /\ task = Idle
        BY <2>2, <3>1, <3>2, RequestTaken DEF Take, HandInv
      <4>2. verdict[r.msg] = "checking"
        BY <3>2, <4>1 DEF HandInv, ObjectsPassed
      <4>3. n[1] # r.msg
        BY <1>2, <4>1, <4>2 DEF Pledged, Lives, Idle
      <4>4. checkedAt' = [checkedAt EXCEPT ![r.msg] = now]
        BY <2>2, <3>1, <3>2 DEF Take
      <4>5. QED
        BY <1>1, <4>3, <4>4, NumberFacts
    <3>3. CASE r.kind # "order"
      BY <2>2, <3>1, <3>3 DEF Take
    <3>4. QED
      BY <3>2, <3>3
  <2>3. ~Take => checkedAt' = checkedAt
    BY AroundFrame, InsideFrame DEF Next, RiskThread
  <2>4. QED
    BY <2>1, <2>2, <2>3
<1>3. ASSUME Pass, NEW a \in Numbers, NEW b \in Numbers, a = <<task.msg, task.item>>,
             task.item \in Items(task.msg), Pledged(b) \/ b = a, Facing(a, b)
      PROVE  /\ Max({checkedAt'[a[1]], checkedAt'[b[1]]}) \in Auction
             /\ Max({checkedAt'[b[1]], checkedAt'[a[1]]}) \in Auction
  <2>1. Pledged(b)
    BY <1>3, NoneFacesItself
  <2>2. task.kind = "pass" /\ checkedAt' = checkedAt
    BY <1>3 DEF Pass
  <2>3. now \in Auction
    BY <1>3, <2>1, <2>2 DEF CheckedApart
  <2>4. PICK x \in Nat, y \in Nat : x = checkedAt[b[1]] /\ y = checkedAt[a[1]]
    BY <1>1, NumberFacts
  <2>5. a[1] = task.msg
    BY <1>3
  <2>6. y = now /\ x <= y
    BY <2>2, <2>4, <2>5, NumberFacts DEF CheckedNow
  <2>7. Max({x, y}) = y /\ Max({y, x}) = y
    BY <2>6, MaxOfTwo
  <2>8. QED
    BY <2>2, <2>3, <2>4, <2>6, <2>7
<1>4. SUFFICES ASSUME NEW a \in Numbers, NEW b \in Numbers, Pledged(a)', Pledged(b)', Opposed(a, b)
               PROVE  Max({checkedAt'[a[1]], checkedAt'[b[1]]}) \in Auction
  BY DEF PledgesApart, Opposed, Guards
<1>5. CASE Pledged(a) /\ Pledged(b)
  BY <1>2, <1>4, <1>5 DEF PledgesApart
<1>6. \A n \in Numbers : Pledged(n)' /\ ~Pledged(n) =>
        Pass /\ n = <<task.msg, task.item>> /\ task.item \in Items(task.msg)
  BY PledgeStep
<1>7. CASE ~Pledged(a)
  <2>1. Facing(a, b)
    BY <1>4 DEF Facing
  <2>2. Pass /\ a = <<task.msg, task.item>> /\ task.item \in Items(task.msg)
    BY <1>4, <1>6, <1>7
  <2>3. Pledged(b) \/ b = a
    BY <1>4, <1>6, <2>2
  <2>4. QED
    BY <1>3, <2>1, <2>2, <2>3
<1>8. CASE ~Pledged(b)
  <2>1. Facing(b, a)
    BY <1>4 DEF Facing
  <2>2. Pass /\ b = <<task.msg, task.item>> /\ task.item \in Items(task.msg)
    BY <1>4, <1>6, <1>8
  <2>3. Pledged(a) \/ a = b
    BY <1>4, <1>6, <2>2
  <2>4. QED
    BY <1>3, <2>1, <2>2, <2>3
<1>9. QED
  BY <1>5, <1>7, <1>8

LEMMA SelfInit ==
  ASSUME Init
  PROVE  Upheld /\ PledgesApart /\ CheckedApart /\ CheckedNow /\ again = {}
<1>1. /\ life = [n \in Numbers |-> "none"] /\ caller.kind = "idle" /\ task.kind = "idle"
      /\ checkedAt = [m \in Messages |-> 0] /\ now = 1 /\ again = {}
  BY DEF Init, Idle
<1>2. \A n \in Numbers : ~Pledged(n)
  BY <1>1 DEF Pledged
<1>3. QED
  BY <1>1, <1>2 DEF Upheld, PledgesApart, CheckedApart, CheckedNow

\* Two orders of the account that could trade with each other never work at the same
\* time, unless the later was sent in an auction; provided replies and withdrawals are
\* answered in time and the main thread pushes every trade once.
THEOREM RiskNoSelfKnock ==
  ASSUME ~LateReplies, WithdrawsHonoured, ~Duplicates, DistinctPrices
  PROVE  Spec => []NoSelfKnock
<1> DEFINE IInv == TypeInv /\ HandInv /\ ObjInv /\ Lives /\ Hearsay /\ again = {}
<1> DEFINE SInv == Upheld /\ PledgesApart /\ CheckedApart /\ CheckedNow
<1>1. Spec => []Within
  BY RiskCountsWithin
<1>2. Init => IInv /\ SInv
  BY TypeInvInit, HandInvInit, ObjInvInit, LivesInit, SelfInit
<1>3. IInv /\ [Next]_vars => IInv'
  BY TypeInvStep, HandInvStep, ObjInvStep, LivesStep, HearsayStep, AgainKept
<1>4. IInv /\ IInv' /\ Within' /\ SInv /\ [Next]_vars => SInv'
  BY UpheldStep, PledgesApartStep, CheckedApartStep, CheckedNowStep
<1>5. SInv => NoSelfKnock
  BY DEF PledgesApart, NoSelfKnock, Pledged, Opposed
<1>6. QED
  BY <1>1, <1>2, <1>3, <1>4, <1>5, PTL DEF Spec
=============================================================================

--------------------------- MODULE FutureMasterProofs ---------------------------
(***************************************************************************)
(* Type correctness of FutureMaster and the books of InnerFutureMaster:    *)
(* for every account, whatever is ordered and however the counter answers, *)
(* what is frozen for closing is what closing orders may still take.       *)
(*                                                                         *)
(* The invariant has three layers.  Where the items are: every item is in  *)
(* at most one place (a request in the loop, the counter's queue, one      *)
(* reply), and its stage tells in which.  The counter's side: the orders   *)
(* at work never exceed what the account really holds.  The books: what is *)
(* frozen is the sum of what is unsettled (Ledger), and what is booked is  *)
(* what is really held up to the trades not yet told (Mirror).  The sums   *)
(* change one item at a time, so that a step is proved with the lemmas on  *)
(* the change of a sum in SumTheorems.                                     *)
(*                                                                         *)
(* On it rests what the flags promise that the master derived itself       *)
(* (QueueCovered, OpeningInv).                                             *)
(***************************************************************************)
EXTENDS FutureMaster, SumTheorems

\* The markets where yesterday's and today's positions are closed by different flags.
ByDay == {"SHFE", "INE", "CFFEX"}

(* On the others a client never names the day: the code does not tell the days apart
   there ("不区分平昨和平今", inner_future_master.cc:346), and a volume frozen for
   one day would be matched against both. *)

PlainFlags ==
  \A o \in Items : Market(o) \notin ByDay => Asked(o) \in {"auto", "open", "close"}

(* Where there is a limit of openings, no request with an item of CFFEX has a closing
   flag of the client's own.  The limit throws in the middle of a request, and the
   reply releases items that were never frozen: without this the books are wrong (see
   the run future_refusal). *)
LimitSparesClosing ==
  MaxTodayOpening >= 0 =>
    \A o, x \in Items : o[1] = x[1] /\ Market(o) = "CFFEX" => Asked(x) \in {"auto", "open"}

-----------------------------------------------------------------------------
(* Where the items are. *)

Distinct(s) == \A i, j \in DOMAIN s : s[i] = s[j] => i = j
Apart(s, t) == \A i \in DOMAIN s, j \in DOMAIN t : s[i] # t[j]
Open == {"new", "frozen", "refused"}

\* An item waits for the counter once, and one that waits has been sent.
CounterWhereabouts ==
  /\ Distinct(toCounter)
  /\ \A i \in DOMAIN toCounter : stage[toCounter[i]] = "sent"

\* An item is in one reply at most, and then neither at the counter nor at work.
ReplyWhereabouts ==
  /\ \A p \in replies :
       /\ Distinct(p)
       /\ \A i \in DOMAIN p : stage[p[i]] \in Open /\ p[i][1] \in sent
  /\ \A p, q \in replies : p = q \/ Apart(p, q)

\* The items of the loop under way are dealt with up to next and untouched from there,
\* belong to one request, and are in no reply.
TaskWhereabouts ==
  /\ Distinct(task.items) /\ task.next >= 1
  /\ task.kind = "idle" => task.items = <<>>
  /\ \A i \in DOMAIN task.items :
       /\ task.items[i][1] \in sent
       /\ task.kind = "order" /\ i < task.next => stage[task.items[i]] = "frozen"
       /\ task.kind = "order" /\ i >= task.next => stage[task.items[i]] = "new"
       /\ task.kind = "reply" /\ i < task.next => stage[task.items[i]] = "ended"
       /\ task.kind = "reply" /\ i >= task.next => stage[task.items[i]] \in Open
  /\ task.kind = "order" =>
       \A i, j \in DOMAIN task.items : task.items[i][1] = task.items[j][1]
  /\ \A p \in replies : Apart(p, task.items)

\* What the stage of an item says of its volume at work, its knocks and its flag.
ItemInv ==
  \A o \in Items :
    /\ o[1] \notin sent => stage[o] = "new"
    /\ stage[o] # "working" => rest[o] = 0 /\ \A k \in pushed : k.item # o
    /\ stage[o] = "new" => ocFlag[o] = Asked(o)
    /\ stage[o] \notin {"new", "ended"} =>
         /\ ocFlag[o] # "auto"
         /\ Market(o) = "CFFEX" => ocFlag[o] \in {"open", "close"}

\* No flag names a day where the days are not told apart.
PlainInv == \A o \in Items : Market(o) \notin ByDay => ocFlag[o] \in {"auto", "open", "close"}

\* An item that a reply would release without its having been frozen closes nothing.
Harmless(o) == stage[o] = "new" => ocFlag[o] \in {"auto", "open"}
ThrownInv ==
  /\ \A p \in replies : \A i \in DOMAIN p : Harmless(p[i])
  /\ task.kind = "reply" => \A i \in DOMAIN task.items : Harmless(task.items[i])

\* A knock carries the number of its item and the volume that was left before it, so
\* that no two have the same number.
KnockInv ==
  /\ IsFiniteSet(pushed)
  /\ \A k \in pushed : k.no[1] = k.item /\ k.no[2] > rest[k.item]
  /\ \A k, l \in pushed : k.no = l.no => k = l
  /\ \A n \in knocks : \E k \in pushed : k.no = n

Whereabouts ==
  /\ TypeOK /\ CounterWhereabouts /\ ReplyWhereabouts /\ TaskWhereabouts
  /\ ItemInv /\ KnockInv

-----------------------------------------------------------------------------
(* The counter's side. *)

WorkingOf(o, c, s, b) == IF Closes(o, c, s, b) THEN rest[o] ELSE 0
Working(c, s, b) == SumFunctionOnSet([o \in Items |-> WorkingOf(o, c, s, b)], Items)
\* The orders at work never want to close more than is really held.
HeldCovers ==
  \A c \in Codes, s \in Sides, b \in {"yd", "td", "both"} :
     Working(c, s, b) <= RealBucket(held[c][s], b)
\* Where the days are not told apart, a freeze or a release takes from both days what
\* is there: today's part is never more than frozen, and never more than available.
TotalsInv ==
  \A c \in Codes, s \in Sides : MarketOf[c] \notin ByDay =>
     position[c][s].tdClosing >= 0 /\ TdAvailable(position[c][s]) >= 0

-----------------------------------------------------------------------------
(* The books. *)

\* What item o may still take of a position.
Due(o, c, s, b) == IF Closes(o, c, s, b) THEN Unsettled(o) ELSE 0
Outstanding(c, s, b) == SumFunctionOnSet([o \in Items |-> Due(o, c, s, b)], Items)
\* What is frozen is what is due, day by day where the days are told apart.
Ledger ==
  \A c \in Codes, s \in Sides :
    LET p == position[c][s]
    IN IF MarketOf[c] \in ByDay
       THEN /\ p.ydClosing = Outstanding(c, s, "yd")
            /\ p.tdClosing = Outstanding(c, s, "td")
       ELSE p.ydClosing + p.tdClosing = Outstanding(c, s, "both")

\* The trades of item o the broker has not been told of.
UntoldTrades(o) ==
  SumFunctionOnSet([k \in pushed |-> k.volume],
                   {k \in pushed : k.item = o /\ k.trade /\ k.no \notin knocks})
UntoldClosedOf(o, c, s, b) == IF Closes(o, c, s, b) THEN UntoldTrades(o) ELSE 0
UntoldClosed(c, s, b) == SumFunctionOnSet([o \in Items |-> UntoldClosedOf(o, c, s, b)], Items)
UntoldOpenedOf(o, c, s) ==
  IF Code(o) = c /\ ocFlag[o] = "open" /\ Side(Bs(o), "open") = s THEN UntoldTrades(o) ELSE 0
UntoldOpened(c, s) == SumFunctionOnSet([o \in Items |-> UntoldOpenedOf(o, c, s)], Items)
Yd(p) == p.ydInit - p.ydClose
Td(p) == p.tdInit + p.tdOpen - p.tdClose
\* What is booked is what is really held, up to the trades not yet told.
Mirror ==
  \A c \in Codes, s \in Sides :
    LET p == position[c][s]
        h == held[c][s]
    IN IF MarketOf[c] \in ByDay
       THEN /\ h.yd = Yd(p) - UntoldClosed(c, s, "yd")
            /\ h.td = Td(p) + UntoldOpened(c, s) - UntoldClosed(c, s, "td")
       ELSE h.yd + h.td = Yd(p) + Td(p) + UntoldOpened(c, s) - UntoldClosed(c, s, "both")

-----------------------------------------------------------------------------
(* Constants. *)

Buckets == {"none", "yd", "td", "both"}

\* An item, and what it asks for, has the type the assumptions give the request.
LEMMA ItemFacts ==
  ASSUME NEW o \in Items
  PROVE  /\ o = <<o[1], o[2]>> /\ o[1] \in Requests /\ o[2] \in DOMAIN Request[o[1]].items
         /\ Code(o) \in Codes /\ Market(o) \in Markets /\ Volume(o) \in Nat \ {0}
         /\ Asked(o) \in Flags /\ Bs(o) \in {"buy", "sell"}
<1>1. PICK r \in Requests : \E i \in DOMAIN Request[r].items : o = <<r, i>>
  BY DEF Items
<1>5. PICK i \in DOMAIN Request[r].items : o = <<r, i>>
  BY <1>1
<1>2. Request[r] \in RequestType
  BY FutureMasterAssumption
<1> DEFINE ItemType == [code: Codes, oc: Flags, volume: Nat \ {0}]
           items == Request[r].items
<1>9. items \in Seq(ItemType)
  BY <1>2 DEF RequestType
<1>3. items[i] \in ItemType
  <2>1. i \in DOMAIN items
    OBVIOUS
  <2> HIDE DEF items, ItemType
  <2>2. QED
    BY <1>9, <2>1
<1>4. o[1] = r /\ o[2] = i /\ Request[r].bs \in {"buy", "sell"}
  BY <1>5, <1>2 DEF RequestType
<1> DEFINE item == Request[r].items[i]
<1>6. item.code \in Codes /\ item.oc \in Flags /\ item.volume \in Nat \ {0}
  BY <1>3
<1>7. MarketOf[item.code] \in Markets
  BY <1>6, FutureMasterAssumption
<1>8. QED
  BY <1>5, <1>4, <1>6, <1>7 DEF Code, Market, Volume, Asked, Bs

Of(r) == {<<r, i>> : i \in DOMAIN Request[r].items}

\* There are finitely many items: sums over them are defined.
LEMMA ItemsFinite == IsFiniteSet(Items)
<1>1. ASSUME NEW r \in Requests PROVE IsFiniteSet(Of(r))
  <2>1. Request[r].items \in Seq([code: Codes, oc: Flags, volume: Nat \ {0}])
    BY FutureMasterAssumption DEF RequestType
  <2>2. IsFiniteSet({r} \X (1 .. Len(Request[r].items)))
    <3>1. Len(Request[r].items) \in Int
      BY <2>1
    <3>2. IsFiniteSet({r})
      BY FS_Singleton
    <3>3. IsFiniteSet(1 .. Len(Request[r].items))
      BY <3>1, FS_Interval
    <3>4. QED
      BY <3>2, <3>3, FS_Product
  <2>3. Of(r) \in SUBSET ({r} \X (1 .. Len(Request[r].items)))
    BY <2>1 DEF Of
  <2>4. QED
    BY <2>2, <2>3, FS_Subset
<1>2. IsFiniteSet({Of(r) : r \in Requests})
  <2> DEFINE f == [r \in Requests |-> Of(r)]
             R == {Of(r) : r \in Requests}
  <2>1. f \in [Requests -> R] /\ \A x \in R : \E r \in Requests : f[r] = x
    OBVIOUS
  <2>2. f \in Surjection(Requests, R)
    BY <2>1 DEF Surjection
  <2>3. IsFiniteSet(R)
    <3> HIDE DEF f, R
    <3>1. QED
      BY <2>2, FS_Surjection, FutureMasterAssumption
  <2>4. QED
    BY <2>3
<1>3. Items = UNION {Of(r) : r \in Requests}
  BY DEF Items, Of
<1>4. \A T \in {Of(r) : r \in Requests} : IsFiniteSet(T)
  BY <1>1
<1>5. QED
  BY <1>2, <1>3, <1>4, FS_UNION

\* The items of a request are distinct and all of that request.
LEMMA ItemsOfFacts ==
  ASSUME NEW r \in Requests
  PROVE  /\ ItemsOf(r) \in Seq(Items) /\ Distinct(ItemsOf(r))
         /\ \A i \in DOMAIN ItemsOf(r) : ItemsOf(r)[i][1] = r
<1>1. Request[r].items \in Seq([code: Codes, oc: Flags, volume: Nat \ {0}])
  BY FutureMasterAssumption DEF RequestType
<1>2. DOMAIN Request[r].items = 1 .. Len(Request[r].items) /\ Len(Request[r].items) \in Nat
  BY <1>1
<1>3. \A i \in DOMAIN Request[r].items : <<r, i>> \in Items
  BY DEF Items
<1>4. QED
  BY <1>1, <1>2, <1>3 DEF ItemsOf, Distinct

\* GetPosition names one of the two sides of a code.
LEMMA SideType == \A bs, oc : Side(bs, oc) \in Sides
  BY DEF Side, Sides

\* A flag closes yesterday's position, today's, both or nothing.
LEMMA BucketType == \A m, oc : Bucket(m, oc) \in Buckets
  BY DEF Bucket, Buckets

\* SHFE, INE and CFFEX close one day or the other, DCE and CZCE both together.
LEMMA BucketByDay ==
  ASSUME NEW m \in Markets, NEW oc \in Flags
  PROVE  /\ m \in ByDay => Bucket(m, oc) \in {"none", "yd", "td"}
         /\ m \notin ByDay /\ oc \in {"auto", "open", "close"} => Bucket(m, oc) \in {"none", "both"}
         /\ Bucket(m, oc) = "none" <=> oc \in {"auto", "open"}
         /\ m = "CFFEX" /\ oc = "close" => Bucket(m, oc) = "yd"
  BY DEF Markets, Flags, ByDay, Bucket

-----------------------------------------------------------------------------
(* A position under an update. *)

\* The fields of a position and what they leave available.
LEMMA PositionFields ==
  ASSUME NEW p \in Position
  PROVE  /\ p.ydInit \in Nat /\ p.ydClosing \in Int /\ p.ydClose \in Nat /\ p.tdInit \in Nat
         /\ p.tdClosing \in Int /\ p.tdClose \in Nat /\ p.tdOpen \in Nat
         /\ YdAvailable(p) \in Int /\ TdAvailable(p) \in Int
  BY DEF Position, YdAvailable, TdAvailable

\* Update with an order volume leaves a position.
LEMMA FreezeType ==
  ASSUME NEW p \in Position, NEW b \in Buckets, NEW v \in Nat
  PROVE  Freeze(p, b, v) \in Position
<1> DEFINE td == Least(TdAvailable(p), v)
           yc == p.ydClosing + (v - td)
           tc == p.tdClosing + td
<1>1. /\ p.ydClosing + v \in Int /\ p.tdClosing + v \in Int /\ td \in Int
      /\ yc \in Int /\ tc \in Int
  BY PositionFields DEF Least
<1>2. CASE b \in {"none", "yd", "td"}
  BY <1>1, <1>2 DEF Freeze, Position
<1>3. CASE b = "both"
  <2>1. Freeze(p, b, v) = [p EXCEPT !.tdClosing = tc, !.ydClosing = yc]
    BY <1>3 DEF Freeze
  <2> HIDE DEF tc, yc
  <2>2. [p EXCEPT !.tdClosing = tc, !.ydClosing = yc] \in Position
    BY <1>1 DEF Position
  <2>3. QED
    BY <2>1, <2>2
<1>4. QED
  BY <1>2, <1>3 DEF Buckets

\* Update with a withdraw volume leaves a position.
LEMMA ReleaseType ==
  ASSUME NEW p \in Position, NEW b \in Buckets, NEW v \in Nat
  PROVE  Release(p, b, v) \in Position
<1> DEFINE td == Least(p.tdClosing, v)
           yc == p.ydClosing - (v - td)
           tc == p.tdClosing - td
<1>1. /\ Deduct(p.ydClosing, v) \in Int /\ Deduct(p.tdClosing, v) \in Int
      /\ yc \in Int /\ tc \in Int
  BY PositionFields DEF Least, Deduct
<1>2. CASE b \in {"none", "yd", "td"}
  BY <1>1, <1>2 DEF Release, Position
<1>3. CASE b = "both"
  <2>1. Release(p, b, v) = [p EXCEPT !.tdClosing = tc, !.ydClosing = yc]
    BY <1>3 DEF Release
  <2> HIDE DEF tc, yc
  <2>2. [p EXCEPT !.tdClosing = tc, !.ydClosing = yc] \in Position
    BY <1>1 DEF Position
  <2>3. QED
    BY <2>1, <2>2
<1>4. QED
  BY <1>2, <1>3 DEF Buckets

\* Update with a match volume leaves a position, given that today's frozen volume is not
\* negative.
LEMMA MatchType ==
  ASSUME NEW p \in Position, NEW b \in Buckets, NEW v \in Nat, NEW oc,
         b = "both" => p.tdClosing >= 0
  PROVE  Match(p, oc, b, v) \in Position
<1> DEFINE td == Least(p.tdClosing, v)
           yc == p.ydClosing - (v - td)
           tc == p.tdClosing - td
           ydc == p.ydClose + (v - td)
           tdc == p.tdClose + td
<1>1. /\ Deduct(p.ydClosing, v) \in Int /\ Deduct(p.tdClosing, v) \in Int
      /\ p.ydClose + v \in Nat /\ p.tdClose + v \in Nat /\ p.tdOpen + v \in Nat
  BY PositionFields DEF Deduct
<1>2. CASE b = "none"
  BY <1>1, <1>2 DEF Match, Position
<1>3. CASE b = "yd"
  <2>1. Match(p, oc, b, v) = [p EXCEPT !.ydClosing = Deduct(p.ydClosing, v),
                                       !.ydClose = p.ydClose + v]
    BY <1>3 DEF Match
  <2>2. [p EXCEPT !.ydClosing = Deduct(p.ydClosing, v), !.ydClose = p.ydClose + v] \in Position
    BY <1>1 DEF Position
  <2>3. QED
    BY <2>1, <2>2
<1>4. CASE b = "td"
  <2>1. Match(p, oc, b, v) = [p EXCEPT !.tdClosing = Deduct(p.tdClosing, v),
                                       !.tdClose = p.tdClose + v]
    BY <1>4 DEF Match
  <2>2. [p EXCEPT !.tdClosing = Deduct(p.tdClosing, v), !.tdClose = p.tdClose + v] \in Position
    BY <1>1 DEF Position
  <2>3. QED
    BY <2>1, <2>2
<1>5. CASE b = "both"
  <2>1. yc \in Int /\ tc \in Int /\ ydc \in Nat /\ tdc \in Nat
    BY <1>5, PositionFields DEF Least
  <2>2. Match(p, oc, b, v) = [p EXCEPT !.tdClosing = tc, !.tdClose = tdc,
                                       !.ydClosing = yc, !.ydClose = ydc]
    BY <1>5 DEF Match
  <2> HIDE DEF tc, yc, tdc, ydc
  <2>3. [p EXCEPT !.tdClosing = tc, !.tdClose = tdc, !.ydClosing = yc, !.ydClose = ydc]
          \in Position
    BY <2>1 DEF Position
  <2>4. QED
    BY <2>2, <2>3
<1>6. QED
  BY <1>2, <1>3, <1>4, <1>5 DEF Buckets

\* GetAutoOcFlag never answers "auto"; on CFFEX, DCE and CZCE it answers open or close.
LEMMA FlagType ==
  ASSUME NEW o \in Items
  PROVE  /\ AutoOcFlag(o) \in Flags \ {"auto"}
         /\ Market(o) = "CFFEX" => AutoOcFlag(o) \in {"open", "close"}
         /\ PlainFlags /\ Market(o) \notin ByDay => AutoOcFlag(o) \in {"open", "close"}
<1>1. Asked(o) \in Flags /\ Market(o) \in Markets
  BY ItemFacts
<1>2. ShfeFlag(o) \in {"closeYesterday", "closeToday", "open"}
  BY DEF ShfeFlag
<1>3. CffexFlag(o) \in {"close", "open"} /\ DceFlag(o) \in {"close", "open"}
  BY DEF CffexFlag, DceFlag
<1>4. QED
  BY <1>1, <1>2, <1>3 DEF AutoOcFlag, Flags, Markets, ByDay, PlainFlags

-----------------------------------------------------------------------------
(* The parts every action shares. *)

\* Update touches the position of one code and side.
LEMMA UpdateFacts ==
  ASSUME TypeOK, NEW o \in Items, NEW oc, NEW p \in Position, UpdatePosition(o, oc, p)
  PROVE  /\ position' \in [Codes -> [Sides -> Position]]
         /\ \A c \in Codes, s \in Sides :
              position'[c][s] = IF c = Code(o) /\ s = Side(Bs(o), oc) THEN p ELSE position[c][s]
<1>1. Code(o) \in Codes /\ Side(Bs(o), oc) \in Sides
  BY ItemFacts, SideType
<1>2. position \in [Codes -> [Sides -> Position]]
  BY DEF TypeOK
<1>3. QED
  BY <1>1, <1>2 DEF UpdatePosition

\* The position an item closes or opens.
LEMMA PositionOfType ==
  ASSUME TypeOK, NEW o \in Items, NEW oc
  PROVE  PositionOf(o, oc) \in Position
<1>1. Code(o) \in Codes /\ Side(Bs(o), oc) \in Sides
  BY ItemFacts, SideType
<1>2. QED
  BY <1>1 DEF TypeOK, PositionOf

\* open_cache_ grows by what is ordered to open and never shrinks.
LEMMA CountFacts ==
  ASSUME TypeOK, NEW o \in Items, NEW oc, NEW v \in Nat, NEW w \in Nat,
         v = 0 \/ w = 0, CountOpening(o, oc, v, w)
  PROVE  /\ openCache' \in [Types -> Nat]
         /\ \A t \in Types :
              openCache'[t] = IF oc = "open" /\ ForbidClosingToday /\ t = TypeOf[Code(o)]
                              THEN openCache[t] + v ELSE openCache[t]
<1>1. Code(o) \in Codes
  BY ItemFacts
<1>2. TypeOf[Code(o)] \in Types \cup {NoType} /\ NoType \notin Types
  BY <1>1, FutureMasterAssumption
<1>3. v - (IF w > 0 THEN v ELSE 0) = v
  OBVIOUS
<1>4. openCache \in [Types -> Nat]
  BY DEF TypeOK
<1>5. CASE oc = "open" /\ ForbidClosingToday /\ TypeOf[Code(o)] # NoType
  <2> DEFINE t == TypeOf[Code(o)]
  <2>1. openCache' = [openCache EXCEPT ![t] = @ + v - (IF w > 0 THEN v ELSE 0)]
    BY <1>5 DEF CountOpening
  <2>2. openCache[t] + v - (IF w > 0 THEN v ELSE 0) = openCache[t] + v /\ t \in Types
        /\ openCache[t] + v \in Nat
    BY <1>2, <1>4, <1>5
  <2> HIDE DEF t
  <2>3. openCache' = [openCache EXCEPT ![t] = openCache[t] + v]
    BY <2>1, <2>2
  <2>4. QED
    BY <1>4, <1>5, <2>2, <2>3 DEF t
<1>6. CASE ~ (oc = "open" /\ ForbidClosingToday /\ TypeOf[Code(o)] # NoType)
  BY <1>2, <1>4, <1>6 DEF CountOpening
<1>7. QED
  BY <1>5, <1>6

\* Inside a loop there is a current item.
LEMMA CurrentType ==
  ASSUME TypeOK, NEW kind, Looping(kind)
  PROVE  /\ Current \in Items /\ task.next \in DOMAIN task.items /\ task.items \in Seq(Items)
         /\ task.next \in Nat /\ task.kind = kind /\ Current = task.items[task.next]
<1>1. task.items \in Seq(Items) /\ task.next \in Nat
  BY DEF TypeOK, Task
<1>2. task.next \in DOMAIN task.items /\ task.kind = kind
  BY DEF Looping
<1>3. QED
  BY <1>1, <1>2 DEF Current

\* NextItem moves the loop on and nothing else.
LEMMA NextItemFacts ==
  ASSUME TypeOK, NextItem
  PROVE  /\ task' \in Task /\ task'.kind = task.kind /\ task'.items = task.items
         /\ task'.next = task.next + 1 /\ task.next \in Nat
<1>1. /\ task = [kind |-> task.kind, items |-> task.items, next |-> task.next]
      /\ task.kind \in {"idle", "order", "reply"} /\ task.items \in Seq(Items) /\ task.next \in Nat
  BY DEF TypeOK, Task
<1>2. task' = [kind |-> task.kind, items |-> task.items, next |-> task.next + 1]
  BY <1>1 DEF NextItem
<1>3. QED
  BY <1>1, <1>2 DEF Task

\* What an order may still trade is in the bucket it closes.
LEMMA CoversTrade ==
  ASSUME TypeOK, HeldCovers, NEW o \in Items, ocFlag[o] # "open", ocFlag[o] # "auto",
         NEW v \in Nat, v <= rest[o]
  PROVE  LET b == Bucket(Market(o), ocFlag[o])
         IN b \in {"yd", "td", "both"}
            /\ v <= RealBucket(held[Code(o)][Side(Bs(o), ocFlag[o])], b)
<1> DEFINE b == Bucket(Market(o), ocFlag[o])
           c == Code(o)
           s == Side(Bs(o), ocFlag[o])
           f == [x \in Items |-> WorkingOf(x, c, s, b)]
<1>1. c \in Codes /\ s \in Sides /\ Market(o) \in Markets /\ ocFlag[o] \in Flags
  BY ItemFacts, SideType DEF TypeOK
<1>2. b \in {"yd", "td", "both"}
  BY <1>1, BucketByDay, BucketType DEF Buckets
<1>3. Closes(o, c, s, b)
  BY DEF Closes, Market
<1>4. \A x \in Items : f[x] \in Nat
  BY DEF TypeOK, WorkingOf
<1>5. f[o] = rest[o]
  BY <1>3 DEF WorkingOf
<1>6. f[o] <= SumFunctionOnSet(f, Items)
  <2> HIDE DEF f
  <2>1. QED
    BY <1>4, ItemsFinite, SumAtLeast
<1>7. SumFunctionOnSet(f, Items) <= RealBucket(held[c][s], b)
  BY <1>1, <1>2 DEF HeldCovers, Working
<1>8. /\ SumFunctionOnSet(f, Items) \in Nat /\ RealBucket(held[c][s], b) \in Nat
      /\ rest[o] \in Nat
  <2>1. SumFunctionOnSet(f, Items) \in Nat
    <3> HIDE DEF f
    <3>1. QED
      BY <1>4, ItemsFinite, SumNat
  <2>2. held[c][s] \in Holding
    BY <1>1 DEF TypeOK
  <2>3. RealBucket(held[c][s], b) \in Nat
    BY <1>2, <2>2 DEF RealBucket, Holding
  <2>4. QED
    BY <2>1, <2>3 DEF TypeOK
<1> HIDE DEF f, b, c, s
<1>9. v <= RealBucket(held[c][s], b)
  BY <1>5, <1>6, <1>7, <1>8
<1>10. QED
  BY <1>2, <1>9 DEF b, c, s

\* A trade takes its volume out of the bucket the order closes, or adds it to today's.
LEMMA TradedFacts ==
  ASSUME TypeOK, ItemInv, HeldCovers, NEW o \in Items, NEW v \in Nat \ {0}, v <= rest[o]
  PROVE  LET s == Side(Bs(o), ocFlag[o])
             b == Bucket(Market(o), ocFlag[o])
             h == held[Code(o)][s]
             n == Traded(h, ocFlag[o], b, v)
         IN /\ n \in Holding /\ h \in Holding /\ ocFlag[o] # "auto" /\ stage[o] = "working"
            /\ ocFlag[o] = "open" => n.yd = h.yd /\ n.td = h.td + v
            /\ ocFlag[o] # "open" =>
                 /\ b \in {"yd", "td", "both"} /\ n.yd + n.td = h.yd + h.td - v
                 /\ b = "yd" => n.yd = h.yd - v /\ n.td = h.td
                 /\ b = "td" => n.td = h.td - v /\ n.yd = h.yd
<1> DEFINE s == Side(Bs(o), ocFlag[o])
           b == Bucket(Market(o), ocFlag[o])
           h == held[Code(o)][s]
           n == Traded(h, ocFlag[o], b, v)
<1>1. rest[o] \in Nat /\ stage[o] = "working" /\ ocFlag[o] # "auto"
  BY DEF TypeOK, ItemInv
<1>2. h \in Holding
  <2>1. Code(o) \in Codes /\ s \in Sides
    BY ItemFacts, SideType
  <2>2. QED
    BY <2>1 DEF TypeOK
<1>3. h = [yd |-> h.yd, td |-> h.td] /\ h.yd \in Nat /\ h.td \in Nat
  BY <1>2 DEF Holding
<1>4. CASE ocFlag[o] = "open"
  <2>1. n = [h EXCEPT !.td = @ + v]
    <3>1. b = "none"
      BY <1>4 DEF Bucket
    <3> HIDE DEF h, b
    <3>2. QED
      BY <1>4, <3>1 DEF Traded
  <2>2. QED
    <3> HIDE DEF h, n
    <3>1. n \in Holding /\ n.yd = h.yd /\ n.td = h.td + v
      BY <1>2, <1>3, <2>1 DEF Holding
    <3>2. QED
      BY <1>1, <1>2, <1>4, <3>1 DEF h, n
<1>5. CASE ocFlag[o] # "open"
  <2>1. b \in {"yd", "td", "both"} /\ v <= RealBucket(h, b)
    BY <1>1, <1>5, CoversTrade
  <2>2. CASE b = "yd"
    <3>1. n = [h EXCEPT !.yd = @ - v] /\ v <= h.yd
      BY <1>5, <2>1, <2>2 DEF Traded, RealBucket
    <3> HIDE DEF h, n
    <3>2. n \in Holding /\ n.yd = h.yd - v /\ n.td = h.td /\ n.yd + n.td = h.yd + h.td - v
      BY <1>2, <1>3, <3>1 DEF Holding
    <3>3. QED
      BY <1>1, <1>2, <1>5, <2>2, <3>2 DEF h, n
  <2>3. CASE b = "td"
    <3>1. n = [h EXCEPT !.td = @ - v] /\ v <= h.td
      BY <1>5, <2>1, <2>3 DEF Traded, RealBucket
    <3> HIDE DEF h, n
    <3>2. n \in Holding /\ n.td = h.td - v /\ n.yd = h.yd /\ n.yd + n.td = h.yd + h.td - v
      BY <1>2, <1>3, <3>1 DEF Holding
    <3>3. QED
      BY <1>1, <1>2, <1>5, <2>3, <3>2 DEF h, n
  <2>4. CASE b = "both"
    <3>1. /\ n = [yd |-> h.yd - (v - Least(h.td, v)), td |-> h.td - Least(h.td, v)]
          /\ v <= h.yd + h.td
      BY <1>5, <2>1, <2>4 DEF Traded, RealBucket
    <3> HIDE DEF h, n
    <3>2. h.yd - (v - Least(h.td, v)) \in Nat /\ h.td - Least(h.td, v) \in Nat
          /\ Least(h.td, v) \in Nat
      BY <1>3, <3>1 DEF Least
    <3>3. n \in Holding /\ n.yd + n.td = h.yd + h.td - v
      BY <1>3, <3>1, <3>2 DEF Holding
    <3>4. QED
      BY <1>1, <1>2, <1>5, <2>4, <3>3 DEF h, n
  <2>5. QED
    BY <2>1, <2>2, <2>3, <2>4
<1>6. QED
  BY <1>4, <1>5

-----------------------------------------------------------------------------
(* Types. *)

\* Proof by cases over the steps of the broker and the counter.
LEMMA NextCases ==
  ASSUME [Next]_vars,
         NEW G,
         UNCHANGED vars => G,
         \A r \in Requests : SendTradeOrder(r) => G,
         FreezeItem => G, Throw => G, OnTradeOrder => G, HandleTradeOrderRep => G,
         ReleaseItem => G, ReplyDone => G, SendTradeKnock => G,
         CounterAccepts => G, CounterRefuses => G,
         \A o \in Items : (\E v \in 1 .. Volume(o) : Trade(o, v)) => G,
         \A o \in Items : Withdraw(o) => G
  PROVE  G
  BY DEF Next, Broker, Counter

\* Every step keeps the types.
LEMMA TypeStep ==
  ASSUME TypeOK, TaskWhereabouts, ItemInv, PlainInv, HeldCovers, TotalsInv, [Next]_vars
  PROVE  TypeOK'
<1>1. ASSUME UNCHANGED vars PROVE TypeOK'
  BY <1>1 DEF TypeOK, vars, masterVars, counterVars
<1>2. ASSUME NEW r \in Requests, SendTradeOrder(r) PROVE TypeOK'
  <2>1. task' \in Task
    BY <1>2, ItemsOfFacts DEF SendTradeOrder, Task
  <2>2. QED
    BY <1>2, <2>1 DEF SendTradeOrder, TypeOK, masterVars, counterVars
<1>3. ASSUME FreezeItem PROVE TypeOK'
  <2>1. Current \in Items /\ task.next \in Nat
    BY <1>3, CurrentType DEF FreezeItem
  <2> DEFINE o == Current
             oc == AutoOcFlag(o)
             p == Freeze(PositionOf(o, oc), Bucket(Market(o), oc), Volume(o))
  <2>2. oc \in Flags /\ Volume(o) \in Nat
    BY <2>1, ItemFacts, FlagType
  <2>3. p \in Position
    BY <2>1, <2>2, PositionOfType, BucketType, FreezeType
  <2>4. UpdatePosition(o, oc, p) /\ CountOpening(o, oc, Volume(o), 0)
    BY <1>3 DEF FreezeItem, HandleOrderReq
  <2>5. position' \in [Codes -> [Sides -> Position]]
    <3> HIDE DEF o, oc, p
    <3>1. QED
      BY <2>1, <2>3, <2>4, UpdateFacts DEF o
  <2>6. openCache' \in [Types -> Nat]
    <3> HIDE DEF oc
    <3>1. QED
      BY <2>1, <2>2, <2>4, CountFacts
  <2>7. ocFlag' \in [Items -> Flags] /\ stage' \in [Items -> Stages]
    BY <1>3, <2>1, <2>2 DEF FreezeItem, TypeOK, Stages
  <2>8. task' \in Task
    BY <1>3, NextItemFacts DEF FreezeItem
  <2>9. QED
    BY <1>3, <2>5, <2>6, <2>7, <2>8 DEF FreezeItem, TypeOK, counterVars
<1>4. ASSUME Throw PROVE TypeOK'
  <2>1. task' \in Task /\ replies' \subseteq Seq(Items)
    BY <1>4 DEF Throw, TypeOK, Task, Idle
  <2>2. QED
    BY <1>4, <2>1 DEF Throw, TypeOK, masterVars, counterVars
<1>5. ASSUME OnTradeOrder PROVE TypeOK'
  <2>1. task' \in Task /\ toCounter' \in Seq(Items)
    BY <1>5 DEF OnTradeOrder, TypeOK, Task, Idle
  <2>2. stage' \in [Items -> Stages]
    BY <1>5 DEF OnTradeOrder, TypeOK, Stages
  <2>3. QED
    BY <1>5, <2>1, <2>2 DEF OnTradeOrder, TypeOK, masterVars
<1>6. ASSUME HandleTradeOrderRep PROVE TypeOK'
  <2>1. PICK rep \in replies :
          replies' = replies \ {rep} /\ task' = [kind |-> "reply", items |-> rep, next |-> 1]
    BY <1>6 DEF HandleTradeOrderRep
  <2>2. task' \in Task /\ replies' \subseteq Seq(Items)
    BY <2>1 DEF TypeOK, Task
  <2>3. QED
    BY <1>6, <2>2 DEF HandleTradeOrderRep, TypeOK, masterVars, counterVars
<1>7. ASSUME ReleaseItem PROVE TypeOK'
  <2>1. Current \in Items /\ task.next \in Nat
    BY <1>7, CurrentType DEF ReleaseItem
  <2> DEFINE o == Current
             oc == ocFlag[o]
             p == Release(PositionOf(o, oc), Bucket(Market(o), oc), Volume(o))
  <2>2. Volume(o) \in Nat
    BY <2>1, ItemFacts
  <2>3. p \in Position
    BY <2>1, <2>2, PositionOfType, BucketType, ReleaseType
  <2>4. UpdatePosition(o, oc, p) /\ CountOpening(o, oc, 0, Volume(o))
    BY <1>7 DEF ReleaseItem, HandleOrderRep
  <2>5. position' \in [Codes -> [Sides -> Position]]
    <3> HIDE DEF o, oc, p
    <3>1. QED
      BY <2>1, <2>3, <2>4, UpdateFacts DEF o
  <2>6. openCache' \in [Types -> Nat]
    <3> HIDE DEF oc
    <3>1. QED
      BY <2>1, <2>2, <2>4, CountFacts
  <2>7. stage' \in [Items -> Stages] /\ task' \in Task
    <3>1. task' \in Task
      BY <1>7, NextItemFacts DEF ReleaseItem
    <3>2. stage' \in [Items -> Stages]
      BY <1>7, <2>1 DEF ReleaseItem, TypeOK, Stages
    <3>3. QED
      BY <3>1, <3>2
  <2>8. QED
    BY <1>7, <2>5, <2>6, <2>7 DEF ReleaseItem, TypeOK, counterVars
<1>8. ASSUME ReplyDone PROVE TypeOK'
  BY <1>8 DEF ReplyDone, TypeOK, masterVars, counterVars, Task, Idle
<1>9. ASSUME SendTradeKnock PROVE TypeOK'
  <2>1. PICK k \in pushed : k.no \notin knocks /\ knocks' = knocks \cup {k.no} /\ HandleKnock(k)
    BY <1>9 DEF SendTradeKnock
  <2>2. /\ k.item \in Items /\ k.no \in Items \X Nat /\ k.volume \in Nat \ {0}
        /\ k.trade \in BOOLEAN
    BY DEF TypeOK, Knock
  <2> DEFINE o == k.item
             oc == ocFlag[o]
             b == Bucket(Market(o), oc)
             q == PositionOf(o, oc)
             p == IF k.trade THEN Match(q, oc, b, k.volume) ELSE Release(q, b, k.volume)
  <2>3. q \in Position /\ b \in Buckets
    BY <2>2, PositionOfType, BucketType
  <2>4. b = "both" => q.tdClosing >= 0
    <3>1. Code(o) \in Codes /\ Side(Bs(o), oc) \in Sides /\ Market(o) \in Markets /\ oc \in Flags
      BY <2>2, ItemFacts, SideType DEF TypeOK
    <3>2. b = "both" => MarketOf[Code(o)] \notin ByDay
      BY <3>1, BucketByDay DEF Market
    <3>3. QED
      BY <3>1, <3>2 DEF TotalsInv, PositionOf
  <2>5. p \in Position
    <3> HIDE DEF q, b, oc
    <3>1. QED
      BY <2>2, <2>3, <2>4, MatchType, ReleaseType
  <2>6. /\ UpdatePosition(o, oc, p)
        /\ CountOpening(o, oc, 0, IF k.trade THEN 0 ELSE k.volume)
    BY <2>1 DEF HandleKnock
  <2>7. position' \in [Codes -> [Sides -> Position]]
    <3> HIDE DEF oc, p, o
    <3>1. QED
      BY <2>2, <2>5, <2>6, UpdateFacts DEF o
  <2>8. openCache' \in [Types -> Nat]
    <3>1. (IF k.trade THEN 0 ELSE k.volume) \in Nat
      BY <2>2
    <3> HIDE DEF oc
    <3>2. QED
      BY <2>2, <2>6, <3>1, CountFacts
  <2>9. knocks' \subseteq Items \X Nat
    BY <2>1, <2>2 DEF TypeOK
  <2>10. QED
    BY <1>9, <2>7, <2>8, <2>9 DEF SendTradeKnock, TypeOK, counterVars
<1>10. ASSUME CounterAccepts PROVE TypeOK'
  <2>1. Head(toCounter) \in Items /\ Tail(toCounter) \in Seq(Items)
    BY <1>10 DEF CounterAccepts, TypeOK
  <2>2. Volume(Head(toCounter)) \in Nat
    BY <2>1, ItemFacts
  <2>3. stage' \in [Items -> Stages] /\ rest' \in [Items -> Nat]
    BY <1>10, <2>1, <2>2 DEF CounterAccepts, TypeOK, Stages
  <2>4. QED
    BY <1>10, <2>1, <2>3 DEF CounterAccepts, TypeOK, masterVars
<1>11. ASSUME CounterRefuses PROVE TypeOK'
  <2>1. Head(toCounter) \in Items /\ Tail(toCounter) \in Seq(Items)
    BY <1>11 DEF CounterRefuses, TypeOK
  <2>2. stage' \in [Items -> Stages]
    BY <1>11, <2>1 DEF CounterRefuses, TypeOK, Stages
  <2>3. replies' \subseteq Seq(Items)
    <3>1. <<Head(toCounter)>> \in Seq(Items)
      BY <2>1
    <3>2. replies' = replies \cup {<<Head(toCounter)>>}
      BY <1>11 DEF CounterRefuses
    <3>3. QED
      BY <3>1, <3>2 DEF TypeOK
  <2>4. QED
    BY <1>11, <2>1, <2>2, <2>3 DEF CounterRefuses, TypeOK, masterVars
<1>12. ASSUME NEW o \in Items, \E v \in 1 .. Volume(o) : Trade(o, v) PROVE TypeOK'
  <2>1. PICK v \in 1 .. Volume(o) : Trade(o, v)
    BY <1>12
  <2>2. v \in Nat \ {0} /\ v <= rest[o] /\ rest[o] \in Nat
    BY <2>1, ItemFacts DEF Trade, TypeOK
  <2>3. Code(o) \in Codes /\ Side(Bs(o), ocFlag[o]) \in Sides
    BY ItemFacts, SideType
  <2>4. Traded(held[Code(o)][Side(Bs(o), ocFlag[o])], ocFlag[o], Bucket(Market(o), ocFlag[o]), v)
          \in Holding
    BY <2>2, TradedFacts
  <2>5. held' \in [Codes -> [Sides -> Holding]]
    BY <2>1, <2>3, <2>4 DEF Trade, TypeOK
  <2>6. rest' \in [Items -> Nat]
    BY <2>1, <2>2 DEF Trade, TypeOK
  <2>7. pushed' \subseteq Knock
    <3>1. <<o, rest[o]>> \in Items \X Nat
      BY <2>2
    <3>2. [no |-> <<o, rest[o]>>, item |-> o, trade |-> TRUE, volume |-> v] \in Knock
      BY <2>2, <3>1 DEF Knock
    <3>3. QED
      BY <2>1, <3>2 DEF Trade, TypeOK
  <2>8. QED
    BY <2>1, <2>5, <2>6, <2>7 DEF Trade, TypeOK, masterVars
<1>13. ASSUME NEW o \in Items, Withdraw(o) PROVE TypeOK'
  <2>1. rest[o] \in Nat \ {0}
    BY <1>13 DEF Withdraw, TypeOK
  <2>2. rest' \in [Items -> Nat] /\ pushed' \subseteq Knock
    <3>1. <<o, rest[o]>> \in Items \X Nat
      BY <2>1
    <3>2. [no |-> <<o, rest[o]>>, item |-> o, trade |-> FALSE, volume |-> rest[o]] \in Knock
      BY <2>1, <3>1 DEF Knock
    <3>3. rest' \in [Items -> Nat]
      BY <1>13 DEF Withdraw, TypeOK
    <3>4. QED
      BY <1>13, <3>2, <3>3 DEF Withdraw, TypeOK
  <2>3. QED
    BY <1>13, <2>2 DEF Withdraw, TypeOK, masterVars
<1>14. QED
  BY <1>1, <1>2, <1>3, <1>4, <1>5, <1>6, <1>7, <1>8, <1>9, <1>10, <1>11, <1>12, <1>13, NextCases

-----------------------------------------------------------------------------
(* Where an item is. *)

Places == CounterWhereabouts /\ ReplyWhereabouts /\ TaskWhereabouts

\* The counter's sequence followed by the items handed over has no item twice.
LEMMA AppendApart ==
  ASSUME NEW s \in Seq(Items), NEW t \in Seq(Items), Distinct(s), Distinct(t), Apart(s, t)
  PROVE  Distinct(s \o t)
<1> SUFFICES ASSUME NEW i \in DOMAIN (s \o t), NEW j \in DOMAIN (s \o t),
                    (s \o t)[i] = (s \o t)[j]
             PROVE  i = j
  BY DEF Distinct
<1>1. /\ Len(s) \in Nat /\ Len(t) \in Nat /\ DOMAIN s = 1 .. Len(s) /\ DOMAIN t = 1 .. Len(t)
      /\ DOMAIN (s \o t) = 1 .. Len(s) + Len(t)
      /\ \A n \in 1 .. Len(s) + Len(t) :
           (s \o t)[n] = IF n <= Len(s) THEN s[n] ELSE t[n - Len(s)]
  OBVIOUS
<1>2. i \in 1 .. Len(s) + Len(t) /\ j \in 1 .. Len(s) + Len(t)
  BY <1>1
<1>3. CASE i <= Len(s) /\ j <= Len(s)
  BY <1>1, <1>2, <1>3 DEF Distinct
<1>4. CASE i > Len(s) /\ j > Len(s)
  <2>1. i - Len(s) \in DOMAIN t /\ j - Len(s) \in DOMAIN t
    BY <1>1, <1>2, <1>4
  <2>2. t[i - Len(s)] = t[j - Len(s)]
    BY <1>1, <1>2, <1>4
  <2>3. i - Len(s) = j - Len(s)
    BY <2>1, <2>2 DEF Distinct
  <2>4. QED
    BY <1>1, <1>2, <2>3
<1>5. CASE i <= Len(s) /\ j > Len(s)
  <2>1. i \in DOMAIN s /\ j - Len(s) \in DOMAIN t /\ s[i] = t[j - Len(s)]
    BY <1>1, <1>2, <1>5
  <2>2. QED
    BY <2>1 DEF Apart
<1>6. CASE i > Len(s) /\ j <= Len(s)
  <2>1. j \in DOMAIN s /\ i - Len(s) \in DOMAIN t /\ s[j] = t[i - Len(s)]
    BY <1>1, <1>2, <1>6
  <2>2. QED
    BY <2>1 DEF Apart
<1>7. QED
  BY <1>1, <1>2, <1>3, <1>4, <1>5, <1>6

\* The item the counter answers is "sent" and nowhere else in the sequence.
LEMMA HeadFacts ==
  ASSUME TypeOK, CounterWhereabouts, toCounter # <<>>
  PROVE  /\ Head(toCounter) \in Items /\ stage[Head(toCounter)] = "sent"
         /\ Tail(toCounter) \in Seq(Items) /\ Distinct(Tail(toCounter))
         /\ \A i \in DOMAIN Tail(toCounter) :
              /\ i + 1 \in DOMAIN toCounter /\ Tail(toCounter)[i] = toCounter[i + 1]
              /\ Tail(toCounter)[i] # Head(toCounter)
<1>1. toCounter \in Seq(Items)
  BY DEF TypeOK
<1>2. /\ Head(toCounter) = toCounter[1] /\ 1 \in DOMAIN toCounter /\ Head(toCounter) \in Items
      /\ Tail(toCounter) \in Seq(Items)
  BY <1>1
<1>3. \A i \in DOMAIN Tail(toCounter) :
        i \in Nat \ {0} /\ i + 1 \in DOMAIN toCounter /\ Tail(toCounter)[i] = toCounter[i + 1]
  BY <1>1
<1>4. \A i \in DOMAIN Tail(toCounter) : Tail(toCounter)[i] # Head(toCounter)
  BY <1>2, <1>3 DEF CounterWhereabouts, Distinct
<1>5. Distinct(Tail(toCounter))
  <2> SUFFICES ASSUME NEW i \in DOMAIN Tail(toCounter), NEW j \in DOMAIN Tail(toCounter),
                      Tail(toCounter)[i] = Tail(toCounter)[j]
               PROVE  i = j
    BY DEF Distinct
  <2>1. i + 1 = j + 1
    BY <1>3 DEF CounterWhereabouts, Distinct
  <2>2. QED
    BY <1>3, <2>1
<1>6. QED
  BY <1>2, <1>3, <1>4, <1>5 DEF CounterWhereabouts

\* The items of the task are items.
LEMMA TaskItems ==
  ASSUME TypeOK, NEW i \in DOMAIN task.items
  PROVE  task.items[i] \in Items /\ i \in Nat \ {0} /\ task.next \in Nat
  BY DEF TypeOK, Task

\* The current item is new in a request, unsettled in a reply, and in no reply that waits.
LEMMA CurrentFacts ==
  ASSUME TypeOK, TaskWhereabouts, NEW kind, Looping(kind)
  PROVE  /\ Current \in Items /\ Current[1] \in sent
         /\ kind = "order" => stage[Current] = "new"
         /\ kind = "reply" => stage[Current] \in Open
         /\ \A i \in DOMAIN task.items : i # task.next => task.items[i] # Current
         /\ \A p \in replies : \A i \in DOMAIN p : p[i] # Current
<1>1. Current \in Items /\ task.next \in DOMAIN task.items /\ Current = task.items[task.next]
      /\ task.kind = kind /\ task.next >= task.next
  BY CurrentType
<1>2. QED
  BY <1>1 DEF TaskWhereabouts, Distinct, Apart

\* What the counter was sent stays distinct and "sent".
LEMMA CounterStep ==
  ASSUME TypeOK, Places, [Next]_vars
  PROVE  CounterWhereabouts'
<1>1. ASSUME UNCHANGED <<toCounter, stage>> PROVE CounterWhereabouts'
  BY <1>1 DEF Places, CounterWhereabouts
<1>2. ASSUME FreezeItem PROVE CounterWhereabouts'
  <2>1. Current \in Items /\ stage[Current] = "new"
    BY <1>2, CurrentFacts DEF Places, FreezeItem
  <2>2. toCounter' = toCounter /\ stage' = [stage EXCEPT ![Current] = "frozen"]
    BY <1>2 DEF FreezeItem, counterVars
  <2>3. \A i \in DOMAIN toCounter : toCounter[i] \in Items
    BY DEF TypeOK
  <2>4. QED
    BY <2>1, <2>2, <2>3 DEF TypeOK, Places, CounterWhereabouts
<1>3. ASSUME OnTradeOrder PROVE CounterWhereabouts'
  <2>1. task.kind = "order" /\ toCounter' = toCounter \o task.items
    BY <1>3 DEF OnTradeOrder, LoopEnded
  <2>2. \A i \in DOMAIN task.items : stage[task.items[i]] # "sent" /\ task.items[i] \in Items
    BY <2>1, TaskItems DEF Places, TaskWhereabouts
  <2>3. toCounter \in Seq(Items) /\ task.items \in Seq(Items) /\ Distinct(toCounter)
        /\ Distinct(task.items)
    BY DEF TypeOK, Task, Places, CounterWhereabouts, TaskWhereabouts
  <2>4. Distinct(toCounter')
    <3>1. Apart(toCounter, task.items)
      BY <2>2 DEF Apart, Places, CounterWhereabouts
    <3>2. QED
      BY <2>1, <2>3, <3>1, AppendApart
  <2>5. ASSUME NEW n \in DOMAIN toCounter' PROVE stage'[toCounter'[n]] = "sent"
    <3>1. toCounter'[n] \in Items
          /\ \/ \E i \in DOMAIN toCounter : toCounter'[n] = toCounter[i]
             \/ \E i \in DOMAIN task.items : toCounter'[n] = task.items[i]
      BY <2>1, <2>3
    <3>2. QED
      BY <1>3, <3>1 DEF OnTradeOrder, Places, CounterWhereabouts
  <2>6. QED
    BY <2>4, <2>5 DEF CounterWhereabouts
<1>4. ASSUME ReleaseItem PROVE CounterWhereabouts'
  <2>1. Current \in Items /\ stage[Current] \in Open
    BY <1>4, CurrentFacts DEF Places, ReleaseItem
  <2>2. toCounter' = toCounter /\ stage' = [stage EXCEPT ![Current] = "ended"]
    BY <1>4 DEF ReleaseItem, counterVars
  <2>3. \A i \in DOMAIN toCounter : toCounter[i] \in Items
    BY DEF TypeOK
  <2>4. QED
    BY <2>1, <2>2, <2>3 DEF TypeOK, Places, CounterWhereabouts, Open
<1>5. ASSUME NEW new, toCounter # <<>>, toCounter' = Tail(toCounter),
             stage' = [stage EXCEPT ![Head(toCounter)] = new]
      PROVE  CounterWhereabouts'
  <2>1. Distinct(toCounter')
    BY <1>5, HeadFacts DEF Places
  <2>2. \A i \in DOMAIN toCounter' : stage'[toCounter'[i]] = stage[toCounter'[i]]
    BY <1>5, HeadFacts DEF Places, TypeOK
  <2>3. \A i \in DOMAIN toCounter' : stage[toCounter'[i]] = "sent"
    BY <1>5, HeadFacts DEF Places, CounterWhereabouts
  <2>4. QED
    BY <2>1, <2>2, <2>3 DEF CounterWhereabouts
<1>6. CounterAccepts \/ CounterRefuses => CounterWhereabouts'
  BY <1>5 DEF CounterAccepts, CounterRefuses
<1>7. QED
  <2>1. \A r \in Requests : SendTradeOrder(r) => CounterWhereabouts'
    BY <1>1 DEF SendTradeOrder, counterVars
  <2>2. UNCHANGED vars \/ Throw \/ HandleTradeOrderRep \/ ReplyDone \/ SendTradeKnock
        => CounterWhereabouts'
    BY <1>1 DEF vars, Throw, HandleTradeOrderRep, ReplyDone, SendTradeKnock, counterVars
  <2>3. \A o \in Items : (\E v \in 1 .. Volume(o) : Trade(o, v)) \/ Withdraw(o)
        => CounterWhereabouts'
    BY <1>1 DEF Trade, Withdraw
  <2>4. QED
    BY <1>2, <1>3, <1>4, <1>6, <2>1, <2>2, <2>3, NextCases

\* A step that changes the stage of one item only leaves the items of a reply open.
LEMMA ReplyKept ==
  ASSUME TypeOK, Places, NEW o \in Items, NEW new \in Stages,
         stage' = [stage EXCEPT ![o] = new], sent' = sent,
         replies' \subseteq replies, new \in Open \/ \A p \in replies : \A i \in DOMAIN p : p[i] # o
  PROVE  ReplyWhereabouts'
<1>1. \A p \in replies : \A i \in DOMAIN p : p[i] \in Items
  BY DEF TypeOK
<1>2. \A p \in replies : \A i \in DOMAIN p : stage'[p[i]] \in Open
  BY <1>1 DEF TypeOK, Places, ReplyWhereabouts
<1>3. QED
  BY <1>2 DEF Places, ReplyWhereabouts

\* The replies that wait stay apart from one another.
LEMMA ReplyStep ==
  ASSUME TypeOK, Places, ItemInv, [Next]_vars
  PROVE  ReplyWhereabouts'
<1>1. ASSUME replies' \subseteq replies, stage' = stage, sent \subseteq sent'
      PROVE  ReplyWhereabouts'
  BY <1>1 DEF Places, ReplyWhereabouts
<1>2. ASSUME FreezeItem PROVE ReplyWhereabouts'
  <2>1. Current \in Items
    BY <1>2, CurrentFacts DEF Places, FreezeItem
  <2>2. QED
    BY <1>2, <2>1, ReplyKept DEF FreezeItem, Stages, Open
<1>3. ASSUME Throw PROVE ReplyWhereabouts'
  <2>1. task.kind = "order" /\ replies' = replies \cup {task.items} /\ sent' = sent /\ stage' = stage
    BY <1>3 DEF Throw, Looping, LoopEnded
  <2>2. Distinct(task.items) /\ \A p \in replies : Apart(p, task.items) /\ Apart(task.items, p)
    BY DEF Places, TaskWhereabouts, Apart
  <2>3. \A i \in DOMAIN task.items : stage[task.items[i]] \in Open /\ task.items[i][1] \in sent
    <3> TAKE i \in DOMAIN task.items
    <3>1. i < task.next \/ i >= task.next
      BY TaskItems
    <3>2. QED
      BY <2>1, <3>1 DEF Places, TaskWhereabouts, Open
  <2>4. QED
    BY <2>1, <2>2, <2>3 DEF Places, ReplyWhereabouts
<1>4. ASSUME OnTradeOrder PROVE ReplyWhereabouts'
  <2>1. /\ replies' = replies /\ sent' = sent
        /\ stage' = [o \in Items |-> IF \E i \in DOMAIN task.items : task.items[i] = o
                                     THEN "sent" ELSE stage[o]]
    BY <1>4 DEF OnTradeOrder
  <2>2. ASSUME NEW p \in replies, NEW i \in DOMAIN p PROVE stage'[p[i]] = stage[p[i]]
    <3>1. p[i] \in Items
      BY DEF TypeOK
    <3>2. ~ \E j \in DOMAIN task.items : task.items[j] = p[i]
      BY DEF Places, TaskWhereabouts, Apart
    <3>3. QED
      BY <2>1, <3>1, <3>2
  <2>3. QED
    BY <2>1, <2>2 DEF Places, ReplyWhereabouts
<1>5. ASSUME ReleaseItem PROVE ReplyWhereabouts'
  <2>1. Current \in Items /\ \A p \in replies : \A i \in DOMAIN p : p[i] # Current
    BY <1>5, CurrentFacts DEF Places, ReleaseItem
  <2>2. QED
    BY <1>5, <2>1, ReplyKept DEF ReleaseItem, Stages
<1>6. ASSUME CounterAccepts PROVE ReplyWhereabouts'
  <2>1. Head(toCounter) \in Items /\ stage[Head(toCounter)] \notin Open
    BY <1>6, HeadFacts DEF Places, CounterAccepts, Open
  <2>2. \A p \in replies : \A i \in DOMAIN p : p[i] # Head(toCounter)
    BY <2>1 DEF Places, ReplyWhereabouts
  <2>3. QED
    BY <1>6, <2>1, <2>2, ReplyKept DEF CounterAccepts, Stages
<1>7. ASSUME CounterRefuses PROVE ReplyWhereabouts'
  <2> DEFINE h == Head(toCounter)
             rep == <<h>>
  <2>1. h \in Items /\ stage[h] \notin Open /\ stage[h] # "new"
    BY <1>7, HeadFacts DEF Places, CounterRefuses, Open
  <2>2. /\ replies' = replies \cup {rep} /\ sent' = sent
        /\ stage' = [stage EXCEPT ![h] = "refused"]
    BY <1>7 DEF CounterRefuses
  <2> HIDE DEF h
  <2>3. \A p \in replies : \A i \in DOMAIN p :
          p[i] # h /\ p[i] \in Items /\ stage'[p[i]] = stage[p[i]]
    BY <2>1, <2>2 DEF Places, ReplyWhereabouts, TypeOK
  <2>4. h[1] \in sent /\ stage'[h] \in Open
    BY <2>1, <2>2 DEF ItemInv, TypeOK, Open
  <2>5. Distinct(rep) /\ \A i \in DOMAIN rep : rep[i] = h
    BY DEF Distinct
  <2>6. \A p \in replies : Apart(p, rep) /\ Apart(rep, p)
    BY <2>3, <2>5 DEF Apart
  <2> HIDE DEF rep
  <2>7. \A p \in replies' :
          Distinct(p) /\ \A i \in DOMAIN p : stage'[p[i]] \in Open /\ p[i][1] \in sent
    BY <2>2, <2>3, <2>4, <2>5 DEF Places, ReplyWhereabouts
  <2>8. \A p, q \in replies' : p = q \/ Apart(p, q)
    BY <2>2, <2>6 DEF Places, ReplyWhereabouts
  <2>9. QED
    BY <2>2, <2>7, <2>8 DEF ReplyWhereabouts
<1>8. QED
  <2>1. \A r \in Requests : SendTradeOrder(r) => ReplyWhereabouts'
    BY <1>1 DEF SendTradeOrder, counterVars
  <2>2. UNCHANGED vars \/ HandleTradeOrderRep \/ ReplyDone \/ SendTradeKnock => ReplyWhereabouts'
    BY <1>1 DEF vars, HandleTradeOrderRep, ReplyDone, SendTradeKnock, counterVars
  <2>3. \A o \in Items : (\E v \in 1 .. Volume(o) : Trade(o, v)) \/ Withdraw(o)
        => ReplyWhereabouts'
    BY <1>1 DEF Trade, Withdraw
  <2>4. QED
    BY <1>2, <1>3, <1>4, <1>5, <1>6, <1>7, <2>1, <2>2, <2>3, NextCases

\* The items of the task stay where the loop has brought them.
LEMMA TaskStep ==
  ASSUME TypeOK, Places, ItemInv, [Next]_vars
  PROVE  TaskWhereabouts'
<1>1. ASSUME UNCHANGED <<task, sent, stage, replies>> PROVE TaskWhereabouts'
  BY <1>1 DEF Places, TaskWhereabouts
<1>2. ASSUME NEW r \in Requests, SendTradeOrder(r) PROVE TaskWhereabouts'
  <2> DEFINE s == ItemsOf(r)
  <2>1. /\ task' = [kind |-> "order", items |-> s, next |-> 1]
        /\ sent' = sent \cup {r} /\ stage' = stage /\ replies' = replies /\ r \notin sent
    BY <1>2 DEF SendTradeOrder
  <2>2. s \in Seq(Items) /\ Distinct(s) /\ \A i \in DOMAIN s : s[i][1] = r
    BY ItemsOfFacts
  <2> HIDE DEF s
  <2>3. \A i \in DOMAIN s : s[i] \in Items /\ stage[s[i]] = "new" /\ i \in Nat \ {0}
    BY <2>1, <2>2 DEF ItemInv
  <2>4. \A p \in replies : Apart(p, s)
    BY <2>1, <2>2 DEF Apart, Places, ReplyWhereabouts
  <2>5. task'.items = s /\ task'.kind = "order" /\ task'.next = 1
    BY <2>1
  <2>6. \A i \in DOMAIN s : ~ (i < 1)
    BY <2>3
  <2>7. QED
    BY <2>1, <2>2, <2>3, <2>4, <2>5, <2>6 DEF TaskWhereabouts
<1>3. ASSUME FreezeItem PROVE TaskWhereabouts'
  <2>1. /\ task.kind = "order" /\ task'.kind = "order" /\ task'.items = task.items
        /\ task'.next = task.next + 1 /\ task.next \in Nat
    BY <1>3, NextItemFacts DEF FreezeItem, Looping
  <2>2. /\ Current \in Items /\ task.next \in DOMAIN task.items /\ Current = task.items[task.next]
        /\ \A i \in DOMAIN task.items : i # task.next => task.items[i] # Current
    BY <1>3, CurrentFacts, CurrentType DEF Places, FreezeItem
  <2>3. /\ stage' = [stage EXCEPT ![Current] = "frozen"] /\ sent' = sent /\ replies' = replies
        /\ stage'[Current] = "frozen"
    BY <1>3, <2>2 DEF FreezeItem, TypeOK
  <2>4. ASSUME NEW i \in DOMAIN task.items
        PROVE  /\ i < task.next + 1 => stage'[task.items[i]] = "frozen"
               /\ i >= task.next + 1 => stage'[task.items[i]] = "new"
    <3>1. i \in Nat /\ task.items[i] \in Items
      BY TaskItems
    <3>2. CASE i = task.next
      BY <2>1, <2>2, <2>3, <3>2
    <3>3. CASE i # task.next
      <4>1. stage'[task.items[i]] = stage[task.items[i]]
        BY <2>2, <2>3, <3>1, <3>3 DEF TypeOK
      <4>2. i < task.next + 1 => i < task.next
        BY <2>1, <3>1, <3>3
      <4>3. i >= task.next + 1 => i >= task.next
        BY <2>1, <3>1
      <4>4. QED
        BY <2>1, <4>1, <4>2, <4>3 DEF Places, TaskWhereabouts
    <3>4. QED
      BY <3>2, <3>3
  <2>5. task'.next >= 1
    BY <2>1
  <2>6. QED
    BY <2>1, <2>3, <2>4, <2>5 DEF Places, TaskWhereabouts
<1>4. ASSUME task' = Idle PROVE TaskWhereabouts'
  <2>1. task'.items = <<>> /\ task'.next = 1 /\ task'.kind = "idle" /\ DOMAIN <<>> = {}
    BY <1>4 DEF Idle
  <2>2. QED
    BY <2>1 DEF TaskWhereabouts, Distinct, Apart
<1>5. ASSUME HandleTradeOrderRep PROVE TaskWhereabouts'
  <2>1. PICK rep \in replies :
          replies' = replies \ {rep} /\ task' = [kind |-> "reply", items |-> rep, next |-> 1]
    BY <1>5 DEF HandleTradeOrderRep
  <2>2. sent' = sent /\ stage' = stage
    BY <1>5 DEF HandleTradeOrderRep
  <2>3. task'.items = rep /\ task'.kind = "reply" /\ task'.next = 1
    BY <2>1
  <2>4. \A i \in DOMAIN rep : i \in Nat \ {0} /\ ~ (i < 1)
    BY DEF TypeOK
  <2>5. /\ \A i \in DOMAIN rep : stage[rep[i]] \in Open /\ rep[i][1] \in sent
        /\ Distinct(rep) /\ \A p \in replies' : Apart(p, rep)
    BY <2>1 DEF Places, ReplyWhereabouts
  <2>6. QED
    BY <2>2, <2>3, <2>4, <2>5 DEF TaskWhereabouts
<1>6. ASSUME ReleaseItem PROVE TaskWhereabouts'
  <2>1. /\ task.kind = "reply" /\ task'.kind = "reply" /\ task'.items = task.items
        /\ task'.next = task.next + 1 /\ task.next \in Nat
    BY <1>6, NextItemFacts DEF ReleaseItem, Looping
  <2>2. /\ Current \in Items /\ task.next \in DOMAIN task.items /\ Current = task.items[task.next]
        /\ \A i \in DOMAIN task.items : i # task.next => task.items[i] # Current
    BY <1>6, CurrentFacts, CurrentType DEF Places, ReleaseItem
  <2>3. /\ stage' = [stage EXCEPT ![Current] = "ended"] /\ sent' = sent /\ replies' = replies
        /\ stage'[Current] = "ended"
    BY <1>6, <2>2 DEF ReleaseItem, TypeOK
  <2>4. ASSUME NEW i \in DOMAIN task.items
        PROVE  /\ i < task.next + 1 => stage'[task.items[i]] = "ended"
               /\ i >= task.next + 1 => stage'[task.items[i]] \in Open
    <3>1. i \in Nat /\ task.items[i] \in Items
      BY TaskItems
    <3>2. CASE i = task.next
      BY <2>1, <2>2, <2>3, <3>2
    <3>3. CASE i # task.next
      <4>1. stage'[task.items[i]] = stage[task.items[i]]
        BY <2>2, <2>3, <3>1, <3>3 DEF TypeOK
      <4>2. i < task.next + 1 => i < task.next
        BY <2>1, <3>1, <3>3
      <4>3. i >= task.next + 1 => i >= task.next
        BY <2>1, <3>1
      <4>4. QED
        BY <2>1, <4>1, <4>2, <4>3 DEF Places, TaskWhereabouts
    <3>4. QED
      BY <3>2, <3>3
  <2>5. task'.next >= 1
    BY <2>1
  <2>6. QED
    BY <2>1, <2>3, <2>4, <2>5 DEF Places, TaskWhereabouts
<1>7. ASSUME toCounter # <<>>, NEW new, stage' = [stage EXCEPT ![Head(toCounter)] = new],
             task' = task, sent' = sent,
             \A p \in replies' : p \in replies \/ p = <<Head(toCounter)>>
      PROVE  TaskWhereabouts'
  <2>1. Head(toCounter) \in Items /\ stage[Head(toCounter)] = "sent"
    BY <1>7, HeadFacts DEF Places
  <2>2. ASSUME NEW i \in DOMAIN task.items PROVE task.items[i] # Head(toCounter)
    <3>1. i < task.next \/ i >= task.next
      BY TaskItems
    <3>2. task.kind \in {"order", "reply"}
      <4>1. task.kind # "idle"
        BY DEF Places, TaskWhereabouts
      <4>2. QED
        BY <4>1 DEF TypeOK, Task
    <3>3. QED
      BY <2>1, <3>1, <3>2 DEF Places, TaskWhereabouts, Open
  <2>3. \A i \in DOMAIN task.items : stage'[task.items[i]] = stage[task.items[i]]
    BY <1>7, <2>2, TaskItems DEF TypeOK
  <2>4. Apart(<<Head(toCounter)>>, task.items)
    BY <2>2 DEF Apart
  <2>5. QED
    BY <1>7, <2>3, <2>4 DEF Places, TaskWhereabouts
<1>8. CounterAccepts \/ CounterRefuses => TaskWhereabouts'
  BY <1>7 DEF CounterAccepts, CounterRefuses
<1>9. QED
  <2>1. Throw \/ OnTradeOrder \/ ReplyDone => TaskWhereabouts'
    BY <1>4 DEF Throw, OnTradeOrder, ReplyDone
  <2>2. UNCHANGED vars \/ SendTradeKnock => TaskWhereabouts'
    BY <1>1 DEF vars, SendTradeKnock
  <2>3. \A o \in Items : (\E v \in 1 .. Volume(o) : Trade(o, v)) \/ Withdraw(o)
        => TaskWhereabouts'
    BY <1>1 DEF Trade, Withdraw
  <2>4. QED
    BY <1>2, <1>3, <1>5, <1>6, <1>8, <2>1, <2>2, <2>3, NextCases

-----------------------------------------------------------------------------
(* What an item's stage says of it. *)

ItemFits(o) ==
  /\ o[1] \notin sent => stage[o] = "new"
  /\ stage[o] # "working" => rest[o] = 0 /\ \A k \in pushed : k.item # o
  /\ stage[o] = "new" => ocFlag[o] = Asked(o)
  /\ stage[o] \notin {"new", "ended"} =>
       /\ ocFlag[o] # "auto"
       /\ Market(o) = "CFFEX" => ocFlag[o] \in {"open", "close"}

\* Stage, working volume, flag and knocks of an item stay consistent.
LEMMA ItemStep ==
  ASSUME TypeOK, Places, ItemInv, KnockInv, [Next]_vars
  PROVE  ItemInv'
<1> SUFFICES ASSUME NEW o \in Items PROVE ItemFits(o)'
  BY DEF ItemFits, ItemInv, Asked, Market, Code
<1>1. ItemFits(o)
  BY DEF ItemFits, ItemInv
<1>2. ASSUME UNCHANGED <<rest, pushed, ocFlag>>, sent \subseteq sent', stage'[o] = stage[o]
      PROVE  ItemFits(o)'
  BY <1>1, <1>2 DEF ItemFits, Asked, Market, Code
<1>3. ASSUME FreezeItem PROVE ItemFits(o)'
  <2>1. Current \in Items /\ stage[Current] = "new" /\ Current[1] \in sent
    BY <1>3, CurrentFacts DEF Places, FreezeItem
  <2>2. /\ stage' = [stage EXCEPT ![Current] = "frozen"]
        /\ ocFlag' = [ocFlag EXCEPT ![Current] = AutoOcFlag(Current)]
        /\ sent' = sent /\ rest' = rest /\ pushed' = pushed
    BY <1>3 DEF FreezeItem, counterVars
  <2>3. CASE o # Current
    <3>1. stage'[o] = stage[o] /\ ocFlag'[o] = ocFlag[o]
      BY <2>2, <2>3 DEF TypeOK
    <3>2. QED
      BY <1>1, <2>2, <3>1 DEF ItemFits, Asked, Market, Code
  <2>4. CASE o = Current
    <3>1. stage'[o] = "frozen" /\ ocFlag'[o] = AutoOcFlag(o)
      BY <2>1, <2>2, <2>4 DEF TypeOK
    <3>2. AutoOcFlag(o) # "auto" /\ (Market(o) = "CFFEX" => AutoOcFlag(o) \in {"open", "close"})
      BY FlagType
    <3>3. QED
      BY <1>1, <2>1, <2>2, <2>4, <3>1, <3>2 DEF ItemFits, Asked, Market, Code
  <2>5. QED
    BY <2>3, <2>4
<1>4. ASSUME OnTradeOrder PROVE ItemFits(o)'
  <2>1. /\ stage' = [x \in Items |-> IF \E i \in DOMAIN task.items : task.items[i] = x
                                     THEN "sent" ELSE stage[x]]
        /\ LoopEnded("order") /\ UNCHANGED <<rest, pushed, ocFlag, sent>>
    BY <1>4 DEF OnTradeOrder, masterVars
  <2>2. CASE \E i \in DOMAIN task.items : task.items[i] = o
    <3>1. PICK i \in DOMAIN task.items : task.items[i] = o
      BY <2>2
    <3>2. i < task.next
      <4>1. task.items \in Seq(Items) /\ task.next \in Nat /\ task.next >= 1
        BY DEF TypeOK, Task, Places, TaskWhereabouts
      <4>2. task.next \notin DOMAIN task.items
        BY <2>1 DEF LoopEnded
      <4>3. QED
        BY <4>1, <4>2
    <3>3. stage[o] = "frozen"
      BY <2>1, <3>1, <3>2 DEF LoopEnded, Places, TaskWhereabouts
    <3>4. stage'[o] = "sent"
      BY <2>1, <2>2
    <3>5. QED
      BY <1>1, <2>1, <3>3, <3>4 DEF ItemFits, Asked, Market, Code
  <2>3. CASE ~ \E i \in DOMAIN task.items : task.items[i] = o
    BY <1>2, <2>1, <2>3
  <2>4. QED
    BY <2>2, <2>3
<1>5. ASSUME ReleaseItem PROVE ItemFits(o)'
  <2>1. Current \in Items /\ stage[Current] \in Open /\ Current[1] \in sent
    BY <1>5, CurrentFacts DEF Places, ReleaseItem
  <2>2. /\ stage' = [stage EXCEPT ![Current] = "ended"]
        /\ sent' = sent /\ rest' = rest /\ pushed' = pushed /\ ocFlag' = ocFlag
    BY <1>5 DEF ReleaseItem, counterVars
  <2>3. o # Current => stage'[o] = stage[o]
    BY <2>2 DEF TypeOK
  <2>4. o = Current => stage'[o] = "ended"
    BY <2>1, <2>2 DEF TypeOK
  <2>5. QED
    BY <1>1, <1>2, <2>1, <2>2, <2>3, <2>4 DEF ItemFits, Open, Asked, Market, Code
<1>6. ASSUME CounterAccepts PROVE ItemFits(o)'
  <2> DEFINE h == Head(toCounter)
  <2>1. h \in Items /\ stage[h] = "sent"
    BY <1>6, HeadFacts DEF Places, CounterAccepts
  <2>2. /\ stage' = [stage EXCEPT ![h] = "working"] /\ rest' = [rest EXCEPT ![h] = Volume(h)]
        /\ sent' = sent /\ pushed' = pushed /\ ocFlag' = ocFlag
    BY <1>6 DEF CounterAccepts
  <2> HIDE DEF h
  <2>3. o # h => stage'[o] = stage[o] /\ rest'[o] = rest[o]
    BY <2>2 DEF TypeOK
  <2>4. o = h => stage'[o] = "working"
    BY <2>1, <2>2 DEF TypeOK
  <2>5. QED
    BY <1>1, <2>1, <2>2, <2>3, <2>4 DEF ItemFits, Asked, Market, Code
<1>7. ASSUME CounterRefuses PROVE ItemFits(o)'
  <2> DEFINE h == Head(toCounter)
  <2>1. h \in Items /\ stage[h] = "sent"
    BY <1>7, HeadFacts DEF Places, CounterRefuses
  <2>2. /\ stage' = [stage EXCEPT ![h] = "refused"] /\ rest' = rest
        /\ sent' = sent /\ pushed' = pushed /\ ocFlag' = ocFlag
    BY <1>7 DEF CounterRefuses
  <2> HIDE DEF h
  <2>3. o # h => stage'[o] = stage[o]
    BY <2>2 DEF TypeOK
  <2>4. o = h => stage'[o] = "refused"
    BY <2>1, <2>2 DEF TypeOK
  <2>5. QED
    BY <1>1, <2>1, <2>2, <2>3, <2>4 DEF ItemFits, Asked, Market, Code
<1>8. ASSUME NEW x \in Items, NEW n \in Nat, rest[x] > 0, rest' = [rest EXCEPT ![x] = n],
             \A k \in pushed' : k \in pushed \/ k.item = x,
             UNCHANGED <<stage, sent, ocFlag>>
      PROVE  ItemFits(o)'
  <2>1. stage[x] = "working" /\ \A y \in Items \ {x} : rest'[y] = rest[y]
    BY <1>8 DEF ItemInv, TypeOK
  <2>2. QED
    BY <1>1, <1>8, <2>1 DEF ItemFits, Asked, Market, Code
<1>9. ASSUME NEW x \in Items, NEW v \in 1 .. Volume(x), Trade(x, v) PROVE ItemFits(o)'
  <2>1. v \in Nat \ {0} /\ rest[x] \in Nat /\ v <= rest[x]
    BY <1>9, ItemFacts DEF Trade, TypeOK
  <2>2. rest[x] - v \in Nat /\ rest[x] > 0 /\ rest' = [rest EXCEPT ![x] = rest[x] - v]
    BY <1>9, <2>1 DEF Trade
  <2>3. UNCHANGED <<stage, sent, ocFlag>>
    BY <1>9 DEF Trade
  <2>4. \A k \in pushed' : k \in pushed \/ k.item = x
    BY <1>9 DEF Trade
  <2>5. QED
    BY <1>8, <2>2, <2>3, <2>4
<1>10. ASSUME NEW x \in Items, Withdraw(x) PROVE ItemFits(o)'
  <2>1. rest[x] > 0 /\ rest' = [rest EXCEPT ![x] = 0] /\ UNCHANGED <<stage, sent, ocFlag>>
    BY <1>10 DEF Withdraw
  <2>2. \A k \in pushed' : k \in pushed \/ k.item = x
    BY <1>10 DEF Withdraw
  <2>3. QED
    BY <1>8, <2>1, <2>2
<1>11. QED
  <2>1. \A r \in Requests : SendTradeOrder(r) => ItemFits(o)'
    BY <1>2 DEF SendTradeOrder, counterVars
  <2>2. UNCHANGED vars \/ Throw \/ HandleTradeOrderRep \/ ReplyDone \/ SendTradeKnock
        => ItemFits(o)'
    BY <1>2 DEF vars, Throw, HandleTradeOrderRep, ReplyDone, SendTradeKnock, counterVars
  <2>3. \A x \in Items : (\E v \in 1 .. Volume(x) : Trade(x, v)) => ItemFits(o)'
    BY <1>9
  <2>4. QED
    BY <1>3, <1>4, <1>5, <1>6, <1>7, <1>10, <2>1, <2>2, <2>3, NextCases

\* Only a freeze changes an open/close flag (mem_base_broker.cc:93).
LEMMA FlagStep ==
  ASSUME [Next]_vars
  PROVE  ocFlag' = ocFlag \/ FreezeItem
BY DEF Next, Broker, Counter, vars, SendTradeOrder, Throw, OnTradeOrder, HandleTradeOrderRep,
       ReleaseItem, ReplyDone, SendTradeKnock, CounterAccepts, CounterRefuses, Trade, Withdraw

\* On DCE and CZCE no item ever has a flag of one day.
LEMMA PlainStep ==
  ASSUME PlainFlags, TypeOK, PlainInv, [Next]_vars
  PROVE  PlainInv'
<1>1. CASE ocFlag' = ocFlag
  BY <1>1 DEF PlainInv, Market, Code
<1>2. CASE FreezeItem
  <2>1. Current \in Items
    BY <1>2, CurrentType DEF FreezeItem
  <2>2. ocFlag' = [ocFlag EXCEPT ![Current] = AutoOcFlag(Current)]
    BY <1>2 DEF FreezeItem
  <2>3. QED
    BY <2>1, <2>2, FlagType DEF PlainInv, TypeOK, Market, Code
<1>3. QED
  BY <1>1, <1>2, FlagStep

\* Knock numbers stay unique, and what was handled was pushed.
LEMMA KnockStep ==
  ASSUME TypeOK, Places, ItemInv, KnockInv, [Next]_vars
  PROVE  KnockInv'
<1>1. ASSUME UNCHANGED <<pushed, knocks, rest>> PROVE KnockInv'
  BY <1>1 DEF KnockInv
<1>2. ASSUME SendTradeKnock PROVE KnockInv'
  <2>1. PICK k \in pushed : knocks' = knocks \cup {k.no}
    BY <1>2 DEF SendTradeKnock
  <2>2. pushed' = pushed /\ rest' = rest
    BY <1>2 DEF SendTradeKnock, counterVars
  <2>3. QED
    BY <2>1, <2>2 DEF KnockInv
<1>3. ASSUME CounterAccepts PROVE KnockInv'
  <2> DEFINE h == Head(toCounter)
  <2>1. h \in Items /\ stage[h] = "sent"
    BY <1>3, HeadFacts DEF Places, CounterAccepts
  <2>2. rest' = [rest EXCEPT ![h] = Volume(h)] /\ pushed' = pushed /\ knocks' = knocks
    BY <1>3 DEF CounterAccepts, masterVars
  <2> HIDE DEF h
  <2>3. \A k \in pushed : k.item # h /\ k.item \in Items
    BY <2>1 DEF ItemInv, TypeOK, Knock
  <2>4. \A k \in pushed : rest'[k.item] = rest[k.item]
    BY <2>2, <2>3 DEF TypeOK
  <2>5. QED
    BY <2>2, <2>4 DEF KnockInv
<1>4. ASSUME NEW o \in Items, NEW n \in Nat, n < rest[o], rest' = [rest EXCEPT ![o] = n],
             NEW k, k.no = <<o, rest[o]>>, k.item = o, pushed' = pushed \cup {k}, knocks' = knocks
      PROVE  KnockInv'
  <2>1. rest[o] \in Nat /\ rest'[o] = n /\ \A x \in Items \ {o} : rest'[x] = rest[x]
    BY <1>4 DEF TypeOK
  <2>2. \A l \in pushed : l.item \in Items /\ l.no[2] \in Nat /\ l.no[1] = l.item
                          /\ l.no[2] > rest[l.item]
    BY DEF KnockInv, TypeOK, Knock
  <2>3. k.no[1] = o /\ k.no[2] = rest[o] /\ k.no[2] > rest'[k.item]
    BY <1>4, <2>1
  <2>4. \A l \in pushed : l.no # k.no
    BY <1>4, <2>1, <2>2, <2>3
  <2>5. \A l \in pushed : l.no[2] > rest'[l.item]
    BY <1>4, <2>1, <2>2
  <2>6. IsFiniteSet(pushed')
    BY <1>4, FS_AddElement DEF KnockInv
  <2>7. \A l \in pushed' : l.no[1] = l.item /\ l.no[2] > rest'[l.item]
    BY <1>4, <2>2, <2>3, <2>5
  <2>8. \A l, m \in pushed' : l.no = m.no => l = m
    BY <1>4, <2>4 DEF KnockInv
  <2>9. \A no \in knocks' : \E l \in pushed' : l.no = no
    BY <1>4 DEF KnockInv
  <2>10. QED
    BY <2>6, <2>7, <2>8, <2>9 DEF KnockInv
<1>5. ASSUME NEW x \in Items, NEW v \in 1 .. Volume(x), Trade(x, v) PROVE KnockInv'
  <2>1. v \in Nat \ {0} /\ rest[x] \in Nat /\ v <= rest[x]
    BY <1>5, ItemFacts DEF Trade, TypeOK
  <2>2. rest[x] - v \in Nat /\ rest[x] - v < rest[x] /\ rest' = [rest EXCEPT ![x] = rest[x] - v]
    BY <1>5, <2>1 DEF Trade
  <2>3. knocks' = knocks
    BY <1>5 DEF Trade, masterVars
  <2> DEFINE k == [no |-> <<x, rest[x]>>, item |-> x, trade |-> TRUE, volume |-> v]
  <2>4. k.no = <<x, rest[x]>> /\ k.item = x /\ pushed' = pushed \cup {k}
    BY <1>5 DEF Trade
  <2> HIDE DEF k
  <2>5. QED
    BY <1>4, <2>2, <2>3, <2>4
<1>6. ASSUME NEW x \in Items, Withdraw(x) PROVE KnockInv'
  <2> DEFINE k == [no |-> <<x, rest[x]>>, item |-> x, trade |-> FALSE, volume |-> rest[x]]
  <2>1. /\ rest' = [rest EXCEPT ![x] = 0] /\ pushed' = pushed \cup {k} /\ knocks' = knocks
        /\ 0 < rest[x]
    BY <1>6 DEF Withdraw, masterVars, TypeOK
  <2>2. k.no = <<x, rest[x]>> /\ k.item = x
    OBVIOUS
  <2> HIDE DEF k
  <2>3. QED
    BY <1>4, <2>1, <2>2
<1>7. QED
  <2>1. \A r \in Requests : SendTradeOrder(r) => KnockInv'
    BY <1>1 DEF SendTradeOrder, masterVars, counterVars
  <2>2. \/ UNCHANGED vars \/ FreezeItem \/ Throw \/ OnTradeOrder \/ HandleTradeOrderRep
        \/ ReleaseItem \/ ReplyDone \/ CounterRefuses
        => KnockInv'
    BY <1>1 DEF vars, FreezeItem, Throw, OnTradeOrder, HandleTradeOrderRep, ReleaseItem, ReplyDone,
                CounterRefuses, masterVars, counterVars
  <2>3. \A x \in Items : (\E v \in 1 .. Volume(x) : Trade(x, v)) => KnockInv'
    BY <1>5
  <2>4. QED
    BY <1>2, <1>3, <1>6, <2>1, <2>2, <2>3, NextCases

-----------------------------------------------------------------------------
(* What an update does to the numbers of a position. *)

\* What Update with an order volume adds to the frozen volumes.
LEMMA FreezeEffect ==
  ASSUME NEW p \in Position, NEW b \in Buckets, NEW v \in Nat, NEW q, q = Freeze(p, b, v)
  PROVE  /\ q.ydInit = p.ydInit /\ q.tdInit = p.tdInit /\ q.tdOpen = p.tdOpen
         /\ q.ydClose = p.ydClose /\ q.tdClose = p.tdClose
         /\ b = "none" => q = p
         /\ b = "yd" => q.ydClosing = p.ydClosing + v /\ q.tdClosing = p.tdClosing
         /\ b = "td" => q.tdClosing = p.tdClosing + v /\ q.ydClosing = p.ydClosing
         /\ b = "both" =>
              /\ q.ydClosing + q.tdClosing = p.ydClosing + p.tdClosing + v
              /\ p.tdClosing >= 0 /\ TdAvailable(p) >= 0
                   => q.tdClosing >= 0 /\ TdAvailable(q) >= 0
<1> DEFINE td == Least(TdAvailable(p), v)
           yc == p.ydClosing + (v - td)
           tc == p.tdClosing + td
<1>1. /\ td \in Int /\ yc \in Int /\ tc \in Int
      /\ yc + tc = p.ydClosing + p.tdClosing + v
      /\ TdAvailable(p) >= 0 => td >= 0 /\ td <= TdAvailable(p)
  BY PositionFields DEF Least
<1>2. CASE b \in {"none", "yd", "td"}
  BY <1>2, PositionFields DEF Freeze, Position
<1>3. CASE b = "both"
  <2>1. q = [p EXCEPT !.tdClosing = tc, !.ydClosing = yc]
    BY <1>3 DEF Freeze
  <2> HIDE DEF tc, yc
  <2>2. /\ q.tdClosing = tc /\ q.ydClosing = yc
        /\ q.ydInit = p.ydInit /\ q.tdInit = p.tdInit /\ q.tdOpen = p.tdOpen
        /\ q.ydClose = p.ydClose /\ q.tdClose = p.tdClose
    BY <2>1 DEF Position
  <2>3. p.tdClosing >= 0 /\ TdAvailable(p) >= 0 => q.tdClosing >= 0 /\ TdAvailable(q) >= 0
    <3> HIDE DEF td
    <3>1. TdAvailable(q) = TdAvailable(p) - td
      BY <1>1, <2>2, PositionFields DEF TdAvailable, tc
    <3>2. QED
      BY <1>1, <2>2, <3>1, PositionFields DEF tc
  <2>4. QED
    BY <1>1, <1>3, <2>2, <2>3
<1>4. QED
  BY <1>2, <1>3 DEF Buckets

\* What Update with a withdraw volume takes off, if that much is frozen.
LEMMA ReleaseEffect ==
  ASSUME NEW p \in Position, NEW b \in Buckets, NEW v \in Nat, NEW q, q = Release(p, b, v)
  PROVE  /\ q.ydInit = p.ydInit /\ q.tdInit = p.tdInit /\ q.tdOpen = p.tdOpen
         /\ q.ydClose = p.ydClose /\ q.tdClose = p.tdClose
         /\ b = "none" => q = p
         /\ b = "yd" => /\ p.ydClosing >= v => q.ydClosing = p.ydClosing - v
                        /\ q.tdClosing = p.tdClosing
         /\ b = "td" => /\ p.tdClosing >= v => q.tdClosing = p.tdClosing - v
                        /\ q.ydClosing = p.ydClosing
         /\ b = "both" =>
              /\ q.ydClosing + q.tdClosing = p.ydClosing + p.tdClosing - v
              /\ p.tdClosing >= 0 /\ TdAvailable(p) >= 0
                   => q.tdClosing >= 0 /\ TdAvailable(q) >= 0
<1> DEFINE td == Least(p.tdClosing, v)
           yc == p.ydClosing - (v - td)
           tc == p.tdClosing - td
<1>1. /\ td \in Int /\ yc \in Int /\ tc \in Int
      /\ yc + tc = p.ydClosing + p.tdClosing - v
      /\ p.tdClosing >= 0 => td >= 0 /\ td <= p.tdClosing
  BY PositionFields DEF Least
<1>2. CASE b \in {"none", "yd", "td"}
  BY <1>2, PositionFields DEF Release, Position, Deduct
<1>3. CASE b = "both"
  <2>1. q = [p EXCEPT !.tdClosing = tc, !.ydClosing = yc]
    BY <1>3 DEF Release
  <2> HIDE DEF tc, yc
  <2>2. /\ q.tdClosing = tc /\ q.ydClosing = yc
        /\ q.ydInit = p.ydInit /\ q.tdInit = p.tdInit /\ q.tdOpen = p.tdOpen
        /\ q.ydClose = p.ydClose /\ q.tdClose = p.tdClose
    BY <2>1 DEF Position
  <2>3. p.tdClosing >= 0 /\ TdAvailable(p) >= 0 => q.tdClosing >= 0 /\ TdAvailable(q) >= 0
    <3> HIDE DEF td
    <3>1. TdAvailable(q) = TdAvailable(p) + td
      BY <1>1, <2>2, PositionFields DEF TdAvailable, tc
    <3>2. QED
      BY <1>1, <2>2, <3>1, PositionFields DEF tc
  <2>4. QED
    BY <1>1, <1>3, <2>2, <2>3
<1>4. QED
  BY <1>2, <1>3 DEF Buckets

\* What Update with a match volume moves from frozen to closed, if that much is frozen.
LEMMA MatchEffect ==
  ASSUME NEW p \in Position, NEW oc, NEW b \in Buckets, NEW v \in Nat, NEW q,
         q = Match(p, oc, b, v)
  PROVE  /\ q.ydInit = p.ydInit /\ q.tdInit = p.tdInit
         /\ b = "none" /\ oc # "open" => q = p
         /\ b = "none" /\ oc = "open" =>
              /\ q.tdOpen = p.tdOpen + v
              /\ q.ydClosing = p.ydClosing /\ q.tdClosing = p.tdClosing
              /\ q.ydClose = p.ydClose /\ q.tdClose = p.tdClose
         /\ b = "yd" =>
              /\ p.ydClosing >= v => q.ydClosing = p.ydClosing - v
              /\ q.ydClose = p.ydClose + v
              /\ q.tdClosing = p.tdClosing /\ q.tdClose = p.tdClose /\ q.tdOpen = p.tdOpen
         /\ b = "td" =>
              /\ p.tdClosing >= v => q.tdClosing = p.tdClosing - v
              /\ q.tdClose = p.tdClose + v
              /\ q.ydClosing = p.ydClosing /\ q.ydClose = p.ydClose /\ q.tdOpen = p.tdOpen
         /\ b = "both" =>
              /\ q.ydClosing + q.tdClosing = p.ydClosing + p.tdClosing - v
              /\ q.ydClose + q.tdClose = p.ydClose + p.tdClose + v
              /\ q.tdOpen = p.tdOpen
              /\ p.tdClosing >= 0 /\ TdAvailable(p) >= 0
                   => q.tdClosing >= 0 /\ TdAvailable(q) >= 0
<1> DEFINE td == Least(p.tdClosing, v)
           yc == p.ydClosing - (v - td)
           tc == p.tdClosing - td
           ydc == p.ydClose + (v - td)
           tdc == p.tdClose + td
<1>1. /\ td \in Int /\ yc \in Int /\ tc \in Int /\ ydc \in Int /\ tdc \in Int
      /\ yc + tc = p.ydClosing + p.tdClosing - v
      /\ ydc + tdc = p.ydClose + p.tdClose + v
      /\ td <= p.tdClosing /\ tc + tdc = p.tdClosing + p.tdClose
  BY PositionFields DEF Least
<1>2. CASE b = "none"
  BY <1>2, PositionFields DEF Match, Position
<1>3. CASE b = "yd"
  <2>1. q = [p EXCEPT !.ydClosing = Deduct(p.ydClosing, v), !.ydClose = p.ydClose + v]
    BY <1>3 DEF Match
  <2>2. p.ydClosing >= v => Deduct(p.ydClosing, v) = p.ydClosing - v
    BY DEF Deduct
  <2>3. QED
    BY <1>3, <2>1, <2>2 DEF Position
<1>4. CASE b = "td"
  <2>1. q = [p EXCEPT !.tdClosing = Deduct(p.tdClosing, v), !.tdClose = p.tdClose + v]
    BY <1>4 DEF Match
  <2>2. p.tdClosing >= v => Deduct(p.tdClosing, v) = p.tdClosing - v
    BY DEF Deduct
  <2>3. QED
    BY <1>4, <2>1, <2>2 DEF Position
<1>5. CASE b = "both"
  <2>1. q = [p EXCEPT !.tdClosing = tc, !.tdClose = tdc, !.ydClosing = yc, !.ydClose = ydc]
    BY <1>5 DEF Match
  <2> HIDE DEF tc, yc, tdc, ydc
  <2>2. /\ q.tdClosing = tc /\ q.ydClosing = yc /\ q.ydClose = ydc /\ q.tdClose = tdc
        /\ q.ydInit = p.ydInit /\ q.tdInit = p.tdInit /\ q.tdOpen = p.tdOpen
    BY <2>1 DEF Position
  <2>3. p.tdClosing >= 0 /\ TdAvailable(p) >= 0 => q.tdClosing >= 0 /\ TdAvailable(q) >= 0
    <3> HIDE DEF td
    <3>1. TdAvailable(q) = TdAvailable(p)
      <4>1. /\ p.tdInit \in Int /\ p.tdOpen \in Int /\ p.tdClosing \in Int /\ p.tdClose \in Int
            /\ q.tdClosing \in Int /\ q.tdClose \in Int
            /\ q.tdClosing + q.tdClose = p.tdClosing + p.tdClose
        BY <1>1, <2>2, PositionFields
      <4>2. QED
        BY <2>2, <4>1 DEF TdAvailable
    <3>2. tc >= 0
      BY <1>1, PositionFields DEF tc
    <3>3. QED
      BY <1>1, <2>2, <3>1, <3>2
  <2>4. QED
    BY <1>1, <1>5, <2>2, <2>3
<1>6. QED
  BY <1>2, <1>3, <1>4, <1>5 DEF Buckets

-----------------------------------------------------------------------------
(* The three steps that move a position. *)

Moved(o, oc, q) ==
  \A c \in Codes, s \in Sides :
    position'[c][s] = IF c = Code(o) /\ s = Side(Bs(o), oc) THEN q ELSE position[c][s]

Froze(o, oc, p, q) ==
  /\ o = Current /\ oc = AutoOcFlag(o) /\ p = PositionOf(o, oc)
  /\ q = Freeze(p, Bucket(Market(o), oc), Volume(o)) /\ Moved(o, oc, q)
  /\ stage[o] = "new" /\ stage' = [stage EXCEPT ![o] = "frozen"]
  /\ ocFlag' = [ocFlag EXCEPT ![o] = oc] /\ ocFlag'[o] = oc

\* FreezeItem, with the item, its flag and the position named.
LEMMA FreezeFacts ==
  ASSUME TypeOK, TaskWhereabouts, FreezeItem
  PROVE  \E o \in Items : \E oc \in Flags \ {"auto"} : \E p, q \in Position : Froze(o, oc, p, q)
<1> DEFINE o == Current
           oc == AutoOcFlag(o)
           p == PositionOf(o, oc)
           q == Freeze(p, Bucket(Market(o), oc), Volume(o))
<1>1. o \in Items /\ stage[o] = "new"
  BY CurrentFacts DEF FreezeItem
<1>2. oc \in Flags \ {"auto"} /\ Volume(o) \in Nat
  BY <1>1, ItemFacts, FlagType
<1>3. p \in Position /\ q \in Position
  BY <1>1, <1>2, PositionOfType, BucketType, FreezeType
<1>4. UpdatePosition(o, oc, q)
  BY DEF FreezeItem, HandleOrderReq
<1>5. stage' = [stage EXCEPT ![o] = "frozen"] /\ ocFlag' = [ocFlag EXCEPT ![o] = oc]
      /\ ocFlag'[o] = oc
  BY <1>1 DEF FreezeItem, TypeOK
<1>6. Moved(o, oc, q)
  <2> HIDE DEF o, oc, q
  <2>1. QED
    BY <1>1, <1>3, <1>4, UpdateFacts DEF Moved
<1>7. Froze(o, oc, p, q)
  BY <1>1, <1>5, <1>6 DEF Froze
<1> HIDE DEF o, oc, p, q
<1>8. QED
  BY <1>1, <1>2, <1>3, <1>7

Released(o, p, q) ==
  /\ o = Current /\ p = PositionOf(o, ocFlag[o])
  /\ q = Release(p, Bucket(Market(o), ocFlag[o]), Volume(o)) /\ Moved(o, ocFlag[o], q)
  /\ stage[o] \in Open /\ stage' = [stage EXCEPT ![o] = "ended"]

\* ReleaseItem, with the item and the position named.
LEMMA ReleaseFacts ==
  ASSUME TypeOK, TaskWhereabouts, ReleaseItem
  PROVE  \E o \in Items : \E p, q \in Position : Released(o, p, q)
<1> DEFINE o == Current
           oc == ocFlag[o]
           p == PositionOf(o, oc)
           q == Release(p, Bucket(Market(o), oc), Volume(o))
<1>1. o \in Items /\ stage[o] \in Open
  BY CurrentFacts DEF ReleaseItem
<1>2. Volume(o) \in Nat
  BY <1>1, ItemFacts
<1>3. p \in Position /\ q \in Position
  BY <1>1, <1>2, PositionOfType, BucketType, ReleaseType
<1>4. UpdatePosition(o, oc, q)
  BY DEF ReleaseItem, HandleOrderRep
<1>5. stage' = [stage EXCEPT ![o] = "ended"]
  BY DEF ReleaseItem
<1>6. Moved(o, oc, q)
  <2> HIDE DEF o, oc, q
  <2>1. QED
    BY <1>1, <1>3, <1>4, UpdateFacts DEF Moved
<1>7. Released(o, p, q)
  BY <1>1, <1>5, <1>6 DEF Released
<1> HIDE DEF o, oc, p, q
<1>8. QED
  BY <1>1, <1>3, <1>7

Delivered(k, o, p, q) ==
  /\ o = k.item /\ p = PositionOf(o, ocFlag[o])
  /\ q = IF k.trade THEN Match(p, ocFlag[o], Bucket(Market(o), ocFlag[o]), k.volume)
         ELSE Release(p, Bucket(Market(o), ocFlag[o]), k.volume)
  /\ Moved(o, ocFlag[o], q)
  /\ k.no \notin knocks /\ knocks' = knocks \cup {k.no} /\ k.volume \in Nat \ {0}
  /\ k.trade \in BOOLEAN /\ stage[o] = "working" /\ Bucket(Market(o), ocFlag[o]) \in Buckets

\* SendTradeKnock, with the knock, its item and the position named.
LEMMA KnockFacts ==
  ASSUME TypeOK, ItemInv, PlainInv, TotalsInv, SendTradeKnock
  PROVE  \E k \in pushed : \E o \in Items : \E p, q \in Position : Delivered(k, o, p, q)
<1>1. PICK k \in pushed : k.no \notin knocks /\ knocks' = knocks \cup {k.no} /\ HandleKnock(k)
  BY DEF SendTradeKnock
<1> DEFINE o == k.item
           oc == ocFlag[o]
           b == Bucket(Market(o), oc)
           p == PositionOf(o, oc)
           q == IF k.trade THEN Match(p, oc, b, k.volume) ELSE Release(p, b, k.volume)
<1>2. o \in Items /\ k.volume \in Nat \ {0} /\ k.trade \in BOOLEAN
  BY DEF TypeOK, Knock
<1>3. p \in Position /\ b \in Buckets
  BY <1>2, PositionOfType, BucketType
<1>4. b = "both" => p.tdClosing >= 0
  <2>1. Code(o) \in Codes /\ Side(Bs(o), oc) \in Sides /\ Market(o) \in Markets /\ oc \in Flags
    BY <1>2, ItemFacts, SideType DEF TypeOK
  <2>2. b = "both" => MarketOf[Code(o)] \notin ByDay
    BY <2>1, BucketByDay DEF Market
  <2>3. QED
    BY <2>1, <2>2 DEF TotalsInv, PositionOf
<1>5. q \in Position
  <2> HIDE DEF p, b, oc
  <2>1. QED
    BY <1>2, <1>3, <1>4, MatchType, ReleaseType
<1>6. UpdatePosition(o, oc, q)
  BY <1>1 DEF HandleKnock
<1>7. Moved(o, oc, q)
  <2> HIDE DEF o, oc, q
  <2>1. QED
    BY <1>2, <1>5, <1>6, UpdateFacts DEF Moved
<1>8. stage[o] = "working"
  BY <1>2 DEF ItemInv
<1>9. Delivered(k, o, p, q)
  BY <1>1, <1>2, <1>3, <1>7, <1>8 DEF Delivered
<1> HIDE DEF o, oc, b, p, q
<1>10. QED
  BY <1>2, <1>3, <1>5, <1>9

\* Only the three handlers of the master change a position.
LEMMA PositionStep ==
  ASSUME [Next]_vars
  PROVE  position' = position \/ FreezeItem \/ ReleaseItem \/ SendTradeKnock
BY DEF Next, Broker, Counter, vars, masterVars, SendTradeOrder, Throw, OnTradeOrder,
       HandleTradeOrderRep, ReplyDone, CounterAccepts, CounterRefuses, Trade, Withdraw

\* On a market that does not tell the days apart an item closes either nothing or both.
LEMMA BothOrNone ==
  ASSUME TypeOK, PlainInv, NEW o \in Items, Market(o) \notin ByDay
  PROVE  Bucket(Market(o), ocFlag[o]) \in {"none", "both"}
<1>1. Market(o) \in Markets /\ ocFlag[o] \in Flags /\ ocFlag[o] \in {"auto", "open", "close"}
  BY ItemFacts DEF TypeOK, PlainInv
<1>2. QED
  BY <1>1, BucketByDay

Total(p) == p.tdClosing >= 0 /\ TdAvailable(p) >= 0

\* On DCE and CZCE today's frozen volume stays between nothing and what there is.
LEMMA TotalsStep ==
  ASSUME PlainFlags, TypeOK, TaskWhereabouts, ItemInv, PlainInv, TotalsInv, [Next]_vars
  PROVE  TotalsInv'
<1> SUFFICES ASSUME NEW c \in Codes, NEW s \in Sides, MarketOf[c] \notin ByDay
             PROVE  Total(position'[c][s])
  BY DEF TotalsInv, Total, TdAvailable
<1>1. Total(position[c][s])
  BY DEF TotalsInv, Total
<1>2. CASE position' = position
  BY <1>1, <1>2
<1>3. ASSUME NEW o \in Items, NEW oc, NEW p \in Position, NEW q \in Position, Moved(o, oc, q),
             p = PositionOf(o, oc), Market(o) \notin ByDay /\ Total(p) => Total(q)
      PROVE  Total(position'[c][s])
  BY <1>1, <1>3 DEF Moved, PositionOf, Market
<1>4. CASE FreezeItem
  <2>1. PICK o \in Items, oc \in Flags \ {"auto"}, p \in Position, q \in Position :
          Froze(o, oc, p, q)
    BY <1>4, FreezeFacts
  <2> DEFINE b == Bucket(Market(o), oc)
  <2>2. q = Freeze(p, b, Volume(o)) /\ Volume(o) \in Nat /\ b \in Buckets
    BY <2>1, ItemFacts, BucketType DEF Froze
  <2>3. Market(o) \notin ByDay => b \in {"none", "both"}
    <3>1. Market(o) \in Markets /\ oc = AutoOcFlag(o)
      BY <2>1, ItemFacts DEF Froze
    <3>2. QED
      BY <3>1, FlagType, BucketByDay
  <2> HIDE DEF b
  <2>4. Market(o) \notin ByDay /\ Total(p) => Total(q)
    BY <2>2, <2>3, FreezeEffect DEF Total
  <2>5. QED
    BY <1>3, <2>1, <2>4 DEF Froze
<1>5. CASE ReleaseItem
  <2>1. PICK o \in Items, p \in Position, q \in Position : Released(o, p, q)
    BY <1>5, ReleaseFacts
  <2> DEFINE b == Bucket(Market(o), ocFlag[o])
  <2>2. q = Release(p, b, Volume(o)) /\ Volume(o) \in Nat /\ b \in Buckets
    BY <2>1, ItemFacts, BucketType DEF Released
  <2>3. Market(o) \notin ByDay => b \in {"none", "both"}
    BY BothOrNone
  <2> HIDE DEF b
  <2>4. Market(o) \notin ByDay /\ Total(p) => Total(q)
    BY <2>2, <2>3, ReleaseEffect DEF Total
  <2>5. QED
    BY <1>3, <2>1, <2>4 DEF Released
<1>6. CASE SendTradeKnock
  <2>1. PICK k \in pushed, o \in Items, p \in Position, q \in Position : Delivered(k, o, p, q)
    BY <1>6, KnockFacts
  <2> DEFINE b == Bucket(Market(o), ocFlag[o])
             v == k.volume
  <2>2. /\ q = IF k.trade THEN Match(p, ocFlag[o], b, v) ELSE Release(p, b, v)
        /\ v \in Nat /\ b \in Buckets
    BY <2>1 DEF Delivered
  <2>3. Market(o) \notin ByDay => b \in {"none", "both"}
    BY BothOrNone
  <2> HIDE DEF b, v
  <2>4. Market(o) \notin ByDay /\ Total(p) => Total(q)
    <3>1. CASE k.trade
      <4>1. q = Match(p, ocFlag[o], b, v)
        BY <2>2, <3>1
      <4>2. CASE b = "none"
        <5>1. q.tdClosing = p.tdClosing /\ TdAvailable(q) >= TdAvailable(p)
          BY <2>2, <4>1, <4>2, MatchEffect, PositionFields DEF TdAvailable
        <5>2. QED
          BY <5>1, PositionFields DEF Total
      <4>3. CASE b = "both"
        BY <2>2, <4>1, <4>3, MatchEffect DEF Total
      <4>4. QED
        BY <2>3, <4>2, <4>3
    <3>2. CASE ~ k.trade
      BY <2>2, <2>3, <3>2, ReleaseEffect DEF Total
    <3>3. QED
      BY <3>1, <3>2
  <2>5. QED
    BY <1>3, <2>1, <2>4 DEF Delivered
<1>7. QED
  BY <1>2, <1>4, <1>5, <1>6, PositionStep

-----------------------------------------------------------------------------
(* The counter: working orders never want more than is held. *)

\* A sum over the items when one item changes.
LEMMA ItemSumChange ==
  ASSUME NEW o \in Items, NEW f, NEW g,
         \A x \in Items : f[x] \in Int /\ g[x] \in Int /\ (x # o => f[x] = g[x])
  PROVE  SumFunctionOnSet(g, Items) = SumFunctionOnSet(f, Items) - f[o] + g[o]
<1>1. \A x \in Items \ {o} : f[x] = g[x]
  OBVIOUS
<1>2. \A x \in Items : f[x] \in Int /\ g[x] \in Int
  OBVIOUS
<1>3. IsFiniteSet(Items)
  BY ItemsFinite
<1>4. QED
  BY <1>1, <1>2, <1>3, SumChange

\* The working volume of a bucket is a natural number.
LEMMA WorkingFacts ==
  ASSUME TypeOK, NEW c, NEW s, NEW b
  PROVE  Working(c, s, b) \in Nat /\ \A x \in Items : WorkingOf(x, c, s, b) \in Nat
<1> DEFINE f == [x \in Items |-> WorkingOf(x, c, s, b)]
<1>1. \A x \in Items : f[x] \in Nat /\ f[x] = WorkingOf(x, c, s, b)
  BY DEF TypeOK, WorkingOf
<1>2. SumFunctionOnSet(f, Items) \in Nat
  <2> HIDE DEF f
  <2>1. QED
    BY <1>1, ItemsFinite, SumNat
<1>3. QED
  BY <1>1, <1>2 DEF Working

\* The working volume of a bucket when one item changes.
LEMMA WorkingChange ==
  ASSUME TypeOK, TypeOK', NEW c, NEW s, NEW b, NEW o \in Items,
         \A x \in Items : x # o => WorkingOf(x, c, s, b)' = WorkingOf(x, c, s, b)
  PROVE  Working(c, s, b)' = Working(c, s, b) - WorkingOf(o, c, s, b) + WorkingOf(o, c, s, b)'
<1> DEFINE f == [x \in Items |-> WorkingOf(x, c, s, b)]
           g == [x \in Items |-> WorkingOf(x, c, s, b)']
<1>1. \A x \in Items : f[x] \in Int /\ g[x] \in Int /\ (x # o => f[x] = g[x])
  <2>1. \A x \in Items : WorkingOf(x, c, s, b) \in Nat /\ WorkingOf(x, c, s, b)' \in Nat
    BY DEF TypeOK, WorkingOf
  <2>2. QED
    BY <2>1
<1>2. f[o] = WorkingOf(o, c, s, b) /\ g[o] = WorkingOf(o, c, s, b)'
  OBVIOUS
<1>3. SumFunctionOnSet(g, Items) = SumFunctionOnSet(f, Items) - f[o] + g[o]
  <2> HIDE DEF f, g
  <2>1. QED
    BY <1>1, ItemSumChange
<1>4. Working(c, s, b) = SumFunctionOnSet(f, Items)
      /\ Working(c, s, b)' = SumFunctionOnSet(g, Items)
  BY DEF Working
<1>5. QED
  BY <1>2, <1>3, <1>4

\* Which buckets an item can close on which markets.
OtherBucket(c, b) == IF MarketOf[c] \in ByDay THEN b = "both" ELSE b \in {"yd", "td"}

\* No item closes a bucket its market does not have.
LEMMA WrongBucket ==
  ASSUME NEW o \in Items, NEW oc \in Flags, NEW b, OtherBucket(Code(o), b),
         Market(o) \notin ByDay => oc \in {"auto", "open", "close"}
  PROVE  Bucket(Market(o), oc) # b
<1>1. Market(o) \in Markets /\ Market(o) = MarketOf[Code(o)]
  BY ItemFacts DEF Market
<1>2. CASE Market(o) \in ByDay
  BY <1>1, <1>2, BucketByDay DEF OtherBucket
<1>3. CASE Market(o) \notin ByDay
  BY <1>1, <1>3, BucketByDay DEF OtherBucket
<1>4. QED
  BY <1>2, <1>3

\* So nothing works on such a bucket.
LEMMA NoWorkingNext ==
  ASSUME TypeOK', PlainInv', NEW c \in Codes, NEW s, NEW b, OtherBucket(c, b)
  PROVE  Working(c, s, b)' = 0
<1> DEFINE f == [x \in Items |-> WorkingOf(x, c, s, b)']
<1>1. ASSUME NEW x \in Items PROVE f[x] = 0
  <2>1. ocFlag'[x] \in Flags /\ (Market(x) \notin ByDay => ocFlag'[x] \in {"auto", "open", "close"})
    BY DEF TypeOK, PlainInv, Market, Code
  <2>2. ~ Closes(x, c, s, b)'
    BY <2>1, WrongBucket DEF Closes, Code, Market
  <2>3. QED
    BY <2>2 DEF WorkingOf
<1>2. SumFunctionOnSet(f, Items) = 0
  <2> HIDE DEF f
  <2>1. QED
    BY <1>1, ItemsFinite, SumZero
<1>3. QED
  BY <1>2 DEF Working

\* What the counter compares an order with is the working volume of its rivals.
LEMMA CoveredIs ==
  ASSUME TypeOK, NEW o \in Items
  PROVE  LET b == Bucket(Market(o), ocFlag[o])
             s == Side(Bs(o), ocFlag[o])
         IN Covered(o) <=>
              (ocFlag[o] # "open" =>
                 Volume(o) + Working(Code(o), s, b) <= RealBucket(held[Code(o)][s], b))
<1> DEFINE b == Bucket(Market(o), ocFlag[o])
           c == Code(o)
           s == Side(Bs(o), ocFlag[o])
           T == {x \in Items : rest[x] > 0 /\ Closes(x, c, s, b)}
           f == [x \in Items |-> IF x \in T THEN rest[x] ELSE 0]
           g == [x \in Items |-> WorkingOf(x, c, s, b)]
<1>1. \A x \in Items : f[x] = g[x] /\ f[x] \in Int /\ rest[x] \in Int
  BY DEF TypeOK, WorkingOf
<1>2. SumFunctionOnSet(rest, T) = SumFunctionOnSet(f, Items)
  <2>1. T \in SUBSET Items /\ \A x \in T : rest[x] \in Int
    BY <1>1
  <2> HIDE DEF T
  <2>2. QED
    BY <2>1, ItemsFinite, SumWhere
<1>3. SumFunctionOnSet(f, Items) = SumFunctionOnSet(g, Items)
  <2> HIDE DEF f, g
  <2>1. QED
    BY <1>1, ItemsFinite, SumSame
<1>4. SumFunctionOnSet(rest, T) = Working(c, s, b)
  BY <1>2, <1>3 DEF Working
<1>5. Covered(o) <=>
        (ocFlag[o] # "open" => Volume(o) + SumFunctionOnSet(rest, T) <= RealBucket(held[c][s], b))
  BY DEF Covered
<1> HIDE DEF T, f, g
<1>6. QED
  BY <1>4, <1>5

\* What is held of a bucket is a natural number.
LEMMA RealBucketType ==
  ASSUME NEW h \in Holding, NEW b
  PROVE  RealBucket(h, b) \in Nat
  BY DEF RealBucket, Holding

\* The real position stays enough for everything that works on it.
LEMMA HeldStep ==
  ASSUME TypeOK, TypeOK', Places, ItemInv, PlainInv, PlainInv', HeldCovers, [Next]_vars
  PROVE  HeldCovers'
<1> SUFFICES ASSUME NEW c \in Codes, NEW s \in Sides, NEW b \in {"yd", "td", "both"}
             PROVE  Working(c, s, b)' <= RealBucket(held'[c][s], b)
  BY DEF HeldCovers, RealBucket
<1>1. Working(c, s, b) <= RealBucket(held[c][s], b)
  BY DEF HeldCovers
<1>2. /\ held[c][s] \in Holding /\ held'[c][s] \in Holding
      /\ RealBucket(held[c][s], b) \in Nat /\ RealBucket(held'[c][s], b) \in Nat
  <2>1. held[c][s] \in Holding /\ held'[c][s] \in Holding
    BY DEF TypeOK
  <2>2. QED
    BY <2>1, RealBucketType
<1>3. Working(c, s, b) \in Nat /\ \A x \in Items : WorkingOf(x, c, s, b) \in Nat
  BY WorkingFacts
<1>4. CASE OtherBucket(c, b)
  <2>1. Working(c, s, b)' = 0
    BY <1>4, NoWorkingNext
  <2>2. QED
    BY <1>2, <2>1
<1>5. ASSUME NEW o \in Items, rest[o] = 0, rest'[o] = 0,
             \A x \in Items : rest'[x] = rest[x] /\ (x # o => ocFlag'[x] = ocFlag[x]),
             held' = held
      PROVE  Working(c, s, b)' <= RealBucket(held'[c][s], b)
  <2>1. \A x \in Items : WorkingOf(x, c, s, b)' = WorkingOf(x, c, s, b)
    BY <1>5 DEF WorkingOf, Closes, Code, Bs
  <2>2. Working(c, s, b)' = Working(c, s, b)
    BY <1>3, <2>1, WorkingChange
  <2>3. QED
    BY <1>1, <1>5, <2>2
<1>6. ASSUME UNCHANGED <<rest, held, ocFlag>>
      PROVE  Working(c, s, b)' <= RealBucket(held'[c][s], b)
  <2>1. \A x \in Items : WorkingOf(x, c, s, b)' = WorkingOf(x, c, s, b)
    BY <1>6 DEF WorkingOf, Closes, Code, Bs
  <2>2. Working(c, s, b)' = Working(c, s, b)
    BY <2>1 DEF Working
  <2>3. QED
    BY <1>1, <1>6, <2>2
<1>7. ASSUME FreezeItem PROVE Working(c, s, b)' <= RealBucket(held'[c][s], b)
  <2>1. PICK o \in Items, oc \in Flags \ {"auto"}, p \in Position, q \in Position :
          Froze(o, oc, p, q)
    BY <1>7, FreezeFacts DEF Places
  <2>2. rest' = rest /\ held' = held
    BY <1>7 DEF FreezeItem, counterVars
  <2>3. rest[o] = 0
    BY <2>1 DEF Froze, ItemInv
  <2>4. \A x \in Items : x # o => ocFlag'[x] = ocFlag[x]
    BY <2>1 DEF Froze, TypeOK
  <2>5. QED
    BY <1>5, <2>2, <2>3, <2>4
<1>8. ASSUME CounterAccepts PROVE Working(c, s, b)' <= RealBucket(held'[c][s], b)
  <2>1. PICK h \in Items : h = Head(toCounter) /\ stage[h] = "sent"
    BY <1>8, HeadFacts DEF Places, CounterAccepts
  <2>2. rest' = [rest EXCEPT ![h] = Volume(h)] /\ held' = held /\ ocFlag' = ocFlag /\ Covered(h)
    BY <1>8, <2>1 DEF CounterAccepts
  <2>3. rest[h] = 0 /\ rest'[h] = Volume(h) /\ \A x \in Items : x # h => rest'[x] = rest[x]
    BY <2>1, <2>2 DEF ItemInv, TypeOK
  <2>4. \A x \in Items : x # h => WorkingOf(x, c, s, b)' = WorkingOf(x, c, s, b)
    BY <2>2, <2>3 DEF WorkingOf, Closes, Code, Bs
  <2>5. Working(c, s, b)' = Working(c, s, b) - WorkingOf(h, c, s, b) + WorkingOf(h, c, s, b)'
    BY <2>1, <2>4, WorkingChange
  <2>6. WorkingOf(h, c, s, b) = 0
    BY <2>3 DEF WorkingOf
  <2>7. CASE Closes(h, c, s, b)
    <3>1. /\ c = Code(h) /\ s = Side(Bs(h), ocFlag[h]) /\ b = Bucket(Market(h), ocFlag[h])
          /\ ocFlag[h] # "open"
      BY <2>7 DEF Closes, Market
    <3>2. Volume(h) + Working(c, s, b) <= RealBucket(held[c][s], b)
      BY <2>1, <2>2, <3>1, CoveredIs
    <3>3. WorkingOf(h, c, s, b)' = Volume(h)
      BY <2>2, <2>3, <2>7 DEF WorkingOf, Closes, Code, Bs, Volume
    <3>4. Volume(h) \in Nat
      BY <2>1, ItemFacts
    <3>5. QED
      BY <1>3, <2>2, <2>5, <2>6, <3>2, <3>3, <3>4
  <2>8. CASE ~ Closes(h, c, s, b)
    <3>1. WorkingOf(h, c, s, b)' = 0
      BY <2>2, <2>8 DEF WorkingOf, Closes, Code, Bs
    <3>2. QED
      BY <1>1, <1>3, <2>2, <2>5, <2>6, <3>1
  <2>9. QED
    BY <2>7, <2>8
<1>9. ASSUME NEW x \in Items, NEW v \in 1 .. Volume(x), Trade(x, v)
      PROVE  Working(c, s, b)' <= RealBucket(held'[c][s], b)
  <2> DEFINE d == Code(x)
             t == Side(Bs(x), ocFlag[x])
             a == Bucket(Market(x), ocFlag[x])
             h == held[d][t]
             n == Traded(h, ocFlag[x], a, v)
  <2>1. v \in Nat \ {0} /\ rest[x] \in Nat /\ v <= rest[x]
    BY <1>9, ItemFacts DEF Trade, TypeOK
  <2>2. /\ rest' = [rest EXCEPT ![x] = @ - v] /\ ocFlag' = ocFlag
        /\ held' = [held EXCEPT ![d][t] = n]
    BY <1>9 DEF Trade
  <2>3. d \in Codes /\ t \in Sides
    BY ItemFacts, SideType
  <2>4. /\ n \in Holding /\ h \in Holding /\ ocFlag[x] # "auto"
        /\ ocFlag[x] = "open" => n.yd = h.yd /\ n.td = h.td + v
        /\ ocFlag[x] # "open" =>
             /\ a \in {"yd", "td", "both"} /\ n.yd + n.td = h.yd + h.td - v
             /\ a = "yd" => n.yd = h.yd - v /\ n.td = h.td
             /\ a = "td" => n.td = h.td - v /\ n.yd = h.yd
    BY <2>1, TradedFacts
  <2>5. held'[c][s] = IF c = d /\ s = t THEN n ELSE held[c][s]
    <3> HIDE DEF d, t, n
    <3>1. QED
      BY <2>2, <2>3 DEF TypeOK
  <2>6. rest'[x] = rest[x] - v /\ \A y \in Items : y # x => rest'[y] = rest[y]
    BY <2>2 DEF TypeOK
  <2>7. \A y \in Items : y # x => WorkingOf(y, c, s, b)' = WorkingOf(y, c, s, b)
    BY <2>2, <2>6 DEF WorkingOf, Closes, Code, Bs
  <2>8. Working(c, s, b)' = Working(c, s, b) - WorkingOf(x, c, s, b) + WorkingOf(x, c, s, b)'
    BY <2>7, WorkingChange
  <2>9. Closes(x, c, s, b) <=> ocFlag[x] # "open" /\ c = d /\ s = t /\ b = a
    BY DEF Closes, Market
  <2>10. /\ Closes(x, c, s, b) => /\ WorkingOf(x, c, s, b) = rest[x]
                                  /\ WorkingOf(x, c, s, b)' = rest[x] - v
         /\ ~ Closes(x, c, s, b) => WorkingOf(x, c, s, b) = 0 /\ WorkingOf(x, c, s, b)' = 0
    BY <2>2, <2>6 DEF WorkingOf, Closes, Code, Bs
  <2>11. OtherBucket(c, b) \/ (c = d /\ ocFlag[x] # "open" => a = b \/ {a, b} = {"yd", "td"})
    <3>1. ocFlag[x] \in Flags /\ (Market(x) \notin ByDay => ocFlag[x] \in {"auto", "open", "close"})
      BY DEF TypeOK, PlainInv
    <3>2. c = d /\ ocFlag[x] # "open" => ~ OtherBucket(c, a)
      BY <3>1, WrongBucket
    <3>3. QED
      BY <2>4, <3>2 DEF OtherBucket
  <2>12. h.yd \in Nat /\ h.td \in Nat /\ n.yd \in Nat /\ n.td \in Nat
    BY <2>4 DEF Holding
  <2> HIDE DEF d, t, a, h, n
  <2>13. CASE Closes(x, c, s, b)
    <3>1. Working(c, s, b)' = Working(c, s, b) - v
      BY <1>3, <2>1, <2>8, <2>10, <2>13
    <3>2. held[c][s] = h /\ held'[c][s] = n
      BY <2>5, <2>9, <2>13 DEF h
    <3>3. RealBucket(n, b) = RealBucket(h, b) - v
      BY <2>4, <2>9, <2>12, <2>13 DEF RealBucket
    <3>4. Working(c, s, b)' \in Int /\ v \in Int /\ RealBucket(h, b) \in Int
      BY <1>2, <1>3, <2>1, <3>1, <3>2
    <3>5. QED
      BY <1>1, <1>3, <3>1, <3>2, <3>3, <3>4
  <2>14. CASE ~ Closes(x, c, s, b)
    <3>1. Working(c, s, b)' = Working(c, s, b)
      BY <1>3, <2>8, <2>10, <2>14
    <3>2. CASE c = d /\ s = t
      <4>1. held[c][s] = h /\ held'[c][s] = n
        BY <2>5, <3>2 DEF h
      <4>2. RealBucket(n, b) >= RealBucket(h, b) \/ OtherBucket(c, b)
        <5>1. CASE ocFlag[x] = "open"
          BY <2>1, <2>4, <2>12, <5>1 DEF RealBucket
        <5>2. CASE ocFlag[x] # "open"
          BY <2>4, <2>9, <2>11, <2>12, <2>14, <3>2, <5>2 DEF RealBucket
        <5>3. QED
          BY <5>1, <5>2
      <4>3. QED
        BY <1>1, <1>2, <1>3, <1>4, <3>1, <4>1, <4>2
    <3>3. CASE ~ (c = d /\ s = t)
      BY <1>1, <2>5, <3>1, <3>3
    <3>4. QED
      BY <3>2, <3>3
  <2>15. QED
    BY <2>13, <2>14
<1>10. ASSUME NEW x \in Items, Withdraw(x) PROVE Working(c, s, b)' <= RealBucket(held'[c][s], b)
  <2>1. rest' = [rest EXCEPT ![x] = 0] /\ ocFlag' = ocFlag /\ held' = held
    BY <1>10 DEF Withdraw
  <2>2. rest'[x] = 0 /\ \A y \in Items : y # x => rest'[y] = rest[y]
    BY <2>1 DEF TypeOK
  <2>3. \A y \in Items : y # x => WorkingOf(y, c, s, b)' = WorkingOf(y, c, s, b)
    BY <2>1, <2>2 DEF WorkingOf, Closes, Code, Bs
  <2>4. Working(c, s, b)' = Working(c, s, b) - WorkingOf(x, c, s, b) + WorkingOf(x, c, s, b)'
    BY <2>3, WorkingChange
  <2>5. WorkingOf(x, c, s, b)' = 0
    BY <2>2 DEF WorkingOf
  <2>6. WorkingOf(x, c, s, b) \in Nat
    BY <1>3
  <2>7. QED
    BY <1>1, <1>2, <1>3, <2>1, <2>4, <2>5, <2>6
<1>11. QED
  <2>1. \A r \in Requests : SendTradeOrder(r) => Working(c, s, b)' <= RealBucket(held'[c][s], b)
    BY <1>6 DEF SendTradeOrder, counterVars
  <2>2. \/ UNCHANGED vars \/ Throw \/ OnTradeOrder \/ HandleTradeOrderRep
        \/ ReleaseItem \/ ReplyDone \/ SendTradeKnock \/ CounterRefuses
        => Working(c, s, b)' <= RealBucket(held'[c][s], b)
    BY <1>6 DEF vars, Throw, OnTradeOrder, HandleTradeOrderRep, ReleaseItem, ReplyDone,
                SendTradeKnock, CounterRefuses, counterVars
  <2>3. \A x \in Items : (\E v \in 1 .. Volume(x) : Trade(x, v))
          => Working(c, s, b)' <= RealBucket(held'[c][s], b)
    BY <1>9
  <2>4. QED
    BY <1>7, <1>8, <1>10, <2>1, <2>2, <2>3, NextCases

-----------------------------------------------------------------------------
(* The types, with what they rest on. *)

TypeInv ==
  /\ TypeOK /\ Places /\ ItemInv /\ PlainInv /\ KnockInv /\ HeldCovers /\ TotalsInv

HeldOn(h) == [e \in Codes \X Sides |-> h[e[1]][e[2]].td]

\* What is held since today, over the codes of a type, is a natural number.
LEMMA TodayFacts ==
  ASSUME NEW h \in [Codes -> [Sides -> Holding]], NEW t
  PROVE  /\ IsFiniteSet(CodesOf(t) \X Sides)
         /\ \A e \in CodesOf(t) \X Sides : HeldOn(h)[e] \in Nat
         /\ SumFunctionOnSet(HeldOn(h), CodesOf(t) \X Sides) \in Nat
<1> DEFINE f == HeldOn(h)
           S == CodesOf(t) \X Sides
<1>1. IsFiniteSet(S)
  <2>1. IsFiniteSet(CodesOf(t))
    <3>1. CodesOf(t) \in SUBSET Codes
      BY DEF CodesOf
    <3>2. IsFiniteSet(Codes)
      BY FutureMasterAssumption
    <3>3. QED
      BY <3>1, <3>2, FS_Subset
  <2>2. IsFiniteSet(Sides)
    <3>1. IsFiniteSet({"long"}) /\ Sides = {"long"} \cup {"short"}
      BY FS_Singleton DEF Sides
    <3>2. QED
      BY <3>1, FS_AddElement
  <2>3. QED
    BY <2>1, <2>2, FS_Product
<1>2. \A e \in S : f[e] \in Nat
  <2> SUFFICES ASSUME NEW e \in S PROVE f[e] \in Nat
    OBVIOUS
  <2>1. e[1] \in Codes /\ e[2] \in Sides /\ e \in Codes \X Sides
    BY DEF CodesOf
  <2>2. h[e[1]][e[2]] \in Holding
    BY <2>1
  <2>3. h[e[1]][e[2]].td \in Nat
    BY <2>2 DEF Holding
  <2>4. QED
    BY <2>1, <2>3 DEF HeldOn
<1>3. SumFunctionOnSet(f, S) \in Nat
  <2> HIDE DEF f, S
  <2>1. QED
    BY <1>1, <1>2, SumNat
<1>4. QED
  BY <1>1, <1>2, <1>3

\* The types hold at the start.
LEMMA InitTypes == Init => TypeOK
<1> SUFFICES ASSUME Init PROVE TypeOK
  OBVIOUS
<1>1. held \in [Codes -> [Sides -> Holding]]
  BY FutureMasterAssumption DEF Init
<1>2. position \in [Codes -> [Sides -> Position]]
  <2>1. \A c \in Codes : \A s \in Sides : InitPosition(Holdings[c][s]) \in Position
    <3> TAKE c \in Codes
    <3> TAKE s \in Sides
    <3>1. Holdings[c][s] \in Holding
      BY FutureMasterAssumption
    <3>2. QED
      BY <3>1 DEF Holding, InitPosition, Position
  <2>2. QED
    BY <2>1 DEF Init
<1>3. openCache \in [Types -> Nat]
  <2>1. \A t \in Types : HeldToday(t) \in Nat
    BY <1>1, TodayFacts DEF HeldToday, HeldOn
  <2>2. QED
    BY <2>1 DEF Init
<1>4. task \in Task
  BY DEF Init, Task, Idle
<1>5. ocFlag \in [Items -> Flags] /\ stage \in [Items -> Stages] /\ rest \in [Items -> Nat]
  BY ItemFacts DEF Init, Stages
<1>6. /\ knocks \subseteq Items \X Nat /\ sent \subseteq Requests /\ replies \subseteq Seq(Items)
      /\ toCounter \in Seq(Items) /\ pushed \subseteq Knock
  BY DEF Init
<1>7. QED
  BY <1>1, <1>2, <1>3, <1>4, <1>5, <1>6 DEF TypeOK

\* So does what they rest on.
LEMMA InitTypeInv == PlainFlags /\ Init => TypeInv
<1> SUFFICES ASSUME PlainFlags, Init PROVE TypeInv
  OBVIOUS
<1>1. TypeOK
  BY InitTypes
<1>2. Places
  <2>1. task.items = <<>> /\ task.next = 1 /\ task.kind = "idle" /\ DOMAIN <<>> = {}
    BY DEF Init, Idle
  <2>2. CounterWhereabouts /\ ReplyWhereabouts
    BY DEF Init, CounterWhereabouts, ReplyWhereabouts, Distinct
  <2>3. TaskWhereabouts
    BY <2>1 DEF Init, TaskWhereabouts, Distinct
  <2>4. QED
    BY <2>2, <2>3 DEF Places
<1>3. ItemInv /\ PlainInv
  BY DEF Init, ItemInv, PlainInv, PlainFlags
<1>4. KnockInv
  BY FS_EmptySet DEF Init, KnockInv
<1>5. HeldCovers
  <2> SUFFICES ASSUME NEW c \in Codes, NEW s \in Sides, NEW b \in {"yd", "td", "both"}
               PROVE  Working(c, s, b) <= RealBucket(held[c][s], b)
    BY DEF HeldCovers
  <2> DEFINE f == [x \in Items |-> WorkingOf(x, c, s, b)]
  <2>1. \A x \in Items : f[x] = 0
    BY DEF Init, WorkingOf
  <2>2. SumFunctionOnSet(f, Items) = 0
    <3> HIDE DEF f
    <3>1. QED
      BY <2>1, ItemsFinite, SumZero
  <2>3. Working(c, s, b) = 0
    BY <2>2 DEF Working
  <2>4. held[c][s] \in Holding
    BY <1>1 DEF TypeOK
  <2>5. QED
    BY <2>3, <2>4, RealBucketType
<1>6. TotalsInv
  <2> SUFFICES ASSUME NEW c \in Codes, NEW s \in Sides
               PROVE  position[c][s].tdClosing >= 0 /\ TdAvailable(position[c][s]) >= 0
    BY DEF TotalsInv
  <2>1. Holdings[c][s] \in Holding
    BY FutureMasterAssumption
  <2>2. position[c][s] = InitPosition(Holdings[c][s])
    BY DEF Init
  <2>3. QED
    BY <2>1, <2>2 DEF Holding, InitPosition, TdAvailable
<1>7. QED
  BY <1>1, <1>2, <1>3, <1>4, <1>5, <1>6 DEF TypeInv

\* Every step keeps the types and what they rest on.
LEMMA TypeInvStep == PlainFlags /\ TypeInv /\ [Next]_vars => TypeInv'
<1> SUFFICES ASSUME PlainFlags, TypeInv, [Next]_vars PROVE TypeInv'
  OBVIOUS
<1> USE DEF TypeInv
<1>1. TypeOK'
  BY TypeStep DEF Places
<1>2. Places'
  BY CounterStep, ReplyStep, TaskStep DEF Places
<1>3. ItemInv' /\ KnockInv'
  BY ItemStep, KnockStep
<1>4. PlainInv'
  BY PlainStep
<1>5. TotalsInv'
  BY TotalsStep DEF Places
<1>6. HeldCovers'
  BY <1>1, <1>4, HeldStep
<1>7. QED
  BY <1>1, <1>2, <1>3, <1>4, <1>5, <1>6

\* Type correctness: volumes booked as opened or closed, and what the counter holds, are
\* never negative (inner_future_master.h:40-51), whatever the requests, the flags they
\* ask for (but see PlainFlags), the holdings and the order of the counter's messages.
THEOREM FutureTypeCorrect == PlainFlags => (Spec => []TypeOK)
<1> SUFFICES ASSUME PlainFlags PROVE Spec => []TypeOK
  OBVIOUS
<1>1. Init => TypeInv
  BY InitTypeInv
<1>2. TypeInv /\ [Next]_vars => TypeInv'
  BY TypeInvStep
<1>3. TypeInv => TypeOK
  BY DEF TypeInv
<1>4. QED
  BY <1>1, <1>2, <1>3, PTL DEF Spec

-----------------------------------------------------------------------------
(* The reply to a request the master threw out releases nothing it never froze. *)

\* No item becomes new again.
LEMMA StageStep ==
  ASSUME TypeOK, Places, [Next]_vars, NEW o \in Items, stage'[o] = "new"
  PROVE  stage[o] = "new"
<1>1. ASSUME stage' = stage PROVE stage[o] = "new"
  BY <1>1
<1>2. ASSUME NEW x \in Items, NEW new, new # "new", stage' = [stage EXCEPT ![x] = new]
      PROVE  stage[o] = "new"
  BY <1>2 DEF TypeOK
<1>3. FreezeItem => stage[o] = "new"
  BY <1>2, CurrentFacts DEF FreezeItem, Places
<1>4. ReleaseItem => stage[o] = "new"
  BY <1>2, CurrentFacts DEF ReleaseItem, Places
<1>5. CounterAccepts \/ CounterRefuses => stage[o] = "new"
  BY <1>2, HeadFacts DEF CounterAccepts, CounterRefuses, Places
<1>6. OnTradeOrder => stage[o] = "new"
  BY DEF OnTradeOrder
<1>7. QED
  <2>1. \A r \in Requests : SendTradeOrder(r) => stage[o] = "new"
    BY <1>1 DEF SendTradeOrder
  <2>2. UNCHANGED vars \/ Throw \/ HandleTradeOrderRep \/ ReplyDone \/ SendTradeKnock
        => stage[o] = "new"
    BY <1>1 DEF vars, Throw, HandleTradeOrderRep, ReplyDone, SendTradeKnock
  <2>3. \A x \in Items : (\E v \in 1 .. Volume(x) : Trade(x, v)) \/ Withdraw(x)
          => stage[o] = "new"
    BY <1>1 DEF Trade, Withdraw
  <2>4. QED
    BY <1>3, <1>4, <1>5, <1>6, <2>1, <2>2, <2>3, NextCases

\* An item that a reply could release without its having been frozen stays harmless.
LEMMA HarmlessStep ==
  ASSUME TypeOK, Places, [Next]_vars, NEW o \in Items, Harmless(o), o # Current \/ ~ FreezeItem
  PROVE  Harmless(o)'
<1>1. stage'[o] = "new" => stage[o] = "new"
  BY StageStep
<1>2. ocFlag'[o] = ocFlag[o]
  <2>1. CASE ocFlag' = ocFlag
    BY <2>1
  <2>2. CASE FreezeItem
    BY <2>2, CurrentFacts DEF FreezeItem, TypeOK, Places
  <2>3. QED
    BY <2>1, <2>2, FlagStep
<1>3. QED
  BY <1>1, <1>2 DEF Harmless

\* Where a reply that waits comes from.
LEMMA NewReplies ==
  ASSUME [Next]_vars, NEW p \in replies'
  PROVE  \/ p \in replies
         \/ Throw /\ p = task.items
         \/ CounterRefuses /\ p = <<Head(toCounter)>>
BY DEF Next, Broker, Counter, vars, SendTradeOrder, FreezeItem, Throw, OnTradeOrder,
       HandleTradeOrderRep, ReleaseItem, ReplyDone, SendTradeKnock, CounterAccepts, CounterRefuses,
       Trade, Withdraw

\* Where the reply in progress comes from.
LEMMA NewReplyTask ==
  ASSUME TypeOK, [Next]_vars, task'.kind = "reply"
  PROVE  task'.items \in replies \/ (task.kind = "reply" /\ task'.items = task.items)
<1>1. FreezeItem \/ ReleaseItem => task.kind = "reply" /\ task'.items = task.items
  BY NextItemFacts DEF FreezeItem, ReleaseItem
<1>2. task' = task => task.kind = "reply" /\ task'.items = task.items
  OBVIOUS
<1>3. task' # Idle
  BY DEF Idle
<1>4. HandleTradeOrderRep => task'.items \in replies
  BY DEF HandleTradeOrderRep
<1>5. \A r \in Requests : ~ SendTradeOrder(r)
  BY DEF SendTradeOrder
<1>6. UNCHANGED vars \/ SendTradeKnock \/ CounterAccepts \/ CounterRefuses => task' = task
  BY DEF vars, SendTradeKnock, CounterAccepts, CounterRefuses
<1>7. \A o \in Items : (\E v \in 1 .. Volume(o) : Trade(o, v)) \/ Withdraw(o) => task' = task
  BY DEF Trade, Withdraw
<1>8. ~ Throw /\ ~ OnTradeOrder /\ ~ ReplyDone
  BY <1>3 DEF Throw, OnTradeOrder, ReplyDone
<1>9. QED
  BY <1>1, <1>2, <1>4, <1>5, <1>6, <1>7, <1>8 DEF Next, Broker, Counter

\* A request that is thrown was stopped by the limit, or has been frozen altogether.
LEMMA ThrowHarmless ==
  ASSUME LimitSparesClosing, TypeOK, Places, ItemInv, Throw, NEW i \in DOMAIN task.items
  PROVE  Harmless(task.items[i])
<1>1. PICK o \in Items : o = task.items[i]
  BY TaskItems
<1>2. SUFFICES ASSUME stage[o] = "new" PROVE ocFlag[o] \in {"auto", "open"}
  BY <1>1 DEF Harmless
<1>3. ocFlag[o] = Asked(o)
  BY <1>2 DEF ItemInv
<1>4. task.kind = "order"
  BY DEF Throw, Looping, LoopEnded
<1>5. CASE Looping("order") /\ BeyondOpeningLimit(Current)
  <2>1. PICK x \in Items : x = Current
    BY <1>5, CurrentType
  <2>2. Market(x) = "CFFEX" /\ MaxTodayOpening >= 0
    BY <1>5, <2>1 DEF BeyondOpeningLimit
  <2>3. x[1] = o[1]
    BY <1>1, <1>4, <1>5, <2>1, CurrentType DEF Places, TaskWhereabouts
  <2>4. Asked(o) \in {"auto", "open"}
    BY <2>2, <2>3 DEF LimitSparesClosing
  <2>5. QED
    BY <1>3, <2>4
<1>6. CASE LoopEnded("order")
  <2>1. i < task.next
    <3>1. task.items \in Seq(Items) /\ task.next \in Nat /\ task.next >= 1
      BY DEF TypeOK, Task, Places, TaskWhereabouts
    <3>2. task.next \notin DOMAIN task.items
      BY <1>6 DEF LoopEnded
    <3>3. QED
      BY <3>1, <3>2
  <2>2. stage[o] = "frozen"
    BY <1>1, <1>4, <2>1 DEF Places, TaskWhereabouts
  <2>3. QED
    BY <1>2, <2>2
<1>7. QED
  BY <1>5, <1>6 DEF Throw

\* What replies may release stays harmless.
LEMMA ThrownStep ==
  ASSUME LimitSparesClosing, TypeOK, Places, ItemInv, ThrownInv, [Next]_vars
  PROVE  ThrownInv'
<1>1. ASSUME NEW p \in replies, NEW i \in DOMAIN p PROVE Harmless(p[i])'
  <2>1. PICK o \in Items : o = p[i]
    BY DEF TypeOK
  <2>2. o # Current \/ ~ FreezeItem
    BY <2>1, CurrentFacts DEF FreezeItem, Places
  <2>3. Harmless(o)'
    BY <2>1, <2>2, HarmlessStep DEF ThrownInv
  <2>4. QED
    BY <2>1, <2>3
<1>2. ASSUME NEW p, p = task.items, task.kind = "reply" \/ Throw, NEW i \in DOMAIN p
      PROVE  Harmless(p[i])'
  <2>1. PICK o \in Items : o = p[i]
    BY <1>2, TaskItems
  <2>2. ~ FreezeItem \/ Throw
    BY <1>2 DEF FreezeItem, Looping
  <2>3. Harmless(o)
    BY <1>2, <2>1, ThrowHarmless DEF ThrownInv
  <2>4. ~ (Throw /\ FreezeItem)
    <3>1. Throw => task' = Idle
      BY DEF Throw
    <3>2. FreezeItem => task'.kind = "order"
      BY NextItemFacts DEF FreezeItem, Looping
    <3>3. QED
      BY <3>1, <3>2 DEF Idle
  <2>5. Harmless(o)'
    BY <2>2, <2>3, <2>4, HarmlessStep
  <2>6. QED
    BY <2>1, <2>5
<1>3. ASSUME NEW p, p = <<Head(toCounter)>>, CounterRefuses, NEW i \in DOMAIN p
      PROVE  Harmless(p[i])'
  <2>1. PICK h \in Items : h = Head(toCounter)
    BY <1>3, HeadFacts DEF CounterRefuses, Places
  <2>2. p[i] = h
    BY <1>3, <2>1
  <2>3. stage'[h] = "refused"
    BY <1>3, <2>1 DEF CounterRefuses, TypeOK
  <2>4. QED
    BY <2>2, <2>3 DEF Harmless
<1>4. ASSUME NEW p \in replies', NEW i \in DOMAIN p PROVE Harmless(p[i])'
  BY <1>1, <1>2, <1>3, <1>4, NewReplies
<1>5. ASSUME task'.kind = "reply", NEW p, p = task'.items, NEW i \in DOMAIN p
      PROVE  Harmless(p[i])'
  BY <1>1, <1>2, <1>5, NewReplyTask
<1>6. QED
  <2>1. \A p \in replies' : \A i \in DOMAIN p : Harmless(p[i])'
    BY <1>4
  <2>2. task'.kind = "reply" => \A i \in DOMAIN task'.items : Harmless(task.items[i])'
    BY <1>5 DEF Harmless
  <2>3. QED
    BY <2>1, <2>2 DEF ThrownInv, Harmless

-----------------------------------------------------------------------------
(* Volumes of knocks: what a knock adds when it is pushed, and what it takes
   away when it is handled. *)

Volumes(P) == [k \in P |-> k.volume]
VolumeOf(P, T) == SumFunctionOnSet(Volumes(P), T)

\* The volume of some of the knocks is a natural number.
LEMMA VolumeType ==
  ASSUME NEW P \in SUBSET Knock, IsFiniteSet(P), NEW T \in SUBSET P
  PROVE  VolumeOf(P, T) \in Nat /\ IsFiniteSet(T) /\ \A k \in P : Volumes(P)[k] = k.volume
<1>1. \A k \in T : Volumes(P)[k] \in Nat
  BY DEF Volumes, Knock
<1>2. IsFiniteSet(T)
  BY FS_Subset
<1>3. VolumeOf(P, T) \in Nat
  BY <1>1, <1>2, SumNat DEF VolumeOf
<1>4. QED
  BY <1>2, <1>3 DEF Volumes

\* A new knock adds its volume to the sets it belongs to.
LEMMA VolumePushed ==
  ASSUME NEW P \in SUBSET Knock, IsFiniteSet(P), NEW T \in SUBSET P, NEW k \in Knock, k \notin P
  PROVE  /\ VolumeOf(P \cup {k}, T) = VolumeOf(P, T)
         /\ VolumeOf(P \cup {k}, T \cup {k}) = VolumeOf(P, T) + k.volume
<1> DEFINE f == Volumes(P)
           g == Volumes(P \cup {k})
<1>1. IsFiniteSet(T) /\ VolumeOf(P, T) \in Nat
  BY VolumeType
<1>2. \A l \in T : g[l] \in Int /\ g[l] = f[l]
  BY DEF Volumes, Knock
<1>3. \A l \in T \cup {k} : g[l] \in Int
  BY DEF Volumes, Knock
<1>4. g[k] = k.volume /\ k.volume \in Nat
  BY DEF Volumes, Knock
<1> HIDE DEF f, g
<1>5. SumFunctionOnSet(g, T) = SumFunctionOnSet(f, T)
  BY <1>1, <1>2, SumSame
<1>6. SumFunctionOnSet(g, T \cup {k}) = g[k] + SumFunctionOnSet(g, T)
  BY <1>1, <1>3, SumAdd
<1>7. QED
  BY <1>1, <1>4, <1>5, <1>6 DEF VolumeOf, f, g

\* Without one of its knocks a set has that volume less.
LEMMA VolumeHandled ==
  ASSUME NEW P \in SUBSET Knock, IsFiniteSet(P), NEW T \in SUBSET P, NEW k \in T
  PROVE  /\ VolumeOf(P, T \ {k}) = VolumeOf(P, T) - k.volume /\ k.volume <= VolumeOf(P, T)
<1>1. IsFiniteSet(T) /\ VolumeOf(P, T) \in Nat /\ VolumeOf(P, T \ {k}) \in Nat
  BY VolumeType
<1>2. \A l \in T : Volumes(P)[l] \in Int
  BY DEF Volumes, Knock
<1>3. VolumeOf(P, T) = Volumes(P)[k] + VolumeOf(P, T \ {k})
  BY <1>1, <1>2, SumRemove DEF VolumeOf
<1>4. Volumes(P)[k] = k.volume /\ k.volume \in Nat
  BY DEF Volumes, Knock
<1>5. QED
  BY <1>1, <1>3, <1>4

\* The knocks of an item that the master has yet to handle, and those that are trades.
Pending(o) == {k \in pushed : k.item = o /\ k.no \notin knocks}
PendingTrades(o) == {k \in pushed : k.item = o /\ k.trade /\ k.no \notin knocks}

\* What the master has not been told of an item, as volumes of pushed knocks.
LEMMA UndeliveredFacts ==
  ASSUME TypeOK, KnockInv, NEW o \in Items
  PROVE  /\ Undelivered(o) = VolumeOf(pushed, Pending(o)) /\ Undelivered(o) \in Nat
         /\ UntoldTrades(o) = VolumeOf(pushed, PendingTrades(o)) /\ UntoldTrades(o) \in Nat
<1>1. /\ Undelivered(o) = VolumeOf(pushed, Pending(o))
      /\ UntoldTrades(o) = VolumeOf(pushed, PendingTrades(o))
  BY DEF Undelivered, UntoldTrades, VolumeOf, Volumes, Pending, PendingTrades
<1>2. pushed \in SUBSET Knock /\ IsFiniteSet(pushed)
  BY DEF TypeOK, KnockInv
<1>3. Pending(o) \in SUBSET pushed /\ PendingTrades(o) \in SUBSET pushed
  BY DEF Pending, PendingTrades
<1>4. VolumeOf(pushed, Pending(o)) \in Nat /\ VolumeOf(pushed, PendingTrades(o)) \in Nat
  BY <1>2, <1>3, VolumeType
<1>5. QED
  BY <1>1, <1>4

\* The same after a step.
LEMMA UndeliveredNext ==
  ASSUME TypeOK', KnockInv', NEW o \in Items
  PROVE  /\ Undelivered(o)' = VolumeOf(pushed', Pending(o)') /\ Undelivered(o)' \in Nat
         /\ UntoldTrades(o)' = VolumeOf(pushed', PendingTrades(o)') /\ UntoldTrades(o)' \in Nat
<1>1. /\ Undelivered(o)' = VolumeOf(pushed', Pending(o)')
      /\ UntoldTrades(o)' = VolumeOf(pushed', PendingTrades(o)')
  BY DEF Undelivered, UntoldTrades, VolumeOf, Volumes, Pending, PendingTrades
<1>2. pushed' \in SUBSET Knock /\ IsFiniteSet(pushed')
  BY DEF TypeOK, KnockInv
<1>3. Pending(o)' \in SUBSET pushed' /\ PendingTrades(o)' \in SUBSET pushed'
  BY DEF Pending, PendingTrades
<1>4. VolumeOf(pushed', Pending(o)') \in Nat /\ VolumeOf(pushed', PendingTrades(o)') \in Nat
  BY <1>2, <1>3, VolumeType
<1>5. QED
  BY <1>1, <1>4

\* A knock pushed is untold of its item and of no other.
LEMMA Pushing ==
  ASSUME TypeOK, TypeOK', KnockInv, KnockInv', NEW k \in Knock, k \notin pushed, k.no \notin knocks,
         pushed' = pushed \cup {k}, knocks' = knocks, NEW o \in Items
  PROVE  /\ o # k.item => Undelivered(o)' = Undelivered(o) /\ UntoldTrades(o)' = UntoldTrades(o)
         /\ o = k.item => Undelivered(o)' = Undelivered(o) + k.volume
         /\ o = k.item /\ k.trade => UntoldTrades(o)' = UntoldTrades(o) + k.volume
         /\ o = k.item /\ ~ k.trade => UntoldTrades(o)' = UntoldTrades(o)
<1>1. pushed \in SUBSET Knock /\ IsFiniteSet(pushed)
  BY DEF TypeOK, KnockInv
<1>2. Pending(o) \in SUBSET pushed /\ PendingTrades(o) \in SUBSET pushed
  BY DEF Pending, PendingTrades
<1>3. /\ Pending(o)' = IF o = k.item THEN Pending(o) \cup {k} ELSE Pending(o)
      /\ PendingTrades(o)' = IF o = k.item /\ k.trade THEN PendingTrades(o) \cup {k}
                             ELSE PendingTrades(o)
  BY DEF Pending, PendingTrades
<1>4. /\ VolumeOf(pushed', Pending(o)) = VolumeOf(pushed, Pending(o))
      /\ VolumeOf(pushed', Pending(o) \cup {k}) = VolumeOf(pushed, Pending(o)) + k.volume
      /\ VolumeOf(pushed', PendingTrades(o)) = VolumeOf(pushed, PendingTrades(o))
      /\ VolumeOf(pushed', PendingTrades(o) \cup {k})
           = VolumeOf(pushed, PendingTrades(o)) + k.volume
  BY <1>1, <1>2, VolumePushed
<1>5. QED
  BY <1>3, <1>4, UndeliveredFacts, UndeliveredNext

\* A knock handled is no longer untold.
LEMMA Handling ==
  ASSUME TypeOK, TypeOK', KnockInv, KnockInv', NEW k \in pushed, k.no \notin knocks,
         knocks' = knocks \cup {k.no}, pushed' = pushed, NEW o \in Items
  PROVE  /\ o # k.item => Undelivered(o)' = Undelivered(o) /\ UntoldTrades(o)' = UntoldTrades(o)
         /\ o = k.item => Undelivered(o)' = Undelivered(o) - k.volume
                          /\ k.volume <= Undelivered(o)
         /\ o = k.item /\ k.trade => UntoldTrades(o)' = UntoldTrades(o) - k.volume
                                     /\ k.volume <= UntoldTrades(o)
         /\ o = k.item /\ ~ k.trade => UntoldTrades(o)' = UntoldTrades(o)
<1>1. pushed \in SUBSET Knock /\ IsFiniteSet(pushed) /\ \A l \in pushed : l.no = k.no => l = k
  BY DEF TypeOK, KnockInv
<1>2. Pending(o) \in SUBSET pushed /\ PendingTrades(o) \in SUBSET pushed
  BY DEF Pending, PendingTrades
<1>3. /\ Pending(o)' = IF o = k.item THEN Pending(o) \ {k} ELSE Pending(o)
      /\ PendingTrades(o)' = IF o = k.item /\ k.trade THEN PendingTrades(o) \ {k}
                             ELSE PendingTrades(o)
  BY <1>1 DEF Pending, PendingTrades
<1>4. /\ o = k.item => k \in Pending(o)
      /\ o = k.item /\ k.trade => k \in PendingTrades(o)
  BY DEF Pending, PendingTrades
<1>5. o = k.item => /\ VolumeOf(pushed, Pending(o) \ {k}) = VolumeOf(pushed, Pending(o)) - k.volume
                    /\ k.volume <= VolumeOf(pushed, Pending(o))
  BY <1>1, <1>2, <1>4, VolumeHandled
<1>6. o = k.item /\ k.trade =>
        /\ VolumeOf(pushed, PendingTrades(o) \ {k}) = VolumeOf(pushed, PendingTrades(o)) - k.volume
        /\ k.volume <= VolumeOf(pushed, PendingTrades(o))
  BY <1>1, <1>2, <1>4, VolumeHandled
<1>7. QED
  BY <1>3, <1>5, <1>6, UndeliveredFacts, UndeliveredNext

\* Without knocks pushed or handled nothing changes.
LEMMA SameKnocks ==
  ASSUME pushed' = pushed, knocks' = knocks, NEW o
  PROVE  Undelivered(o)' = Undelivered(o) /\ UntoldTrades(o)' = UntoldTrades(o)
  BY DEF Undelivered, UntoldTrades

-----------------------------------------------------------------------------
(* What is unsettled of an item changes only when the master freezes it,
   releases it or is told of a knock. *)

\* What is unsettled of an item is a natural number.
LEMMA UnsettledFacts ==
  ASSUME TypeOK, KnockInv, NEW o \in Items
  PROVE  Unsettled(o) \in Nat
<1>1. Volume(o) \in Nat /\ rest[o] \in Nat /\ Undelivered(o) \in Nat
  BY ItemFacts, UndeliveredFacts DEF TypeOK
<1>2. QED
  BY <1>1 DEF Unsettled

\* The same after a step.
LEMMA UnsettledNext ==
  ASSUME TypeOK', KnockInv', NEW o \in Items
  PROVE  Unsettled(o)' \in Nat
<1>1. Volume(o) \in Nat /\ rest'[o] \in Nat /\ Undelivered(o)' \in Nat
  BY ItemFacts, UndeliveredNext DEF TypeOK
<1>2. Unsettled(o)' \in Nat
  BY <1>1 DEF Unsettled, Volume
<1>3. QED
  BY <1>2

\* No knock of an item that has not worked is untold.
LEMMA NoKnockYet ==
  ASSUME TypeOK, KnockInv, ItemInv, NEW o \in Items, stage[o] # "working"
  PROVE  Undelivered(o) = 0 /\ UntoldTrades(o) = 0
<1>1. Pending(o) = {} /\ PendingTrades(o) = {}
  BY DEF Pending, PendingTrades, ItemInv
<1>2. VolumeOf(pushed, {}) = 0
  BY SumOfNone DEF VolumeOf
<1>3. QED
  BY <1>1, <1>2, UndeliveredFacts

\* The number of a new knock was never used: working volume only falls.
LEMMA NewKnock ==
  ASSUME TypeOK, ItemInv, KnockInv, NEW o \in Items, NEW k, rest[o] > 0,
         k.no = <<o, rest[o]>>, k.item = o
  PROVE  k \notin pushed /\ k.no \notin knocks
<1>1. rest[o] \in Nat /\ k.no[2] = rest[o]
  BY DEF TypeOK
<1>2. \A l \in pushed : l.no # k.no
  <2> SUFFICES ASSUME NEW l \in pushed, l.no = k.no PROVE FALSE
    OBVIOUS
  <2>1. l.item = o /\ l.no[2] > rest[l.item] /\ l.no[2] = rest[o]
    BY <1>1 DEF KnockInv
  <2>2. QED
    BY <1>1, <2>1
<1>3. QED
  BY <1>2 DEF KnockInv

\* A trade moves volume from working to untold.
LEMMA TradeFacts ==
  ASSUME TypeOK, TypeOK', ItemInv, KnockInv, KnockInv', NEW x \in Items, NEW v \in 1 .. Volume(x),
         Trade(x, v)
  PROVE  /\ stage[x] = "working" /\ v \in Nat \ {0} /\ v <= rest[x] /\ rest[x] \in Nat
         /\ rest'[x] = rest[x] - v /\ \A o \in Items : o # x => rest'[o] = rest[o]
         /\ Undelivered(x)' = Undelivered(x) + v /\ UntoldTrades(x)' = UntoldTrades(x) + v
         /\ \A o \in Items : o # x => Undelivered(o)' = Undelivered(o)
                                      /\ UntoldTrades(o)' = UntoldTrades(o)
<1> DEFINE kk == [no |-> <<x, rest[x]>>, item |-> x, trade |-> TRUE, volume |-> v]
<1>1. v \in Nat \ {0} /\ rest[x] \in Nat /\ v <= rest[x] /\ rest[x] > 0
  BY ItemFacts DEF Trade, TypeOK
<1>2. PICK k : k = kk
  OBVIOUS
<1>3. k.no = <<x, rest[x]>> /\ k.item = x /\ k.trade = TRUE /\ k.volume = v /\ k \in Knock
  <2>1. <<x, rest[x]>> \in Items \X Nat
    BY <1>1
  <2>2. QED
    BY <1>1, <1>2, <2>1 DEF Knock
<1>4. pushed' = pushed \cup {k} /\ knocks' = knocks
  BY <1>2 DEF Trade, masterVars
<1> HIDE DEF kk
<1>5. k \notin pushed /\ k.no \notin knocks
  BY <1>1, <1>3, NewKnock
<1>6. rest'[x] = rest[x] - v /\ \A o \in Items : o # x => rest'[o] = rest[o]
  BY DEF Trade, TypeOK
<1>7. stage[x] = "working"
  BY <1>1 DEF ItemInv
<1>8. QED
  BY <1>1, <1>3, <1>4, <1>5, <1>6, <1>7, Pushing

\* A withdrawal does, too, but it is not a trade.
LEMMA WithdrawFacts ==
  ASSUME TypeOK, TypeOK', ItemInv, KnockInv, KnockInv', NEW x \in Items, Withdraw(x)
  PROVE  /\ stage[x] = "working" /\ rest[x] \in Nat \ {0}
         /\ rest'[x] = 0 /\ \A o \in Items : o # x => rest'[o] = rest[o]
         /\ Undelivered(x)' = Undelivered(x) + rest[x]
         /\ \A o \in Items : o # x => Undelivered(o)' = Undelivered(o)
         /\ \A o \in Items : UntoldTrades(o)' = UntoldTrades(o)
<1> DEFINE kk == [no |-> <<x, rest[x]>>, item |-> x, trade |-> FALSE, volume |-> rest[x]]
<1>1. rest[x] \in Nat \ {0} /\ rest[x] > 0
  BY DEF Withdraw, TypeOK
<1>2. PICK k : k = kk
  OBVIOUS
<1>3. k.no = <<x, rest[x]>> /\ k.item = x /\ k.trade = FALSE /\ k.volume = rest[x] /\ k \in Knock
  <2>1. <<x, rest[x]>> \in Items \X Nat
    BY <1>1
  <2>2. QED
    BY <1>1, <1>2, <2>1 DEF Knock
<1>4. pushed' = pushed \cup {k} /\ knocks' = knocks
  BY <1>2 DEF Withdraw, masterVars
<1> HIDE DEF kk
<1>5. k \notin pushed /\ k.no \notin knocks
  BY <1>1, <1>3, NewKnock
<1>6. rest'[x] = 0 /\ \A o \in Items : o # x => rest'[o] = rest[o]
  BY DEF Withdraw, TypeOK
<1>7. stage[x] = "working"
  BY <1>1 DEF ItemInv
<1>8. QED
  BY <1>1, <1>3, <1>4, <1>5, <1>6, <1>7, Pushing

\* The counter's steps move what is unsettled about and leave its sum.
LEMMA UnsettledSame ==
  ASSUME TypeOK, TypeOK', Places, ItemInv, KnockInv, KnockInv', [Next]_vars,
         ~ FreezeItem, ~ ReleaseItem, ~ SendTradeKnock, NEW o \in Items
  PROVE  Unsettled(o)' = Unsettled(o)
<1>0. Volume(o) \in Nat /\ Volume(o)' = Volume(o) /\ rest[o] \in Nat /\ Undelivered(o) \in Nat
  BY ItemFacts, UndeliveredFacts DEF TypeOK, Volume
<1>1. ASSUME UNCHANGED <<stage, rest, pushed, knocks>> PROVE Unsettled(o)' = Unsettled(o)
  BY <1>0, <1>1, SameKnocks DEF Unsettled
<1>2. ASSUME OnTradeOrder PROVE Unsettled(o)' = Unsettled(o)
  <2>1. UNCHANGED <<rest, pushed, knocks>>
    BY <1>2 DEF OnTradeOrder, masterVars
  <2>2. Undelivered(o)' = Undelivered(o)
    BY <2>1, SameKnocks
  <2>3. stage'[o] = stage[o] \/ (stage[o] = "frozen" /\ stage'[o] = "sent")
    <3>1. stage'[o] = IF \E i \in DOMAIN task.items : task.items[i] = o THEN "sent" ELSE stage[o]
      BY <1>2 DEF OnTradeOrder
    <3>2. ASSUME NEW i \in DOMAIN task.items, task.items[i] = o PROVE stage[o] = "frozen"
      <4>1. task.items \in Seq(Items) /\ task.next \in Nat /\ task.next >= 1
        BY DEF TypeOK, Task, Places, TaskWhereabouts
      <4>2. task.next \notin DOMAIN task.items /\ task.kind = "order"
        BY <1>2 DEF OnTradeOrder, LoopEnded
      <4>3. i < task.next
        BY <4>1, <4>2
      <4>4. QED
        BY <3>2, <4>2, <4>3 DEF Places, TaskWhereabouts
    <3>3. QED
      BY <3>1, <3>2
  <2>4. QED
    BY <1>0, <2>1, <2>2, <2>3 DEF Unsettled
<1>3. ASSUME CounterAccepts PROVE Unsettled(o)' = Unsettled(o)
  <2>1. PICK h \in Items : h = Head(toCounter) /\ stage[h] = "sent"
    BY <1>3, HeadFacts DEF CounterAccepts, Places
  <2>2. /\ stage' = [stage EXCEPT ![h] = "working"] /\ rest' = [rest EXCEPT ![h] = Volume(h)]
        /\ UNCHANGED <<pushed, knocks>>
    BY <1>3, <2>1 DEF CounterAccepts, masterVars
  <2>3. Undelivered(o)' = Undelivered(o)
    BY <2>2, SameKnocks
  <2>4. CASE o = h
    <3>1. Undelivered(o) = 0
      BY <2>1, <2>4, NoKnockYet
    <3>2. stage'[o] = "working" /\ rest'[o] = Volume(o)
      BY <2>2, <2>4 DEF TypeOK
    <3>3. QED
      BY <1>0, <2>1, <2>3, <2>4, <3>1, <3>2 DEF Unsettled
  <2>5. CASE o # h
    <3>1. stage'[o] = stage[o] /\ rest'[o] = rest[o]
      BY <2>2, <2>5 DEF TypeOK
    <3>2. QED
      BY <1>0, <2>3, <3>1 DEF Unsettled
  <2>6. QED
    BY <2>4, <2>5
<1>4. ASSUME CounterRefuses PROVE Unsettled(o)' = Unsettled(o)
  <2>1. PICK h \in Items : h = Head(toCounter) /\ stage[h] = "sent"
    BY <1>4, HeadFacts DEF CounterRefuses, Places
  <2>2. stage' = [stage EXCEPT ![h] = "refused"] /\ UNCHANGED <<rest, pushed, knocks>>
    BY <1>4, <2>1 DEF CounterRefuses, masterVars
  <2>3. Undelivered(o)' = Undelivered(o)
    BY <2>2, SameKnocks
  <2>4. stage'[o] = stage[o] \/ (stage[o] = "sent" /\ stage'[o] = "refused")
    BY <2>1, <2>2 DEF TypeOK
  <2>5. QED
    BY <1>0, <2>2, <2>3, <2>4 DEF Unsettled
<1>5. ASSUME NEW x \in Items, NEW v \in 1 .. Volume(x), Trade(x, v)
      PROVE  Unsettled(o)' = Unsettled(o)
  <2>1. stage' = stage
    BY <1>5 DEF Trade
  <2>2. CASE o = x
    <3>1. /\ stage[o] = "working" /\ v \in Nat /\ rest'[o] = rest[o] - v
          /\ Undelivered(o)' = Undelivered(o) + v
      BY <1>5, <2>2, TradeFacts
    <3>2. QED
      BY <1>0, <2>1, <3>1 DEF Unsettled
  <2>3. CASE o # x
    <3>1. rest'[o] = rest[o] /\ Undelivered(o)' = Undelivered(o)
      BY <1>5, <2>3, TradeFacts
    <3>2. QED
      BY <1>0, <2>1, <3>1 DEF Unsettled
  <2>4. QED
    BY <2>2, <2>3
<1>6. ASSUME NEW x \in Items, Withdraw(x) PROVE Unsettled(o)' = Unsettled(o)
  <2>1. stage' = stage
    BY <1>6 DEF Withdraw
  <2>2. CASE o = x
    <3>1. stage[o] = "working" /\ rest'[o] = 0 /\ Undelivered(o)' = Undelivered(o) + rest[o]
      BY <1>6, <2>2, WithdrawFacts
    <3>2. QED
      BY <1>0, <2>1, <3>1 DEF Unsettled
  <2>3. CASE o # x
    <3>1. rest'[o] = rest[o] /\ Undelivered(o)' = Undelivered(o)
      BY <1>6, <2>3, WithdrawFacts
    <3>2. QED
      BY <1>0, <2>1, <3>1 DEF Unsettled
  <2>4. QED
    BY <2>2, <2>3
<1>7. QED
  <2>1. \A r \in Requests : SendTradeOrder(r) => Unsettled(o)' = Unsettled(o)
    BY <1>1 DEF SendTradeOrder, masterVars, counterVars
  <2>2. UNCHANGED vars \/ Throw \/ HandleTradeOrderRep \/ ReplyDone
        => Unsettled(o)' = Unsettled(o)
    BY <1>1 DEF vars, Throw, HandleTradeOrderRep, ReplyDone, masterVars, counterVars
  <2>3. \A x \in Items : (\E v \in 1 .. Volume(x) : Trade(x, v)) => Unsettled(o)' = Unsettled(o)
    BY <1>5
  <2>4. QED
    BY <1>2, <1>3, <1>4, <1>6, <2>1, <2>2, <2>3, NextCases

-----------------------------------------------------------------------------
(* The ledger: what is frozen is what is outstanding. *)

\* What an item owes to a bucket.
LEMMA DueIs ==
  ASSUME NEW o \in Items, NEW c, NEW s, NEW b
  PROVE  Due(o, c, s, b) =
           IF /\ ocFlag[o] # "open" /\ c = Code(o) /\ s = Side(Bs(o), ocFlag[o])
              /\ b = Bucket(Market(o), ocFlag[o])
           THEN Unsettled(o) ELSE 0
  BY DEF Due, Closes, Market

\* What is due is a natural number and at most what is outstanding.
LEMMA DueFacts ==
  ASSUME TypeOK, KnockInv, NEW c, NEW s, NEW b
  PROVE  /\ \A o \in Items : Due(o, c, s, b) \in Nat
         /\ \A o \in Items : Due(o, c, s, b) <= Outstanding(c, s, b)
         /\ Outstanding(c, s, b) \in Nat
<1> DEFINE f == [x \in Items |-> Due(x, c, s, b)]
<1>1. \A x \in Items : f[x] \in Nat /\ f[x] = Due(x, c, s, b)
  BY UnsettledFacts DEF Due
<1>2. SumFunctionOnSet(f, Items) \in Nat /\ \A x \in Items : f[x] <= SumFunctionOnSet(f, Items)
  <2> HIDE DEF f
  <2>1. \A x \in Items : f[x] \in Nat
    BY <1>1
  <2>2. QED
    BY <2>1, ItemsFinite, SumNat, SumAtLeast
<1>3. QED
  BY <1>1, <1>2 DEF Outstanding

\* The same after a step.
LEMMA DueNext ==
  ASSUME TypeOK', KnockInv', NEW c, NEW s, NEW b, NEW o \in Items
  PROVE  Due(o, c, s, b)' \in Nat
  BY UnsettledNext DEF Due

\* What is outstanding when one item changes.
LEMMA OutstandingChange ==
  ASSUME TypeOK, TypeOK', KnockInv, KnockInv', NEW c, NEW s, NEW b, NEW o \in Items,
         \A x \in Items : x # o => Due(x, c, s, b)' = Due(x, c, s, b)
  PROVE  Outstanding(c, s, b)' = Outstanding(c, s, b) - Due(o, c, s, b) + Due(o, c, s, b)'
<1> DEFINE f == [x \in Items |-> Due(x, c, s, b)]
           g == [x \in Items |-> Due(x, c, s, b)']
<1>1. \A x \in Items : f[x] \in Int /\ g[x] \in Int /\ (x # o => f[x] = g[x])
  <2>1. \A x \in Items : Due(x, c, s, b) \in Nat /\ Due(x, c, s, b)' \in Nat
    BY DueFacts, DueNext
  <2>2. QED
    BY <2>1
<1>2. f[o] = Due(o, c, s, b) /\ g[o] = Due(o, c, s, b)'
  OBVIOUS
<1>3. SumFunctionOnSet(g, Items) = SumFunctionOnSet(f, Items) - f[o] + g[o]
  <2> HIDE DEF f, g
  <2>1. QED
    BY <1>1, ItemSumChange
<1>4. Outstanding(c, s, b) = SumFunctionOnSet(f, Items)
      /\ Outstanding(c, s, b)' = SumFunctionOnSet(g, Items)
  BY DEF Outstanding
<1>5. QED
  BY <1>2, <1>3, <1>4

\* Nothing is outstanding of a bucket the market does not have.
LEMMA NoOutstanding ==
  ASSUME TypeOK, PlainInv, NEW c \in Codes, NEW s, NEW b, OtherBucket(c, b)
  PROVE  Outstanding(c, s, b) = 0
<1> DEFINE f == [x \in Items |-> Due(x, c, s, b)]
<1>1. ASSUME NEW x \in Items PROVE f[x] = 0
  <2>1. ocFlag[x] \in Flags /\ (Market(x) \notin ByDay => ocFlag[x] \in {"auto", "open", "close"})
    BY DEF TypeOK, PlainInv
  <2>2. ~ Closes(x, c, s, b)
    BY <2>1, WrongBucket DEF Closes, Market
  <2>3. QED
    BY <2>2 DEF Due
<1>2. SumFunctionOnSet(f, Items) = 0
  <2> HIDE DEF f
  <2>1. QED
    BY <1>1, ItemsFinite, SumZero
<1>3. QED
  BY <1>2 DEF Outstanding

\* The frozen volume of the position of item o moves by d, and so does what is due of o.
LEMMA LedgerMove ==
  ASSUME TypeOK, TypeOK', KnockInv, KnockInv', PlainInv', Ledger,
         NEW o \in Items, NEW oc \in Flags, NEW p \in Position, NEW q \in Position, NEW d \in Int,
         Moved(o, oc, q), p = PositionOf(o, oc), ocFlag'[o] = oc,
         \A x \in Items : x # o => Unsettled(x)' = Unsettled(x) /\ ocFlag'[x] = ocFlag[x],
         ocFlag[o] = oc \/ Unsettled(o) = 0,
         NEW b0, b0 = Bucket(Market(o), oc),
         b0 # "none" => Unsettled(o)' = Unsettled(o) + d,
         b0 = "none" => q.ydClosing = p.ydClosing /\ q.tdClosing = p.tdClosing,
         b0 = "yd" => q.ydClosing = p.ydClosing + d /\ q.tdClosing = p.tdClosing,
         b0 = "td" => q.tdClosing = p.tdClosing + d /\ q.ydClosing = p.ydClosing,
         b0 = "both" => q.ydClosing + q.tdClosing = p.ydClosing + p.tdClosing + d
  PROVE  Ledger'
<1>1. /\ Market(o) \in Markets /\ Code(o) \in Codes /\ Side(Bs(o), oc) \in Sides
      /\ Market(o) = MarketOf[Code(o)]
      /\ Market(o) \notin ByDay => oc \in {"auto", "open", "close"}
  BY ItemFacts, SideType DEF PlainInv, Market
<1>2. /\ Market(o) \in ByDay => b0 \in {"none", "yd", "td"}
      /\ Market(o) \notin ByDay => b0 \in {"none", "both"}
      /\ b0 # "none" => oc # "open"
  BY <1>1, BucketByDay
<1>3. ASSUME NEW c \in Codes, NEW s \in Sides, NEW b \in {"yd", "td", "both"}
      PROVE  Outstanding(c, s, b)' =
               IF c = Code(o) /\ s = Side(Bs(o), oc) /\ b = b0
               THEN Outstanding(c, s, b) + d ELSE Outstanding(c, s, b)
  <2>1. \A x \in Items : x # o => Due(x, c, s, b)' = Due(x, c, s, b)
    BY DEF Due, Closes, Code, Bs
  <2>2. Outstanding(c, s, b)' = Outstanding(c, s, b) - Due(o, c, s, b) + Due(o, c, s, b)'
    BY <2>1, OutstandingChange
  <2>3. Outstanding(c, s, b) \in Nat /\ Unsettled(o) \in Nat
    BY DueFacts, UnsettledFacts
  <2>4. Due(o, c, s, b)' =
          IF oc # "open" /\ c = Code(o) /\ s = Side(Bs(o), oc) /\ b = b0
          THEN Unsettled(o)' ELSE 0
    BY DEF Due, Closes, Market, Code, Bs
  <2>5. Due(o, c, s, b) =
          IF oc # "open" /\ c = Code(o) /\ s = Side(Bs(o), oc) /\ b = b0
          THEN Unsettled(o) ELSE 0
    BY DueIs
  <2>6. CASE c = Code(o) /\ s = Side(Bs(o), oc) /\ b = b0
    <3>1. oc # "open" /\ b0 # "none"
      BY <1>2, <2>6
    <3>2. Due(o, c, s, b)' = Unsettled(o) + d /\ Due(o, c, s, b) = Unsettled(o)
      BY <2>4, <2>5, <2>6, <3>1
    <3>3. QED
      BY <2>2, <2>3, <2>6, <3>2
  <2>7. CASE ~ (c = Code(o) /\ s = Side(Bs(o), oc) /\ b = b0)
    <3>1. Due(o, c, s, b)' = 0 /\ Due(o, c, s, b) = 0
      BY <2>4, <2>5, <2>7
    <3>2. QED
      BY <2>2, <2>3, <2>7, <3>1
  <2>8. QED
    BY <2>6, <2>7
<1>4. SUFFICES ASSUME NEW c \in Codes, NEW s \in Sides
               PROVE  IF MarketOf[c] \in ByDay
                      THEN /\ position'[c][s].ydClosing = Outstanding(c, s, "yd")'
                           /\ position'[c][s].tdClosing = Outstanding(c, s, "td")'
                      ELSE position'[c][s].ydClosing + position'[c][s].tdClosing
                             = Outstanding(c, s, "both")'
  BY DEF Ledger
<1>5. IF MarketOf[c] \in ByDay
      THEN /\ position[c][s].ydClosing = Outstanding(c, s, "yd")
           /\ position[c][s].tdClosing = Outstanding(c, s, "td")
      ELSE position[c][s].ydClosing + position[c][s].tdClosing = Outstanding(c, s, "both")
  BY DEF Ledger
<1>6. CASE ~ (c = Code(o) /\ s = Side(Bs(o), oc))
  <2>1. position'[c][s] = position[c][s]
    BY <1>6 DEF Moved
  <2>2. \A b \in {"yd", "td", "both"} : Outstanding(c, s, b)' = Outstanding(c, s, b)
    BY <1>3, <1>6
  <2>3. QED
    BY <1>5, <2>1, <2>2
<1>7. CASE c = Code(o) /\ s = Side(Bs(o), oc)
  <2>1. position'[c][s] = q /\ position[c][s] = p
    BY <1>7 DEF Moved, PositionOf
  <2>2. /\ Outstanding(c, s, "yd")' = IF b0 = "yd" THEN Outstanding(c, s, "yd") + d
                                      ELSE Outstanding(c, s, "yd")
        /\ Outstanding(c, s, "td")' = IF b0 = "td" THEN Outstanding(c, s, "td") + d
                                      ELSE Outstanding(c, s, "td")
        /\ Outstanding(c, s, "both")' = IF b0 = "both" THEN Outstanding(c, s, "both") + d
                                        ELSE Outstanding(c, s, "both")
    BY <1>3, <1>7
  <2>3. CASE MarketOf[c] \in ByDay
    <3>1. b0 \in {"none", "yd", "td"}
      BY <1>1, <1>2, <1>7, <2>3
    <3>2. QED
      BY <1>5, <2>1, <2>2, <2>3, <3>1
  <2>4. CASE MarketOf[c] \notin ByDay
    <3>1. b0 \in {"none", "both"}
      BY <1>1, <1>2, <1>7, <2>4
    <3>2. QED
      BY <1>5, <2>1, <2>2, <2>4, <3>1
  <2>5. QED
    BY <2>3, <2>4
<1>8. QED
  BY <1>6, <1>7

\* Freezing adds the order to what is frozen and to what is outstanding.
LEMMA LedgerFreeze ==
  ASSUME TypeOK, TypeOK', Places, ItemInv, KnockInv, KnockInv', PlainInv', Ledger, FreezeItem
  PROVE  Ledger'
<1>1. PICK o \in Items, oc \in Flags \ {"auto"}, p \in Position, q \in Position :
        Froze(o, oc, p, q)
  BY FreezeFacts DEF Places
<1>2. PICK b \in Buckets : b = Bucket(Market(o), oc)
  BY BucketType
<1>3. PICK v \in Nat : v = Volume(o)
  BY ItemFacts
<1>4. /\ Moved(o, oc, q) /\ p = PositionOf(o, oc) /\ q = Freeze(p, b, v) /\ stage[o] = "new"
      /\ stage' = [stage EXCEPT ![o] = "frozen"] /\ ocFlag' = [ocFlag EXCEPT ![o] = oc]
      /\ ocFlag'[o] = oc
  BY <1>1, <1>2, <1>3 DEF Froze
<1>5. UNCHANGED <<rest, pushed, knocks>>
  BY DEF FreezeItem, counterVars
<1>6. stage'[o] = "frozen" /\ \A x \in Items : x # o => stage'[x] = stage[x] /\ ocFlag'[x] = ocFlag[x]
  BY <1>4 DEF TypeOK
<1>7. \A x \in Items : x # o => Unsettled(x)' = Unsettled(x)
  <2>1. \A x \in Items : x # o => Undelivered(x)' = Undelivered(x)
    BY <1>5, SameKnocks
  <2>2. QED
    BY <1>5, <1>6, <2>1 DEF Unsettled, Volume
<1>8. Unsettled(o) = 0 /\ Unsettled(o)' = v
  BY <1>3, <1>4, <1>6 DEF Unsettled, Volume
<1>9. /\ b = "none" => q.ydClosing = p.ydClosing /\ q.tdClosing = p.tdClosing
      /\ b = "yd" => q.ydClosing = p.ydClosing + v /\ q.tdClosing = p.tdClosing
      /\ b = "td" => q.tdClosing = p.tdClosing + v /\ q.ydClosing = p.ydClosing
      /\ b = "both" => q.ydClosing + q.tdClosing = p.ydClosing + p.tdClosing + v
  BY <1>4, FreezeEffect
<1>10. oc \in Flags /\ v \in Int /\ Unsettled(o)' = Unsettled(o) + v
  BY <1>8
<1>11. QED
  BY <1>2, <1>4, <1>6, <1>7, <1>8, <1>9, <1>10, LedgerMove

\* A release never takes more than what is frozen.
LEMMA FrozenSuffices ==
  ASSUME TypeOK, KnockInv, PlainInv, Ledger, NEW o \in Items, NEW p, p = PositionOf(o, ocFlag[o]),
         NEW b, b = Bucket(Market(o), ocFlag[o])
  PROVE  /\ b = "yd" => p.ydClosing >= Unsettled(o)
         /\ b = "td" => p.tdClosing >= Unsettled(o)
<1> DEFINE c == Code(o)
           s == Side(Bs(o), ocFlag[o])
<1>1. /\ Market(o) \in Markets /\ c \in Codes /\ s \in Sides /\ ocFlag[o] \in Flags
      /\ Market(o) = MarketOf[c]
  BY ItemFacts, SideType DEF TypeOK, Market
<1>2. b \in {"yd", "td"} => Market(o) \in ByDay /\ ocFlag[o] # "open"
  BY <1>1, BothOrNone, BucketByDay
<1>3. b \in {"yd", "td"} => Due(o, c, s, b) = Unsettled(o)
  BY <1>2, DueIs
<1>4. Due(o, c, s, b) <= Outstanding(c, s, b)
  BY DueFacts
<1>5. MarketOf[c] \in ByDay => /\ p.ydClosing = Outstanding(c, s, "yd")
                               /\ p.tdClosing = Outstanding(c, s, "td")
  BY <1>1 DEF Ledger, PositionOf
<1> HIDE DEF c, s
<1>6. QED
  BY <1>1, <1>2, <1>3, <1>4, <1>5

\* A reply takes the order off both; one never frozen takes nothing.
LEMMA LedgerRelease ==
  ASSUME TypeOK, TypeOK', Places, ItemInv, KnockInv, KnockInv', PlainInv, PlainInv', ThrownInv,
         Ledger, ReleaseItem
  PROVE  Ledger'
<1>1. PICK o \in Items, p \in Position, q \in Position : Released(o, p, q)
  BY ReleaseFacts DEF Places
<1>2. PICK b \in Buckets : b = Bucket(Market(o), ocFlag[o])
  BY BucketType
<1>3. PICK v \in Nat : v = Volume(o)
  BY ItemFacts
<1>0. PICK oc \in Flags : oc = ocFlag[o]
  BY DEF TypeOK
<1>4. /\ Moved(o, oc, q) /\ p = PositionOf(o, oc) /\ q = Release(p, b, v)
      /\ stage[o] \in Open /\ stage' = [stage EXCEPT ![o] = "ended"] /\ o = Current
  BY <1>0, <1>1, <1>2, <1>3 DEF Released
<1>5. UNCHANGED <<rest, pushed, knocks, ocFlag>>
  BY DEF ReleaseItem, counterVars
<1>6. stage'[o] = "ended" /\ \A x \in Items : x # o => stage'[x] = stage[x]
  BY <1>4 DEF TypeOK
<1>7. \A x \in Items : x # o => Unsettled(x)' = Unsettled(x) /\ ocFlag'[x] = ocFlag[x]
  <2>1. \A x \in Items : x # o => Undelivered(x)' = Undelivered(x)
    BY <1>5, SameKnocks
  <2>2. QED
    BY <1>5, <1>6, <2>1 DEF Unsettled, Volume
<1>8. b # "none" => stage[o] # "new"
  <2>1. Harmless(o)
    BY <1>4, CurrentType DEF ReleaseItem, Looping, ThrownInv
  <2>2. Market(o) \in Markets
    BY ItemFacts
  <2>3. QED
    BY <1>0, <1>2, <2>1, <2>2, BucketByDay DEF Harmless
<1>9. b # "none" => Unsettled(o) = v
  BY <1>3, <1>4, <1>8 DEF Unsettled, Open
<1>10. Unsettled(o)' = 0
  BY <1>6 DEF Unsettled
<1>11. /\ b = "yd" => p.ydClosing >= v
       /\ b = "td" => p.tdClosing >= v
  BY <1>0, <1>2, <1>4, <1>9, FrozenSuffices
<1>12. PICK d \in Int : d = 0 - v
  BY <1>3
<1>13. /\ b = "none" => q.ydClosing = p.ydClosing /\ q.tdClosing = p.tdClosing
       /\ b = "yd" => q.ydClosing = p.ydClosing + d /\ q.tdClosing = p.tdClosing
       /\ b = "td" => q.tdClosing = p.tdClosing + d /\ q.ydClosing = p.ydClosing
       /\ b = "both" => q.ydClosing + q.tdClosing = p.ydClosing + p.tdClosing + d
  <2>1. /\ b = "none" => q = p
        /\ b = "yd" => q.ydClosing = p.ydClosing - v /\ q.tdClosing = p.tdClosing
        /\ b = "td" => q.tdClosing = p.tdClosing - v /\ q.ydClosing = p.ydClosing
        /\ b = "both" => q.ydClosing + q.tdClosing = p.ydClosing + p.tdClosing - v
    BY <1>4, <1>11, ReleaseEffect
  <2>2. p.ydClosing \in Int /\ p.tdClosing \in Int
    BY PositionFields
  <2>3. QED
    BY <1>12, <2>1, <2>2
<1>14. b # "none" => Unsettled(o)' = Unsettled(o) + d
  BY <1>9, <1>10, <1>12
<1>15. ocFlag'[o] = oc /\ b = Bucket(Market(o), oc)
  BY <1>0, <1>2, <1>5
<1>16. QED
  BY <1>0, <1>4, <1>7, <1>13, <1>14, <1>15, LedgerMove

\* A knock takes its volume off both.
LEMMA LedgerKnock ==
  ASSUME TypeOK, TypeOK', Places, ItemInv, KnockInv, KnockInv', PlainInv, PlainInv', TotalsInv,
         Ledger, SendTradeKnock
  PROVE  Ledger'
<1>1. PICK k \in pushed, o \in Items, p \in Position, q \in Position : Delivered(k, o, p, q)
  BY KnockFacts
<1>2. PICK b \in Buckets : b = Bucket(Market(o), ocFlag[o])
  BY BucketType
<1>3. PICK v \in Nat \ {0} : v = k.volume
  BY <1>1 DEF Delivered
<1>0. PICK oc \in Flags : oc = ocFlag[o]
  BY DEF TypeOK
<1>4. /\ Moved(o, oc, q) /\ p = PositionOf(o, oc) /\ o = k.item
      /\ q = IF k.trade THEN Match(p, oc, b, v) ELSE Release(p, b, v)
      /\ k.no \notin knocks /\ knocks' = knocks \cup {k.no} /\ stage[o] = "working"
  BY <1>0, <1>1, <1>2, <1>3 DEF Delivered
<1>5. UNCHANGED <<rest, pushed, ocFlag, stage>>
  BY DEF SendTradeKnock, counterVars
<1>6. /\ \A x \in Items : x # o => Undelivered(x)' = Undelivered(x)
      /\ Undelivered(o)' = Undelivered(o) - v /\ v <= Undelivered(o)
  BY <1>3, <1>4, <1>5, Handling
<1>7. \A x \in Items : x # o => Unsettled(x)' = Unsettled(x) /\ ocFlag'[x] = ocFlag[x]
  BY <1>5, <1>6 DEF Unsettled, Volume
<1>8. rest[o] \in Nat /\ Undelivered(o) \in Nat
  BY UndeliveredFacts DEF TypeOK
<1>9. PICK d \in Int : d = 0 - v
  BY <1>3
<1>10. Unsettled(o)' = Unsettled(o) + d /\ v <= Unsettled(o)
  BY <1>4, <1>5, <1>6, <1>8, <1>9 DEF Unsettled
<1>11. /\ b = "yd" => p.ydClosing >= v
       /\ b = "td" => p.tdClosing >= v
  <2>1. /\ b = "yd" => p.ydClosing >= Unsettled(o)
        /\ b = "td" => p.tdClosing >= Unsettled(o)
    BY <1>0, <1>2, <1>4, FrozenSuffices
  <2>2. Unsettled(o) \in Nat /\ p.ydClosing \in Int /\ p.tdClosing \in Int
    BY UnsettledFacts, PositionFields
  <2>3. QED
    BY <1>10, <2>1, <2>2
<1>12. /\ b = "none" => q.ydClosing = p.ydClosing /\ q.tdClosing = p.tdClosing
       /\ b = "yd" => q.ydClosing = p.ydClosing + d /\ q.tdClosing = p.tdClosing
       /\ b = "td" => q.tdClosing = p.tdClosing + d /\ q.ydClosing = p.ydClosing
       /\ b = "both" => q.ydClosing + q.tdClosing = p.ydClosing + p.tdClosing + d
  <2>1. /\ b = "none" => q.ydClosing = p.ydClosing /\ q.tdClosing = p.tdClosing
        /\ b = "yd" => q.ydClosing = p.ydClosing - v /\ q.tdClosing = p.tdClosing
        /\ b = "td" => q.tdClosing = p.tdClosing - v /\ q.ydClosing = p.ydClosing
        /\ b = "both" => q.ydClosing + q.tdClosing = p.ydClosing + p.tdClosing - v
    <3>1. CASE k.trade
      <4>1. q = Match(p, oc, b, v)
        BY <1>4, <3>1
      <4>2. QED
        BY <1>11, <4>1, MatchEffect
    <3>2. CASE ~ k.trade
      <4>1. q = Release(p, b, v)
        BY <1>4, <3>2
      <4>2. QED
        BY <1>11, <4>1, ReleaseEffect
    <3>3. QED
      BY <3>1, <3>2
  <2>2. p.ydClosing \in Int /\ p.tdClosing \in Int
    BY PositionFields
  <2>3. QED
    BY <1>9, <2>1, <2>2
<1>13. ocFlag'[o] = oc /\ b = Bucket(Market(o), oc)
  BY <1>0, <1>2, <1>5
<1>14. QED
  BY <1>0, <1>4, <1>7, <1>10, <1>12, <1>13, LedgerMove

\* Every step keeps the ledger.
LEMMA LedgerStep ==
  ASSUME TypeInv, TypeInv', ThrownInv, Ledger, [Next]_vars
  PROVE  Ledger'
<1> USE DEF TypeInv
<1>1. CASE FreezeItem
  BY <1>1, LedgerFreeze
<1>2. CASE ReleaseItem
  BY <1>2, LedgerRelease
<1>3. CASE SendTradeKnock
  BY <1>3, LedgerKnock
<1>4. CASE ~ FreezeItem /\ ~ ReleaseItem /\ ~ SendTradeKnock
  <2>1. position' = position /\ ocFlag' = ocFlag
    BY <1>4, PositionStep, FlagStep
  <2>2. \A o \in Items : Unsettled(o)' = Unsettled(o)
    BY <1>4, UnsettledSame
  <2>3. \A c, s, b : Outstanding(c, s, b)' = Outstanding(c, s, b)
    <3> TAKE c, s, b
    <3>1. \A o \in Items : Due(o, c, s, b)' = Due(o, c, s, b)
      BY <2>1, <2>2 DEF Due, Closes, Code, Bs
    <3>2. QED
      BY <3>1 DEF Outstanding
  <2>4. QED
    BY <2>1, <2>3 DEF Ledger
<1>5. QED
  BY <1>1, <1>2, <1>3, <1>4

\* Nothing is frozen or outstanding at the start.
LEMMA InitLedger == Init => ThrownInv /\ Ledger
<1> SUFFICES ASSUME Init PROVE ThrownInv /\ Ledger
  OBVIOUS
<1>1. ThrownInv
  BY DEF Init, Idle, ThrownInv
<1>2. ASSUME NEW c, NEW s, NEW b PROVE Outstanding(c, s, b) = 0
  <2> DEFINE f == [x \in Items |-> Due(x, c, s, b)]
  <2>1. \A x \in Items : f[x] = 0
    BY DEF Init, Due, Unsettled
  <2>2. SumFunctionOnSet(f, Items) = 0
    <3> HIDE DEF f
    <3>1. QED
      BY <2>1, ItemsFinite, SumZero
  <2>3. QED
    BY <2>2 DEF Outstanding
<1>3. Ledger
  <2> SUFFICES ASSUME NEW c \in Codes, NEW s \in Sides
               PROVE  position[c][s].ydClosing = 0 /\ position[c][s].tdClosing = 0
    BY <1>2 DEF Ledger
  <2>1. position[c][s] = InitPosition(Holdings[c][s])
    BY DEF Init
  <2>2. QED
    BY <2>1 DEF InitPosition
<1>4. QED
  BY <1>1, <1>3

\* The ledger is the property the runs check, its sums written over all items.
LEMMA LedgerMeans ==
  ASSUME TypeOK, KnockInv, PlainInv, Ledger
  PROVE  FrozenIsOutstanding
<1> DEFINE closing == {o \in Items : ocFlag[o] # "open" /\ Unsettled(o) > 0}
           u == [o \in Items |-> Unsettled(o)]
           Takers(c, s, b) == {o \in closing : Closes(o, c, s, b)}
<1>1. ASSUME NEW c, NEW s, NEW b
      PROVE  SumFunctionOnSet(u, Takers(c, s, b)) = Outstanding(c, s, b)
  <2> DEFINE T == Takers(c, s, b)
             f == [o \in Items |-> IF o \in T THEN u[o] ELSE 0]
             g == [o \in Items |-> Due(o, c, s, b)]
  <2>1. \A o \in Items : u[o] \in Int
    BY UnsettledFacts
  <2>2. SumFunctionOnSet(u, T) = SumFunctionOnSet(f, Items)
    <3>1. T \in SUBSET Items /\ \A o \in T : u[o] \in Int
      BY <2>1
    <3> HIDE DEF T, u
    <3>2. QED
      BY <3>1, ItemsFinite, SumWhere
  <2>3. \A o \in Items : f[o] \in Int /\ f[o] = g[o]
    <3> SUFFICES ASSUME NEW o \in Items PROVE f[o] \in Int /\ f[o] = g[o]
      OBVIOUS
    <3>1. Unsettled(o) \in Nat
      BY UnsettledFacts
    <3>2. o \in T <=> ocFlag[o] # "open" /\ Unsettled(o) > 0 /\ Closes(o, c, s, b)
      OBVIOUS
    <3>3. Closes(o, c, s, b) => ocFlag[o] # "open"
      BY DEF Closes
    <3> HIDE DEF T
    <3>4. QED
      BY <3>1, <3>2, <3>3 DEF Due
  <2>4. SumFunctionOnSet(f, Items) = SumFunctionOnSet(g, Items)
    <3> HIDE DEF f, g
    <3>1. QED
      BY <2>3, ItemsFinite, SumSame
  <2>5. QED
    BY <2>2, <2>4 DEF Outstanding
<1>2. ASSUME NEW c \in Codes, NEW s \in Sides
      PROVE  /\ position[c][s].ydClosing + position[c][s].tdClosing =
                  Outstanding(c, s, "yd") + Outstanding(c, s, "td") + Outstanding(c, s, "both")
             /\ MarketOf[c] \in ByDay => position[c][s].ydClosing = Outstanding(c, s, "yd")
  <2>1. /\ MarketOf[c] \in ByDay => Outstanding(c, s, "both") = 0
        /\ MarketOf[c] \notin ByDay => Outstanding(c, s, "yd") = 0 /\ Outstanding(c, s, "td") = 0
    BY NoOutstanding DEF OtherBucket
  <2>2. /\ Outstanding(c, s, "yd") \in Nat /\ Outstanding(c, s, "td") \in Nat
        /\ Outstanding(c, s, "both") \in Nat
    BY DueFacts
  <2>3. IF MarketOf[c] \in ByDay
        THEN /\ position[c][s].ydClosing = Outstanding(c, s, "yd")
             /\ position[c][s].tdClosing = Outstanding(c, s, "td")
        ELSE position[c][s].ydClosing + position[c][s].tdClosing = Outstanding(c, s, "both")
    BY DEF Ledger
  <2>4. QED
    BY <2>1, <2>2, <2>3
<1>3. \A c \in Codes : \A s \in Sides :
        /\ position[c][s].ydClosing + position[c][s].tdClosing =
             SumFunctionOnSet(u, Takers(c, s, "yd")) + SumFunctionOnSet(u, Takers(c, s, "td"))
               + SumFunctionOnSet(u, Takers(c, s, "both"))
        /\ MarketOf[c] \in {"SHFE", "INE", "CFFEX"} =>
             position[c][s].ydClosing = SumFunctionOnSet(u, Takers(c, s, "yd"))
  <2> HIDE DEF u, Takers
  <2>1. QED
    BY <1>1, <1>2 DEF ByDay
<1>4. QED
  BY <1>3 DEF FrozenIsOutstanding

\* yd_closing_volume_ and td_closing_volume_ are exactly what closing orders may still
\* take (inner_future_master.h:45, 49), however freezes, replies, trades, withdrawals and
\* their knocks interleave, as long as the opening limit turns down no request with a
\* closing flag of the client's own (LimitSparesClosing).
THEOREM FutureFrozenIsOutstanding ==
  PlainFlags /\ LimitSparesClosing => (Spec => []FrozenIsOutstanding)
<1> SUFFICES ASSUME PlainFlags, LimitSparesClosing PROVE Spec => []FrozenIsOutstanding
  OBVIOUS
<1> DEFINE Inv == TypeInv /\ ThrownInv /\ Ledger
<1>1. Init => Inv
  BY InitTypeInv, InitLedger
<1>2. Inv /\ [Next]_vars => Inv'
  <2>1. TypeInv /\ [Next]_vars => TypeInv'
    BY TypeInvStep
  <2>2. TypeInv /\ ThrownInv /\ [Next]_vars => ThrownInv'
    BY ThrownStep DEF TypeInv
  <2>3. TypeInv /\ TypeInv' /\ ThrownInv /\ Ledger /\ [Next]_vars => Ledger'
    BY LedgerStep
  <2>4. QED
    BY <2>1, <2>2, <2>3
<1>3. Inv => FrozenIsOutstanding
  BY LedgerMeans DEF TypeInv
<1>4. QED
  BY <1>1, <1>2, <1>3, PTL DEF Spec

-----------------------------------------------------------------------------
(* The mirror: the real position is what the master has booked and what it has
   not been told. *)

\* Untold trades are part of what is undelivered.
LEMMA UntoldBelow ==
  ASSUME TypeOK, KnockInv, NEW o \in Items
  PROVE  UntoldTrades(o) <= Undelivered(o)
<1> DEFINE T == Pending(o)
           f == [k \in T |-> IF k \in PendingTrades(o) THEN Volumes(pushed)[k] ELSE 0]
           g == Volumes(pushed)
<1>1. \A k \in pushed : g[k] \in Nat
  BY DEF TypeOK, Knock, Volumes
<1>2. IsFiniteSet(T) /\ T \subseteq pushed /\ PendingTrades(o) \in SUBSET T
  <2>1. T \subseteq pushed /\ PendingTrades(o) \in SUBSET T
    BY DEF Pending, PendingTrades
  <2>2. QED
    BY <2>1, FS_Subset DEF KnockInv
<1>3. \A k \in T : f[k] \in Int /\ g[k] \in Int /\ f[k] <= g[k]
  BY <1>1, <1>2
<1>4. SumFunctionOnSet(f, T) <= SumFunctionOnSet(g, T)
  <2> HIDE DEF T, f, g
  <2>1. QED
    BY <1>2, <1>3, SumLess
<1>5. SumFunctionOnSet(g, PendingTrades(o)) = SumFunctionOnSet(f, T)
  <2>1. \A k \in PendingTrades(o) : g[k] \in Int
    BY <1>1, <1>2
  <2> HIDE DEF T, g
  <2>2. QED
    BY <1>2, <2>1, SumWhere DEF g
<1>6. QED
  BY <1>4, <1>5, UndeliveredFacts DEF VolumeOf

\* What is untold of a bucket is a natural number.
LEMMA UntoldFacts ==
  ASSUME TypeOK, KnockInv, NEW c, NEW s, NEW b
  PROVE  /\ UntoldClosed(c, s, b) \in Nat /\ UntoldOpened(c, s) \in Nat
         /\ \A x \in Items : UntoldClosedOf(x, c, s, b) \in Nat /\ UntoldOpenedOf(x, c, s) \in Nat
<1> DEFINE f == [x \in Items |-> UntoldClosedOf(x, c, s, b)]
           g == [x \in Items |-> UntoldOpenedOf(x, c, s)]
<1>1. \A x \in Items : /\ f[x] \in Nat /\ f[x] = UntoldClosedOf(x, c, s, b)
                       /\ g[x] \in Nat /\ g[x] = UntoldOpenedOf(x, c, s)
  BY UndeliveredFacts DEF UntoldClosedOf, UntoldOpenedOf
<1>2. SumFunctionOnSet(f, Items) \in Nat /\ SumFunctionOnSet(g, Items) \in Nat
  <2> HIDE DEF f, g
  <2>1. (\A x \in Items : f[x] \in Nat) /\ \A x \in Items : g[x] \in Nat
    BY <1>1
  <2>2. QED
    BY <2>1, ItemsFinite, SumNat
<1>3. QED
  BY <1>1, <1>2 DEF UntoldClosed, UntoldOpened

UntoldMoves(o, d) ==
  \A c, s :
    /\ UntoldOpened(c, s)' =
         UntoldOpened(c, s)
           + (IF Code(o) = c /\ ocFlag[o] = "open" /\ Side(Bs(o), ocFlag[o]) = s THEN d ELSE 0)
    /\ \A b : UntoldClosed(c, s, b)' =
         UntoldClosed(c, s, b) + (IF Closes(o, c, s, b) THEN d ELSE 0)

\* What is untold of each bucket when one item changes by d.
LEMMA UntoldChange ==
  ASSUME TypeOK, TypeOK', KnockInv, KnockInv', NEW o \in Items, NEW d \in Int,
         \A x \in Items : x # o => UntoldTrades(x)' = UntoldTrades(x) /\ ocFlag'[x] = ocFlag[x],
         UntoldTrades(o)' = UntoldTrades(o) + d,
         ocFlag'[o] = ocFlag[o]
  PROVE  UntoldMoves(o, d)
<1> SUFFICES ASSUME NEW c, NEW s
             PROVE  /\ UntoldOpened(c, s)' =
                         UntoldOpened(c, s)
                           + (IF Code(o) = c /\ ocFlag[o] = "open" /\ Side(Bs(o), ocFlag[o]) = s
                              THEN d ELSE 0)
                    /\ \A b : UntoldClosed(c, s, b)' =
                         UntoldClosed(c, s, b) + (IF Closes(o, c, s, b) THEN d ELSE 0)
  BY DEF UntoldMoves
<1>0. \A x \in Items : UntoldTrades(x) \in Nat /\ UntoldTrades(x)' \in Nat
  BY UndeliveredFacts, UndeliveredNext
<1>1. UntoldOpened(c, s)' =
        UntoldOpened(c, s)
          + (IF Code(o) = c /\ ocFlag[o] = "open" /\ Side(Bs(o), ocFlag[o]) = s THEN d ELSE 0)
  <2> DEFINE f == [x \in Items |-> UntoldOpenedOf(x, c, s)]
             g == [x \in Items |-> UntoldOpenedOf(x, c, s)']
             e == IF Code(o) = c /\ ocFlag[o] = "open" /\ Side(Bs(o), ocFlag[o]) = s
                  THEN d ELSE 0
  <2>1. \A x \in Items : UntoldOpenedOf(x, c, s) \in Nat /\ UntoldOpenedOf(x, c, s)' \in Nat
    BY <1>0 DEF UntoldOpenedOf
  <2>2. \A x \in Items : x # o => UntoldOpenedOf(x, c, s) = UntoldOpenedOf(x, c, s)'
    BY DEF UntoldOpenedOf, Code, Bs
  <2>3. UntoldOpenedOf(o, c, s)' = UntoldOpenedOf(o, c, s) + e
    BY <1>0 DEF UntoldOpenedOf, Code, Bs
  <2>4. \A x \in Items : f[x] \in Int /\ g[x] \in Int /\ (x # o => f[x] = g[x])
    BY <2>1, <2>2
  <2>5. f[o] = UntoldOpenedOf(o, c, s) /\ g[o] = UntoldOpenedOf(o, c, s)' /\ e \in Int
    OBVIOUS
  <2>6. SumFunctionOnSet(g, Items) = SumFunctionOnSet(f, Items) - f[o] + g[o]
    <3> HIDE DEF f, g
    <3>1. QED
      BY <2>4, ItemSumChange
  <2>7. UntoldOpened(c, s) = SumFunctionOnSet(f, Items)
        /\ UntoldOpened(c, s)' = SumFunctionOnSet(g, Items)
    BY DEF UntoldOpened
  <2>8. UntoldOpened(c, s) \in Nat
    BY UntoldFacts
  <2> HIDE DEF f, g, e
  <2>9. UntoldOpened(c, s)' = UntoldOpened(c, s) + e
    BY <2>1, <2>3, <2>5, <2>6, <2>7, <2>8
  <2>10. QED
    BY <2>9 DEF e
<1>2. ASSUME NEW b
      PROVE  UntoldClosed(c, s, b)' =
               UntoldClosed(c, s, b) + (IF Closes(o, c, s, b) THEN d ELSE 0)
  <2> DEFINE f == [x \in Items |-> UntoldClosedOf(x, c, s, b)]
             g == [x \in Items |-> UntoldClosedOf(x, c, s, b)']
             e == IF Closes(o, c, s, b) THEN d ELSE 0
  <2>1. \A x \in Items : UntoldClosedOf(x, c, s, b) \in Nat /\ UntoldClosedOf(x, c, s, b)' \in Nat
    BY <1>0 DEF UntoldClosedOf
  <2>2. \A x \in Items : x # o => UntoldClosedOf(x, c, s, b) = UntoldClosedOf(x, c, s, b)'
    BY DEF UntoldClosedOf, Closes, Code, Bs
  <2>3. UntoldClosedOf(o, c, s, b)' = UntoldClosedOf(o, c, s, b) + e
    BY <1>0 DEF UntoldClosedOf, Closes, Code, Bs
  <2>4. \A x \in Items : f[x] \in Int /\ g[x] \in Int /\ (x # o => f[x] = g[x])
    BY <2>1, <2>2
  <2>5. f[o] = UntoldClosedOf(o, c, s, b) /\ g[o] = UntoldClosedOf(o, c, s, b)' /\ e \in Int
    OBVIOUS
  <2>6. SumFunctionOnSet(g, Items) = SumFunctionOnSet(f, Items) - f[o] + g[o]
    <3> HIDE DEF f, g
    <3>1. QED
      BY <2>4, ItemSumChange
  <2>7. UntoldClosed(c, s, b) = SumFunctionOnSet(f, Items)
        /\ UntoldClosed(c, s, b)' = SumFunctionOnSet(g, Items)
    BY DEF UntoldClosed
  <2>8. UntoldClosed(c, s, b) \in Nat
    BY UntoldFacts
  <2> HIDE DEF f, g, e
  <2>9. UntoldClosed(c, s, b)' = UntoldClosed(c, s, b) + e
    BY <2>1, <2>3, <2>5, <2>6, <2>7, <2>8
  <2>10. QED
    BY <2>9 DEF e
<1>3. QED
  BY <1>1, <1>2

\* The books and the real position are integers.
LEMMA BooksType ==
  ASSUME TypeOK, NEW c \in Codes, NEW s \in Sides
  PROVE  /\ Yd(position[c][s]) \in Int /\ Td(position[c][s]) \in Int
         /\ held[c][s].yd \in Nat /\ held[c][s].td \in Nat
<1>1. position[c][s] \in Position /\ held[c][s] \in Holding
  BY DEF TypeOK
<1>2. QED
  BY <1>1, PositionFields DEF Yd, Td, Holding

\* The item trades x on the market, the master books y of it, d stays untold.
LEMMA MirrorMove ==
  ASSUME TypeOK, TypeOK', KnockInv, PlainInv, Mirror,
         NEW o \in Items, NEW d \in Int, NEW x \in Int, NEW y \in Int, x = y + d,
         UntoldMoves(o, d), ocFlag[o] # "auto",
         NEW c0, c0 = Code(o), NEW s0, s0 = Side(Bs(o), ocFlag[o]),
         NEW b0, b0 = Bucket(Market(o), ocFlag[o]),
         \A c \in Codes, s \in Sides : ~ (c = c0 /\ s = s0) =>
           /\ held'[c][s] = held[c][s] /\ position'[c][s] = position[c][s],
         NEW h, NEW h2, h = held[c0][s0], h2 = held'[c0][s0],
         NEW p, NEW q, p = position[c0][s0], q = position'[c0][s0],
         ocFlag[o] = "open" => /\ h2.yd = h.yd /\ h2.td = h.td + x
                               /\ Yd(q) = Yd(p) /\ Td(q) = Td(p) + y,
         b0 = "yd" => /\ h2.yd = h.yd - x /\ h2.td = h.td
                      /\ Yd(q) = Yd(p) - y /\ Td(q) = Td(p),
         b0 = "td" => /\ h2.td = h.td - x /\ h2.yd = h.yd
                      /\ Td(q) = Td(p) - y /\ Yd(q) = Yd(p),
         b0 = "both" => /\ h2.yd + h2.td = h.yd + h.td - x
                        /\ Yd(q) + Td(q) = Yd(p) + Td(p) - y
  PROVE  Mirror'
<1>1. /\ Market(o) \in Markets /\ c0 \in Codes /\ s0 \in Sides /\ Market(o) = MarketOf[c0]
      /\ ocFlag[o] \in Flags
      /\ Market(o) \notin ByDay => ocFlag[o] \in {"auto", "open", "close"}
  BY ItemFacts, SideType DEF PlainInv, Market, TypeOK
<1>2. /\ Market(o) \in ByDay => b0 \in {"none", "yd", "td"}
      /\ Market(o) \notin ByDay => b0 \in {"none", "both"}
      /\ b0 = "none" <=> ocFlag[o] = "open"
  BY <1>1, BucketByDay
<1>3. SUFFICES ASSUME NEW c \in Codes, NEW s \in Sides
               PROVE  IF MarketOf[c] \in ByDay
                      THEN /\ held'[c][s].yd = Yd(position'[c][s]) - UntoldClosed(c, s, "yd")'
                           /\ held'[c][s].td = Td(position'[c][s]) + UntoldOpened(c, s)'
                                                 - UntoldClosed(c, s, "td")'
                      ELSE held'[c][s].yd + held'[c][s].td =
                             Yd(position'[c][s]) + Td(position'[c][s]) + UntoldOpened(c, s)'
                               - UntoldClosed(c, s, "both")'
  BY DEF Mirror, Yd, Td
<1>4. IF MarketOf[c] \in ByDay
      THEN /\ held[c][s].yd = Yd(position[c][s]) - UntoldClosed(c, s, "yd")
           /\ held[c][s].td = Td(position[c][s]) + UntoldOpened(c, s) - UntoldClosed(c, s, "td")
      ELSE held[c][s].yd + held[c][s].td =
             Yd(position[c][s]) + Td(position[c][s]) + UntoldOpened(c, s)
               - UntoldClosed(c, s, "both")
  BY DEF Mirror
<1>5. /\ UntoldOpened(c, s)' = UntoldOpened(c, s)
           + (IF Code(o) = c /\ ocFlag[o] = "open" /\ Side(Bs(o), ocFlag[o]) = s THEN d ELSE 0)
      /\ \A b : UntoldClosed(c, s, b)' =
                  UntoldClosed(c, s, b) + (IF Closes(o, c, s, b) THEN d ELSE 0)
  BY DEF UntoldMoves
<1>6. \A b : Closes(o, c, s, b) <=> ocFlag[o] # "open" /\ c = c0 /\ s = s0 /\ b = b0
  BY DEF Closes, Market
<1>7. /\ UntoldOpened(c, s) \in Int /\ \A b : UntoldClosed(c, s, b) \in Int
  BY UntoldFacts
<1>8. /\ Yd(position[c][s]) \in Int /\ Td(position[c][s]) \in Int
      /\ held[c][s].yd \in Int /\ held[c][s].td \in Int
  BY BooksType
<1>9. /\ Yd(position'[c][s]) \in Int /\ Td(position'[c][s]) \in Int
      /\ held'[c][s].yd \in Int /\ held'[c][s].td \in Int
  <2>1. position'[c][s] \in Position /\ held'[c][s] \in Holding
    BY DEF TypeOK
  <2>2. QED
    BY <2>1, PositionFields DEF Yd, Td, Holding
<1>10. CASE ~ (c = c0 /\ s = s0)
  <2>1. UntoldOpened(c, s)' = UntoldOpened(c, s)
        /\ \A b : UntoldClosed(c, s, b)' = UntoldClosed(c, s, b)
    BY <1>5, <1>6, <1>7, <1>10
  <2>2. QED
    BY <1>4, <1>10, <2>1
<1>11. CASE c = c0 /\ s = s0
  <2>1. held[c][s] = h /\ held'[c][s] = h2 /\ position[c][s] = p /\ position'[c][s] = q
    BY <1>11
  <2>2. CASE ocFlag[o] = "open"
    <3>1. UntoldOpened(c, s)' = UntoldOpened(c, s) + d
          /\ \A b : UntoldClosed(c, s, b)' = UntoldClosed(c, s, b)
      BY <1>5, <1>6, <1>7, <1>11, <2>2
    <3>2. QED
      BY <1>4, <1>7, <1>8, <1>9, <2>1, <2>2, <3>1
  <2>3. CASE ocFlag[o] # "open"
    <3>1. /\ UntoldOpened(c, s)' = UntoldOpened(c, s)
          /\ UntoldClosed(c, s, b0)' = UntoldClosed(c, s, b0) + d
          /\ \A b : b # b0 => UntoldClosed(c, s, b)' = UntoldClosed(c, s, b)
      BY <1>5, <1>6, <1>7, <1>11, <2>3
    <3>2. CASE b0 = "yd"
      <4>1. MarketOf[c] \in ByDay
        BY <1>1, <1>2, <1>11, <3>2
      <4>2. UntoldClosed(c, s, "yd")' = UntoldClosed(c, s, "yd") + d
            /\ UntoldClosed(c, s, "td")' = UntoldClosed(c, s, "td")
        BY <3>1, <3>2
      <4>3. QED
        BY <1>4, <1>7, <1>8, <1>9, <2>1, <3>1, <3>2, <4>1, <4>2
    <3>3. CASE b0 = "td"
      <4>1. MarketOf[c] \in ByDay
        BY <1>1, <1>2, <1>11, <3>3
      <4>2. UntoldClosed(c, s, "td")' = UntoldClosed(c, s, "td") + d
            /\ UntoldClosed(c, s, "yd")' = UntoldClosed(c, s, "yd")
        BY <3>1, <3>3
      <4>3. QED
        BY <1>4, <1>7, <1>8, <1>9, <2>1, <3>1, <3>3, <4>1, <4>2
    <3>4. CASE b0 = "both"
      <4>1. MarketOf[c] \notin ByDay
        BY <1>1, <1>2, <1>11, <3>4
      <4>2. UntoldClosed(c, s, "both")' = UntoldClosed(c, s, "both") + d
        BY <3>1, <3>4
      <4>3. QED
        BY <1>4, <1>7, <1>8, <1>9, <2>1, <3>1, <3>4, <4>1, <4>2
    <3>5. QED
      BY <1>2, <2>3, <3>2, <3>3, <3>4
  <2>4. QED
    BY <2>2, <2>3
<1>12. QED
  BY <1>10, <1>11

\* Nothing is traded and nothing is booked.
LEMMA MirrorSame ==
  ASSUME TypeOK, TypeOK', KnockInv, KnockInv', Mirror, held' = held,
         \A c \in Codes, s \in Sides : /\ Yd(position'[c][s]) = Yd(position[c][s])
                                       /\ Td(position'[c][s]) = Td(position[c][s]),
         NEW o, o \in Items \/ ocFlag' = ocFlag,
         \A x \in Items : x # o => ocFlag'[x] = ocFlag[x],
         \A x \in Items : UntoldTrades(x)' = UntoldTrades(x),
         ocFlag' = ocFlag \/ UntoldTrades(o) = 0
  PROVE  Mirror'
<1>1. ASSUME NEW c, NEW s
      PROVE  /\ UntoldOpened(c, s)' = UntoldOpened(c, s)
             /\ \A b : UntoldClosed(c, s, b)' = UntoldClosed(c, s, b)
  <2>1. \A x \in Items : UntoldOpenedOf(x, c, s)' = UntoldOpenedOf(x, c, s)
    BY DEF UntoldOpenedOf, Code, Bs
  <2>2. \A b : \A x \in Items : UntoldClosedOf(x, c, s, b)' = UntoldClosedOf(x, c, s, b)
    BY DEF UntoldClosedOf, Closes, Code, Bs
  <2>3. UntoldOpened(c, s)' = UntoldOpened(c, s)
    BY <2>1 DEF UntoldOpened
  <2>4. ASSUME NEW b PROVE UntoldClosed(c, s, b)' = UntoldClosed(c, s, b)
    BY <2>2 DEF UntoldClosed
  <2>5. QED
    BY <2>3, <2>4
<1>2. QED
  BY <1>1 DEF Mirror, Yd, Td

\* Freezing books nothing.
LEMMA MirrorFreeze ==
  ASSUME TypeOK, TypeOK', Places, ItemInv, KnockInv, KnockInv', Mirror, FreezeItem
  PROVE  Mirror'
<1>1. PICK o \in Items, oc \in Flags \ {"auto"}, p \in Position, q \in Position :
        Froze(o, oc, p, q)
  BY FreezeFacts DEF Places
<1>2. PICK b \in Buckets : b = Bucket(Market(o), oc)
  BY BucketType
<1>3. Volume(o) \in Nat /\ q = Freeze(p, b, Volume(o))
  BY <1>1, <1>2, ItemFacts DEF Froze
<1>4. Yd(q) = Yd(p) /\ Td(q) = Td(p)
  BY <1>3, FreezeEffect DEF Yd, Td
<1>5. \A c \in Codes, s \in Sides : /\ Yd(position'[c][s]) = Yd(position[c][s])
                                    /\ Td(position'[c][s]) = Td(position[c][s])
  BY <1>1, <1>4 DEF Froze, Moved, PositionOf
<1>6. UNCHANGED <<held, pushed, knocks>>
  BY DEF FreezeItem, counterVars
<1>7. (\A x \in Items : UntoldTrades(x)' = UntoldTrades(x)) /\ UntoldTrades(o) = 0
  BY <1>1, <1>6, SameKnocks, NoKnockYet DEF Froze
<1>8. \A x \in Items : x # o => ocFlag'[x] = ocFlag[x]
  BY <1>1 DEF Froze, TypeOK
<1>9. QED
  BY <1>5, <1>6, <1>7, <1>8, MirrorSame

\* A reply books nothing.
LEMMA MirrorRelease ==
  ASSUME TypeOK, TypeOK', Places, KnockInv, KnockInv', Mirror, ReleaseItem
  PROVE  Mirror'
<1>1. PICK o \in Items, p \in Position, q \in Position : Released(o, p, q)
  BY ReleaseFacts DEF Places
<1>2. PICK b \in Buckets : b = Bucket(Market(o), ocFlag[o])
  BY BucketType
<1>3. Volume(o) \in Nat /\ q = Release(p, b, Volume(o))
  BY <1>1, <1>2, ItemFacts DEF Released
<1>4. Yd(q) = Yd(p) /\ Td(q) = Td(p)
  BY <1>3, ReleaseEffect DEF Yd, Td
<1>5. \A c \in Codes, s \in Sides : /\ Yd(position'[c][s]) = Yd(position[c][s])
                                    /\ Td(position'[c][s]) = Td(position[c][s])
  BY <1>1, <1>4 DEF Released, Moved, PositionOf
<1>6. UNCHANGED <<held, pushed, knocks, ocFlag>>
  BY DEF ReleaseItem, counterVars
<1>7. \A x \in Items : UntoldTrades(x)' = UntoldTrades(x)
  BY <1>6, SameKnocks
<1>8. \A x \in Items : x # o => ocFlag'[x] = ocFlag[x]
  BY <1>6
<1>9. QED
  BY <1>5, <1>6, <1>7, <1>8, MirrorSame

\* A knock of a trade is booked when it is told.
LEMMA MirrorKnock ==
  ASSUME TypeOK, TypeOK', ItemInv, PlainInv, KnockInv, KnockInv', TotalsInv, Mirror, SendTradeKnock
  PROVE  Mirror'
<1>1. PICK k \in pushed, o \in Items, p \in Position, q \in Position : Delivered(k, o, p, q)
  BY KnockFacts
<1>2. PICK b \in Buckets : b = Bucket(Market(o), ocFlag[o])
  BY BucketType
<1>3. PICK v \in Nat \ {0} : v = k.volume
  BY <1>1 DEF Delivered
<1>4. /\ Moved(o, ocFlag[o], q) /\ p = PositionOf(o, ocFlag[o]) /\ o = k.item
      /\ q = IF k.trade THEN Match(p, ocFlag[o], b, v) ELSE Release(p, b, v)
      /\ k.no \notin knocks /\ knocks' = knocks \cup {k.no} /\ stage[o] = "working"
  BY <1>1, <1>2, <1>3 DEF Delivered
<1>5. UNCHANGED <<held, pushed, ocFlag>>
  BY DEF SendTradeKnock, counterVars
<1>6. CASE ~ k.trade
  <2>1. Yd(q) = Yd(p) /\ Td(q) = Td(p)
    BY <1>3, <1>4, <1>6, ReleaseEffect DEF Yd, Td
  <2>2. \A c \in Codes, s \in Sides : /\ Yd(position'[c][s]) = Yd(position[c][s])
                                      /\ Td(position'[c][s]) = Td(position[c][s])
    BY <1>4, <2>1 DEF Moved, PositionOf
  <2>3. \A x \in Items : UntoldTrades(x)' = UntoldTrades(x)
    BY <1>4, <1>5, <1>6, Handling
  <2>4. QED
    BY <1>5, <2>2, <2>3, MirrorSame
<1>7. CASE k.trade
  <2>1. PICK d \in Int : d = 0 - v
    BY <1>3
  <2>2. UntoldMoves(o, d)
    <3>1. /\ \A x \in Items : x # o => UntoldTrades(x)' = UntoldTrades(x)
          /\ UntoldTrades(o)' = UntoldTrades(o) - v
      BY <1>3, <1>4, <1>5, <1>7, Handling
    <3>2. UntoldTrades(o) \in Nat
      BY UndeliveredFacts
    <3>3. UntoldTrades(o)' = UntoldTrades(o) + d
      BY <2>1, <3>1, <3>2
    <3>4. \A x \in Items : x # o => UntoldTrades(x)' = UntoldTrades(x) /\ ocFlag'[x] = ocFlag[x]
      BY <1>5, <3>1
    <3>5. ocFlag'[o] = ocFlag[o]
      BY <1>5
    <3>6. QED
      BY <3>3, <3>4, <3>5, UntoldChange
  <2>3. PICK c0 \in Codes, s0 \in Sides : c0 = Code(o) /\ s0 = Side(Bs(o), ocFlag[o])
    BY ItemFacts, SideType
  <2>4. p = position[c0][s0] /\ q = position'[c0][s0]
    BY <1>4, <2>3 DEF Moved, PositionOf
  <2>5. \A c \in Codes, s \in Sides : ~ (c = c0 /\ s = s0) =>
          held'[c][s] = held[c][s] /\ position'[c][s] = position[c][s]
    BY <1>4, <1>5, <2>3 DEF Moved
  <2>6. ocFlag[o] # "auto" /\ (ocFlag[o] = "open" => b = "none")
    BY <1>2, <1>4 DEF ItemInv, Bucket
  <2>7. q = Match(p, ocFlag[o], b, v)
    BY <1>4, <1>7
  <2>8. /\ ocFlag[o] = "open" => Yd(q) = Yd(p) /\ Td(q) = Td(p) + v
        /\ b = "yd" => Yd(q) = Yd(p) - v /\ Td(q) = Td(p)
        /\ b = "td" => Td(q) = Td(p) - v /\ Yd(q) = Yd(p)
        /\ b = "both" => Yd(q) + Td(q) = Yd(p) + Td(p) - v
    <3>1. /\ p.ydInit \in Nat /\ p.tdInit \in Nat /\ p.tdOpen \in Nat /\ p.ydClose \in Nat
          /\ p.tdClose \in Nat /\ q.ydClose \in Nat /\ q.tdClose \in Nat
      BY PositionFields
    <3>2. /\ q.ydInit = p.ydInit /\ q.tdInit = p.tdInit
          /\ ocFlag[o] = "open" => /\ q.tdOpen = p.tdOpen + v
                                   /\ q.ydClose = p.ydClose /\ q.tdClose = p.tdClose
          /\ b = "yd" => q.ydClose = p.ydClose + v /\ q.tdClose = p.tdClose /\ q.tdOpen = p.tdOpen
          /\ b = "td" => q.tdClose = p.tdClose + v /\ q.ydClose = p.ydClose /\ q.tdOpen = p.tdOpen
          /\ b = "both" => /\ q.ydClose + q.tdClose = p.ydClose + p.tdClose + v
                           /\ q.tdOpen = p.tdOpen
      BY <2>6, <2>7, MatchEffect
    <3>3. v \in Int
      OBVIOUS
    <3>4. /\ Yd(p) = p.ydInit - p.ydClose /\ Td(p) = p.tdInit + p.tdOpen - p.tdClose
          /\ Yd(q) = p.ydInit - q.ydClose /\ Td(q) = p.tdInit + q.tdOpen - q.tdClose
      BY <3>2 DEF Yd, Td
    <3>5. ocFlag[o] = "open" => Yd(q) = Yd(p) /\ Td(q) = Td(p) + v
      BY <3>1, <3>2, <3>3, <3>4
    <3>6. b = "yd" => Yd(q) = Yd(p) - v /\ Td(q) = Td(p)
      BY <3>1, <3>2, <3>3, <3>4
    <3>7. b = "td" => Td(q) = Td(p) - v /\ Yd(q) = Yd(p)
      BY <3>1, <3>2, <3>3, <3>4
    <3>8. ASSUME b = "both" PROVE Yd(q) + Td(q) = Yd(p) + Td(p) - v
      <4>1. q.ydClose + q.tdClose = p.ydClose + p.tdClose + v /\ q.tdOpen = p.tdOpen
        BY <3>2, <3>8
      <4>2. /\ Yd(q) + Td(q) = (p.ydInit + p.tdInit + p.tdOpen) - (q.ydClose + q.tdClose)
            /\ Yd(p) + Td(p) = (p.ydInit + p.tdInit + p.tdOpen) - (p.ydClose + p.tdClose)
        BY <3>1, <3>4, <4>1
      <4>3. Yd(q) \in Int /\ Td(q) \in Int /\ Yd(p) \in Int /\ Td(p) \in Int
        BY <3>1, <3>4, <4>1
      <4>4. QED
        BY <3>1, <3>3, <4>1, <4>2, <4>3
    <3>9. QED
      BY <3>5, <3>6, <3>7, <3>8
  <2>9. PICK h, h2 : h = held[c0][s0] /\ h2 = held'[c0][s0]
    OBVIOUS
  <2>10. h2 = h /\ h.yd \in Nat /\ h.td \in Nat
    BY <1>5, <2>9, BooksType
  <2>11. /\ v = 0 - d /\ 0 = v + d
         /\ ocFlag[o] = "open" => h2.yd = h.yd /\ h2.td = h.td + 0
         /\ b = "yd" => h2.yd = h.yd - 0 /\ h2.td = h.td
         /\ b = "td" => h2.td = h.td - 0 /\ h2.yd = h.yd
         /\ b = "both" => h2.yd + h2.td = h.yd + h.td - 0
    BY <2>1, <2>10
  <2>12. v \in Int /\ 0 \in Int
    OBVIOUS
  <2>13. QED
    BY <1>2, <2>2, <2>3, <2>4, <2>5, <2>6, <2>8, <2>9, <2>11, <2>12, MirrorMove
<1>8. QED
  BY <1>6, <1>7

\* A trade moves the real position and is untold.
LEMMA MirrorTrade ==
  ASSUME TypeOK, TypeOK', ItemInv, PlainInv, KnockInv, KnockInv', HeldCovers, Mirror,
         NEW o \in Items, NEW v \in 1 .. Volume(o), Trade(o, v)
  PROVE  Mirror'
<1>1. /\ stage[o] = "working" /\ v \in Nat \ {0} /\ v <= rest[o]
      /\ UntoldTrades(o)' = UntoldTrades(o) + v
      /\ \A x \in Items : x # o => UntoldTrades(x)' = UntoldTrades(x)
  BY TradeFacts
<1>2. PICK b \in Buckets : b = Bucket(Market(o), ocFlag[o])
  BY BucketType
<1>3. UNCHANGED <<position, ocFlag>>
  BY DEF Trade, masterVars
<1>4. UntoldMoves(o, v)
  <2>1. \A x \in Items : x # o => UntoldTrades(x)' = UntoldTrades(x) /\ ocFlag'[x] = ocFlag[x]
    BY <1>1, <1>3
  <2>2. v \in Int /\ UntoldTrades(o)' = UntoldTrades(o) + v /\ ocFlag'[o] = ocFlag[o]
    BY <1>1, <1>3
  <2>3. QED
    BY <2>1, <2>2, UntoldChange
<1>5. PICK c0 \in Codes, s0 \in Sides : c0 = Code(o) /\ s0 = Side(Bs(o), ocFlag[o])
  BY ItemFacts, SideType
<1>6. PICK h : h = held[c0][s0]
  OBVIOUS
<1>7. PICK h2 : h2 = Traded(h, ocFlag[o], b, v)
  OBVIOUS
<1>8. /\ h2 \in Holding /\ h \in Holding /\ ocFlag[o] # "auto"
      /\ ocFlag[o] = "open" => h2.yd = h.yd /\ h2.td = h.td + v
      /\ ocFlag[o] # "open" =>
           /\ h2.yd + h2.td = h.yd + h.td - v
           /\ b = "yd" => h2.yd = h.yd - v /\ h2.td = h.td
           /\ b = "td" => h2.td = h.td - v /\ h2.yd = h.yd
  BY <1>1, <1>2, <1>5, <1>6, <1>7, TradedFacts
<1>9. held' = [held EXCEPT ![c0][s0] = h2]
  BY <1>2, <1>5, <1>6, <1>7 DEF Trade
<1>10. h2 = held'[c0][s0]
  BY <1>9 DEF TypeOK
<1>11. \A c \in Codes, s \in Sides : ~ (c = c0 /\ s = s0) =>
         held'[c][s] = held[c][s] /\ position'[c][s] = position[c][s]
  BY <1>3, <1>9 DEF TypeOK
<1>12. PICK p \in Position : p = position[c0][s0]
  BY DEF TypeOK
<1>13. PICK q : q = position'[c0][s0]
  OBVIOUS
<1>14. ocFlag[o] = "open" => b = "none"
  BY <1>2 DEF Bucket
<1>15. Yd(p) \in Int /\ Td(p) \in Int
  BY PositionFields DEF Yd, Td
<1>16. PICK x \in Int, y \in Int, d \in Int : x = v /\ y = 0 /\ d = v
  BY <1>1
<1>17. x = y + d /\ UntoldMoves(o, d) /\ ocFlag[o] # "auto"
  BY <1>4, <1>8, <1>16
<1>18. /\ ocFlag[o] = "open" => /\ h2.yd = h.yd /\ h2.td = h.td + x
                                /\ Yd(q) = Yd(p) /\ Td(q) = Td(p) + y
       /\ b = "yd" => /\ h2.yd = h.yd - x /\ h2.td = h.td
                      /\ Yd(q) = Yd(p) - y /\ Td(q) = Td(p)
       /\ b = "td" => /\ h2.td = h.td - x /\ h2.yd = h.yd
                      /\ Td(q) = Td(p) - y /\ Yd(q) = Yd(p)
       /\ b = "both" => /\ h2.yd + h2.td = h.yd + h.td - x
                        /\ Yd(q) + Td(q) = Yd(p) + Td(p) - y
  <2>1. /\ Yd(q) = Yd(p) /\ Td(q) = Td(p) /\ Td(q) = Td(p) + y /\ Yd(q) = Yd(p) - y
        /\ Td(q) = Td(p) - y /\ Yd(q) + Td(q) = Yd(p) + Td(p) - y
    <3>1. q = p
      BY <1>3, <1>12, <1>13
    <3>2. QED
      BY <1>15, <1>16, <3>1
  <2>2. QED
    BY <1>8, <1>14, <1>16, <2>1
<1>19. QED
  BY <1>2, <1>5, <1>6, <1>10, <1>11, <1>12, <1>13, <1>17, <1>18, MirrorMove

\* All other steps leave the real position and what is untold.
LEMMA UntoldStep ==
  ASSUME TypeOK, TypeOK', ItemInv, KnockInv, KnockInv', [Next]_vars, ~ SendTradeKnock,
         \A o \in Items : ~ \E v \in 1 .. Volume(o) : Trade(o, v)
  PROVE  held' = held /\ \A x \in Items : UntoldTrades(x)' = UntoldTrades(x)
<1> DEFINE G == held' = held /\ \A x \in Items : UntoldTrades(x)' = UntoldTrades(x)
<1>1. UNCHANGED <<held, pushed, knocks>> => G
  BY SameKnocks
<1>2. ASSUME NEW o \in Items, Withdraw(o) PROVE G
  BY <1>2, WithdrawFacts DEF Withdraw
<1> HIDE DEF G
<1>3. \A r \in Requests : SendTradeOrder(r) => G
  BY <1>1 DEF SendTradeOrder, masterVars, counterVars
<1>4. \/ UNCHANGED vars \/ FreezeItem \/ Throw \/ OnTradeOrder \/ HandleTradeOrderRep
      \/ ReleaseItem \/ ReplyDone \/ CounterAccepts \/ CounterRefuses
      => G
  BY <1>1 DEF vars, FreezeItem, Throw, OnTradeOrder, HandleTradeOrderRep, ReleaseItem, ReplyDone,
              CounterAccepts, CounterRefuses, masterVars, counterVars
<1>5. G
  BY <1>2, <1>3, <1>4, NextCases
<1>6. QED
  BY <1>5 DEF G

\* Every step keeps the mirror.
LEMMA MirrorStep ==
  ASSUME TypeInv, TypeInv', Mirror, [Next]_vars
  PROVE  Mirror'
<1> USE DEF TypeInv
<1>1. CASE FreezeItem
  BY <1>1, MirrorFreeze
<1>2. CASE ReleaseItem
  BY <1>2, MirrorRelease
<1>3. CASE SendTradeKnock
  BY <1>3, MirrorKnock
<1>4. CASE \E o \in Items : \E v \in 1 .. Volume(o) : Trade(o, v)
  BY <1>4, MirrorTrade
<1>5. CASE /\ ~ FreezeItem /\ ~ ReleaseItem /\ ~ SendTradeKnock
           /\ ~ \E o \in Items : \E v \in 1 .. Volume(o) : Trade(o, v)
  <2>1. position' = position /\ ocFlag' = ocFlag
    BY <1>5, PositionStep, FlagStep
  <2>2. held' = held /\ \A x \in Items : UntoldTrades(x)' = UntoldTrades(x)
    BY <1>5, UntoldStep
  <2>3. QED
    BY <2>1, <2>2, MirrorSame
<1>6. QED
  BY <1>1, <1>2, <1>3, <1>4, <1>5

-----------------------------------------------------------------------------
(* What GetAutoOcFlag promises, although it knows of trades only what it has been
   told: an order it turned into a closing one is covered when it reaches the
   counter, the openings of the day stay within the limit, and none of them is
   followed by an order turned into a closing one.

   The first follows from an invariant about the whole queue: when item o is frozen
   the books cover it beside all that is due (Ledger, Mirror); QueueCovered keeps
   what of this matters, that o is covered beside the items ahead of it and those at
   work, until the counter looks at it.  For the other two, OpeningInv bounds what
   was and may yet be opened today by open_cache_, which only grows and which the
   limit is checked against. *)

\* What item x closes of a position when the items of B, still on their way, are all
\* accepted, and what they close together.
AheadOf(x, B, c, s, b) ==
  IF Closes(x, c, s, b) THEN (IF x \in B THEN Volume(x) ELSE rest[x]) ELSE 0
Ahead(B, c, s, b) == SumFunctionOnSet([x \in Items |-> AheadOf(x, B, c, s, b)], Items)
\* Item o is covered behind the items of B.
CoveredAfter(o, B) ==
  LET c == Code(o)
      s == Side(Bs(o), ocFlag[o])
      b == Bucket(Market(o), ocFlag[o])
  IN Asked(o) = "auto" /\ ocFlag[o] # "open" =>
       Volume(o) + Ahead(B, c, s, b) <= RealBucket(held[c][s], b)

\* The counter will see item o right after the items of B.
QueuedAtCounter(o, B) ==
  \E i \in DOMAIN toCounter : o = toCounter[i] /\ B = {toCounter[j] : j \in 1 .. i - 1}
QueuedInTask(o, B) ==
  /\ task.kind = "order"
  /\ \E i \in DOMAIN task.items :
       /\ i < task.next /\ o = task.items[i]
       /\ B = Range(toCounter) \cup {task.items[j] : j \in 1 .. i - 1}
Queued(o, B) == QueuedAtCounter(o, B) \/ QueuedInTask(o, B)

QueueCovered ==
  \A o \in Items : \A B \in SUBSET Items : Queued(o, B) => CoveredAfter(o, B)

Waiting == {"sent", "frozen"}

\* What is on its way to the counter is frozen or sent, and an item is not ahead of itself.
LEMMA QueuedFacts ==
  ASSUME TypeOK, Places, NEW o \in Items, NEW B, Queued(o, B)
  PROVE  stage[o] \in Waiting /\ o \notin B /\ \A x \in B : stage[x] \in Waiting
<1>0. toCounter \in Seq(Items) /\ task.items \in Seq(Items) /\ task.next \in Nat
  BY DEF TypeOK, Task
<1>1. CASE QueuedAtCounter(o, B)
  <2>1. PICK i \in DOMAIN toCounter : o = toCounter[i] /\ B = {toCounter[j] : j \in 1 .. i - 1}
    BY <1>1 DEF QueuedAtCounter
  <2>2. \A j \in 1 .. i - 1 : j \in DOMAIN toCounter /\ j # i
    BY <1>0, <2>1
  <2>3. QED
    BY <2>1, <2>2 DEF Places, CounterWhereabouts, Distinct, Waiting
<1>2. CASE QueuedInTask(o, B)
  <2>1. PICK i \in DOMAIN task.items :
          /\ i < task.next /\ o = task.items[i]
          /\ B = Range(toCounter) \cup {task.items[j] : j \in 1 .. i - 1}
    BY <1>2 DEF QueuedInTask
  <2>2. \A j \in 1 .. i - 1 : j \in DOMAIN task.items /\ j # i /\ j < task.next
    BY <1>0, <2>1
  <2>3. stage[o] = "frozen" /\ \A j \in 1 .. i - 1 : stage[task.items[j]] = "frozen"
    BY <1>2, <2>1, <2>2 DEF Places, TaskWhereabouts, QueuedInTask
  <2>4. \A x \in Range(toCounter) : stage[x] = "sent"
    BY DEF Places, CounterWhereabouts, Range
  <2>5. o \notin {task.items[j] : j \in 1 .. i - 1}
    BY <2>1, <2>2 DEF Places, TaskWhereabouts, Distinct
  <2>6. QED
    BY <2>1, <2>3, <2>4, <2>5 DEF Waiting
<1>3. QED
  BY <1>1, <1>2 DEF Queued

-----------------------------------------------------------------------------
(* How the volume ahead of an item changes. *)

\* The volume ahead of an item is a natural number.
LEMMA AheadFacts ==
  ASSUME TypeOK, NEW B, NEW c, NEW s, NEW b
  PROVE  Ahead(B, c, s, b) \in Nat /\ \A x \in Items : AheadOf(x, B, c, s, b) \in Nat
<1> DEFINE f == [x \in Items |-> AheadOf(x, B, c, s, b)]
<1>0. ASSUME NEW x \in Items PROVE AheadOf(x, B, c, s, b) \in Nat
  <2>1. Volume(x) \in Nat /\ rest[x] \in Nat
    BY ItemFacts DEF TypeOK
  <2>2. QED
    BY <2>1 DEF AheadOf
<1>1. \A x \in Items : f[x] \in Nat /\ f[x] = AheadOf(x, B, c, s, b)
  BY <1>0
<1>2. SumFunctionOnSet(f, Items) \in Nat
  <2> HIDE DEF f
  <2>1. QED
    BY <1>1, ItemsFinite, SumNat
<1>3. QED
  BY <1>1, <1>2 DEF Ahead

\* The same after a step, for one item.
LEMMA AheadNext ==
  ASSUME TypeOK', NEW B, NEW c, NEW s, NEW b, NEW x \in Items
  PROVE  AheadOf(x, B, c, s, b)' \in Nat
<1>1. Volume(x) \in Nat /\ rest'[x] \in Nat
  BY ItemFacts DEF TypeOK
<1>2. AheadOf(x, B, c, s, b)' \in Nat
  BY <1>1 DEF AheadOf, Volume
<1>3. QED
  BY <1>2

\* The same after a step, for all of them.
LEMMA AheadSumNext ==
  ASSUME TypeOK', NEW B, NEW c, NEW s, NEW b
  PROVE  Ahead(B, c, s, b)' \in Nat
<1> DEFINE f == [x \in Items |-> AheadOf(x, B, c, s, b)']
<1>1. \A x \in Items : f[x] \in Nat
  BY AheadNext
<1>2. SumFunctionOnSet(f, Items) \in Nat
  <2> HIDE DEF f
  <2>1. QED
    BY <1>1, ItemsFinite, SumNat
<1>3. QED
  BY <1>2 DEF Ahead

\* The volume ahead when one item changes.
LEMMA AheadChange ==
  ASSUME TypeOK, TypeOK', NEW B, NEW B2, NEW c, NEW s, NEW b, NEW x \in Items,
         \A y \in Items : y # x => AheadOf(y, B2, c, s, b)' = AheadOf(y, B, c, s, b)
  PROVE  Ahead(B2, c, s, b)' =
           Ahead(B, c, s, b) - AheadOf(x, B, c, s, b) + AheadOf(x, B2, c, s, b)'
<1> DEFINE f == [y \in Items |-> AheadOf(y, B, c, s, b)]
           g == [y \in Items |-> AheadOf(y, B2, c, s, b)']
<1>1. \A y \in Items : f[y] \in Int /\ g[y] \in Int /\ (y # x => f[y] = g[y])
  <2>1. \A y \in Items : AheadOf(y, B, c, s, b) \in Nat /\ AheadOf(y, B2, c, s, b)' \in Nat
    BY AheadFacts, AheadNext
  <2>2. QED
    BY <2>1
<1>2. f[x] = AheadOf(x, B, c, s, b) /\ g[x] = AheadOf(x, B2, c, s, b)'
  OBVIOUS
<1>3. SumFunctionOnSet(g, Items) = SumFunctionOnSet(f, Items) - f[x] + g[x]
  <2> HIDE DEF f, g
  <2>1. QED
    BY <1>1, ItemSumChange
<1>4. Ahead(B, c, s, b) = SumFunctionOnSet(f, Items)
      /\ Ahead(B2, c, s, b)' = SumFunctionOnSet(g, Items)
  BY DEF Ahead
<1>5. QED
  BY <1>2, <1>3, <1>4

\* An item stays covered when no more is added ahead of it than the account gains.
LEMMA CoveredKept ==
  ASSUME TypeOK, TypeOK', NEW o \in Items, NEW B, NEW B2, CoveredAfter(o, B),
         ocFlag'[o] = ocFlag[o],
         NEW c, c = Code(o), NEW s, s = Side(Bs(o), ocFlag[o]),
         NEW b, b = Bucket(Market(o), ocFlag[o]),
         NEW x \in Items,
         \A y \in Items : y # x => AheadOf(y, B2, c, s, b)' = AheadOf(y, B, c, s, b),
         AheadOf(x, B2, c, s, b)' + RealBucket(held[c][s], b)
           <= AheadOf(x, B, c, s, b) + RealBucket(held'[c][s], b)
  PROVE  CoveredAfter(o, B2)'
<1>1. Ahead(B2, c, s, b)' =
        Ahead(B, c, s, b) - AheadOf(x, B, c, s, b) + AheadOf(x, B2, c, s, b)'
  BY AheadChange
<1>2. /\ Ahead(B, c, s, b) \in Nat /\ AheadOf(x, B, c, s, b) \in Nat
      /\ AheadOf(x, B2, c, s, b)' \in Nat
  BY AheadFacts, AheadNext
<1>3. c \in Codes /\ s \in Sides /\ Volume(o) \in Nat
  BY ItemFacts, SideType
<1>4. held[c][s] \in Holding /\ held'[c][s] \in Holding
  BY <1>3 DEF TypeOK
<1>5. RealBucket(held[c][s], b) \in Nat /\ RealBucket(held'[c][s], b) \in Nat
  BY <1>4, RealBucketType
<1>6. Asked(o) = "auto" /\ ocFlag[o] # "open" =>
        Volume(o) + Ahead(B, c, s, b) <= RealBucket(held[c][s], b)
  BY DEF CoveredAfter
<1>7. Asked(o) = "auto" /\ ocFlag[o] # "open" =>
        Volume(o) + Ahead(B2, c, s, b)' <= RealBucket(held'[c][s], b)
  BY <1>1, <1>2, <1>3, <1>5, <1>6
<1>8. QED
  BY <1>7 DEF CoveredAfter, Code, Bs, Market, Asked, Volume

\* A freeze of another item leaves what is ahead.
LEMMA CoveredSame ==
  ASSUME NEW o \in Items, NEW B, CoveredAfter(o, B), held' = held, rest' = rest,
         NEW x \in Items, rest[x] = 0, x \notin B, x # o,
         \A y \in Items : y # x => ocFlag'[y] = ocFlag[y]
  PROVE  CoveredAfter(o, B)'
<1>1. ASSUME NEW c, NEW s, NEW b PROVE Ahead(B, c, s, b)' = Ahead(B, c, s, b)
  <2>1. \A y \in Items : AheadOf(y, B, c, s, b)' = AheadOf(y, B, c, s, b)
    BY DEF AheadOf, Closes, Code, Bs, Volume
  <2>2. QED
    BY <2>1 DEF Ahead
<1>2. ocFlag'[o] = ocFlag[o]
  OBVIOUS
<1>3. PICK c, s, b : /\ c = Code(o) /\ s = Side(Bs(o), ocFlag[o])
                    /\ b = Bucket(Market(o), ocFlag[o])
  OBVIOUS
<1>4. Asked(o) = "auto" /\ ocFlag[o] # "open" =>
        Volume(o) + Ahead(B, c, s, b) <= RealBucket(held[c][s], b)
  BY <1>3 DEF CoveredAfter
<1>5. Ahead(B, c, s, b)' = Ahead(B, c, s, b)
  BY <1>1
<1> HIDE <1>1
<1>6. QED
  BY <1>2, <1>3, <1>4, <1>5 DEF CoveredAfter, Code, Bs, Market, Asked, Volume

\* So does a step of neither position nor working volume nor flags.
LEMMA CoveredUnchanged ==
  ASSUME NEW o \in Items, NEW B, CoveredAfter(o, B), held' = held, rest' = rest, ocFlag' = ocFlag
  PROVE  CoveredAfter(o, B)'
<1>1. ASSUME NEW c, NEW s, NEW b PROVE Ahead(B, c, s, b)' = Ahead(B, c, s, b)
  <2>1. \A y \in Items : AheadOf(y, B, c, s, b)' = AheadOf(y, B, c, s, b)
    BY DEF AheadOf, Closes, Code, Bs, Volume
  <2>2. QED
    BY <2>1 DEF Ahead
<1>2. QED
  BY <1>1 DEF CoveredAfter, Code, Bs, Market, Asked, Volume

-----------------------------------------------------------------------------
(* How the queue changes. *)

\* A step that leaves the counter's sequence and ends no request sends nothing.
LEMMA QueueSame ==
  ASSUME toCounter' = toCounter, task'.kind # "order" \/ task' = task, NEW o, NEW B, Queued(o, B)'
  PROVE  Queued(o, B)
BY DEF Queued, QueuedAtCounter, QueuedInTask

\* A request whose loop has not begun has nothing frozen.
LEMMA QueueSent ==
  ASSUME NEW r \in Requests, SendTradeOrder(r), NEW o, NEW B, Queued(o, B)'
  PROVE  Queued(o, B)
<1>1. toCounter' = toCounter /\ task'.next = 1 /\ task'.items = ItemsOf(r)
  BY DEF SendTradeOrder, counterVars
<1>2. DOMAIN ItemsOf(r) \subseteq Nat \ {0}
  BY ItemsOfFacts
<1>3. ~ QueuedInTask(o, B)'
  BY <1>1, <1>2 DEF QueuedInTask
<1>4. QED
  BY <1>1, <1>3 DEF Queued, QueuedAtCounter

\* OnTradeOrder puts the items of the request behind those the counter has not answered.
LEMMA QueueHanded ==
  ASSUME TypeOK, Places, OnTradeOrder, NEW o, NEW B, Queued(o, B)'
  PROVE  Queued(o, B)
<1>1. /\ toCounter' = toCounter \o task.items /\ task'.kind = "idle" /\ task.kind = "order"
      /\ task.next \notin DOMAIN task.items /\ task.next >= 1
  BY DEF OnTradeOrder, Idle, LoopEnded, Places, TaskWhereabouts
<1>2. PICK m \in Nat, n \in Nat : m = Len(toCounter) /\ n = Len(task.items)
  BY DEF TypeOK, Task
<1>3. toCounter \in Seq(Items) /\ task.items \in Seq(Items) /\ task.next \in Nat
  BY DEF TypeOK, Task
<1>4. /\ DOMAIN toCounter' = 1 .. m + n /\ DOMAIN toCounter = 1 .. m /\ DOMAIN task.items = 1 .. n
      /\ \A j \in 1 .. m : toCounter'[j] = toCounter[j]
      /\ \A j \in 1 .. n : toCounter'[m + j] = task.items[j]
  BY <1>1, <1>2, <1>3
<1>5. PICK i \in DOMAIN toCounter' :
        o = toCounter'[i] /\ B = {toCounter'[j] : j \in 1 .. i - 1}
  BY <1>1 DEF Queued, QueuedAtCounter, QueuedInTask
<1>6. CASE i <= m
  <2>1. \A j \in 1 .. i - 1 : toCounter'[j] = toCounter[j]
    BY <1>2, <1>4, <1>5, <1>6
  <2>2. i \in DOMAIN toCounter /\ o = toCounter[i]
    BY <1>2, <1>4, <1>5, <1>6
  <2>3. B = {toCounter[j] : j \in 1 .. i - 1}
    BY <1>5, <2>1
  <2>4. QED
    BY <2>2, <2>3 DEF Queued, QueuedAtCounter
<1>7. CASE ~ i <= m
  <2>1. PICK k \in 1 .. n : i = m + k
    <3>1. i - m \in 1 .. n /\ i = m + (i - m)
      BY <1>2, <1>4, <1>5, <1>7
    <3>2. QED
      BY <3>1
  <2>2. o = task.items[k] /\ k \in DOMAIN task.items /\ k < task.next
    BY <1>1, <1>2, <1>3, <1>4, <1>5, <2>1
  <2>3. B \subseteq Range(toCounter) \cup {task.items[j] : j \in 1 .. k - 1}
    <3> SUFFICES ASSUME NEW j \in 1 .. i - 1
                 PROVE  toCounter'[j] \in Range(toCounter) \cup {task.items[l] : l \in 1 .. k - 1}
      BY <1>5
    <3>1. CASE j <= m
      BY <1>2, <1>4, <2>1, <3>1 DEF Range
    <3>2. CASE ~ j <= m
      <4>1. PICK l \in 1 .. k - 1 : j = m + l
        <5>1. j - m \in 1 .. k - 1 /\ j = m + (j - m)
          BY <1>2, <2>1, <3>2
        <5>2. QED
          BY <5>1
      <4>2. l \in 1 .. n
        BY <1>2, <2>1, <4>1
      <4>3. toCounter'[j] = task.items[l]
        BY <1>4, <4>1, <4>2
      <4>4. QED
        BY <4>3
    <3>3. QED
      BY <3>1, <3>2
  <2>4. Range(toCounter) \cup {task.items[j] : j \in 1 .. k - 1} \subseteq B
    <3>1. \A j \in 1 .. m : j \in 1 .. i - 1 /\ toCounter[j] = toCounter'[j]
      BY <1>2, <1>4, <2>1
    <3>2. Range(toCounter) \subseteq B
      BY <1>4, <1>5, <3>1 DEF Range
    <3>3. ASSUME NEW j \in 1 .. k - 1
          PROVE  m + j \in 1 .. i - 1 /\ task.items[j] = toCounter'[m + j]
      <4>1. j \in 1 .. n /\ m + j \in 1 .. i - 1
        BY <1>2, <2>1
      <4>2. QED
        BY <1>4, <4>1
    <3>4. {task.items[j] : j \in 1 .. k - 1} \subseteq B
      BY <1>5, <3>3
    <3>5. QED
      BY <3>2, <3>4
  <2>5. B = Range(toCounter) \cup {task.items[j] : j \in 1 .. k - 1}
    BY <2>3, <2>4
  <2>6. QED
    BY <1>1, <2>2, <2>5 DEF Queued, QueuedInTask
<1>8. QED
  BY <1>6, <1>7

\* The counter has answered the first item: it was ahead of every other.
LEMMA QueueAnswered ==
  ASSUME TypeOK, Places, toCounter # <<>>, toCounter' = Tail(toCounter), task' = task,
         NEW h, h = Head(toCounter), NEW o, NEW B, Queued(o, B)'
  PROVE  Queued(o, B \cup {h}) /\ h \notin B
<1>1. /\ h = toCounter[1] /\ 1 \in DOMAIN toCounter /\ toCounter \in Seq(Items)
      /\ stage[h] = "sent"
  BY HeadFacts DEF TypeOK, Places
<1>2. \A i \in DOMAIN toCounter' :
        /\ i + 1 \in DOMAIN toCounter /\ toCounter'[i] = toCounter[i + 1] /\ toCounter'[i] # h
        /\ i \in Nat \ {0} /\ 1 .. i - 1 \subseteq DOMAIN toCounter'
  <2>1. \A i \in DOMAIN toCounter' : i \in Nat \ {0} /\ 1 .. i - 1 \subseteq DOMAIN toCounter'
    BY <1>1
  <2>2. QED
    BY <2>1, HeadFacts DEF Places
<1>3. CASE QueuedAtCounter(o, B)'
  <2>1. PICK i \in DOMAIN toCounter' :
          o = toCounter'[i] /\ B = {toCounter'[j] : j \in 1 .. i - 1}
    BY <1>3 DEF QueuedAtCounter
  <2>2. PICK k \in DOMAIN toCounter : k = i + 1 /\ o = toCounter[k] /\ i \in Nat \ {0}
    BY <1>2, <2>1
  <2>3. h \notin B
    BY <1>2, <2>1
  <2>4. B \cup {h} = {toCounter[j] : j \in 1 .. k - 1}
    <3>1. \A j \in 1 .. i - 1 : j + 1 \in 1 .. k - 1 /\ toCounter'[j] = toCounter[j + 1]
      BY <1>2, <2>1, <2>2
    <3>2. B \cup {h} \subseteq {toCounter[j] : j \in 1 .. k - 1}
      BY <1>1, <2>1, <2>2, <3>1
    <3>3. ASSUME NEW j \in 1 .. k - 1 PROVE toCounter[j] \in B \cup {h}
      <4>1. CASE j = 1
        BY <1>1, <4>1
      <4>2. CASE j # 1
        <5>1. PICK l \in 1 .. i - 1 : j = l + 1
          <6>1. j - 1 \in 1 .. i - 1 /\ j = (j - 1) + 1
            BY <2>2, <4>2
          <6>2. QED
            BY <6>1
        <5>2. QED
          BY <2>1, <3>1, <5>1
      <4>3. QED
        BY <4>1, <4>2
    <3>4. QED
      BY <3>2, <3>3
  <2>5. QED
    BY <2>2, <2>3, <2>4 DEF Queued, QueuedAtCounter
<1>4. CASE QueuedInTask(o, B)'
  <2>1. task.kind = "order"
    BY <1>4 DEF QueuedInTask
  <2>2. PICK i \in DOMAIN task.items :
          /\ i < task.next /\ o = task.items[i]
          /\ B = Range(toCounter') \cup {task.items[j] : j \in 1 .. i - 1}
    BY <1>4 DEF QueuedInTask
  <2>3. Range(toCounter') \cup {h} = Range(toCounter) /\ h \notin Range(toCounter')
    <3>1. Range(toCounter') \cup {h} \subseteq Range(toCounter) /\ h \notin Range(toCounter')
      BY <1>1, <1>2 DEF Range
    <3>2. ASSUME NEW j \in DOMAIN toCounter PROVE toCounter[j] \in Range(toCounter') \cup {h}
      <4>1. CASE j = 1
        BY <1>1, <4>1
      <4>2. CASE j # 1
        <5>1. PICK l \in DOMAIN toCounter' : j = l + 1
          <6>1. j - 1 \in DOMAIN toCounter' /\ j = (j - 1) + 1
            BY <1>1, <4>2
          <6>2. QED
            BY <6>1
        <5>2. QED
          BY <1>2, <5>1 DEF Range
      <4>3. QED
        BY <4>1, <4>2
    <3>3. QED
      BY <3>1, <3>2 DEF Range
  <2>4. h \notin {task.items[j] : j \in 1 .. i - 1}
    <3>1. task.items \in Seq(Items) /\ task.next \in Nat
      BY DEF TypeOK, Task
    <3>2. i \in 1 .. Len(task.items) /\ Len(task.items) \in Nat
      BY <2>2, <3>1
    <3>3. \A j \in 1 .. i - 1 : j \in DOMAIN task.items /\ j < task.next
      BY <2>2, <3>1, <3>2
    <3>4. QED
      BY <1>1, <2>1, <3>3 DEF Places, TaskWhereabouts
  <2>5. B \cup {h} = Range(toCounter) \cup {task.items[j] : j \in 1 .. i - 1}
    BY <2>2, <2>3
  <2>6. QED
    BY <2>1, <2>2, <2>3, <2>4, <2>5 DEF Queued, QueuedInTask
<1>5. QED
  BY <1>3, <1>4 DEF Queued

\* Freezing puts the item behind everything the counter has not seen.
LEMMA QueueFrozen ==
  ASSUME TypeOK, Places, FreezeItem, NEW h, h = Current, NEW o, NEW B, Queued(o, B)'
  PROVE  \/ Queued(o, B)
         \/ o = h /\ \A x \in B : stage[x] \in Waiting
<1>1. /\ h = task.items[task.next] /\ task.next \in DOMAIN task.items /\ task.items \in Seq(Items)
      /\ task.kind = "order" /\ task.next \in Nat
  BY CurrentType DEF FreezeItem
<1>2. /\ task'.kind = task.kind /\ task'.items = task.items /\ task'.next = task.next + 1
      /\ toCounter' = toCounter
  BY NextItemFacts DEF FreezeItem, counterVars
<1>3. CASE QueuedAtCounter(o, B)'
  BY <1>2, <1>3 DEF Queued, QueuedAtCounter
<1>4. CASE QueuedInTask(o, B)'
  <2>1. PICK i \in DOMAIN task.items :
          /\ i < task.next + 1 /\ o = task.items[i]
          /\ B = Range(toCounter) \cup {task.items[j] : j \in 1 .. i - 1}
    BY <1>2, <1>4 DEF QueuedInTask
  <2>2. i \in Nat \ {0}
    BY <1>1
  <2>3. CASE i < task.next
    BY <1>1, <2>1, <2>3 DEF Queued, QueuedInTask
  <2>4. CASE ~ i < task.next
    <3>1. i = task.next /\ o = h
      BY <1>1, <2>1, <2>2, <2>4
    <3>2. \A j \in 1 .. i - 1 : j \in DOMAIN task.items /\ j < task.next
      BY <1>1, <2>2, <3>1
    <3>3. \A j \in 1 .. i - 1 : stage[task.items[j]] = "frozen"
      BY <1>1, <3>2 DEF Places, TaskWhereabouts
    <3>4. \A x \in Range(toCounter) : stage[x] = "sent"
      BY DEF Places, CounterWhereabouts, Range
    <3>5. QED
      BY <2>1, <3>1, <3>3, <3>4 DEF Waiting
  <2>5. QED
    BY <2>3, <2>4
<1>5. QED
  BY <1>3, <1>4 DEF Queued

-----------------------------------------------------------------------------
(* The flag GetAutoOcFlag chooses is covered by what the account holds. *)

\* What is ahead of the item and what the master was not told of is all outstanding.
LEMMA AheadIsDue ==
  ASSUME TypeOK, TypeOK', KnockInv, ItemInv, NEW h \in Items, stage[h] = "new",
         NEW B, h \notin B, \A x \in B : stage[x] \in Waiting,
         rest' = rest, \A x \in Items : x # h => ocFlag'[x] = ocFlag[x],
         NEW c, NEW s, NEW b
  PROVE  Ahead(B, c, s, b)' + UntoldClosed(c, s, b) <= Outstanding(c, s, b)
<1> DEFINE f == [x \in Items |-> AheadOf(x, B, c, s, b)']
           g == [x \in Items |-> UntoldClosedOf(x, c, s, b)]
           e == [x \in Items |-> AheadOf(x, B, c, s, b)' + UntoldClosedOf(x, c, s, b)]
           d == [x \in Items |-> Due(x, c, s, b)]
<1>1. \A x \in Items : /\ AheadOf(x, B, c, s, b)' \in Nat /\ UntoldClosedOf(x, c, s, b) \in Nat
                       /\ Due(x, c, s, b) \in Nat
  BY AheadNext, UntoldFacts, DueFacts
<1>2. ASSUME NEW x \in Items
      PROVE  AheadOf(x, B, c, s, b)' + UntoldClosedOf(x, c, s, b) <= Due(x, c, s, b)
  <2>1. /\ rest[x] \in Nat /\ Volume(x) \in Nat /\ Undelivered(x) \in Nat /\ UntoldTrades(x) \in Nat
        /\ UntoldTrades(x) <= Undelivered(x)
    BY ItemFacts, UndeliveredFacts, UntoldBelow DEF TypeOK
  <2>2. CASE x = h
    <3>1. rest'[x] = 0 /\ UntoldTrades(x) = 0
      BY <2>2, NoKnockYet DEF ItemInv
    <3>2. AheadOf(x, B, c, s, b)' = 0 /\ UntoldClosedOf(x, c, s, b) = 0
      BY <2>2, <3>1 DEF AheadOf, UntoldClosedOf
    <3>3. QED
      BY <1>1, <3>2
  <2>3. CASE x # h
    <3>1. AheadOf(x, B, c, s, b)' = AheadOf(x, B, c, s, b)
      BY <2>3 DEF AheadOf, Closes, Code, Bs, Volume
    <3>2. CASE stage[x] \in Waiting
      <4>1. rest[x] = 0 /\ UntoldTrades(x) = 0 /\ Unsettled(x) = Volume(x)
        BY <3>2, NoKnockYet DEF ItemInv, Unsettled, Waiting
      <4>2. QED
        BY <2>1, <3>1, <4>1 DEF AheadOf, UntoldClosedOf, Due
    <3>3. CASE stage[x] \notin Waiting
      <4>1. x \notin B
        BY <3>3
      <4>2. rest[x] + UntoldTrades(x) <= Unsettled(x)
        <5>1. CASE stage[x] = "working"
          BY <2>1, <5>1 DEF Unsettled
        <5>2. CASE stage[x] # "working"
          <6>1. rest[x] = 0 /\ UntoldTrades(x) = 0 /\ Unsettled(x) \in Nat
            BY <5>2, NoKnockYet, UnsettledFacts DEF ItemInv
          <6>2. QED
            BY <6>1
        <5>3. QED
          BY <5>1, <5>2
      <4>3. QED
        BY <3>1, <4>1, <4>2 DEF AheadOf, UntoldClosedOf, Due
    <3>4. QED
      BY <3>2, <3>3
  <2>4. QED
    BY <2>2, <2>3
<1>3. \A x \in Items : /\ f[x] \in Int /\ g[x] \in Int /\ e[x] = f[x] + g[x]
                       /\ e[x] \in Int /\ d[x] \in Int /\ e[x] <= d[x]
  BY <1>1, <1>2
<1>4. SumFunctionOnSet(e, Items) = SumFunctionOnSet(f, Items) + SumFunctionOnSet(g, Items)
      /\ SumFunctionOnSet(e, Items) <= SumFunctionOnSet(d, Items)
  <2> HIDE DEF e, f, g, d
  <2>1. \A x \in Items : f[x] \in Int /\ g[x] \in Int /\ e[x] = f[x] + g[x]
    BY <1>3
  <2>2. \A x \in Items : e[x] \in Int /\ d[x] \in Int /\ e[x] <= d[x]
    BY <1>3
  <2>3. SumFunctionOnSet(e, Items) = SumFunctionOnSet(f, Items) + SumFunctionOnSet(g, Items)
    BY <2>1, ItemsFinite, SumPlus
  <2>4. SumFunctionOnSet(e, Items) <= SumFunctionOnSet(d, Items)
    BY <2>2, ItemsFinite, SumLess
  <2>5. QED
    BY <2>3, <2>4
<1>5. /\ Ahead(B, c, s, b)' = SumFunctionOnSet(f, Items)
      /\ UntoldClosed(c, s, b) = SumFunctionOnSet(g, Items)
      /\ Outstanding(c, s, b) = SumFunctionOnSet(d, Items)
  BY DEF Ahead, UntoldClosed, Outstanding
<1> HIDE DEF e, f, g, d
<1>6. QED
  BY <1>4, <1>5

\* An "auto" order that closes is given a flag with enough left under it.
LEMMA FlagFits ==
  ASSUME TypeOK, NEW o \in Items, Asked(o) = "auto", NEW oc, oc = AutoOcFlag(o), oc # "open",
         NEW p, p = Opposite(o), NEW b, b = Bucket(Market(o), oc)
  PROVE  /\ Side(Bs(o), oc) = Side(Bs(o), "close")
         /\ \/ b = "yd" /\ Market(o) \in ByDay /\ Volume(o) <= YdAvailable(p)
            \/ b = "td" /\ Market(o) \in ByDay /\ Volume(o) <= TdAvailable(p)
            \/ b = "both" /\ Market(o) \notin ByDay
               /\ Volume(o) <= YdAvailable(p) + TdAvailable(p)
<1>1. Opposite(o) \in Position /\ Volume(o) \in Nat /\ Market(o) \in Markets
  <2>1. Code(o) \in Codes /\ Side(Bs(o), "close") \in Sides
    BY ItemFacts, SideType
  <2>2. QED
    BY <2>1, ItemFacts DEF Opposite, TypeOK
<1>2. YdAvailable(p) \in Int /\ TdAvailable(p) \in Int
  BY <1>1, PositionFields
<1>3. CASE Market(o) = "CFFEX"
  <2>1. oc = "close" /\ YdAvailable(p) >= Volume(o)
    BY <1>3 DEF AutoOcFlag, CffexFlag
  <2>2. QED
    BY <1>1, <1>2, <1>3, <2>1 DEF Bucket, ByDay
<1>4. CASE Market(o) \in {"SHFE", "INE"}
  <2>1. oc = ShfeFlag(o)
    BY <1>4 DEF AutoOcFlag
  <2>2. \/ oc = "closeYesterday" /\ YdAvailable(p) >= Volume(o)
        \/ oc = "closeToday" /\ TdAvailable(p) > Volume(o)
    BY <2>1 DEF ShfeFlag
  <2>3. QED
    BY <1>1, <1>2, <1>4, <2>2 DEF Bucket, ByDay, Side
<1>5. CASE Market(o) \in {"DCE", "CZCE"}
  <2>1. oc = DceFlag(o)
    BY <1>5 DEF AutoOcFlag
  <2>2. oc = "close" /\ YdAvailable(p) + TdAvailable(p) >= Volume(o)
    BY <2>1 DEF DceFlag
  <2>3. QED
    BY <1>1, <1>2, <1>5, <2>2 DEF Bucket, ByDay
<1>6. QED
  BY <1>1, <1>3, <1>4, <1>5 DEF Markets

\* What is left under the flag is held and not spoken for.
LEMMA BooksFit ==
  ASSUME TypeOK, KnockInv, Ledger, Mirror, NEW c \in Codes, NEW s \in Sides,
         NEW p, p = position[c][s], NEW v \in Nat, NEW a \in Nat, NEW b,
         a + UntoldClosed(c, s, b) <= Outstanding(c, s, b),
         \/ b = "yd" /\ MarketOf[c] \in ByDay /\ v <= YdAvailable(p)
         \/ b = "td" /\ MarketOf[c] \in ByDay /\ v <= TdAvailable(p)
         \/ b = "both" /\ MarketOf[c] \notin ByDay /\ v <= YdAvailable(p) + TdAvailable(p)
  PROVE  v + a <= RealBucket(held[c][s], b)
<1>1. /\ UntoldClosed(c, s, b) \in Nat /\ UntoldOpened(c, s) \in Nat
      /\ Outstanding(c, s, b) \in Nat
  BY UntoldFacts, DueFacts
<1>2. /\ Yd(p) \in Int /\ Td(p) \in Int /\ held[c][s].yd \in Nat /\ held[c][s].td \in Nat
  BY BooksType
<1>3. p \in Position
  BY DEF TypeOK
<1>4. /\ p.ydClosing \in Int /\ p.tdClosing \in Int
      /\ YdAvailable(p) = Yd(p) - p.ydClosing /\ TdAvailable(p) = Td(p) - p.tdClosing
  BY <1>3, PositionFields DEF YdAvailable, TdAvailable, Yd, Td
<1>5. CASE b = "yd" /\ MarketOf[c] \in ByDay /\ v <= YdAvailable(p)
  <2>1. p.ydClosing = Outstanding(c, s, b) /\ held[c][s].yd = Yd(p) - UntoldClosed(c, s, b)
    BY <1>5 DEF Ledger, Mirror
  <2>2. v + a <= held[c][s].yd
    BY <1>1, <1>2, <1>4, <1>5, <2>1
  <2>3. QED
    BY <1>5, <2>2 DEF RealBucket
<1>6. CASE b = "td" /\ MarketOf[c] \in ByDay /\ v <= TdAvailable(p)
  <2>1. /\ p.tdClosing = Outstanding(c, s, b)
        /\ held[c][s].td = Td(p) + UntoldOpened(c, s) - UntoldClosed(c, s, b)
    BY <1>6 DEF Ledger, Mirror
  <2>2. v + a <= held[c][s].td
    BY <1>1, <1>2, <1>4, <1>6, <2>1
  <2>3. QED
    BY <1>6, <2>2 DEF RealBucket
<1>7. CASE b = "both" /\ MarketOf[c] \notin ByDay /\ v <= YdAvailable(p) + TdAvailable(p)
  <2>1. /\ p.ydClosing + p.tdClosing = Outstanding(c, s, b)
        /\ held[c][s].yd + held[c][s].td
             = Yd(p) + Td(p) + UntoldOpened(c, s) - UntoldClosed(c, s, b)
    BY <1>7 DEF Ledger, Mirror
  <2>2. v + a <= held[c][s].yd + held[c][s].td
    BY <1>1, <1>2, <1>4, <1>7, <2>1
  <2>3. QED
    BY <1>7, <2>2 DEF RealBucket
<1>8. QED
  BY <1>5, <1>6, <1>7

\* An item is covered when it is frozen, all that is ahead of it taken into account.
LEMMA FreezeCovered ==
  ASSUME TypeInv, TypeInv', Ledger, Mirror, FreezeItem, NEW h, h = Current,
         NEW B, h \notin B, \A x \in B : stage[x] \in Waiting
  PROVE  CoveredAfter(h, B)'
<1> USE DEF TypeInv
<1>1. PICK o \in Items, oc \in Flags \ {"auto"}, p0 \in Position, q0 \in Position :
        Froze(o, oc, p0, q0)
  BY FreezeFacts DEF Places
<1>2. /\ o = h /\ oc = AutoOcFlag(o) /\ stage[o] = "new" /\ ocFlag'[o] = oc
      /\ \A x \in Items : x # o => ocFlag'[x] = ocFlag[x]
  BY <1>1 DEF Froze, TypeOK
<1>3. rest' = rest /\ held' = held
  BY DEF FreezeItem, counterVars
<1>4. PICK c \in Codes, s \in Sides : c = Code(o) /\ s = Side(Bs(o), oc)
  BY ItemFacts, SideType
<1>5. PICK b : b = Bucket(Market(o), oc)
  OBVIOUS
<1>6. Ahead(B, c, s, b)' + UntoldClosed(c, s, b) <= Outstanding(c, s, b)
  BY <1>2, <1>3, AheadIsDue
<1>7. Ahead(B, c, s, b)' \in Nat /\ Volume(o) \in Nat /\ MarketOf[c] = Market(o)
  BY <1>4, ItemFacts, AheadSumNext DEF Market
<1>8. ASSUME Asked(o) = "auto", oc # "open"
      PROVE  Volume(o) + Ahead(B, c, s, b)' <= RealBucket(held[c][s], b)
  <2>1. PICK p : p = Opposite(o)
    OBVIOUS
  <2>2. /\ Side(Bs(o), oc) = Side(Bs(o), "close")
        /\ \/ b = "yd" /\ Market(o) \in ByDay /\ Volume(o) <= YdAvailable(p)
           \/ b = "td" /\ Market(o) \in ByDay /\ Volume(o) <= TdAvailable(p)
           \/ b = "both" /\ Market(o) \notin ByDay
              /\ Volume(o) <= YdAvailable(p) + TdAvailable(p)
    BY <1>2, <1>5, <1>8, <2>1, FlagFits
  <2>3. p = position[c][s]
    BY <1>4, <2>1, <2>2 DEF Opposite
  <2>4. PICK v \in Nat, a \in Nat : v = Volume(o) /\ a = Ahead(B, c, s, b)'
    BY <1>7
  <2>5. v + a <= RealBucket(held[c][s], b)
    <3>1. /\ a + UntoldClosed(c, s, b) <= Outstanding(c, s, b)
          /\ \/ b = "yd" /\ MarketOf[c] \in ByDay /\ v <= YdAvailable(p)
             \/ b = "td" /\ MarketOf[c] \in ByDay /\ v <= TdAvailable(p)
             \/ b = "both" /\ MarketOf[c] \notin ByDay /\ v <= YdAvailable(p) + TdAvailable(p)
      BY <1>6, <1>7, <2>2, <2>4
    <3>2. QED
      BY <2>3, <3>1, BooksFit
  <2>6. QED
    BY <2>4, <2>5
<1>9. QED
  BY <1>2, <1>3, <1>4, <1>5, <1>8 DEF CoveredAfter, Code, Bs, Market, Asked, Volume

-----------------------------------------------------------------------------
(* What is on its way to the counter stays covered. *)

\* Steps that leave positions, volumes and flags keep what is queued covered.
LEMMA QueueCoveredSame ==
  ASSUME TypeOK, QueueCovered, UNCHANGED <<held, rest, ocFlag>>,
         \A o, B : Queued(o, B)' => Queued(o, B)
  PROVE  QueueCovered'
<1> SUFFICES ASSUME NEW o \in Items, NEW B \in SUBSET Items, Queued(o, B)'
             PROVE  CoveredAfter(o, B)'
  BY DEF QueueCovered
<1>1. CoveredAfter(o, B)
  BY DEF QueueCovered
<1>2. QED
  BY <1>1, CoveredUnchanged

\* A freeze keeps what is queued covered and adds an item that is.
LEMMA QueueFreeze ==
  ASSUME TypeInv, TypeInv', Ledger, Mirror, QueueCovered, FreezeItem
  PROVE  QueueCovered'
<1> SUFFICES ASSUME NEW o \in Items, NEW B \in SUBSET Items, Queued(o, B)'
             PROVE  CoveredAfter(o, B)'
  BY DEF QueueCovered
<1> USE DEF TypeInv
<1>1. PICK h \in Items, oc \in Flags \ {"auto"}, p \in Position, q \in Position :
        Froze(h, oc, p, q)
  BY FreezeFacts DEF Places
<1>2. h = Current /\ stage[h] = "new" /\ \A x \in Items : x # h => ocFlag'[x] = ocFlag[x]
  BY <1>1 DEF Froze, TypeOK
<1>3. rest' = rest /\ held' = held /\ rest[h] = 0
  BY <1>2 DEF FreezeItem, counterVars, ItemInv
<1>4. CASE Queued(o, B)
  <2>1. CoveredAfter(o, B)
    BY <1>4 DEF QueueCovered
  <2>2. h \notin B /\ h # o
    BY <1>2, <1>4, QueuedFacts DEF Waiting
  <2>3. QED
    BY <1>2, <1>3, <2>1, <2>2, CoveredSame
<1>5. CASE o = h /\ \A x \in B : stage[x] \in Waiting
  <2>1. h \notin B
    BY <1>2, <1>5 DEF Waiting
  <2>2. QED
    BY <1>2, <1>5, <2>1, FreezeCovered
<1>6. QED
  BY <1>2, <1>4, <1>5, QueueFrozen

\* The answer of the counter turns what was ahead into working volume, or into nothing.
LEMMA QueueAnswer ==
  ASSUME TypeInv, TypeInv', QueueCovered, CounterAccepts \/ CounterRefuses
  PROVE  QueueCovered'
<1> SUFFICES ASSUME NEW o \in Items, NEW B \in SUBSET Items, Queued(o, B)'
             PROVE  CoveredAfter(o, B)'
  BY DEF QueueCovered
<1> USE DEF TypeInv
<1>1. toCounter # <<>> /\ toCounter' = Tail(toCounter) /\ UNCHANGED <<task, held, ocFlag>>
  BY DEF CounterAccepts, CounterRefuses
<1>2. PICK h \in Items : h = Head(toCounter) /\ stage[h] = "sent"
  BY <1>1, HeadFacts DEF Places
<1>3. PICK B2 \in SUBSET Items : B2 = B \cup {h}
  OBVIOUS
<1>4. Queued(o, B2) /\ h \notin B
  BY <1>1, <1>2, <1>3, QueueAnswered
<1>5. CoveredAfter(o, B2)
  BY <1>4 DEF QueueCovered
<1>6. /\ \A y \in Items : y # h => rest'[y] = rest[y]
      /\ rest'[h] = Volume(h) \/ rest'[h] = 0
  BY <1>2 DEF CounterAccepts, CounterRefuses, TypeOK, ItemInv
<1>7. PICK c \in Codes, s \in Sides, b \in Buckets :
        c = Code(o) /\ s = Side(Bs(o), ocFlag[o]) /\ b = Bucket(Market(o), ocFlag[o])
  BY ItemFacts, SideType, BucketType
<1>8. \A y \in Items : y # h => AheadOf(y, B, c, s, b)' = AheadOf(y, B2, c, s, b)
  BY <1>1, <1>3, <1>6 DEF AheadOf, Closes, Code, Bs, Volume
<1>9. AheadOf(h, B, c, s, b)' <= AheadOf(h, B2, c, s, b)
  <2>1. Volume(h) \in Nat
    BY ItemFacts
  <2>2. QED
    BY <1>1, <1>3, <1>4, <1>6, <2>1 DEF AheadOf, Closes, Code, Bs, Volume
<1>10. AheadOf(h, B, c, s, b)' + RealBucket(held[c][s], b)
         <= AheadOf(h, B2, c, s, b) + RealBucket(held'[c][s], b)
  <2>1. AheadOf(h, B, c, s, b)' \in Nat /\ AheadOf(h, B2, c, s, b) \in Nat
    BY AheadFacts, AheadNext
  <2>2. held[c][s] \in Holding
    BY DEF TypeOK
  <2>3. RealBucket(held[c][s], b) \in Nat /\ held'[c][s] = held[c][s]
    BY <1>1, <2>2, RealBucketType
  <2>4. QED
    BY <1>9, <2>1, <2>3
<1>11. ocFlag'[o] = ocFlag[o]
  BY <1>1
<1>12. QED
  BY <1>5, <1>7, <1>8, <1>10, <1>11, CoveredKept

\* A withdrawal leaves less ahead.
LEMMA QueueWithdraw ==
  ASSUME TypeInv, TypeInv', QueueCovered, NEW x \in Items, Withdraw(x)
  PROVE  QueueCovered'
<1> SUFFICES ASSUME NEW o \in Items, NEW B \in SUBSET Items, Queued(o, B)'
             PROVE  CoveredAfter(o, B)'
  BY DEF QueueCovered
<1> USE DEF TypeInv
<1>1. UNCHANGED <<toCounter, task, held, ocFlag>>
  BY DEF Withdraw
<1>2. stage[x] = "working" /\ rest'[x] = 0 /\ \A y \in Items : y # x => rest'[y] = rest[y]
  BY WithdrawFacts
<1>3. Queued(o, B)
  BY <1>1, QueueSame
<1>4. CoveredAfter(o, B) /\ x \notin B
  BY <1>2, <1>3, QueuedFacts DEF QueueCovered, Waiting
<1>5. PICK c \in Codes, s \in Sides, b \in Buckets :
        c = Code(o) /\ s = Side(Bs(o), ocFlag[o]) /\ b = Bucket(Market(o), ocFlag[o])
  BY ItemFacts, SideType, BucketType
<1>6. \A y \in Items : y # x => AheadOf(y, B, c, s, b)' = AheadOf(y, B, c, s, b)
  BY <1>1, <1>2 DEF AheadOf, Closes, Code, Bs, Volume
<1>7. AheadOf(x, B, c, s, b)' = 0 /\ AheadOf(x, B, c, s, b) \in Nat
  BY <1>2, <1>4, AheadFacts DEF AheadOf
<1>8. AheadOf(x, B, c, s, b)' + RealBucket(held[c][s], b)
         <= AheadOf(x, B, c, s, b) + RealBucket(held'[c][s], b)
  <2>1. held[c][s] \in Holding
    BY DEF TypeOK
  <2>2. RealBucket(held[c][s], b) \in Nat /\ held'[c][s] = held[c][s]
    BY <1>1, <2>1, RealBucketType
  <2>3. QED
    BY <1>7, <2>2
<1>9. ocFlag'[o] = ocFlag[o]
  BY <1>1
<1>10. QED
  BY <1>4, <1>5, <1>6, <1>8, <1>9, CoveredKept

\* A trade takes from the position what it takes from the working volume, or adds to it.
LEMMA QueueTrade ==
  ASSUME TypeInv, TypeInv', QueueCovered, NEW x \in Items, NEW v \in 1 .. Volume(x), Trade(x, v)
  PROVE  QueueCovered'
<1> SUFFICES ASSUME NEW o \in Items, NEW B \in SUBSET Items, Queued(o, B)'
             PROVE  CoveredAfter(o, B)'
  BY DEF QueueCovered
<1> USE DEF TypeInv
<1>1. UNCHANGED <<toCounter, task, ocFlag>>
  BY DEF Trade
<1>2. /\ stage[x] = "working" /\ v \in Nat \ {0} /\ v <= rest[x] /\ rest[x] \in Nat
      /\ rest'[x] = rest[x] - v /\ \A y \in Items : y # x => rest'[y] = rest[y]
  BY TradeFacts
<1>3. Queued(o, B)
  BY <1>1, QueueSame
<1>4. CoveredAfter(o, B) /\ x \notin B
  BY <1>2, <1>3, QueuedFacts DEF QueueCovered, Waiting
<1>5. PICK c \in Codes, s \in Sides, b \in Buckets :
        c = Code(o) /\ s = Side(Bs(o), ocFlag[o]) /\ b = Bucket(Market(o), ocFlag[o])
  BY ItemFacts, SideType, BucketType
<1>6. \A y \in Items : y # x => AheadOf(y, B, c, s, b)' = AheadOf(y, B, c, s, b)
  BY <1>1, <1>2 DEF AheadOf, Closes, Code, Bs, Volume
<1>7. PICK c0 \in Codes, s0 \in Sides, a \in Buckets :
        c0 = Code(x) /\ s0 = Side(Bs(x), ocFlag[x]) /\ a = Bucket(Market(x), ocFlag[x])
  BY ItemFacts, SideType, BucketType
<1>8. Closes(x, c, s, b) <=> ocFlag[x] # "open" /\ c = c0 /\ s = s0 /\ b = a
  BY <1>7 DEF Closes, Market
<1>9. AheadOf(x, B, c, s, b)' = AheadOf(x, B, c, s, b) - (IF Closes(x, c, s, b) THEN v ELSE 0)
      /\ AheadOf(x, B, c, s, b) \in Nat
  BY <1>1, <1>2, <1>4, AheadFacts DEF AheadOf, Closes, Code, Bs
<1>10. PICK h : h = held[c0][s0]
  OBVIOUS
<1>11. PICK h2 : h2 = Traded(h, ocFlag[x], a, v)
  OBVIOUS
<1>12. /\ h2 \in Holding /\ h \in Holding
       /\ ocFlag[x] = "open" => h2.yd = h.yd /\ h2.td = h.td + v
       /\ ocFlag[x] # "open" =>
            /\ a \in {"yd", "td", "both"} /\ h2.yd + h2.td = h.yd + h.td - v
            /\ a = "yd" => h2.yd = h.yd - v /\ h2.td = h.td
            /\ a = "td" => h2.td = h.td - v /\ h2.yd = h.yd
  BY <1>2, <1>7, <1>10, <1>11, TradedFacts
<1>13. held'[c][s] = IF c = c0 /\ s = s0 THEN h2 ELSE held[c][s]
  <2>1. held' = [held EXCEPT ![c0][s0] = h2]
    BY <1>7, <1>10, <1>11 DEF Trade
  <2>2. QED
    BY <2>1 DEF TypeOK
<1>14. CASE ocFlag[o] = "open"
  BY <1>1, <1>14 DEF CoveredAfter
<1>15. CASE ocFlag[o] # "open"
  <2>1. ocFlag[x] # "open" /\ c = c0 => a = b \/ (a = "yd" /\ b = "td") \/ (a = "td" /\ b = "yd")
    <3>1. /\ ocFlag[x] \in Flags /\ (Market(x) \notin ByDay => ocFlag[x] \in {"auto", "open", "close"})
          /\ ocFlag[o] \in Flags /\ (Market(o) \notin ByDay => ocFlag[o] \in {"auto", "open", "close"})
      BY DEF TypeOK, PlainInv
    <3>2. ocFlag[x] # "open" /\ c = c0 => ~ OtherBucket(c, a)
      BY <1>7, <3>1, WrongBucket
    <3>3. ~ OtherBucket(c, b)
      BY <1>5, <3>1, WrongBucket
    <3>4. b # "none"
      <4>1. ocFlag[o] # "auto"
        BY <1>3, QueuedFacts DEF ItemInv, Waiting
      <4>2. Market(o) \in Markets
        BY ItemFacts
      <4>3. QED
        BY <1>5, <1>15, <3>1, <4>1, <4>2, BucketByDay
    <3>5. QED
      BY <1>12, <3>2, <3>3, <3>4 DEF OtherBucket, Buckets
  <2>2. /\ held[c][s] \in Holding /\ held'[c][s] \in Holding
        /\ h.yd \in Nat /\ h.td \in Nat /\ h2.yd \in Nat /\ h2.td \in Nat
    BY <1>12 DEF TypeOK, Holding
  <2>3. RealBucket(held[c][s], b) \in Nat /\ RealBucket(held'[c][s], b) \in Nat
    BY <2>2, RealBucketType
  <2>4. RealBucket(held[c][s], b) - (IF Closes(x, c, s, b) THEN v ELSE 0)
          <= RealBucket(held'[c][s], b)
    <3>1. CASE ~ (c = c0 /\ s = s0)
      BY <1>8, <1>13, <2>3, <3>1
    <3>2. CASE c = c0 /\ s = s0
      <4>1. held[c][s] = h /\ held'[c][s] = h2
        BY <1>10, <1>13, <3>2
      <4>2. CASE ocFlag[x] = "open"
        <5>1. RealBucket(h, b) <= RealBucket(h2, b)
          BY <1>2, <1>12, <2>2, <4>2 DEF RealBucket
        <5>2. QED
          BY <1>8, <2>3, <4>1, <4>2, <5>1
      <4>3. CASE ocFlag[x] # "open" /\ a = b
        <5>1. RealBucket(h, b) - v = RealBucket(h2, b)
          BY <1>2, <1>12, <2>2, <4>3 DEF RealBucket
        <5>2. QED
          BY <1>8, <2>3, <3>2, <4>1, <4>3, <5>1
      <4>4. CASE ocFlag[x] # "open" /\ ((a = "yd" /\ b = "td") \/ (a = "td" /\ b = "yd"))
        <5>1. RealBucket(h, b) = RealBucket(h2, b) /\ a # b
          BY <1>12, <2>2, <4>4 DEF RealBucket
        <5>2. QED
          BY <1>8, <2>3, <4>1, <5>1
      <4>5. QED
        BY <2>1, <3>2, <4>2, <4>3, <4>4
    <3>3. QED
      BY <3>1, <3>2
  <2>5. AheadOf(x, B, c, s, b)' + RealBucket(held[c][s], b)
          <= AheadOf(x, B, c, s, b) + RealBucket(held'[c][s], b)
    BY <1>2, <1>9, <2>3, <2>4
  <2>6. ocFlag'[o] = ocFlag[o]
    BY <1>1
  <2>7. QED
    BY <1>4, <1>5, <1>6, <2>5, <2>6, CoveredKept
<1>16. QED
  BY <1>14, <1>15

\* Every step keeps what is queued covered.
LEMMA QueueStep ==
  ASSUME TypeInv, TypeInv', Ledger, Mirror, QueueCovered, [Next]_vars
  PROVE  QueueCovered'
<1> DEFINE G == QueueCovered'
<1> USE DEF TypeInv
<1>1. \A r \in Requests : SendTradeOrder(r) => G
  <2> SUFFICES ASSUME NEW r \in Requests, SendTradeOrder(r) PROVE G
    OBVIOUS
  <2>1. UNCHANGED <<held, rest, ocFlag>>
    BY DEF SendTradeOrder, counterVars
  <2>2. QED
    BY <2>1, QueueSent, QueueCoveredSame
<1>2. OnTradeOrder => G
  <2> SUFFICES ASSUME OnTradeOrder PROVE G
    OBVIOUS
  <2>1. UNCHANGED <<held, rest, ocFlag>>
    BY DEF OnTradeOrder
  <2>2. QED
    BY <2>1, QueueHanded, QueueCoveredSame
<1>3. \/ UNCHANGED vars \/ Throw \/ HandleTradeOrderRep \/ ReleaseItem \/ ReplyDone
      \/ SendTradeKnock
      => G
  <2> SUFFICES ASSUME \/ UNCHANGED vars \/ Throw \/ HandleTradeOrderRep \/ ReleaseItem
                      \/ ReplyDone \/ SendTradeKnock
               PROVE  G
    OBVIOUS
  <2>1. UNCHANGED <<toCounter, held, rest, ocFlag>>
    BY DEF vars, Throw, HandleTradeOrderRep, ReleaseItem, ReplyDone, SendTradeKnock, counterVars
  <2>2. task'.kind # "order" \/ task' = task
    <3>1. ReleaseItem => task'.kind # "order"
      BY NextItemFacts DEF ReleaseItem, Looping
    <3>2. QED
      BY <3>1 DEF vars, Throw, HandleTradeOrderRep, ReplyDone, SendTradeKnock, Idle
  <2>3. QED
    BY <2>1, <2>2, QueueSame, QueueCoveredSame
<1>4. FreezeItem => G
  BY QueueFreeze
<1>5. (CounterAccepts => G) /\ (CounterRefuses => G)
  BY QueueAnswer
<1>6. \A o \in Items : (\E v \in 1 .. Volume(o) : Trade(o, v)) => G
  BY QueueTrade
<1>7. \A o \in Items : Withdraw(o) => G
  BY QueueWithdraw
<1> HIDE DEF G, TypeInv
<1>8. G
  BY <1>1, <1>2, <1>3, <1>4, <1>5, <1>6, <1>7, NextCases
<1>9. QED
  BY <1>8 DEF G

\* Nothing is queued at the start.
LEMMA InitQueue == Init => QueueCovered
  BY DEF Init, Idle, QueueCovered, Queued, QueuedAtCounter, QueuedInTask

\* At the start the books are the real position.
LEMMA InitMirror == Init => Mirror
<1> SUFFICES ASSUME Init PROVE Mirror
  OBVIOUS
<1>1. \A o : UntoldTrades(o) = 0
  <2> TAKE o
  <2>1. {k \in pushed : k.item = o /\ k.trade /\ k.no \notin knocks} = {}
    BY DEF Init
  <2>2. QED
    BY <2>1, SumOfNone DEF UntoldTrades
<1>2. ASSUME NEW c, NEW s PROVE UntoldOpened(c, s) = 0 /\ \A b : UntoldClosed(c, s, b) = 0
  <2> DEFINE f == [o \in Items |-> UntoldOpenedOf(o, c, s)]
  <2>1. \A o \in Items : f[o] = 0
    BY <1>1 DEF UntoldOpenedOf
  <2>2. SumFunctionOnSet(f, Items) = 0
    <3> HIDE DEF f
    <3>1. QED
      BY <2>1, ItemsFinite, SumZero
  <2>3. ASSUME NEW b PROVE UntoldClosed(c, s, b) = 0
    <3> DEFINE g == [o \in Items |-> UntoldClosedOf(o, c, s, b)]
    <3>1. \A o \in Items : g[o] = 0
      BY <1>1 DEF UntoldClosedOf
    <3>2. SumFunctionOnSet(g, Items) = 0
      <4> HIDE DEF g
      <4>1. QED
        BY <3>1, ItemsFinite, SumZero
    <3>3. QED
      BY <3>2 DEF UntoldClosed
  <2>4. QED
    BY <2>2, <2>3 DEF UntoldOpened
<1>3. ASSUME NEW c \in Codes, NEW s \in Sides
      PROVE  /\ held[c][s].yd = Yd(position[c][s]) /\ held[c][s].td = Td(position[c][s])
             /\ held[c][s].yd \in Nat /\ held[c][s].td \in Nat
  <2>1. position[c][s] = InitPosition(Holdings[c][s]) /\ held[c][s] = Holdings[c][s]
    BY DEF Init
  <2>2. Holdings[c][s] \in Holding
    BY FutureMasterAssumption
  <2>3. QED
    BY <2>1, <2>2 DEF InitPosition, Yd, Td, Holding
<1>4. SUFFICES ASSUME NEW c \in Codes, NEW s \in Sides
      PROVE  LET p == position[c][s]
                 h == held[c][s]
             IN IF MarketOf[c] \in ByDay
                THEN /\ h.yd = Yd(p) - UntoldClosed(c, s, "yd")
                     /\ h.td = Td(p) + UntoldOpened(c, s) - UntoldClosed(c, s, "td")
                ELSE h.yd + h.td = Yd(p) + Td(p) + UntoldOpened(c, s) - UntoldClosed(c, s, "both")
  BY DEF Mirror
<1>5. UntoldOpened(c, s) = 0 /\ \A b : UntoldClosed(c, s, b) = 0
  BY <1>2
<1>6. /\ held[c][s].yd = Yd(position[c][s]) /\ held[c][s].td = Td(position[c][s])
      /\ held[c][s].yd \in Nat /\ held[c][s].td \in Nat
  BY <1>3
<1>7. QED
  BY <1>5, <1>6

\* The first item of the queue has nothing but working orders ahead.
LEMMA QueueMeans ==
  ASSUME TypeOK, QueueCovered
  PROVE  AutoCloseCovered
<1> SUFFICES ASSUME toCounter # <<>>, Asked(Head(toCounter)) = "auto"
             PROVE  Covered(Head(toCounter))
  BY DEF AutoCloseCovered
<1>1. PICK o \in Items : o = Head(toCounter) /\ o = toCounter[1] /\ 1 \in DOMAIN toCounter
  BY DEF TypeOK
<1>2. Queued(o, {})
  <2>1. {toCounter[j] : j \in 1 .. 1 - 1} = {}
    OBVIOUS
  <2>2. QED
    BY <1>1, <2>1 DEF Queued, QueuedAtCounter
<1>3. CoveredAfter(o, {})
  BY <1>2 DEF QueueCovered
<1>4. ASSUME NEW c, NEW s, NEW b PROVE Ahead({}, c, s, b) = Working(c, s, b)
  <2>1. \A x \in Items : AheadOf(x, {}, c, s, b) = WorkingOf(x, c, s, b)
    BY DEF AheadOf, WorkingOf
  <2>2. QED
    BY <2>1 DEF Ahead, Working
<1>5. PICK c, s, b : c = Code(o) /\ s = Side(Bs(o), ocFlag[o]) /\ b = Bucket(Market(o), ocFlag[o])
  OBVIOUS
<1>6. ocFlag[o] # "open" => Volume(o) + Working(c, s, b) <= RealBucket(held[c][s], b)
  BY <1>1, <1>3, <1>4, <1>5 DEF CoveredAfter
<1>7. Covered(o)
  BY <1>5, <1>6, CoveredIs
<1>8. QED
  BY <1>1, <1>7

\* An order whose open/close flag GetAutoOcFlag chose never wants to close more than the
\* account holds when the counter looks at it (inner_future_master.cc:335-427), although
\* the master chose it from books that lag behind the counter.
THEOREM FutureAutoCloseCovered ==
  PlainFlags /\ LimitSparesClosing => (Spec => []AutoCloseCovered)
<1> SUFFICES ASSUME PlainFlags, LimitSparesClosing PROVE Spec => []AutoCloseCovered
  OBVIOUS
<1> DEFINE Inv == TypeInv /\ ThrownInv /\ Ledger /\ Mirror /\ QueueCovered
<1>1. Init => Inv
  BY InitTypeInv, InitLedger, InitMirror, InitQueue
<1>2. Inv /\ [Next]_vars => Inv'
  <2>1. TypeInv /\ [Next]_vars => TypeInv'
    BY TypeInvStep
  <2>2. TypeInv /\ ThrownInv /\ [Next]_vars => ThrownInv'
    BY ThrownStep DEF TypeInv
  <2>3. TypeInv /\ TypeInv' /\ ThrownInv /\ Ledger /\ [Next]_vars => Ledger'
    BY LedgerStep
  <2>4. TypeInv /\ TypeInv' /\ Mirror /\ [Next]_vars => Mirror'
    BY MirrorStep
  <2>5. TypeInv /\ TypeInv' /\ Ledger /\ Mirror /\ QueueCovered /\ [Next]_vars => QueueCovered'
    BY QueueStep
  <2>6. QED
    BY <2>1, <2>2, <2>3, <2>4, <2>5
<1>3. Inv => AutoCloseCovered
  BY QueueMeans DEF TypeInv
<1>4. QED
  BY <1>1, <1>2, <1>3, PTL DEF Spec

-----------------------------------------------------------------------------
(* The openings of the day. *)

\* What item o may still open of type t.
OpeningOf(o, t) ==
  IF TypeOf[Code(o)] = t /\ ocFlag[o] = "open"
  THEN CASE stage[o] = "working" -> rest[o]
         [] stage[o] \in Waiting -> Volume(o)
         [] OTHER -> 0
  ELSE 0
Opening(t) == SumFunctionOnSet([o \in Items |-> OpeningOf(o, t)], Items)
\* open_cache_ bounds what is held and may still be opened, and stays within the limit:
\* where it was beyond from the start, nothing is opened.
OpeningInv ==
  \A t \in Types :
    /\ HeldToday(t) + Opening(t) <= openCache[t]
    /\ MaxTodayOpening >= 0 => openCache[t] <= MaxTodayOpening \/ Opening(t) = 0

\* What may still be opened is a natural number.
LEMMA OpeningFacts ==
  ASSUME TypeOK, NEW t
  PROVE  Opening(t) \in Nat /\ \A o \in Items : OpeningOf(o, t) \in Nat
<1> DEFINE f == [o \in Items |-> OpeningOf(o, t)]
<1>1. \A o \in Items : rest[o] \in Nat /\ Volume(o) \in Nat
  BY ItemFacts DEF TypeOK
<1>2. \A o \in Items : f[o] \in Nat /\ f[o] = OpeningOf(o, t)
  BY <1>1 DEF OpeningOf
<1>3. SumFunctionOnSet(f, Items) \in Nat
  <2> HIDE DEF f
  <2>1. QED
    BY <1>2, ItemsFinite, SumNat
<1>4. QED
  BY <1>2, <1>3 DEF Opening

\* The same after a step.
LEMMA OpeningNext ==
  ASSUME TypeOK', NEW t
  PROVE  Opening(t)' \in Nat /\ \A o \in Items : OpeningOf(o, t)' \in Nat
<1> DEFINE f == [o \in Items |-> OpeningOf(o, t)']
<1>1. \A o \in Items : rest'[o] \in Nat /\ Volume(o) \in Nat
  BY ItemFacts DEF TypeOK
<1>2. \A o \in Items : f[o] \in Nat /\ f[o] = OpeningOf(o, t)'
  BY <1>1 DEF OpeningOf, Volume
<1>3. SumFunctionOnSet(f, Items) \in Nat
  <2> HIDE DEF f
  <2>1. QED
    BY <1>2, ItemsFinite, SumNat
<1>4. QED
  BY <1>2, <1>3 DEF Opening

\* What may still be opened when one item changes.
LEMMA OpeningChange ==
  ASSUME TypeOK, TypeOK', NEW t, NEW o \in Items,
         \A x \in Items : x # o => OpeningOf(x, t)' = OpeningOf(x, t)
  PROVE  Opening(t)' = Opening(t) - OpeningOf(o, t) + OpeningOf(o, t)'
<1> DEFINE f == [x \in Items |-> OpeningOf(x, t)]
           g == [x \in Items |-> OpeningOf(x, t)']
<1>1. \A x \in Items : f[x] \in Int /\ g[x] \in Int /\ (x # o => f[x] = g[x])
  <2>1. \A x \in Items : OpeningOf(x, t) \in Nat /\ OpeningOf(x, t)' \in Nat
    BY OpeningFacts, OpeningNext
  <2>2. QED
    BY <2>1
<1>2. f[o] = OpeningOf(o, t) /\ g[o] = OpeningOf(o, t)'
  OBVIOUS
<1>3. SumFunctionOnSet(g, Items) = SumFunctionOnSet(f, Items) - f[o] + g[o]
  <2> HIDE DEF f, g
  <2>1. QED
    BY <1>1, ItemSumChange
<1>4. Opening(t) = SumFunctionOnSet(f, Items) /\ Opening(t)' = SumFunctionOnSet(g, Items)
  BY DEF Opening
<1>5. QED
  BY <1>2, <1>3, <1>4

\* It falls when every item falls.
LEMMA OpeningLess ==
  ASSUME TypeOK, TypeOK', NEW t, \A x \in Items : OpeningOf(x, t)' <= OpeningOf(x, t)
  PROVE  Opening(t)' <= Opening(t)
<1> DEFINE f == [x \in Items |-> OpeningOf(x, t)]
           g == [x \in Items |-> OpeningOf(x, t)']
<1>1. \A x \in Items : f[x] \in Int /\ g[x] \in Int /\ g[x] <= f[x]
  <2>1. \A x \in Items : OpeningOf(x, t) \in Nat /\ OpeningOf(x, t)' \in Nat
    BY OpeningFacts, OpeningNext
  <2>2. QED
    BY <2>1
<1>2. SumFunctionOnSet(g, Items) <= SumFunctionOnSet(f, Items)
  <2> HIDE DEF f, g
  <2>1. QED
    BY <1>1, ItemsFinite, SumLess
<1>3. QED
  BY <1>2 DEF Opening

\* What is held since today is a natural number.
LEMMA HeldTodayType ==
  ASSUME TypeOK, NEW t
  PROVE  HeldToday(t) \in Nat
<1>1. held \in [Codes -> [Sides -> Holding]]
  BY DEF TypeOK
<1>2. HeldToday(t) = SumFunctionOnSet(HeldOn(held), CodesOf(t) \X Sides)
  BY DEF HeldToday, HeldOn
<1>3. QED
  BY <1>1, <1>2, TodayFacts

\* An item that is neither frozen nor traded opens no more than before.
LEMMA OpeningItem ==
  ASSUME TypeInv, TypeInv', [Next]_vars, ~ FreezeItem,
         \A x \in Items : ~ \E v \in 1 .. Volume(x) : Trade(x, v),
         NEW t, NEW o \in Items
  PROVE  OpeningOf(o, t)' <= OpeningOf(o, t)
<1> USE DEF TypeInv
<1> DEFINE G == OpeningOf(o, t)' <= OpeningOf(o, t)
<1>1. rest[o] \in Nat /\ Volume(o) \in Nat /\ OpeningOf(o, t) \in Nat
  BY ItemFacts, OpeningFacts DEF TypeOK
<1>2. ASSUME UNCHANGED <<ocFlag, stage, rest>> PROVE G
  <2>1. OpeningOf(o, t)' = OpeningOf(o, t)
    BY <1>2 DEF OpeningOf, Code, Volume
  <2>2. QED
    BY <1>1, <2>1
<1>3. ASSUME NEW h \in Items, NEW st, st \in {"ended", "refused"},
             UNCHANGED <<ocFlag, rest>>, stage' = [stage EXCEPT ![h] = st]
      PROVE  G
  <2>1. CASE o = h
    <3>1. stage'[o] = st
      BY <1>3, <2>1 DEF TypeOK
    <3>2. OpeningOf(o, t)' = 0
      BY <1>3, <3>1 DEF OpeningOf, Waiting
    <3>3. QED
      BY <1>1, <3>2
  <2>2. CASE o # h
    <3>1. stage'[o] = stage[o]
      BY <1>3, <2>2 DEF TypeOK
    <3>2. OpeningOf(o, t)' = OpeningOf(o, t)
      BY <1>3, <3>1 DEF OpeningOf, Code, Volume
    <3>3. QED
      BY <1>1, <3>2
  <2>3. QED
    BY <2>1, <2>2
<1>4. ReleaseItem => G
  <2>1. ReleaseItem => Current \in Items /\ UNCHANGED <<ocFlag, rest>>
                       /\ stage' = [stage EXCEPT ![Current] = "ended"]
    BY CurrentFacts DEF ReleaseItem, Places, counterVars
  <2>2. QED
    BY <1>3, <2>1
<1>5. CounterRefuses => G
  <2>1. CounterRefuses => /\ Head(toCounter) \in Items /\ UNCHANGED <<ocFlag, rest>>
                          /\ stage' = [stage EXCEPT ![Head(toCounter)] = "refused"]
    BY HeadFacts DEF CounterRefuses, Places
  <2>2. QED
    BY <1>3, <2>1
<1>6. CounterAccepts => G
  <2> SUFFICES ASSUME CounterAccepts PROVE G
    OBVIOUS
  <2>1. PICK h \in Items : h = Head(toCounter) /\ stage[h] = "sent"
    BY HeadFacts DEF CounterAccepts, Places
  <2>2. /\ stage' = [stage EXCEPT ![h] = "working"] /\ rest' = [rest EXCEPT ![h] = Volume(h)]
        /\ ocFlag' = ocFlag
    BY <2>1 DEF CounterAccepts
  <2>3. CASE o = h
    <3>1. stage'[o] = "working" /\ rest'[o] = Volume(o) /\ stage[o] = "sent"
      BY <2>1, <2>2, <2>3 DEF TypeOK
    <3>2. OpeningOf(o, t)' = OpeningOf(o, t)
      BY <2>2, <3>1 DEF OpeningOf, Code, Volume, Waiting
    <3>3. QED
      BY <1>1, <3>2
  <2>4. CASE o # h
    <3>1. stage'[o] = stage[o] /\ rest'[o] = rest[o]
      BY <2>2, <2>4 DEF TypeOK
    <3>2. OpeningOf(o, t)' = OpeningOf(o, t)
      BY <2>2, <3>1 DEF OpeningOf, Code, Volume
    <3>3. QED
      BY <1>1, <3>2
  <2>5. QED
    BY <2>3, <2>4
<1>7. OnTradeOrder => G
  <2> SUFFICES ASSUME OnTradeOrder PROVE G
    OBVIOUS
  <2>1. /\ UNCHANGED <<ocFlag, rest>> /\ task.kind = "order"
        /\ stage' = [x \in Items |-> IF \E i \in DOMAIN task.items : task.items[i] = x
                                     THEN "sent" ELSE stage[x]]
    BY DEF OnTradeOrder, LoopEnded
  <2>2. CASE \E i \in DOMAIN task.items : task.items[i] = o
    <3>1. PICK i \in DOMAIN task.items : task.items[i] = o
      BY <2>2
    <3>2. i < task.next
      <4>1. task.items \in Seq(Items) /\ task.next \in Nat /\ task.next >= 1
            /\ task.next \notin DOMAIN task.items
        BY DEF TypeOK, Task, OnTradeOrder, LoopEnded, Places, TaskWhereabouts
      <4>2. QED
        BY <3>1, <4>1
    <3>3. stage[o] = "frozen" /\ stage'[o] = "sent"
      BY <2>1, <3>1, <3>2 DEF Places, TaskWhereabouts
    <3>4. OpeningOf(o, t)' = OpeningOf(o, t)
      BY <2>1, <3>3 DEF OpeningOf, Code, Volume, Waiting
    <3>5. QED
      BY <1>1, <3>4
  <2>3. CASE ~ \E i \in DOMAIN task.items : task.items[i] = o
    <3>1. stage'[o] = stage[o]
      BY <2>1, <2>3
    <3>2. OpeningOf(o, t)' = OpeningOf(o, t)
      BY <2>1, <3>1 DEF OpeningOf, Code, Volume
    <3>3. QED
      BY <1>1, <3>2
  <2>4. QED
    BY <2>2, <2>3
<1>8. \A x \in Items : Withdraw(x) => G
  <2> SUFFICES ASSUME NEW x \in Items, Withdraw(x) PROVE G
    OBVIOUS
  <2>1. rest' = [rest EXCEPT ![x] = 0] /\ UNCHANGED <<ocFlag, stage>>
    BY DEF Withdraw
  <2>2. rest'[o] <= rest[o]
    BY <1>1, <2>1 DEF TypeOK
  <2>3. QED
    BY <1>1, <2>1, <2>2 DEF OpeningOf, Code, Volume
<1>9. \A r \in Requests : SendTradeOrder(r) => G
  BY <1>2 DEF SendTradeOrder, counterVars
<1>10. \/ UNCHANGED vars \/ Throw \/ HandleTradeOrderRep \/ ReplyDone \/ SendTradeKnock
       => G
  BY <1>2 DEF vars, Throw, HandleTradeOrderRep, ReplyDone, SendTradeKnock, counterVars
<1>11. FreezeItem => G
  OBVIOUS
<1>12. \A x \in Items : (\E v \in 1 .. Volume(x) : Trade(x, v)) => G
  OBVIOUS
<1> HIDE DEF G, TypeInv
<1>13. G
  BY <1>4, <1>5, <1>6, <1>7, <1>8, <1>9, <1>10, <1>11, <1>12, NextCases
<1>14. QED
  BY <1>13 DEF G

\* Only a freeze counts an opening: what is withdrawn or rejected stays counted.
LEMMA OpenCacheStep ==
  ASSUME TypeInv, [Next]_vars, ~ FreezeItem
  PROVE  \A t \in Types : openCache'[t] = openCache[t]
<1> USE DEF TypeInv
<1> DEFINE G == \A t \in Types : openCache'[t] = openCache[t]
<1>1. ReleaseItem => G
  <2> SUFFICES ASSUME ReleaseItem PROVE G
    OBVIOUS
  <2>1. PICK o \in Items : o = Current /\ CountOpening(o, ocFlag[o], 0, Volume(o))
    BY CurrentFacts DEF ReleaseItem, Places, HandleOrderRep
  <2>2. Volume(o) \in Nat
    BY ItemFacts
  <2>3. \A t \in Types :
          openCache'[t] = IF ocFlag[o] = "open" /\ ForbidClosingToday /\ t = TypeOf[Code(o)]
                          THEN openCache[t] + 0 ELSE openCache[t]
    <3>1. PICK zero \in Nat, v \in Nat, oc \in {ocFlag[o]} : zero = 0 /\ v = Volume(o) /\ oc = ocFlag[o]
      BY <2>2
    <3>2. CountOpening(o, oc, zero, v)
      BY <2>1, <3>1
    <3>3. QED
      BY <3>1, <3>2, CountFacts
  <2>4. \A t \in Types : openCache[t] \in Nat
    BY DEF TypeOK
  <2>5. \A t \in Types : openCache[t] + 0 = openCache[t]
    BY <2>4
  <2>6. QED
    BY <2>3, <2>5
<1>2. SendTradeKnock => G
  <2> SUFFICES ASSUME SendTradeKnock PROVE G
    OBVIOUS
  <2>1. PICK k \in pushed : HandleKnock(k)
    BY DEF SendTradeKnock
  <2>2. PICK o \in Items, w \in Nat : CountOpening(o, ocFlag[o], 0, w)
    <3>1. k.item \in Items /\ (IF k.trade THEN 0 ELSE k.volume) \in Nat
      BY DEF TypeOK, Knock
    <3>2. QED
      BY <2>1, <3>1 DEF HandleKnock
  <2>3. \A t \in Types :
          openCache'[t] = IF ocFlag[o] = "open" /\ ForbidClosingToday /\ t = TypeOf[Code(o)]
                          THEN openCache[t] + 0 ELSE openCache[t]
    BY <2>2, CountFacts
  <2>4. QED
    BY <2>3 DEF TypeOK
<1>3. openCache' = openCache => G
  OBVIOUS
<1>4. /\ \A r \in Requests : SendTradeOrder(r) => G
      /\ \A x \in Items : (\E v \in 1 .. Volume(x) : Trade(x, v)) => G
      /\ \A x \in Items : Withdraw(x) => G
  BY <1>3 DEF SendTradeOrder, Trade, Withdraw, masterVars
<1>5. \/ UNCHANGED vars \/ Throw \/ OnTradeOrder \/ HandleTradeOrderRep \/ ReplyDone
      \/ CounterAccepts \/ CounterRefuses
      => G
  BY <1>3 DEF vars, Throw, OnTradeOrder, HandleTradeOrderRep, ReplyDone, CounterAccepts,
              CounterRefuses, masterVars
<1>6. FreezeItem => G
  OBVIOUS
<1> HIDE DEF G, TypeInv
<1>7. G
  BY <1>1, <1>2, <1>4, <1>5, <1>6, NextCases
<1>8. QED
  BY <1>7 DEF G

\* Only a trade changes the real position.
LEMMA HeldStays ==
  ASSUME [Next]_vars, \A x \in Items : ~ \E v \in 1 .. Volume(x) : Trade(x, v)
  PROVE  held' = held
<1> DEFINE G == held' = held
<1>1. /\ \A r \in Requests : SendTradeOrder(r) => G
      /\ \A x \in Items : (\E v \in 1 .. Volume(x) : Trade(x, v)) => G
      /\ \A x \in Items : Withdraw(x) => G
  BY DEF SendTradeOrder, Withdraw, counterVars
<1>2. \/ UNCHANGED vars \/ FreezeItem \/ Throw \/ OnTradeOrder \/ HandleTradeOrderRep \/ ReleaseItem
      \/ ReplyDone \/ SendTradeKnock \/ CounterAccepts \/ CounterRefuses
      => G
  BY DEF vars, FreezeItem, Throw, OnTradeOrder, HandleTradeOrderRep, ReleaseItem, ReplyDone,
         SendTradeKnock, CounterAccepts, CounterRefuses, counterVars
<1> HIDE DEF G
<1>3. G
  BY <1>1, <1>2, NextCases
<1>4. QED
  BY <1>3 DEF G

\* Steps that neither freeze nor trade keep the count ahead of the openings.
LEMMA OpeningKept ==
  ASSUME TypeInv, TypeInv', OpeningInv, [Next]_vars, ~ FreezeItem,
         \A x \in Items : ~ \E v \in 1 .. Volume(x) : Trade(x, v)
  PROVE  OpeningInv'
<1> SUFFICES ASSUME NEW t \in Types
             PROVE  /\ HeldToday(t)' + Opening(t)' <= openCache'[t]
                    /\ MaxTodayOpening >= 0 =>
                         openCache'[t] <= MaxTodayOpening \/ Opening(t)' = 0
  BY DEF OpeningInv
<1> USE DEF TypeInv
<1>1. openCache'[t] = openCache[t] /\ openCache[t] \in Nat
  BY OpenCacheStep DEF TypeOK
<1>2. HeldToday(t)' = HeldToday(t) /\ HeldToday(t) \in Nat
  BY HeldStays, HeldTodayType DEF HeldToday, CodesOf
<1>3. \A x \in Items : OpeningOf(x, t)' <= OpeningOf(x, t)
  BY OpeningItem
<1>4. Opening(t)' <= Opening(t) /\ Opening(t) \in Nat /\ Opening(t)' \in Nat
  BY <1>3, OpeningLess, OpeningFacts, OpeningNext
<1>5. HeldToday(t) + Opening(t) <= openCache[t]
  BY DEF OpeningInv
<1>6. MaxTodayOpening >= 0 => openCache[t] <= MaxTodayOpening \/ Opening(t) = 0
  BY DEF OpeningInv
<1>7. HeldToday(t)' + Opening(t)' <= openCache'[t]
  BY <1>1, <1>2, <1>4, <1>5
<1>8. MaxTodayOpening >= 0 => openCache'[t] <= MaxTodayOpening \/ Opening(t)' = 0
  BY <1>1, <1>4, <1>6
<1>9. QED
  BY <1>7, <1>8

\* Freezing an opening counts it, and the limit was looked at first.
LEMMA OpeningFreeze ==
  ASSUME ForbidClosingToday, TypeInv, TypeInv', OpeningInv, FreezeItem
  PROVE  OpeningInv'
<1> SUFFICES ASSUME NEW t \in Types
             PROVE  /\ HeldToday(t)' + Opening(t)' <= openCache'[t]
                    /\ MaxTodayOpening >= 0 =>
                         openCache'[t] <= MaxTodayOpening \/ Opening(t)' = 0
  BY DEF OpeningInv
<1> USE DEF TypeInv
<1>1. PICK o \in Items, oc \in Flags \ {"auto"}, p \in Position, q \in Position :
        Froze(o, oc, p, q)
  BY FreezeFacts DEF Places
<1>2. /\ o = Current /\ oc = AutoOcFlag(o) /\ stage[o] = "new" /\ ocFlag'[o] = oc
      /\ stage'[o] = "frozen"
      /\ \A x \in Items : x # o => ocFlag'[x] = ocFlag[x] /\ stage'[x] = stage[x]
  BY <1>1 DEF Froze, TypeOK
<1>3. rest' = rest /\ held' = held
  BY DEF FreezeItem, counterVars
<1>4. HeldToday(t)' = HeldToday(t) /\ HeldToday(t) \in Nat
  BY <1>3, HeldTodayType DEF HeldToday, CodesOf
<1>5. Volume(o) \in Nat /\ openCache[t] \in Nat /\ MaxTodayOpening \in Int
  BY ItemFacts, FutureMasterAssumption DEF TypeOK
<1>6. openCache'[t] = IF oc = "open" /\ t = TypeOf[Code(o)] THEN openCache[t] + Volume(o)
                      ELSE openCache[t]
  <2>1. CountOpening(o, oc, Volume(o), 0)
    BY <1>2 DEF FreezeItem, HandleOrderReq
  <2>2. QED
    BY <1>5, <2>1, CountFacts
<1>7. Opening(t)' = Opening(t) - OpeningOf(o, t) + OpeningOf(o, t)'
  <2>1. \A x \in Items : x # o => OpeningOf(x, t)' = OpeningOf(x, t)
    BY <1>2, <1>3 DEF OpeningOf, Code, Volume
  <2>2. QED
    BY <2>1, OpeningChange
<1>8. OpeningOf(o, t) = 0
  BY <1>2 DEF OpeningOf, Waiting
<1>9. OpeningOf(o, t)' = IF oc = "open" /\ t = TypeOf[Code(o)] THEN Volume(o) ELSE 0
  BY <1>2 DEF OpeningOf, Code, Volume, Waiting
<1>10. Opening(t) \in Nat /\ HeldToday(t) + Opening(t) <= openCache[t]
       /\ (MaxTodayOpening >= 0 => openCache[t] <= MaxTodayOpening \/ Opening(t) = 0)
  BY OpeningFacts DEF OpeningInv
<1>11. CASE oc = "open" /\ t = TypeOf[Code(o)]
  <2>1. Market(o) = "CFFEX" /\ Opened(Code(o)) = openCache[t]
    <3>1. Code(o) \in Codes /\ TypeOf[Code(o)] # NoType
      BY <1>11, ItemFacts, FutureMasterAssumption
    <3>2. QED
      BY <1>11, <3>1, FutureMasterAssumption DEF Market, Opened
  <2>2. ~ BeyondOpeningLimit(o)
    BY <1>2 DEF FreezeItem
  <2>3. MaxTodayOpening >= 0 => Volume(o) + openCache[t] <= MaxTodayOpening
    BY <1>2, <1>5, <1>11, <2>1, <2>2 DEF BeyondOpeningLimit
  <2>4. openCache'[t] = openCache[t] + Volume(o) /\ Opening(t)' = Opening(t) + Volume(o)
    BY <1>5, <1>6, <1>7, <1>8, <1>9, <1>10, <1>11
  <2>5. HeldToday(t)' + Opening(t)' <= openCache'[t]
    BY <1>4, <1>5, <1>10, <2>4
  <2>6. MaxTodayOpening >= 0 => openCache'[t] <= MaxTodayOpening
    BY <1>5, <2>3, <2>4
  <2>7. QED
    BY <2>5, <2>6
<1>12. CASE ~ (oc = "open" /\ t = TypeOf[Code(o)])
  <2>1. openCache'[t] = openCache[t] /\ Opening(t)' = Opening(t)
    BY <1>6, <1>7, <1>8, <1>9, <1>10, <1>12
  <2>2. QED
    BY <1>4, <1>10, <2>1
<1>13. QED
  BY <1>11, <1>12

\* A trade turns what may still be opened into what is held since today.
LEMMA OpeningTrade ==
  ASSUME TypeInv, TypeInv', OpeningInv, NEW x \in Items, NEW v \in 1 .. Volume(x), Trade(x, v)
  PROVE  OpeningInv'
<1> SUFFICES ASSUME NEW t \in Types
             PROVE  /\ HeldToday(t)' + Opening(t)' <= openCache'[t]
                    /\ MaxTodayOpening >= 0 =>
                         openCache'[t] <= MaxTodayOpening \/ Opening(t)' = 0
  BY DEF OpeningInv
<1> USE DEF TypeInv
<1>1. UNCHANGED <<openCache, stage, ocFlag>>
  BY DEF Trade, masterVars
<1>2. /\ stage[x] = "working" /\ v \in Nat \ {0} /\ v <= rest[x] /\ rest[x] \in Nat
      /\ rest'[x] = rest[x] - v /\ \A y \in Items : y # x => rest'[y] = rest[y]
  BY TradeFacts
<1>3. PICK c0 \in Codes, s0 \in Sides, a \in Buckets :
        c0 = Code(x) /\ s0 = Side(Bs(x), ocFlag[x]) /\ a = Bucket(Market(x), ocFlag[x])
  BY ItemFacts, SideType, BucketType
<1>4. PICK h : h = held[c0][s0]
  OBVIOUS
<1>5. PICK h2 : h2 = Traded(h, ocFlag[x], a, v)
  OBVIOUS
<1>6. /\ h2 \in Holding /\ h \in Holding
      /\ ocFlag[x] = "open" => h2.yd = h.yd /\ h2.td = h.td + v
      /\ ocFlag[x] # "open" /\ a = "yd" => h2.td = h.td
  BY <1>2, <1>3, <1>4, <1>5, TradedFacts
<1>7. \A c \in Codes, s \in Sides : held'[c][s] = IF c = c0 /\ s = s0 THEN h2 ELSE held[c][s]
  <2>1. held' = [held EXCEPT ![c0][s0] = h2]
    BY <1>3, <1>4, <1>5 DEF Trade
  <2>2. QED
    BY <2>1 DEF TypeOK
<1>8. Opening(t)' = Opening(t) - OpeningOf(x, t) + OpeningOf(x, t)'
  <2>1. \A y \in Items : y # x => OpeningOf(y, t)' = OpeningOf(y, t)
    BY <1>1, <1>2 DEF OpeningOf, Code, Volume
  <2>2. QED
    BY <2>1, OpeningChange
<1>9. /\ OpeningOf(x, t) - OpeningOf(x, t)' =
            IF TypeOf[c0] = t /\ ocFlag[x] = "open" THEN v ELSE 0
      /\ OpeningOf(x, t) \in Nat /\ OpeningOf(x, t)' \in Nat
  <2>1. OpeningOf(x, t) = IF TypeOf[c0] = t /\ ocFlag[x] = "open" THEN rest[x] ELSE 0
    BY <1>2, <1>3 DEF OpeningOf, Waiting
  <2>2. OpeningOf(x, t)' = IF TypeOf[c0] = t /\ ocFlag[x] = "open" THEN rest[x] - v ELSE 0
    BY <1>1, <1>2, <1>3 DEF OpeningOf, Code, Waiting
  <2>3. OpeningOf(x, t) \in Nat /\ OpeningOf(x, t)' \in Nat
    BY OpeningFacts, OpeningNext
  <2>4. QED
    BY <1>2, <2>1, <2>2, <2>3
<1>10. HeldToday(t)' = HeldToday(t) + (IF TypeOf[c0] = t THEN h2.td - h.td ELSE 0)
  <2> DEFINE S == CodesOf(t) \X Sides
             f == HeldOn(held)
             g == HeldOn(held')
  <2>1. IsFiniteSet(S) /\ (\A e \in S : f[e] \in Nat) /\ (\A e \in S : g[e] \in Nat)
    BY TodayFacts DEF TypeOK
  <2>2. HeldToday(t) = SumFunctionOnSet(f, S) /\ HeldToday(t)' = SumFunctionOnSet(g, S)
    BY DEF HeldToday, HeldOn, CodesOf
  <2>3. PICK e0 : e0 = <<c0, s0>>
    OBVIOUS
  <2>4. \A e \in S : e # e0 => f[e] = g[e]
    <3> SUFFICES ASSUME NEW e \in S, e # e0 PROVE f[e] = g[e]
      OBVIOUS
    <3>1. e \in Codes \X Sides /\ e[1] \in Codes /\ e[2] \in Sides /\ ~ (e[1] = c0 /\ e[2] = s0)
      BY <2>3 DEF CodesOf
    <3>2. held'[e[1]][e[2]] = held[e[1]][e[2]]
      BY <1>7, <3>1
    <3>3. QED
      BY <3>1, <3>2 DEF HeldOn
  <2>5. f[e0] = h.td /\ g[e0] = h2.td
    <3>1. held'[c0][s0] = h2
      BY <1>7
    <3>2. e0 \in Codes \X Sides /\ e0[1] = c0 /\ e0[2] = s0
      BY <2>3
    <3>3. QED
      BY <1>4, <3>1, <3>2 DEF HeldOn
  <2>6. e0 \in S <=> TypeOf[c0] = t
    BY <2>3 DEF CodesOf
  <2>7. HeldToday(t) \in Nat
    BY HeldTodayType
  <2> HIDE DEF S, f, g
  <2>8. CASE TypeOf[c0] = t
    <3>1. \A e \in S : f[e] \in Int /\ g[e] \in Int
      BY <2>1
    <3>2. \A e \in S \ {e0} : f[e] = g[e]
      BY <2>4
    <3>3. SumFunctionOnSet(g, S) = SumFunctionOnSet(f, S) - f[e0] + g[e0]
      BY <2>1, <2>6, <2>8, <3>1, <3>2, SumChange
    <3>4. h.td \in Int /\ h2.td \in Int
      BY <1>6 DEF Holding
    <3>5. QED
      BY <2>2, <2>5, <2>7, <2>8, <3>3, <3>4
  <2>9. CASE TypeOf[c0] # t
    <3>1. \A e \in S : f[e] \in Int /\ f[e] = g[e]
      BY <2>1, <2>4, <2>6, <2>9
    <3>2. SumFunctionOnSet(f, S) = SumFunctionOnSet(g, S)
      BY <2>1, <3>1, SumSame
    <3>3. QED
      BY <2>2, <2>7, <2>9, <3>2
  <2>10. QED
    BY <2>8, <2>9
<1>11. TypeOf[c0] = t => /\ ocFlag[x] = "open" => h2.td = h.td + v
                         /\ ocFlag[x] # "open" => h2.td = h.td
  <2> SUFFICES ASSUME TypeOf[c0] = t
               PROVE  /\ ocFlag[x] = "open" => h2.td = h.td + v
                      /\ ocFlag[x] # "open" => h2.td = h.td
    OBVIOUS
  <2>1. t # NoType /\ MarketOf[c0] = "CFFEX"
    BY FutureMasterAssumption
  <2>2. Market(x) = "CFFEX"
    BY <1>3, <2>1 DEF Market
  <2>3. ocFlag[x] \in {"open", "close"}
    BY <1>2, <2>2 DEF ItemInv
  <2>4. ocFlag[x] # "open" => a = "yd"
    BY <1>3, <2>2, <2>3 DEF Bucket
  <2>5. QED
    BY <1>6, <2>4
<1>12. /\ Opening(t) \in Nat /\ HeldToday(t) \in Nat /\ openCache[t] \in Nat
       /\ h.td \in Int /\ h2.td \in Int
  <2>1. Opening(t) \in Nat /\ HeldToday(t) \in Nat
    BY OpeningFacts, HeldTodayType
  <2>2. openCache[t] \in Nat
    BY DEF TypeOK
  <2>3. h.td \in Nat /\ h2.td \in Nat
    BY <1>6 DEF Holding
  <2>4. QED
    BY <2>1, <2>2, <2>3
<1>13. HeldToday(t)' + Opening(t)' = HeldToday(t) + Opening(t)
  BY <1>2, <1>8, <1>9, <1>10, <1>11, <1>12
<1>14. Opening(t)' <= Opening(t) /\ Opening(t)' \in Nat
  BY <1>2, <1>8, <1>9, <1>12, OpeningNext
<1>15. HeldToday(t) + Opening(t) <= openCache[t]
       /\ (MaxTodayOpening >= 0 => openCache[t] <= MaxTodayOpening \/ Opening(t) = 0)
  BY DEF OpeningInv
<1>16. HeldToday(t)' + Opening(t)' <= openCache'[t]
  BY <1>1, <1>13, <1>15
<1>17. MaxTodayOpening >= 0 => openCache'[t] <= MaxTodayOpening \/ Opening(t)' = 0
  BY <1>1, <1>12, <1>14, <1>15
<1>18. QED
  BY <1>16, <1>17

\* Every step keeps the count ahead of the openings, and those within the limit.
LEMMA OpeningStep ==
  ASSUME ForbidClosingToday, TypeInv, TypeInv', OpeningInv, [Next]_vars
  PROVE  OpeningInv'
<1>1. CASE FreezeItem
  BY <1>1, OpeningFreeze
<1>2. CASE \E x \in Items : \E v \in 1 .. Volume(x) : Trade(x, v)
  BY <1>2, OpeningTrade
<1>3. CASE ~ FreezeItem /\ ~ \E x \in Items : \E v \in 1 .. Volume(x) : Trade(x, v)
  BY <1>3, OpeningKept
<1>4. QED
  BY <1>1, <1>2, <1>3

\* At the start the count is what is held since today.
LEMMA InitOpening == Init => OpeningInv
<1> SUFFICES ASSUME Init, NEW t \in Types
             PROVE  /\ HeldToday(t) + Opening(t) <= openCache[t]
                    /\ MaxTodayOpening >= 0 => openCache[t] <= MaxTodayOpening \/ Opening(t) = 0
  BY DEF OpeningInv
<1>1. Opening(t) = 0
  <2> DEFINE f == [o \in Items |-> OpeningOf(o, t)]
  <2>1. \A o \in Items : f[o] = 0
    BY DEF Init, OpeningOf, Waiting
  <2>2. SumFunctionOnSet(f, Items) = 0
    <3> HIDE DEF f
    <3>1. QED
      BY <2>1, ItemsFinite, SumZero
  <2>3. QED
    BY <2>2 DEF Opening
<1>2. openCache[t] = HeldToday(t)
  BY DEF Init
<1>3. HeldToday(t) \in Nat
  BY InitTypes, HeldTodayType
<1>4. QED
  BY <1>1, <1>2, <1>3

\* What the limit speaks of is part of what is counted.
LEMMA OpeningTodayBelow ==
  ASSUME TypeOK, NEW t
  PROVE  OpeningToday(t) \in Nat /\ OpeningToday(t) <= Opening(t)
<1> DEFINE T == {o \in Items : /\ TypeOf[Code(o)] = t /\ ocFlag[o] = "open"
                               /\ stage[o] \in {"sent", "working"}}
           e == [o \in Items |-> IF stage[o] = "working" THEN rest[o] ELSE Volume(o)]
           f == [o \in Items |-> IF o \in T THEN e[o] ELSE 0]
           g == [o \in Items |-> OpeningOf(o, t)]
<1>1. \A o \in Items : rest[o] \in Nat /\ Volume(o) \in Nat /\ OpeningOf(o, t) \in Nat
  BY ItemFacts, OpeningFacts DEF TypeOK
<1>2. \A o \in T : e[o] \in Int
  BY <1>1
<1>3. ASSUME NEW o \in Items PROVE f[o] \in Nat /\ g[o] \in Nat /\ f[o] <= g[o]
  <2>1. f[o] = IF /\ TypeOf[Code(o)] = t /\ ocFlag[o] = "open" /\ stage[o] \in {"sent", "working"}
               THEN (IF stage[o] = "working" THEN rest[o] ELSE Volume(o)) ELSE 0
    OBVIOUS
  <2>2. g[o] = OpeningOf(o, t)
    OBVIOUS
  <2> HIDE DEF f, g
  <2>3. QED
    BY <1>1, <2>1, <2>2 DEF OpeningOf, Waiting
<1>4. OpeningToday(t) = SumFunctionOnSet(e, T) /\ Opening(t) = SumFunctionOnSet(g, Items)
  BY DEF OpeningToday, Opening
<1>5. T \in SUBSET Items
  OBVIOUS
<1>6. SumFunctionOnSet(e, T) = SumFunctionOnSet(f, Items)
  <2> HIDE DEF T, e
  <2>1. QED
    BY <1>2, <1>5, ItemsFinite, SumWhere
<1> HIDE DEF T, e, f, g
<1>7. SumFunctionOnSet(f, Items) \in Nat
  BY <1>3, ItemsFinite, SumNat
<1>8. SumFunctionOnSet(f, Items) <= SumFunctionOnSet(g, Items)
  <2>1. \A o \in Items : f[o] \in Int /\ g[o] \in Int /\ f[o] <= g[o]
    BY <1>3
  <2>2. QED
    BY <2>1, ItemsFinite, SumLess
<1>9. QED
  BY <1>4, <1>6, <1>7, <1>8

\* The limit the runs check follows.
LEMMA OpeningMeans ==
  ASSUME TypeOK, OpeningInv
  PROVE  OpeningLimited
<1> SUFFICES ASSUME MaxTodayOpening >= 0, NEW t \in Types
             PROVE  \/ HeldToday(t) + OpeningToday(t) <= MaxTodayOpening
                    \/ OpeningToday(t) = 0
  BY DEF OpeningLimited
<1>1. /\ OpeningToday(t) \in Nat /\ OpeningToday(t) <= Opening(t) /\ Opening(t) \in Nat
      /\ HeldToday(t) \in Nat
  BY OpeningTodayBelow, OpeningFacts, HeldTodayType
<1>2. openCache[t] \in Nat /\ MaxTodayOpening \in Int
  BY FutureMasterAssumption DEF TypeOK
<1>3. HeldToday(t) + Opening(t) <= openCache[t]
      /\ (openCache[t] <= MaxTodayOpening \/ Opening(t) = 0)
  BY DEF OpeningInv
<1>4. QED
  BY <1>1, <1>2, <1>3

\* A step that turns a flag into "close" on a contract of a type froze the item, and
\* found nothing counted.
LEMMA CloseNeedsNoOpening ==
  ASSUME TypeInv, OpeningInv, [Next]_vars, NEW o \in Items, TypeOf[Code(o)] # NoType,
         ocFlag[o] # "close", ocFlag'[o] = "close"
  PROVE  HeldToday(TypeOf[Code(o)]) = 0 /\ OpeningToday(TypeOf[Code(o)]) = 0
<1> USE DEF TypeInv
<1>1. FreezeItem
  BY FlagStep
<1>2. PICK h \in Items, oc \in Flags \ {"auto"}, p \in Position, q \in Position :
        Froze(h, oc, p, q)
  BY <1>1, FreezeFacts DEF Places
<1>3. o = h /\ AutoOcFlag(o) = "close"
  BY <1>2 DEF Froze, TypeOK
<1>4. PICK t \in Types : t = TypeOf[Code(o)] /\ Market(o) = "CFFEX"
  <2>1. Code(o) \in Codes
    BY ItemFacts
  <2>2. QED
    BY <2>1, FutureMasterAssumption DEF Market
<1>5. openCache[t] = 0
  BY <1>3, <1>4 DEF AutoOcFlag, CffexFlag, Opened
<1>6. /\ OpeningToday(t) \in Nat /\ OpeningToday(t) <= Opening(t) /\ Opening(t) \in Nat
      /\ HeldToday(t) \in Nat
  BY OpeningTodayBelow, OpeningFacts, HeldTodayType
<1>7. HeldToday(t) + Opening(t) <= openCache[t]
  BY DEF OpeningInv
<1>8. HeldToday(t) = 0 /\ OpeningToday(t) = 0
  BY <1>5, <1>6, <1>7
<1>9. QED
  BY <1>4, <1>8

\* The inductive invariant of the openings.
LEMMA OpeningInvariant ==
  ASSUME PlainFlags, ForbidClosingToday
  PROVE  /\ Init => TypeInv /\ OpeningInv
         /\ TypeInv /\ OpeningInv /\ [Next]_vars => (TypeInv /\ OpeningInv)'
<1>1. Init => TypeInv /\ OpeningInv
  BY InitTypeInv, InitOpening
<1>2. TypeInv /\ [Next]_vars => TypeInv'
  BY TypeInvStep
<1>3. TypeInv /\ TypeInv' /\ OpeningInv /\ [Next]_vars => OpeningInv'
  BY OpeningStep
<1>4. QED
  BY <1>1, <1>2, <1>3

\* The limit of the day's openings of a type (conf/broker.yaml:50) holds over all its
\* codes, with what was opened and what may still be, where forbid_closing_today is set:
\* only then open_cache_ counts (inner_future_master.cc:226).
THEOREM FutureOpeningLimited ==
  PlainFlags /\ ForbidClosingToday => (Spec => []OpeningLimited)
<1> SUFFICES ASSUME PlainFlags, ForbidClosingToday PROVE Spec => []OpeningLimited
  OBVIOUS
<1> DEFINE Inv == TypeInv /\ OpeningInv
<1>1. (Init => Inv) /\ (Inv /\ [Next]_vars => Inv')
  BY OpeningInvariant
<1>2. Inv => OpeningLimited
  BY OpeningMeans DEF TypeInv
<1>3. QED
  BY <1>1, <1>2, PTL DEF Spec

\* No order is turned into a closing one once something of its type was opened today or
\* may still be (conf/broker.yaml:48, inner_future_master.cc:380-389).
THEOREM FutureNoCloseAfterOpening ==
  PlainFlags /\ ForbidClosingToday => (Spec => NoCloseAfterOpening)
<1> SUFFICES ASSUME PlainFlags, ForbidClosingToday PROVE Spec => NoCloseAfterOpening
  OBVIOUS
<1> DEFINE Inv == TypeInv /\ OpeningInv
           A == \A o \in Items :
                  LET type == TypeOf[Code(o)]
                  IN type # NoType /\ ocFlag[o] # "close" /\ ocFlag'[o] = "close"
                       => HeldToday(type) = 0 /\ OpeningToday(type) = 0
<1>1. (Init => Inv) /\ (Inv /\ [Next]_vars => Inv')
  BY OpeningInvariant
<1>2. Inv /\ [Next]_vars => [A]_vars
  <2>1. Inv /\ [Next]_vars => A
    BY CloseNeedsNoOpening
  <2>2. QED
    BY <2>1
<1>3. QED
  BY <1>1, <1>2, PTL DEF Spec, NoCloseAfterOpening
=============================================================================

----------------------------- MODULE AntiSelfKnock -----------------------------
(***************************************************************************)
(* The risker that keeps accounts from trading with themselves:            *)
(* AntiSelfKnockRisker and its OrderBooks (risker/common).  A request to   *)
(* buy is refused while a sell order at that price or below may still be   *)
(* working, and the other way round.                                       *)
(*                                                                         *)
(* An Order object is an index into the sequence orders; the multimaps of  *)
(* all the books are the set book of the objects they hold (objects of one *)
(* price are kept in the order of their insertion, that of the indices).   *)
(* The loops over the items of a message take one step per item.           *)
(***************************************************************************)
EXTENDS Integers, Sequences, FiniteSets, FiniteSetsExt, Functions

CONSTANTS
  Messages,       \* order messages: records of MessageType
  Funds, Codes,
  Exempt,         \* <<fund, code>>: only_etf is set and the code is no ETF
  Auction,        \* times at which HandleTradeOrderReq checks nothing
  OrderTimeout    \* kOrderTimeoutMS

ItemType == [code: Codes, price: Nat, volume: Nat \ {0}]
MessageType ==
  [id: Nat, fund: Funds, side: {"buy", "sell"}, items: Seq(ItemType)]

ASSUME AntiSelfKnockAssumption ==
  /\ Messages \subseteq MessageType
  /\ \A m \in Messages : m.items # <<>>
  /\ Exempt \subseteq Funds \X Codes
  /\ Auction \subseteq Nat
  /\ OrderTimeout \in Nat

VARIABLES
  now,      \* x::UnixMilli, in ticks
  orders,   \* every Order object ever made
  book,     \* those that asks_ or bids_ of their order book hold
  single,   \* single_orders_: order number -> object
  batch,    \* batch_orders_: message (batch number) -> its objects
  early     \* knock_first_orders_: order number -> knocks

riskerVars == <<orders, book, single, batch, early>>

NoNumber == <<>>                         \* an empty order_no
Items(m) == 1 .. Len(m.items)
NumbersOf(m) == {<<m, i>> : i \in Items(m)}
Numbers == UNION {NumbersOf(m) : m \in Messages}
IsBatch(m) == Len(m.items) > 1           \* only these carry a batch_no
Guards(m, i) == <<m.fund, m.items[i].code>> \notin Exempt

Order ==
  [msg: Messages, code: Codes, price: Nat, volume: Nat, born: Nat,
   number: Numbers \cup {NoNumber}, matched: Nat,
   withdrawAsked: Nat,   \* withdraw_failed_time, 0 is "never"
   withdrawn: BOOLEAN,   \* withdraw_succeed
   finish: BOOLEAN]
\* left tells the trades of an order apart, as match_no does.
Knock ==
  [kind: {"knock"}, number: Numbers, type: {"trade", "withdrawn", "failed"},
   volume: Nat, left: Nat]

-----------------------------------------------------------------------------
(* OrderBook *)

NewOrder(m, i, number) ==
  [msg |-> m, code |-> m.items[i].code, price |-> m.items[i].price,
   volume |-> m.items[i].volume, born |-> now, number |-> number, matched |-> 0,
   withdrawAsked |-> 0, withdrawn |-> FALSE, finish |-> FALSE]

\* Order::IsFinished, for the record of an object.
FinishedImpatient(x) ==       \* mutated form: an order that has its reply times out too
  \/ x.finish \/ x.withdrawn \/ x.matched >= x.volume
  \/ now - x.born > OrderTimeout
Finished(x) ==
  \/ x.finish \/ x.withdrawn \/ x.matched >= x.volume
  \/ x.number = NoNumber /\ now - x.born > OrderTimeout
  \/ /\ x.number # NoNumber /\ x.withdrawAsked > 0
     /\ now - x.withdrawAsked > OrderTimeout

\* The object x would trade with item i of m.
CrossesStrictly(x, m, i) ==   \* mutated form: an equal price is let through
  /\ x.code = m.items[i].code /\ x.msg.side # m.side
  /\ IF m.side = "buy" THEN x.price < m.items[i].price ELSE x.price > m.items[i].price
Crosses(x, m, i) ==
  /\ x.code = m.items[i].code /\ x.msg.side # m.side
  /\ IF m.side = "buy" THEN x.price <= m.items[i].price ELSE x.price >= m.items[i].price

\* The iteration meets p before o: better price first, then insertion.
MetBefore(p, o) ==
  \/ orders[o].msg.side = "sell" /\ orders[p].price < orders[o].price
  \/ orders[o].msg.side = "buy" /\ orders[p].price > orders[o].price
  \/ orders[p].price = orders[o].price /\ p < o

Opposite(m, i) == {o \in book : Crosses(orders[o], m, i)}
Refuses(m, i) == \E o \in Opposite(m, i) : ~Finished(orders[o])
\* Finished objects the check of item i meets before it ends.
Swept(m, i) ==
  {o \in Opposite(m, i) : /\ Finished(orders[o])
                          /\ \A p \in Opposite(m, i) : MetBefore(p, o) => Finished(orders[p])}

\* The object HandleTradeOrderRep takes for item i: the first of that price and
\* message, whatever its volume and whether it has a number already.
OfReply(m, i) ==
  {o \in book : /\ orders[o].msg = m
                /\ orders[o].code = m.items[i].code /\ orders[o].price = m.items[i].price}

-----------------------------------------------------------------------------
(* AntiSelfKnockRisker *)

\* OnOrderFinish for each object of R, the records of the objects being ords.
FinishAll(ords, R) ==
  LET touched == {m \in DOMAIN batch : \E o \in R : ords[o].msg = m /\ ords[o].number # NoNumber}
      ended == {m \in touched : \A k \in DOMAIN batch[m] : Finished(ords[batch[m][k]])}
      evaluated == UNION {{batch[m][k] : k \in {l \in DOMAIN batch[m] :
                             \A j \in 1 .. l : Finished(ords[batch[m][j]])}} : m \in touched}
  IN /\ orders' = [o \in DOMAIN ords |->
                     IF o \in R \cup evaluated THEN [ords[o] EXCEPT !.finish = TRUE] ELSE ords[o]]
     /\ batch' = Restrict(batch, DOMAIN batch \ ended)
     /\ single' = Restrict(single, DOMAIN single \ {ords[o].number : o \in R})

\* The check of one item; the message is refused at the first that fails.
CheckItem(m, i) ==
  IF ~Guards(m, i) \/ now \in Auction
  THEN UNCHANGED riskerVars
  ELSE /\ FinishAll(orders, Swept(m, i))
       /\ book' = book \ Swept(m, i)
       /\ early' = early
Fails(m, i) == Guards(m, i) /\ now \notin Auction /\ Refuses(m, i)

\* OnTradeOrderReqPass, one item.
PassItemUnguarded(m, i) ==  \* mutated form: exempt items are listed
  /\ orders' = IF Guards(m, i) THEN Append(orders, NewOrder(m, i, NoNumber)) ELSE orders
  /\ book' = book \cup {Len(orders) + 1}
  /\ UNCHANGED <<single, batch, early>>
PassItem(m, i) ==
  IF Guards(m, i)
  THEN /\ orders' = Append(orders, NewOrder(m, i, NoNumber))
       /\ book' = book \cup {Len(orders) + 1}
       /\ UNCHANGED <<single, batch, early>>
  ELSE UNCHANGED riskerVars

\* HandleTradeOrderRep, one item: the reply gives it no number ...
RepItemRejected(m, i) ==
  /\ book' = IF OfReply(m, i) = {} THEN book ELSE book \ {Min(OfReply(m, i))}
  /\ UNCHANGED <<orders, single, batch, early>>
\* ... or it does, and the order is found or was never seen.
RegisterNumber(n, o) ==
  /\ single' = [k \in DOMAIN single \cup {n} |-> IF k = n THEN o ELSE single[k]]
  /\ early' = Restrict(early, DOMAIN early \ {n})
  /\ batch' = batch
RepItemKnown(m, i, o) ==
  /\ OfReply(m, i) # {} /\ o = Min(OfReply(m, i))
  /\ orders' = [orders EXCEPT ![o].number = <<m, i>>]
  /\ book' = book
  /\ RegisterNumber(<<m, i>>, o)
RepItemUnknownUnlisted(m, i, o) ==   \* mutated form: a swept order stays out of the book
  /\ OfReply(m, i) = {} /\ o = Len(orders) + 1
  /\ orders' = Append(orders, NewOrder(m, i, <<m, i>>))
  /\ book' = book
  /\ RegisterNumber(<<m, i>>, o)
RepItemUnknown(m, i, o) ==
  /\ OfReply(m, i) = {} /\ o = Len(orders) + 1
  /\ orders' = Append(orders, NewOrder(m, i, <<m, i>>))
  /\ book' = book \cup {o}
  /\ RegisterNumber(<<m, i>>, o)

RegisterBatch(m, members) ==
  /\ batch' = IF members = <<>> THEN batch
              ELSE [k \in DOMAIN batch \cup {m} |-> IF k = m THEN members ELSE batch[k]]
  /\ UNCHANGED <<orders, book, single, early>>

\* OnTradeKnock for an order with a number: volume or end of the order.
KnockKnownUnfailing(k) ==     \* mutated form: kMatchTypeFailed ends nothing
  /\ k.number \in DOMAIN single
  /\ LET o == single[k.number]
         ords == IF k.type = "trade" THEN [orders EXCEPT ![o].matched = @ + k.volume]
                 ELSE [orders EXCEPT ![o].withdrawn = @ \/ k.type = "withdrawn"]
     IN IF Finished(ords[o]) THEN FinishAll(ords, {o})
        ELSE orders' = ords /\ UNCHANGED <<single, batch>>
  /\ UNCHANGED <<book, early>>
KnockKnownAllMatched(k) ==     \* mutated form: what was withdrawn counts as traded
  /\ k.number \in DOMAIN single
  /\ LET o == single[k.number]
         ords == [orders EXCEPT ![o].matched = @ + k.volume,
                                ![o].withdrawn = @ \/ k.type # "trade"]
     IN IF Finished(ords[o]) THEN FinishAll(ords, {o})
        ELSE orders' = ords /\ UNCHANGED <<single, batch>>
  /\ UNCHANGED <<book, early>>
KnockKnown(k) ==
  /\ k.number \in DOMAIN single
  /\ LET o == single[k.number]
         ords == IF k.type = "trade" THEN [orders EXCEPT ![o].matched = @ + k.volume]
                                     ELSE [orders EXCEPT ![o].withdrawn = TRUE]
     IN IF Finished(ords[o]) THEN FinishAll(ords, {o})
        ELSE orders' = ords /\ UNCHANGED <<single, batch>>
  /\ UNCHANGED <<book, early>>
\* The knock overtook the reply: it is kept, unless it is a withdrawal.
KnockEarlyForgotten(k) ==     \* mutated form: the second early knock replaces the first
  /\ k.number \notin DOMAIN single
  /\ early' = IF k.type = "withdrawn" \/ ~Guards(k.number[1], k.number[2]) THEN early
              ELSE [n \in DOMAIN early \cup {k.number} |->
                      IF n = k.number THEN <<k>> ELSE early[n]]
  /\ UNCHANGED <<orders, book, single, batch>>
KnockEarly(k) ==
  /\ k.number \notin DOMAIN single
  /\ early' = IF k.type = "withdrawn" \/ ~Guards(k.number[1], k.number[2]) THEN early
              ELSE [n \in DOMAIN early \cup {k.number} |->
                      IF n = k.number THEN (IF n \in DOMAIN early THEN early[n] ELSE <<>>) \o <<k>>
                      ELSE early[n]]
  /\ UNCHANGED <<orders, book, single, batch>>
OnTradeKnock(k) == KnockKnown(k) \/ KnockEarly(k)

\* Withdrawals name an order number or, with item 0, a whole batch.
Targets(m, i) ==
  IF i = 0 THEN IF m \in DOMAIN batch THEN {batch[m][k] : k \in DOMAIN batch[m]} ELSE {}
  ELSE IF <<m, i>> \in DOMAIN single THEN {single[<<m, i>>]} ELSE {}

HandleTradeWithdrawReq(m, i) ==
  /\ orders' = [o \in DOMAIN orders |->
                  IF o \in Targets(m, i) THEN [orders[o] EXCEPT !.withdrawAsked = now]
                  ELSE orders[o]]
  /\ UNCHANGED <<book, single, batch, early>>

HandleTradeWithdrawRep(m, i, ok) ==
  /\ orders' = [o \in DOMAIN orders |->
                  IF o \notin Targets(m, i) THEN orders[o]
                  ELSE IF ok THEN [orders[o] EXCEPT !.withdrawn = TRUE]
                  ELSE [orders[o] EXCEPT !.withdrawAsked = now]]
  /\ batch' = IF ok /\ i = 0 THEN Restrict(batch, DOMAIN batch \ {m}) ELSE batch
  /\ UNCHANGED <<book, single, early>>
==============================================================================

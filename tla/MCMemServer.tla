------------------------------ MODULE MCMemServer ------------------------------
(***************************************************************************)
(* Instances of MemServer for TLC.  Each behaviour follows one of the      *)
(* plans: what is written, traded and held outside, which queries fall     *)
(* due, and how many days, starts, queries under way and failures.         *)
(***************************************************************************)
EXTENDS MemServer, TLC

CONSTANTS o1, o2, o3, w1, w2, k1, k2, k3, f1, c1, c2

Item == [market |-> SH, code |-> "plain"]
Order(items) == [kind |-> "order", own |-> TRUE, sell |-> FALSE, items |-> items]
Withdrawal(no) == [kind |-> "withdraw", own |-> TRUE, order_no |-> no, batch_no |-> "none"]

\* A batch at the limit, an order for another broker, a batch beyond the limit, a
\* withdrawal, a withdrawal without a valid order number.
MCBody ==
  (o1 :> Order(<<Item, Item>>) @@ o2 :> [Order(<<Item>>) EXCEPT !.own = FALSE]
     @@ o3 :> Order(<<Item, Item, Item>>)
     @@ w1 :> Withdrawal("standard") @@ w2 :> Withdrawal("other"))
MCConfigured == (SH :> 2)

\* k3 happens on the second day.
MCDate == [k \in {k1, k2, k3, f1} |-> IF k = k3 THEN 1 ELSE 0]
OwnMatchNo == [k \in {k1, k2, k3, f1} |-> k]

Plan ==
  [requests |-> {}, knocks |-> {}, volumes |-> (c1 :> <<0>> @@ c2 :> <<0>>), due |-> {},
   init |-> FALSE, lastDay |-> 0, starts |-> 2, queries |-> 1, failures |-> 1]

MCPlans ==
  { [Plan EXCEPT !.requests = {o1, o2, w1}],
    \* three sessions of the counter
    [Plan EXCEPT !.requests = {o1, w2}, !.starts = 3],
    \* requests beside knocks of two accounts
    [Plan EXCEPT !.requests = {o3}, !.knocks = {k1, f1}, !.due = {"knock"}],
    \* two days
    [Plan EXCEPT !.knocks = {k1, k3}, !.due = {"knock"}, !.lastDay = 1],
    \* two answers about the same cursor
    [Plan EXCEPT !.knocks = {k1, k2}, !.due = {"knock"}, !.starts = 1, !.queries = 2,
                 !.failures = 0],
    \* holdings that change, over two days
    [Plan EXCEPT !.volumes = (c1 :> <<0, 1, 2>> @@ c2 :> <<1>>), !.due = {"position"},
                 !.init = TRUE, !.lastDay = 1] }

\* An order and nothing else.
WatchPlans == { [Plan EXCEPT !.requests = {o1}] }

\* k1 and k2 are the two sides of a trade of the account with itself.
SelfTradePlans == { [Plan EXCEPT !.knocks = {k1, k2}, !.starts = 1] }
SelfMatchNo == [OwnMatchNo EXCEPT ![k2] = k1]
==============================================================================

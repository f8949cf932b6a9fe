----------------------------- MODULE MCFlowControl -----------------------------
(***************************************************************************)
(* Instances of FlowControl for TLC.  Two configured markets (SH before    *)
(* SZ), one required market without configuration (BJ); a tick is 500 ms,  *)
(* so the window is 3 ticks and a second 2.                                *)
(***************************************************************************)
EXTENDS FlowControl, TLC

CONSTANTS SH, SZ, BJ

MCMarkets == {SH, SZ}
OneRank == (SH :> 1)
MCRank == [m \in MCMarkets |-> IF m = SH THEN 1 ELSE 2]
MCRequired == {SH, SZ, BJ}

Order(id, m, size, amount) ==
  [id |-> id, kind |-> "order", market |-> m, size |-> size, create |-> FALSE,
   amount |-> amount, timeout |-> 0]
Creation(id, m) == [Order(id, m, 1, 0) EXCEPT !.create = TRUE]
Withdrawal(id, m) == [Order(id, m, 1, 0) EXCEPT !.kind = "withdraw"]
BatchWithdrawal(id, m) == [Withdrawal(id, m) EXCEPT !.size = 2]
Other(id) == [Order(id, NoMarket, 1, 0) EXCEPT !.kind = "other"]
Expiring(r, t) == [r EXCEPT !.timeout = t]

\* Every route through TryPop: two markets, timeouts, an oversized batch, a reply, an
\* order in a market without configuration.
RouteRequests ==
  {Creation(1, SH), Order(2, SH, 1, 2), Expiring(Order(3, SH, 1, 3), 4),
   BatchWithdrawal(4, SZ), Other(5), Order(6, BJ, 1, 1)}
\* An order of more than twice kItemMultiple, a creation and a withdrawal.
RichRequests == {Order(1, SH, 1, 25), Creation(2, SH), Withdrawal(3, SH)}

NoLimit == (SH :> 0)

RouteTps == (SH :> 1 @@ SZ :> 1)
RouteNone == (SH :> 0 @@ SZ :> 0)
RouteLimit == (SH :> 2 @@ SZ :> 0)
==============================================================================

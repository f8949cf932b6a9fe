----------------------------- MODULE MCFlowExchange -----------------------------
(***************************************************************************)
(* An instance of FlowControlExchange for TLC: one configured market and   *)
(* two that are not; a tick of 500 ms, hence a window of 3 ticks, a second *)
(* of 2 and a cushion of 1.                                                *)
(***************************************************************************)
EXTENDS FlowControlExchange, TLC

CONSTANTS SH, SZ, BJ

Order(id, size, amount) ==
  [id |-> id, kind |-> "order", market |-> SH, size |-> size, create |-> FALSE,
   amount |-> amount, timeout |-> 0]
Withdrawal(id) == [Order(id, 1, 0) EXCEPT !.kind = "withdraw"]

\* Two batches of the same amount and a withdrawal against a limit of two: whatever
\* follows a batch has to wait until all of it has left the window, and there is one
\* command more than the daily limit allows.
MCRequests == {Order(1, 2, 3), Order(2, 2, 3), Withdrawal(3)}
MCRequired == {SH, SZ, BJ}
MCRank == (SH :> 1)
MCTps == (SH :> 2)
MCWarning == (SH :> 3)
MCLimit == (SH :> 4)
==============================================================================

--------------------------- MODULE FlowControlExchange ---------------------------
(***************************************************************************)
(* FlowControl together with the way of its commands to the exchange.      *)
(* After TryPop returned a request, SendTradeOrder, the counter and the    *)
(* network take any time up to Cushion, a different one for each command,  *)
(* so commands may arrive closer together than they were sent, and in      *)
(* another order.  The reading of the clock TryPop is given (or takes      *)
(* before it drains the broker queue) may be older than the send: that     *)
(* delay is part of Cushion too.                                           *)
(*                                                                         *)
(* The property is that the exchange's own rule holds at its own door:     *)
(* this module implements ExchangeRule.                                    *)
(***************************************************************************)
EXTENDS FlowControl

CONSTANT Cushion   \* "500ms" (flow_control.cc:37, 40; flow_control.h:19)

ASSUME CushionAssumption == Cushion \in Nat /\ Second + Cushion <= Window

VARIABLE arrivedAt   \* per market: command number -> time of its arrival

exchangeVars == <<vars, arrivedAt>>

OnTheWay(m) == DOMAIN sentAt[m] \ DOMAIN arrivedAt[m]

ExchangeInit == Init /\ arrivedAt = [m \in Markets |-> [i \in {} |-> 0]]

\* A step of the server or its surroundings; time does not go on beyond the
\* moment at which some command must have arrived.
ServerStep ==
  /\ Next
  /\ now' > now => \A m \in Markets : \A i \in OnTheWay(m) : now' <= sentAt[m][i] + Cushion
  /\ UNCHANGED arrivedAt

Arrive(m, i) ==
  /\ arrivedAt' = [arrivedAt EXCEPT ![m] =
                     [d \in DOMAIN arrivedAt[m] \cup {i} |->
                        IF d = i THEN now ELSE arrivedAt[m][d]]]
  /\ UNCHANGED vars

ExchangeNext ==
  \/ ServerStep
  \/ \E m \in Markets : \E i \in OnTheWay(m) : Arrive(m, i)

ExchangeSpec == ExchangeInit /\ [][ExchangeNext]_exchangeVars

-----------------------------------------------------------------------------
Rule == INSTANCE ExchangeRule WITH time <- now, Limit <- TpsLimit

\* Whatever the delays, restarts and batches, no market's exchange ever sees more
\* commands in a second than th_tps_limit allows (flow_control.cc:35-48, 67-72).
ImplementsExchangeRule == Rule!RuleSpec
==============================================================================

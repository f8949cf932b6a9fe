------------------------------ MODULE ExchangeRule ------------------------------
(***************************************************************************)
(* What an exchange demands of a member (mem_broker/flow_control.cc:35):   *)
(* "no more than so many trading commands per second".  The rule speaks of *)
(* the moments at which commands arrive; it knows neither the broker's     *)
(* queues nor its clock readings.                                          *)
(***************************************************************************)
EXTENDS Integers, FiniteSets

CONSTANTS
  Markets,
  Limit,      \* commands per second and market; 0 stands for no rule
  Second      \* the length of a second

VARIABLES
  time,
  arrivedAt   \* per market, the time at which each numbered command arrived

ruleVars == <<time, arrivedAt>>

InLastSecond(m) == {c \in DOMAIN arrivedAt[m] : time - arrivedAt[m][c] <= Second}

RuleInit ==
  /\ time = 0
  /\ arrivedAt = [m \in Markets |-> [c \in {} |-> 0]]

Advance ==
  /\ time' > time
  /\ UNCHANGED arrivedAt

\* A command arrives, and with it the last second is not over its limit.
Accept(m, c) ==
  /\ c \notin DOMAIN arrivedAt[m]
  /\ Limit[m] > 0 => Cardinality(InLastSecond(m)) < Limit[m]
  /\ arrivedAt' = [arrivedAt EXCEPT ![m] =
                     [d \in DOMAIN arrivedAt[m] \cup {c} |->
                        IF d = c THEN time ELSE arrivedAt[m][d]]]
  /\ UNCHANGED time

\* Commands are numbered by whoever sends them: any new number will do.
RuleNext == Advance \/ \E m \in Markets : \E c \in DOMAIN arrivedAt'[m] : Accept(m, c)

RuleSpec == RuleInit /\ [][RuleNext]_ruleVars
==============================================================================

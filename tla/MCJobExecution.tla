---------------------------- MODULE MCJobExecution ----------------------------
(* JobExecution for TLC: of all jobs of all runs any two are executed.        *)
EXTENDS JobExecution

CONSTANT EXECUTED

\* Only the start of a job is left out, for which there is no fairness.
Some ==
  Cardinality({c \in Calls : at'[c] # "waiting" /\ outcome'[c] # "skipped"}) <= EXECUTED

MCSpec == Init /\ [][Next /\ Some]_vars /\ Fairness
=============================================================================

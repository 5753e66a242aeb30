----------------------------- MODULE MCFollowRun -----------------------------
(* FollowRun for TLC: one run with its command and other clients, or two runs *)
(* with theirs.                                                               *)
EXTENDS FollowRun

CONSTANTS r1, r2

WatchFirst == [w \in Watchers |-> r1]

\* Only steps without fairness are left out: submissions and first requests.
Either == client'[r2].at = "idle" \/ \A w \in Watchers : client'[w].at = "idle"

MCSpec == Init /\ [][Next /\ Either]_vars /\ Fairness
=============================================================================

--------------------------- MODULE MCFluxDispatch ---------------------------
(* Instances of FluxDispatch for TLC: up to four attempts on one host that  *)
(* reconnects once.                                                         *)
EXTENDS FluxDispatch, TLC

CONSTANTS a1, a2, a3, a4, c1, c2, h1, r1

ToOneHost == [a \in Attempts |-> h1]
OneHost == [c \in Conns |-> h1]

\* Every attempt has its own id (ReqIds = Attempts); or all share one.
FreshIds == [a \in Attempts |-> a]
ReusedIds == [a \in Attempts |-> r1]

\* Attempts that want the same are interchangeable under both choices of ids.
AttemptSymmetry == Permutations(Attempts \ {a4})

\* c1 advertises "exec" and its token does not grant it; the token of c2
\* grants it and c2 does not advertise it.  Both have "list".
Wants == [a \in Attempts |-> IF a = a3 THEN "exec" ELSE "list"]
WantsOneExec == [a \in Attempts |-> IF a = a4 THEN "exec" ELSE "list"]
WantList == [a \in Attempts |-> "list"]
Hellos == [c \in Conns |-> IF c = c1 THEN {"list", "exec"} ELSE {"list"}]
Claims == [c \in Conns |-> IF c = c1 THEN {"list"} ELSE {"*", "list", "exec"}]

\* All attempts have ended: the only states in which the lane may stop.
Finished ==
  /\ \A a \in Attempts : pc[a] \in {"done", "dropped"}
  /\ UNCHANGED vars
MCSpec == Init /\ [][Next \/ Finished]_vars
MCFairSpec == MCSpec /\ Fairness
=============================================================================

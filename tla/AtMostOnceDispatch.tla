------------------------- MODULE AtMostOnceDispatch -------------------------
(***************************************************************************)
(* What the dispatch lane of flux promises a Laravel caller, with the      *)
(* streams, the pending table and the sweeper left out.  An attempt is one *)
(* POST /v1/coold/dispatch.  It is refused without having been handed to   *)
(* the host, or it is handed over once; then the host may run it, at most  *)
(* once, and the caller learns the result of a run of the same request id, *)
(* or learns nothing ("unknown"), in which case the command may still run  *)
(* later.                                                                  *)
(***************************************************************************)
EXTENDS Naturals

CONSTANTS Attempts, Rid

VARIABLES sent,     \* attempts handed to the host's stream
          ran,      \* how often an attempt's command was executed
          outcome   \* what the caller was told

absVars == <<sent, ran, outcome>>

Init ==
  /\ sent = {}
  /\ ran = [a \in Attempts |-> 0]
  /\ outcome = [a \in Attempts |-> "none"]

Tell(a, o) ==
  /\ outcome[a] = "none"
  /\ outcome' = [outcome EXCEPT ![a] = o]

Refuse(a) ==
  /\ a \notin sent
  /\ Tell(a, "refused")
  /\ UNCHANGED <<sent, ran>>

Send(a) ==
  /\ a \notin sent
  /\ outcome[a] = "none"
  /\ sent' = sent \cup {a}
  /\ UNCHANGED <<ran, outcome>>

Run(a) ==
  /\ a \in sent
  /\ ran[a] = 0
  /\ ran' = [ran EXCEPT ![a] = 1]
  /\ UNCHANGED <<sent, outcome>>

Answer(a) ==
  /\ a \in sent
  /\ \E b \in Attempts : ran[b] > 0 /\ Rid[b] = Rid[a]
  /\ Tell(a, "answered")
  /\ UNCHANGED <<sent, ran>>

GiveUp(a) ==
  /\ a \in sent
  /\ Tell(a, "unknown")
  /\ UNCHANGED <<sent, ran>>

Next ==
  \E a \in Attempts :
    Refuse(a) \/ Send(a) \/ Run(a) \/ Answer(a) \/ GiveUp(a)

Spec == Init /\ [][Next]_absVars
=============================================================================

------------------------------ MODULE HostLink ------------------------------
(***************************************************************************)
(* What holds a host to flux: the session (AgentSession) of one deployment *)
(* over a long time and of many deployments over a shorter one, and the    *)
(* token file (HostJwt).  They share no variable and every property speaks *)
(* of one of them, so it is enough to let one move at a time: `part` is    *)
(* the one that does.                                                      *)
(***************************************************************************)
EXTENDS AgentSession, HostJwt, TLC

CONSTANTS t0, t1, t2, t3, t4

VARIABLE part

Plain == [https |-> FALSE, tls |-> FALSE, pin |-> "none", ids |-> "ip", peer |-> Me,
          schema |-> <<1, 1>>, bind |-> TRUE, team |-> TRUE]
OnlyPlain == {Plain}
\* One field away from a deployment that works, and a few that work too.
Deployments ==
  {Plain,
   [Plain EXCEPT !.https = TRUE], [Plain EXCEPT !.pin = "flux"], [Plain EXCEPT !.tls = TRUE],
   [Plain EXCEPT !.https = TRUE, !.tls = TRUE, !.pin = "flux"],
   [Plain EXCEPT !.https = TRUE, !.tls = TRUE, !.pin = "old"],
   [Plain EXCEPT !.peer = "unknown"], [Plain EXCEPT !.peer = Other],
   [Plain EXCEPT !.peer = Other, !.bind = FALSE], [Plain EXCEPT !.ids = "uuid", !.peer = Other],
   [Plain EXCEPT !.schema = <<2, 2>>], [Plain EXCEPT !.schema = <<1, 2>>]}

\* t2 is shorter than the others, t3 is another host's, t4 has no sub claim.
SubjectOf == (t0 :> Me) @@ (t1 :> Me) @@ (t2 :> Me) @@ (t3 :> Other) @@ (t4 :> NoSub)
SizeOf == (t0 :> 2) @@ (t1 :> 2) @@ (t2 :> 1) @@ (t3 :> 2) @@ (t4 :> 2)

Wide == INSTANCE AgentSession
  WITH Networks <- Deployments, MaxTime <- 7, MaxMints <- 1, MaxFaults <- 1, MaxSilent <- 1

LinkInit ==
  /\ part \in {"session", "deployments", "file"}
  /\ Wide!Init /\ FileInit
  /\ part # "deployments" => net \in Networks

LinkNext ==
  \/ part = "session" /\ Next /\ UNCHANGED <<part, fileVars>>
  \/ part = "deployments" /\ Wide!Next /\ UNCHANGED <<part, fileVars>>
  \/ part = "file" /\ FileNext /\ UNCHANGED <<part, vars>>

LinkSpec == LinkInit /\ [][LinkNext]_<<part, vars, fileVars>>
=============================================================================

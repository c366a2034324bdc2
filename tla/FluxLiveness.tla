---------------------------- MODULE FluxLiveness ----------------------------
(***************************************************************************)
(* What must not be left undone between flux and its hosts, in small       *)
(* instances: dispatches and their table entries (FluxDispatch), a host    *)
(* that has gone silent (FluxPresence), and the statuses that coold        *)
(* reports (StatusSync).  They share no variable and every property speaks *)
(* of one of them, so it is enough to let one move at a time: `part` is    *)
(* the one that does.                                                      *)
(***************************************************************************)
EXTENDS MCFluxDispatch, Bags

CONSTANTS d1, d2, k1, k2

VARIABLES
  part,
  pstreams, reachable, stale, ptask, ppeer, prxOpen, pqueue, owed, hb, batch,
  targets, pinging, flying, laravel, sent, fails, issued, overtaken,
  actual, snapshot, resync, spc, listed, force, todo, held, link, inbox, lagged, out,
  told, changes, drops

presenceVars ==
  <<pstreams, reachable, stale, ptask, ppeer, prxOpen, pqueue, owed, hb, batch,
    targets, pinging, flying, laravel, sent, fails, issued, overtaken>>
syncVars ==
  <<actual, snapshot, resync, spc, listed, force, todo, held, link, inbox, lagged, out,
    told, changes, drops>>

Presence == INSTANCE FluxPresence
  WITH HostOf <- c1 :> h1, StatusPermits <- 1, Updates <- 0, RegistryOn <- TRUE,
       MaxFails <- 1, MayStall <- FALSE, streams <- pstreams, task <- ptask,
       peer <- ppeer, rxOpen <- prxOpen, queue <- pqueue

Sync == INSTANCE StatusSync
  WITH Containers <- {k1, k2}, States <- {"running"}, Absent <- "absent",
       Tasks <- {"loop"}, Conns <- {d1, d2}, InboxCap <- 2, OutCap <- 1,
       MaxChanges <- 1, MaxDrops <- 1, pc <- spc

FluxInit ==
  /\ part \in {"dispatch", "presence", "sync"}
  /\ Init /\ Presence!Init /\ Sync!Init
  /\ part = "sync" \/ actual = [k \in {k1, k2} |-> "absent"]

\* Steps of one part.
OfPresence(A) == part = "presence" /\ A /\ UNCHANGED <<part, vars, syncVars>>
OfSync(A) == part = "sync" /\ A /\ UNCHANGED <<part, vars, presenceVars>>

FluxNext ==
  \/ part = "dispatch" /\ (Next \/ Finished) /\ UNCHANGED <<part, presenceVars, syncVars>>
  \/ OfPresence(Presence!Next)
  \/ OfSync(Sync!Next)

\* The fairness of each part's module.  No action that FluxDispatch's names is
\* enabled before a first attempt, so it asks nothing while another part moves.
FluxFairness ==
  /\ Fairness
  /\ WF_presenceVars(OfPresence(Presence!Heartbeat))
  /\ WF_presenceVars(OfPresence(\E m \in BagToSet(flying) : Presence!Delivered(m)))
  /\ \A c \in Conns :
       /\ WF_presenceVars(OfPresence(Presence!Take(c)))
       /\ WF_presenceVars(OfPresence(Presence!CloseOutbound(c)))
       /\ WF_presenceVars(OfPresence(Presence!Announce(c)))
       /\ WF_presenceVars(OfPresence(Presence!ReportRestored(c)))
       /\ WF_presenceVars(OfPresence(Presence!ReportEnd(c)))
       /\ WF_presenceVars(OfPresence(Presence!ReportDisconnect(c)))
       /\ WF_presenceVars(OfPresence(Presence!Ended(c)))
  /\ \A h \in Hosts : WF_presenceVars(OfPresence(Presence!Age(h)))
  /\ WF_syncVars(OfSync(Sync!Reconcile("loop")))
  /\ \A d \in {d1, d2} :
       /\ WF_syncVars(OfSync(Sync!Forward(d)))
       /\ WF_syncVars(OfSync(Sync!ForwardLagged(d)))
       /\ WF_syncVars(OfSync(Sync!LeakedBreaks(d)))
       /\ WF_syncVars(OfSync(Sync!FluxReceives(d)))
       /\ WF_syncVars(OfSync(Sync!Established(d)))
  /\ WF_syncVars(OfSync(\E d \in {d1, d2} : Sync!Dial(d)))

FluxSpec ==
  FluxInit /\ [][FluxNext]_<<part, vars, presenceVars, syncVars>> /\ FluxFairness

-----------------------------------------------------------------------------
(* The properties of the instances; the others are FluxDispatch's own.      *)

\* A host whose peer has gone quiet is marked unreachable or loses its stream
\* ("Seconds without a coold pong before Flux marks that server unreachable").
SilenceNoticed == Presence!SilenceNoticed

\* Once containers and streams have settled, flux has been told the current
\* status of every container that exists, if the forwarder keeps up.
ExistingReported == Sync!ExistingReported
=============================================================================

------------------------------ MODULE FluxSide ------------------------------
(***************************************************************************)
(* What flux keeps besides the dispatch lane, in small instances: the      *)
(* streams and what Laravel hears of them (FluxPresence) for a host that   *)
(* reconnects and for one that sends container updates, and the denylist   *)
(* (RevocationStore) of a flux that stops at any point, with a sweeper     *)
(* beside the requests.  They share no variable and every property speaks  *)
(* of one of them, so it is enough to let one move at a time: `part` is    *)
(* the one that does.                                                      *)
(***************************************************************************)
EXTENDS MCFluxPresence, MCRevocationStore

VARIABLE part

\* Container updates and pongs compete for the publish permits, calls fail, and
\* the peer may stop reading; one stream is enough for that.
Updating == INSTANCE FluxPresence WITH Updates <- 2, MaxFails <- 1, MayStall <- TRUE

SideInit == part \in {"presence", "updates", "denylist"} /\ Init /\ StoreInit

SideNext ==
  \/ part = "presence" /\ Next /\ UNCHANGED <<part, storeVars>>
  \/ /\ part = "updates" /\ Updating!Next /\ \E c \in Conns : task'[c] = "new"
     /\ UNCHANGED <<part, storeVars>>
  \/ part = "denylist" /\ StoreNext /\ UNCHANGED <<part, vars>>

SideSpec == SideInit /\ [][SideNext]_<<part, vars, storeVars>>

\* Type invariant of both: channels and permits keep their bounds, and a task of
\* persist has a file open exactly while it writes.
SideTypeOK == TypeOK /\ StoreTypeOK

\* The streams of a host are interchangeable.
StreamSymmetry == Permutations(Conns)

\* Which inode a file has is of no matter, only what it holds and who has it open.
File(i) == IF i = NoInode THEN <<>> ELSE <<data[i], {t \in Tasks : fd[t] = i}>>
StoreView ==
  <<now, mem, pc, jti, adding, sole, snap, File(tmp), File(path), [t \in Tasks |-> File(fd[t])],
    confirmed, restarts, overlapped>>

\* No action and no property here looks at what Laravel has heard.
SideView == <<part, streams, reachable, stale, streamVars, hbVars, flying, fails, issued, overtaken,
              sent, StoreView>>
=============================================================================

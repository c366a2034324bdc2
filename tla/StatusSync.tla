----------------------------- MODULE StatusSync -----------------------------
(***************************************************************************)
(* How coold keeps Laravel informed of its containers: two tasks run       *)
(* `reconcile_once` (one per Podman event, one per tick), diff what Podman *)
(* lists against a snapshot and broadcast the differences; the forwarder   *)
(* of the current flux stream takes them from its broadcast receiver and   *)
(* sends them on the stream.  A resync flag makes the next reconcile start *)
(* from an empty snapshot.                                                 *)
(*                                                                         *)
(* A status is one of States or Absent (the container does not exist); an  *)
(* update with status Absent is the "removed" update.  The module ends at  *)
(* flux's stream task: `told` is the last update it has received of each   *)
(* container.                                                              *)
(***************************************************************************)
EXTENDS Naturals, Sequences, Functions, FiniteSets

CONSTANTS
  Containers, States, Absent,
  Tasks,       \* run_event_trigger and run_reconcile_loop
  Conns,       \* slots for a connection and its forwarder
  InboxCap,    \* capacity of the broadcast channel (256 in the code)
  OutCap,      \* capacity of the stream's outbound channel (64 in the code)
  MaxChanges,  \* bound on changes of containers
  MaxDrops     \* bound on ended streams

Status == States \cup {Absent}
Update == [id : Containers, status : Status]

ASSUME SyncConstants ==
  /\ Absent \notin States
  /\ InboxCap \in Nat \ {0} /\ OutCap \in Nat \ {0}
  /\ MaxChanges \in Nat /\ MaxDrops \in Nat
  /\ IsFiniteSet(Containers)

VARIABLES
  actual,    \* what Podman knows
  snapshot,  \* container_status_snapshot (Absent: no key)
  resync,    \* ResyncSignal
  pc,        \* where a task stands in reconcile_once
  listed,    \* all_containers of a task
  force,     \* its force_resync
  todo,      \* updates that the holder of the snapshot's lock has still to send
  held,      \* one of its sends has failed
  link,      \* a connection: "new", "dialing", "up" or "leaked"
  inbox,     \* its broadcast receiver
  lagged,    \* the receiver has missed updates
  out,       \* updates between the forwarder and flux's stream task
  told,      \* history: last update flux received of a container
  changes, drops

syncVars == <<snapshot, resync, pc, listed, force, todo, held>>
linkVars == <<link, inbox, lagged, out, told>>
vars == <<actual, syncVars, linkVars, changes, drops>>

Nothing == [k \in Containers |-> Absent]

\* Type invariant: the broadcast receiver and the stream's channel keep their bounds.
TypeOK ==
  /\ actual \in [Containers -> Status]
  /\ snapshot \in [Containers -> Status]
  /\ resync \in BOOLEAN
  /\ pc \in [Tasks -> {"idle", "listed", "inspected", "taken", "emitting"}]
  /\ listed \in [Tasks -> [Containers -> Status]]
  /\ force \in [Tasks -> BOOLEAN]
  /\ todo \in Seq(Update) /\ held \in BOOLEAN
  /\ link \in [Conns -> {"new", "dialing", "up", "leaked"}]
  /\ inbox \in [Conns -> Seq(Update)]
  /\ lagged \in [Conns -> BOOLEAN]
  /\ out \in [Conns -> Seq(Update)]
  /\ told \in [Containers -> Status]
  /\ changes \in 0..MaxChanges /\ drops \in 0..MaxDrops
  /\ \A c \in Conns :
       /\ Len(inbox[c]) <= InboxCap /\ Len(out[c]) <= OutCap
       /\ link[c] = "new" => inbox[c] = <<>> /\ ~lagged[c]
       /\ link[c] # "up" => out[c] = <<>>

Init ==
  /\ actual \in [Containers -> Status]
  /\ snapshot = Nothing
  /\ resync = FALSE
  /\ pc = [t \in Tasks |-> "idle"]
  /\ listed = [t \in Tasks |-> Nothing]
  /\ force = [t \in Tasks |-> FALSE]
  /\ todo = <<>> /\ held = FALSE
  /\ link = [c \in Conns |-> "new"]
  /\ inbox = [c \in Conns |-> <<>>]
  /\ lagged = [c \in Conns |-> FALSE]
  /\ out = [c \in Conns |-> <<>>]
  /\ told = Nothing
  /\ changes = 0 /\ drops = 0

-----------------------------------------------------------------------------
(* Podman                                                                  *)

Change(k, s) ==
  /\ changes < MaxChanges
  /\ s # actual[k]
  /\ actual' = [actual EXCEPT ![k] = s]
  /\ changes' = changes + 1
  /\ UNCHANGED <<syncVars, linkVars, drops>>

-----------------------------------------------------------------------------
(* reconcile_once.  A Podman call that fails ends the round before it has  *)
(* changed anything, like a round that was not begun.                      *)

\* desired_container_statuses: the list, then one inspect per container.
List(t) ==
  /\ pc[t] = "idle"
  /\ listed' = [listed EXCEPT ![t] = actual]
  /\ pc' = [pc EXCEPT ![t] = "listed"]
  /\ UNCHANGED <<actual, snapshot, resync, force, todo, held, linkVars, changes, drops>>

\* An inspect that fails leaves the state the list gave.
Inspect(t) ==
  /\ pc[t] = "listed"
  /\ \E K \in SUBSET {k \in Containers : listed[t][k] # Absent /\ actual[k] # Absent} :
       listed' = [listed EXCEPT ![t] = [k \in Containers |->
                                          IF k \in K THEN actual[k] ELSE @[k]]]
  /\ pc' = [pc EXCEPT ![t] = "inspected"]
  /\ UNCHANGED <<actual, snapshot, resync, force, todo, held, linkVars, changes, drops>>

TakeResync(t) ==
  /\ pc[t] = "inspected"
  /\ force' = [force EXCEPT ![t] = resync]
  /\ resync' = FALSE
  /\ pc' = [pc EXCEPT ![t] = "taken"]
  /\ UNCHANGED <<actual, snapshot, listed, todo, held, linkVars, changes, drops>>

\* diff_container_statuses: the containers that differ, in an arbitrary order.
Deltas(base, all) == {k \in Containers : base[k] # all[k]}

\* reconcile_container_status_snapshot takes the lock of the snapshot, clears
\* it for a resync and computes what to send.
Unlocked == \A t \in Tasks : pc[t] # "emitting"
Base(t) == IF force[t] THEN Nothing ELSE snapshot

NoDeltas(t) ==
  /\ pc[t] = "taken" /\ Unlocked
  /\ Deltas(Base(t), listed[t]) = {}
  /\ snapshot' = Base(t)
  /\ pc' = [pc EXCEPT ![t] = "idle"]
  /\ listed' = [listed EXCEPT ![t] = Nothing]
  /\ force' = [force EXCEPT ![t] = FALSE]
  /\ UNCHANGED <<actual, resync, todo, held, linkVars, changes, drops>>

Diff(t) ==
  /\ pc[t] = "taken" /\ Unlocked
  /\ LET deltas == Deltas(Base(t), listed[t]) IN
       /\ deltas # {}
       /\ \E order \in Surjection(1..Cardinality(deltas), deltas) :
            todo' = [i \in 1..Cardinality(deltas) |->
                       [id |-> order[i], status |-> listed[t][order[i]]]]
  /\ snapshot' = Base(t)
  /\ pc' = [pc EXCEPT ![t] = "emitting"]
  /\ UNCHANGED <<actual, resync, listed, force, held, linkVars, changes, drops>>

\* broadcast::send puts the update into every receiver; a full one loses its
\* oldest update and will report the lag.
Receivers == {c \in Conns : link[c] # "new"}

\* Mutant: the receiver grows without bound.
KeptAll(s) == s

Kept(s) == IF Len(s) > InboxCap THEN SubSeq(s, Len(s) - InboxCap + 1, Len(s)) ELSE s

\* Mutant: a lag is not reported.
BroadcastSilently(u) ==
  /\ inbox' = [c \in Conns |->
                 IF c \in Receivers THEN Kept(Append(inbox[c], u)) ELSE inbox[c]]
  /\ UNCHANGED lagged

Broadcast(u) ==
  /\ inbox' = [c \in Conns |->
                 IF c \in Receivers THEN Kept(Append(inbox[c], u)) ELSE inbox[c]]
  /\ lagged' = [c \in Conns |->
                  lagged[c] \/ (c \in Receivers /\ Len(inbox[c]) = InboxCap)]

\* One send.  With no receiver it fails, and the snapshot will be held.
\* After the last one the snapshot advances if every send was accepted.
Emit(t) ==
  LET failed == held \/ Receivers = {}
      last == Len(todo) = 1
  IN /\ pc[t] = "emitting"
     /\ Broadcast(Head(todo))
     /\ todo' = Tail(todo)
     /\ held' = (failed /\ ~last)
     /\ snapshot' = IF last /\ ~failed THEN listed[t] ELSE snapshot
     /\ pc' = [pc EXCEPT ![t] = IF last THEN "idle" ELSE @]
     /\ listed' = [listed EXCEPT ![t] = IF last THEN Nothing ELSE @]
     /\ force' = [force EXCEPT ![t] = @ /\ ~last]
     /\ UNCHANGED <<actual, resync, link, out, told, changes, drops>>

-----------------------------------------------------------------------------
(* The flux client                                                         *)

\* run: subscribe, then connect.  One connection at a time.
Dial(c) ==
  /\ \A d \in Conns : link[d] \notin {"dialing", "up"}
  /\ \E d \in Conns : link[d] = "new"
  /\ c = CHOOSE d \in Conns : link[d] = "new"
  /\ link' = [link EXCEPT ![c] = "dialing"]
  /\ UNCHANGED <<actual, syncVars, inbox, lagged, out, told, changes, drops>>

\* connect_and_serve fails before the stream stands: the receiver is dropped.
DialFails(c) ==
  /\ link[c] = "dialing"
  /\ drops < MaxDrops
  /\ drops' = drops + 1
  /\ link' = [link EXCEPT ![c] = "new"]
  /\ inbox' = [inbox EXCEPT ![c] = <<>>]
  /\ lagged' = [lagged EXCEPT ![c] = FALSE]
  /\ UNCHANGED <<actual, syncVars, out, told, changes>>

\* Mutant: a new stream does not ask for a resync.
EstablishedQuietly(c) ==
  /\ link[c] = "dialing"
  /\ link' = [link EXCEPT ![c] = "up"]
  /\ UNCHANGED <<actual, syncVars, inbox, lagged, out, told, changes, drops>>

Established(c) ==
  /\ link[c] = "dialing"
  /\ link' = [link EXCEPT ![c] = "up"]
  /\ resync' = TRUE
  /\ UNCHANGED <<actual, snapshot, pc, listed, force, todo, held, inbox, lagged, out, told,
                 changes, drops>>

\* status_forwarder
Forward(c) ==
  /\ link[c] = "up"
  /\ ~lagged[c] /\ inbox[c] # <<>>
  /\ Len(out[c]) < OutCap
  /\ out' = [out EXCEPT ![c] = Append(@, Head(inbox[c]))]
  /\ inbox' = [inbox EXCEPT ![c] = Tail(@)]
  /\ UNCHANGED <<actual, syncVars, link, lagged, told, changes, drops>>

ForwardLagged(c) ==
  /\ lagged[c]
  /\ link[c] \in {"up", "leaked"}
  /\ lagged' = [lagged EXCEPT ![c] = FALSE]
  /\ resync' = TRUE
  /\ UNCHANGED <<actual, snapshot, pc, listed, force, todo, held, link, inbox, out, told,
                 changes, drops>>

\* The stream ends.  After a clean close the forwarder is aborted; after an
\* error it is left behind, subscribed, until its next send fails.
CleanClose(c) ==
  /\ link[c] = "up"
  /\ drops < MaxDrops
  /\ drops' = drops + 1
  /\ link' = [link EXCEPT ![c] = "new"]
  /\ inbox' = [inbox EXCEPT ![c] = <<>>]
  /\ lagged' = [lagged EXCEPT ![c] = FALSE]
  /\ out' = [out EXCEPT ![c] = <<>>]
  /\ UNCHANGED <<actual, syncVars, told, changes>>

StreamError(c) ==
  /\ link[c] = "up"
  /\ drops < MaxDrops
  /\ drops' = drops + 1
  /\ link' = [link EXCEPT ![c] = "leaked"]
  /\ out' = [out EXCEPT ![c] = <<>>]
  /\ UNCHANGED <<actual, syncVars, inbox, lagged, told, changes>>

LeakedBreaks(c) ==
  /\ link[c] = "leaked"
  /\ ~lagged[c] /\ inbox[c] # <<>>
  /\ link' = [link EXCEPT ![c] = "new"]
  /\ inbox' = [inbox EXCEPT ![c] = <<>>]
  /\ UNCHANGED <<actual, syncVars, lagged, out, told, changes, drops>>

\* flux's stream task receives an update.
FluxReceives(c) ==
  /\ out[c] # <<>>
  /\ told' = [told EXCEPT ![Head(out[c]).id] = Head(out[c]).status]
  /\ out' = [out EXCEPT ![c] = Tail(@)]
  /\ UNCHANGED <<actual, syncVars, link, inbox, lagged, changes, drops>>

-----------------------------------------------------------------------------
Reconcile(t) ==
  \/ List(t) \/ Inspect(t) \/ TakeResync(t) \/ NoDeltas(t) \/ Diff(t) \/ Emit(t)

Link(c) ==
  \/ Dial(c) \/ DialFails(c) \/ Established(c) \/ CleanClose(c) \/ StreamError(c)
  \/ Forward(c) \/ ForwardLagged(c) \/ LeakedBreaks(c) \/ FluxReceives(c)

Next ==
  \/ \E k \in Containers, s \in Status : Change(k, s)
  \/ \E t \in Tasks : Reconcile(t)
  \/ \E c \in Conns : Link(c)

Spec == Init /\ [][Next]_vars

\* The interval ticker never stops, coold redials for ever, and the tasks of
\* both ends are polled.  Of the environment: it changes and breaks finitely
\* often (MaxChanges, MaxDrops).
Fairness ==
  /\ \A t \in Tasks : WF_vars(Reconcile(t))
  /\ \A c \in Conns :
       /\ WF_vars(Forward(c)) /\ WF_vars(ForwardLagged(c))
       /\ WF_vars(LeakedBreaks(c)) /\ WF_vars(FluxReceives(c))
       /\ WF_vars(Established(c))
  /\ WF_vars(\E c \in Conns : Dial(c))

FairSpec == Spec /\ Fairness

-----------------------------------------------------------------------------
(* Properties                                                              *)

\* A resync is due: requested, taken by a task that has not emitted yet, or
\* about to be requested because of a lag.
ResyncDue ==
  \/ resync
  \/ \E t \in Tasks : pc[t] \in {"taken", "emitting"} /\ force[t]
  \/ \E c \in Conns : link[c] = "up" /\ lagged[c]

\* The last update of container k in a channel gives it status st; there is none.
Tells(ch, k, st) ==
  \E i \in DOMAIN ch : /\ ch[i] = [id |-> k, status |-> st]
                       /\ \A j \in DOMAIN ch : j > i => ch[j].id # k
Silent(ch, k) == \A i \in DOMAIN ch : ch[i].id # k

\* The last word on k of a receiver, the stream's channel and flux, in this order.
LastWord(in, ch, last, k, st) ==
  \/ Tells(in, k, st)
  \/ Silent(in, k) /\ Tells(ch, k, st)
  \/ Silent(in, k) /\ Silent(ch, k) /\ last = st

\* What flux will have heard of a container once the connection has drained.
WillHear(c, k, st) == LastWord(inbox[c], out[c], told[k], k, st)

\* While a stream is up, no resync is due and no task holds the snapshot, flux has
\* heard, or is going to hear, of every container in coold's snapshot the status the
\* snapshot has: the snapshot never runs ahead of what was sent, whatever was lost
\* before.
SnapshotIsSent ==
  \A c \in Conns :
    link[c] = "up" /\ ~ResyncDue /\ Unlocked =>
      \A k \in Containers : snapshot[k] # Absent => WillHear(c, k, snapshot[k])

\* The forwarder keeps up: again and again, between two emissions, it has
\* emptied its receiver.  (A lag makes a resync, which fills the receiver; a
\* forwarder that never catches up between two rounds can lag for ever.)
KeepsUp ==
  []<>(Unlocked /\ \A c \in Conns : link[c] = "up" => inbox[c] = <<>> /\ ~lagged[c])

\* Once containers and streams have settled, flux has been told the current
\* status of every container that exists, if the forwarder keeps up.
ExistingReported ==
  KeepsUp => <>[](\A k \in Containers : actual[k] # Absent => told[k] = actual[k])

\* coold/src/sync.rs, ResyncSignal: "guaranteeing Laravel receives current
\* truth for every container after any flux/Laravel outage".  Here: once all
\* has settled, and if the forwarder keeps up, flux has been told of every
\* container what Podman knows, the removal of a container included.
EveryContainerReported ==
  KeepsUp => <>[](\A k \in Containers : told[k] = actual[k])
=============================================================================

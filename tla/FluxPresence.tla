---------------------------- MODULE FluxPresence ----------------------------
(***************************************************************************)
(* What flux tells Laravel about the hosts: the stream tasks that announce *)
(* a host when its stream opens and ends, the heartbeat that pings every   *)
(* stream and marks silent hosts unreachable, container updates passed on, *)
(* and the HTTP calls that carry all of it.  (flux/src/main.rs, state.rs,  *)
(* registry.rs, resource_status.rs)                                        *)
(*                                                                         *)
(* A report is one HTTP call in flight: what it is about, the host, its    *)
(* value and who awaits it ("task" for a spawned one, with `permit` if it  *)
(* holds one of the status permits).  Calls run concurrently, so Laravel   *)
(* may apply them in any order; one that fails is only logged.             *)
(* Streams is shared: a task's change of an entry and the report of it are *)
(* two steps, and other tasks run between them.                            *)
(* A channel is known by its length.  `stale` says that the pong timeout   *)
(* has passed since last_seen_at.                                          *)
(***************************************************************************)
EXTENDS Naturals, Sequences, FiniteSets, Bags, TLC

CONSTANTS
  Hosts, Conns, HostOf, NoConn,
  QueueCap,       \* capacity of a stream's command channel (64 in the code)
  StatusPermits,  \* concurrent status publishes (256 in the code)
  Updates,        \* container updates coold sends per host
  RegistryOn,     \* whether registry reporting is configured
  MaxFails,       \* bound on failed calls
  MayStall        \* whether a peer may stop reading without closing

ASSUME PresenceConstants ==
  HostOf \in [Conns -> Hosts] /\ NoConn \notin Conns

VARIABLES
  streams, reachable, stale,   \* Streams: entry, its flag, its age
  task, peer, rxOpen, queue, owed,
  hb, batch, targets, pinging, \* the heartbeat task
  flying,                      \* bag of calls in flight
  laravel,                     \* what Laravel last heard, per kind and host
  sent, fails,                 \* updates passed to flux; failed calls
  issued,                      \* history: the last server status sent off, and
  overtaken                         \* the hosts for which it said "installed" when
                               \* they were no longer up

streamVars == <<task, peer, rxOpen, queue, owed>>
hbVars == <<hb, batch, targets, pinging>>
reportVars == <<flying, laravel, fails, issued, overtaken>>
vars == <<streams, reachable, stale, streamVars, hbVars, reportVars, sent>>

Report(kind, h, val, by) ==
  [kind |-> kind, host |-> h, val |-> val, by |-> by, permit |-> FALSE]
ToRegistry(h, val, by) == IF RegistryOn THEN {Report("registry", h, val, by)} ELSE {}
Bounded(kind, h, val) ==
  [kind |-> kind, host |-> h, val |-> val, by |-> "task", permit |-> TRUE]
One(m) == SetToBag({m})
Up(h) == streams[h] # NoConn /\ reachable[h]
AwaitedBy(who) == {m \in BagToSet(flying) : m.by = who}
PermitsHeld ==
  LET held == {m \in BagToSet(flying) : m.permit}
  IN IF held = {} THEN 0
     ELSE BagCardinality([m \in held |-> flying[m]])

\* Type invariant: a command channel keeps its capacity, and status publishes never
\* hold more than the permits of spawn_bounded_publish.
TypeOK ==
  /\ streams \in [Hosts -> Conns \cup {NoConn}]
  /\ reachable \in [Hosts -> BOOLEAN] /\ stale \in [Hosts -> BOOLEAN]
  /\ task \in [Conns -> {"new", "inserted", "serving", "restored", "removed", "announcing",
                        "reporting", "ended"}]
  /\ peer \in [Conns -> {"off", "up", "silent", "stalled", "gone"}]
  /\ queue \in [Conns -> 0..QueueCap]
  /\ hb \in {"wait", "batch", "ping"} /\ batch \subseteq Hosts
  /\ pinging \in Conns \cup {NoConn} /\ targets \subseteq Conns
  /\ PermitsHeld <= StatusPermits

Init ==
  /\ streams = [h \in Hosts |-> NoConn]
  /\ reachable = [h \in Hosts |-> FALSE] /\ stale = [h \in Hosts |-> FALSE]
  /\ task = [c \in Conns |-> "new"] /\ peer = [c \in Conns |-> "off"]
  /\ rxOpen = [c \in Conns |-> FALSE]
  /\ queue = [c \in Conns |-> 0] /\ owed = [c \in Conns |-> 0]
  /\ hb = "wait" /\ batch = {} /\ targets = {} /\ pinging = NoConn
  /\ flying = EmptyBag
  /\ laravel = [server |-> [h \in Hosts |-> "none"],
                registry |-> [h \in Hosts |-> "none"],
                container |-> [h \in Hosts |-> "0"]]
  /\ sent = [h \in Hosts |-> 0] /\ fails = 0
  /\ issued = [h \in Hosts |-> "none"] /\ overtaken = {}

-----------------------------------------------------------------------------
(* Sending a report.                                                        *)

\* The calls that start in this step.
SendOff(reports) ==
  /\ flying' = flying (+) SetToBag(reports)
  /\ issued' = [h \in Hosts |->
                  IF \E m \in reports : m.kind = "server" /\ m.host = h
                  THEN (CHOOSE m \in reports : m.kind = "server" /\ m.host = h).val
                  ELSE issued[h]]
  /\ overtaken' = {h \in Hosts :
                IF \E m \in reports : m.kind = "server" /\ m.host = h
                THEN issued'[h] = "installed" /\ ~Up(h)
                ELSE h \in overtaken}
  /\ UNCHANGED <<laravel, fails>>

\* Mutant: the cap is compared with <=.
SendOffOneMore(m) ==
  IF PermitsHeld <= StatusPermits THEN SendOff({m}) ELSE UNCHANGED reportVars

\* spawn_bounded_publish: without a permit the update is dropped.
SendOffBounded(m) ==
  IF PermitsHeld < StatusPermits THEN SendOff({m}) ELSE UNCHANGED reportVars

\* Laravel answers a call.
Delivered(m) ==
  /\ BagIn(m, flying)
  /\ flying' = flying (-) One(m)
  /\ laravel' = [laravel EXCEPT ![m.kind][m.host] = m.val]
  /\ UNCHANGED <<streams, reachable, stale, streamVars, hbVars, fails, issued, overtaken, sent>>

\* The call fails (no connection, or a status that is not 2xx); only logged.
CallFails(m) ==
  /\ BagIn(m, flying) /\ fails < MaxFails
  /\ fails' = fails + 1
  /\ flying' = flying (-) One(m)
  /\ UNCHANGED <<streams, reachable, stale, streamVars, hbVars, laravel, issued, overtaken, sent>>

-----------------------------------------------------------------------------
(* Streams.                                                                 *)

\* `stream`, accepted: Streams::insert.
Connect(c) ==
  LET h == HostOf[c]
  IN /\ task[c] = "new"
     /\ \A d \in Conns : HostOf[d] = h => peer[d] # "up"
     /\ streams' = [streams EXCEPT ![h] = c]
     /\ reachable' = [reachable EXCEPT ![h] = TRUE]
     /\ stale' = [stale EXCEPT ![h] = FALSE]
     /\ task' = [task EXCEPT ![c] = "inserted"]
     /\ peer' = [peer EXCEPT ![c] = "up"]
     /\ rxOpen' = [rxOpen EXCEPT ![c] = TRUE]
     /\ UNCHANGED <<queue, owed, hbVars, reportVars, sent>>

\* The two spawned reports, and the stream task.
Announce(c) ==
  /\ task[c] = "inserted"
  /\ task' = [task EXCEPT ![c] = "serving"]
  /\ SendOff({Report("server", HostOf[c], "installed", "task")}
             \cup ToRegistry(HostOf[c], "connected", "task"))
  /\ UNCHANGED <<streams, reachable, stale, peer, rxOpen, queue, owed, hbVars, sent>>

\* A Pong.  Streams::touch looks the host up by its id, whichever conn has it.
Pong(c) ==
  LET h == HostOf[c]
  IN /\ task[c] = "serving" /\ peer[c] = "up" /\ owed[c] > 0
     /\ owed' = [owed EXCEPT ![c] = @ - 1]
     /\ IF streams[h] = NoConn
        THEN UNCHANGED <<reachable, stale, task>>
        ELSE /\ reachable' = [reachable EXCEPT ![h] = TRUE]
             /\ stale' = [stale EXCEPT ![h] = FALSE]
             /\ task' = IF reachable[h] THEN task ELSE [task EXCEPT ![c] = "restored"]
     /\ UNCHANGED <<streams, peer, rxOpen, queue, hbVars, reportVars, sent>>

\* The report that follows when touch says the host was marked unreachable.
ReportRestored(c) ==
  /\ task[c] = "restored"
  /\ task' = [task EXCEPT ![c] = "serving"]
  /\ SendOffBounded(Bounded("server", HostOf[c], "installed"))
  /\ UNCHANGED <<streams, reachable, stale, peer, rxOpen, queue, owed, hbVars, sent>>

\* A container's status changed; the updates of a host are numbered.
StatusUpdate(c) ==
  LET h == HostOf[c]
  IN /\ task[c] = "serving" /\ peer[c] = "up" /\ sent[h] < Updates
     /\ sent' = [sent EXCEPT ![h] = @ + 1]
     /\ SendOffBounded(Bounded("container", h, ToString(sent[h] + 1)))
     /\ UNCHANGED <<streams, reachable, stale, streamVars, hbVars>>

\* Mutant: an expired token ends the stream without telling Laravel.
EndUnannounced(c) ==
  LET h == HostOf[c]
  IN /\ task[c] = "serving"
     /\ streams' = [streams EXCEPT ![h] = NoConn]
     /\ reachable' = [reachable EXCEPT ![h] = FALSE]
     /\ stale' = [stale EXCEPT ![h] = FALSE]
     /\ task' = [task EXCEPT ![c] = "announcing"]
     /\ UNCHANGED <<peer, rxOpen, queue, owed, hbVars, reportVars, sent>>

\* The stream task leaves its loop (end of stream, receive error, token
\* expiry) and removes the host's entry, whichever stream's it is.
End(c) ==
  LET h == HostOf[c]
  IN /\ task[c] = "serving"
     /\ streams' = [streams EXCEPT ![h] = NoConn]
     /\ reachable' = [reachable EXCEPT ![h] = FALSE]
     /\ stale' = [stale EXCEPT ![h] = FALSE]
     /\ task' = [task EXCEPT ![c] = "removed"]
     /\ UNCHANGED <<peer, rxOpen, queue, owed, hbVars, reportVars, sent>>

\* It then awaits its two reports.
ReportEnd(c) ==
  /\ task[c] = "removed"
  /\ task' = [task EXCEPT ![c] = "announcing"]
  /\ SendOff({Report("server", HostOf[c], "unreachable", c)})
  /\ UNCHANGED <<streams, reachable, stale, peer, rxOpen, queue, owed, hbVars, sent>>

ReportDisconnect(c) ==
  /\ task[c] = "announcing" /\ AwaitedBy(c) = {}
  /\ task' = [task EXCEPT ![c] = "reporting"]
  /\ SendOff(ToRegistry(HostOf[c], "disconnected", c))
  /\ UNCHANGED <<streams, reachable, stale, peer, rxOpen, queue, owed, hbVars, sent>>

Ended(c) ==
  /\ task[c] = "reporting" /\ AwaitedBy(c) = {}
  /\ task' = [task EXCEPT ![c] = "ended"]
  /\ UNCHANGED <<streams, reachable, stale, peer, rxOpen, queue, owed, hbVars,
                 reportVars, sent>>

\* The peer: it exits, falls silent (a half-open connection whose buffers still
\* take what flux sends), or stops taking anything.
PeerTurns(c, how) ==
  /\ peer[c] \in {"up", "silent"} \/ (peer[c] = "stalled" /\ how = "gone")
  /\ peer' = [peer EXCEPT ![c] = how]
  /\ UNCHANGED <<streams, reachable, stale, task, rxOpen, queue, owed, hbVars,
                 reportVars, sent>>

HasSender(c) == streams[HostOf[c]] = c \/ c \in targets \/ pinging = c

\* The outbound half ends with the peer, or when no sender is left.
CloseOutbound(c) ==
  /\ rxOpen[c] /\ (peer[c] = "gone" \/ (~HasSender(c) /\ queue[c] = 0))
  /\ rxOpen' = [rxOpen EXCEPT ![c] = FALSE]
  /\ queue' = [queue EXCEPT ![c] = 0]
  /\ peer' = [peer EXCEPT ![c] = "gone"]
  /\ UNCHANGED <<streams, reachable, stale, task, owed, hbVars, reportVars, sent>>

\* The transport takes a frame from the channel; a live coold owes a Pong.
Take(c) ==
  /\ rxOpen[c] /\ queue[c] > 0 /\ peer[c] \in {"up", "silent"}
  /\ queue' = [queue EXCEPT ![c] = @ - 1]
  /\ owed' = [owed EXCEPT ![c] = IF peer[c] = "up" /\ @ < QueueCap THEN @ + 1 ELSE @]
  /\ UNCHANGED <<streams, reachable, stale, task, peer, rxOpen, hbVars, reportVars, sent>>

\* The pong timeout passes without a Pong.
Age(h) ==
  /\ streams[h] # NoConn /\ ~stale[h]
  /\ stale' = [stale EXCEPT ![h] = TRUE]
  /\ UNCHANGED <<streams, reachable, streamVars, hbVars, reportVars, sent>>

-----------------------------------------------------------------------------
(* coold_heartbeat::run                                                     *)

\* Mutant: the entry's flag stays, so the host is reported on every tick.
MarkStaleNoFlag ==
  /\ hb = "wait" /\ hb' = "batch"
  /\ batch' = {h \in Hosts : streams[h] # NoConn /\ reachable[h] /\ stale[h]}
  /\ UNCHANGED <<streams, reachable, stale, streamVars, targets, pinging, reportVars, sent>>

\* A tick: Streams::mark_stale.
MarkStale ==
  /\ hb = "wait" /\ hb' = "batch"
  /\ batch' = {h \in Hosts : streams[h] # NoConn /\ reachable[h] /\ stale[h]}
  /\ reachable' = [h \in Hosts |-> reachable[h] /\ ~stale[h]]
  /\ UNCHANGED <<streams, stale, streamVars, targets, pinging, reportVars, sent>>

\* The marked hosts are reported one after the other, each call awaited.
ReportStale(h) ==
  /\ hb = "batch" /\ h \in batch /\ AwaitedBy("hb") = {}
  /\ batch' = batch \ {h}
  /\ SendOff({Report("server", h, "unreachable", "hb")})
  /\ UNCHANGED <<streams, reachable, stale, streamVars, hb, targets, pinging, sent>>

PingTargets ==
  /\ hb = "batch" /\ batch = {} /\ AwaitedBy("hb") = {}
  /\ hb' = "ping"
  /\ targets' = {streams[h] : h \in Hosts} \ {NoConn}
  /\ UNCHANGED <<streams, reachable, stale, streamVars, batch, pinging, reportVars, sent>>

NextTarget(c) ==
  /\ hb = "ping" /\ pinging = NoConn /\ c \in targets
  /\ pinging' = c /\ targets' = targets \ {c}
  /\ UNCHANGED <<streams, reachable, stale, streamVars, hb, batch, reportVars, sent>>

\* tx.send(Ping).await: waits for room; fails (logged) on a closed channel.
SendPing ==
  /\ pinging # NoConn /\ (~rxOpen[pinging] \/ queue[pinging] < QueueCap)
  /\ queue' = IF rxOpen[pinging] THEN [queue EXCEPT ![pinging] = @ + 1] ELSE queue
  /\ pinging' = NoConn
  /\ UNCHANGED <<streams, reachable, stale, task, peer, rxOpen, owed, hb, batch,
                 targets, reportVars, sent>>

PingsDone ==
  /\ hb = "ping" /\ targets = {} /\ pinging = NoConn
  /\ hb' = "wait"
  /\ UNCHANGED <<streams, reachable, stale, streamVars, batch, targets, pinging,
                 reportVars, sent>>

-----------------------------------------------------------------------------

Heartbeat ==
  \/ MarkStale \/ PingTargets \/ SendPing \/ PingsDone
  \/ \E h \in Hosts : ReportStale(h)
  \/ \E c \in Conns : NextTarget(c)

Turns == {"silent", "gone"} \cup (IF MayStall THEN {"stalled"} ELSE {})

Next ==
  \/ Heartbeat
  \/ \E c \in Conns :
       \/ Connect(c) \/ Announce(c) \/ Pong(c) \/ ReportRestored(c) \/ StatusUpdate(c)
       \/ End(c) \/ ReportEnd(c) \/ ReportDisconnect(c) \/ Ended(c) \/ CloseOutbound(c) \/ Take(c)
       \/ \E how \in Turns : PeerTurns(c, how)
  \/ \E h \in Hosts : Age(h)
  \/ \E m \in BagToSet(flying) : Delivered(m) \/ CallFails(m)

Spec == Init /\ [][Next]_vars

\* The tasks run, Laravel answers every call, time passes for a host that stays
\* silent, and the transport takes frames while the peer reads them.
Fairness ==
  /\ WF_vars(Heartbeat)
  /\ WF_vars(\E m \in BagToSet(flying) : Delivered(m))
  /\ \A c \in Conns : /\ WF_vars(Take(c)) /\ WF_vars(CloseOutbound(c))
                       /\ WF_vars(Announce(c)) /\ WF_vars(ReportRestored(c))
                       /\ WF_vars(ReportEnd(c)) /\ WF_vars(ReportDisconnect(c))
                       /\ WF_vars(Ended(c))
  /\ \A h \in Hosts : WF_vars(Age(h))

FairSpec == Spec /\ Fairness

-----------------------------------------------------------------------------
(* Properties.                                                              *)

\* A host that was announced and is not connected and reachable any more is never
\* lost silently: the last status sent off for it says "unreachable", or the task
\* that took it out of Streams or marked it is about to send that, or the last one
\* is the "installed" of a task that was overtaken, since the host had been lost
\* before that task sent it.  No other interleaving of streams, pongs and ticks
\* leaves a lost host announced.
NoSilentLoss ==
  \A h \in Hosts :
    \/ Up(h) \/ issued[h] \in {"none", "unreachable"} \/ h \in overtaken
    \/ h \in batch \/ \E c \in Conns : HostOf[c] = h /\ task[c] = "removed"

\* Not an invariant of this code: as above, and no report is overtaken.
NoReportOvertaken == overtaken = {}

\* A host whose peer has gone quiet is marked unreachable or loses its stream
\* ("Seconds without a coold pong before Flux marks that server unreachable").
SilenceNoticed ==
  \A c \in Conns :
    (streams[HostOf[c]] = c /\ peer[c] \in {"silent", "stalled"})
      ~> (streams[HostOf[c]] # c \/ ~reachable[HostOf[c]])

Quiet ==
  /\ flying = EmptyBag /\ batch = {}
  /\ \A c \in Conns : task[c] \in {"new", "serving", "ended"}

\* With nothing in flight and no call failed, Laravel's registry has the hosts
\* that have a stream, and only those.
RegistryAgrees ==
  (Quiet /\ fails = 0) =>
    \A h \in Hosts : (laravel.registry[h] = "connected") <=> (streams[h] # NoConn)

\* A host that keeps its stream becomes visible to Laravel.
ConnectedBecomesVisible ==
  \A h \in Hosts :
    <>[](streams[h] # NoConn) => <>(laravel.registry[h] = "connected")

\* With nothing in flight Laravel has the last container update flux got.
LastUpdateWins == Quiet => \A h \in Hosts : laravel.container[h] = ToString(sent[h])
=============================================================================

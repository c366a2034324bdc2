---------------------------- MODULE EndpointSync ----------------------------
(***************************************************************************)
(* How the containers of a host reach the mesh's DNS.  `reconcile_once`    *)
(* lists Podman's containers, inspects them one by one, reads the rows     *)
(* this host has in Corrosion's `service_endpoints`, and applies the       *)
(* difference in one transaction; the resolver answers from the rows.  Two *)
(* tasks run it with nothing between them: run_event_trigger, once per     *)
(* event of Podman's stream, and run_reconcile_loop, once per tick.        *)
(*                                                                         *)
(* An endpoint is a record of namespace, state, health and address; the    *)
(* address is the number of times the container has been started.  The     *)
(* rows of other hosts are left out: the snapshot selects this host's rows *)
(* and a container id names one container of the mesh.                     *)
(***************************************************************************)
EXTENDS Naturals, FiniteSets, Sequences

CONSTANTS
  ContainerIds, \* container ids; an id is used once, and those of one name are alike
  Name,         \* the name each is created with, as a sequence of DNS labels
  Lower,        \* to_lowercase on the labels
  Namespaces,   \* namespaces this host is configured for
  Attachments,  \* sets of networks a container may be created on
  Reconcilers,  \* "trigger" and "loop"
  QueueCap,     \* capacity of the event channel (256 in the code)
  MaxContainerChanges, \* bound on changes of containers
  MaxFails,     \* bound on failed calls, broken streams and restarts
  Skips         \* whether Podman may fail to inspect a container that exists

ASSUME EndpointConstants ==
  /\ QueueCap \in Nat \ {0} /\ MaxContainerChanges \in Nat /\ MaxFails \in Nat
  /\ Reconcilers \subseteq {"trigger", "loop"} /\ Skips \in BOOLEAN

VARIABLES
  containers,  \* Podman's containers
  used,        \* ids Podman has given
  rows,        \* this host's rows of service_endpoints
  connected,   \* the event stream is connected
  wire,        \* events on it that dispatch has not sent on
  queue,       \* events in the channel of run_event_trigger
  phase,       \* where a task stands in reconcile_once
  uninspected, \* containers it has listed and not inspected
  desired,     \* endpoints it has found
  current,     \* rows it has read
  containerChanges, fails

podman == <<containers, used, containerChanges>>
events == <<connected, wire, queue>>
tasks == <<phase, uninspected, desired, current>>
endpointVars == <<podman, rows, events, tasks, fails>>

Health == {"healthy", "unhealthy", "unknown"}
Endpoint == [ns : Namespaces, state : {"running", "exited"}, health : Health,
             ip : 0..MaxContainerChanges]

\* The endpoints an inspect of a container may give: it is on one managed
\* network or on several, and the first of them in the order of a HashMap,
\* which differs from one inspect to the next, is the one recorded.
Endpoints(c) ==
  {[ns |-> n, state |-> containers[c].state, health |-> containers[c].health,
    ip |-> containers[c].ip] : n \in containers[c].nets \cap Namespaces}

EndpointInit ==
  /\ containers = <<>> /\ used = {} /\ rows = <<>> /\ connected = TRUE /\ wire = 0 /\ queue = 0
  /\ phase = [t \in Reconcilers |-> "idle"] /\ uninspected = [t \in Reconcilers |-> {}]
  /\ desired = [t \in Reconcilers |-> <<>>] /\ current = [t \in Reconcilers |-> <<>>]
  /\ containerChanges = 0 /\ fails = 0

With(f, c, r) == [x \in DOMAIN f \cup {c} |-> IF x = c THEN r ELSE f[x]]
Without(f, S) == [x \in DOMAIN f \ S |-> f[x]]

(***************************************************************************)
(* Podman.                                                                 *)
(***************************************************************************)

\* EventKind::classify knows starts, stops and removals; a creation, a change
\* of health or of networks passes without waking the trigger.
EmitEvent(kind) ==
  wire' = IF connected /\ kind \in {"start", "died", "remove"} THEN wire + 1 ELSE wire

ChangeContainer(c, r, kind) ==
  /\ containerChanges < MaxContainerChanges /\ containerChanges' = containerChanges + 1
  /\ containers' = With(containers, c, r)
  /\ EmitEvent(kind)
  /\ UNCHANGED <<rows, connected, queue, tasks, fails>>

Create(c) ==
  /\ c \notin used /\ c = CHOOSE d \in ContainerIds \ used : Name[d] = Name[c]
  /\ used' = used \cup {c}
  /\ \A k \in DOMAIN containers : Name[k] # Name[c]
  /\ \E n \in Attachments :
       ChangeContainer(c, [nets |-> n, state |-> "exited", health |-> "unknown", ip |-> 0, starts |-> 0],
              "create")

StartContainer(c) ==
  /\ c \in DOMAIN containers /\ containers[c].state = "exited" /\ UNCHANGED used
  /\ ChangeContainer(c, [containers[c] EXCEPT !.state = "running", !.starts = @ + 1, !.ip = containers[c].starts + 1],
            "start")

StopContainer(c) ==
  /\ c \in DOMAIN containers /\ containers[c].state = "running" /\ UNCHANGED used
  /\ ChangeContainer(c, [containers[c] EXCEPT !.state = "exited", !.ip = 0], "died")

HealthChanges(c) ==
  /\ c \in DOMAIN containers /\ containers[c].state = "running" /\ UNCHANGED used
  /\ \E h \in Health \ {containers[c].health} :
       ChangeContainer(c, [containers[c] EXCEPT !.health = h], "health_status")

RemoveContainer(c) ==
  /\ containerChanges < MaxContainerChanges /\ containerChanges' = containerChanges + 1
  /\ c \in DOMAIN containers /\ containers' = Without(containers, {c})
  /\ EmitEvent("remove")
  /\ UNCHANGED <<used, rows, connected, queue, tasks, fails>>

(***************************************************************************)
(* The event stream: dispatch blocks on a full channel; what is on a       *)
(* stream that ends, and what happens before the next one, is lost.        *)
(***************************************************************************)
\* Mutant: a channel without a bound.
DispatchUnbounded ==
  /\ wire > 0
  /\ wire' = wire - 1 /\ queue' = queue + 1
  /\ UNCHANGED <<podman, rows, connected, tasks, fails>>

Dispatch ==
  /\ wire > 0 /\ queue < QueueCap
  /\ wire' = wire - 1 /\ queue' = queue + 1
  /\ UNCHANGED <<podman, rows, connected, tasks, fails>>

MayFail == fails < MaxFails /\ fails' = fails + 1

StreamEnds ==
  /\ connected /\ connected' = FALSE /\ wire' = 0 /\ MayFail
  /\ UNCHANGED <<podman, rows, queue, tasks>>

StreamReconnects ==
  /\ ~connected /\ connected' = TRUE
  /\ UNCHANGED <<podman, rows, wire, queue, tasks, fails>>

(***************************************************************************)
(* reconcile_once.                                                         *)
(***************************************************************************)
Begin(t) ==
  /\ phase[t] = "idle" /\ phase' = [phase EXCEPT ![t] = "list"]
  /\ IF t = "trigger" THEN queue > 0 /\ queue' = queue - 1 ELSE UNCHANGED queue
  /\ UNCHANGED <<podman, rows, connected, wire, uninspected, desired, current, fails>>

ListContainers(t) ==
  /\ phase[t] = "list" /\ phase' = [phase EXCEPT ![t] = "inspect"]
  /\ uninspected' = [uninspected EXCEPT ![t] = DOMAIN containers]
  /\ desired' = [desired EXCEPT ![t] = <<>>]
  /\ UNCHANGED <<podman, rows, events, current, fails>>

\* Mutant: stopped containers are not described.
InspectRunning(t, c) ==
  /\ phase[t] = "inspect" /\ c \in uninspected[t]
  /\ uninspected' = [uninspected EXCEPT ![t] = @ \ {c}]
  /\ IF c \in DOMAIN containers /\ Endpoints(c) # {} /\ containers[c].state = "running"
     THEN \E e \in Endpoints(c) : desired' = [desired EXCEPT ![t] = With(@, c, e)]
     ELSE UNCHANGED desired
  /\ UNCHANGED <<podman, rows, events, phase, current, fails>>

\* A container removed since the list, or on no managed network, is left out.
InspectOne(t, c) ==
  /\ phase[t] = "inspect" /\ c \in uninspected[t]
  /\ uninspected' = [uninspected EXCEPT ![t] = @ \ {c}]
  /\ IF c \in DOMAIN containers /\ Endpoints(c) # {}
     THEN \E e \in Endpoints(c) : desired' = [desired EXCEPT ![t] = With(@, c, e)]
     ELSE UNCHANGED desired
  /\ UNCHANGED <<podman, rows, events, phase, current, fails>>

\* A failed inspect is logged and its container left out like a removed one.
InspectSkips(t, c) ==
  /\ Skips /\ phase[t] = "inspect" /\ c \in uninspected[t] /\ c \in DOMAIN containers
  /\ MayFail
  /\ uninspected' = [uninspected EXCEPT ![t] = @ \ {c}]
  /\ UNCHANGED <<podman, rows, events, phase, desired, current>>

snapshot_for_host(t) ==
  /\ phase[t] = "inspect" /\ uninspected[t] = {}
  /\ phase' = [phase EXCEPT ![t] = "apply"]
  /\ current' = [current EXCEPT ![t] = rows]
  /\ UNCHANGED <<podman, rows, events, uninspected, desired, fails>>

\* Mutant: a difference in health alone is no difference.
DiffBlindToHealth(want, have) ==
  [upsert |-> {c \in DOMAIN want :
                 c \notin DOMAIN have \/ [want[c] EXCEPT !.health = have[c].health] # have[c]},
   delete |-> DOMAIN have \ DOMAIN want]

diff(want, have) ==
  [upsert |-> {c \in DOMAIN want : c \notin DOMAIN have \/ want[c] # have[c]},
   delete |-> DOMAIN have \ DOMAIN want]

build_statements(want, deltas) ==
  [c \in (DOMAIN rows \cup deltas.upsert) \ deltas.delete |->
     IF c \in deltas.upsert THEN want[c] ELSE rows[c]]

Idle(t) ==
  /\ phase' = [phase EXCEPT ![t] = "idle"] /\ uninspected' = [uninspected EXCEPT ![t] = {}]
  /\ desired' = [desired EXCEPT ![t] = <<>>] /\ current' = [current EXCEPT ![t] = <<>>]

transaction(t) ==
  /\ phase[t] = "apply"
  /\ rows' = build_statements(desired[t], diff(desired[t], current[t]))
  /\ Idle(t)
  /\ UNCHANGED <<podman, events, fails>>

\* A call to Podman or Corrosion fails: the reconcile ends; the tasks log it
\* and go on with the next event or tick.
ReconcileFails(t) ==
  /\ phase[t] \in {"list", "inspect", "apply"} /\ MayFail /\ Idle(t)
  /\ UNCHANGED <<podman, rows, events>>

\* coold restarts: its rows stay in Corrosion, its queues are gone.
Restart ==
  /\ MayFail /\ connected' = FALSE /\ wire' = 0 /\ queue' = 0
  /\ phase' = [t \in Reconcilers |-> "idle"] /\ uninspected' = [t \in Reconcilers |-> {}]
  /\ desired' = [t \in Reconcilers |-> <<>>] /\ current' = [t \in Reconcilers |-> <<>>]
  /\ UNCHANGED <<podman, rows>>

PodmanSteps ==
  \E c \in ContainerIds :
    Create(c) \/ StartContainer(c) \/ StopContainer(c) \/ HealthChanges(c) \/ RemoveContainer(c)

reconcile_once(t) ==
  \/ ListContainers(t) \/ snapshot_for_host(t) \/ transaction(t)
  \/ \E c \in ContainerIds : InspectOne(t, c)

Faults ==
  \/ StreamEnds \/ Restart
  \/ \E t \in Reconcilers : ReconcileFails(t) \/ \E c \in ContainerIds : InspectSkips(t, c)

EndpointNext ==
  \/ PodmanSteps \/ Dispatch \/ StreamReconnects \/ Faults
  \/ \E t \in Reconcilers : Begin(t) \/ reconcile_once(t)

EndpointSpec == EndpointInit /\ [][EndpointNext]_endpointVars

\* Every task is scheduled: the ticker of run_reconcile_loop fires for ever,
\* run_event_trigger takes what is queued, and a begun reconcile goes on.
EndpointFairness ==
  /\ \A t \in Reconcilers : WF_endpointVars(Begin(t)) /\ WF_endpointVars(reconcile_once(t))
  /\ WF_endpointVars(Dispatch)

EndpointFairSpec == EndpointSpec /\ EndpointFairness

(***************************************************************************)
(* The resolver.  A name is the sequence of its labels, without the zone.  *)
(***************************************************************************)

\* query_endpoints_by_name selects rows that are running, and healthy or without
\* a health check.
Routable(e) == e.state = "running" /\ e.health \in {"healthy", "unknown"}

lookup(container, n) ==
  {<<c, rows[c].ip>> : c \in {k \in DOMAIN rows :
                                Name[k] = container /\ rows[k].ns = n /\ Routable(rows[k])}}

\* The two leftmost labels, in lower case.
container_and_namespace(labels) == <<<<Lower[labels[1]]>>, Lower[labels[2]]>>

answer_internal(container, n, qtype) ==
  LET ips == lookup(container, n) IN
  IF qtype # "A" THEN [code |-> "NoError", ips |-> {}]
  ELSE IF ips = {} THEN [code |-> "NXDomain", ips |-> {}]
  ELSE [code |-> "NoError", ips |-> ips]

\* A query in the zone; any other is forwarded upstream.
handle_request(labels, qtype) ==
  IF Len(labels) < 2 THEN [code |-> "NXDomain", ips |-> {}]
  ELSE LET q == container_and_namespace(labels) IN answer_internal(q[1], q[2], qtype)

\* What the answer for the name of a container should be.
Serving(name, n) ==
  {<<c, containers[c].ip>> : c \in {k \in DOMAIN containers :
                                  Name[k] = name /\ n \in containers[k].nets /\ Routable(containers[k])}}

(***************************************************************************)
(* Properties.                                                             *)
(***************************************************************************)

\* Type invariant: rows are of containers that exist or existed, the trigger queue
\* keeps its bound, and a task has inspections left only while it inspects.
EndpointTypeOK ==
  /\ DOMAIN containers \subseteq used
  /\ DOMAIN rows \subseteq used /\ \A c \in DOMAIN rows : rows[c] \in Endpoint
  /\ queue \in 0..QueueCap
  /\ \A t \in Reconcilers : (uninspected[t] # {} => phase[t] = "inspect") /\ DOMAIN current[t] \subseteq used

\* Once the containers stop changing, the resolver's answers come to be, and
\* stay, the addresses of the containers that serve: whatever the two tasks of
\* reconcile_once overwrote of each other, and whatever the stream lost.
AnswersSettle ==
  <>[](\A c \in ContainerIds, n \in Namespaces :
         LET answer == handle_request(Append(Name[c], n), "A") IN
         /\ answer.ips = Serving(Name[c], n)
         /\ answer.code = "NXDomain" <=> Serving(Name[c], n) = {})

\* A container that has a row keeps one, running or not, until it is removed:
\* desired_endpoints "keep[s] reporting its state until removal".
KeptUntilRemoved ==
  [][\A c \in DOMAIN rows \cap DOMAIN containers : c \in DOMAIN rows']_endpointVars

\* A container attached to two managed networks keeps the namespace its row
\* was given: in desired_endpoints "the first namespace wins".
FirstNamespaceWins ==
  [][\A c \in DOMAIN rows \cap DOMAIN rows' : rows'[c].ns = rows[c].ns]_endpointVars
=============================================================================

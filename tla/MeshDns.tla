------------------------------- MODULE MeshDns -------------------------------
(***************************************************************************)
(* What keeps a namespace's DNS reachable on a host.  Netavark gives the   *)
(* bridge of a Podman network its gateway address while a container is     *)
(* attached; coold runs one bind/serve loop per gateway (dns/server.rs)    *)
(* and a host-infrastructure loop that keeps an anchor container running   *)
(* on each network (mesh_dns_anchor.rs) and points systemd-resolved at the *)
(* gateway (mesh_dns_resolver.rs).  The settings of a link go with it.     *)
(***************************************************************************)
EXTENDS Naturals, Sequences

CONSTANTS
  Gateways,    \* namespaces with a gateway address, in the order of the configuration
  MaxChanges,  \* bound on what containers, and other daemons on port 53, do
  MaxFails     \* bound on commands that fail and on servers that end

Networks == {Gateways[i] : i \in DOMAIN Gateways}

DnsConstants == MaxChanges \in Nat /\ MaxFails \in Nat

VARIABLES
  anchor,   \* the anchor container of a namespace is running
  guests,   \* another container of the network is running
  route,    \* resolved sends the zone to the bridge
  squat,    \* another process holds port 53 of the gateway
  loop,     \* a bind/serve loop: "build", "serving", "backoff", "failed" or "done"
  infra,    \* what the host-infrastructure loop has left to do in this tick
  up,       \* coold runs
  changes, fails

vars == <<anchor, guests, route, squat, loop, infra, up, changes, fails>>

Bridge(n) == anchor[n] \/ guests[n]

Init ==
  /\ anchor = [n \in Networks |-> FALSE] /\ guests = [n \in Networks |-> FALSE]
  /\ route = [n \in Networks |-> FALSE] /\ squat = [n \in Networks |-> FALSE]
  /\ loop = [n \in Networks |-> "build"] /\ infra = <<>> /\ up = TRUE
  /\ changes = 0 /\ fails = 0

Fails == fails < MaxFails /\ fails' = fails + 1

(***************************************************************************)
(* The host: containers come and go, and with the last one of a network    *)
(* its bridge and the route; a host DNS daemon may take the port.          *)
(***************************************************************************)
Change == changes < MaxChanges /\ changes' = changes + 1 /\ UNCHANGED <<loop, infra, up, fails>>

RouteIf(a, g) == [n \in Networks |-> route[n] /\ (a[n] \/ g[n])]

GuestChanges(n) ==
  /\ Change /\ guests' = [guests EXCEPT ![n] = ~@]
  /\ route' = RouteIf(anchor, guests') /\ UNCHANGED <<anchor, squat>>

AnchorStops(n) ==
  /\ Change /\ anchor[n] /\ anchor' = [anchor EXCEPT ![n] = FALSE]
  /\ route' = RouteIf(anchor', guests) /\ UNCHANGED <<guests, squat>>

Squat(n) ==
  /\ Change /\ ~squat[n] /\ loop[n] # "serving" /\ squat' = [squat EXCEPT ![n] = TRUE]
  /\ UNCHANGED <<anchor, guests, route>>

Vacate(n) ==
  /\ squat[n] /\ squat' = [squat EXCEPT ![n] = FALSE]
  /\ UNCHANGED <<anchor, guests, route, loop, infra, up, changes, fails>>

(***************************************************************************)
(* run_for_gateway and try_serve.                                          *)
(***************************************************************************)
Goes(n, s) == loop' = [loop EXCEPT ![n] = s]
Env == <<anchor, guests, route, squat, infra, up, changes>>

\* Mutant: an address that is not there ends the loop like any other error.
BindOrFail(n) ==
  /\ up /\ loop[n] = "build"
  /\ Goes(n, IF Bridge(n) /\ ~squat[n] THEN "serving" ELSE "failed")
  /\ UNCHANGED <<Env, fails>>

\* Both sockets are bound or neither stays; EADDRNOTAVAIL without the bridge and
\* EADDRINUSE with a squatter are retried.
Bind(n) ==
  /\ up /\ loop[n] = "build"
  /\ Goes(n, IF Bridge(n) /\ ~squat[n] THEN "serving" ELSE "backoff")
  /\ UNCHANGED <<Env, fails>>

\* The sleep of the backoff, 1 s doubled up to 30 s, is over.
Retry(n) ==
  /\ up /\ loop[n] = "backoff" /\ Goes(n, "build")
  /\ UNCHANGED <<Env, fails>>

\* An error that is_retryable_io does not name: the loop returns it.
BindFatal(n) ==
  /\ up /\ loop[n] = "build" /\ Fails /\ Goes(n, "failed")
  /\ UNCHANGED Env

\* The server future ends: with an error of the retried kinds, with another one, or
\* cleanly, and then the loop returns Ok.
ServeEnds(n) ==
  /\ up /\ loop[n] = "serving" /\ Fails
  /\ \E s \in {"backoff", "failed", "done"} : Goes(n, s)
  /\ UNCHANGED Env

\* dns::run awaits the loops one after the other: it goes on after a clean end,
\* returns the first error it comes to, and returns when none is left.  Either end
\* is the end of the daemon.
RunEnds ==
  /\ up /\ up' = FALSE
  /\ LET Done(i) == loop[Gateways[i]] = "done" IN
     \/ \A i \in DOMAIN Gateways : Done(i)
     \/ \E i \in DOMAIN Gateways : loop[Gateways[i]] = "failed" /\ \A j \in 1..i-1 : Done(j)
  /\ UNCHANGED <<anchor, guests, route, squat, loop, infra, changes, fails>>

\* systemd starts coold again.
Restart ==
  /\ ~up /\ up' = TRUE /\ infra' = <<>>
  /\ loop' = [n \in Networks |-> "build"]
  /\ UNCHANGED <<anchor, guests, route, squat, changes, fails>>

(***************************************************************************)
(* host_infra::run.                                                        *)
(***************************************************************************)

\* A tick: all the anchors, then all the routes.
Tick ==
  /\ up /\ infra = <<>>
  /\ infra' = [i \in DOMAIN Gateways |-> <<"anchor", Gateways[i]>>]
              \o [i \in DOMAIN Gateways |-> <<"route", Gateways[i]>>]
  /\ UNCHANGED <<anchor, guests, route, squat, loop, up, changes, fails>>

\* anchor_is_running, else `podman run --replace`.
ReconcileAnchor ==
  /\ up /\ infra # <<>> /\ Head(infra)[1] = "anchor" /\ infra' = Tail(infra)
  /\ anchor' = [anchor EXCEPT ![Head(infra)[2]] = TRUE]
  /\ UNCHANGED <<guests, route, squat, loop, up, changes, fails>>

\* resolvectl dns, domain and default-route on the bridge, which must be there.
ReconcileRoute ==
  /\ up /\ infra # <<>> /\ Head(infra)[1] = "route" /\ infra' = Tail(infra)
  /\ route' = [route EXCEPT ![Head(infra)[2]] = @ \/ Bridge(Head(infra)[2])]
  /\ UNCHANGED <<anchor, guests, squat, loop, up, changes, fails>>

\* A command fails: it is logged, and the next namespace is next.
ReconcileFails ==
  /\ up /\ infra # <<>> /\ Fails /\ infra' = Tail(infra)
  /\ UNCHANGED <<anchor, guests, route, squat, loop, up, changes>>

Infra == Tick \/ ReconcileAnchor \/ ReconcileRoute

Next ==
  \/ \E n \in Networks :
       \/ GuestChanges(n) \/ AnchorStops(n) \/ Squat(n) \/ Vacate(n)
       \/ Bind(n) \/ Retry(n) \/ BindFatal(n) \/ ServeEnds(n)
  \/ RunEnds \/ Restart \/ Infra \/ ReconcileFails

Spec == Init /\ [][Next]_vars

\* Timers fire, the scheduler runs every task, and systemd restarts coold.
Fairness ==
  /\ WF_vars(Infra) /\ WF_vars(RunEnds) /\ WF_vars(Restart)
  /\ \A n \in Networks : WF_vars(Bind(n)) /\ WF_vars(Retry(n))

FairSpec == Spec /\ Fairness

(***************************************************************************)
(* Properties.                                                             *)
(***************************************************************************)

\* The loop of n has returned, and dns::run still waits for another one.
Unnoticed(n) ==
  /\ up /\ loop[n] \in {"failed", "done"}
  /\ \E m \in Networks : loop[m] \notin {"failed", "done"}

\* A namespace whose port 53 is left to coold comes to have a bridge, a server on
\* its gateway and a route from the host, and keeps them once containers and errors
\* leave it alone: the loops heal each other's preconditions, and a namespace whose
\* port another daemon holds for good does not keep the others from healing.  The
\* exception is a loop that has returned without dns::run noticing.
DnsHeals ==
  \A n \in Networks :
     <>[]~squat[n] => \/ <>[](Bridge(n) /\ route[n] /\ up /\ loop[n] = "serving")
                      \/ <>[]Unnoticed(n)

\* "First failure takes the whole task down so systemd restarts coold": a loop that
\* has failed takes the daemon down.
FailureIsNoticed == \A n \in Networks : loop[n] = "failed" ~> ~up
==============================================================================

------------------------------ MODULE Firewall ------------------------------
(***************************************************************************)
(* The allow rules of a host (coold/src/grpc/handlers.rs): firewall.allow, *)
(* firewall.revoke and firewall.reconcile, the rule ingress.apply adds for *)
(* Caddy, and the unit that restores the rules at boot                     *)
(* (coolify-cli/src/wireguard/firewall.rs).                                *)
(*                                                                         *)
(* Three files hold the rules coold knows: its own state, and a snapshot   *)
(* for each of the two kernel planes, iptables and the nft bridge table.   *)
(* A handler is a program: a sequence of file operations and commands, one *)
(* step each, that stops at the first that fails; `left` counts the steps  *)
(* still to do.  fs::write truncates and then fills.  Handlers run in      *)
(* tasks of their own and take no lock.                                    *)
(* A plane is the set of rules that match, however often each is in it.    *)
(***************************************************************************)
EXTENDS Integers, Sequences, FiniteSets

CONSTANTS
  FwRequests,  \* commands Laravel sends
  Ids,         \* rule ids
  Names,       \* what a rule may name as its destination
  Rows,        \* addresses service_endpoints may hold for a name
  Inspected,   \* the address podman gives for a name, or NoAddress
  NoAddress,
  Caddys,      \* addresses the Caddy container may be given, or {} without ingress
  Serial,      \* whether Laravel waits for an answer before it sends the next command
  MaxFwFaults, \* bound on failing operations and on kills of coold
  MaxBoots     \* bound on reboots and on restarts of the firewall unit

ASSUME FirewallConstants ==
  /\ Serial \in BOOLEAN /\ MaxFwFaults \in Nat /\ MaxBoots \in Nat
  /\ \A n \in Names : n \in DOMAIN Rows /\ n \in DOMAIN Inspected

VARIABLES
  disk,        \* the three files, each a set of rules
  blank,       \* files that are absent or empty; an empty set of rules still has a header
  plane,       \* the two kernel planes
  cmd,         \* what a request asks for
  arg,         \* its rule, or the id of one, or the address Caddy will get
  left,        \* how many steps of its program are left, 0 when it has ended
  rules,       \* the list it has loaded
  begun,       \* requests that have been received
  caddyAddr,   \* the Caddy container's address, or NoAddress
  fwFaults, boots,
  allowed,     \* history: rules reported allowed and not revoked or replaced since
  gone,        \* history: ids reported revoked, and not allowed again
  fresh,       \* history: the last request ended was a reconcile, or a revoke, that succeeded
  served       \* history: ingress.apply has reported success, and no stop since

firewallVars == <<disk, blank, plane, cmd, arg, left, rules, begun, caddyAddr, fwFaults, boots,
                  allowed, gone, fresh, served>>

Files == {"state", "iptables", "nft"}
Planes == {"iptables", "nft"}
Addresses == {Inspected[n] : n \in Names} \cup (UNION (UNION {Rows[n] : n \in Names}))
Rule == [id : Ids, dst : Addresses]
CaddyRule(ip) == [caddy |-> ip]
CaddyRules == {CaddyRule(ip) : ip \in Caddys}
NoRequest == \A r \in FwRequests : left[r] = 0
Alone(r) == \A q \in FwRequests : q # r => left[q] = 0

FwInit ==
  /\ disk = [f \in Files |-> {}] /\ blank = Files /\ plane = [p \in Planes |-> {}]
  /\ cmd = [r \in FwRequests |-> "none"] /\ arg = [r \in FwRequests |-> 0]
  /\ left = [r \in FwRequests |-> 0] /\ rules = [r \in FwRequests |-> {}]
  /\ begun = {} /\ caddyAddr = NoAddress /\ fwFaults = 0 /\ boots = 0
  /\ allowed = {} /\ gone = {} /\ fresh = FALSE /\ served = FALSE

----------------------------------------------------------------------------
(* The programs.                                                           *)

save_firewall_rules == << <<"truncate", "state">>, <<"fill", "state">>,
                          <<"truncate", "iptables">>, <<"fill", "iptables">>,
                          <<"truncate", "nft">>, <<"fill", "nft">> >>
apply_firewall_rule == << <<"insert", "iptables">>, <<"insert", "nft">> >>
firewall_allow == << <<"load", "put">> >> \o save_firewall_rules \o apply_firewall_rule
\* Mutant: the bridge plane is not reloaded.
ReconcileIptables == << <<"load", "all">> >> \o save_firewall_rules
                       \o << <<"flush", "iptables">>, <<"restore", "iptables">> >>
firewall_reconcile ==
  << <<"load", "all">> >> \o save_firewall_rules
    \o << <<"flush", "iptables">>, <<"restore", "iptables">>, <<"flush", "nft">>, <<"restore", "nft">> >>
firewall_revoke == << <<"load", "drop">> >> \o save_firewall_rules \o firewall_reconcile
\* start_or_reload_caddy and ensure_caddy_mesh_firewall.
ApplyCaddy == << <<"remove", "caddy">>, <<"start", "caddy">>, <<"ensure", "iptables">>, <<"ensure", "nft">> >>

Program(c) == CASE c = "allow" -> firewall_allow
                [] c = "revoke" -> firewall_revoke
                [] c = "reconcile" -> firewall_reconcile
                [] c = "ingress" -> ApplyCaddy

----------------------------------------------------------------------------
(* Receiving a command.                                                    *)

\* The requests are interchangeable, so they are taken in one order.
Accept(r, c, a) ==
  /\ begun # FwRequests /\ r = CHOOSE q \in FwRequests : q \notin begun
  /\ Serial => NoRequest
  /\ begun' = begun \cup {r}
  /\ cmd' = [cmd EXCEPT ![r] = c] /\ arg' = [arg EXCEPT ![r] = a]
  /\ left' = [left EXCEPT ![r] = Len(Program(c))]
  /\ fresh' = FALSE
  /\ UNCHANGED <<disk, blank, plane, rules, caddyAddr, fwFaults, boots, served>>

\* resolve_firewall_endpoint: the one address the endpoint rows give, or the
\* container's own when they give none; several are an error.
firewall_endpoint_ip(name, ips) ==
  IF ips = {} THEN {Inspected[name]} \ {NoAddress}
  ELSE IF Cardinality(ips) = 1 THEN ips ELSE {}

Allow(r, id, name) ==
  \E ips \in Rows[name] : \E ip \in firewall_endpoint_ip(name, ips) :
     /\ Accept(r, "allow", [id |-> id, dst |-> ip])
     /\ allowed' = {x \in allowed : x.id # id} /\ gone' = gone \ {id}

Revoke(r, id) ==
  /\ Accept(r, "revoke", id)
  /\ allowed' = {x \in allowed : x.id # id} /\ UNCHANGED gone

ReconcileRules(r) == Accept(r, "reconcile", 0) /\ UNCHANGED <<allowed, gone>>

IngressApply(r) ==
  \E ip \in Caddys : Accept(r, "ingress", ip) /\ UNCHANGED <<allowed, gone>>

\* stop_caddy_ingress: the container goes, its rules stay.
IngressStop ==
  /\ NoRequest /\ caddyAddr # NoAddress /\ caddyAddr' = NoAddress /\ served' = FALSE
  /\ UNCHANGED <<disk, blank, plane, cmd, arg, left, rules, begun, fwFaults, boots, allowed, gone, fresh>>

----------------------------------------------------------------------------
(* Steps of a program.                                                     *)

Doing(r, op) ==
  left[r] > 0 /\ LET p == Program(cmd[r]) IN p[Len(p) + 1 - left[r]] = op
Onward(r) == left' = [left EXCEPT ![r] = @ - 1]
Returns(r) == left' = [left EXCEPT ![r] = 0]

\* What the last step of a program reports.
Report(r) ==
  IF left[r] > 1 THEN UNCHANGED <<allowed, gone, fresh, served>>
  ELSE /\ allowed' = IF cmd[r] = "allow" THEN allowed \cup {arg[r]} ELSE allowed
       /\ gone' = IF cmd[r] = "revoke" THEN gone \cup {arg[r]} ELSE gone
       /\ fresh' = (cmd[r] \in {"revoke", "reconcile"} /\ Alone(r))
       /\ served' = (served \/ cmd[r] = "ingress")

LoadRules(r) ==
  /\ \/ Doing(r, <<"load", "all">>) /\ rules' = [rules EXCEPT ![r] = disk["state"]]
     \/ /\ Doing(r, <<"load", "put">>)
        /\ rules' = [rules EXCEPT ![r] =
                        {x \in disk["state"] : x.id # arg[r].id} \cup {arg[r]}]
     \/ /\ Doing(r, <<"load", "drop">>)
        /\ \E x \in disk["state"] : x.id = arg[r]
        /\ rules' = [rules EXCEPT ![r] = {x \in disk["state"] : x.id # arg[r]}]
  /\ Onward(r)
  /\ UNCHANGED <<disk, blank, plane, cmd, arg, begun, caddyAddr, fwFaults, boots, allowed, gone, fresh, served>>

\* firewall_revoke: no such rule, an error.
RevokeUnknown(r) ==
  /\ Doing(r, <<"load", "drop">>) /\ \A x \in disk["state"] : x.id # arg[r]
  /\ Returns(r)
  /\ UNCHANGED <<disk, blank, plane, cmd, arg, rules, begun, caddyAddr, fwFaults, boots, allowed, gone, fresh,
                 served>>

\* fs::write.  Mutant: the snapshot of iptables is left as it was.
FillStateAndNft(r, f) ==
  /\ \/ Doing(r, <<"truncate", f>>) /\ UNCHANGED <<disk, blank>>
     \/ /\ Doing(r, <<"fill", f>>) /\ UNCHANGED blank
        /\ disk' = IF f = "iptables" THEN disk ELSE [disk EXCEPT ![f] = rules[r]]
  /\ Onward(r)
  /\ UNCHANGED <<plane, cmd, arg, rules, begun, caddyAddr, fwFaults, boots, allowed, gone, fresh, served>>
WriteFile(r, f) ==
  /\ \/ /\ Doing(r, <<"truncate", f>>) /\ disk' = [disk EXCEPT ![f] = {}]
        /\ blank' = blank \cup {f}
     \/ /\ Doing(r, <<"fill", f>>) /\ disk' = [disk EXCEPT ![f] = rules[r]]
        /\ blank' = blank \ {f}
  /\ Onward(r)
  /\ UNCHANGED <<plane, cmd, arg, rules, begun, caddyAddr, fwFaults, boots, allowed, gone, fresh, served>>

\* iptables and nft commands.  Caddy's rule is looked for before it is added.
KernelCommand(r, p) ==
  /\ \/ Doing(r, <<"insert", p>>) /\ plane' = [plane EXCEPT ![p] = @ \cup {arg[r]}]
     \/ Doing(r, <<"flush", p>>) /\ plane' = [plane EXCEPT ![p] = {}]
     \/ Doing(r, <<"restore", p>>) /\ plane' = [plane EXCEPT ![p] = @ \cup disk[p]]
     \/ Doing(r, <<"ensure", p>>) /\ plane' = [plane EXCEPT ![p] = @ \cup {CaddyRule(caddyAddr)}]
  /\ Report(r)
  /\ Onward(r)
  /\ UNCHANGED <<disk, blank, cmd, arg, rules, begun, caddyAddr, fwFaults, boots>>

\* podman rm -f of a container that exists, then podman run --replace: the
\* address is the network's choice.
RunCaddy(r) ==
  /\ \/ Doing(r, <<"remove", "caddy">>) /\ caddyAddr' = NoAddress /\ served' = FALSE
     \/ Doing(r, <<"start", "caddy">>) /\ caddyAddr' = arg[r] /\ UNCHANGED served
  /\ Onward(r)
  /\ UNCHANGED <<disk, blank, plane, cmd, arg, rules, begun, fwFaults, boots, allowed, gone, fresh>>

\* A step fails and the handler returns its error.
HandlerFails(r) ==
  /\ left[r] > 0 /\ fwFaults < MaxFwFaults /\ fwFaults' = fwFaults + 1
  /\ Returns(r)
  /\ UNCHANGED <<disk, blank, plane, cmd, arg, rules, begun, caddyAddr, boots, allowed, gone, fresh, served>>

\* coold is killed.
Kill ==
  /\ ~NoRequest /\ fwFaults < MaxFwFaults /\ fwFaults' = fwFaults + 1
  /\ left' = [r \in FwRequests |-> 0]
  /\ UNCHANGED <<disk, blank, plane, cmd, arg, rules, begun, caddyAddr, boots, allowed, gone, fresh, served>>

\* coolify-mesh-fw.service, started at boot on empty planes, or restarted by
\* `coolify init apply`: it flushes iptables' chain before it restores a
\* snapshot that is not blank, and only adds to the bridge chain.
firewall_service_unit(kernel) ==
  [iptables |-> IF "iptables" \in blank THEN kernel["iptables"] ELSE disk["iptables"],
   nft |-> kernel["nft"] \cup disk["nft"]]

Reboot ==
  /\ NoRequest /\ boots < MaxBoots /\ boots' = boots + 1
  /\ plane' = firewall_service_unit([p \in Planes |-> {}])
  /\ UNCHANGED <<disk, blank, cmd, arg, left, rules, begun, caddyAddr, fwFaults, allowed, gone, fresh, served>>

UnitRestarts ==
  /\ NoRequest /\ boots < MaxBoots /\ boots' = boots + 1
  /\ plane' = firewall_service_unit(plane)
  /\ UNCHANGED <<disk, blank, cmd, arg, left, rules, begun, caddyAddr, fwFaults, allowed, gone, fresh, served>>

FwNext ==
  \/ \E r \in FwRequests :
       \/ \E id \in Ids : (\E n \in Names : Allow(r, id, n)) \/ Revoke(r, id)
       \/ ReconcileRules(r) \/ IngressApply(r)
       \/ LoadRules(r) \/ RevokeUnknown(r) \/ RunCaddy(r) \/ HandlerFails(r)
       \/ \E f \in Files : WriteFile(r, f)
       \/ \E p \in Planes : KernelCommand(r, p)
  \/ IngressStop \/ Kill \/ Reboot \/ UnitRestarts

FwSpec == FwInit /\ [][FwNext]_firewallVars

----------------------------------------------------------------------------

FromState(p) == plane[p] \ CaddyRules

(* A rule reported allowed, and neither revoked nor replaced since, is in   *)
(* coold's state, in both snapshots and in both planes, through reboots.    *)
AllowedIsEnforced ==
  NoRequest => \A x \in allowed : /\ \A f \in Files : x \in disk[f]
                             /\ \A p \in Planes : x \in plane[p]

(* An id reported revoked is in no plane, also when the rule had been       *)
(* allowed twice with different addresses before.                           *)
RevokedIsGone ==
  NoRequest => \A id \in gone, p \in Planes : \A x \in FromState(p) : x.id # id

(* As long as no operation fails and coold is not killed, the rules are what *)
(* the answers said: AllowedIsEnforced and RevokedIsGone.                   *)
RulesAsAnswered == fwFaults = 0 => AllowedIsEnforced /\ RevokedIsGone

(* However the planes and the files had come apart, by failures, kills or   *)
(* replaced rules, a reconcile or a revoke that succeeds brings both planes *)
(* to exactly the rules coold knows.                                        *)
ReconcileHeals == (NoRequest /\ fresh) => \A p \in Planes : FromState(p) = disk["state"]

(* "Every mutation must write two kernel planes atomically": between        *)
(* requests the two planes hold the same rules.                             *)
PlanesAgree == NoRequest => FromState("iptables") = FromState("nft")

(* Snapshot writes are atomic: a kill of coold in the middle of a request   *)
(* leaves every rule that was allowed before in coold's state.              *)
SnapshotSurvives == NoRequest => allowed \subseteq disk["state"]

(* Once ingress.apply has reported success, Caddy reaches the containers of *)
(* the mesh until it is stopped: its rule is in both planes.                *)
IngressReaches == (NoRequest /\ served) => \A p \in Planes : CaddyRule(caddyAddr) \in plane[p]

=============================================================================

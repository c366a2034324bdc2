------------------------------ MODULE MeshPlan ------------------------------
(***************************************************************************)
(* The planner of `coolify init` (coolify-cli/src/wireguard): what a probe *)
(* of a host reports, the actions that would bring it to the desired mesh  *)
(* (plan.rs), and the ones each intent lets through (intent.rs).           *)
(*                                                                         *)
(* A content hash is modelled by the content.  Hosts and namespaces are    *)
(* numbers.  Every host of the list is a deployment node, and Podman and   *)
(* coold are always part of the mesh (build_desired).  Listen ports and    *)
(* endpoints never change here and are left out.  WriteCorrosionSchema     *)
(* with the detail "DB will be reset" is a type of its own.                *)
(***************************************************************************)
EXTENDS Subnets

CONSTANTS MgmtPool, ContainerPool, ContainerPrefix

NoKey == 0
NoIp == -1
NoVersion == "none"
NoUnit == [none |-> TRUE]
Moving == {"nightly", "latest"}
HostActions ==
  {"InstallWg", "GenKeyPair", "AddPeer", "RemovePeer", "WriteConfig", "EnableService",
   "ReloadService", "InstallPodman", "EnablePodmanSocket", "EnableIpForward",
   "InstallFirewall", "InstallCorrosion", "InstallCoold", "WriteCorrosionConfig",
   "WriteCorrosionSchema", "ResetCorrosionSchema", "InstallCorrosionService",
   "InstallCooldService"}

\* What a host of which nothing is known looks like (ServerState::default).
DefaultView ==
  [installed |-> FALSE, key |-> NoKey, ip |-> NoIp, peers |-> {}, active |-> FALSE,
   podman |-> {}, nft |-> FALSE, nets |-> <<>>, fw |-> NoUnit,
   corrosion |-> NoVersion, corrCfg |-> NoUnit, schema |-> NoVersion, corrActive |-> FALSE,
   coold |-> NoVersion, unit |-> NoUnit, cooldActive |-> FALSE]

View(cur, h) == IF h \in DOMAIN cur THEN cur[h] ELSE DefaultView

assigned_mgmt_ips(cur) == [h \in {g \in DOMAIN cur : cur[g].ip # NoIp} |-> cur[h].ip]

assigned_container_subnets(cur) ==
  LET keys == {Key(ns, h) : ns \in 1..KeyBase - 1, h \in DOMAIN cur}
      held == {k \in keys : k \div KeyBase \in DOMAIN cur[k % KeyBase].nets}
      network(k) == cur[k % KeyBase].nets[k \div KeyBase]
  IN [k \in held |-> [addr |-> network(k).addr, len |-> network(k).len]]

-----------------------------------------------------------------------------
(* What the program generates for a host: from d, the addresses and the keys. *)

Others(d, h) == ToSet(d.hosts) \ {h}
Subnet(nets, ns, h) == nets[Key(ns, h)]
HostSubnets(d, nets, h) == {Subnet(nets, ns, h) : ns \in ToSet(d.ns)}

firewall_service_unit(d, nets, h) == [nets |-> HostSubnets(d, nets, h), deny |-> d.deny]
corrosion_config(d, mgmt, h) == [ip |-> mgmt[h], peers |-> {mgmt[p] : p \in Others(d, h)}]
coold_unit(d, mgmt, nets, h) ==
  [ip |-> mgmt[h], tls |-> d.tls,
   gw |-> [ns \in ToSet(d.ns) |-> MachineIp(Subnet(nets, ns, h))]]

binary_version_drift(want, have) == have = NoVersion \/ want \in Moving \/ have # want

-----------------------------------------------------------------------------
(* build_plan, for one host whose probe reported s.                         *)

DesiredKeys(d, cur, h) == {View(cur, p).key : p \in Others(d, h)} \ {NoKey}
PeerKeyPending(d, cur, h) == \E p \in Others(d, h) : View(cur, p).key = NoKey

NeedsConfig(d, cur, mgmt, h) ==
  LET s == View(cur, h)
  IN \/ s.ip # mgmt[h]
     \/ ~(DesiredKeys(d, cur, h) \subseteq s.peers)
     \/ PeerKeyPending(d, cur, h)
     \/ s.key = NoKey
     \/ ~s.installed

WireGuardNeeds(d, cur, mgmt, h, t) ==
  LET s == View(cur, h)
  IN CASE t = "InstallWg" -> ~s.installed
       [] t = "GenKeyPair" -> s.key = NoKey
       [] t = "AddPeer" -> ~(DesiredKeys(d, cur, h) \subseteq s.peers)
       [] t = "RemovePeer" -> ~(s.peers \subseteq DesiredKeys(d, cur, h))
       [] t = "WriteConfig" -> NeedsConfig(d, cur, mgmt, h)
       [] t = "EnableService" -> ~s.active
       [] t = "ReloadService" -> s.active /\ NeedsConfig(d, cur, mgmt, h)
       [] OTHER -> FALSE

PodmanNeeds(d, cur, nets, h, t) ==
  LET s == View(cur, h)
  IN CASE t = "InstallPodman" -> "podman" \notin s.podman
       [] t = "EnablePodmanSocket" -> "socket" \notin s.podman
       [] t = "EnableIpForward" -> "forward" \notin s.podman
       [] t = "InstallFirewall" -> s.fw # firewall_service_unit(d, nets, h)
       [] OTHER -> FALSE

CooldNeeds(d, cur, mgmt, nets, h, t) ==
  LET s == View(cur, h)
      corrDrift == binary_version_drift(d.corrosion, s.corrosion)
      cooldDrift == binary_version_drift(d.coold, s.coold)
      cfgDrift == s.corrCfg # corrosion_config(d, mgmt, h)
  IN CASE t = "InstallCorrosion" -> corrDrift
       [] t = "InstallCoold" -> cooldDrift
       [] t = "WriteCorrosionConfig" -> cfgDrift
       [] t = "WriteCorrosionSchema" -> s.schema = NoVersion
       [] t = "ResetCorrosionSchema" -> s.schema \notin {NoVersion, d.schema}
       [] t = "InstallCorrosionService" ->
            ~s.corrActive \/ cfgDrift \/ corrDrift \/ s.schema # d.schema
       [] t = "InstallCooldService" ->
            ~s.cooldActive \/ cfgDrift \/ cooldDrift \/ s.unit # coold_unit(d, mgmt, nets, h)
       [] OTHER -> FALSE

HostNeeds(d, cur, mgmt, nets, h, t) ==
  \/ WireGuardNeeds(d, cur, mgmt, h, t)
  \/ PodmanNeeds(d, cur, nets, h, t)
  \/ CooldNeeds(d, cur, mgmt, nets, h, t)

NetworkNeeds(d, cur, nets, h, ns, t) ==
  LET have == View(cur, h).nets
  IN CASE t = "CreatePodmanNetwork" -> ns \notin DOMAIN have
       [] t = "RecreatePodmanNetwork" ->
            /\ ns \in DOMAIN have
            /\ ~have[ns].clean \/ have[ns].addr # Subnet(nets, ns, h)
                              \/ have[ns].len # ContainerPrefix

Planned(h, t, ns) == [host |-> h, type |-> t, ns |-> ns]

-----------------------------------------------------------------------------
(* Intents.                                                                 *)

categorize(t) ==
  CASE t \in {"WriteConfig", "ReloadService", "InstallFirewall", "WriteCorrosionConfig",
              "InstallCorrosionService", "InstallCooldService"} -> "PeerRefresh"
    [] t = "RecreatePodmanNetwork" -> "DestructiveReplace"
    [] t \in {"InstallCorrosion", "InstallCoold"} -> "VersionBump"
    [] t = "WriteCorrosionSchema" -> "SchemaFirstWrite"
    [] t = "ResetCorrosionSchema" -> "WipeDb"
    [] OTHER -> "SafeAlways"

validate_intent(d) ==
  CASE d.intent = "Bootstrap" -> TRUE
    [] d.intent = "Extend" -> d.new # {} /\ d.new \subseteq ToSet(d.hosts)
    [] d.intent = "Upgrade" -> d.nightly \/ "nightly" \notin {d.coold, d.corrosion}


\* decide: whether the action is kept.
Decide(d, a) ==
  CASE d.intent = "Bootstrap" -> TRUE
    [] d.intent = "Extend" ->
         \/ a.host \in d.new
         \/ categorize(a.type) \in {"SafeAlways", "PeerRefresh", "SchemaFirstWrite"}
         \/ categorize(a.type) = "DestructiveReplace" /\ d.replace
    [] d.intent = "Upgrade" ->
         \/ categorize(a.type) = "VersionBump"
         \/ a.type \in {"InstallCorrosionService", "InstallCooldService"}

-----------------------------------------------------------------------------

Bails(d, cur) ==
  \/ ~validate_intent(d)
  \/ \E h \in ToSet(d.hosts) \cap DOMAIN cur : d.deny /\ ~cur[h].nft

Mgmt(d, cur) == allocate_mgmt_ips(MgmtPool, assigned_mgmt_ips(cur), d.hosts)
Nets(d, cur) == allocate_namespaced(ContainerPool, ContainerPrefix,
                                    assigned_container_subnets(cur), d.ns, d.hosts)

\* The actions of a plan; its order plays no part in applying it.
build_plan(d, cur) ==
  LET mgmt == Mgmt(d, cur).got
      nets == Nets(d, cur).got
      all == {Planned(h, t, 0) : h \in ToSet(d.hosts), t \in HostActions}
      perNs == {Planned(h, t, ns) : h \in ToSet(d.hosts), ns \in ToSet(d.ns),
                                    t \in {"CreatePodmanNetwork", "RecreatePodmanNetwork"}}
  IN {a \in all : HostNeeds(d, cur, mgmt, nets, a.host, a.type) /\ Decide(d, a)}
     \cup {a \in perNs : NetworkNeeds(d, cur, nets, a.host, a.ns, a.type) /\ Decide(d, a)}

should_run(plan, h, t, ns) ==
  \E a \in plan : a.host = h /\ a.type = t /\ (ns = 0 \/ a.ns = ns)
=============================================================================

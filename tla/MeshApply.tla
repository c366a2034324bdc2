----------------------------- MODULE MeshApply -----------------------------
(***************************************************************************)
(* Runs of `coolify init bootstrap|extend|upgrade` against a set of hosts  *)
(* (coolify-cli/src/commands/init/mod.rs, wireguard/apply.rs): probe every *)
(* host, plan, then three phases, each of which runs the hosts' commands   *)
(* concurrently over SSH.  Phase 2 addresses the mesh from a second probe. *)
(*                                                                         *)
(* Faults: a probe is lost (reconstruct only warns), a command is reported *)
(* failed although it may have run (an SSH timeout), the CLI is killed.    *)
(* Only the CLI changes the hosts, so a probe of all of them is one step.  *)
(***************************************************************************)
EXTENDS MeshPlan

CONSTANTS
  Hosts,
  Stories       \* a sequence: what may happen to them, and the bounds:
                \*   machines[h]: what h may look like before the first run;
                \*   script[n]: what the operator may ask for in the n-th run;
                \*   faults, lost: bounds on failed commands and kills, lost probes

VARIABLES
  story,    \* which of them happens
  world,    \* the hosts
  cert,     \* the flux certificate in the operator's directory
  pc, desired, current, plan,        \* the run, its first probe and its plan
  fresh, mgmt, nets,                 \* second probe, and the addresses from it
  todo, failed,                      \* commands left in this phase; failed hosts
  result,                            \* how the last run ended
  clean,                             \* no probe of this run was lost
  runs, faults, losses               \* bounds

cliVars == <<story, desired, current, plan, fresh, mgmt, nets, clean>>
vars == <<story, world, cert, pc, desired, current, plan, fresh, mgmt, nets, todo, failed,
          result, clean, runs, faults, losses>>

\* A machine: files and units on disk, and (live*) what runs.
Blank ==
  [installed |-> FALSE, key |-> NoKey, conf |-> NoUnit, live |-> NoUnit,
   podman |-> {}, nft |-> TRUE, nets |-> <<>>, fw |-> NoUnit,
   corrosion |-> NoVersion, corrCfg |-> NoUnit, schema |-> NoVersion,
   liveCorrosion |-> NoUnit, coold |-> NoVersion, unit |-> NoUnit,
   liveCoold |-> NoUnit, pin |-> 0]

\* A machine that the program may meet: a WireGuard config only beside a key,
\* and an interface only with a config.
Machine(w) ==
  /\ DOMAIN w = DOMAIN Blank
  /\ w.key \in Nat
  /\ w.podman \subseteq {"podman", "socket", "forward"}
  /\ w.conf # NoUnit => w.key # NoKey
  /\ w.live # NoUnit => w.conf # NoUnit

\* What an operator may ask for.
Wanted(d) ==
  /\ ToSet(d.hosts) \subseteq Hosts
  /\ d.ns \in Seq(Nat \ {0})
  /\ d.intent \in {"Bootstrap", "Extend", "Upgrade"}

Asked == UNION {UNION {s.script[n] : n \in DOMAIN s.script} : s \in ToSet(Stories)}
History == Stories[story]

ASSUME StoriesAssumption ==
  /\ Hosts \subseteq Nat \ {0}
  /\ \A s \in ToSet(Stories) : \A h \in Hosts : \A m \in s.machines[h] : Machine(m)
  /\ \A d \in Asked : Wanted(d)

\* probe and parse_probe: peers and address come from the config file.
Probe(w, d) ==
  [installed |-> w.installed, key |-> w.key,
   ip |-> IF w.conf = NoUnit THEN NoIp ELSE w.conf.ip,
   peers |-> IF w.conf = NoUnit THEN {} ELSE {p.key : p \in w.conf.peers},
   active |-> w.live # NoUnit, podman |-> w.podman, nft |-> w.nft,
   nets |-> [ns \in DOMAIN w.nets \cap ToSet(d.ns) |-> w.nets[ns]], fw |-> w.fw,
   corrosion |-> w.corrosion, corrCfg |-> w.corrCfg, schema |-> w.schema,
   corrActive |-> w.liveCorrosion # NoUnit,
   coold |-> w.coold, unit |-> w.unit, cooldActive |-> w.liveCoold # NoUnit]

\* reconstruct: what the probes that were not lost report.
reconstruct(d, lost) == [h \in ToSet(d.hosts) \ lost |-> Probe(world[h], d)]

Losable(d) == {l \in SUBSET ToSet(d.hosts) : losses + Cardinality(l) <= History.lost}
NoTodo == [h \in Hosts |-> {}]

Init ==
  /\ story \in DOMAIN Stories
  /\ world \in [Hosts -> UNION Range(History.machines)]
  /\ \A h \in Hosts : world[h] \in History.machines[h]
  /\ cert = 0
  /\ pc = "idle" /\ desired = <<>> /\ current = <<>> /\ plan = {}
  /\ fresh = <<>> /\ mgmt = <<>> /\ nets = <<>>
  /\ todo = NoTodo /\ failed = {}
  /\ result = "none" /\ clean = TRUE
  /\ runs = 0 /\ faults = 0 /\ losses = 0

-----------------------------------------------------------------------------
(* The commands of a phase for one host, in the order they run.             *)

Selected(p, h, steps) ==
  {[at |-> i, type |-> steps[i][1], ns |-> steps[i][2]] :
     i \in {j \in DOMAIN steps : should_run(p, h, steps[j][1], steps[j][2])}}

\* The one of them that runs first.
First(steps) == {s \in steps : \A t \in steps : s.at <= t.at}

Phase1(p, h) ==
  Selected(p, h, << <<"InstallWg", 0>>, <<"GenKeyPair", 0>>, <<"InstallPodman", 0>>,
                    <<"EnablePodmanSocket", 0>>, <<"EnableIpForward", 0>> >>)

\* Mutant: a running interface is not restarted for its new config.
Phase2NoReload(d, p, cur, h) ==
  Selected(p, h, << <<"WriteConfig", 0>>, <<"EnableService", 0>> >>
                 \o [i \in DOMAIN d.ns |-> <<"CreatePodmanNetwork", d.ns[i]>>]
                 \o << <<"InstallFirewall", 0>> >>)

Phase2(d, p, cur, h) ==
  LET svc == IF View(cur, h).active THEN "ReloadService" ELSE "EnableService"
      network(ns) == IF should_run(p, h, "RecreatePodmanNetwork", ns)
                     THEN "RecreatePodmanNetwork" ELSE "CreatePodmanNetwork"
  IN Selected(p, h, << <<"WriteConfig", 0>>, <<svc, 0>> >>
                    \o [i \in DOMAIN d.ns |-> <<network(d.ns[i]), d.ns[i]>>]
                    \o << <<"InstallFirewall", 0>> >>)

\* Mutant: the schema is only written where corrosion is not installed yet.
Phase3NoSchema(p, h) ==
  Selected(p, h, << <<"InstallCorrosion", 0>>, <<"InstallCoold", 0>>,
                    <<"WriteCorrosionConfig", 0>>,
                    <<IF should_run(p, h, "InstallCorrosion", 0)
                      THEN "InstallCorrosion" ELSE "WriteCorrosionSchema", 0>>,
                    <<"InstallCorrosionService", 0>>, <<"InstallCooldService", 0>> >>)

Phase3(p, h) ==
  Selected(p, h, << <<"InstallCorrosion", 0>>, <<"InstallCoold", 0>>,
                    <<"WriteCorrosionConfig", 0>>, <<"WriteCorrosionSchema", 0>>,
                    <<"ResetCorrosionSchema", 0>>,
                    <<"InstallCorrosionService", 0>>, <<"InstallCooldService", 0>> >>)

\* wg genkey overwrites the pair that is there.
NextKey(h, key) == IF key = NoKey THEN h * KeyBase ELSE key + 1


PeerConfigs(h) ==
  {[key |-> fresh[p].key, ip |-> mgmt[p], nets |-> HostSubnets(desired, nets, p)] :
     p \in {q \in Others(desired, h) \cap DOMAIN fresh : fresh[q].key # NoKey}}

\* corrosion.service requires wg-quick, so a restart of the one restarts the other.
RestartCorrosion(w) ==
  IF w.liveCorrosion = NoUnit THEN w
  ELSE [w EXCEPT !.liveCorrosion = [version |-> w.corrosion, cfg |-> w.corrCfg]]

\* systemctl enable --now does not restart what already runs.
StartIfStopped(running, started) == IF running = NoUnit THEN started ELSE running

\* podman network exists || podman network create.
KeepOrCreate(have, ns, net) ==
  [n \in DOMAIN have \cup {ns} |-> IF n \in DOMAIN have THEN have[n] ELSE net]

\* The bridge network of a namespace, as the CLI creates it.
MeshNetwork(ns, h) == [addr |-> Subnet(nets, ns, h), len |-> ContainerPrefix, clean |-> TRUE]

\* The config is made with `cat` of the private key, and corrosion's unit cannot
\* start without the wg-quick unit it requires.
Runnable(w, t) ==
  /\ t = "WriteConfig" => w.key # NoKey
  /\ t = "InstallCorrosionService" => w.conf # NoUnit

\* What a command does to the host.  Without a config file corrosion exits.
Run(w, h, t, ns) ==
  CASE t = "InstallWg" -> [w EXCEPT !.installed = TRUE]
    [] t = "GenKeyPair" -> [w EXCEPT !.key = NextKey(h, @)]
    [] t = "InstallPodman" -> [w EXCEPT !.podman = @ \cup {"podman"}, !.nft = TRUE]
    [] t = "EnablePodmanSocket" -> [w EXCEPT !.podman = @ \cup {"socket"}]
    [] t = "EnableIpForward" -> [w EXCEPT !.podman = @ \cup {"forward"}]
    [] t = "WriteConfig" ->
         [w EXCEPT !.conf = [key |-> w.key, ip |-> mgmt[h], peers |-> PeerConfigs(h)]]
    [] t = "EnableService" -> [w EXCEPT !.live = StartIfStopped(@, w.conf)]
    [] t = "ReloadService" -> RestartCorrosion([w EXCEPT !.live = w.conf])
    [] t = "CreatePodmanNetwork" ->
         [w EXCEPT !.nets = KeepOrCreate(@, ns, MeshNetwork(ns, h))]
    [] t = "RecreatePodmanNetwork" ->
         [w EXCEPT !.nets = (ns :> MeshNetwork(ns, h)) @@ @]
    [] t = "InstallFirewall" -> [w EXCEPT !.fw = firewall_service_unit(desired, nets, h)]
    [] t = "InstallCorrosion" -> [w EXCEPT !.corrosion = desired.corrosion]
    [] t = "InstallCoold" -> [w EXCEPT !.coold = desired.coold]
    [] t = "WriteCorrosionConfig" ->
         [w EXCEPT !.corrCfg = corrosion_config(desired, mgmt, h)]
    [] t \in {"WriteCorrosionSchema", "ResetCorrosionSchema"} ->
         [w EXCEPT !.schema = desired.schema]
    [] t = "InstallCorrosionService" ->
         [w EXCEPT !.live = StartIfStopped(@, w.conf),
                   !.liveCorrosion =
                     IF w.corrCfg = NoUnit THEN @
                     ELSE StartIfStopped(@, [version |-> w.corrosion, cfg |-> w.corrCfg])]
    [] t = "InstallCooldService" ->
         LET unit == coold_unit(desired, mgmt, nets, h)
         IN [w EXCEPT !.pin = IF desired.tls THEN cert ELSE @,
                      !.unit = unit,
                      !.liveCoold = StartIfStopped(@, [version |-> w.coold, unit |-> unit])]

-----------------------------------------------------------------------------
(* The run.                                                                 *)

\* Mutant: the commands of the phase run on when the CLI has ended.
EndsRunningOn(how) == pc' = "idle" /\ result' = how /\ failed' = {} /\ UNCHANGED todo
Ends(how) == pc' = "idle" /\ result' = how /\ todo' = NoTodo /\ failed' = {}

\* run_apply up to the first command: a new flux certificate is made and
\* written before anything is probed.
Start(d, lost) ==
  LET cur == reconstruct(d, lost)
      ok == ~Bails(d, cur) /\ Mgmt(d, cur).err = 0 /\ Nets(d, cur).err = 0
      p == IF ok THEN build_plan(d, cur) ELSE {}
  IN /\ pc = "idle" /\ runs < Len(History.script) /\ d \in History.script[runs + 1]
     /\ lost \in Losable(d)
     /\ runs' = runs + 1
     /\ losses' = losses + Cardinality(lost)
     /\ cert' = IF d.tls THEN cert + 1 ELSE cert
     /\ desired' = d /\ current' = cur /\ plan' = p /\ clean' = (lost = {})
     /\ IF p # {}
        THEN /\ pc' = "phase1" /\ todo' = [h \in Hosts |-> Phase1(p, h)]
             /\ UNCHANGED <<failed, result>>
        ELSE Ends(IF ok THEN "converged" ELSE "failed")
     /\ UNCHANGED <<story, world, fresh, mgmt, nets, faults>>

\* A command of a host runs and its success reaches the CLI.
StepDone(h) ==
  /\ \E s \in First(todo[h]) :
       /\ Runnable(world[h], s.type)
       /\ world' = [world EXCEPT ![h] = Run(@, h, s.type, s.ns)]
       /\ todo' = [todo EXCEPT ![h] = @ \ {s}]
  /\ UNCHANGED <<cert, pc, cliVars, failed, result, runs, faults, losses>>

\* A command fails or times out; it may have run.  The host's later commands
\* of this phase are skipped.
StepFails(h) ==
  /\ faults < History.faults
  /\ faults' = faults + 1
  /\ \E s \in First(todo[h]) :
       \/ UNCHANGED world
       \/ Runnable(world[h], s.type) /\ world' = [world EXCEPT ![h] = Run(@, h, s.type, s.ns)]
  /\ todo' = [todo EXCEPT ![h] = {}]
  /\ failed' = failed \cup {h}
  /\ UNCHANGED <<cert, pc, cliVars, result, runs, losses>>

\* A command that cannot work on this host.
StepRefused(h) ==
  /\ \E s \in First(todo[h]) : ~Runnable(world[h], s.type)
  /\ todo' = [todo EXCEPT ![h] = {}]
  /\ failed' = failed \cup {h}
  /\ UNCHANGED <<world, cert, pc, cliVars, result, runs, faults, losses>>

\* The operator kills the CLI between two commands.
Kill ==
  /\ pc # "idle" /\ faults < History.faults
  /\ faults' = faults + 1
  /\ Ends("failed")
  /\ UNCHANGED <<world, cert, cliVars, runs, losses>>

PhaseOver(p) == pc = p /\ todo = NoTodo

\* A failure in phase 1 ends the run.  Otherwise the hosts are probed again and
\* addresses allocated from what that probe reports.
EndPhase1 ==
  /\ PhaseOver("phase1")
  /\ \/ failed # {} /\ Ends("failed") /\ UNCHANGED <<fresh, mgmt, nets, clean, losses>>
     \/ /\ failed = {}
        /\ \E lost \in Losable(desired) :
             LET f == reconstruct(desired, lost)
                 m == Mgmt(desired, f)
                 n == Nets(desired, f)
             IN /\ fresh' = f /\ mgmt' = m.got /\ nets' = n.got
                /\ clean' = (clean /\ lost = {})
                /\ losses' = losses + Cardinality(lost)
                /\ IF m.err = 0 /\ n.err = 0
                   THEN /\ pc' = "phase2"
                        /\ todo' = [h \in Hosts |-> IF h \in ToSet(desired.hosts)
                                                   THEN Phase2(desired, plan, f, h) ELSE {}]
                        /\ UNCHANGED <<failed, result>>
                   ELSE Ends("failed")
  /\ UNCHANGED <<story, world, cert, desired, current, plan, runs, faults>>

EndPhase2 ==
  /\ PhaseOver("phase2")
  /\ \/ failed # {} /\ Ends("failed")
     \/ /\ failed = {}
        /\ pc' = "phase3"
        /\ todo' = [h \in Hosts |-> Phase3(plan, h)]
        /\ UNCHANGED <<failed, result>>
  /\ UNCHANGED <<world, cert, cliVars, runs, faults, losses>>

EndPhase3 ==
  /\ PhaseOver("phase3")
  /\ Ends(IF failed = {} THEN "ok" ELSE "failed")
  /\ UNCHANGED <<world, cert, cliVars, runs, faults, losses>>

Next ==
  \/ \E d \in Asked : \E lost \in SUBSET Hosts : Start(d, lost)
  \/ \E h \in Hosts : StepDone(h) \/ StepFails(h) \/ StepRefused(h)
  \/ Kill \/ EndPhase1 \/ EndPhase2 \/ EndPhase3

Spec == Init /\ [][Next]_vars

-----------------------------------------------------------------------------
(* Properties.                                                              *)

Listed == ToSet(desired.hosts)
Address(h) == world[h].conf.ip
Networks(h, S) == {world[h].nets[ns].addr : ns \in S \cap DOMAIN world[h].nets}

\* The sets of namespaces the operator may have asked for so far.
AskedSpaces == {ToSet(d.ns) : d \in UNION {History.script[n] : n \in 1..runs}}

\* Type invariant: a WireGuard config is written only on a host with a key, an
\* interface runs only with a config (Machine), and only hosts of the list are
\* worked on.
TypeOK ==
  /\ pc \in {"idle", "phase1", "phase2", "phase3"}
  /\ result \in {"none", "ok", "failed", "converged"}
  /\ \A h \in Hosts : /\ Machine(world[h])
                      /\ todo[h] # {} => pc # "idle" /\ h \in Listed
  /\ failed \subseteq Hosts

\* The run would have replaced a network of p, but its intent does not let it: the
\* plan lists it among the skipped actions.
SkipsNetwork(p) ==
  \E ns \in ToSet(desired.ns) :
    /\ NetworkNeeds(desired, current, Nets(desired, current).got, p, ns, "RecreatePodmanNetwork")
    /\ ~Decide(desired, Planned(p, "RecreatePodmanNetwork", ns))

\* What h's file or running interface says of its peers is what they are: it has
\* every listed host with its key and address, and with its subnets of the
\* namespaces of this run or an earlier one, unless one of its networks was to be
\* replaced and is not; any other peer is a host that is no longer listed.
KnowsPeers(h, c) ==
  /\ c # NoUnit /\ c.key = world[h].key
  /\ \A p \in Listed \ {h} :
       \E e \in c.peers : /\ e.key = world[p].key /\ e.ip = Address(p)
                          /\ SkipsNetwork(p) \/ \E S \in AskedSpaces : e.nets = Networks(p, S)
  /\ {e.key : e \in c.peers} \subseteq {world[p].key : p \in Hosts \ {h}}


\* The same without the exceptions: the config names the other listed hosts,
\* with their subnets of the namespaces of this run, and no one else.
MeshExact ==
  (pc = "idle" /\ result \in {"ok", "converged"} /\ clean /\ desired.intent # "Upgrade")
    => \A h \in Listed :
         world[h].conf.peers = {[key |-> world[p].key, ip |-> Address(p),
                                 nets |-> Networks(p, ToSet(desired.ns))] : p \in Listed \ {h}}

\* "Mesh is already converged": the running interfaces know their peers.
ConvergedIsLive ==
  (pc = "idle" /\ result = "converged" /\ clean /\ desired.intent # "Upgrade")
    => \A h \in Listed : KnowsPeers(h, world[h].live)

\* The same of a history without failed commands, kills and lost probes: every
\* change of a config reached the interface before a run called it converged.
FaultlessIsLive == (faults = 0 /\ losses = 0) => ConvergedIsLive

\* One successful run of bootstrap is enough: planning again from what it left
\* finds nothing to do (pinned versions; the same list), except for peers that are
\* no longer listed, which are planned to be removed for ever.
OneRunConverges ==
  (pc = "idle" /\ result = "ok" /\ clean /\ desired.intent = "Bootstrap")
    => \A a \in build_plan(desired, reconstruct(desired, {})) :
         /\ a.type = "RemovePeer"
         /\ \E e \in world[a.host].conf.peers, p \in Hosts \ Listed : e.key = world[p].key


\* After an upgrade the agents that run are the ones it installed.
UpgradeIsLive ==
  (pc = "idle" /\ result = "ok" /\ desired.intent = "Upgrade")
    => \A h \in Listed : /\ world[h].liveCorrosion.version = desired.corrosion
                         /\ world[h].liveCoold.version = desired.coold

\* The pin on every node is the certificate that was written for flux.
PinMatches ==
  (pc = "idle" /\ result \in {"ok", "converged"} /\ desired.tls)
    => \A h \in Listed : world[h].pin = cert
=============================================================================

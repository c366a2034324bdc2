-------------------------- MODULE SubnetAllocator --------------------------
(***************************************************************************)
(* Repeated planning of addresses for a mesh whose node list changes       *)
(* (coolify-cli/src/wireguard/plan.rs, subnet.rs).  Every round allocates  *)
(* for the nodes it lists, from what those nodes hold, and the nodes then  *)
(* hold what they were given; a node that is not listed keeps what it has. *)
(***************************************************************************)
EXTENDS Subnets

CONSTANTS
  Hosts, Namespaces,    \* numbers below KeyBase
  MgmtPool, ContainerPool, ContainerPrefix,
  FirstIps,             \* addresses a host may hold before the first round
  FirstNets             \* networks a namespace may have there

VARIABLES
  ip,     \* management addresses of the hosts that hold one
  net,    \* networks of the keys that have one
  plan    \* the last round: whom it listed, and how the two calls ended

vars == <<ip, net, plan>>

Keys == {Key(ns, h) : ns \in Namespaces, h \in Hosts}
Lists == UNION {{s \in [1..n -> Hosts] : NoDuplicates(s)} : n \in 1..Cardinality(Hosts)}
NsList == SetToSortSeq(Namespaces, <)
Blocks == {a \in 0..MaxAddr : Within(ContainerPool, a)
                              /\ (a - ContainerPool.addr) % Step(ContainerPrefix) = 0}
NoPlan == [hosts |-> {}, mgmt |-> 0, nets |-> 0]

Partial(S, T) == UNION {[D -> T] : D \in SUBSET S}

Init ==
  /\ ip \in Partial(Hosts, FirstIps)
  /\ net \in Partial(Keys, FirstNets)
  /\ plan = NoPlan

\* One round of build_plan's allocations and of the writes that follow them.
Round(hosts) ==
  LET mgmt == allocate_mgmt_ips(MgmtPool, ip, hosts)
      nets == IF mgmt.err # 0 THEN Failed(0)
              ELSE allocate_namespaced(ContainerPool, ContainerPrefix, net, NsList, hosts)
  IN /\ plan' = [hosts |-> ToSet(hosts), mgmt |-> mgmt.err, nets |-> nets.err]
     /\ IF mgmt.err = 0 /\ nets.err = 0
        THEN /\ ip' = mgmt.got @@ ip
             /\ net' = [k \in DOMAIN nets.got |->
                          [addr |-> nets.got[k], len |-> ContainerPrefix]] @@ net
        ELSE UNCHANGED <<ip, net>>

Next == \E hosts \in Lists : Round(hosts)

Spec == Init /\ [][Next]_vars

-----------------------------------------------------------------------------

Done == plan.hosts # {} /\ plan.mgmt = 0 /\ plan.nets = 0
ListedKeys == {Key(ns, h) : ns \in Namespaces, h \in plan.hosts}

\* After a round the listed hosts have distinct usable management addresses
\* and their namespaces have disjoint blocks of the pool (wg AllowedIPs and
\* the bridge subnets route by them), whatever the hosts held before.
Disjoint ==
  Done => /\ \A h \in plan.hosts : ip[h] \in MgmtPool.addr + 1 .. Broadcast(MgmtPool) - 1
          /\ \A h, g \in plan.hosts : h # g => ip[h] # ip[g]
          /\ \A k \in ListedKeys : net[k].len = ContainerPrefix
                                   /\ Within(ContainerPool, Broadcast(net[k]))
          /\ \A k, l \in ListedKeys :
               k # l => Broadcast(net[k]) < net[l].addr \/ Broadcast(net[l]) < net[k].addr

\* allocate gives up ("pool is exhausted") exactly when the pool has fewer
\* blocks than the round has keys; the reference is the count of the pool.
ExhaustedMeansFull ==
  plan.hosts # {} =>
    /\ plan.mgmt = IF Cardinality(plan.hosts) > Broadcast(MgmtPool) - MgmtPool.addr - 1
                   THEN Exhausted ELSE 0
    /\ plan.mgmt = 0 =>
         plan.nets = IF Cardinality(ListedKeys) > Cardinality(Blocks) THEN Exhausted ELSE 0

\* A round moves a listed host, or one of its namespaces, only if what it
\* held cannot be used or is also held by a listed key with a smaller name.
StableRound ==
  /\ \A h \in plan'.hosts \cap DOMAIN ip :
       ip'[h] # ip[h] =>
         \/ ip[h] \notin MgmtPool.addr + 1 .. Broadcast(MgmtPool) - 1
         \/ \E g \in plan'.hosts \cap DOMAIN ip : g < h /\ ip[g] = ip[h]
  /\ \A k \in DOMAIN net :
       (net'[k] # net[k] /\ net[k].len = ContainerPrefix /\ Within(ContainerPool, net[k].addr))
         => \E l \in ListedKeys' \cap DOMAIN net : l < k /\ net[l] = net[k]

\* Whatever the hosts held before, every round leaves them what it can.
StableAllocation == [][StableRound]_vars
=============================================================================

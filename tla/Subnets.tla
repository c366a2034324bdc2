------------------------------ MODULE Subnets ------------------------------
(***************************************************************************)
(* The address arithmetic of the mesh planner                              *)
(* (coolify-cli/src/wireguard/subnet.rs).  An address is a number of Width *)
(* bits (32 in the program).  A network is [addr, len] with addr its first *)
(* address; an allocation is known by the first address of its block.      *)
(*                                                                         *)
(* A key names what gets an allocation: a host, or a namespace and a host. *)
(* Keys are numbers, ordered as the program's BTreeMap orders their names. *)
(***************************************************************************)
EXTENDS Integers, Sequences, SequencesExt, FiniteSets

CONSTANTS Width

ASSUME WidthAssumption == Width \in Nat \ {0}

MaxAddr == 2 ^ Width - 1
SatAdd(a, b) == IF a + b > MaxAddr THEN MaxAddr ELSE a + b

\* 1u32.checked_shl(32 - prefix).unwrap_or(1): the shift by 32 of a /0 fails.
Step(prefix) == IF prefix = 0 THEN 1 ELSE 2 ^ (Width - prefix)
Broadcast(net) == net.addr + 2 ^ (Width - net.len) - 1
Within(pool, a) == pool.addr <= a /\ a <= Broadcast(pool)
MachineIp(a) == a + 1

\* What a call that does not return an allocation comes to.  The last one is
\* a loop that the code never leaves.
Exhausted == -1
Duplicate == -2
BadPrefix == -3
Diverges == -4

Failed(code) == [got |-> <<>>, err |-> code]

-----------------------------------------------------------------------------
(* The scan for a free block: n = first, then n.saturating_add(step).       *)

\* Mutant: the scan does not look at what is in use.
FirstBlock(first, last, step, used) ==
  IF first > last THEN Exhausted ELSE first

\* Mutant: the scan stops one block early.
FirstFreeButLast(first, last, step, used) ==
  LET scan[n \in 0..MaxAddr] ==
        IF SatAdd(n, step) > last THEN Exhausted
        ELSE IF n \notin used THEN n
        ELSE IF SatAdd(n, step) = n THEN Diverges
        ELSE scan[SatAdd(n, step)]
  IN scan[first]

FirstFree(first, last, step, used) ==
  LET scan[n \in 0..MaxAddr] ==
        IF n > last THEN Exhausted
        ELSE IF n \notin used THEN n
        ELSE IF SatAdd(n, step) = n THEN Diverges
        ELSE scan[SatAdd(n, step)]
  IN scan[first]

\* The keys without an allocation get one in the order of the call's list.
Assign(kept, keys, first, last, step) ==
  LET One(acc, k) ==
        IF acc.err # 0 \/ k \in DOMAIN acc.got
        THEN acc
        ELSE LET n == FirstFree(first, last, step, Range(acc.got))
             IN IF n < 0 THEN Failed(n)
                ELSE [acc EXCEPT !.got = (k :> n) @@ @]
  IN FoldLeft(One, [got |-> kept, err |-> 0], keys)

\* Mutant: of the keys that hold the same block the largest keeps it.
KeepLargest(usable, keys, addr) ==
  LET mine == ToSet(keys) \cap usable
  IN [k \in {i \in mine : \A j \in mine : j > i => addr[j] # addr[i]} |-> addr[k]]

\* What a listed key holds, if it is usable, stays with it; of the keys that
\* hold the same block the smallest keeps it.
KeepExisting(usable, keys, addr) ==
  LET mine == ToSet(keys) \cap usable
  IN [k \in {i \in mine : \A j \in mine : j < i => addr[j] # addr[i]} |-> addr[k]]

NoDuplicates(keys) == Cardinality(ToSet(keys)) = Len(keys)

\* existing: a function from some of the keys to networks.
allocate(pool, prefix, existing, keys) ==
  IF prefix < pool.len \/ prefix > Width THEN Failed(BadPrefix)
  ELSE IF ~NoDuplicates(keys) THEN Failed(Duplicate)
  ELSE LET usable == {k \in DOMAIN existing :
                        existing[k].len = prefix /\ Within(pool, existing[k].addr)}
           kept == KeepExisting(usable, keys, [k \in usable |-> existing[k].addr])
       IN Assign(kept, keys, pool.addr, Broadcast(pool), Step(prefix))

\* existing: a function from some of the hosts to addresses.
allocate_mgmt_ips(pool, existing, hosts) ==
  IF ~NoDuplicates(hosts) THEN Failed(Duplicate)
  ELSE LET usable == {h \in DOMAIN existing :
                        /\ existing[h] # pool.addr
                        /\ existing[h] # Broadcast(pool)
                        /\ Within(pool, existing[h])}
       IN Assign(KeepExisting(usable, hosts, existing), hosts,
                 SatAdd(pool.addr, 1), Broadcast(pool) - 1, 1)

\* The key of a namespace on a host, and the order in which allocate gets them.
KeyBase == 100
Key(ns, h) == ns * KeyBase + h
NamespaceKeys(namespaces, hosts) ==
  FlattenSeq([i \in DOMAIN namespaces |->
                [j \in DOMAIN hosts |-> Key(namespaces[i], hosts[j])]])

\* existing: a function from some of the keys to networks.
allocate_namespaced(pool, prefix, existing, namespaces, hosts) ==
  IF ~NoDuplicates(namespaces) THEN Failed(Duplicate)
  ELSE allocate(pool, prefix, existing, NamespaceKeys(namespaces, hosts))
=============================================================================

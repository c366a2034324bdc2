---------------------------- MODULE MCMeshApply ----------------------------
(***************************************************************************)
(* Small instances of MeshApply: up to three hosts, a space of 32          *)
(* addresses, and short histories of what the operator asks for.           *)
(***************************************************************************)
EXTENDS MeshApply

MgmtNet == [addr |-> 16, len |-> 2]
ContainerNet == [addr |-> 8, len |-> 2]

Want(hosts, ns, intent, new) ==
  [hosts |-> hosts, ns |-> ns, intent |-> intent, new |-> new, replace |-> FALSE,
   deny |-> TRUE, coold |-> "v1", corrosion |-> "v1", schema |-> "s1",
   nightly |-> FALSE, tls |-> FALSE]

Boot1 == Want(<<1>>, <<1>>, "Bootstrap", {})
Boot2 == Want(<<1, 2>>, <<1>>, "Bootstrap", {})
Extend2 == Want(<<1, 2>>, <<1>>, "Extend", {2})
Boot13 == Want(<<1, 3>>, <<1>>, "Bootstrap", {})
Boot3 == Want(<<1, 2, 3>>, <<1>>, "Bootstrap", {})
Extend3 == Want(<<1, 2, 3>>, <<1>>, "Extend", {3})
Upgrade2 == [Want(<<1, 2>>, <<1>>, "Upgrade", {}) EXCEPT !.coold = "v2", !.corrosion = "v2"]

NewNs == Want(<<1, 2>>, <<1, 2>>, "Bootstrap", {})
NewSchema == [Extend2 EXCEPT !.schema = "s2", !.coold = "v2"]
Replace2 == [Extend2 EXCEPT !.replace = TRUE]

\* A host with a hand-made Podman network: its own DNS, another subnet; or one as
\* the CLI makes it, of another length.
Used == [Blank EXCEPT !.podman = {"podman"}, !.nft = FALSE,
                      !.nets = (1 :> [addr |-> 12, len |-> 4, clean |-> FALSE])]
Wide == [Blank EXCEPT !.nets = (1 :> [addr |-> 12, len |-> 3, clean |-> TRUE])]

\* Hosts that no run of the script lists are blank.
Story(machines, script, nfaults, nlost) ==
  LET listed == UNION {ToSet(d.hosts) : d \in UNION Range(script)}
  IN [machines |-> [h \in Hosts |-> IF h \in listed THEN machines ELSE {Blank}],
      script |-> script, faults |-> nfaults, lost |-> nlost]

\* Bootstrap again and again, with failures and kills, or with lost probes.
Rebootstrap == <<{Boot2}, {Boot2}, {Boot2}>>
Recovery == Story({Blank}, Rebootstrap, 2, 0)
LostProbes == Story({Blank}, Rebootstrap, 0, 2)
\* Blank and used machines, and all intents.
Histories ==
  Story({Blank, Used, Wide},
        <<{Boot1, [Boot1 EXCEPT !.deny = FALSE, !.tls = TRUE]},
          {Boot2, Extend2, NewSchema, Replace2, Upgrade2},
          {Boot2, Extend2}>>, 1, 0)
\* Up to three hosts, one after the other.
Growth == Story({Blank}, <<{Boot1, Boot2}, {Boot3, Extend3}, {Boot3, Extend3}>>, 0, 0)
\* Hosts are dropped from the list, another takes their place, and they come back.
Shrink == Story({Blank}, <<{Boot2, Boot3}, {Boot1, Boot13}, {Boot1, Boot2, Boot3}>>, 0, 0)
\* A namespace is added and taken off again.
Spaces == Story({Blank, Wide}, <<{Boot2}, {NewNs, Boot1}, {Boot2, NewNs}>>, 0, 0)

AllStories == <<Recovery, LostProbes, Histories, Growth, Shrink, Spaces>>

\* Stories in which a run does not do what is said of it: a node is added, by
\* a CLI that is killed or does not reach a machine; a namespace is added; the
\* agents are upgraded; flux's certificate is made twice.
TlsTwice == [Boot1 EXCEPT !.tls = TRUE]
Disputed ==
  <<Story({Blank}, <<{Boot1}, {Boot2, Extend2}, {Boot2, Extend2}, {Boot2}>>, 1, 0),
    Story({Blank}, <<{Boot1}, {Boot2, Extend2}, {Boot2, Extend2}, {Boot2}>>, 0, 1),
    Story({Blank}, <<{Boot2}, {NewNs, Upgrade2}>>, 0, 0),
    Story({Blank}, <<{TlsTwice}, {TlsTwice}>>, 0, 0)>>
=============================================================================

------------------------------ MODULE MeshCli ------------------------------
(***************************************************************************)
(* The CLI in small instances: runs of `coolify init` (MeshApply) and      *)
(* rounds of address allocation (SubnetAllocator).  They share no variable *)
(* that both use and every property speaks of one of them, so it is enough *)
(* to let one move at a time: `part` is the one that does.                 *)
(*                                                                         *)
(* Rounds have five-bit addresses, three hosts and up to two namespaces.   *)
(* In "roomy" every list finds addresses and two hosts find their four     *)
(* blocks, three do not; in "tight" two hosts find addresses, three do     *)
(* not, and there are blocks for all.  A host starts with nothing, with a  *)
(* usable address or network, perhaps another's too, or with one that no   *)
(* round may keep (the address of the pool, a network of another length).  *)
(***************************************************************************)
EXTENDS MCMeshApply

CONSTANT RoundPool

VARIABLES part, ip, net, round

Low == [addr |-> 8, len |-> 2]
High == [addr |-> 24, len |-> 2]    \* ends at the largest address

Roomy == INSTANCE SubnetAllocator
  WITH Hosts <- {1, 2, 3}, Namespaces <- {1, 2}, MgmtPool <- [addr |-> 16, len |-> 2],
       ContainerPool <- RoundPool, ContainerPrefix <- 4, FirstIps <- {},
       FirstNets <- {[addr |-> 12, len |-> 4]}, plan <- round

Tight == INSTANCE SubnetAllocator
  WITH Hosts <- {1, 2, 3}, Namespaces <- {1}, MgmtPool <- [addr |-> 16, len |-> 3],
       ContainerPool <- RoundPool, ContainerPrefix <- 5, FirstIps <- {16, 17},
       FirstNets <- {[addr |-> 12, len |-> 4]}, plan <- round

CliInit ==
  /\ part \in {"runs", "roomy", "tight"}
  /\ Init
  /\ part # "runs" => /\ story = 1
                     /\ world = [h \in Hosts |-> Blank]
  /\ part = "runs" => ip = <<>> /\ net = <<>> /\ round = Roomy!NoPlan
  /\ part = "roomy" => Roomy!Init
  /\ part = "tight" => Tight!Init

CliNext ==
  \/ part = "runs" /\ Next /\ UNCHANGED <<part, ip, net, round>>
  \/ part = "roomy" /\ Roomy!Next /\ UNCHANGED <<part, vars>>
  \/ part = "tight" /\ Tight!Next /\ UNCHANGED <<part, vars>>
  \/ part = "runs" /\ pc = "idle" /\ UNCHANGED <<part, vars, ip, net, round>>

CliSpec == CliInit /\ [][CliNext]_<<part, vars, ip, net, round>>

-----------------------------------------------------------------------------
(* The properties of SubnetAllocator; those of MeshApply are its own.       *)

\* After a round the listed hosts have distinct usable addresses and their
\* namespaces disjoint blocks of the pool.
Disjoint ==
  /\ part = "roomy" => Roomy!Disjoint
  /\ part = "tight" => Tight!Disjoint

\* Allocation gives up exactly when the pool has fewer blocks than the round
\* has keys, and the scan for a block always ends.
ExhaustedMeansFull ==
  /\ part = "roomy" => Roomy!ExhaustedMeansFull
  /\ part = "tight" => Tight!ExhaustedMeansFull

\* A round moves only what cannot be used or what an earlier key holds too.
StableAllocation ==
  [][/\ part = "roomy" => Roomy!StableRound
     /\ part = "tight" => Tight!StableRound]_<<ip, net, round>>
=============================================================================

---------------------------- MODULE CooldSettles ----------------------------
(***************************************************************************)
(* What coold must not leave undone, in small instances: the answers of    *)
(* its resolver (EndpointSync) through a redeployment, the mesh's DNS on   *)
(* its host (MeshDns), and the answers to exec commands                    *)
(* (ContainerCommands) and to builds (Builder).  They share no variable    *)
(* and every property speaks of one of them, so it is enough to let one    *)
(* move at a time: `part` is the one that does.                            *)
(***************************************************************************)
EXTENDS MCEndpointSync, ContainerCommands, Builder

VARIABLES
  part,
  anchor, guests, route, squat, loop, infra, dnsUp, dnsChanges, dnsFails

dnsVars == <<anchor, guests, route, squat, loop, infra, dnsUp, dnsChanges, dnsFails>>

Dns == INSTANCE MeshDns
  WITH Gateways <- <<"prod", "stage">>, MaxChanges <- 3,
       MaxFails <- 2, up <- dnsUp, changes <- dnsChanges, fails <- dnsFails

ASSUME SettleConstants == Dns!DnsConstants

SettleInit ==
  /\ part \in {"endpoints", "dns", "commands", "builds"}
  /\ EndpointInit /\ Dns!Init /\ CommandInit /\ BuildInit

\* Steps of one part.
OfEndpoints(A) ==
  part = "endpoints" /\ A /\ UNCHANGED <<part, dnsVars, commandVars, builderVars>>
OfDns(A) == part = "dns" /\ A /\ UNCHANGED <<part, endpointVars, commandVars, builderVars>>
OfCommands(A) == part = "commands" /\ A /\ UNCHANGED <<part, endpointVars, dnsVars, builderVars>>
OfBuilds(A) == part = "builds" /\ A /\ UNCHANGED <<part, endpointVars, dnsVars, commandVars>>

SettleNext ==
  \/ OfEndpoints(EndpointNext) \/ OfDns(Dns!Next) \/ OfCommands(CommandNext)
  \/ OfBuilds(BuildNext)

\* The fairness of each part's module, for the part that moves.
SettleFairness ==
  /\ \A t \in Reconcilers :
       WF_endpointVars(OfEndpoints(Begin(t))) /\ WF_endpointVars(OfEndpoints(reconcile_once(t)))
  /\ WF_endpointVars(OfEndpoints(Dispatch))
  /\ WF_dnsVars(OfDns(Dns!Infra)) /\ WF_dnsVars(OfDns(Dns!RunEnds))
  /\ WF_dnsVars(OfDns(Dns!Restart))
  /\ \A n \in {"prod", "stage"} :
       WF_dnsVars(OfDns(Dns!Bind(n))) /\ WF_dnsVars(OfDns(Dns!Retry(n)))
  /\ \A r \in 1..MaxRequests : WF_commandVars(OfCommands(Handle(r)))
  /\ \A b \in Builds :
       /\ WF_builderVars(OfBuilds(CooldSteps(b) \/ Faulty(b)))
       /\ WF_builderVars(OfBuilds(ProcessSteps(b)))
  /\ WF_builderVars(OfBuilds(Start))

SettleSpec ==
  /\ SettleInit
  /\ [][SettleNext]_<<part, endpointVars, dnsVars, commandVars, builderVars>>
  /\ SettleFairness

-----------------------------------------------------------------------------
\* A namespace whose port 53 is left to coold comes to have a bridge, a server
\* on its gateway and a route from the host, and keeps them once containers and
\* errors leave it alone: the loops heal each other's preconditions, and a
\* namespace whose port another daemon holds for good does not keep the others
\* from healing.  The exception is a loop that has returned without dns::run
\* noticing.
DnsHeals == part = "dns" => Dns!DnsHeals
=============================================================================

----------------------------- MODULE CooldState -----------------------------
(***************************************************************************)
(* What coold keeps on its host, in small instances: the statuses it has   *)
(* told flux (StatusSync), the rules of the mesh firewall (Firewall)       *)
(* without failures and with them, Caddy's configuration (Ingress), the    *)
(* containers it runs commands on (ContainerCommands), its rows of         *)
(* service_endpoints (EndpointSync) and its builds (Builder).  They share  *)
(* no variable and every property speaks of one of them, so it is enough   *)
(* to let one move at a time: `part` is the one that does.                 *)
(***************************************************************************)
EXTENDS StatusSync, MCFirewall, Ingress, ContainerCommands, MCEndpointSync, Builder

VARIABLES
  part,
  overlooked  \* history: containers that were not there when a task of EndpointSync
              \* listed them, or that it then failed to inspect

Overlooks ==
  overlooked' = [t \in Reconcilers |->
    IF phase'[t] # "inspect" /\ phase'[t] # "apply" THEN {}
    ELSE IF phase[t] = "list" THEN ContainerIds \ DOMAIN containers
    ELSE IF fails' # fails THEN overlooked[t] \cup (uninspected[t] \ uninspected'[t])
    ELSE overlooked[t]]

\* Operations of the firewall fail and coold is killed; Caddy is left out.
FailingRules == INSTANCE Firewall WITH Caddys <- {}, MaxFwFaults <- 1

StateInit ==
  /\ part \in {"status", "rules", "failing rules", "caddy", "commands", "endpoints", "builds"}
  /\ Init /\ (part = "status" \/ actual = [k \in Containers |-> Absent])
  /\ FwInit /\ IngressInit /\ CommandInit /\ EndpointInit /\ BuildInit
  /\ overlooked = [t \in Reconcilers |-> {}]

Only(S) ==
  /\ UNCHANGED part
  /\ "status" \notin S => UNCHANGED vars
  /\ "rules" \notin S => UNCHANGED firewallVars
  /\ "caddy" \notin S => UNCHANGED ingressVars
  /\ "commands" \notin S => UNCHANGED commandVars
  /\ "endpoints" \notin S => UNCHANGED <<endpointVars, overlooked>>
  /\ "builds" \notin S => UNCHANGED builderVars

\* Requests run out and builds end: only the two synchronisations never stop.
MayStop == part \notin {"status", "endpoints"} /\ Only({})

StateNext ==
  \/ part = "status" /\ Next /\ Only({"status"})
  \/ part = "rules" /\ FwNext /\ Only({"rules"})
  \/ part = "failing rules" /\ FailingRules!FwNext /\ Only({"rules"})
  \/ part = "caddy" /\ IngressNext /\ Only({"caddy"})
  \/ part = "commands" /\ CommandNext /\ Only({"commands"})
  \/ part = "endpoints" /\ EndpointNext /\ Overlooks /\ Only({"endpoints"})
  \/ part = "builds" /\ BuildNext /\ Only({"builds"})
  \/ MayStop

StateSpec ==
  StateInit /\ [][StateNext]_<<part, vars, firewallVars, ingressVars, commandVars,
                               endpointVars, overlooked, builderVars>>

\* A container that has a row keeps one, running or not, until it is removed, with
\* both tasks and failing inspects: a row goes before its container only through a
\* reconcile that had listed when the container was not yet there, or whose inspect
\* of it failed.  Stops, restarts, changes of health, failed or interrupted
\* reconciles never cost a row (KeptUntilRemoved of EndpointSync, with what the code
\* does not keep of it).
KeptUnlessOverlooked ==
  [][\A c \in (DOMAIN rows \cap DOMAIN containers) \ DOMAIN rows' :
        \E t \in Reconcilers : phase[t] = "apply" /\ c \in overlooked[t]]_endpointVars

\* The two tasks run the same reconcile_once.
TaskSymmetry == Permutations(Tasks)
=============================================================================

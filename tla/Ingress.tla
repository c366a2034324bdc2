------------------------------ MODULE Ingress ------------------------------
(***************************************************************************)
(* ingress.apply and ingress.stop (coold/src/grpc/handlers.rs): the app    *)
(* files and the Caddyfile on the host, and the Caddy container that       *)
(* mounts them.  The app files are replaced in place; the Caddyfile is     *)
(* written to Caddyfile.tmp, validated together with the app files by a    *)
(* throw-away container, and renamed.  Then the container is recreated.    *)
(* The rule Caddy gets in the firewall is in module Firewall.              *)
(***************************************************************************)
EXTENDS Integers, FiniteSets

CONSTANTS
  Mains,      \* contents of a Caddyfile
  Apps,       \* names of app files
  Versions,   \* contents of an app file
  Broken,     \* contents, of either, that Caddy rejects
  NoFile,     \* an absent file
  Empty,      \* a file without content
  MaxApplies, MaxIngressFaults

ASSUME IngressConstants ==
  /\ NoFile \notin Mains \cup Versions /\ Empty \notin Mains \cup Versions \cup {NoFile} /\ Broken \subseteq Mains \cup Versions
  /\ MaxApplies \in Nat /\ MaxIngressFaults \in Nat

VARIABLES
  apps, main, newMain,  \* the files
  present,          \* the container exists
  caddy,            \* what it serves, or NoConfig when Caddy is not up
  stage, req,       \* the request in progress
  unwritten,        \* the app files it has still to write, or to look at
  filling,          \* the app file it has truncated and not filled
  applies, ingressFaults,
  last,             \* history: how the last request ended
  want,             \* history: the configuration it asked for
  checked           \* history: Caddyfiles `caddy validate` has accepted

files == <<apps, main, newMain>>
container == <<present, caddy>>
request == <<stage, req, unwritten, filling>>
history == <<last, want, checked>>
ingressVars == <<files, container, request, applies, ingressFaults, history>>

\* A configuration: the Caddyfile, and the app files there are.
Config(m, a) == [main |-> m, apps |-> a]
NoConfig == Config(NoFile, [x \in Apps |-> NoFile])
\* An app file without content adds nothing, and is accepted.
Loads(c) == /\ c.main \notin Broken \cup {NoFile}
            /\ \A x \in Apps : c.apps[x] \notin Broken

IngressInit ==
  /\ apps = NoConfig.apps /\ main = NoFile /\ newMain = NoFile
  /\ present = FALSE /\ caddy = NoConfig
  /\ stage = "idle" /\ req = NoConfig /\ unwritten = {} /\ filling = {}
  /\ applies = 0 /\ ingressFaults = 0
  /\ last = "none" /\ want = NoConfig /\ checked = {}

IngressFault == ingressFaults < MaxIngressFaults /\ ingressFaults' = ingressFaults + 1

\* The checks of the request itself (its sizes and names) leave no trace and
\* are taken to have passed.
apply_ingress(c) ==
  /\ stage = "idle" /\ applies < MaxApplies /\ applies' = applies + 1
  /\ req' = c /\ unwritten' = {x \in Apps : c.apps[x] # NoFile} /\ stage' = "apps"
  /\ last' = "running" /\ want' = c
  /\ UNCHANGED <<files, container, filling, ingressFaults, checked>>

\* fs::write truncates the file, and then fills it.
TruncateApp(x) ==
  /\ stage = "apps" /\ x \in unwritten /\ filling = {} /\ filling' = {x}
  /\ apps' = [apps EXCEPT ![x] = Empty]
  /\ UNCHANGED <<main, newMain, container, stage, req, unwritten, applies, ingressFaults, history>>

FillApp(x) ==
  /\ stage = "apps" /\ x \in filling /\ filling' = {}
  /\ apps' = [apps EXCEPT ![x] = req.apps[x]] /\ unwritten' = unwritten \ {x}
  /\ UNCHANGED <<main, newMain, container, stage, req, applies, ingressFaults, history>>

\* The directory is read again, entry by entry.
ReadDir ==
  /\ stage = "apps" /\ unwritten = {} /\ stage' = "stale"
  /\ unwritten' = {x \in Apps : apps[x] # NoFile}
  /\ UNCHANGED <<files, container, req, filling, applies, ingressFaults, history>>

\* Mutant: app files the request does not name are kept.
KeepStale(x) ==
  /\ stage = "stale" /\ x \in unwritten /\ unwritten' = unwritten \ {x}
  /\ UNCHANGED <<files, container, stage, req, filling, applies, ingressFaults, history>>
RemoveStale(x) ==
  /\ stage = "stale" /\ x \in unwritten /\ unwritten' = unwritten \ {x}
  /\ apps' = IF req.apps[x] = NoFile THEN [apps EXCEPT ![x] = NoFile] ELSE apps
  /\ UNCHANGED <<main, newMain, container, stage, req, filling, applies, ingressFaults, history>>

\* Nobody reads Caddyfile.tmp before it is complete.
WriteTmp ==
  /\ stage = "stale" /\ unwritten = {} /\ newMain' = req.main /\ stage' = "validate"
  /\ UNCHANGED <<apps, main, container, req, unwritten, filling, applies, ingressFaults, history>>

Ended(how) == stage' = "idle" /\ last' = how /\ unwritten' = {} /\ filling' = {}

\* podman run caddy validate, on the directory as it is.
\* Mutant: the outcome is logged and otherwise ignored.
ValidateLeniently ==
  /\ stage = "validate" /\ stage' = "install"
  /\ UNCHANGED <<files, container, req, unwritten, filling, applies, ingressFaults, history>>
Validate ==
  /\ stage = "validate"
  /\ IF Loads(Config(newMain, apps))
     THEN /\ stage' = "install" /\ checked' = checked \cup {newMain}
          /\ UNCHANGED <<last, unwritten, filling>>
     ELSE Ended("error") /\ UNCHANGED checked
  /\ UNCHANGED <<files, container, req, applies, ingressFaults, want>>

Install ==
  /\ stage = "install" /\ main' = newMain /\ newMain' = NoFile /\ stage' = "exists"
  /\ UNCHANGED <<apps, container, req, unwritten, filling, applies, ingressFaults, history>>

\* start_or_reload_caddy: a container that is found is removed; a check that fails
\* passes for one that finds none.
RemoveOld ==
  /\ stage = "exists" /\ stage' = "start"
  /\ \/ present' = FALSE /\ caddy' = NoConfig /\ UNCHANGED ingressFaults
     \/ IngressFault /\ UNCHANGED container
  /\ UNCHANGED <<files, req, unwritten, filling, applies, history>>

\* Caddy comes up with the files there are, unless it rejects them.
LoadFiles == caddy' = IF Loads(Config(main, apps)) THEN Config(main, apps) ELSE NoConfig

\* podman run --replace.
StartCaddy ==
  /\ stage = "start" /\ stage' = "firewall" /\ present' = TRUE /\ LoadFiles
  /\ UNCHANGED <<files, req, unwritten, filling, applies, ingressFaults, history>>

\* ensure_caddy_mesh_firewall, whose rules are in module Firewall.
ensure_caddy_mesh_firewall ==
  /\ stage = "firewall" /\ Ended("ok")
  /\ UNCHANGED <<files, container, req, applies, ingressFaults, want, checked>>

\* A step fails (or coold is killed): the request ends where it is.
ApplyFails ==
  /\ stage # "idle" /\ IngressFault /\ Ended("error")
  /\ UNCHANGED <<files, container, req, applies, want, checked>>

stop_caddy_ingress ==
  /\ stage = "idle" /\ present /\ present' = FALSE /\ caddy' = NoConfig
  /\ last' = "stopped"
  /\ UNCHANGED <<files, request, applies, ingressFaults, want, checked>>

\* Podman restarts the container (--restart unless-stopped), again and again when
\* Caddy rejects what the mounted files then hold and does not come up.
CaddyRestarts ==
  /\ present /\ LoadFiles
  /\ UNCHANGED <<files, present, request, applies, ingressFaults, history>>

Configs == {Config(m, a) : m \in Mains, a \in [Apps -> Versions \cup {NoFile}]}

IngressNext ==
  \/ \E c \in Configs : apply_ingress(c)
  \/ \E x \in Apps : TruncateApp(x) \/ FillApp(x) \/ RemoveStale(x)
  \/ ReadDir \/ WriteTmp \/ Validate \/ Install
  \/ RemoveOld \/ StartCaddy \/ ensure_caddy_mesh_firewall
  \/ ApplyFails \/ stop_caddy_ingress \/ CaddyRestarts

IngressSpec == IngressInit /\ [][IngressNext]_ingressVars

----------------------------------------------------------------------------

(* After an ingress.apply that reports success, Caddy serves exactly the    *)
(* configuration it was given, and a restart of the container loads that    *)
(* same configuration, whatever failed requests had left in the files.      *)
AppliedIsServed == last = "ok" => caddy = want /\ Config(main, apps) = want /\ Loads(want)

(* The Caddyfile that is installed, and the one Caddy serves, have passed   *)
(* `caddy validate`: a request that fails on the way never installs one     *)
(* that has not.                                                            *)
OnlyValidatedInstalled == {main, caddy.main} \subseteq checked \cup {NoFile}

(* Both: what an answer of ingress.apply says of the host.                  *)
IngressAsAnswered == AppliedIsServed /\ OnlyValidatedInstalled

=============================================================================

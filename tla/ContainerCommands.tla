-------------------------- MODULE ContainerCommands --------------------------
(***************************************************************************)
(* What the container commands of a host do to Podman: containers.create,  *)
(* start, stop, restart, delete and exec (coold/src/grpc/handlers.rs and   *)
(* coold/src/podman/client.rs).  Every command of the stream is handled in *)
(* a task of its own (grpc/client.rs), so an exec runs while its container *)
(* is stopped, restarted or deleted by another command.                    *)
(*                                                                         *)
(* There is one container name.  A caller may send an exec at any time and *)
(* waits for the answer to one lifecycle command before it sends the next. *)
(* That commands and answers get lost on the way is FluxDispatch's matter. *)
(***************************************************************************)
EXTENDS Integers, Sequences

CONSTANTS
  MaxRequests,   \* bound on commands
  MAX_ATTEMPTS,  \* how often exec asks whether its process has ended
  Codes,         \* exit codes of processes
  Killed,        \* exit code of a process that ends with its container
  MaxCallFaults  \* bound on calls to Podman that fail

ASSUME ContainerConstants ==
  /\ MaxRequests \in Nat /\ MAX_ATTEMPTS \in Nat \ {0} /\ MaxCallFaults \in Nat
  /\ Codes \subseteq Nat /\ Killed \in Codes

VARIABLES
  cont,     \* the container: "absent", "created", "running" or "exited"
  kind,     \* the commands sent, in the order sent
  handler,  \* where the task of each is
  proc,     \* its exec session at Podman: "none", "created", "running", "ended" or "gone"
  closed,   \* the process has closed its output
  code,     \* its exit code once it has ended, 0 before
  tries,    \* how often its task has polled
  result,   \* the response
  callFaults

commandVars == <<cont, kind, handler, proc, closed, code, tries, result, callFaults>>

Lifecycle == {"create", "start", "stop", "restart", "delete", "force"}
Requests == DOMAIN kind
NoResult == [ok |-> FALSE, code |-> 0]

CommandInit ==
  /\ cont = "absent" /\ kind = <<>> /\ handler = <<>> /\ proc = <<>> /\ closed = <<>>
  /\ code = <<>> /\ tries = <<>> /\ result = <<>> /\ callFaults = 0

\* The stream's loop spawns the handler.
Receive(k) ==
  /\ Len(kind) < MaxRequests
  /\ k \in Lifecycle => \A r \in Requests : kind[r] \in Lifecycle => handler[r] = "done"
  /\ kind' = Append(kind, k) /\ handler' = Append(handler, "call") /\ proc' = Append(proc, "none")
  /\ closed' = Append(closed, FALSE) /\ code' = Append(code, 0) /\ tries' = Append(tries, 0)
  /\ result' = Append(result, NoResult)
  /\ UNCHANGED <<cont, callFaults>>

TaskAt(r, pc) == r \in Requests /\ handler[r] = pc
TaskGoes(r, pc) == handler' = [handler EXCEPT ![r] = pc]

\* send_response.
send_response(r, ok, c) ==
  /\ TaskGoes(r, "done") /\ result' = [result EXCEPT ![r] = [ok |-> ok, code |-> c]]

(***************************************************************************)
(* Podman.  Sessions end when a running container is stopped, restarted or *)
(* removed, and are forgotten with it.                                     *)
(***************************************************************************)
Becomes(c) ==
  LET Cut(r) == cont = "running" /\ proc[r] \in {"created", "running"}
  IN /\ cont' = c
     /\ proc' = [r \in Requests |-> IF c = "absent" /\ proc[r] # "none" THEN "gone"
                                    ELSE IF Cut(r) THEN "ended" ELSE proc[r]]
     /\ code' = [r \in Requests |-> IF Cut(r) THEN Killed ELSE code[r]]
     /\ closed' = [r \in Requests |-> closed[r] \/ Cut(r)]

\* The container a command leaves, or none when Podman's answer is no success: also
\* 304, of a start that finds it running and a stop that finds it stopped.
Answers(k) ==
  CASE k = "create" /\ cont = "absent" -> {"created"}
    [] k = "start" /\ cont \in {"created", "exited"} -> {"running"}
    [] k = "stop" /\ cont = "running" -> {"exited"}
    [] k = "restart" /\ cont # "absent" -> {"running"}
    [] k = "delete" /\ cont \in {"created", "exited"} -> {"absent"}
    [] k = "force" /\ cont # "absent" -> {"absent"}
    [] OTHER -> {}

ContainerExits ==
  /\ cont = "running" /\ Becomes("exited")
  /\ UNCHANGED <<kind, handler, tries, result, callFaults>>

\* A process may close its output and run on.
OutputCloses(r) ==
  /\ r \in Requests /\ proc[r] = "running" /\ ~closed[r] /\ closed' = [closed EXCEPT ![r] = TRUE]
  /\ UNCHANGED <<cont, kind, handler, proc, code, tries, result, callFaults>>

ProcessEnds(r) ==
  /\ r \in Requests /\ proc[r] = "running"
  /\ proc' = [proc EXCEPT ![r] = "ended"] /\ closed' = [closed EXCEPT ![r] = TRUE]
  /\ \E c \in Codes : code' = [code EXCEPT ![r] = c]
  /\ UNCHANGED <<cont, kind, handler, tries, result, callFaults>>

(***************************************************************************)
(* Lifecycle commands: one call each.                                      *)
(***************************************************************************)
Untouched == UNCHANGED <<cont, proc, closed, code>>

\* Mutant: the response does not wait for Podman's.
CallUnawaited(r) ==
  /\ TaskAt(r, "call") /\ kind[r] \in Lifecycle
  /\ send_response(r, TRUE, 0) /\ Untouched
  /\ UNCHANGED <<kind, tries, callFaults>>

Call(r) ==
  /\ TaskAt(r, "call") /\ kind[r] \in Lifecycle
  /\ IF Answers(kind[r]) = {} THEN Untouched ELSE \E c \in Answers(kind[r]) : Becomes(c)
  /\ send_response(r, Answers(kind[r]) # {}, 0)
  /\ UNCHANGED <<kind, tries, callFaults>>

\* The mesh defaults or validate_create_container refuse a create: Podman is not asked.
Refused(r) ==
  /\ TaskAt(r, "call") /\ kind[r] = "create" /\ send_response(r, FALSE, 0) /\ Untouched
  /\ UNCHANGED <<kind, tries, callFaults>>

\* The connection to Podman breaks, before the command has had its effect or after.
CallFails(r) ==
  /\ r \in Requests /\ handler[r] # "done" /\ callFaults < MaxCallFaults /\ callFaults' = callFaults + 1
  /\ send_response(r, FALSE, 0)
  /\ \/ Untouched
     \/ handler[r] = "call" /\ kind[r] \in Lifecycle /\ \E c \in Answers(kind[r]) : Becomes(c)
  /\ UNCHANGED <<kind, tries>>

(***************************************************************************)
(* containers.exec.                                                        *)
(***************************************************************************)

\* A session is made in a running container only.
ExecCreate(r) ==
  /\ TaskAt(r, "call") /\ kind[r] = "exec"
  /\ IF cont = "running"
     THEN proc' = [proc EXCEPT ![r] = "created"] /\ TaskGoes(r, "start") /\ UNCHANGED result
     ELSE send_response(r, FALSE, 0) /\ UNCHANGED proc
  /\ UNCHANGED <<cont, kind, closed, code, tries, callFaults>>

ExecStart(r) ==
  /\ TaskAt(r, "start")
  /\ IF proc[r] = "created"
     THEN proc' = [proc EXCEPT ![r] = "running"] /\ TaskGoes(r, "output") /\ UNCHANGED result
     ELSE send_response(r, FALSE, 0) /\ UNCHANGED proc
  /\ UNCHANGED <<cont, kind, closed, code, tries, callFaults>>

\* The response to the start is complete when the output is.
ExecOutput(r) ==
  /\ TaskAt(r, "output") /\ closed[r] /\ TaskGoes(r, "poll")
  /\ UNCHANGED <<cont, kind, proc, closed, code, tries, result, callFaults>>

\* Mutant: the process is taken to have ended with its output.
FinishedWithOutput(r) == <<code[r]>>

\* None while it runs, else its exit code.
finished_exec_exit_code(r) == IF proc[r] = "running" THEN <<>> ELSE <<code[r]>>

\* Mutant: there is no ceiling.
PollForever(r) ==
  /\ TaskAt(r, "poll")
  /\ CASE proc[r] = "gone" -> send_response(r, FALSE, 0) /\ UNCHANGED tries
       [] proc[r] # "gone" /\ finished_exec_exit_code(r) # <<>> ->
            send_response(r, TRUE, finished_exec_exit_code(r)[1]) /\ UNCHANGED tries
       [] OTHER -> tries' = [tries EXCEPT ![r] = (@ + 1) % MAX_ATTEMPTS]
                   /\ UNCHANGED <<handler, result>>
  /\ UNCHANGED <<cont, kind, proc, closed, code, callFaults>>

\* One round of the loop; the inspection of a session that is gone is an error.
wait_exec_exit_code(r) ==
  /\ TaskAt(r, "poll")
  /\ CASE tries[r] = MAX_ATTEMPTS \/ proc[r] = "gone" ->
            send_response(r, FALSE, 0) /\ UNCHANGED tries
       [] tries[r] < MAX_ATTEMPTS /\ proc[r] # "gone" /\ finished_exec_exit_code(r) # <<>> ->
            send_response(r, TRUE, finished_exec_exit_code(r)[1]) /\ UNCHANGED tries
       [] OTHER -> tries' = [tries EXCEPT ![r] = @ + 1] /\ UNCHANGED <<handler, result>>
  /\ UNCHANGED <<cont, kind, proc, closed, code, callFaults>>

Handle(r) ==
  \/ Call(r) \/ ExecCreate(r) \/ ExecStart(r) \/ ExecOutput(r) \/ wait_exec_exit_code(r)

CommandNext ==
  \/ \E k \in Lifecycle \cup {"exec"} : Receive(k)
  \/ ContainerExits
  \/ \E r \in 1..MaxRequests :
       \/ Handle(r) \/ Refused(r) \/ CallFails(r)
       \/ OutputCloses(r) \/ ProcessEnds(r)

CommandSpec == CommandInit /\ [][CommandNext]_commandVars

\* The runtime runs every task, and Podman answers.  Processes need not end.
CommandFairSpec == CommandSpec /\ \A r \in 1..MaxRequests : WF_commandVars(Handle(r))

(***************************************************************************)
(* Properties.                                                             *)
(***************************************************************************)

\* An exit code that containers.exec reports is that of a process that has ended,
\* whatever other commands do to its container meanwhile: never the 0 that stands in
\* the session of a process that has only closed its output.
ExecHonest ==
  \A r \in Requests :
     kind[r] = "exec" /\ result[r].ok => proc[r] # "running" /\ result[r].code = code[r]

\* What a lifecycle command that succeeded leaves, up to the container's own exit.
Leaves(k) ==
  CASE k = "create" -> {"created"}
    [] k \in {"start", "restart"} -> {"running", "exited"}
    [] k = "stop" -> {"exited"}
    [] OTHER -> {"absent"}

\* For a caller that awaits each lifecycle answer, the last success is the state of
\* the container, up to its own exit: no earlier command takes effect late.
ConfirmedStays ==
  \A r \in Requests :
     /\ kind[r] \in Lifecycle /\ result[r].ok
     /\ \A q \in Requests : q > r => kind[q] = "exec"
     => cont \in Leaves(kind[r])

\* Both: what the answers to the commands of a host say of its container.
CommandsAsAnswered == ExecHonest /\ ConfirmedStays

\* Once a process has closed its output its exec is answered, also when the process
\* never ends: the polls have a ceiling.
ExecAnswered ==
  []<>(\A r \in Requests : kind[r] = "exec" /\ closed[r] => handler[r] = "done")
=============================================================================

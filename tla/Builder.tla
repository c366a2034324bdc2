------------------------------- MODULE Builder -------------------------------
(***************************************************************************)
(* Builds: coold's dispatch adapter (coold/src/builder), the transient     *)
(* systemd unit it starts for each build, and the builder process in it    *)
(* (builder, builder-core).  coold reads the process's final frame from a  *)
(* pipe; the process also leaves result.json or error.json in the work     *)
(* directory, from which a coold that has been restarted answers for the   *)
(* units it finds.  A unit is run with --collect: systemd forgets it when  *)
(* it has ended.                                                           *)
(*                                                                         *)
(* coold's half is not part of the program that is built today: the crate  *)
(* declares no module builder, and the protobuf messages it imports are    *)
(* gone.  dispatch, cancel and resume_or_reap are taken as its entry       *)
(* points, the last one run once when coold starts, as its comment says.   *)
(***************************************************************************)
EXTENDS Naturals, FiniteSets, Sequences

CONSTANTS
  Builds,     \* request ids
  BadIds,     \* those is_valid_request_id refuses
  OtherRef,   \* those that ask for a ref other than the default branch
  Capacity,   \* permits of the semaphore
  MaxBuildFaults, \* bound on failed steps of coold and on processes killed
  MaxStops,   \* bound on cancellations and timeouts
  MaxCrashes  \* bound on restarts of coold

ASSUME BuilderConstants ==
  /\ BadIds \subseteq Builds /\ OtherRef \subseteq Builds /\ Capacity \in Nat
  /\ MaxBuildFaults \in Nat /\ MaxStops \in Nat /\ MaxCrashes \in Nat

VARIABLES
  up,       \* coold runs
  asked,    \* builds dispatched so far
  task,     \* coold's task for a build
  permits,  \* builds that hold a permit
  active,   \* the map of active builds
  resume,   \* units resume_or_reap has listed and not handled
  body,     \* what a task is about to answer
  answers,  \* history: the responses sent for a build
  unit,     \* the unit: "none", "active", "stopping" (told to by systemd), "gone"
  at,       \* where its builder process stands
  term,     \* it has been sent SIGTERM
  head,     \* what its clone has checked out
  verdict,  \* how the build ended
  frame,    \* the final frame coold's reader has seen
  dir,      \* the work directory
  buildFaults, stops, crashes

coold == <<up, asked, task, permits, active, resume, body, answers>>
process == <<at, head, verdict>>
bounds == <<buildFaults, stops, crashes>>
builderVars == <<coold, unit, process, term, frame, dir, bounds>>

BuildInit ==
  /\ up = TRUE /\ asked = {} /\ permits = {} /\ active = {} /\ resume = {}
  /\ task = [b \in Builds |-> "none"] /\ body = [b \in Builds |-> "none"]
  /\ answers = [b \in Builds |-> <<>>] /\ unit = [b \in Builds |-> "none"]
  /\ at = [b \in Builds |-> "none"] /\ term = [b \in Builds |-> FALSE]
  /\ head = [b \in Builds |-> "none"] /\ verdict = [b \in Builds |-> "none"]
  /\ frame = [b \in Builds |-> "none"] /\ dir = [b \in Builds |-> "absent"]
  /\ buildFaults = 0 /\ stops = 0 /\ crashes = 0

Fault == buildFaults < MaxBuildFaults /\ buildFaults' = buildFaults + 1 /\ UNCHANGED <<stops, crashes>>
Stop == stops < MaxStops /\ stops' = stops + 1 /\ UNCHANGED <<buildFaults, crashes>>

Permits == IF Capacity = 0 THEN 1 ELSE Capacity

(***************************************************************************)
(* dispatch, run_build and spawn_and_reap.                                 *)
(***************************************************************************)
Answer(b, r) == answers' = [answers EXCEPT ![b] = Append(@, r)]

dispatch(b) ==
  /\ up /\ b \notin asked /\ asked' = asked \cup {b}
  /\ IF b \in BadIds
     THEN Answer(b, "err") /\ UNCHANGED task
     ELSE task' = [task EXCEPT ![b] = "queued"] /\ UNCHANGED answers
  /\ UNCHANGED <<up, permits, active, resume, body, unit, process, term, frame, dir, bounds>>

Acquire(b) ==
  /\ task[b] = "queued" /\ Cardinality(permits) < Permits
  /\ permits' = permits \cup {b}
  /\ task' = [task EXCEPT ![b] = "setup"]
  /\ UNCHANGED <<up, asked, active, resume, body, answers, unit, process, term, frame, dir, bounds>>

\* The task goes on to answer r with its permit dropped.
Finish(b, r) ==
  /\ permits' = permits \ {b}
  /\ task' = [task EXCEPT ![b] = "respond"] /\ body' = [body EXCEPT ![b] = r]

\* Mutant: an error in the setup returns with the permit.
FinishKeeping(b, r) ==
  /\ UNCHANGED permits
  /\ task' = [task EXCEPT ![b] = "respond"] /\ body' = [body EXCEPT ![b] = r]

\* mkdir, request.json, and the entry in the map of active builds.
Setup(b) ==
  /\ task[b] = "setup" /\ task' = [task EXCEPT ![b] = "spawn"]
  /\ dir' = [dir EXCEPT ![b] = "request"]
  /\ active' = active \cup {b}
  /\ UNCHANGED <<up, asked, permits, resume, body, answers, unit, process, term, frame, bounds>>

\* Mutant: see FinishKeeping.
SetupFailsKeeping(b) ==
  /\ task[b] = "setup" /\ Fault
  /\ dir' \in {dir, [dir EXCEPT ![b] = "request"]}
  /\ FinishKeeping(b, "err")
  /\ UNCHANGED <<up, asked, active, resume, answers, unit, process, term, frame>>

\* A step of the setup fails: the directory, if made, is left behind.
SetupFails(b) ==
  /\ task[b] = "setup" /\ Fault
  /\ dir' \in {dir, [dir EXCEPT ![b] = "request"]}
  /\ Finish(b, "err")
  /\ UNCHANGED <<up, asked, active, resume, answers, unit, process, term, frame>>

Spawn(b) ==
  /\ task[b] = "spawn" /\ task' = [task EXCEPT ![b] = "reading"]
  /\ UNCHANGED <<up, asked, permits, active, resume, body, answers, unit, process, term, frame, dir, bounds>>

\* spawn_and_reap has its outcome: run_build takes the build off the map and
\* removes its directory, dispatch drops the permit.
Reaped(b, r) ==
  /\ active' = active \ {b} /\ dir' = [dir EXCEPT ![b] = "absent"] /\ Finish(b, r)

SpawnFails(b) ==
  /\ task[b] = "spawn" /\ Fault /\ Reaped(b, "err")
  /\ UNCHANGED <<up, asked, resume, answers, unit, process, term, frame>>

\* systemd-run ends with its unit; without a final frame the answer is an error.
Reap(b) ==
  /\ task[b] = "reading" /\ unit[b] = "gone"
  /\ Reaped(b, IF frame[b] = "ok" THEN "ok" ELSE "err")
  /\ UNCHANGED <<up, asked, resume, answers, unit, process, term, frame, bounds>>

\* systemd-run cannot start the unit and ends without a frame.
UnitRefused(b) ==
  /\ task[b] = "reading" /\ unit[b] = "none" /\ Fault
  /\ unit' = [unit EXCEPT ![b] = "gone"]
  /\ UNCHANGED <<coold, process, term, frame, dir>>

Respond(b) ==
  /\ task[b] = "respond" /\ task' = [task EXCEPT ![b] = "done"]
  /\ Answer(b, body[b])
  /\ UNCHANGED <<up, asked, permits, active, resume, body, unit, process, term, frame, dir, bounds>>

(***************************************************************************)
(* The unit and its builder process.                                       *)
(***************************************************************************)
UnitStarts(b) ==
  /\ task[b] = "reading" /\ unit[b] = "none"
  /\ unit' = [unit EXCEPT ![b] = "active"] /\ at' = [at EXCEPT ![b] = "load"]
  /\ UNCHANGED <<coold, head, verdict, term, frame, dir, bounds>>

Runs(b) == unit[b] \in {"active", "stopping"}
Goes(b, s) == at' = [at EXCEPT ![b] = s]
Outcome(b, r) == verdict' = [verdict EXCEPT ![b] = r] /\ Goes(b, "persist")

\* builder's main reads the request and installs its SIGTERM handler, which
\* from then on races with the build.
LoadRequest(b) ==
  /\ at[b] = "load" /\ Runs(b) /\ ~term[b]
  /\ Goes(b, "clone")
  /\ UNCHANGED <<coold, unit, head, verdict, term, frame, dir, bounds>>

GitClone(b) ==
  /\ at[b] = "clone" /\ Runs(b)
  /\ Goes(b, "checkout") /\ head' = [head EXCEPT ![b] = "default"]
  /\ UNCHANGED <<coold, unit, verdict, term, frame, dir, bounds>>

\* `git checkout -- <git_ref>`: after the dashes git takes a path, so HEAD stays;
\* the command fails unless the repository has a file of that name.
GitCheckout(b) ==
  /\ at[b] = "checkout" /\ Runs(b)
  /\ \E isPath \in BOOLEAN : Goes(b, IF isPath THEN "detect" ELSE "fetch")
  /\ UNCHANGED <<coold, unit, head, verdict, term, frame, dir, bounds>>

\* `git fetch origin -- <git_ref>`, then `git checkout -- FETCH_HEAD`, again a
\* path, whose failure is not looked at.
GitFetch(b) ==
  /\ at[b] = "fetch" /\ Runs(b) /\ Goes(b, "detect")
  /\ UNCHANGED <<coold, unit, head, verdict, term, frame, dir, bounds>>

\* The output directory is there and the Containerfile is written.
Detect(b) ==
  /\ at[b] = "detect" /\ Runs(b) /\ Goes(b, "bud")
  /\ UNCHANGED <<coold, unit, head, verdict, term, frame, dir, bounds>>

\* buildah bud, and the digest of the image from the iidfile.
BuildahBud(b) ==
  /\ at[b] = "bud" /\ Runs(b) /\ Outcome(b, "ok")
  /\ UNCHANGED <<coold, unit, head, term, frame, dir, bounds>>

Building == {"clone", "checkout", "fetch", "detect", "bud"}

\* The request does not parse, its stack is not implemented or its settings are
\* refused; or a command of the pipeline fails.
BuildFails(b) ==
  /\ at[b] \in {"load"} \cup Building /\ Runs(b) /\ Outcome(b, "err")
  /\ UNCHANGED <<coold, unit, head, term, frame, dir, bounds>>

\* The SIGTERM branch of the select: error 499.
Cancelled(b) ==
  /\ at[b] \in Building /\ Runs(b) /\ term[b] /\ Outcome(b, "err")
  /\ UNCHANGED <<coold, unit, head, term, frame, dir, bounds>>

\* write_json_atomic: result.json or error.json; its failure is only logged.
Persist(b) ==
  /\ at[b] = "persist" /\ Runs(b) /\ Goes(b, "frame")
  /\ \/ dir' = [dir EXCEPT ![b] = IF @ = "absent" THEN @ ELSE verdict[b]] /\ UNCHANGED bounds
     \/ Fault /\ UNCHANGED dir
  /\ UNCHANGED <<coold, unit, head, verdict, term, frame>>

\* emit_frame writes to the pipe, if someone still reads it; the process ends.
EmitFrame(b) ==
  /\ at[b] = "frame" /\ Runs(b) /\ Goes(b, "exit")
  /\ frame' = IF task[b] = "reading" THEN [frame EXCEPT ![b] = verdict[b]] ELSE frame
  /\ unit' = [unit EXCEPT ![b] = "gone"]
  /\ UNCHANGED <<coold, head, verdict, term, dir, bounds>>

\* The process dies: of SIGTERM before it handles it, of the memory limit, or
\* of the SIGKILL that follows a stop.
Dies(b) ==
  /\ Runs(b)
  /\ \/ at[b] = "load" /\ term[b] /\ UNCHANGED bounds
     \/ Fault
  /\ Goes(b, "exit") /\ unit' = [unit EXCEPT ![b] = "gone"]
  /\ UNCHANGED <<coold, head, verdict, term, frame, dir>>

\* cancel: `systemctl kill` to the unit of an active build, if it is loaded.
cancel(b) ==
  /\ up /\ b \in active /\ Stop
  /\ term' = [term EXCEPT ![b] = @ \/ Runs(b)]
  /\ UNCHANGED <<coold, unit, process, frame, dir>>

\* RuntimeMaxSec: systemd stops the unit, which is no longer "active".
TimesOut(b) ==
  /\ unit[b] = "active" /\ Stop
  /\ unit' = [unit EXCEPT ![b] = "stopping"] /\ term' = [term EXCEPT ![b] = TRUE]
  /\ UNCHANGED <<coold, process, frame, dir>>

(***************************************************************************)
(* Restarts: resume_or_reap and wait_and_emit.                             *)
(***************************************************************************)
Crash ==
  /\ up /\ up' = FALSE
  /\ crashes < MaxCrashes /\ crashes' = crashes + 1
  /\ task' = [b \in Builds |-> "none"] /\ body' = [b \in Builds |-> "none"]
  /\ permits' = {} /\ active' = {} /\ resume' = {}
  /\ UNCHANGED <<asked, answers, unit, process, term, frame, dir, buildFaults, stops>>

Start ==
  /\ ~up /\ up' = TRUE
  /\ resume' = {b \in Builds : Runs(b)}
  /\ UNCHANGED <<asked, task, permits, active, body, answers, unit, process, term, frame, dir, bounds>>

\* Mutant: a missing file passes for a result.
StoredOrOk(b) == IF dir[b] = "err" THEN "err" ELSE "ok"

\* result.json, else error.json, else a fabricated error.
StoredBody(b) == IF dir[b] = "ok" THEN "ok" ELSE "err"

\* Mutant: an adopted unit is also answered for at once.
ResumeBoth(b) ==
  /\ b \in resume /\ resume' = resume \ {b}
  /\ active' = active \cup {b} /\ task' = [task EXCEPT ![b] = "polling"]
  /\ Answer(b, StoredBody(b))
  /\ UNCHANGED <<up, asked, permits, body, unit, process, term, frame, dir, bounds>>

\* systemctl is-active says no, or cannot be run.
Inactive(b) == (unit[b] # "active" /\ UNCHANGED bounds) \/ Fault

\* A unit that is-active holds for is adopted; for one that has just ended, or
\* is being stopped, the answer is what the directory holds.
Resume(b) ==
  /\ b \in resume /\ resume' = resume \ {b}
  /\ \/ /\ unit[b] = "active" /\ UNCHANGED bounds
        /\ active' = active \cup {b} /\ task' = [task EXCEPT ![b] = "polling"]
        /\ UNCHANGED <<answers, dir>>
     \/ /\ Inactive(b)
        /\ Answer(b, StoredBody(b)) /\ dir' = [dir EXCEPT ![b] = "absent"]
        /\ UNCHANGED <<active, task>>
  /\ UNCHANGED <<up, asked, permits, body, unit, process, term, frame>>

wait_and_emit(b) ==
  /\ task[b] = "polling" /\ Inactive(b)
  /\ Answer(b, StoredBody(b))
  /\ active' = active \ {b} /\ dir' = [dir EXCEPT ![b] = "absent"]
  /\ task' = [task EXCEPT ![b] = "done"]
  /\ UNCHANGED <<up, asked, permits, resume, body, unit, process, term, frame>>

(***************************************************************************)
(* Specification.                                                          *)
(***************************************************************************)
CooldSteps(b) ==
  \/ Acquire(b) \/ Setup(b) \/ Spawn(b) \/ Reap(b) \/ Respond(b)
  \/ Resume(b) \/ wait_and_emit(b)

ProcessSteps(b) ==
  \/ UnitStarts(b) \/ LoadRequest(b) \/ GitClone(b) \/ GitCheckout(b) \/ GitFetch(b) \/ Detect(b)
  \/ BuildahBud(b) \/ BuildFails(b) \/ Cancelled(b) \/ Persist(b) \/ EmitFrame(b) \/ Dies(b)

Faulty(b) == SetupFails(b) \/ SpawnFails(b) \/ UnitRefused(b)

BuildNext ==
  \/ \E b \in Builds :
       dispatch(b) \/ CooldSteps(b) \/ ProcessSteps(b) \/ Faulty(b) \/ cancel(b) \/ TimesOut(b)
  \/ Crash \/ Start

BuildSpec == BuildInit /\ [][BuildNext]_builderVars

\* Tasks are scheduled, commands and processes end (RuntimeMaxSec sees to it),
\* and systemd starts coold again.
BuildFairness ==
  /\ \A b \in Builds : WF_builderVars(CooldSteps(b) \/ Faulty(b)) /\ WF_builderVars(ProcessSteps(b))
  /\ WF_builderVars(Start)

BuildFairSpec == BuildSpec /\ BuildFairness

(***************************************************************************)
(* Properties.                                                             *)
(***************************************************************************)

\* A build is answered once, also when coold is restarted while its unit runs, ends
\* or is being stopped and the answer comes from another task.  Each further answer
\* takes a further restart: a coold that starts while systemd still stops the unit
\* answers for it anew.
AnsweredOnce == \A b \in Builds : Len(answers[b]) <= IF crashes = 0 THEN 1 ELSE crashes

\* An answer "ok" is given only for a build that produced its image: a kill, a
\* timeout, a cancellation or a lost file is never taken for a success.
OkMeansBuilt == \A b \in Builds : \A i \in DOMAIN answers[b] : answers[b][i] = "ok" => verdict[b] = "ok"

\* Both: what the answers to builds say.
BuildsAsAnswered == AnsweredOnce /\ OkMeansBuilt

\* Every build that is asked for is answered, as long as coold is not restarted,
\* whichever of its steps, commands or processes fail.
EveryBuildAnswered == []<>(\A b \in asked : Len(answers[b]) > 0)

\* resume_or_reap's promise: a build that ends while coold is down is answered
\* for when it is back.
FinishedIsDelivered ==
  \A b \in Builds : (~up /\ dir[b] = "ok" /\ answers[b] = <<>>) ~> answers[b] # <<>>

\* A build that succeeds was made from the ref that was asked for.
BuildsRequestedRef ==
  \A b \in Builds : verdict[b] = "ok" => head[b] = IF b \in OtherRef THEN "requested" ELSE "default"
==============================================================================

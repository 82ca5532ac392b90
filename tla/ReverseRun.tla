------------------------------ MODULE ReverseRun ------------------------------
(***************************************************************************)
(* reverse/analysis.py, ReverseAnalysisManager, with the routes that call  *)
(* it and the repair at start-up: the life of one reverse project, its     *)
(* analysis runs, and the background tasks that work on them.              *)
(*                                                                         *)
(* One event loop runs everything, so an action is a stretch of code       *)
(* between two awaits.  "task" are the background tasks, "cur" is the      *)
(* entry of _tasks, "lock" is the lock of the project, and "call" are the  *)
(* requests that are suspended at an await.  Most operations take the lock *)
(* and ask is_active first; stop, approve_extension and deny_extension do  *)
(* not.  A refused request changes nothing and is no step.                 *)
(*                                                                         *)
(* What the model says in a turn, the passes of the review, and the text   *)
(* of a report are in ReverseTurns; here a report is present or not, and a *)
(* signature covers the present one or an earlier one.                     *)
(***************************************************************************)
EXTENDS Integers, FiniteSets

CONSTANTS
  MaxRuns,    \* bound on the analyses begun
  Task,       \* slots for background tasks, reused
  NoTask,     \* _tasks has no entry
  Client,     \* slots for requests, reused
  NoClient,   \* nobody holds the lock
  Explored,   \* which of the Limits are followed
  MaxTurns    \* the turns a run is given, and the bound on those left

\* Interleavings after which the code does not keep what it keeps otherwise
\* (section 4 of the README): a denial while another request or task is under
\* way, a review that continues a run the project has moved on from, and a
\* recovery that publishes nothing: the review sends the report back to work, or
\* reviewing or publishing fails or is cancelled.
Limits == {"denial overlaps", "older run continues", "recovery unpublished"}

ASSUME BoundsAssumption == MaxRuns \in Nat \ {0} /\ MaxTurns \in Nat \ {0}
ASSUME ExploredAssumption == Explored \subseteq Limits
ASSUME NoneAssumption == NoTask \notin Task /\ NoClient \notin Client

VARIABLES
  run,      \* ReverseRun rows
  project,  \* status and active_run_id of the project
  task, cur,
  lock, call,
  up        \* FALSE from the shutdown to the next start

vars == <<run, project, task, cur, lock, call, up>>

Runs == 1 .. MaxRuns
Busy == {"queued", "running", "verifying"}
ACTIVE_STATUSES == Busy \cup {"stopping"}
NoRun == [status |-> "none", stop |-> FALSE, left |-> 0,
          report |-> FALSE, sig |-> "none", covered |-> FALSE]
IdleTask == [at |-> "idle", kind |-> "run", run |-> 1,
             cancel |-> FALSE, stale |-> FALSE]
IdleCall == [at |-> "idle", run |-> 1, on |-> NoTask, stale |-> FALSE]

Init ==
  /\ run = [r \in Runs |-> NoRun]
  /\ project = [status |-> "ready", active |-> 0]
  /\ task = [t \in Task |-> IdleTask] /\ cur = NoTask
  /\ lock = NoClient /\ call = [c \in Client |-> IdleCall]
  /\ up = TRUE

Live(t) == task[t].at # "idle"
is_active == cur # NoTask

Least(a, b) == IF a < b THEN a ELSE b

\* The run of the project, 0 when there is none.
Current == project.active

\* order_by(created_at.desc()).limit(1) over the runs with a report.
Reported == {r \in Runs : run[r].report}
LatestReported == CHOOSE r \in Reported : \A q \in Reported : q <= r

-----------------------------------------------------------------------------
(* What several handlers share.                                            *)

\* The row of r becomes rec, the project takes the status s.
Store(r, rec, s) ==
  /\ run' = [run EXCEPT ![r] = rec]
  /\ project' = [project EXCEPT !.status = s]

Marked(r, s) == [run[r] EXCEPT !.status = s]

\* _mark_stopped, _mark_failed, _mark_awaiting_turn_approval
Mark(r, s) == Store(r, Marked(r, s), s)

\* _spawn and _track_task: the entry of _tasks is overwritten.
Spawn(kind, r) ==
  \E t \in Task :
    /\ ~Live(t)
    /\ task' = [task EXCEPT ![t] = [IdleTask EXCEPT !.at = "new",
                                                    !.kind = kind, !.run = r]]
    /\ cur' = t

\* A task ends: its callback removes it if it is still the current one, and a
\* stop that waited for it returns.
Finish(t) ==
  /\ task' = [task EXCEPT ![t] = IdleTask]
  /\ cur' = IF cur = t THEN NoTask ELSE cur
  /\ call' = [c \in Client |-> IF call[c].on = t THEN IdleCall ELSE call[c]]

\* A signature that is being made of a report of r is one of an older report.
Outdated(actors, r) ==
  [x \in DOMAIN actors |->
     IF actors[x].at = "sign" /\ actors[x].run = r
     THEN [actors[x] EXCEPT !.stale = TRUE] ELSE actors[x]]

\* Mutant: publishing leaves the status of the earlier signature.
PublishedStillSigned(r) ==
  [run[r] EXCEPT !.status = "completed", !.report = TRUE,
                 !.sig = IF @ = "signed" THEN @ ELSE "pending",
                 !.covered = FALSE]

\* _persist_report on the row.
Published(r) ==
  [run[r] EXCEPT !.status = "completed", !.report = TRUE,
                 !.sig = "pending", !.covered = FALSE]

Publish(r) ==
  /\ run' = [run EXCEPT ![r] = Published(r)]
  /\ project' = [status |-> "completed", active |-> r]

\* The commit that ends _attempt_report_signature.
Signature(r, stale) ==
  \E ok \in BOOLEAN :
    run' = [run EXCEPT ![r].sig = IF ok THEN "signed" ELSE "failed",
                       ![r].covered = @ \/ (ok /\ ~stale)]

-----------------------------------------------------------------------------
(* The background task, from one await to the next.                        *)

Working(t, at) == task[t].at = at /\ ~task[t].cancel
Await(t, at) == task' = [task EXCEPT ![t].at = at] /\ UNCHANGED <<cur, call>>

\* The head of the loop in _run, for a run whose row is now rec and a project
\* whose status is now s.
LoopHead(t, rec, s) ==
  LET r == task[t].run IN
  \/ /\ rec.stop
     /\ Store(r, [rec EXCEPT !.status = "stopped"], "stopped") /\ Finish(t)
  \/ /\ ~rec.stop /\ rec.left = 0
     /\ Store(r, [rec EXCEPT !.status = "awaiting"], "awaiting") /\ Finish(t)
  \/ /\ ~rec.stop /\ rec.left > 0
     /\ Store(r, rec, s) /\ Await(t, "provider")

\* _finalize up to its first await.
Finalize(t, rec) ==
  /\ Store(task[t].run, [rec EXCEPT !.status = "verifying"],
           "verifying")
  /\ Await(t, "review")

RunBegins(t) ==
  /\ Working(t, "new")
  /\ IF task[t].kind = "run"
     THEN LoopHead(t, Marked(task[t].run, "running"), "running")
     ELSE Mark(task[t].run, "running") /\ Await(t, "provider")
  /\ UNCHANGED <<lock, up>>

\* The provider answers: the turn is counted, then there is nothing to run, an
\* operation to run, or a report (also the marker after an earlier draft).
TurnEnds(t) ==
  LET r == task[t].run
      rec == [run[r] EXCEPT !.left = IF @ = 0 THEN 0 ELSE @ - 1] IN
  /\ Working(t, "provider") /\ task[t].kind = "run"
  /\ \/ LoopHead(t, rec, project.status)
     \/ Store(r, rec, project.status) /\ Await(t, "tool")
     \/ Finalize(t, rec)
  /\ UNCHANGED <<lock, up>>

\* _finalize_after_denial: the answer, the saved draft, or a blocked report.
DenialAnswered(t) ==
  /\ Working(t, "provider") /\ task[t].kind = "denial"
  /\ Finalize(t, run[task[t].run])
  /\ UNCHANGED <<lock, up>>

\* Mutant: after a transient error the task just returns.
ProviderFailsSilently(t) ==
  /\ Working(t, "provider")
  /\ Finish(t)
  /\ UNCHANGED <<run, project, lock, up>>

\* A transient provider error stops a run; any other error fails it.
ProviderFails(t) ==
  /\ Working(t, "provider")
  /\ \/ task[t].kind = "run" /\ Mark(task[t].run, "stopped")
     \/ Mark(task[t].run, "failed")
  /\ Finish(t)
  /\ UNCHANGED <<lock, up>>

ToolReturns(t) ==
  /\ Working(t, "tool")
  /\ \/ LoopHead(t, run[task[t].run], project.status)
     \/ Mark(task[t].run, "failed") /\ Finish(t)
  /\ UNCHANGED <<lock, up>>

\* The review asks for more work; the same task goes on if turns are left.
ReviewContinues(t) ==
  LET r == task[t].run IN
  /\ Working(t, "review") /\ task[t].kind = "run"
  /\ IF run[r].left = 0
     THEN Mark(r, "awaiting") /\ Finish(t)
     ELSE LoopHead(t, Marked(r, "running"), "running")
  /\ UNCHANGED <<lock, up>>

ReviewPublishes(t) ==
  LET r == task[t].run IN
  /\ Working(t, "review")
  /\ Publish(r)
  /\ task' = [Outdated(task, r) EXCEPT ![t].at = "sign"]
  /\ call' = Outdated(call, r)
  /\ UNCHANGED <<cur, lock, up>>

\* The report could not be stored.
PublishingFails(t) ==
  /\ Working(t, "review")
  /\ Mark(task[t].run, "failed") /\ Finish(t)
  /\ UNCHANGED <<lock, up>>

SigningEnds(t) ==
  /\ Working(t, "sign")
  /\ Signature(task[t].run, task[t].stale)
  /\ Finish(t)
  /\ UNCHANGED <<project, lock, up>>

\* Cancellation reaches the task at its await.  _run catches it once it has
\* begun; _finalize_after_denial does not, nor does a task that never ran.
Unwind(t) ==
  /\ task[t].cancel
  /\ IF task[t].kind = "run" /\ task[t].at # "new"
     THEN Mark(task[t].run, "stopped")
     ELSE UNCHANGED <<run, project>>
  /\ Finish(t)
  /\ UNCHANGED <<lock, up>>

TaskStep(t) ==
  \/ RunBegins(t) \/ TurnEnds(t) \/ DenialAnswered(t) \/ ProviderFails(t)
  \/ ToolReturns(t) \/ ReviewContinues(t) \/ ReviewPublishes(t)
  \/ PublishingFails(t) \/ SigningEnds(t) \/ Unwind(t)

-----------------------------------------------------------------------------
(* The requests.                                                           *)

Request(c, at, r, on) ==
  call' = [call EXCEPT ![c] = [IdleCall EXCEPT !.at = at, !.run = r, !.on = on]]

Resumable(r) == run[r].status \in {"stopped", "failed", "awaiting"}

\* Mutant: only the lock is asked.
TakeLockOnly(c) == lock = NoClient /\ lock' = c

\* async with self._lock: taken by a request that is not refused.
TakeLock(c) == lock = NoClient /\ ~is_active /\ lock' = c
Holds(c, at) == call[c].at = at /\ lock = c
Return(c) == call' = [call EXCEPT ![c] = IdleCall] /\ lock' = NoClient

New(c) == call[c].at = "idle" /\ up

\* start and replay: the sandbox is made ready first, then the run is stored.
\* Which runs exist is the same when the sandbox answers, because only the
\* holder of the lock makes one.
Exists(r) == run[r].status # "none"

start(c) ==
  /\ New(c) /\ TakeLock(c)
  /\ Request(c, "start", 1, NoTask)
  /\ UNCHANGED <<run, project, task, cur, up>>

\* What start stores: run r is new, and becomes the run of the project.
NewRun(r, turns, active) ==
  /\ ~Exists(r) /\ \A q \in 1 .. r - 1 : Exists(q)
  /\ run' = [run EXCEPT ![r] = [NoRun EXCEPT !.status = "queued", !.left = turns]]
  /\ project' = [status |-> "queued", active |-> active]
  /\ Spawn("run", r)

\* Mutant: the project keeps the run it had.
StartedBehind(c) ==
  /\ Holds(c, "start")
  /\ \E r \in Runs : NewRun(r, MaxTurns, IF Current = 0 THEN r ELSE Current)
  /\ Return(c)
  /\ UNCHANGED up

Started(c) ==
  /\ Holds(c, "start")
  /\ \E r \in Runs : NewRun(r, MaxTurns, r)
  /\ Return(c)
  /\ UNCHANGED up

\* resume, also as continue_investigation of a run that stopped early, and as
\* the second half of approve_extension.
resume(c) ==
  /\ New(c) \/ call[c].at = "approved"
  /\ TakeLock(c)
  /\ Current # 0 /\ Resumable(Current)
  /\ Request(c, "resume", Current, NoTask)
  /\ UNCHANGED <<run, project, task, cur, up>>

\* A refused second half of approve_extension.
ApprovalRefused(c) ==
  /\ call[c].at = "approved" /\ lock = NoClient
  /\ is_active \/ ~Resumable(Current)
  /\ call' = [call EXCEPT ![c] = IdleCall]
  /\ UNCHANGED <<run, project, task, cur, lock, up>>

Requeued(r) == [run[r] EXCEPT !.status = "queued", !.stop = FALSE]

Resumed(c) ==
  /\ Holds(c, "resume")
  /\ IF Resumable(Current)
     THEN Store(Current, Requeued(Current), "queued") /\ Spawn("run", Current)
     ELSE UNCHANGED <<run, project, task, cur>>
  /\ Return(c)
  /\ UNCHANGED up

\* continue_investigation of a published report.
continue_investigation(c) ==
  /\ New(c) /\ TakeLock(c)
  /\ Current # 0 /\ run[Current].status = "completed" /\ run[Current].report
  /\ Request(c, "continue", Current, NoTask)
  /\ UNCHANGED <<run, project, task, cur, up>>

Continued(c) ==
  LET r == call[c].run IN
  /\ Holds(c, "continue")
  /\ IF run[r].status = "completed"
     THEN /\ Store(r, [Requeued(r) EXCEPT !.left = IF @ = 0 THEN MaxTurns ELSE @],
                   "queued")
          /\ Spawn("run", r)
     ELSE UNCHANGED <<run, project, task, cur>>
  /\ Return(c)
  /\ UNCHANGED up

\* The sandbox is not available or its image has changed, the review or the
\* signing raises, or the client goes away: nothing was stored by then.
CallFails(c) ==
  /\ call[c].at \in {"start", "resume", "continue", "reverify", "sign"} /\ lock = c
  /\ Return(c)
  /\ UNCHANGED <<run, project, task, cur, up>>

approve_extension(c) ==
  /\ New(c)
  /\ Current # 0 /\ run[Current].status = "awaiting"
  /\ run' = [run EXCEPT ![Current].left = Least(@ + MaxTurns, MaxTurns)]
  /\ Request(c, "approved", Current, NoTask)
  /\ UNCHANGED <<project, task, cur, lock, up>>

deny_extension(c) ==
  /\ New(c)
  /\ Current # 0 /\ run[Current].status = "awaiting"
  /\ Mark(Current, "queued")
  /\ Spawn("denial", Current)
  /\ "denial overlaps" \in Explored \/ (lock = NoClient /\ ~is_active)
  /\ UNCHANGED <<lock, call, up>>

\* stop: the flag and the status first, then the task is cancelled.
stop(c) ==
  /\ New(c)
  /\ Current # 0 /\ run[Current].status \in ACTIVE_STATUSES \cup {"awaiting"}
  /\ IF is_active
     THEN /\ Store(Current, [Marked(Current, "stopping") EXCEPT !.stop = TRUE],
                   "stopping")
          /\ task' = [task EXCEPT ![cur].cancel = TRUE]
          /\ Request(c, "stop", Current, cur)
     ELSE /\ Store(Current, [Marked(Current, "stopped") EXCEPT !.stop = TRUE],
                   "stopped")
          /\ UNCHANGED <<task, call>>
  /\ UNCHANGED <<cur, lock, up>>

StopTimesOut(c) ==
  /\ call[c].at = "stop"
  /\ Mark(call[c].run, "stopped")
  /\ call' = [call EXCEPT ![c] = IdleCall]
  /\ UNCHANGED <<task, cur, lock, up>>

retry_report_signature(c) ==
  /\ New(c) /\ TakeLock(c)
  /\ Reported # {} /\ run[LatestReported].sig # "signed"
  /\ Request(c, "sign", LatestReported, NoTask)
  /\ UNCHANGED <<run, project, task, cur, up>>

CallSigned(c) ==
  /\ Holds(c, "sign")
  /\ Signature(call[c].run, call[c].stale)
  /\ Return(c)
  /\ UNCHANGED <<project, task, cur, up>>

retry_report_verification(c) ==
  /\ New(c) /\ TakeLock(c)
  /\ Reported # {}
  /\ Request(c, "reverify", LatestReported, NoTask)
  /\ UNCHANGED <<run, project, task, cur, up>>

\* The review of a published report asks for more work.
ReverifyContinues(c) ==
  LET r == call[c].run IN
  /\ Holds(c, "reverify")
  /\ IF run[r].left = 0
     THEN Mark(r, "awaiting") /\ UNCHANGED <<task, cur>>
     ELSE Mark(r, "queued") /\ Spawn("run", r)
  /\ Return(c)
  /\ "older run continues" \in Explored \/ r = Current
  /\ UNCHANGED up

\* The review accepts it as it is; it is signed unless it is already.
ReverifyAccepts(c) ==
  LET r == call[c].run IN
  /\ Holds(c, "reverify")
  /\ project' = IF run[r].status = "completed"
                THEN [status |-> "completed", active |-> r] ELSE project
  /\ IF run[r].sig = "signed"
     THEN Return(c)
     ELSE Request(c, "sign", r, NoTask) /\ UNCHANGED lock
  /\ UNCHANGED <<run, task, cur, up>>

\* A request publishes a report, after a revision or a recovery.
CallPublishes(c) ==
  LET r == call[c].run IN
  /\ call[c].at \in {"reverify", "recover"} /\ lock = c
  /\ Publish(r)
  /\ task' = Outdated(task, r)
  /\ call' = [Outdated(call, r) EXCEPT ![c].at = "sign"]
  /\ UNCHANGED <<cur, lock, up>>

\* recover_completed_report: _finalize inside the request.
recover_completed_report(c) ==
  /\ New(c) /\ TakeLock(c)
  /\ Current # 0 /\ run[Current].status = "failed" /\ ~run[Current].report
  /\ Mark(Current, "verifying")
  /\ Request(c, "recover", Current, NoTask)
  /\ UNCHANGED <<task, cur, up>>

\* The review asks for more work and no turn is left.  With turns left nobody
\* acts on its "continue", and nobody catches what the review, the writing of the
\* report or a cancellation raises: the run stays as recovery marked it.
RecoveryNotPublished(c) ==
  LET r == call[c].run IN
  /\ Holds(c, "recover")
  /\ \/ run[r].left = 0 /\ Mark(r, "awaiting")
     \/ "recovery unpublished" \in Explored /\ UNCHANGED <<run, project>>
  /\ Return(c)
  /\ UNCHANGED <<task, cur, up>>

\* What chat and regenerate_iocs do alike up to the answer of the provider.
BeginChat(c) ==
  /\ New(c) /\ TakeLock(c)
  /\ Reported # {}
  /\ project' = [project EXCEPT !.status = "chatting"]
  /\ Request(c, "chat", LatestReported, NoTask)
  /\ UNCHANGED <<run, task, cur, up>>

chat(c) == project.status # "chat_paused" /\ BeginChat(c)
regenerate_iocs(c) == BeginChat(c)

\* An answer completes the project whatever its status is by then; a failure
\* (or the client going away) only if it still says chatting.
ChatEnds(c) ==
  /\ Holds(c, "chat")
  /\ \/ project' = [project EXCEPT !.status = "completed"]
     \/ project' = [project EXCEPT !.status = IF @ = "chatting" THEN "completed"
                                              ELSE @]
  /\ Return(c)
  /\ UNCHANGED <<run, task, cur, up>>

pause_chat ==
  /\ up /\ ~is_active /\ project.status # "chatting"
  /\ project' = [project EXCEPT !.status = "chat_paused"]
  /\ UNCHANGED <<run, task, cur, lock, call, up>>

resume_chat ==
  /\ up /\ project.status = "chat_paused"
  /\ project' = [project EXCEPT !.status = "completed"]
  /\ UNCHANGED <<run, task, cur, lock, call, up>>

-----------------------------------------------------------------------------
(* The process stops and starts.                                           *)

\* analysis_manager.shutdown
Shutdown ==
  /\ up /\ up' = FALSE
  /\ task' = IF is_active THEN [task EXCEPT ![cur].cancel = TRUE] ELSE task
  /\ UNCHANGED <<run, project, cur, lock, call>>

\* recover_interrupted_runs
Interrupted == {r \in Runs : run[r].status \in ACTIVE_STATUSES}

\* A new process, after a shutdown or a crash, repairs what it finds; the last
\* interrupted run it meets becomes the run of the project.
Restart ==
  /\ task' = [t \in Task |-> IdleTask] /\ cur' = NoTask
  /\ lock' = NoClient /\ call' = [c \in Client |-> IdleCall]
  /\ up' = TRUE
  /\ run' = [r \in Runs |-> IF r \in Interrupted THEN Marked(r, "stopped")
                            ELSE run[r]]
  /\ IF Interrupted # {}
     THEN \E r \in Interrupted : project' = [status |-> "stopped", active |-> r]
     ELSE project' = [project EXCEPT !.status = IF @ = "chatting"
                                                THEN "completed" ELSE @]

Answer(c) ==
  \/ Started(c) \/ Resumed(c) \/ Continued(c) \/ CallFails(c)
  \/ ApprovalRefused(c) \/ StopTimesOut(c) \/ CallSigned(c)
  \/ ReverifyContinues(c) \/ ReverifyAccepts(c) \/ CallPublishes(c)
  \/ RecoveryNotPublished(c) \/ ChatEnds(c)

Ask(c) ==
  \/ start(c) \/ resume(c) \/ continue_investigation(c)
  \/ approve_extension(c) \/ deny_extension(c) \/ stop(c)
  \/ retry_report_signature(c) \/ retry_report_verification(c)
  \/ recover_completed_report(c) \/ chat(c) \/ regenerate_iocs(c)

Next ==
  \/ \E t \in Task : TaskStep(t)
  \/ \E c \in Client : Ask(c) \/ Answer(c)
  \/ pause_chat \/ resume_chat \/ Shutdown \/ Restart

Spec == Init /\ [][Next]_vars

-----------------------------------------------------------------------------
(* Properties.                                                             *)

\* At most one actor works on the project: a background task, or the request
\* that holds the lock.
OneWorker ==
  /\ \A t, u \in Task : Live(t) /\ Live(u) => t = u
  /\ \A t \in Task : Live(t) => cur = t /\ lock = NoClient

\* A run that says it is queued, running or verifying has somebody at work on
\* it, so that it does not say so for ever (_mark_*, recover_interrupted_runs):
\* on every path but the three Limits, which are known to strand a run.
BusyIsWorked ==
  up => \A r \in Runs : run[r].status \in Busy =>
          \/ \E t \in Task : Live(t) /\ task[t].run = r
          \/ \E c \in Client : lock = c /\ call[c].run = r
                              /\ call[c].at = "recover"

\* stop finds what is at work: it looks up the run of the project.
StopReachesWork ==
  \A t \in Task : Live(t) => task[t].run = Current

\* A report that is shown as signed has a signature over its present text
\* (report_signature_status against the provenance chain).
SignatureCoversReport ==
  \A r \in Runs : run[r].sig = "signed" => run[r].covered

=============================================================================

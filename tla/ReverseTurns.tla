----------------------------- MODULE ReverseTurns -----------------------------
(***************************************************************************)
(* reverse/analysis.py: what one reverse run does between its first turn   *)
(* and its published report: the tool loop of _run with its suppression of *)
(* duplicates and its progress controller, the review and revision of      *)
(* _finalize, the report after a denial, and what a later task of the same *)
(* run rebuilds from the stored messages.                                  *)
(*                                                                         *)
(* ReverseRun has the tasks, the lock and the requests that race; here one *)
(* actor works at a time, and an action is a stretch between two awaits.   *)
(* A text is only its kind: "short" stands for prose and for a bare        *)
(* completion marker, "denied" for a long tool request that is malformed   *)
(* or that the policy denies, which the code takes for no request at all.  *)
(* The guidance and reminders sent to the model (no_progress_turns,        *)
(* stagnation recovery) change nothing that is kept.                       *)
(***************************************************************************)
EXTENDS Integers, FiniteSets

CONSTANTS
  Op,         \* tool requests, as their signature tells them apart
  Key,        \* [Op -> semantic method and target]
  Family,     \* [Op -> semantic method]
  Probe,      \* the requests that are diagnostic probes
  Evidence,   \* hashes of outputs
  Failure,    \* failure fingerprints of executions
  None,
  MaxTurns,   \* max_turns of a new run
  Extension,  \* analysis_extension_turns
  MaxBudget   \* bound on the turns granted in all

ASSUME TurnsAssumption == /\ MaxTurns \in Nat \ {0} /\ Extension \in Nat \ {0}
                          /\ MaxBudget \in Nat /\ MaxTurns <= MaxBudget
ASSUME OpAssumption == Probe \subseteq Op
\* What an assistant message can be.
Text == {"report", "denied", "rejected", "checkpoint", "short", "blocked", "call"}

ASSUME NoneAssumption ==
  None \notin Evidence \cup Failure \cup {Family[o] : o \in Op} \cup Text

VARIABLES
  runStatus,   \* run.status
  used, max,   \* turns_used, max_turns
  task,        \* the task at work: its await and the locals of _run, _finalize
  last,        \* the last assistant message of the analysis
  substantial, \* the last long one that is no request, no checkpoint and not saved
               \* as a draft: a rejected one, since every other becomes the draft
  asked,       \* the tool requests the assistant messages parse to
  controller,  \* analysis_state["progress_controller"]
  draft,       \* report_draft_markdown
  markdown,    \* report_markdown
  open,        \* can_continue_investigation of the published report: its outcome
               \* is not complete, or its review left something
  runs,        \* history: how often each request was executed
  resumed,     \* history: a later task rebuilt its state
  overwritten  \* history: the draft is a recovered text, one that was reviewed
               \* again, or an answer to a denial, none of which the loop judged

messageVars == <<last, substantial, asked>>
published == <<markdown, open>>
historyVars == <<runs, resumed, overwritten>>
turnsVars == <<runStatus, used, max, task, messageVars, controller, draft, published, historyVars>>

HostFailure == {"pivot required", "not approved", "duplicate"}

\* What an execution gives: new or known evidence, none, or a failure; either
\* may come with an invariant the tool reports as broken.
Result ==
  {r \in [evidence : Evidence \cup {None}, failure : Failure \cup {None},
          broken : BOOLEAN] : r.failure # None => r.evidence = None}
Refusal(f) == [evidence |-> None, failure |-> f, broken |-> FALSE]

IdleTask == [at |-> "idle", op |-> None, executed |-> {}, candidate |-> None,
             pass |-> 1, forced |-> FALSE]

TurnsInit ==
  /\ runStatus = "queued" /\ used = 0 /\ max = MaxTurns /\ task = IdleTask
  /\ last = None /\ substantial = None /\ asked = {}
  /\ controller =
       [seen |-> {}, streak |-> 0, stalled |-> None,
        failures |-> [k \in {Key[o] : o \in Op} \X (Failure \cup HostFailure) |-> 0]]
  /\ draft = None /\ markdown = None /\ open = FALSE
  /\ runs = [o \in Op |-> 0]
  /\ resumed = FALSE /\ overwritten = FALSE

Least(a, b) == IF a < b THEN a ELSE b

-----------------------------------------------------------------------------
(* The progress controller.                                                *)

\* A stalled method waits for a probe, or for evidence from another method.
Rejected(o) == o \notin Probe /\ Family[o] = controller.stalled

\* _record_progress_attempt; two failures count as any larger number.
Attempt(o, r) ==
  LET novel == r.evidence # None /\ r.evidence \notin controller.seen
      streak == IF novel THEN 0 ELSE controller.streak + 1
      failures == IF r.failure = None THEN controller.failures
                  ELSE [controller.failures EXCEPT ![<<Key[o], r.failure>>] =
                          Least(@ + 1, 2)]
      repeated == r.failure # None /\ failures[<<Key[o], r.failure>>] = 2
      checked == novel \/ (o \in Probe /\ r.failure = None)
  IN [seen |-> controller.seen \cup ({r.evidence} \ {None}),
      streak |-> streak, failures |-> failures,
      stalled |-> IF r.broken THEN Family[o]
                  ELSE IF checked THEN None
                  ELSE IF repeated \/ streak >= 3 THEN Family[o]
                  ELSE controller.stalled]

-----------------------------------------------------------------------------
(* The loop.                                                               *)

Working == task.at # "idle"

\* The loop goes round, or the turns are used up.
LoopHead(u, locals) ==
  IF u >= max
  THEN task' = IdleTask /\ runStatus' = "awaiting"
  ELSE task' = [locals EXCEPT !.at = "provider"] /\ runStatus' = "running"

\* Mutant: only what this task asks for is known to be executed.
RebuiltFromNothing ==
  [IdleTask EXCEPT !.candidate = IF draft # None THEN draft ELSE substantial]

\* What _run reads from the messages of earlier tasks.  Whatever parses to a
\* tool request counts as executed, and the last long text that is no checkpoint
\* is the report, unless a draft was saved.
Rebuilt ==
  [IdleTask EXCEPT !.executed = asked,
                   !.candidate = IF draft # None THEN draft ELSE substantial]

RunBegins ==
  /\ ~Working /\ runStatus = "queued"
  /\ LoopHead(used, Rebuilt)
  /\ UNCHANGED <<used, max, messageVars, controller, draft, published, historyVars>>

ModelAnswered == task.at = "provider" /\ used' = used + 1

\* Long or with a heading, and no tool request that parses and is allowed.
Candidate == {"report", "denied"}

Said(text) ==
  /\ last' = text
  /\ substantial' = IF text = "rejected" THEN text ELSE substantial

\* _finalize up to its first await.
Finalize(text, forced) ==
  /\ task' = [IdleTask EXCEPT !.at = "review", !.forced = forced]
  /\ runStatus' = "verifying"
  /\ draft' = text

\* Nothing to run and nothing to finish: a rejected response, a checkpoint, a
\* short text (also a short tool request that is denied), or a marker with no
\* report before it.
NothingToRun ==
  /\ ModelAnswered
  /\ \E text \in {"rejected", "checkpoint", "short"} : Said(text)
  /\ LoopHead(used + 1, task)
  /\ UNCHANGED <<max, asked, controller, draft, published, historyVars>>

\* A rejected response that carries a tool request: it is not run, and later
\* tasks take it for one that was.
RejectedRequest ==
  /\ ModelAnswered
  /\ \E o \in Op : asked' = asked \cup {o}
  /\ last' = "rejected"
  /\ LoopHead(used + 1, task)
  /\ UNCHANGED <<max, substantial, controller, draft, published, historyVars>>

\* Mutant: a marker finishes the run by itself.
CompletedByMarker ==
  /\ ModelAnswered
  /\ \/ \E text \in Candidate : Said(text) /\ Finalize(text, FALSE)
     \/ /\ Said("short")
        /\ Finalize(IF task.candidate = None THEN "short" ELSE task.candidate, FALSE)
  /\ UNCHANGED <<max, asked, controller, published, runs, resumed, overwritten>>

\* A report, or what is taken for one, or a marker that stands for the earlier one.
Completed ==
  /\ ModelAnswered
  /\ \/ \E text \in Candidate : Said(text) /\ Finalize(text, FALSE)
     \/ /\ task.candidate # None
        /\ Said("short") /\ Finalize(task.candidate, FALSE)
  /\ UNCHANGED <<max, asked, controller, published, runs, resumed, overwritten>>

Requested(o) ==
  /\ ModelAnswered
  /\ last' = "call" /\ asked' = asked \cup {o}

\* A request that is not executed: the method is stalled, the tool is not
\* approved (the analyst may change that between two tasks), or it was executed
\* before, in this order.
Refused(o) ==
  /\ Requested(o)
  /\ \/ Rejected(o) /\ controller' = Attempt(o, Refusal("pivot required"))
     \/ ~Rejected(o) /\ controller' = Attempt(o, Refusal("not approved"))
     \/ /\ ~Rejected(o) /\ o \in task.executed
        /\ controller' = Attempt(o, Refusal("duplicate"))
  /\ LoopHead(used + 1, task)
  /\ UNCHANGED <<max, substantial, draft, published, historyVars>>

\* sandbox_manager.execute in a thread
Execute(o) ==
  /\ Requested(o)
  /\ ~Rejected(o) /\ o \notin task.executed
  /\ task' = [task EXCEPT !.at = "tool", !.op = o]
  /\ runs' = [runs EXCEPT ![o] = @ + 1]
  /\ UNCHANGED <<runStatus, max, substantial, controller, draft, published, resumed,
                 overwritten>>

Executed ==
  /\ task.at = "tool"
  /\ \E r \in Result : controller' = Attempt(task.op, r)
  /\ LoopHead(used, [task EXCEPT !.executed = @ \cup {task.op}, !.op = None])
  /\ UNCHANGED <<used, max, messageVars, draft, published, historyVars>>

Long == Candidate \cup {"rejected", "checkpoint", "blocked"}

\* _finalize_after_denial: the answer, which nobody judges but by its length; or
\* the saved draft when it is a tool request or too short; or else a notice that
\* nothing was produced.
DenialAnswered ==
  /\ task.at = "denial"
  /\ \E said \in Text \ {"blocked"} :
       /\ Said(said)
       /\ LET text == IF said \in Long THEN said ELSE draft IN
          Finalize(IF text \in Long THEN text ELSE "blocked", TRUE)
       /\ overwritten' = (overwritten \/ said \in {"rejected", "checkpoint"})
       /\ \E o \in Op : asked' = IF said = "call" THEN asked \cup {o} ELSE asked
  /\ UNCHANGED <<used, max, controller, published, runs, resumed>>

-----------------------------------------------------------------------------
(* Review and publication.                                                 *)

\* The end of _finalize.  Only a review that decides to publish, calls the outcome
\* complete and lists nothing closes the investigation.
Publish(clean) ==
  /\ task' = IdleTask
  /\ \/ runStatus' = "failed" /\ UNCHANGED published
     \/ /\ runStatus' = "completed" /\ markdown' = draft
        /\ open' = (task.forced \/ ~clean)

\* The decision of _review_report, after its parsing and its check of the trace
\* references; a reviewer that fails leaves a warning.
ReviewPublishes ==
  /\ task.at = "review"
  /\ \E clean \in BOOLEAN : Publish(clean)
  /\ UNCHANGED <<used, max, messageVars, controller, draft, historyVars>>

ReviewRevises ==
  /\ task.at = "review" /\ task.pass = 1
  /\ task' = [task EXCEPT !.at = "revise"]
  /\ UNCHANGED <<runStatus, used, max, messageVars, controller, draft, published, historyVars>>

\* More work, unless the outcome is forced: the same task begins _run again.
ReviewContinues ==
  /\ task.at = "review" /\ ~task.forced
  /\ LoopHead(used, Rebuilt)
  /\ UNCHANGED <<used, max, messageVars, controller, draft, published, historyVars>>

\* Mutant: the passes of the review are not counted.
RevisedForEver ==
  /\ task.at = "revise"
  /\ \/ /\ draft' \in Candidate
        /\ task' = [task EXCEPT !.at = "review"]
        /\ UNCHANGED <<published, runStatus>>
     \/ Publish(FALSE) /\ UNCHANGED draft
  /\ UNCHANGED <<used, max, messageVars, controller, runs, resumed, overwritten>>

\* _revise_report: a revised report for the second pass, or a failure that
\* publishes the unrevised one.
Revised ==
  /\ task.at = "revise"
  /\ \/ /\ draft' \in Candidate
        /\ task' = [task EXCEPT !.at = "review", !.pass = 2]
        /\ UNCHANGED <<published, runStatus>>
     \/ Publish(FALSE) /\ UNCHANGED draft
  /\ UNCHANGED <<used, max, messageVars, controller, runs, resumed, overwritten>>

\* retry_report_verification: the published report is reviewed again, and
\* accepted, revised, or sent back to work.  It becomes the draft.
Reverified ==
  /\ task.at = "reverify" /\ task' = IdleTask
  /\ \/ /\ open' \in BOOLEAN
        /\ \/ draft' = markdown /\ UNCHANGED <<markdown, runStatus>>
           \/ draft' \in Candidate /\ markdown' = draft' /\ runStatus' = "completed"
        /\ overwritten' = (overwritten \/ draft' \notin Candidate)
     \/ /\ runStatus' = IF used >= max THEN "awaiting" ELSE "queued"
        /\ UNCHANGED <<published, draft, overwritten>>
  /\ UNCHANGED <<used, max, messageVars, controller, runs, resumed>>

-----------------------------------------------------------------------------
(* What ends a task early, and what starts the next one.                   *)

\* A stop, a transient provider error, or a restart of the backend; an error
\* anywhere else.  A repeated review leaves the run as it is.
Interrupted ==
  /\ Working /\ task' = IdleTask
  /\ runStatus' \in IF task.at = "reverify" THEN {runStatus} ELSE {"stopped", "failed"}
  /\ UNCHANGED <<used, max, messageVars, controller, draft, published, historyVars>>

Requeue(m) ==
  /\ runStatus' = "queued" /\ max' = m /\ resumed' = TRUE
  /\ UNCHANGED <<used, task, messageVars, controller, draft, published, runs, overwritten>>

resume ==
  /\ ~Working /\ runStatus \in {"stopped", "failed", "awaiting"}
  /\ Requeue(max)

approve_extension ==
  /\ ~Working /\ runStatus = "awaiting" /\ max + Extension <= MaxBudget
  /\ Requeue(max + Extension)

continue_investigation ==
  /\ ~Working /\ runStatus = "completed" /\ open
  /\ IF used < max THEN Requeue(max)
     ELSE max + Extension <= MaxBudget /\ Requeue(max + Extension)

Begin(at) == ~Working /\ task' = [IdleTask EXCEPT !.at = at]

deny_extension ==
  /\ Begin("denial")
  /\ runStatus = "awaiting" /\ runStatus' = "running"
  /\ UNCHANGED <<used, max, messageVars, controller, draft, published, historyVars>>

retry_report_verification ==
  /\ Begin("reverify")
  /\ markdown # None /\ runStatus # "queued"
  /\ UNCHANGED <<runStatus, used, max, messageVars, controller, draft, published, historyVars>>

\* recover_completed_report: the last message, if it was no tool request.
recover_completed_report ==
  /\ ~Working /\ runStatus = "failed" /\ markdown = None
  /\ last \notin {None, "call"}
  /\ Finalize(last, FALSE) /\ overwritten' = TRUE
  /\ UNCHANGED <<used, max, messageVars, controller, published, runs, resumed>>

Turn ==
  \/ RunBegins \/ NothingToRun \/ RejectedRequest \/ Completed
  \/ \E o \in Op : Refused(o) \/ Execute(o)
  \/ Executed \/ DenialAnswered
  \/ ReviewPublishes \/ ReviewRevises \/ ReviewContinues \/ Revised \/ Reverified

TurnsNext ==
  \/ Turn \/ Interrupted
  \/ resume \/ approve_extension \/ continue_investigation \/ deny_extension
  \/ retry_report_verification \/ recover_completed_report

TurnsSpec == TurnsInit /\ [][TurnsNext]_turnsVars

-----------------------------------------------------------------------------
(* Properties.                                                             *)

\* The sandbox never executes a request of a run a second time, whatever was
\* stopped, resumed, approved or reviewed in between (duplicate suppression of
\* _run, rebuilt from the messages).
ExecutedAtMostOnce == \A o \in Op : runs[o] <= 1

\* "Finalize the preserved substantive response, never the marker-only
\* response": what a run publishes is a long text that is no allowed request, no
\* checkpoint and no rejected response, or the notice that there is none; unless
\* the run was resumed, when an earlier rejected response counts, or the draft
\* came by a way that does not judge it.  (That a denied request counts as such a
\* text is in section 4 of the README.)
OnlyReportsPublished ==
  markdown \in Candidate \cup {"blocked", None} \/ resumed \/ overwritten

\* How far a task is from its end: the turns left, and in one turn the request,
\* the review, the revision and the second review.
Rank ==
  8 * (max - used)
  + CASE task.at = "provider" -> 0
      [] task.at = "tool" -> 5
      [] task.at = "denial" -> 5
      [] task.at = "review" -> IF task.pass = 1 THEN 4 ELSE 2
      [] task.at = "revise" -> 3
      [] OTHER -> 0

\* A task cannot go on for ever: between two of its awaits it always comes
\* nearer to its end, through every continuation and revision a review asks for.
TaskRunsDown == [][Working /\ Working' => Rank' < Rank]_turnsVars
=============================================================================

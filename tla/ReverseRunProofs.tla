--------------------------- MODULE ReverseRunProofs ---------------------------
(***************************************************************************)
(* For any number of runs, tasks, requests and turns: one actor at a time  *)
(* works on a reverse project, a stop reaches it, a run that says it is    *)
(* busy has somebody at work on it, and a signature covers the report it   *)
(* is shown for.                                                           *)
(*                                                                         *)
(* Four layers, each proved with the earlier ones.  TypeOK and SlotInv say *)
(* who holds the lock and the entry of _tasks, FreshInv that nobody signs  *)
(* an older report, OwnInv that work is on the run of the project, WorkInv *)
(* what the status of a run says of the work on it.  SlotInv and FreshInv  *)
(* need that no denial overlaps other work, OwnInv also that a review does *)
(* not continue an older run, and WorkInv also that a recovery publishes;  *)
(* the hypotheses of each theorem name the Limits it needs.                *)
(***************************************************************************)
EXTENDS ReverseRun, WellFoundedInduction, TLAPS

RunStatus == {"none", "queued", "running", "verifying", "stopping", "stopped",
              "failed", "awaiting", "completed"}
RunRow == [status : RunStatus, stop : BOOLEAN, left : 0 .. MaxTurns,
           report : BOOLEAN, sig : {"none", "pending", "signed", "failed"},
           covered : BOOLEAN]
ProjectRow == [status : RunStatus \cup {"ready", "chatting", "chat_paused"},
               active : 0 .. MaxRuns]
TaskRow == [at : {"idle", "new", "provider", "tool", "review", "sign"},
            kind : {"run", "denial"}, run : Runs,
            cancel : BOOLEAN, stale : BOOLEAN]
\* Where a request that holds the lock is suspended.
Holding == {"start", "resume", "continue", "sign", "reverify", "recover", "chat"}
CallRow == [at : Holding \cup {"idle", "approved", "stop"}, run : Runs,
            on : Task \cup {NoTask}, stale : BOOLEAN]

\* Which interleavings a theorem leaves out.
NoOverlap == "denial overlaps" \notin Explored
NoOlderRun == "older run continues" \notin Explored
NoUnpublished == "recovery unpublished" \notin Explored

\* The types; and only a live task is cancelled or in _tasks, and a request to
\* resume has a run to resume.
TypeOK ==
  /\ run \in [Runs -> RunRow]
  /\ project \in ProjectRow
  /\ task \in [Task -> TaskRow] /\ cur \in Task \cup {NoTask}
  /\ lock \in Client \cup {NoClient} /\ call \in [Client -> CallRow]
  /\ up \in BOOLEAN
  /\ \A t \in Task : task[t].cancel => Live(t)
  /\ is_active => Live(cur)
  /\ \A c \in Client : call[c].at = "resume" => Current # 0

\* The entry of _tasks is the live task, and nobody else has the lock then; a
\* request has the lock exactly while it is suspended in the block that took it;
\* only a stop waits for a task.
SlotInv ==
  /\ \A t \in Task : Live(t) => cur = t
  /\ is_active => lock = NoClient
  /\ \A c \in Client : call[c].at \in Holding <=> lock = c
  /\ \A c \in Client : call[c].on # NoTask => call[c].at = "stop"

\* No signature under way is one of an older report.
FreshInv ==
  /\ \A t \in Task : ~task[t].stale
  /\ \A c \in Client : ~call[c].stale
  /\ SignatureCoversReport

\* Work is on the run of the project, and so is work that is about to start.
OwnInv ==
  /\ StopReachesWork
  /\ \A c \in Client : call[c].at = "continue" => call[c].run = Current

\* A task that is cancelled, or that signs, leaves no run behind that says busy.
WorkInv ==
  /\ BusyIsWorked
  /\ \A t \in Task : up /\ Live(t) /\ task[t].cancel => run[task[t].run].status \notin Busy
  /\ \A t \in Task : task[t].at = "sign" => run[task[t].run].status \notin Busy

-----------------------------------------------------------------------------
(***************************************************************************)
(* Among finitely many numbers there is a largest one, so the latest run   *)
(* with a report is a run with a report.                                   *)
(***************************************************************************)
LEMMA LargestExists ==
  ASSUME NEW n \in Nat, NEW S \in SUBSET (1 .. n), S # {}
  PROVE  \E x \in S : \A y \in S : y <= x
<1> DEFINE R == OpToRel(<, Nat)
           T == {n - x : x \in S}
<1>1. PICK m \in T : \A k \in T : ~(<<k, m>> \in R)
  <2>1. IsWellFoundedOn(R, Nat)
    BY NatLessThanWellFounded
  <2>2. T \subseteq Nat
    OBVIOUS
  <2>3. T # {}
    <3>1. PICK x : x \in S
      OBVIOUS
    <3>2. n - x \in T
      BY <3>1
    <3> QED
      BY <3>2
  <2> HIDE DEF R, T
  <2> QED
    BY <2>1, <2>2, <2>3, WFMin
<1>2. \A k \in T : k >= m
  <2> SUFFICES ASSUME NEW k \in T, k < m PROVE FALSE
    OBVIOUS
  <2>1. k \in Nat /\ m \in Nat
    OBVIOUS
  <2>2. <<k, m>> \in R
    BY <2>1 DEF OpToRel
  <2> QED
    BY <1>1, <2>2
<1>3. PICK x \in S : m = n - x
  OBVIOUS
<1>4. \A y \in S : n - y >= n - x
  BY <1>2, <1>3
<1> QED
  BY <1>4

\* The run that a retry or a chat picks exists and has a report.
LEMMA LatestIsReported ==
  ASSUME Reported # {}
  PROVE  LatestReported \in Runs /\ run[LatestReported].report
<1>1. Reported \in SUBSET (1 .. MaxRuns) /\ MaxRuns \in Nat
  BY BoundsAssumption DEF Reported, Runs
<1>2. \E r \in Reported : \A q \in Reported : q <= r
  BY <1>1, LargestExists
<1>3. LatestReported \in Reported
  BY <1>2 DEF LatestReported
<1> QED
  BY <1>3 DEF Reported

-----------------------------------------------------------------------------
(* What the operators that several actions share do to the state.          *)

ProjectStatus == RunStatus \cup {"ready", "chatting", "chat_paused"}

\* A step writes no other run than r, and the project keeps its run.
Touches(r) ==
  /\ run' \in [Runs -> RunRow] /\ project' \in ProjectRow /\ Current' = Current
  /\ \A q \in Runs : q # r => run'[q] = run[q]

KeepsSignature(r) == run'[r].sig = run[r].sig /\ run'[r].covered = run[r].covered

\* A task ends, with its run not busy, or with nothing written after a cancellation.
Ends(t) ==
  /\ Finish(t)
  /\ \/ run'[task[t].run].status \notin Busy
     \/ task[t].cancel /\ UNCHANGED <<run, project>>

\* A task goes to an await of its loop.
Moves(t) == \E at \in {"provider", "tool", "review"} : Await(t, at)

\* Store writes one row, and the status of the project.
LEMMA StoreEffect ==
  ASSUME TypeOK, NEW r \in Runs, NEW rec \in RunRow, NEW s \in ProjectStatus,
         Store(r, rec, s)
  PROVE  Touches(r) /\ run'[r] = rec
BY DEF TypeOK, Store, ProjectRow, ProjectStatus, Current, Touches

\* A row with another status, or requeued, is a row and keeps its signature.
LEMMA MarkedType ==
  ASSUME TypeOK, NEW r \in Runs, NEW s \in RunStatus
  PROVE  /\ Marked(r, s) \in RunRow
         /\ Marked(r, s).status = s
         /\ Marked(r, s).sig = run[r].sig /\ Marked(r, s).covered = run[r].covered
BY DEF TypeOK, Marked, RunRow

LEMMA RequeuedType ==
  ASSUME TypeOK, NEW r \in Runs
  PROVE  /\ Requeued(r) \in RunRow
         /\ Requeued(r).status = "queued"
         /\ Requeued(r).sig = run[r].sig /\ Requeued(r).covered = run[r].covered
BY DEF TypeOK, Requeued, RunRow, RunStatus

\* Publication takes the signature off and makes the run the run of the project.
LEMMA PublishEffect ==
  ASSUME TypeOK, NEW r \in Runs, Publish(r)
  PROVE  /\ run' \in [Runs -> RunRow] /\ project' \in ProjectRow
         /\ run'[r].status = "completed" /\ run'[r].sig = "pending"
         /\ \A q \in Runs : q # r => run'[q] = run[q]
         /\ Current' = r
<1>1. Published(r) \in RunRow /\ Published(r).status = "completed"
      /\ Published(r).sig = "pending"
  BY DEF TypeOK, Published, RunRow, RunStatus
<1>2. run' \in [Runs -> RunRow] /\ run'[r] = Published(r)
      /\ \A q \in Runs : q # r => run'[q] = run[q]
  BY <1>1 DEF TypeOK, Publish
<1>3. project' \in ProjectRow /\ Current' = r
  BY BoundsAssumption DEF Publish, ProjectRow, RunStatus, Current, Runs
<1> QED
  BY <1>1, <1>2, <1>3

\* A new task in a free slot, which becomes the entry of _tasks.
LEMMA SpawnEffect ==
  ASSUME TypeOK, NEW kind \in {"run", "denial"}, NEW r \in Runs, Spawn(kind, r)
  PROVE  /\ task' \in [Task -> TaskRow]
         /\ cur' \in Task /\ task'[cur'] \in TaskRow
         /\ task'[cur'].at = "new" /\ task'[cur'].run = r
         /\ ~task'[cur'].cancel /\ ~task'[cur'].stale
         /\ ~Live(cur')
         /\ \A t \in Task : t # cur' => task'[t] = task[t]
<1>1. PICK t \in Task :
        /\ ~Live(t)
        /\ task' = [task EXCEPT ![t] = [IdleTask EXCEPT !.at = "new",
                                                        !.kind = kind, !.run = r]]
        /\ cur' = t
  BY DEF Spawn
<1> DEFINE new == [IdleTask EXCEPT !.at = "new", !.kind = kind, !.run = r]
<1>2. new \in TaskRow /\ new.at = "new" /\ new.run = r /\ ~new.cancel /\ ~new.stale
  BY DEF IdleTask, TaskRow
<1> HIDE DEF new
<1> QED
  BY <1>1, <1>2 DEF TypeOK, new

\* A free slot is a task, or a request, that does nothing.
LEMMA IdleType ==
  /\ IdleTask \in TaskRow /\ IdleTask.at = "idle" /\ ~IdleTask.stale
  /\ IdleCall \in CallRow /\ IdleCall.at = "idle" /\ ~IdleCall.stale
  /\ IdleCall.on = NoTask
  /\ 1 \in Runs
BY BoundsAssumption DEF IdleTask, IdleCall, TaskRow, CallRow, Runs

\* A task that ends leaves its slot, its entry and the stops that waited for it.
LEMMA FinishEffect ==
  ASSUME TypeOK, NEW t \in Task, Finish(t)
  PROVE  /\ task' \in [Task -> TaskRow] /\ cur' \in Task \cup {NoTask}
         /\ call' \in [Client -> CallRow]
         /\ task'[t] = IdleTask /\ \A u \in Task : u # t => task'[u] = task[u]
         /\ cur' = IF cur = t THEN NoTask ELSE cur
         /\ \A c \in Client : call'[c] = IF call[c].on = t THEN IdleCall ELSE call[c]
BY IdleType DEF TypeOK, Finish

\* A task at its next await is otherwise as it was.
LEMMA AwaitEffect ==
  ASSUME TypeOK, NEW t \in Task, NEW at \in {"provider", "tool", "review"}, Await(t, at)
  PROVE  /\ task' \in [Task -> TaskRow] /\ cur' = cur /\ call' = call
         /\ task'[t].at = at /\ task'[t].run = task[t].run
         /\ task'[t].cancel = task[t].cancel /\ task'[t].stale = task[t].stale
         /\ \A u \in Task : u # t => task'[u] = task[u]
<1> DEFINE new == [task[t] EXCEPT !.at = at]
<1>1. new \in TaskRow /\ new.at = at /\ new.run = task[t].run
      /\ new.cancel = task[t].cancel /\ new.stale = task[t].stale
  BY DEF TypeOK, TaskRow
<1>2. task' = [task EXCEPT ![t] = new] /\ cur' = cur /\ call' = call
  BY DEF Await
<1> HIDE DEF new
<1> QED
  BY <1>1, <1>2 DEF TypeOK

\* A request that goes to an await, or returns, changes no other request.
LEMMA RequestEffect ==
  ASSUME TypeOK, NEW c \in Client, NEW at \in Holding \cup {"approved", "stop"},
         NEW r \in Runs, NEW on \in Task \cup {NoTask}, Request(c, at, r, on)
  PROVE  /\ call' \in [Client -> CallRow]
         /\ call'[c] \in CallRow
         /\ call'[c].at = at /\ call'[c].run = r /\ call'[c].on = on /\ ~call'[c].stale
         /\ \A d \in Client : d # c => call'[d] = call[d]
<1> DEFINE new == [IdleCall EXCEPT !.at = at, !.run = r, !.on = on]
<1>1. new \in CallRow /\ new.at = at /\ new.run = r /\ new.on = on /\ ~new.stale
  BY DEF IdleCall, CallRow
<1>2. call' = [call EXCEPT ![c] = new]
  BY DEF Request
<1> HIDE DEF new
<1> QED
  BY <1>1, <1>2 DEF TypeOK

\* A request moves nobody but its client.
LEMMA RequestLeavesOthers ==
  ASSUME TypeOK, NEW c \in Client, NEW at, NEW r, NEW on, Request(c, at, r, on)
  PROVE  \A d \in Client : d # c => call'[d] = call[d]
BY DEF Request, TypeOK

LEMMA ReturnEffect ==
  ASSUME TypeOK, NEW c \in Client, Return(c)
  PROVE  /\ call' \in [Client -> CallRow] /\ lock' = NoClient
         /\ call'[c] = IdleCall /\ \A d \in Client : d # c => call'[d] = call[d]
BY IdleType DEF TypeOK, Return

\* Outdated changes nothing of an actor but whether its signature is stale.
LEMMA OutdatedTasks ==
  ASSUME TypeOK, NEW r
  PROVE  /\ Outdated(task, r) \in [Task -> TaskRow]
         /\ \A t \in Task :
              /\ Outdated(task, r)[t].at = task[t].at
              /\ Outdated(task, r)[t].cancel = task[t].cancel
              /\ Outdated(task, r)[t].run = task[t].run
              /\ task[t].at # "sign" => Outdated(task, r)[t] = task[t]
<1>1. Outdated(task, r) = [x \in Task |->
          IF task[x].at = "sign" /\ task[x].run = r
          THEN [task[x] EXCEPT !.stale = TRUE] ELSE task[x]]
  BY DEF TypeOK, Outdated
<1>2. ASSUME NEW x \in Task
      PROVE  LET new == [task[x] EXCEPT !.stale = TRUE] IN
             new \in TaskRow /\ new.at = task[x].at /\ new.cancel = task[x].cancel
             /\ new.run = task[x].run
  BY DEF TypeOK, TaskRow
<1>3. task \in [Task -> TaskRow]
  BY DEF TypeOK
<1> QED
  BY <1>1, <1>2, <1>3

LEMMA OutdatedCalls ==
  ASSUME TypeOK, NEW r
  PROVE  /\ Outdated(call, r) \in [Client -> CallRow]
         /\ \A c \in Client :
              /\ Outdated(call, r)[c].at = call[c].at
              /\ Outdated(call, r)[c].on = call[c].on
              /\ Outdated(call, r)[c].run = call[c].run
              /\ call[c].at # "sign" => Outdated(call, r)[c] = call[c]
<1>1. Outdated(call, r) = [x \in Client |->
          IF call[x].at = "sign" /\ call[x].run = r
          THEN [call[x] EXCEPT !.stale = TRUE] ELSE call[x]]
  BY DEF TypeOK, Outdated
<1>2. ASSUME NEW x \in Client
      PROVE  LET new == [call[x] EXCEPT !.stale = TRUE] IN
             new \in CallRow /\ new.at = call[x].at /\ new.on = call[x].on
             /\ new.run = call[x].run
  BY DEF TypeOK, CallRow
<1>3. call \in [Client -> CallRow]
  BY DEF TypeOK
<1> QED
  BY <1>1, <1>2, <1>3

\* A signature made of the present report covers it.
LEMMA SignatureEffect ==
  ASSUME TypeOK, NEW r \in Runs, NEW stale \in BOOLEAN, Signature(r, stale)
  PROVE  /\ run' \in [Runs -> RunRow]
         /\ run'[r].status = run[r].status
         /\ run'[r].sig = "signed" /\ ~stale => run'[r].covered
         /\ \A q \in Runs : q # r => run'[q] = run[q]
<1>1. PICK ok \in BOOLEAN :
        run' = [run EXCEPT ![r].sig = IF ok THEN "signed" ELSE "failed",
                           ![r].covered = @ \/ (ok /\ ~stale)]
  BY DEF Signature
<1>2. run'[r] = [run[r] EXCEPT !.sig = IF ok THEN "signed" ELSE "failed",
                               !.covered = @ \/ (ok /\ ~stale)]
  BY <1>1 DEF TypeOK
<1>3. run[r] \in RunRow
  BY DEF TypeOK
<1>4. run'[r] \in RunRow /\ run'[r].status = run[r].status
      /\ (run'[r].sig = "signed" /\ ~stale => run'[r].covered)
  BY <1>2, <1>3 DEF RunRow
<1> QED
  BY <1>1, <1>4 DEF TypeOK

\* At the head of the loop the task ends with its run not busy, or goes on.
LEMMA LoopHeadEffect ==
  ASSUME TypeOK, NEW t \in Task, NEW rec \in RunRow, NEW s \in ProjectStatus,
         LoopHead(t, rec, s),
         rec.sig = run[task[t].run].sig, rec.covered = run[task[t].run].covered
  PROVE  /\ Touches(task[t].run) /\ KeepsSignature(task[t].run)
         /\ (Finish(t) /\ run'[task[t].run].status \notin Busy) \/ Moves(t)
<1> DEFINE r == task[t].run
<1>1. r \in Runs
  BY DEF TypeOK, TaskRow
<1>2. ASSUME NEW v \in {"stopped", "awaiting"},
             Store(r, [rec EXCEPT !.status = v], v) /\ Finish(t)
      PROVE  Touches(r) /\ KeepsSignature(r) /\ run'[r].status \notin Busy
  <2>1. [rec EXCEPT !.status = v] \in RunRow /\ v \in ProjectStatus
    BY DEF RunRow, RunStatus, ProjectStatus
  <2>2. [rec EXCEPT !.status = v].status = v /\ [rec EXCEPT !.status = v].sig = rec.sig
        /\ [rec EXCEPT !.status = v].covered = rec.covered
    BY DEF RunRow
  <2> QED
    BY <1>1, <1>2, <2>1, <2>2, StoreEffect DEF Busy, KeepsSignature
<1>3. ASSUME Store(r, rec, s) /\ Await(t, "provider")
      PROVE  Touches(r) /\ KeepsSignature(r) /\ Moves(t)
  BY <1>1, <1>3, StoreEffect DEF KeepsSignature, Moves
<1> QED
  BY <1>2, <1>3 DEF LoopHead


-----------------------------------------------------------------------------
(***************************************************************************)
(* TypeOK holds whatever is explored.                                      *)
(***************************************************************************)
LEMMA FieldTypes ==
  ASSUME TypeOK
  PROVE  /\ \A t \in Task : task[t].run \in Runs /\ task[t].stale \in BOOLEAN
         /\ \A c \in Client : call[c].run \in Runs /\ call[c].stale \in BOOLEAN
         /\ \A r \in Runs : run[r] \in RunRow /\ run[r].left \in 0 .. MaxTurns
         /\ Current \in 0 .. MaxRuns
         /\ Current # 0 => Current \in Runs
         /\ project.status \in ProjectStatus
         /\ project \in ProjectRow
         /\ RunStatus \subseteq ProjectStatus
         /\ MaxTurns \in Nat \ {0}
BY BoundsAssumption
   DEF TypeOK, TaskRow, CallRow, RunRow, ProjectRow, ProjectStatus, Current, Runs

\* Mark at a run: the run gets the status, the rest of the row stays.
LEMMA MarkEffect ==
  ASSUME TypeOK, NEW r \in Runs, NEW s \in RunStatus, Mark(r, s)
  PROVE  Touches(r) /\ KeepsSignature(r) /\ run'[r].status = s
<1>1. Marked(r, s) \in RunRow /\ s \in ProjectStatus
  BY MarkedType, FieldTypes
<1> QED
  BY <1>1, MarkedType, StoreEffect DEF Mark, KeepsSignature

\* A task that ends, or goes to its next await, leaves the types and the
\* requests that resume alone.
LEMMA MoveType ==
  ASSUME TypeOK, NEW t \in Task, Finish(t) \/ Moves(t)
  PROVE  /\ task' \in [Task -> TaskRow] /\ cur' \in Task \cup {NoTask}
         /\ call' \in [Client -> CallRow]
         /\ \A c \in Client : call'[c].at = "resume" => call[c].at = "resume"
         /\ \A u \in Task : task'[u].cancel => task'[u].at # "idle"
         /\ cur' # NoTask => task'[cur'].at # "idle"
<1>1. CASE Finish(t)
  <2>1. ~IdleTask.cancel
    BY DEF IdleTask
  <2> QED
    BY <1>1, <2>1, FinishEffect, IdleType, NoneAssumption DEF TypeOK, Live, is_active
<1>2. ASSUME NEW at \in {"provider", "tool", "review"}, Await(t, at)
      PROVE  /\ task' \in [Task -> TaskRow] /\ cur' \in Task \cup {NoTask}
             /\ call' \in [Client -> CallRow]
             /\ \A c \in Client : call'[c].at = "resume" => call[c].at = "resume"
             /\ \A u \in Task : task'[u].cancel => task'[u].at # "idle"
             /\ cur' # NoTask => task'[cur'].at # "idle"
  <2>1. task'[t].at = at
    BY <1>2, AwaitEffect
  <2> QED
    BY <1>2, <2>1, AwaitEffect DEF TypeOK, Live, is_active
<1> QED
  BY <1>1, <1>2 DEF Moves

\* The task goes on to the review.
LEMMA FinalizeEffect ==
  ASSUME TypeOK, NEW t \in Task, NEW rec \in RunRow, Finalize(t, rec),
         rec.sig = run[task[t].run].sig, rec.covered = run[task[t].run].covered
  PROVE  Touches(task[t].run) /\ KeepsSignature(task[t].run) /\ Moves(t)
<1> DEFINE new == [rec EXCEPT !.status = "verifying"]
<1>1. new \in RunRow /\ new.sig = rec.sig /\ new.covered = rec.covered
  BY DEF RunRow, RunStatus
<1>2. Store(task[t].run, new, "verifying") /\ Await(t, "review")
  BY DEF Finalize
<1>3. task[t].run \in Runs /\ "verifying" \in ProjectStatus
  BY FieldTypes DEF RunStatus
<1> HIDE DEF new
<1> QED
  BY <1>1, <1>2, <1>3, StoreEffect DEF KeepsSignature, Moves

\* One turn counted on the row of a run.
LEMMA CountedType ==
  ASSUME TypeOK, NEW r \in Runs
  PROVE  LET rec == [run[r] EXCEPT !.left = IF @ = 0 THEN 0 ELSE @ - 1] IN
         /\ rec \in RunRow /\ rec.status = run[r].status
         /\ rec.sig = run[r].sig /\ rec.covered = run[r].covered
BY FieldTypes DEF RunRow

\* What the step of a task writes: on its own run, its own entry, and the stop
\* that waits for it.  A step that signs or publishes is listed apart.
LEMMA WorkEffect ==
  ASSUME TypeOK, NEW t \in Task,
         \/ RunBegins(t) \/ TurnEnds(t) \/ DenialAnswered(t) \/ ProviderFails(t)
         \/ ToolReturns(t) \/ ReviewContinues(t) \/ PublishingFails(t) \/ Unwind(t)
  PROVE  /\ Touches(task[t].run) /\ KeepsSignature(task[t].run)
         /\ Ends(t) \/ (Moves(t) /\ ~task[t].cancel)
         /\ UNCHANGED <<lock, up>> /\ Live(t)
<1> DEFINE r == task[t].run
           Goal == /\ Touches(r) /\ KeepsSignature(r)
                   /\ Ends(t) \/ (Moves(t) /\ ~task[t].cancel)
                   /\ UNCHANGED <<lock, up>> /\ Live(t)
<1>0. r \in Runs /\ run[r] \in RunRow
  BY FieldTypes
<1>1. ASSUME NEW s \in {"stopped", "failed", "awaiting"}, Mark(r, s), Finish(t)
      PROVE  Touches(r) /\ KeepsSignature(r) /\ Ends(t)
  <2>1. s \in RunStatus /\ s \notin Busy
    BY DEF RunStatus, Busy
  <2> QED
    BY <1>0, <1>1, <2>1, MarkEffect DEF Ends
<1>2. ASSUME ~task[t].cancel, Live(t), UNCHANGED <<lock, up>>,
             NEW s \in ProjectStatus, NEW rec \in RunRow,
             rec.sig = run[r].sig, rec.covered = run[r].covered,
             LoopHead(t, rec, s) \/ Finalize(t, rec)
      PROVE  Goal
  <2>1. CASE LoopHead(t, rec, s)
    BY <1>2, <2>1, LoopHeadEffect DEF Ends
  <2>2. CASE Finalize(t, rec)
    BY <1>2, <2>2, FinalizeEffect
  <2> QED
    BY <1>2, <2>1, <2>2
<1>3. /\ Marked(r, "running") \in RunRow
      /\ Marked(r, "running").sig = run[r].sig
      /\ Marked(r, "running").covered = run[r].covered
      /\ "running" \in ProjectStatus /\ "running" \in RunStatus
      /\ project.status \in ProjectStatus
  BY <1>0, MarkedType, FieldTypes DEF RunStatus
<1> HIDE DEF Goal
<1>4. CASE RunBegins(t)
  <2>1. /\ ~task[t].cancel /\ Live(t) /\ UNCHANGED <<lock, up>>
        /\ \/ LoopHead(t, Marked(r, "running"), "running")
           \/ Mark(r, "running") /\ Await(t, "provider")
    BY <1>4 DEF RunBegins, Working, Live
  <2>2. ASSUME Mark(r, "running") /\ Await(t, "provider")
        PROVE  Goal
    BY <1>0, <1>3, <2>1, <2>2, MarkEffect DEF Goal, Moves
  <2> QED
    BY <1>2, <1>3, <2>1, <2>2 DEF Goal
<1>5. CASE TurnEnds(t)
  <2> DEFINE rec == [run[r] EXCEPT !.left = IF @ = 0 THEN 0 ELSE @ - 1]
  <2>1. rec \in RunRow /\ rec.sig = run[r].sig /\ rec.covered = run[r].covered
    BY <1>0, CountedType
  <2>2. /\ ~task[t].cancel /\ Live(t) /\ UNCHANGED <<lock, up>>
        /\ \/ LoopHead(t, rec, project.status)
           \/ Store(r, rec, project.status) /\ Await(t, "tool")
           \/ Finalize(t, rec)
    BY <1>5 DEF TurnEnds, Working, Live
  <2> HIDE DEF rec
  <2>3. ASSUME Store(r, rec, project.status) /\ Await(t, "tool")
        PROVE  Goal
    BY <1>0, <1>3, <2>1, <2>2, <2>3, StoreEffect DEF Goal, KeepsSignature, Moves
  <2> QED
    BY <1>2, <1>3, <2>1, <2>2, <2>3 DEF Goal
<1>6. CASE DenialAnswered(t)
  BY <1>0, <1>2, <1>3, <1>6 DEF DenialAnswered, Working, Live, Goal
<1>7. CASE ProviderFails(t)
  BY <1>1, <1>7 DEF ProviderFails, Working, Live, Goal
<1>8. CASE ToolReturns(t)
  <2>1. /\ ~task[t].cancel /\ Live(t) /\ UNCHANGED <<lock, up>>
        /\ LoopHead(t, run[r], project.status) \/ (Mark(r, "failed") /\ Finish(t))
    BY <1>8 DEF ToolReturns, Working, Live
  <2> QED
    BY <1>0, <1>1, <1>2, <1>3, <2>1 DEF Goal
<1>9. CASE ReviewContinues(t)
  <2>1. /\ ~task[t].cancel /\ Live(t) /\ UNCHANGED <<lock, up>>
        /\ \/ LoopHead(t, Marked(r, "running"), "running")
           \/ Mark(r, "awaiting") /\ Finish(t)
    BY <1>9 DEF ReviewContinues, Working, Live
  <2> QED
    BY <1>1, <1>2, <1>3, <2>1 DEF Goal
<1>10. CASE PublishingFails(t)
  BY <1>1, <1>10 DEF PublishingFails, Working, Live, Goal
<1>11. CASE Unwind(t)
  <2>1. Live(t) /\ Finish(t) /\ UNCHANGED <<lock, up>> /\ task[t].cancel
        /\ (Mark(r, "stopped") \/ UNCHANGED <<run, project>>)
    BY <1>11 DEF Unwind, TypeOK
  <2>2. ASSUME UNCHANGED <<run, project>>
        PROVE  Touches(r) /\ KeepsSignature(r) /\ Ends(t)
    BY <2>1, <2>2, FieldTypes DEF TypeOK, Touches, KeepsSignature, Ends, Current
  <2> QED
    BY <1>1, <2>1, <2>2 DEF Goal
<1> QED
  BY <1>4, <1>5, <1>6, <1>7, <1>8, <1>9, <1>10, <1>11 DEF Goal

\* The other steps of a task: it publishes its report, or its signature is done.
LEMMA PublishesEffect ==
  ASSUME TypeOK, NEW t \in Task, ReviewPublishes(t)
  PROVE  /\ Publish(task[t].run)
         /\ task' \in [Task -> TaskRow] /\ call' \in [Client -> CallRow]
         /\ \A u \in Task : u # t /\ task[u].at # "sign" => task'[u] = task[u]
         /\ \A u \in Task : /\ task'[u].at = "idle" <=> task[u].at = "idle"
                            /\ task'[u].cancel = task[u].cancel
                            /\ task'[u].run = task[u].run
         /\ task'[t].at = "sign" /\ task'[t].stale = task[t].stale
         /\ task[t].at = "review" /\ ~task[t].cancel
         /\ \A c \in Client : /\ call'[c].at = call[c].at
                              /\ call'[c].run = call[c].run /\ call'[c].on = call[c].on
                              /\ call[c].at # "sign" => call'[c] = call[c]
         /\ UNCHANGED <<cur, lock, up>>
<1> DEFINE r == task[t].run
           new == Outdated(task, r)
<1>1. /\ task[t].at = "review" /\ ~task[t].cancel /\ Publish(r)
      /\ task' = [new EXCEPT ![t].at = "sign"]
      /\ call' = Outdated(call, r) /\ UNCHANGED <<cur, lock, up>>
  BY DEF ReviewPublishes, Working
<1>2. /\ new \in [Task -> TaskRow] /\ new[t] = task[t]
      /\ \A u \in Task : task[u].at # "sign" => new[u] = task[u]
      /\ \A u \in Task : /\ new[u].at = task[u].at /\ new[u].cancel = task[u].cancel
                         /\ new[u].run = task[u].run
  BY <1>1, OutdatedTasks
<1>3. call' \in [Client -> CallRow]
      /\ \A c \in Client : /\ call'[c].at = call[c].at
                           /\ call'[c].run = call[c].run /\ call'[c].on = call[c].on
                           /\ call[c].at # "sign" => call'[c] = call[c]
  BY <1>1, OutdatedCalls
<1> HIDE DEF new
<1>4. task'[t] = [task[t] EXCEPT !.at = "sign"]
      /\ \A u \in Task : u # t => task'[u] = new[u]
  BY <1>1, <1>2
<1>5. task'[t] \in TaskRow /\ task'[t].at = "sign" /\ task'[t].stale = task[t].stale
      /\ task'[t].cancel = task[t].cancel /\ task'[t].run = task[t].run
  BY <1>4 DEF TypeOK, TaskRow
<1>6. task' \in [Task -> TaskRow]
  BY <1>1, <1>2, <1>4, <1>5
<1> QED
  BY <1>1, <1>2, <1>3, <1>4, <1>5, <1>6

LEMMA SigningEffect ==
  ASSUME TypeOK, NEW t \in Task, SigningEnds(t)
  PROVE  /\ Touches(task[t].run) /\ Finish(t)
         /\ run'[task[t].run].status = run[task[t].run].status
         /\ run'[task[t].run].sig = "signed" /\ ~task[t].stale
               => run'[task[t].run].covered
         /\ task[t].at = "sign" /\ ~task[t].cancel
         /\ UNCHANGED <<lock, up>>
BY SignatureEffect, FieldTypes DEF SigningEnds, Working, Touches, Current

\* A request publishes.
LEMMA CallPublishesEffect ==
  ASSUME TypeOK, NEW c \in Client, CallPublishes(c)
  PROVE  /\ Publish(call[c].run)
         /\ task' \in [Task -> TaskRow] /\ call' \in [Client -> CallRow]
         /\ \A u \in Task : /\ task'[u].at = task[u].at
                            /\ task'[u].cancel = task[u].cancel
                            /\ task'[u].run = task[u].run
                            /\ task[u].at # "sign" => task'[u] = task[u]
         /\ call'[c].at = "sign" /\ call'[c].run = call[c].run
         /\ call'[c].on = call[c].on /\ call'[c].stale = call[c].stale
         /\ \A d \in Client : d # c =>
               /\ call'[d].at = call[d].at /\ call'[d].on = call[d].on
               /\ call'[d].run = call[d].run
               /\ call[d].at # "sign" => call'[d] = call[d]
         /\ call[c].at \in {"reverify", "recover"} /\ lock = c
         /\ UNCHANGED <<cur, lock, up>>
<1> DEFINE r == call[c].run
           new == Outdated(call, r)
<1>1. /\ call[c].at \in {"reverify", "recover"} /\ lock = c /\ Publish(r)
      /\ task' = Outdated(task, r)
      /\ call' = [new EXCEPT ![c].at = "sign"] /\ UNCHANGED <<cur, lock, up>>
  BY DEF CallPublishes
<1>2. /\ new \in [Client -> CallRow] /\ new[c] = call[c]
      /\ \A d \in Client : /\ new[d].at = call[d].at /\ new[d].on = call[d].on
                           /\ new[d].run = call[d].run
                           /\ call[d].at # "sign" => new[d] = call[d]
  BY <1>1, OutdatedCalls
<1>3. /\ task' \in [Task -> TaskRow]
      /\ \A u \in Task : /\ task'[u].at = task[u].at
                         /\ task'[u].cancel = task[u].cancel
                         /\ task'[u].run = task[u].run
                         /\ task[u].at # "sign" => task'[u] = task[u]
  BY <1>1, OutdatedTasks
<1> HIDE DEF new
<1>4. call'[c] = [call[c] EXCEPT !.at = "sign"]
      /\ \A d \in Client : d # c => call'[d] = new[d]
  BY <1>1, <1>2
<1>5. call'[c] \in CallRow /\ call'[c].at = "sign" /\ call'[c].stale = call[c].stale
      /\ call'[c].on = call[c].on /\ call'[c].run = call[c].run
  BY <1>4 DEF TypeOK, CallRow, Holding
<1>6. call' \in [Client -> CallRow]
  BY <1>1, <1>2, <1>4, <1>5
<1> QED
  BY <1>1, <1>2, <1>3, <1>4, <1>5, <1>6

\* A new run: it is queued, becomes the run of the project, and has a task.
LEMMA StartedEffect ==
  ASSUME TypeOK, NEW c \in Client, Started(c)
  PROVE  /\ run' \in [Runs -> RunRow] /\ project' \in ProjectRow /\ up' = up
         /\ Holds(c, "start") /\ Return(c)
         /\ Current' \in Runs /\ Spawn("run", Current')
         /\ run[Current'].status = "none" /\ run'[Current'].sig = "none"
         /\ \A q \in Runs : q # Current' => run'[q] = run[q]
<1>1. /\ Holds(c, "start") /\ Return(c) /\ up' = up
      /\ \E r \in Runs : NewRun(r, MaxTurns, r)
  BY DEF Started
<1>2. PICK r \in Runs : NewRun(r, MaxTurns, r)
  BY <1>1
<1> DEFINE new == [NoRun EXCEPT !.status = "queued", !.left = MaxTurns]
<1>0. MaxTurns \in 0 .. MaxTurns
  BY BoundsAssumption
<1>3. new \in RunRow /\ new.sig = "none"
  BY <1>0 DEF NoRun, RunRow, RunStatus
<1>4. /\ run' = [run EXCEPT ![r] = new]
      /\ project' = [status |-> "queued", active |-> r]
      /\ run[r].status = "none" /\ Spawn("run", r)
  BY <1>2 DEF NewRun, Exists
<1> HIDE DEF new
<1>5. project' \in ProjectRow /\ Current' = r
  BY <1>4, BoundsAssumption DEF ProjectRow, RunStatus, Current, Runs
<1> QED
  BY <1>1, <1>3, <1>4, <1>5 DEF TypeOK

\* A request takes the lock and waits; one that recovers a report marks its run.
Enters(c) ==
  \E at \in Holding, r \in Runs :
    /\ lock = NoClient /\ ~is_active /\ lock' = c
    /\ call[c].at \in {"idle", "approved"} /\ Request(c, at, r, NoTask)
    /\ UNCHANGED <<task, cur, up>>
    /\ at = "resume" => Current # 0
    /\ at = "continue" => r = Current
    /\ Touches(r) /\ KeepsSignature(r)
    /\ run'[r].status = run[r].status \/ at = "recover"

\* Every operation that takes the lock enters in this way.
LEMMA EnterEffect ==
  ASSUME TypeOK, NEW c \in Client,
         \/ start(c) \/ resume(c) \/ continue_investigation(c)
         \/ retry_report_signature(c) \/ retry_report_verification(c)
         \/ recover_completed_report(c) \/ chat(c) \/ regenerate_iocs(c)
  PROVE  Enters(c)
<1>1. 1 \in Runs /\ (Current # 0 => Current \in Runs)
  BY FieldTypes, IdleType
<1>2. ASSUME UNCHANGED run, project' \in ProjectRow, Current' = Current, NEW r \in Runs
      PROVE  Touches(r) /\ KeepsSignature(r) /\ run'[r].status = run[r].status
  BY <1>2 DEF TypeOK, Touches, KeepsSignature
<1>3. UNCHANGED project => project' \in ProjectRow /\ Current' = Current
  BY DEF TypeOK, Current
<1>4. CASE start(c)
  BY <1>1, <1>2, <1>3, <1>4 DEF start, New, TakeLock, Enters, Holding
<1>5. CASE resume(c)
  BY <1>1, <1>2, <1>3, <1>5 DEF resume, New, TakeLock, Enters, Holding
<1>6. CASE continue_investigation(c)
  BY <1>1, <1>2, <1>3, <1>6 DEF continue_investigation, New, TakeLock, Enters, Holding
<1>7. CASE retry_report_signature(c)
  BY <1>2, <1>3, <1>7, LatestIsReported
     DEF retry_report_signature, New, TakeLock, Enters, Holding
<1>8. CASE retry_report_verification(c)
  BY <1>2, <1>3, <1>8, LatestIsReported
     DEF retry_report_verification, New, TakeLock, Enters, Holding
<1>9. CASE recover_completed_report(c)
  <2>1. Touches(Current) /\ KeepsSignature(Current)
    BY <1>1, <1>9, MarkEffect DEF recover_completed_report, RunStatus
  <2> QED
    BY <1>1, <1>9, <2>1 DEF recover_completed_report, New, TakeLock, Enters, Holding
<1>10. CASE BeginChat(c)
  <2>1. project' \in ProjectRow /\ Current' = Current
    BY <1>10 DEF TypeOK, BeginChat, ProjectRow, Current
  <2> QED
    BY <1>2, <1>10, <2>1, LatestIsReported DEF BeginChat, New, TakeLock, Enters, Holding
<1> QED
  BY <1>4, <1>5, <1>6, <1>7, <1>8, <1>9, <1>10 DEF chat, regenerate_iocs

\* A request gives the lock back: with a task for a run it has queued, or with
\* nobody at work.
Leaves(c, r) ==
  /\ call[c].at \in Holding /\ lock = c /\ Return(c) /\ up' = up
  /\ run' \in [Runs -> RunRow] /\ project' \in ProjectRow
  /\ \A q \in Runs : q # r => run'[q] = run[q]
  /\ \/ KeepsSignature(r)
     \/ run'[r].sig = "none"
     \/ run'[r].sig = "signed" /\ ~call[c].stale => run'[r].covered
  /\ \/ /\ Spawn("run", r)
        /\ \/ r = Current'
           \/ call[c].at = "continue" /\ r = call[c].run /\ Current' = Current
           \/ "older run continues" \in Explored /\ Current' = Current
        /\ call[c].at # "recover"
     \/ /\ UNCHANGED <<task, cur>>
        /\ Current' = Current \/ Current' = r
        /\ \/ run'[r].status = run[r].status /\ call[c].at # "recover"
           \/ run'[r].status \notin Busy /\ r = call[c].run
           \/ "recovery unpublished" \in Explored /\ UNCHANGED run
  /\ Current' \in Runs \cup {Current}

\* Every answer that gives the lock back leaves in this way.
LEMMA LeaveEffect ==
  ASSUME TypeOK, NEW c \in Client,
         \/ Started(c) \/ Resumed(c) \/ Continued(c) \/ CallFails(c)
         \/ CallSigned(c) \/ ReverifyContinues(c) \/ RecoveryNotPublished(c)
         \/ ChatEnds(c)
         \/ ReverifyAccepts(c) /\ Return(c)
  PROVE  \E r \in Runs : Leaves(c, r)
<1> DEFINE r == call[c].run
<1>1. r \in Runs /\ (Current # 0 => Current \in Runs)
  BY FieldTypes
<1>2. ASSUME UNCHANGED run, project' \in ProjectRow
      PROVE  /\ run' \in [Runs -> RunRow] /\ project' \in ProjectRow /\ KeepsSignature(r)
             /\ \A q \in Runs : q # r => run'[q] = run[q]
             /\ run'[r].status = run[r].status
  BY <1>2 DEF TypeOK, KeepsSignature
<1>3. UNCHANGED project => project' \in ProjectRow /\ Current' = Current
  BY DEF TypeOK, Current
<1>4. CASE Started(c)
  BY <1>4, StartedEffect DEF Holds, Leaves, Holding
<1>5. CASE Resumed(c)
  <2>1. Current \in Runs /\ Holds(c, "resume") /\ Return(c) /\ up' = up
    BY <1>1, <1>5 DEF TypeOK, Resumed, Holds
  <2>2. CASE Resumable(Current)
    <3>1. Store(Current, Requeued(Current), "queued") /\ Spawn("run", Current)
      BY <1>5, <2>2 DEF Resumed
    <3>2. Touches(Current) /\ KeepsSignature(Current)
      BY <2>1, <3>1, StoreEffect, RequeuedType DEF ProjectStatus, RunStatus, KeepsSignature
    <3> QED
      BY <2>1, <3>1, <3>2 DEF Holds, Leaves, Holding, Touches
  <2>3. CASE ~Resumable(Current)
    BY <1>1, <1>2, <1>3, <1>5, <2>1, <2>3 DEF Resumed, Holds, Leaves, Holding
  <2> QED
    BY <2>2, <2>3
<1>6. CASE Continued(c)
  <2>1. Holds(c, "continue") /\ Return(c) /\ up' = up
    BY <1>6 DEF Continued
  <2>2. CASE run[r].status = "completed"
    <3> DEFINE rec == [Requeued(r) EXCEPT !.left = IF @ = 0 THEN MaxTurns ELSE @]
    <3>1. MaxTurns \in 0 .. MaxTurns
      BY BoundsAssumption
    <3>2. rec \in RunRow /\ rec.sig = run[r].sig /\ rec.covered = run[r].covered
      BY <1>1, <3>1, RequeuedType DEF RunRow
    <3>3. Store(r, rec, "queued") /\ Spawn("run", r)
      BY <1>6, <2>2 DEF Continued
    <3> HIDE DEF rec
    <3>4. Touches(r) /\ KeepsSignature(r)
      BY <1>1, <3>2, <3>3, StoreEffect DEF ProjectStatus, RunStatus, KeepsSignature
    <3> QED
      BY <1>1, <2>1, <3>3, <3>4 DEF Holds, Leaves, Holding, Touches
  <2>3. CASE run[r].status # "completed"
    BY <1>1, <1>2, <1>3, <1>6, <2>1, <2>3 DEF Continued, Holds, Leaves, Holding
  <2> QED
    BY <2>2, <2>3
<1>7. CASE CallFails(c)
  BY <1>1, <1>2, <1>3, <1>7 DEF CallFails, Leaves, Holding
<1>8. CASE CallSigned(c)
  <2>1. /\ Holds(c, "sign") /\ Return(c) /\ UNCHANGED <<project, task, cur, up>>
        /\ Signature(r, call[c].stale)
    BY <1>8 DEF CallSigned
  <2>2. call[c].stale \in BOOLEAN
    BY FieldTypes
  <2> QED
    BY <1>1, <1>3, <2>1, <2>2, SignatureEffect DEF Holds, Leaves, Holding
<1>9. CASE ReverifyContinues(c)
  <2>1. /\ Holds(c, "reverify") /\ Return(c) /\ up' = up
        /\ "older run continues" \in Explored \/ r = Current
        /\ \/ Mark(r, "awaiting") /\ UNCHANGED <<task, cur>>
           \/ Mark(r, "queued") /\ Spawn("run", r)
    BY <1>9 DEF ReverifyContinues
  <2>2. CASE Mark(r, "awaiting") /\ UNCHANGED <<task, cur>>
    <3>1. Touches(r) /\ KeepsSignature(r) /\ run'[r].status \notin Busy
      BY <1>1, <2>2, MarkEffect DEF RunStatus, Busy
    <3> QED
      BY <1>1, <2>1, <2>2, <3>1 DEF Holds, Leaves, Holding, Touches
  <2>3. CASE Mark(r, "queued") /\ Spawn("run", r)
    <3>1. Touches(r) /\ KeepsSignature(r)
      BY <1>1, <2>3, MarkEffect DEF RunStatus
    <3> QED
      BY <1>1, <2>1, <2>3, <3>1 DEF Holds, Leaves, Holding, Touches
  <2> QED
    BY <2>1, <2>2, <2>3
<1>10. CASE RecoveryNotPublished(c)
  <2>1. /\ Holds(c, "recover") /\ Return(c) /\ UNCHANGED <<task, cur, up>>
        /\ \/ Mark(r, "awaiting")
           \/ "recovery unpublished" \in Explored /\ UNCHANGED <<run, project>>
    BY <1>10 DEF RecoveryNotPublished
  <2>2. CASE Mark(r, "awaiting")
    <3>1. Touches(r) /\ KeepsSignature(r) /\ run'[r].status \notin Busy
      BY <1>1, <2>2, MarkEffect DEF RunStatus, Busy
    <3> QED
      BY <1>1, <2>1, <3>1 DEF Holds, Leaves, Holding, Touches
  <2>3. CASE "recovery unpublished" \in Explored /\ UNCHANGED <<run, project>>
    BY <1>1, <1>2, <1>3, <2>1, <2>3 DEF Holds, Leaves, Holding
  <2> QED
    BY <2>1, <2>2, <2>3
<1>11. CASE ChatEnds(c)
  <2>1. project' \in ProjectRow /\ Current' = Current
    BY <1>11 DEF TypeOK, ChatEnds, ProjectRow, RunStatus, Current
  <2> QED
    BY <1>1, <1>2, <1>11, <2>1 DEF ChatEnds, Holds, Leaves, Holding
<1>12. CASE ReverifyAccepts(c) /\ Return(c)
  <2>1. project' \in ProjectRow /\ (Current' = Current \/ Current' = r)
    BY <1>1, <1>12, BoundsAssumption
       DEF TypeOK, ReverifyAccepts, ProjectRow, RunStatus, Current, Runs
  <2> QED
    BY <1>1, <1>2, <1>12, <2>1 DEF ReverifyAccepts, Holds, Leaves, Holding
<1> QED
  BY <1>4, <1>5, <1>6, <1>7, <1>8, <1>9, <1>10, <1>11, <1>12

\* The review accepts the report and the request goes on to sign it.
LEMMA AcceptEffect ==
  ASSUME TypeOK, NEW c \in Client, ReverifyAccepts(c), ~Return(c)
  PROVE  /\ call[c].at = "reverify" /\ lock = c
         /\ Request(c, "sign", call[c].run, NoTask)
         /\ project' \in ProjectRow /\ Current' \in {Current, call[c].run}
         /\ UNCHANGED <<run, task, cur, lock, up>>
<1>1. call[c].run \in 0 .. MaxRuns
  BY BoundsAssumption, FieldTypes DEF Runs
<1> QED
  BY <1>1 DEF TypeOK, ReverifyAccepts, Holds, ProjectRow, RunStatus, Current

\* The parts of a task that stop and Shutdown leave alone.
CancelsOnly(S) ==
  /\ task' \in [Task -> TaskRow] /\ UNCHANGED cur
  /\ \A t \in Task : /\ task'[t].at = task[t].at /\ task'[t].run = task[t].run
                     /\ task'[t].stale = task[t].stale
                     /\ task'[t].cancel => task[t].cancel \/ t \in S

\* Cancelling the entry of _tasks changes nothing else of the tasks.
LEMMA CancelEffect ==
  ASSUME TypeOK, is_active, UNCHANGED cur, task' = [task EXCEPT ![cur].cancel = TRUE]
  PROVE  CancelsOnly({cur})
<1> DEFINE new == [task[cur] EXCEPT !.cancel = TRUE]
<1>1. cur \in Task
  BY DEF TypeOK, is_active
<1>2. /\ new \in TaskRow /\ new.at = task[cur].at /\ new.run = task[cur].run
      /\ new.stale = task[cur].stale
  BY <1>1 DEF TypeOK, TaskRow
<1>3. task' = [task EXCEPT ![cur] = new]
  OBVIOUS
<1> HIDE DEF new
<1> QED
  BY <1>1, <1>2, <1>3 DEF TypeOK, CancelsOnly

\* stop: the run is marked, the task that is found is cancelled and waited for.
LEMMA StopEffect ==
  ASSUME TypeOK, NEW c \in Client, stop(c)
  PROVE  /\ Current \in Runs /\ Touches(Current) /\ KeepsSignature(Current)
         /\ run'[Current].status \notin Busy
         /\ call[c].at = "idle" /\ UNCHANGED <<lock, up>>
         /\ \/ /\ is_active /\ CancelsOnly({cur})
               /\ Request(c, "stop", Current, cur)
            \/ ~is_active /\ UNCHANGED <<task, cur, call>>
<1>1. Current \in Runs
  BY FieldTypes DEF stop
<1>2. ASSUME NEW s \in {"stopping", "stopped"},
             Store(Current, [Marked(Current, s) EXCEPT !.stop = TRUE], s)
      PROVE  Touches(Current) /\ KeepsSignature(Current) /\ run'[Current].status \notin Busy
  <2> DEFINE rec == [Marked(Current, s) EXCEPT !.stop = TRUE]
  <2>1. s \in RunStatus /\ s \in ProjectStatus /\ s \notin Busy
    BY DEF RunStatus, ProjectStatus, Busy
  <2>2. /\ rec \in RunRow /\ rec.status = s
        /\ rec.sig = run[Current].sig /\ rec.covered = run[Current].covered
    <3>1. /\ Marked(Current, s) \in RunRow /\ Marked(Current, s).status = s
          /\ Marked(Current, s).sig = run[Current].sig
          /\ Marked(Current, s).covered = run[Current].covered
      BY <1>1, <2>1, MarkedType
    <3> QED
      BY <3>1 DEF RunRow
  <2> HIDE DEF rec
  <2>3. Store(Current, rec, s)
    BY <1>2 DEF rec
  <2> QED
    BY <1>1, <2>1, <2>2, <2>3, StoreEffect DEF KeepsSignature
<1> QED
  BY <1>1, <1>2, CancelEffect DEF stop, New

\* An approval adds turns, a denial a task without the lock.
LEMMA ApproveEffect ==
  ASSUME TypeOK, NEW c \in Client, approve_extension(c)
  PROVE  /\ Current \in Runs /\ Touches(Current) /\ KeepsSignature(Current)
         /\ run'[Current].status = run[Current].status
         /\ call[c].at = "idle" /\ Request(c, "approved", Current, NoTask)
         /\ UNCHANGED <<task, cur, lock, up>>
<1>1. Current \in Runs
  BY FieldTypes DEF approve_extension
<1> DEFINE new == [run[Current] EXCEPT !.left = Least(@ + MaxTurns, MaxTurns)]
<1>2. Least(run[Current].left + MaxTurns, MaxTurns) \in 0 .. MaxTurns
  BY <1>1, FieldTypes DEF Least
<1>3. /\ new \in RunRow /\ new.status = run[Current].status
      /\ new.sig = run[Current].sig /\ new.covered = run[Current].covered
  BY <1>1, <1>2, FieldTypes DEF RunRow
<1>4. run' = [run EXCEPT ![Current] = new] /\ UNCHANGED project
  BY DEF approve_extension
<1> HIDE DEF new
<1>5. Touches(Current) /\ KeepsSignature(Current) /\ run'[Current].status = run[Current].status
  BY <1>1, <1>3, <1>4 DEF TypeOK, Touches, KeepsSignature, Current
<1> QED
  BY <1>1, <1>5 DEF approve_extension, New

LEMMA DenyEffect ==
  ASSUME TypeOK, NEW c \in Client, deny_extension(c)
  PROVE  /\ Current \in Runs /\ Touches(Current) /\ KeepsSignature(Current)
         /\ Spawn("denial", Current) /\ UNCHANGED <<lock, call, up>>
         /\ "denial overlaps" \in Explored \/ (lock = NoClient /\ ~is_active)
<1>1. Current \in Runs /\ Mark(Current, "queued")
  BY FieldTypes DEF deny_extension
<1> QED
  BY <1>1, MarkEffect DEF deny_extension, RunStatus

\* After a restart nobody works and no run is busy.
LEMMA RestartEffect ==
  ASSUME TypeOK, Restart
  PROVE  /\ run' \in [Runs -> RunRow] /\ project' \in ProjectRow
         /\ task' = [t \in Task |-> IdleTask] /\ cur' = NoTask
         /\ lock' = NoClient /\ call' = [c \in Client |-> IdleCall] /\ up'
         /\ \A r \in Runs : KeepsSignature(r) /\ run'[r].status \notin Busy
<1>1. ASSUME NEW r \in Runs
      PROVE  Marked(r, "stopped") \in RunRow /\ Marked(r, "stopped").status = "stopped"
             /\ Marked(r, "stopped").sig = run[r].sig
             /\ Marked(r, "stopped").covered = run[r].covered
  BY MarkedType DEF RunStatus
<1>2. run' = [r \in Runs |-> IF r \in Interrupted THEN Marked(r, "stopped") ELSE run[r]]
  BY DEF Restart
<1>3. run' \in [Runs -> RunRow] /\ \A r \in Runs : KeepsSignature(r)
  BY <1>1, <1>2, FieldTypes DEF KeepsSignature
<1>4. ASSUME NEW r \in Runs
      PROVE  run'[r].status \notin Busy
  BY <1>1, <1>2 DEF Interrupted, ACTIVE_STATUSES, Busy
<1>5. project' \in ProjectRow
  BY BoundsAssumption DEF TypeOK, Restart, Interrupted, ProjectRow, RunStatus, Runs
<1> QED
  BY <1>3, <1>4, <1>5 DEF Restart

\* The steps on the status of the project alone.
LEMMA PauseEffect ==
  ASSUME TypeOK, pause_chat \/ resume_chat
  PROVE  /\ project' \in ProjectRow /\ Current' = Current
         /\ UNCHANGED <<run, task, cur, lock, call, up>>
BY DEF TypeOK, pause_chat, resume_chat, ProjectRow, RunStatus, Current

LEMMA ShutdownEffect ==
  ASSUME TypeOK, Shutdown
  PROVE  /\ up' = FALSE /\ UNCHANGED <<run, project, cur, lock, call>>
         /\ CancelsOnly({cur})
<1>1. ~is_active => CancelsOnly({cur})
  BY DEF TypeOK, Shutdown, CancelsOnly
<1>2. is_active => CancelsOnly({cur})
  BY CancelEffect DEF Shutdown
<1> QED
  BY <1>1, <1>2 DEF Shutdown

\* Every step keeps TypeOK: what it does to each variable is in the lemmas above.
LEMMA TypeStep ==
  ASSUME TypeOK, [Next]_vars
  PROVE  TypeOK'
<1> USE IdleType, NoneAssumption
<1>0. /\ run \in [Runs -> RunRow] /\ project \in ProjectRow
      /\ task \in [Task -> TaskRow] /\ cur \in Task \cup {NoTask}
      /\ lock \in Client \cup {NoClient} /\ call \in [Client -> CallRow]
      /\ up \in BOOLEAN
      /\ \A t \in Task : task[t].cancel => task[t].at # "idle"
      /\ cur # NoTask => task[cur].at # "idle"
      /\ \A c \in Client : call[c].at = "resume" => Current # 0
      /\ ~IdleTask.cancel /\ 0 \notin Runs
  BY DEF TypeOK, Live, is_active, IdleTask, Runs
<1> DEFINE TypedTasks ==
             /\ task' \in [Task -> TaskRow] /\ cur' \in Task \cup {NoTask}
             /\ \A t \in Task : task'[t].cancel => task'[t].at # "idle"
             /\ cur' # NoTask => task'[cur'].at # "idle"
           TypedCalls ==
             /\ call' \in [Client -> CallRow]
             /\ \A c \in Client : call'[c].at = "resume" => Current' # 0
<1>1. ASSUME TypedTasks, TypedCalls, run' \in [Runs -> RunRow], project' \in ProjectRow,
             lock' \in Client \cup {NoClient}, up' \in BOOLEAN
      PROVE  TypeOK'
  BY <1>1 DEF TypeOK, Live, is_active
<1>2. UNCHANGED <<task, cur>> => TypedTasks
  BY <1>0
<1>3. UNCHANGED call /\ (Current' = Current \/ Current' \in Runs) => TypedCalls
  BY <1>0
<1>4. ASSUME NEW kind \in {"run", "denial"}, NEW r \in Runs, Spawn(kind, r)
      PROVE  TypedTasks
  BY <1>0, <1>4, SpawnEffect
<1>5. ASSUME NEW S, CancelsOnly(S), S \subseteq {cur} \ {NoTask}
      PROVE  TypedTasks
  BY <1>0, <1>5 DEF CancelsOnly
<1>calls. ASSUME NEW c \in Client, NEW at \in Holding \cup {"approved", "stop"},
                 NEW r \in Runs, NEW on \in Task \cup {NoTask}, Request(c, at, r, on),
                 Current' = Current \/ Current' \in Runs, at = "resume" => Current' # 0
          PROVE  TypedCalls
  <2>1. /\ call' \in [Client -> CallRow] /\ call'[c].at = at
        /\ \A d \in Client : d # c => call'[d] = call[d]
    BY <1>calls, RequestEffect
  <2> QED
    BY <1>0, <1>calls, <2>1
<1> HIDE DEF TypedTasks, TypedCalls
<1>6. ASSUME NEW t \in Task, TaskStep(t)
      PROVE  TypeOK'
  <2>1. CASE \/ RunBegins(t) \/ TurnEnds(t) \/ DenialAnswered(t) \/ ProviderFails(t)
             \/ ToolReturns(t) \/ ReviewContinues(t) \/ PublishingFails(t) \/ Unwind(t)
    <3>1. /\ Touches(task[t].run) /\ UNCHANGED <<lock, up>>
          /\ Finish(t) \/ Moves(t)
      BY <2>1, WorkEffect DEF Ends
    <3>2. TypedTasks /\ TypedCalls
      BY <1>0, <3>1, MoveType DEF TypedTasks, TypedCalls, Touches
    <3> QED
      BY <1>0, <1>1, <3>1, <3>2 DEF Touches
  <2>2. CASE ReviewPublishes(t)
    <3>1. task[t].run \in Runs
      BY FieldTypes
    <3>2. TypedTasks /\ TypedCalls
      BY <1>0, <2>2, <3>1, PublishesEffect, PublishEffect DEF TypedTasks, TypedCalls
    <3> QED
      BY <1>0, <1>1, <2>2, <3>1, <3>2, PublishesEffect, PublishEffect
  <2>3. CASE SigningEnds(t)
    <3>1. TypedTasks /\ TypedCalls
      BY <1>0, <2>3, SigningEffect, MoveType DEF TypedTasks, TypedCalls, Touches
    <3> QED
      BY <1>0, <1>1, <2>3, <3>1, SigningEffect DEF Touches
  <2> QED
    BY <1>6, <2>1, <2>2, <2>3 DEF TaskStep
<1>7. ASSUME NEW c \in Client, Enters(c)
      PROVE  TypeOK'
  <2>1. PICK at \in Holding, r \in Runs :
          /\ lock' = c /\ Request(c, at, r, NoTask) /\ UNCHANGED <<task, cur, up>>
          /\ at = "resume" => Current # 0
          /\ Touches(r)
    BY <1>7 DEF Enters
  <2>2. TypedCalls
    BY <1>0, <2>1, RequestEffect DEF TypedCalls, Touches
  <2> QED
    BY <1>0, <1>1, <1>2, <2>1, <2>2 DEF Touches
<1>8. ASSUME NEW c \in Client, NEW r \in Runs, Leaves(c, r)
      PROVE  TypeOK'
  <2>1. /\ Return(c) /\ up' = up /\ Current' \in Runs \cup {Current}
        /\ run' \in [Runs -> RunRow] /\ project' \in ProjectRow
        /\ Spawn("run", r) \/ UNCHANGED <<task, cur>>
    BY <1>8 DEF Leaves
  <2>2. TypedTasks
    BY <1>2, <1>4, <2>1
  <2>3. TypedCalls
    BY <1>0, <2>1, ReturnEffect DEF TypedCalls
  <2> QED
    BY <1>0, <1>1, <2>1, <2>2, <2>3, ReturnEffect
<1>9. ASSUME NEW c \in Client, Ask(c)
      PROVE  TypeOK'
  <2>1. CASE approve_extension(c)
    <3>1. /\ Current \in Runs /\ Touches(Current) /\ Request(c, "approved", Current, NoTask)
          /\ UNCHANGED <<task, cur, lock, up>>
      BY <1>0, <2>1, ApproveEffect
    <3>2. "approved" \in Holding \cup {"approved", "stop"} /\ NoTask \in Task \cup {NoTask}
      OBVIOUS
    <3>3. TypedCalls
      BY <1>calls, <3>1, <3>2 DEF Touches
    <3> QED
      BY <1>0, <1>1, <1>2, <3>1, <3>3 DEF Touches
  <2>2. CASE deny_extension(c)
    BY <1>0, <1>1, <1>3, <1>4, <2>2, DenyEffect DEF Touches
  <2>3. CASE stop(c)
    <3>1. TypedTasks
      BY <1>2, <1>5, <2>3, StopEffect DEF is_active
    <3>2. TypedCalls
      <4>1. /\ Current \in Runs /\ Current' = Current
            /\ (is_active /\ Request(c, "stop", Current, cur)) \/ call' = call
        BY <2>3, StopEffect DEF Touches
      <4>2. "stop" \in Holding \cup {"approved", "stop"} /\ cur \in Task \cup {NoTask}
        BY <1>0
      <4> QED
        BY <1>3, <1>calls, <4>1, <4>2
    <3> QED
      BY <1>0, <1>1, <2>3, <3>1, <3>2, StopEffect DEF Touches
  <2> QED
    BY <1>7, <1>9, <2>1, <2>2, <2>3, EnterEffect DEF Ask
<1>10. ASSUME NEW c \in Client, Answer(c)
      PROVE  TypeOK'
  <2>1. CASE ReverifyAccepts(c) /\ ~Return(c)
    <3>1. TypedCalls
      <4>1. call[c].at = "reverify" /\ Request(c, "sign", call[c].run, NoTask)
            /\ Current' \in {Current, call[c].run}
        BY <2>1, AcceptEffect
      <4>2. /\ "sign" \in Holding \cup {"approved", "stop"} /\ NoTask \in Task \cup {NoTask}
            /\ call[c].run \in Runs
        BY <4>1, FieldTypes DEF Holding
      <4> QED
        BY <1>calls, <4>1, <4>2
    <3> QED
      BY <1>0, <1>1, <1>2, <2>1, <3>1, AcceptEffect
  <2>2. CASE ApprovalRefused(c)
    <3>1. /\ call' = [call EXCEPT ![c] = IdleCall]
          /\ UNCHANGED <<run, project, task, cur, lock, up>> /\ Current' = Current
      BY <2>2 DEF ApprovalRefused, Current
    <3>2. TypedCalls
      BY <1>0, <3>1 DEF TypedCalls
    <3> QED
      BY <1>0, <1>1, <1>2, <3>1, <3>2
  <2>3. CASE StopTimesOut(c)
    <3>1. Touches(call[c].run)
      BY <2>3, FieldTypes, MarkEffect DEF StopTimesOut, RunStatus
    <3>2. /\ call' = [call EXCEPT ![c] = IdleCall] /\ UNCHANGED <<task, cur, lock, up>>
      BY <2>3 DEF StopTimesOut
    <3>3. TypedCalls
      BY <1>0, <3>1, <3>2 DEF TypedCalls, Touches
    <3> QED
      BY <1>0, <1>1, <1>2, <3>1, <3>2, <3>3 DEF Touches
  <2>4. CASE CallPublishes(c)
    <3>1. call[c].run \in Runs
      BY FieldTypes
    <3>2. TypedTasks
      BY <1>0, <2>4, CallPublishesEffect DEF TypedTasks
    <3>3. TypedCalls
      BY <1>0, <2>4, <3>1, CallPublishesEffect, PublishEffect DEF TypedCalls
    <3> QED
      BY <1>0, <1>1, <2>4, <3>1, <3>2, <3>3, CallPublishesEffect, PublishEffect
  <2> QED
    BY <1>8, <1>10, <2>1, <2>2, <2>3, <2>4, LeaveEffect DEF Answer
<1>11. CASE Restart
  <2>1. TypedTasks
    BY <1>0, <1>11, RestartEffect DEF TypedTasks
  <2>2. TypedCalls
    BY <1>0, <1>11, RestartEffect DEF TypedCalls
  <2> QED
    BY <1>0, <1>1, <1>11, <2>1, <2>2, RestartEffect
<1>12. CASE Shutdown
  <2>1. TypedTasks
    <3>1. CASE is_active
      BY <1>5, <1>12, <3>1, ShutdownEffect DEF is_active
    <3>2. CASE ~is_active
      BY <1>2, <1>12, <3>2 DEF Shutdown
    <3> QED
      BY <3>1, <3>2
  <2> QED
    BY <1>0, <1>1, <1>3, <1>12, <2>1, ShutdownEffect DEF Current
<1>13. CASE pause_chat \/ resume_chat
  BY <1>0, <1>1, <1>2, <1>3, <1>13, PauseEffect
<1>14. CASE UNCHANGED vars
  BY <1>0, <1>1, <1>2, <1>3, <1>14 DEF vars, Current
<1> QED
  BY <1>6, <1>9, <1>10, <1>11, <1>12, <1>13, <1>14 DEF Next

LEMMA TypeInit == Init => TypeOK
BY BoundsAssumption, IdleType
   DEF Init, TypeOK, NoRun, IdleTask, Live, is_active, RunRow, RunStatus, ProjectRow,
       IdleCall

\* The types, with only a live task in _tasks or cancelled, whatever is explored.
THEOREM ReverseRunTypes == Spec => []TypeOK
<1>1. Init => TypeOK
  BY TypeInit
<1>2. TypeOK /\ [Next]_vars => TypeOK'
  BY TypeStep
<1> QED
  BY <1>1, <1>2, PTL DEF Spec

-----------------------------------------------------------------------------
(***************************************************************************)
(* One worker at a time.                                                   *)
(***************************************************************************)
\* SlotInv with its names expanded.
LEMMA SlotFacts ==
  SlotInv <=> /\ \A t \in Task : task[t].at # "idle" => cur = t
              /\ cur # NoTask => lock = NoClient
              /\ \A c \in Client : call[c].at \in Holding <=> lock = c
              /\ \A c \in Client : call[c].on # NoTask => call[c].at = "stop"
BY DEF SlotInv, Live, is_active

\* Every step keeps the lock and the entry of _tasks apart.
LEMMA SlotStep ==
  ASSUME TypeOK, SlotInv, [Next]_vars, NoOverlap
  PROVE  SlotInv'
<1> USE IdleType, NoneAssumption
<1>0. /\ \A t \in Task : task[t].at # "idle" => cur = t
      /\ cur # NoTask => lock = NoClient
      /\ \A c \in Client : call[c].at \in Holding <=> lock = c
      /\ \A c \in Client : call[c].on # NoTask => call[c].at = "stop"
      /\ cur \in Task \cup {NoTask} /\ lock \in Client \cup {NoClient}
  BY SlotFacts DEF TypeOK
<1> DEFINE SlotTasks == /\ \A t \in Task : task'[t].at # "idle" => cur' = t
                        /\ cur' # NoTask => lock' = NoClient
           SlotCalls == /\ \A c \in Client : call'[c].at \in Holding <=> lock' = c
                        /\ \A c \in Client : call'[c].on # NoTask => call'[c].at = "stop"
<1>1. SlotTasks /\ SlotCalls => SlotInv'
  BY DEF SlotInv, Live, is_active
<1>2. UNCHANGED <<task, cur, lock>> => SlotTasks
  BY <1>0
<1>3. UNCHANGED <<lock, call>> => SlotCalls
  BY <1>0
<1>a. ASSUME \A t \in Task : task'[t].at # "idle" => task[t].at # "idle", UNCHANGED <<cur, lock>>
      PROVE  SlotTasks
  BY <1>0, <1>a
<1>b. ASSUME NEW c \in Client,
             \A d \in Client : d # c => call'[d].at = call[d].at /\ call'[d].on = call[d].on,
             call'[c].at \in Holding <=> lock' = c,
             call'[c].on # NoTask => call'[c].at = "stop",
             lock' = lock \/ (lock \in {c, NoClient} /\ lock' \in {c, NoClient})
      PROVE  SlotCalls
  <2> SUFFICES ASSUME NEW d \in Client
               PROVE  /\ call'[d].at \in Holding <=> lock' = d
                      /\ call'[d].on # NoTask => call'[d].at = "stop"
    OBVIOUS
  <2>1. CASE d = c
    BY <1>b, <2>1
  <2>2. CASE d # c
    <3>1. call'[d].at = call[d].at /\ call'[d].on = call[d].on
      BY <1>b, <2>2
    <3>2. lock' = d <=> lock = d
      BY <1>b, <2>2
    <3> QED
      BY <1>0, <3>1, <3>2
  <2> QED
    BY <2>1, <2>2
<1>4. ASSUME NEW kind \in {"run", "denial"}, NEW r \in Runs, Spawn(kind, r),
             ~is_active, lock' = NoClient
      PROVE  SlotTasks
  <2>1. \A t \in Task : task[t].at = "idle"
    BY <1>0, <1>4 DEF is_active
  <2>2. \A t \in Task : t # cur' => task'[t] = task[t]
    BY <1>4, SpawnEffect
  <2> QED
    BY <1>4, <2>1, <2>2
<1>5. ASSUME NEW S, CancelsOnly(S), UNCHANGED lock
      PROVE  SlotTasks
  BY <1>0, <1>5 DEF CancelsOnly
<1>6. ASSUME NEW t \in Task, Live(t), Finish(t) \/ Moves(t), UNCHANGED lock
      PROVE  SlotTasks /\ SlotCalls
  <2>1. cur = t /\ lock = NoClient
    BY <1>0, <1>6 DEF Live
  <2>2. CASE Finish(t)
    <3>1. /\ \A u \in Task : u # t => task'[u] = task[u]
          /\ task'[t] = IdleTask /\ cur' = NoTask
      BY <2>1, <2>2, FinishEffect
    <3>2. \A u \in Task : task'[u].at = "idle"
      BY <1>0, <2>1, <3>1
    <3>3. SlotTasks
      BY <3>1, <3>2
    <3>4. \A c \in Client : call'[c] = call[c] \/ call'[c] = IdleCall
      BY <2>2, FinishEffect
    <3>5. \A c \in Client : call[c].at \notin Holding /\ lock' # c
      BY <1>0, <1>6, <2>1
    <3>6. SlotCalls
      BY <1>0, <3>4, <3>5 DEF Holding
    <3> QED
      BY <3>3, <3>6
  <2>3. ASSUME NEW at \in {"provider", "tool", "review"}, Await(t, at)
        PROVE  SlotTasks /\ SlotCalls
    <3>1. cur' = cur /\ call' = call /\ \A u \in Task : u # t => task'[u] = task[u]
      BY <2>3, AwaitEffect
    <3>2. SlotTasks
      BY <1>0, <1>6, <2>1, <3>1
    <3> QED
      BY <1>3, <1>6, <3>1, <3>2
  <2> QED
    BY <1>6, <2>2, <2>3 DEF Moves
<1> HIDE DEF SlotTasks, SlotCalls
<1>7. ASSUME NEW t \in Task, TaskStep(t)
      PROVE  SlotInv'
  <2>1. CASE ReviewPublishes(t)
    <3>1. SlotTasks
      BY <1>0, <2>1, PublishesEffect DEF SlotTasks
    <3>2. /\ \A c \in Client : call'[c].at = call[c].at /\ call'[c].on = call[c].on
          /\ UNCHANGED lock
      BY <2>1, PublishesEffect
    <3>3. SlotCalls
      BY <1>0, <3>2 DEF SlotCalls
    <3> QED
      BY <1>1, <3>1, <3>3
  <2>2. CASE SigningEnds(t)
    BY <1>1, <1>6, <2>2, SigningEffect DEF Live
  <2>3. CASE \/ RunBegins(t) \/ TurnEnds(t) \/ DenialAnswered(t) \/ ProviderFails(t)
             \/ ToolReturns(t) \/ ReviewContinues(t) \/ PublishingFails(t) \/ Unwind(t)
    BY <1>1, <1>6, <2>3, WorkEffect DEF Ends
  <2> QED
    BY <1>7, <2>1, <2>2, <2>3 DEF TaskStep
<1>8. ASSUME NEW c \in Client, Enters(c)
      PROVE  SlotInv'
  <2>1. PICK at \in Holding, r \in Runs :
          /\ lock = NoClient /\ ~is_active /\ lock' = c
          /\ Request(c, at, r, NoTask) /\ UNCHANGED <<task, cur>>
    BY <1>8 DEF Enters
  <2>2. SlotTasks
    BY <1>0, <2>1 DEF SlotTasks, is_active
  <2>3. SlotCalls
    <3>1. /\ call'[c].at = at /\ call'[c].on = NoTask
          /\ \A d \in Client : d # c => call'[d] = call[d]
      BY <2>1, RequestEffect
    <3> QED
      BY <1>b, <2>1, <3>1
  <2> QED
    BY <1>1, <2>2, <2>3
<1>9. ASSUME NEW c \in Client, NEW r \in Runs, Leaves(c, r)
      PROVE  SlotInv'
  <2>1. /\ lock = c /\ Return(c)
        /\ Spawn("run", r) \/ UNCHANGED <<task, cur>>
    BY <1>9 DEF Leaves
  <2>2. ~is_active /\ lock' = NoClient
    BY <1>0, <2>1, ReturnEffect DEF is_active
  <2>3. SlotTasks
    <3>1. CASE UNCHANGED <<task, cur>>
      BY <1>0, <2>2, <3>1 DEF SlotTasks, is_active
    <3> QED
      BY <1>4, <2>1, <2>2, <3>1
  <2>4. SlotCalls
    <3>1. /\ call'[c] = IdleCall /\ \A d \in Client : d # c => call'[d] = call[d]
      BY <2>1, ReturnEffect
    <3>2. lock' # c /\ call'[c].at \notin Holding
      BY <2>2, <3>1 DEF Holding
    <3> QED
      BY <1>b, <2>1, <2>2, <3>1, <3>2
  <2> QED
    BY <1>1, <2>3, <2>4
<1>10. ASSUME NEW c \in Client, Ask(c)
       PROVE  SlotInv'
  <2>1. CASE approve_extension(c)
    <3>1. call[c].at = "idle" /\ Request(c, "approved", Current, NoTask) /\ Current \in Runs
          /\ UNCHANGED <<task, cur, lock>>
      BY <2>1, ApproveEffect
    <3>2. SlotCalls
      <4>1. /\ call'[c].at = "approved" /\ call'[c].on = NoTask
            /\ \A d \in Client : d # c => call'[d] = call[d]
        BY <3>1, RequestEffect
      <4>2. lock' # c /\ call'[c].at \notin Holding
        BY <1>0, <3>1, <4>1 DEF Holding
      <4> QED
        BY <1>b, <3>1, <4>1, <4>2
    <3> QED
      BY <1>1, <1>2, <3>1, <3>2
  <2>2. CASE deny_extension(c)
    BY <1>1, <1>3, <1>4, <2>2, DenyEffect DEF NoOverlap
  <2>3. CASE stop(c)
    <3>1. SlotTasks
      BY <1>2, <1>5, <2>3, StopEffect
    <3>2. CASE Request(c, "stop", Current, cur)
      <4>1. Current \in Runs /\ call[c].at = "idle" /\ UNCHANGED lock
        BY <2>3, StopEffect
      <4>2. /\ call'[c].at = "stop" /\ call'[c].on = cur
            /\ \A d \in Client : d # c => call'[d] = call[d]
        BY <1>0, <3>2, <4>1, RequestEffect
      <4>3. lock' # c /\ call'[c].at \notin Holding
        BY <1>0, <4>1, <4>2 DEF Holding
      <4>4. SlotCalls
        BY <1>b, <4>1, <4>2, <4>3
      <4> QED
        BY <1>1, <3>1, <4>4
    <3>3. CASE UNCHANGED call
      BY <1>1, <1>3, <2>3, <3>1, <3>3, StopEffect
    <3> QED
      BY <2>3, <3>2, <3>3, StopEffect
  <2> QED
    BY <1>8, <1>10, <2>1, <2>2, <2>3, EnterEffect DEF Ask
<1>11. ASSUME NEW c \in Client, Answer(c)
       PROVE  SlotInv'
  <2>1. CASE ReverifyAccepts(c) /\ ~Return(c)
    <3>1. /\ lock = c /\ Request(c, "sign", call[c].run, NoTask) /\ call[c].run \in Runs
          /\ UNCHANGED <<task, cur, lock>>
      BY <2>1, FieldTypes, AcceptEffect
    <3>2. SlotCalls
      <4>1. /\ call'[c].at = "sign" /\ call'[c].on = NoTask
            /\ \A d \in Client : d # c => call'[d] = call[d]
        BY <3>1, RequestEffect DEF Holding
      <4>2. lock' = c /\ call'[c].at \in Holding
        BY <3>1, <4>1 DEF Holding
      <4> QED
        BY <1>b, <3>1, <4>1, <4>2
    <3> QED
      BY <1>1, <1>2, <3>1, <3>2
  <2>2. CASE ApprovalRefused(c) \/ StopTimesOut(c)
    <3>1. /\ call' = [call EXCEPT ![c] = IdleCall]
          /\ call[c].at \in {"approved", "stop"} /\ UNCHANGED <<task, cur, lock>>
      BY <2>2 DEF ApprovalRefused, StopTimesOut
    <3>2. SlotCalls
      BY <1>0, <3>1 DEF TypeOK, SlotCalls, Holding
    <3> QED
      BY <1>1, <1>2, <3>1, <3>2
  <2>3. CASE CallPublishes(c)
    <3>1. SlotTasks
      <4>1. (\A u \in Task : task'[u].at = task[u].at) /\ UNCHANGED <<cur, lock>>
        BY <2>3, CallPublishesEffect
      <4> QED
        BY <1>a, <4>1
    <3>2. SlotCalls
      <4>1. /\ lock = c /\ UNCHANGED lock /\ call'[c].at = "sign"
            /\ call'[c].on = call[c].on /\ call[c].at \in {"reverify", "recover"}
            /\ \A d \in Client : d # c => call'[d].at = call[d].at /\ call'[d].on = call[d].on
        BY <2>3, CallPublishesEffect
      <4>2. call'[c].at \in Holding /\ call'[c].on = NoTask
        BY <1>0, <4>1 DEF Holding
      <4> QED
        BY <1>b, <4>1, <4>2
    <3> QED
      BY <1>1, <3>1, <3>2
  <2> QED
    BY <1>9, <1>11, <2>1, <2>2, <2>3, LeaveEffect DEF Answer
<1>12. CASE Restart
  <2>1. SlotTasks
    BY <1>12, RestartEffect DEF SlotTasks
  <2>2. SlotCalls
    BY <1>12, RestartEffect DEF SlotCalls, Holding
  <2> QED
    BY <1>1, <2>1, <2>2
<1>13. CASE Shutdown
  BY <1>1, <1>3, <1>5, <1>13, ShutdownEffect
<1>14. CASE pause_chat \/ resume_chat
  BY <1>1, <1>2, <1>3, <1>14, PauseEffect
<1>15. CASE UNCHANGED vars
  BY <1>1, <1>2, <1>3, <1>15 DEF vars
<1> QED
  BY <1>7, <1>10, <1>11, <1>12, <1>13, <1>14, <1>15 DEF Next

-----------------------------------------------------------------------------
(***************************************************************************)
(* A signature is of the report it is shown for.                           *)
(***************************************************************************)
LEMMA FreshStep ==
  ASSUME TypeOK, SlotInv, FreshInv, [Next]_vars
  PROVE  FreshInv'
<1> USE IdleType
<1>0. /\ \A t \in Task : ~task[t].stale
      /\ \A c \in Client : ~call[c].stale
      /\ \A r \in Runs : run[r].sig = "signed" => run[r].covered
  BY DEF FreshInv, SignatureCoversReport
<1> DEFINE FreshTasks == \A t \in Task : ~task'[t].stale
           FreshCalls == \A c \in Client : ~call'[c].stale
           Covered == \A r \in Runs : run'[r].sig = "signed" => run'[r].covered
<1>1. FreshTasks /\ FreshCalls /\ Covered => FreshInv'
  BY DEF FreshInv, SignatureCoversReport
<1>2. UNCHANGED task => FreshTasks
  BY <1>0
<1>3. UNCHANGED call => FreshCalls
  BY <1>0
<1>4. UNCHANGED run => Covered
  BY <1>0
<1>5. ASSUME NEW r \in Runs, Touches(r), KeepsSignature(r)
      PROVE  Covered
  BY <1>0, <1>5 DEF Touches, KeepsSignature
<1>6. ASSUME NEW kind \in {"run", "denial"}, NEW r \in Runs, Spawn(kind, r)
      PROVE  FreshTasks
  <2>1. ~task'[cur'].stale /\ \A t \in Task : t # cur' => task'[t] = task[t]
    BY <1>6, SpawnEffect
  <2> QED
    BY <1>0, <2>1
<1>7. ASSUME NEW S, CancelsOnly(S)
      PROVE  FreshTasks
  BY <1>0, <1>7 DEF CancelsOnly
<1>8. ASSUME NEW t \in Task, Finish(t) \/ Moves(t)
      PROVE  FreshTasks /\ FreshCalls
  <2>1. CASE Finish(t)
    BY <1>0, <2>1, FinishEffect
  <2>2. ASSUME NEW at \in {"provider", "tool", "review"}, Await(t, at)
        PROVE  FreshTasks /\ FreshCalls
    <3>1. /\ call' = call /\ task'[t].stale = task[t].stale
          /\ \A u \in Task : u # t => task'[u] = task[u]
      BY <2>2, AwaitEffect
    <3> QED
      BY <1>0, <3>1
  <2> QED
    BY <1>8, <2>1, <2>2 DEF Moves
<1>9. ASSUME NEW c \in Client, NEW at \in Holding \cup {"approved", "stop"}, NEW r \in Runs,
             NEW on \in Task \cup {NoTask}, Request(c, at, r, on)
      PROVE  FreshCalls
  <2>1. ~call'[c].stale /\ \A d \in Client : d # c => call'[d] = call[d]
    BY <1>9, RequestEffect
  <2> QED
    BY <1>0, <2>1
<1>10. ASSUME NEW c \in Client, call' = [call EXCEPT ![c] = IdleCall]
       PROVE  FreshCalls
  BY <1>0, <1>10 DEF TypeOK
<1> HIDE DEF FreshTasks, FreshCalls, Covered
<1>11. ASSUME NEW t \in Task, TaskStep(t)
       PROVE  FreshInv'
  <2>0. task[t].run \in Runs
    BY FieldTypes
  <2>1. CASE ReviewPublishes(t)
    <3>1. /\ \A u \in Task : u # t => task[u].at # "sign"
          /\ \A c \in Client : call[c].at # "sign"
      BY <2>1, PublishesEffect, SlotFacts, NoneAssumption DEF Holding
    <3>2. /\ task'[t].stale = task[t].stale
          /\ \A u \in Task : u # t => task'[u] = task[u]
          /\ \A c \in Client : call'[c] = call[c]
          /\ Publish(task[t].run)
      BY <2>1, <3>1, PublishesEffect
    <3>3. Covered
      BY <1>0, <2>0, <3>2, PublishEffect DEF Covered
    <3> QED
      BY <1>0, <1>1, <3>2, <3>3 DEF FreshTasks, FreshCalls
  <2>2. CASE SigningEnds(t)
    <3>1. Covered
      BY <1>0, <2>0, <2>2, SigningEffect DEF Covered, Touches
    <3> QED
      BY <1>1, <1>8, <2>2, <3>1, SigningEffect
  <2>3. CASE \/ RunBegins(t) \/ TurnEnds(t) \/ DenialAnswered(t) \/ ProviderFails(t)
             \/ ToolReturns(t) \/ ReviewContinues(t) \/ PublishingFails(t) \/ Unwind(t)
    BY <1>1, <1>5, <1>8, <2>0, <2>3, WorkEffect DEF Ends
  <2> QED
    BY <1>11, <2>1, <2>2, <2>3 DEF TaskStep
<1>12. ASSUME NEW c \in Client, Enters(c)
       PROVE  FreshInv'
  <2>1. PICK at \in Holding, r \in Runs :
          /\ Request(c, at, r, NoTask) /\ UNCHANGED task
          /\ Touches(r) /\ KeepsSignature(r)
    BY <1>12 DEF Enters
  <2> QED
    BY <1>1, <1>2, <1>5, <1>9, <2>1
<1>13. ASSUME NEW c \in Client, NEW r \in Runs, Leaves(c, r)
       PROVE  FreshInv'
  <2>1. Return(c) /\ (Spawn("run", r) \/ UNCHANGED <<task, cur>>)
    BY <1>13 DEF Leaves
  <2>2. FreshTasks /\ FreshCalls
    BY <1>2, <1>6, <1>10, <2>1 DEF Return
  <2>3. Covered
    BY <1>0, <1>13 DEF Leaves, Covered, KeepsSignature
  <2> QED
    BY <1>1, <2>2, <2>3
<1>14. ASSUME NEW c \in Client, Ask(c)
       PROVE  FreshInv'
  <2>1. CASE approve_extension(c)
    BY <1>1, <1>2, <1>5, <1>9, <2>1, ApproveEffect
  <2>2. CASE deny_extension(c)
    BY <1>1, <1>3, <1>5, <1>6, <2>2, DenyEffect
  <2>3. CASE stop(c)
    <3>1. FreshTasks /\ Covered
      BY <1>2, <1>5, <1>7, <2>3, StopEffect
    <3>2. FreshCalls
      BY <1>3, <1>9, <2>3, StopEffect DEF TypeOK
    <3> QED
      BY <1>1, <3>1, <3>2
  <2> QED
    BY <1>12, <1>14, <2>1, <2>2, <2>3, EnterEffect DEF Ask
<1>15. ASSUME NEW c \in Client, Answer(c)
       PROVE  FreshInv'
  <2>0. call[c].run \in Runs
    BY FieldTypes
  <2>1. CASE ReverifyAccepts(c) /\ ~Return(c)
    <3>1. Request(c, "sign", call[c].run, NoTask) /\ UNCHANGED <<run, task>>
      BY <2>1, AcceptEffect
    <3>2. FreshCalls
      BY <1>9, <2>0, <3>1 DEF Holding
    <3> QED
      BY <1>1, <1>2, <1>4, <3>1, <3>2
  <2>2. CASE ApprovalRefused(c)
    BY <1>1, <1>2, <1>4, <1>10, <2>2 DEF ApprovalRefused
  <2>3. CASE StopTimesOut(c)
    <3>1. Touches(call[c].run) /\ KeepsSignature(call[c].run)
      BY <2>0, <2>3, MarkEffect DEF StopTimesOut, RunStatus
    <3> QED
      BY <1>1, <1>2, <1>5, <1>10, <2>0, <2>3, <3>1 DEF StopTimesOut
  <2>4. CASE CallPublishes(c)
    <3>1. /\ Publish(call[c].run) /\ lock = c /\ call'[c].stale = call[c].stale
          /\ call[c].at \in {"reverify", "recover"}
          /\ \A u \in Task : task[u].at # "sign" => task'[u] = task[u]
          /\ \A d \in Client : d # c /\ call[d].at # "sign" => call'[d] = call[d]
      BY <2>4, CallPublishesEffect
    <3>2. /\ \A u \in Task : task[u].at # "sign"
          /\ \A d \in Client : d # c => call[d].at # "sign"
      BY <3>1, SlotFacts, NoneAssumption DEF Holding, TypeOK
    <3>3. FreshTasks /\ FreshCalls
      BY <1>0, <3>1, <3>2 DEF FreshTasks, FreshCalls
    <3>4. Covered
      BY <1>0, <2>0, <3>1, PublishEffect DEF Covered
    <3> QED
      BY <1>1, <3>3, <3>4
  <2> QED
    BY <1>13, <1>15, <2>1, <2>2, <2>3, <2>4, LeaveEffect DEF Answer
<1>16. CASE Restart
  BY <1>0, <1>1, <1>16, RestartEffect DEF FreshTasks, FreshCalls, Covered, KeepsSignature
<1>17. CASE Shutdown
  BY <1>1, <1>3, <1>4, <1>7, <1>17, ShutdownEffect
<1>18. CASE pause_chat \/ resume_chat
  BY <1>1, <1>2, <1>3, <1>4, <1>18, PauseEffect
<1>19. CASE UNCHANGED vars
  BY <1>1, <1>2, <1>3, <1>4, <1>19 DEF vars
<1> QED
  BY <1>11, <1>14, <1>15, <1>16, <1>17, <1>18, <1>19 DEF Next

-----------------------------------------------------------------------------
(***************************************************************************)
(* Work is on the run of the project.                                      *)
(***************************************************************************)
LEMMA OwnStep ==
  ASSUME TypeOK, SlotInv, OwnInv, [Next]_vars, NoOverlap, NoOlderRun
  PROVE  OwnInv'
<1> USE IdleType
<1>0. /\ \A t \in Task : task[t].at # "idle" => task[t].run = Current
      /\ \A c \in Client : call[c].at = "continue" => call[c].run = Current
  BY DEF OwnInv, StopReachesWork, Live
<1> DEFINE OwnTasks == \A t \in Task : task'[t].at # "idle" => task'[t].run = Current'
           OwnCalls == \A c \in Client : call'[c].at = "continue" => call'[c].run = Current'
<1>1. OwnTasks /\ OwnCalls => OwnInv'
  BY DEF OwnInv, StopReachesWork, Live
<1>2. UNCHANGED task /\ Current' = Current => OwnTasks
  BY <1>0
<1>3. UNCHANGED call /\ Current' = Current => OwnCalls
  BY <1>0
<1>4. ASSUME \A t \in Task : task[t].at = "idle",
             NEW kind \in {"run", "denial"}, NEW r \in Runs, Spawn(kind, r), r = Current'
      PROVE  OwnTasks
  <2>1. task'[cur'].run = r /\ \A t \in Task : t # cur' => task'[t] = task[t]
    BY <1>4, SpawnEffect
  <2> QED
    BY <1>4, <2>1
<1>5. ASSUME NEW S, CancelsOnly(S), Current' = Current
      PROVE  OwnTasks
  BY <1>0, <1>5 DEF CancelsOnly
<1>6. ASSUME NEW t \in Task, Live(t), Finish(t) \/ Moves(t), Current' = Current
      PROVE  OwnTasks /\ OwnCalls
  <2>1. CASE Finish(t)
    BY <1>0, <1>6, <2>1, FinishEffect
  <2>2. ASSUME NEW at \in {"provider", "tool", "review"}, Await(t, at)
        PROVE  OwnTasks /\ OwnCalls
    <3>1. /\ call' = call /\ task'[t].run = task[t].run
          /\ \A u \in Task : u # t => task'[u] = task[u]
      BY <2>2, AwaitEffect
    <3> QED
      BY <1>0, <1>6, <3>1 DEF Live
  <2> QED
    BY <1>6, <2>1, <2>2 DEF Moves
<1>7. ASSUME NEW c \in Client, NEW at \in Holding \cup {"approved", "stop"}, NEW r \in Runs,
             NEW on \in Task \cup {NoTask}, Request(c, at, r, on), Current' = Current,
             at = "continue" => r = Current
      PROVE  OwnCalls
  <2>1. /\ call'[c].at = at /\ call'[c].run = r
        /\ \A d \in Client : d # c => call'[d] = call[d]
    BY <1>7, RequestEffect
  <2> QED
    BY <1>0, <1>7, <2>1
<1>8. ASSUME NEW c \in Client, call' = [call EXCEPT ![c] = IdleCall],
             Current' = Current \/ lock = c
      PROVE  OwnCalls
  <2>1. \A d \in Client : d # c => call'[d] = call[d]
    BY <1>8 DEF TypeOK
  <2>2. call'[c].at = "idle"
    BY <1>8 DEF TypeOK
  <2>3. lock = c => \A d \in Client : d # c => call[d].at # "continue"
    BY SlotFacts DEF Holding
  <2> QED
    BY <1>0, <1>8, <2>1, <2>2, <2>3
<1>9. ASSUME NEW c \in Client, lock = c
      PROVE  \A t \in Task : task[t].at = "idle"
  BY <1>9, SlotFacts, NoneAssumption DEF TypeOK
<1> HIDE DEF OwnTasks, OwnCalls
<1>10. ASSUME NEW t \in Task, TaskStep(t)
       PROVE  OwnInv'
  <2>1. CASE ReviewPublishes(t)
    <3>1. /\ Publish(task[t].run) /\ task[t].run \in Runs /\ task[t].at = "review"
          /\ \A u \in Task : /\ task'[u].at = "idle" <=> task[u].at = "idle"
                             /\ task'[u].run = task[u].run
          /\ \A c \in Client : call'[c].at = call[c].at /\ call'[c].run = call[c].run
      BY <2>1, FieldTypes, PublishesEffect
    <3>2. Current' = Current
      BY <1>0, <3>1, PublishEffect
    <3> QED
      BY <1>0, <1>1, <3>1, <3>2 DEF OwnTasks, OwnCalls
  <2>2. CASE SigningEnds(t)
    BY <1>1, <1>6, <2>2, SigningEffect DEF Touches, Live
  <2>3. CASE \/ RunBegins(t) \/ TurnEnds(t) \/ DenialAnswered(t) \/ ProviderFails(t)
             \/ ToolReturns(t) \/ ReviewContinues(t) \/ PublishingFails(t) \/ Unwind(t)
    BY <1>1, <1>6, <2>3, WorkEffect DEF Ends, Touches
  <2> QED
    BY <1>10, <2>1, <2>2, <2>3 DEF TaskStep
<1>11. ASSUME NEW c \in Client, Enters(c)
       PROVE  OwnInv'
  <2>1. PICK at \in Holding, r \in Runs :
          /\ Request(c, at, r, NoTask) /\ UNCHANGED task
          /\ at = "continue" => r = Current
          /\ Touches(r)
    BY <1>11 DEF Enters
  <2> QED
    BY <1>1, <1>2, <1>7, <2>1 DEF Touches
<1>12. ASSUME NEW c \in Client, NEW r \in Runs, Leaves(c, r)
       PROVE  OwnInv'
  <2>1. /\ lock = c /\ Return(c)
        /\ \/ Spawn("run", r) /\ r = Current'
           \/ Spawn("run", r) /\ call[c].at = "continue" /\ r = call[c].run /\ Current' = Current
           \/ UNCHANGED <<task, cur>>
    BY <1>12 DEF Leaves, NoOlderRun
  <2>2. (Spawn("run", r) /\ r = Current') \/ UNCHANGED <<task, cur>>
    BY <1>0, <2>1
  <2>3. OwnTasks
    <3>1. \A t \in Task : task[t].at = "idle"
      BY <1>9, <2>1
    <3>2. CASE UNCHANGED task
      BY <3>1, <3>2 DEF OwnTasks
    <3> QED
      BY <1>4, <2>1, <2>2, <3>1, <3>2
  <2>4. OwnCalls
    BY <1>8, <2>1 DEF Return
  <2> QED
    BY <1>1, <2>3, <2>4
<1>13. ASSUME NEW c \in Client, Ask(c)
       PROVE  OwnInv'
  <2>1. CASE approve_extension(c)
    BY <1>1, <1>2, <1>7, <2>1, ApproveEffect DEF Touches
  <2>2. CASE deny_extension(c)
    <3>1. /\ ~is_active /\ Spawn("denial", Current) /\ Current \in Runs
          /\ Current' = Current /\ UNCHANGED call
      BY <2>2, DenyEffect DEF NoOverlap, Touches
    <3>2. \A t \in Task : task[t].at = "idle"
      BY <3>1, SlotFacts, NoneAssumption DEF is_active
    <3> QED
      BY <1>1, <1>3, <1>4, <3>1, <3>2
  <2>3. CASE stop(c)
    <3>1. Current' = Current /\ Current \in Runs
      BY <2>3, StopEffect DEF Touches
    <3>2. OwnTasks
      BY <1>2, <1>5, <2>3, <3>1, StopEffect
    <3>3. OwnCalls
      BY <1>3, <1>7, <2>3, <3>1, StopEffect DEF TypeOK
    <3> QED
      BY <1>1, <3>2, <3>3
  <2> QED
    BY <1>11, <1>13, <2>1, <2>2, <2>3, EnterEffect DEF Ask
<1>14. ASSUME NEW c \in Client, Answer(c)
       PROVE  OwnInv'
  <2>0. call[c].run \in Runs
    BY FieldTypes
  <2>1. CASE ReverifyAccepts(c) /\ ~Return(c)
    <3>1. /\ Request(c, "sign", call[c].run, NoTask) /\ UNCHANGED task /\ lock = c
          /\ call[c].at = "reverify"
      BY <2>1, AcceptEffect
    <3>2. /\ call'[c].at = "sign" /\ \A d \in Client : d # c => call'[d] = call[d]
      BY <2>0, <3>1, RequestEffect DEF Holding
    <3>3. \A d \in Client : d # c => call[d].at # "continue"
      BY <3>1, SlotFacts DEF Holding
    <3>4. \A t \in Task : task'[t].at = "idle"
      BY <1>9, <3>1
    <3> QED
      BY <1>1, <3>2, <3>3, <3>4 DEF OwnTasks, OwnCalls
  <2>2. CASE ApprovalRefused(c)
    BY <1>1, <1>2, <1>8, <2>2 DEF ApprovalRefused, Current
  <2>3. CASE StopTimesOut(c)
    <3>1. Current' = Current
      BY <2>0, <2>3, MarkEffect DEF StopTimesOut, RunStatus, Touches
    <3> QED
      BY <1>1, <1>2, <1>8, <2>3, <3>1 DEF StopTimesOut
  <2>4. CASE CallPublishes(c)
    <3>1. /\ lock = c /\ call'[c].at = "sign"
          /\ \A u \in Task : task'[u].at = task[u].at
          /\ \A d \in Client : d # c => call'[d].at = call[d].at
      BY <2>4, CallPublishesEffect
    <3>2. \A d \in Client : d # c => call[d].at # "continue"
      BY <3>1, SlotFacts DEF Holding
    <3>3. \A t \in Task : task'[t].at = "idle"
      BY <1>9, <3>1
    <3> QED
      BY <1>1, <3>1, <3>2, <3>3 DEF OwnTasks, OwnCalls
  <2> QED
    BY <1>12, <1>14, <2>1, <2>2, <2>3, <2>4, LeaveEffect DEF Answer
<1>15. CASE Restart
  BY <1>1, <1>15, RestartEffect DEF OwnTasks, OwnCalls
<1>16. CASE Shutdown
  BY <1>1, <1>3, <1>5, <1>16, ShutdownEffect DEF Current
<1>17. CASE pause_chat \/ resume_chat
  BY <1>1, <1>2, <1>3, <1>17, PauseEffect
<1>18. CASE UNCHANGED vars
  BY <1>1, <1>2, <1>3, <1>18 DEF vars, Current
<1> QED
  BY <1>10, <1>13, <1>14, <1>15, <1>16, <1>17, <1>18 DEF Next

-----------------------------------------------------------------------------
(***************************************************************************)
(* A run that says it is busy is worked on.                                *)
(***************************************************************************)
\* Somebody is at work on run r: as the conclusion of BusyIsWorked.
Worked(r) ==
  \/ \E t \in Task : task[t].at # "idle" /\ task[t].run = r
  \/ \E c \in Client : lock = c /\ call[c].run = r /\ call[c].at = "recover"

\* WorkInv with its names expanded.
LEMMA WorkFacts ==
  WorkInv <=>
    /\ up => \A r \in Runs : run[r].status \in Busy => Worked(r)
    /\ \A t \in Task : up /\ task[t].at # "idle" /\ task[t].cancel
                       => run[task[t].run].status \notin Busy
    /\ \A t \in Task : task[t].at = "sign" => run[task[t].run].status \notin Busy
BY DEF WorkInv, BusyIsWorked, Worked, Live

\* A worker that leaves takes the busy status of its run with it.
LEMMA WorkStep ==
  ASSUME TypeOK, SlotInv, OwnInv, WorkInv, [Next]_vars, NoOverlap, NoOlderRun, NoUnpublished
  PROVE  WorkInv'
<1> USE IdleType
<1>0. /\ up => \A r \in Runs : run[r].status \in Busy => Worked(r)
      /\ \A t \in Task : up /\ task[t].at # "idle" /\ task[t].cancel
                         => run[task[t].run].status \notin Busy
      /\ \A t \in Task : task[t].at = "sign" => run[task[t].run].status \notin Busy
  BY WorkFacts
<1> DEFINE W1 == up' => \A r \in Runs : run'[r].status \in Busy => Worked(r)'
           W2 == \A t \in Task : up' /\ task'[t].at # "idle" /\ task'[t].cancel
                                => run'[task'[t].run].status \notin Busy
           W3 == \A t \in Task : task'[t].at = "sign" => run'[task'[t].run].status \notin Busy
           AllIdle == \A t \in Task : task[t].at = "idle"
           AllIdleNext == \A t \in Task : task'[t].at = "idle"
<1>1. W1 /\ W2 /\ W3 => WorkInv'
  BY DEF WorkInv, BusyIsWorked, Worked, Live
<1>2. AllIdleNext => W2 /\ W3
  OBVIOUS
<1>3. ASSUME NEW c \in Client, lock = c
      PROVE  /\ AllIdle
             /\ \A r \in Runs : Worked(r) => call[c].run = r /\ call[c].at = "recover"
  BY <1>3, SlotFacts, NoneAssumption DEF TypeOK, Worked
<1>4. ASSUME lock = NoClient, ~is_active
      PROVE  AllIdle /\ \A r \in Runs : ~Worked(r)
  BY <1>4, SlotFacts, NoneAssumption DEF TypeOK, Worked, is_active
<1>5. ASSUME NEW t \in Task, Live(t)
      PROVE  /\ \A u \in Task : u # t => task[u].at = "idle"
             /\ \A r \in Runs : Worked(r) => task[t].run = r
             /\ lock = NoClient /\ task[t].run = Current
  BY <1>5, SlotFacts, NoneAssumption DEF TypeOK, Worked, Live, OwnInv, StopReachesWork
<1>6. ASSUME AllIdle, NEW kind \in {"run", "denial"}, NEW r \in Runs, Spawn(kind, r)
      PROVE  /\ Worked(r)' /\ W2 /\ W3
  <2>1. /\ cur' \in Task /\ task'[cur'].at = "new" /\ task'[cur'].run = r
        /\ ~task'[cur'].cancel /\ \A t \in Task : t # cur' => task'[t] = task[t]
    BY <1>6, SpawnEffect
  <2>2. Worked(r)'
    BY <2>1 DEF Worked
  <2>3. \A t \in Task : t # cur' => task'[t].at = "idle"
    BY <1>6, <2>1
  <2> QED
    BY <2>1, <2>2, <2>3
\* Nobody stops working, and no run becomes busy.
<1>7. ASSUME UNCHANGED <<lock, up>>,
             \A r \in Runs : run'[r].status \in Busy => run[r].status \in Busy,
             \A t \in Task : task'[t].at = task[t].at /\ task'[t].run = task[t].run,
             NEW c \in Client, call[c].at # "recover",
             \A d \in Client : d # c => call'[d] = call[d]
      PROVE  W1 /\ W3
  <2>1. \A r \in Runs : Worked(r) => Worked(r)'
    BY <1>7 DEF Worked
  <2>2. \A t \in Task : task[t].run \in Runs
    BY FieldTypes
  <2> QED
    BY <1>0, <1>7, <2>1, <2>2
<1>8. ASSUME UNCHANGED task, up' = up,
             \A r \in Runs : run'[r].status \in Busy => run[r].status \in Busy
      PROVE  W2
  <2>1. \A t \in Task : task[t].run \in Runs
    BY FieldTypes
  <2> QED
    BY <1>0, <1>8, <2>1
<1>9. ASSUME NEW r \in Runs, Touches(r), run'[r].status \notin Busy
      PROVE  \A q \in Runs : run'[q].status \in Busy => run[q].status \in Busy /\ q # r
  BY <1>9 DEF Touches
<1> HIDE DEF W1, W2, W3, AllIdle, AllIdleNext
<1>10. ASSUME NEW t \in Task, TaskStep(t)
       PROVE  WorkInv'
  <2> DEFINE r == task[t].run
  <2>0. r \in Runs
    BY FieldTypes
  <2>1. ASSUME Live(t), Touches(r), UNCHANGED up, Finish(t),
               run'[r].status \notin Busy \/ ~up
        PROVE  WorkInv'
    <3>1. AllIdleNext
      BY <1>5, <2>1, FinishEffect DEF AllIdleNext
    <3>2. ASSUME up', NEW q \in Runs, run'[q].status \in Busy
          PROVE  Worked(q)'
      <4>1. q # r /\ run[q].status \in Busy /\ up
        BY <2>0, <2>1, <3>2 DEF Touches
      <4>2. Worked(q)
        BY <1>0, <4>1
      <4> QED
        BY <1>5, <2>1, <4>1, <4>2
    <3> QED
      BY <1>1, <1>2, <3>1, <3>2 DEF W1
  <2>2. CASE ReviewPublishes(t)
    <3>1. /\ Publish(r) /\ task'[t].run = r /\ Live(t) /\ UNCHANGED up
          /\ \A u \in Task : task'[u].at = "idle" <=> task[u].at = "idle"
      BY <2>2, PublishesEffect DEF Live
    <3>2. /\ run'[r].status \notin Busy
          /\ \A q \in Runs : q # r => run'[q] = run[q]
      BY <2>0, <3>1, PublishEffect DEF Busy
    <3>3. W1
      <4> SUFFICES ASSUME up', NEW q \in Runs, run'[q].status \in Busy
                   PROVE  FALSE
        BY DEF W1
      <4>1. q # r /\ run[q].status \in Busy /\ up
        BY <3>1, <3>2
      <4>2. Worked(q)
        BY <1>0, <4>1
      <4> QED
        BY <1>5, <3>1, <4>1, <4>2
    <3>4. \A u \in Task : task'[u].at # "idle" => u = t
      BY <1>5, <3>1
    <3>5. W2 /\ W3
      BY <3>1, <3>2, <3>4 DEF W2, W3
    <3> QED
      BY <1>1, <3>3, <3>5
  <2>3. CASE SigningEnds(t)
    BY <1>0, <2>1, <2>3, SigningEffect DEF Live
  <2>4. CASE \/ RunBegins(t) \/ TurnEnds(t) \/ DenialAnswered(t) \/ ProviderFails(t)
             \/ ToolReturns(t) \/ ReviewContinues(t) \/ PublishingFails(t) \/ Unwind(t)
    <3>1. /\ Touches(r) /\ UNCHANGED <<lock, up>> /\ Live(t)
          /\ Ends(t) \/ (Moves(t) /\ ~task[t].cancel)
      BY <2>4, WorkEffect
    <3>2. CASE Ends(t)
      <4>1. Finish(t) /\ (run'[r].status \notin Busy \/ (task[t].cancel /\ run' = run))
        BY <3>2 DEF Ends
      <4>2. run'[r].status \notin Busy \/ ~up
        BY <1>0, <3>1, <4>1 DEF Live
      <4> QED
        BY <2>1, <3>1, <4>1, <4>2
    <3>3. ASSUME NEW at \in {"provider", "tool", "review"}, Await(t, at), ~task[t].cancel
          PROVE  WorkInv'
      <4>1. /\ task'[t].at = at /\ task'[t].run = r /\ ~task'[t].cancel
            /\ \A u \in Task : u # t => task'[u] = task[u]
        BY <3>3, AwaitEffect
      <4>2. \A u \in Task : u # t => task'[u].at = "idle"
        BY <1>5, <3>1, <4>1
      <4>3. W2 /\ W3
        BY <4>1, <4>2 DEF W2, W3
      <4>4. W1
        <5> SUFFICES ASSUME up', NEW q \in Runs, run'[q].status \in Busy
                     PROVE  Worked(q)'
          BY DEF W1
        <5>1. CASE q = r
          BY <4>1, <5>1 DEF Worked
        <5>2. CASE q # r
          <6>1. Worked(q)
            BY <1>0, <3>1, <5>2 DEF Touches
          <6> QED
            BY <1>5, <3>1, <5>2, <6>1
        <5> QED
          BY <5>1, <5>2
      <4> QED
        BY <1>1, <4>3, <4>4
    <3> QED
      BY <3>1, <3>2, <3>3 DEF Moves
  <2> QED
    BY <1>10, <2>2, <2>3, <2>4 DEF TaskStep
<1>11. ASSUME NEW c \in Client, Enters(c)
       PROVE  WorkInv'
  <2>1. PICK at \in Holding, r \in Runs :
          /\ lock = NoClient /\ ~is_active /\ lock' = c
          /\ Request(c, at, r, NoTask) /\ UNCHANGED <<task, up>>
          /\ Touches(r)
          /\ run'[r].status = run[r].status \/ at = "recover"
    BY <1>11 DEF Enters
  <2>2. AllIdle /\ \A q \in Runs : ~Worked(q)
    BY <1>4, <2>1
  <2>3. call'[c].at = at /\ call'[c].run = r
    BY <2>1, RequestEffect
  <2>4. W1
    <3> SUFFICES ASSUME up', NEW q \in Runs, run'[q].status \in Busy
                 PROVE  Worked(q)'
      BY DEF W1
    <3>1. run[q].status \notin Busy
      BY <1>0, <2>1, <2>2
    <3>2. q = r /\ at = "recover"
      BY <2>1, <3>1 DEF Touches
    <3> QED
      BY <2>1, <2>3, <3>2 DEF Worked
  <2> QED
    BY <1>1, <1>2, <2>1, <2>2, <2>4 DEF AllIdle, AllIdleNext
<1>12. ASSUME NEW c \in Client, NEW r \in Runs, Leaves(c, r)
       PROVE  WorkInv'
  <2>1. /\ lock = c /\ up' = up
        /\ \A q \in Runs : q # r => run'[q] = run[q]
        /\ \/ Spawn("run", r) /\ call[c].at # "recover"
           \/ /\ UNCHANGED <<task, cur>>
              /\ \/ run'[r].status = run[r].status /\ call[c].at # "recover"
                 \/ run'[r].status \notin Busy /\ r = call[c].run
    BY <1>12 DEF Leaves, NoUnpublished
  <2>2. AllIdle /\ \A q \in Runs : Worked(q) => call[c].run = q /\ call[c].at = "recover"
    BY <1>3, <2>1
  <2>3. CASE Spawn("run", r) /\ call[c].at # "recover"
    <3>1. Worked(r)' /\ W2 /\ W3
      BY <1>6, <2>2, <2>3
    <3>2. W1
      BY <1>0, <2>1, <2>2, <2>3, <3>1 DEF W1
    <3> QED
      BY <1>1, <3>1, <3>2
  <2>4. CASE UNCHANGED task /\ run'[r].status = run[r].status /\ call[c].at # "recover"
    <3>1. W1
      BY <1>0, <2>1, <2>2, <2>4 DEF W1
    <3> QED
      BY <1>1, <1>2, <2>2, <2>4, <3>1 DEF AllIdle, AllIdleNext
  <2>5. CASE UNCHANGED task /\ run'[r].status \notin Busy /\ r = call[c].run
    <3>1. W1
      BY <1>0, <2>1, <2>2, <2>5 DEF W1
    <3> QED
      BY <1>1, <1>2, <2>2, <2>5, <3>1 DEF AllIdle, AllIdleNext
  <2> QED
    BY <2>1, <2>3, <2>4, <2>5
<1>13. ASSUME NEW c \in Client, Ask(c)
       PROVE  WorkInv'
  <2>1. CASE approve_extension(c)
    <3>1. /\ Current \in Runs /\ Touches(Current) /\ run'[Current].status = run[Current].status
          /\ call[c].at = "idle" /\ Request(c, "approved", Current, NoTask)
          /\ UNCHANGED <<task, cur, lock, up>>
      BY <2>1, ApproveEffect
    <3>2. \A q \in Runs : run'[q].status \in Busy => run[q].status \in Busy
      BY <3>1 DEF Touches
    <3>3. \A d \in Client : d # c => call'[d] = call[d]
      BY <3>1, RequestLeavesOthers
    <3> QED
      BY <1>1, <1>7, <1>8, <3>1, <3>2, <3>3
  <2>2. CASE deny_extension(c)
    <3>0. PICK r \in Runs : r = Current
      BY <2>2, DenyEffect
    <3>1. /\ Touches(r) /\ Spawn("denial", r)
          /\ lock = NoClient /\ ~is_active /\ up' = up
      BY <2>2, <3>0, DenyEffect DEF NoOverlap
    <3>2. AllIdle /\ \A q \in Runs : ~Worked(q)
      BY <1>4, <3>1
    <3>3. Worked(r)' /\ W2 /\ W3
      BY <1>6, <3>1, <3>2
    <3>4. W1
      BY <1>0, <3>1, <3>2, <3>3 DEF W1, Touches
    <3> QED
      BY <1>1, <3>3, <3>4
  <2>3. CASE stop(c)
    <3>1. /\ Current \in Runs /\ Touches(Current) /\ run'[Current].status \notin Busy
          /\ call[c].at = "idle" /\ UNCHANGED <<lock, up>>
          /\ \/ is_active /\ CancelsOnly({cur}) /\ Request(c, "stop", Current, cur)
             \/ ~is_active /\ UNCHANGED <<task, cur, call>>
      BY <2>3, StopEffect
    <3>2. \A q \in Runs : run'[q].status \in Busy => run[q].status \in Busy
      BY <1>9, <3>1
    <3>3. \A d \in Client : d # c => call'[d] = call[d]
      BY <3>1, RequestEffect DEF TypeOK
    <3>4. \A t \in Task : task'[t].at = task[t].at /\ task'[t].run = task[t].run
      BY <3>1 DEF CancelsOnly
    <3>5. W1 /\ W3
      BY <1>7, <3>1, <3>2, <3>3, <3>4
    <3>6. W2
      <4> SUFFICES ASSUME NEW t \in Task, task'[t].at # "idle"
                   PROVE  run'[task'[t].run].status \notin Busy
        BY DEF W2
      <4>1. task[t].run = Current
        BY <1>5, <3>4 DEF Live
      <4> QED
        BY <3>1, <3>4, <4>1
    <3> QED
      BY <1>1, <3>5, <3>6
  <2> QED
    BY <1>11, <1>13, <2>1, <2>2, <2>3, EnterEffect DEF Ask
<1>14. ASSUME NEW c \in Client, Answer(c)
       PROVE  WorkInv'
  <2>0. call[c].run \in Runs
    BY FieldTypes
  <2>1. CASE ReverifyAccepts(c) /\ ~Return(c)
    <3>1. call[c].at = "reverify" /\ lock = c /\ UNCHANGED <<run, task, up>>
      BY <2>1, AcceptEffect
    <3>2. AllIdle /\ \A q \in Runs : ~Worked(q)
      BY <1>3, <3>1
    <3>3. W1
      BY <1>0, <3>1, <3>2 DEF W1
    <3> QED
      BY <1>1, <1>2, <3>1, <3>2, <3>3 DEF AllIdle, AllIdleNext
  <2>2. CASE ApprovalRefused(c) \/ StopTimesOut(c)
    <3>1. /\ call' = [call EXCEPT ![c] = IdleCall] /\ call[c].at \in {"approved", "stop"}
          /\ UNCHANGED <<task, cur, lock, up>>
      BY <2>2 DEF ApprovalRefused, StopTimesOut
    <3>2. UNCHANGED run \/ (Touches(call[c].run) /\ run'[call[c].run].status \notin Busy)
      BY <2>0, <2>2, MarkEffect DEF ApprovalRefused, StopTimesOut, RunStatus, Busy
    <3>3. \A q \in Runs : run'[q].status \in Busy => run[q].status \in Busy
      BY <1>9, <2>0, <3>2
    <3>4. \A d \in Client : d # c => call'[d] = call[d]
      BY <3>1 DEF TypeOK
    <3> QED
      BY <1>1, <1>7, <1>8, <3>1, <3>3, <3>4
  <2>3. CASE CallPublishes(c)
    <3>1. /\ lock = c /\ up' = up /\ Publish(call[c].run)
          /\ \A u \in Task : task'[u].at = task[u].at
      BY <2>3, CallPublishesEffect
    <3>2. AllIdle /\ \A q \in Runs : Worked(q) => call[c].run = q
      BY <1>3, <3>1
    <3>3. /\ run'[call[c].run].status \notin Busy
          /\ \A q \in Runs : q # call[c].run => run'[q] = run[q]
      BY <2>0, <3>1, PublishEffect DEF Busy
    <3>4. W1
      BY <1>0, <3>1, <3>2, <3>3 DEF W1
    <3> QED
      BY <1>1, <1>2, <3>1, <3>2, <3>4 DEF AllIdle, AllIdleNext
  <2> QED
    BY <1>12, <1>14, <2>1, <2>2, <2>3, LeaveEffect DEF Answer
<1>15. CASE Restart
  BY <1>1, <1>2, <1>15, RestartEffect DEF AllIdleNext, W1
<1>16. CASE Shutdown
  BY <1>0, <1>1, <1>16, ShutdownEffect DEF CancelsOnly, W1, W2, W3
<1>17. CASE pause_chat \/ resume_chat \/ UNCHANGED vars
  <2>1. UNCHANGED <<run, task, lock, call, up>>
    BY <1>17, PauseEffect DEF vars
  <2> QED
    BY <1>0, <1>1, <2>1 DEF W1, W2, W3, Worked
<1> QED
  BY <1>10, <1>13, <1>14, <1>15, <1>16, <1>17 DEF Next

-----------------------------------------------------------------------------
(***************************************************************************)
(* The theorems.                                                           *)
(***************************************************************************)
LEMMA SlotInit == Init => SlotInv
BY TypeInit, NoneAssumption, IdleType
   DEF Init, SlotInv, Live, is_active, IdleTask, IdleCall, Holding

\* In the beginning there is no run and nobody at work.
LEMMA LayersInit == Init => FreshInv /\ OwnInv /\ WorkInv
BY IdleType
   DEF Init, FreshInv, SignatureCoversReport, OwnInv, StopReachesWork, WorkInv,
       BusyIsWorked, Live, Busy, NoRun

\* One worker at a time, unless a denial overlaps other work: a live task is the
\* entry of _tasks, there is no second one, and no request has the lock
\* (_spawn, is_active and the lock of ReverseAnalysisManager).
THEOREM ReverseRunOneWorker ==
  ASSUME NoOverlap
  PROVE  Spec => []OneWorker
<1>1. Init => TypeOK /\ SlotInv
  BY TypeInit, SlotInit
<1>2. TypeOK /\ SlotInv /\ [Next]_vars => (TypeOK /\ SlotInv)'
  BY TypeStep, SlotStep
<1>3. TypeOK /\ SlotInv => OneWorker
  BY SlotFacts, NoneAssumption DEF OneWorker, Live, TypeOK
<1> QED
  BY <1>1, <1>2, <1>3, PTL DEF Spec

\* A run that is shown as signed has a signature over its present report, however
\* publication, signing and its retries interleave (report_signature_status).
THEOREM ReverseRunSignatureCovers ==
  ASSUME NoOverlap
  PROVE  Spec => []SignatureCoversReport
<1> DEFINE I == TypeOK /\ SlotInv /\ FreshInv
<1>1. Init => I
  BY TypeInit, SlotInit, LayersInit
<1>2. I /\ [Next]_vars => I'
  BY TypeStep, SlotStep, FreshStep
<1>3. I => SignatureCoversReport
  BY DEF FreshInv
<1> QED
  BY <1>1, <1>2, <1>3, PTL DEF Spec

\* What is at work is at work on the run of the project, where stop looks for it.
THEOREM ReverseRunStopReaches ==
  ASSUME NoOverlap, NoOlderRun
  PROVE  Spec => []StopReachesWork
<1> DEFINE I == TypeOK /\ SlotInv /\ OwnInv
<1>1. Init => I
  BY TypeInit, SlotInit, LayersInit
<1>2. I /\ [Next]_vars => I'
  BY TypeStep, SlotStep, OwnStep
<1>3. I => StopReachesWork
  BY DEF OwnInv
<1> QED
  BY <1>1, <1>2, <1>3, PTL DEF Spec

\* While the backend is up no run says queued, running or verifying with nobody
\* at work on it (_mark_*, stop, recover_interrupted_runs).
THEOREM ReverseRunBusyIsWorked ==
  ASSUME NoOverlap, NoOlderRun, NoUnpublished
  PROVE  Spec => []BusyIsWorked
<1> DEFINE I == TypeOK /\ SlotInv /\ OwnInv /\ WorkInv
<1>1. Init => I
  BY TypeInit, SlotInit, LayersInit
<1>2. I /\ [Next]_vars => I'
  BY TypeStep, SlotStep, OwnStep, WorkStep
<1>3. I => BusyIsWorked
  BY DEF WorkInv
<1> QED
  BY <1>1, <1>2, <1>3, PTL DEF Spec

=============================================================================

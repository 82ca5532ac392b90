-------------------------- MODULE EvidencePipeline ---------------------------
(***************************************************************************)
(* The evidence of one case: the files in its uploads directory, the rows  *)
(* ingested from them, the findings derived from the rows, and the long    *)
(* operations that change them, each of which runs inside the case's slot  *)
(* of CaseCoordinator:                                                     *)
(*   api/cases_router.py   upload (new file or same-name replacement),     *)
(*                         evidence deletion, re-ingestion, detection      *)
(*                         rebuild, case deletion                          *)
(*   api/analysis_router.py  AI analysis                                   *)
(*   ingest/evidence.py    purge_file_data, replace_file_data              *)
(*   ingest/pipeline.py    IngestionManager.run_ingestion                  *)
(*   main.py, store/cases.py  the recovery of a restarted backend          *)
(*                                                                         *)
(* A request r is served by the task Route(r); the ingestion it schedules, *)
(* if any, is the task Job(r).  The bytes an upload brings are named after *)
(* the request that brought them, so disk[f] = r reads "f holds what r     *)
(* uploaded" and rows[f][r] counts how often those bytes were ingested.    *)
(***************************************************************************)
EXTENDS CaseCoordinator, FiniteSets

CONSTANTS
  Request,      \* the requests of the analyst: one upload, one deletion, ...
  File,         \* upload names
  MemoryFile,   \* those that are memory images
  NoGen,        \* no bytes: the file does not exist
  Kinds,        \* the kinds of request that may arrive
  Faults,       \* the steps that may fail
  MaxCrashes    \* bound on the number of backend crashes

Role == {"route", "job"}
Route(r) == <<r, "route">>
Job(r) == <<r, "job">>

FileKinds == {"upload", "delete", "reingest"}
AllKinds == FileKinds \cup {"analysis", "detect", "deleteCase"}
AllFaults == {"reject", "swap", "parse", "detect", "purge", "analysis"}

ASSUME TaskAssumption == Task = Request \X Role
ASSUME FileAssumption == MemoryFile \subseteq File /\ File # {}
ASSUME NoGenAssumption == NoGen \notin Request
ASSUME KindsAssumption == Kinds \subseteq AllKinds /\ Faults \subseteq AllFaults
ASSUME CrashAssumption == MaxCrashes \in Nat

VARIABLES
  kind, file,     \* what each request asks for
  step,           \* where each task stands outside or inside its slot
  disk,           \* the bytes under each name in the uploads directory
  backup,         \* the private .previous file of a replacement under way
  rows,           \* committed events, processes and memory results
  findings,       \* the <<file, bytes>> the findings table derives from
  pending,        \* IngestionManager._detections_pending
  fullPending,    \* IngestionManager._full_rebuild_pending
  status,         \* the status of the case in the registry
  exists,         \* the case is in the registry
  dir,            \* its directory is on disk
  crashes

reqVars == <<kind, file>>
fileVars == <<disk, backup>>
dbVars == <<rows, findings>>
owedVars == <<pending, fullPending>>
caseVars == <<status, exists, dir>>
bodyVars == <<reqVars, fileVars, dbVars, owedVars, caseVars, crashes>>
vars == <<coordVars, step, bodyVars>>

Steps == {"unborn", "asking", "parsing", "stored", "detecting", "failed",
          "staged", "movedAway", "movedIn", "swapFailed", "cancelling",
          "purged", "analyzing", "done"}

BodyTypeOK ==
  /\ kind \in [Request -> Kinds \cup {"none"}]
  /\ file \in [Request -> File]
  /\ step \in [Task -> Steps]
  /\ disk \in [File -> Request \cup {NoGen}]
  /\ backup \in [File -> Request \cup {NoGen}]
  /\ rows \in [File -> [Request -> Nat]]
  /\ findings \subseteq File \X Request
  /\ pending \in BOOLEAN /\ fullPending \in BOOLEAN
  /\ status \in {"created", "ingesting", "analyzing", "ready", "error"}
  /\ exists \in BOOLEAN /\ dir \in BOOLEAN
  /\ crashes \in 0 .. MaxCrashes

TypeOK == CoordTypeOK /\ BodyTypeOK

NoRows == [r \in Request |-> 0]
AnyFile == CHOOSE f \in File : TRUE

Init ==
  /\ CoordInit
  /\ kind = [r \in Request |-> "none"]
  /\ file = [r \in Request |-> AnyFile]
  /\ step = [t \in Task |-> "unborn"]
  /\ disk = [f \in File |-> NoGen]
  /\ backup = [f \in File |-> NoGen]
  /\ rows = [f \in File |-> NoRows]
  /\ findings = {}
  /\ pending = FALSE /\ fullPending = FALSE
  /\ status = "created"
  /\ exists = TRUE /\ dir = TRUE
  /\ crashes = 0

-----------------------------------------------------------------------------
Live(t) == step[t] \notin {"unborn", "done"}

\* t runs inside its slot and its body stands at s.
At(t, s) == pc[t] = "holding" /\ step[t] = s

Goto(t, s) == step' = [step EXCEPT ![t] = s]

\* The body of t goes on, still inside its slot.
Continue(t, s) == Goto(t, s) /\ UNCHANGED coordVars

\* The body of t ends and the slot is released, by return or by exception.
Finish(t) == Goto(t, "done") /\ Leave(t)

\* The same, and the route schedules its ingestion before it suspends again.
FinishAndSchedule(r) ==
  /\ step' = [step EXCEPT ![Route(r)] = "done", ![Job(r)] = "asking"]
  /\ Leave(Route(r))

\* What the rows in the database were ingested from.
Ingested == {p \in File \X Request : rows[p[1]][p[2]] > 0}

\* run_detections_sync: a rebuild replaces the findings in one transaction, a
\* plain run adds what is missing to those that are there.
Detect(rebuild) ==
  findings' = IF rebuild THEN Ingested ELSE findings \cup Ingested

-----------------------------------------------------------------------------
\* A request passes the checks its route makes before it asks for the slot.
Ask(r) ==
  /\ kind[r] = "none"
  /\ exists
  /\ \E k \in Kinds, f \in File :
       /\ k \notin FileKinds => f = AnyFile
       /\ k = "analysis" =>          \* _analysis_running
            \A q \in Request : kind[q] = "analysis" => ~Live(Route(q))
       /\ kind' = [kind EXCEPT ![r] = k]
       /\ file' = [file EXCEPT ![r] = f]
  /\ Goto(Route(r), "asking")
  /\ UNCHANGED <<coordVars, fileVars, dbVars, owedVars, caseVars, crashes>>

\* coordinator.run(): the task takes the slot or queues for it.
AskSlot(t) ==
  /\ step[t] = "asking"
  /\ AcquireNow(t) \/ JoinQueue(t)
  /\ UNCHANGED <<step, bodyVars>>

WakeInSlot(t) == Resume(t) /\ UNCHANGED <<step, bodyVars>>

CancelledInQueue(t) ==
  /\ UnwindCancelled(t)
  /\ Goto(t, "done")
  /\ UNCHANGED bodyVars

\* A route finds, inside its slot, that the case was deleted while it waited.
RouteFindsNoCase(r) ==
  /\ At(Route(r), "asking")
  /\ kind[r] \in {"upload", "analysis", "detect", "deleteCase"}
  /\ ~exists
  /\ Finish(Route(r))
  /\ UNCHANGED bodyVars

-----------------------------------------------------------------------------
(* Upload: the multipart file is staged next to its destination, then      *)
(* renamed (a new name) or swapped with the earlier upload of that name.   *)

UploadRejected(r) ==
  /\ At(Route(r), "asking") /\ kind[r] = "upload" /\ exists
  /\ "reject" \in Faults
  /\ Finish(Route(r))
  /\ UNCHANGED bodyVars

StoreNewFile(r) ==
  /\ At(Route(r), "asking") /\ kind[r] = "upload"
  /\ disk[file[r]] = NoGen
  /\ disk' = [disk EXCEPT ![file[r]] = r]
  /\ FinishAndSchedule(r)
  /\ UNCHANGED <<reqVars, backup, dbVars, owedVars, caseVars, crashes>>

\* Mutant: the registry is not read again inside the slot.
UploadUnchecked(r) == StoreNewFile(r)

UploadNewFile(r) == exists /\ StoreNewFile(r)

\* The ingestion is scheduled before the swap; it queues behind this request.
ScheduleReplacement(r) ==
  /\ At(Route(r), "asking") /\ kind[r] = "upload" /\ exists
  /\ disk[file[r]] # NoGen
  /\ step' = [step EXCEPT ![Route(r)] = "staged", ![Job(r)] = "asking"]
  /\ UNCHANGED <<coordVars, bodyVars>>

\* replace_file_data: the rows of the old bytes are deleted in a transaction
\* that stays open, and the old file is renamed to its backup.  The worker was
\* created after the ingestion, which has therefore queued by now.
SwapMoveAway(r) ==
  LET f == file[r]
  IN  /\ At(Route(r), "staged") /\ pc[Job(r)] = "waiting"
      /\ backup' = [backup EXCEPT ![f] = disk[f]]
      /\ disk' = [disk EXCEPT ![f] = NoGen]
      /\ Continue(Route(r), "movedAway")
      /\ UNCHANGED <<reqVars, dbVars, owedVars, caseVars, crashes>>

SwapMoveIn(r) ==
  /\ At(Route(r), "movedAway")
  /\ disk' = [disk EXCEPT ![file[r]] = r]
  /\ Continue(Route(r), "movedIn")
  /\ UNCHANGED <<reqVars, backup, dbVars, owedVars, caseVars, crashes>>

CommitSwap(r, newPending, newFull) ==
  /\ At(Route(r), "movedIn")
  /\ rows' = [rows EXCEPT ![file[r]] = NoRows]
  /\ backup' = [backup EXCEPT ![file[r]] = NoGen]
  /\ pending' = newPending /\ fullPending' = newFull
  /\ Finish(Route(r))
  /\ UNCHANGED <<reqVars, disk, findings, caseVars, crashes>>

\* Mutant: the replacement asks for a detection, not for a full rebuild.
CommitOwingPlainDetection(r) == CommitSwap(r, TRUE, fullPending)

\* The transaction commits, the backup is unlinked, and the event loop records
\* that the findings must be rebuilt.
SwapCommit(r) == CommitSwap(r, TRUE, TRUE)

AbandonSwap(r, newDisk) ==
  /\ "swap" \in Faults
  /\ \E s \in {"staged", "movedAway", "movedIn"} : At(Route(r), s)
  /\ disk' = newDisk
  /\ backup' = [backup EXCEPT ![file[r]] = NoGen]
  /\ Continue(Route(r), "swapFailed")
  /\ UNCHANGED <<reqVars, dbVars, owedVars, caseVars, crashes>>

\* Mutant: a failed commit is rolled back, and the new file stays in place.
FailKeepingNewFile(r) == AbandonSwap(r, disk)

\* Mutant: the file of a failed replacement is dropped, whatever it holds.
FailRestoringNothing(r) == AbandonSwap(r, [disk EXCEPT ![file[r]] = NoGen])

\* A delete, a rename or the commit fails: the transaction is rolled back and
\* the backup, if there is one, takes the name again.
SwapFail(r) ==
  LET f == file[r]
  IN  AbandonSwap(r, IF backup[f] = NoGen THEN disk
                     ELSE [disk EXCEPT ![f] = backup[f]])

\* Mutant: the failing replacement waits for its ingestion without cancelling it.
AwaitJobUncancelled(r) ==
  /\ At(Route(r), "swapFailed")
  /\ Continue(Route(r), "cancelling")
  /\ UNCHANGED bodyVars

\* _finish_replacement cancels the ingestion it had scheduled ...
CancelJob(r) ==
  /\ At(Route(r), "swapFailed")
  /\ \/ /\ pc[Job(r)] = "idle"     \* the worker could not even be created
        /\ step' = [step EXCEPT ![Route(r)] = "cancelling", ![Job(r)] = "done"]
        /\ UNCHANGED coordVars
     \/ /\ RequestCancel(Job(r))
        /\ Goto(Route(r), "cancelling")
  /\ UNCHANGED bodyVars

\* ... and answers 500 once that task has unwound.
ReplacementFails(r) ==
  /\ At(Route(r), "cancelling")
  /\ step[Job(r)] = "done"
  /\ Finish(Route(r))
  /\ UNCHANGED bodyVars

Upload(r) ==
  \/ UploadRejected(r) \/ UploadNewFile(r) \/ ScheduleReplacement(r)
  \/ SwapMoveAway(r) \/ SwapMoveIn(r) \/ SwapCommit(r) \/ SwapFail(r)
  \/ CancelJob(r) \/ ReplacementFails(r)

-----------------------------------------------------------------------------
(* Evidence deletion and re-ingestion: both purge what was derived from    *)
(* the file.  Resolving the name creates the uploads directory (mkdir with *)
(* parents), and neither route looks at the registry again in its slot.    *)

Purging(r) == At(Route(r), "asking") /\ kind[r] \in {"delete", "reingest"}

NothingToPurge(r) ==
  /\ Purging(r)
  /\ disk[file[r]] = NoGen
  /\ dir' = TRUE
  /\ Finish(Route(r))
  /\ UNCHANGED <<reqVars, fileVars, dbVars, owedVars, status, exists, crashes>>

PurgeRefused(r) ==
  /\ Purging(r)
  /\ disk[file[r]] # NoGen
  /\ "purge" \in Faults
  /\ Finish(Route(r))
  /\ UNCHANGED bodyVars

\* One transaction deletes the rows of the file and every finding of the case.
PurgeCommit(r) ==
  /\ Purging(r)
  /\ disk[file[r]] # NoGen
  /\ rows' = [rows EXCEPT ![file[r]] = NoRows]
  /\ findings' = {}
  /\ Continue(Route(r), "purged")
  /\ UNCHANGED <<reqVars, fileVars, owedVars, caseVars, crashes>>

\* Detection runs over what remains; a deletion then unlinks the file.
PurgeDetect(r) ==
  /\ At(Route(r), "purged")
  /\ Detect(FALSE)
  /\ \/ /\ kind[r] = "delete"
        /\ disk' = [disk EXCEPT ![file[r]] = NoGen]
        /\ Finish(Route(r))
     \/ /\ kind[r] = "reingest"
        /\ FinishAndSchedule(r)
        /\ UNCHANGED disk
  /\ UNCHANGED <<reqVars, backup, rows, owedVars, caseVars, crashes>>

PurgeDetectFails(r) ==
  /\ At(Route(r), "purged")
  /\ "detect" \in Faults
  /\ Finish(Route(r))
  /\ UNCHANGED bodyVars

Purge(r) ==
  \/ NothingToPurge(r) \/ PurgeRefused(r) \/ PurgeCommit(r)
  \/ PurgeDetect(r) \/ PurgeDetectFails(r)

-----------------------------------------------------------------------------
(* AI analysis, detection rebuild and case deletion.                       *)

AnalysisStart(r) ==
  /\ At(Route(r), "asking") /\ kind[r] = "analysis" /\ exists
  /\ status' = "analyzing"
  /\ Continue(Route(r), "analyzing")
  /\ UNCHANGED <<reqVars, fileVars, dbVars, owedVars, exists, dir, crashes>>

AnalysisEnd(r) ==
  /\ At(Route(r), "analyzing")
  /\ status' \in {"ready"} \cup IF "analysis" \in Faults THEN {"error"} ELSE {}
  /\ Finish(Route(r))
  /\ UNCHANGED <<reqVars, fileVars, dbVars, owedVars, exists, dir, crashes>>

\* POST detections/run, with rebuild=true (the default) or rebuild=false.
RunDetections(r) ==
  /\ At(Route(r), "asking") /\ kind[r] = "detect" /\ exists
  /\ \/ \E rebuild \in BOOLEAN : Detect(rebuild)
     \/ "detect" \in Faults /\ UNCHANGED findings
  /\ Finish(Route(r))
  /\ UNCHANGED <<reqVars, fileVars, rows, owedVars, caseVars, crashes>>

DeleteCase(r) ==
  /\ At(Route(r), "asking") /\ kind[r] = "deleteCase" /\ exists
  /\ exists' = FALSE /\ dir' = FALSE
  /\ disk' = [f \in File |-> NoGen]
  /\ rows' = [f \in File |-> NoRows]
  /\ findings' = {}
  /\ Finish(Route(r))
  /\ UNCHANGED <<reqVars, backup, owedVars, status, crashes>>

-----------------------------------------------------------------------------
(* IngestionManager.run_ingestion, inside its slot.                        *)

JobFindsNoCase(r) ==
  /\ At(Job(r), "asking")
  /\ ~exists
  /\ Finish(Job(r))
  /\ UNCHANGED bodyVars

IngestStart(r) ==
  /\ At(Job(r), "asking") /\ exists
  /\ status' = "ingesting"
  /\ Continue(Job(r), "parsing")
  /\ UNCHANGED <<reqVars, fileVars, dbVars, owedVars, exists, dir, crashes>>

\* The first batch of rows is committed; later ones only complete it.  The
\* bytes read are those the file holds now, whoever uploaded them.
IngestRows(r) ==
  LET f == file[r]
  IN  /\ At(Job(r), "parsing")
      /\ disk[f] # NoGen
      /\ rows' = [rows EXCEPT ![f][disk[f]] = @ + 1]
      /\ Continue(Job(r), "stored")
      /\ UNCHANGED <<reqVars, fileVars, findings, owedVars, caseVars, crashes>>

\* What the loop does when the worker has returned: detection is owed if the
\* file added events, runs now if nothing is queued, and is left to a later
\* ingestion otherwise.  A memory image has run a detection of its own.
Settle(r, owed) ==
  /\ pending' = owed
  /\ IF queued > 0
       THEN Finish(Job(r)) /\ UNCHANGED status
       ELSE IF owed
         THEN Continue(Job(r), "detecting") /\ UNCHANGED status
         ELSE status' = "ready" /\ Finish(Job(r))

\* Mutant: a file without events skips the detection its batch is owed.
EmptySkipsDetection(r) ==
  /\ At(Job(r), "parsing")
  /\ disk[file[r]] # NoGen /\ file[r] \notin MemoryFile
  /\ status' = IF queued > 0 THEN status ELSE "ready"
  /\ Finish(Job(r))
  /\ UNCHANGED <<reqVars, fileVars, dbVars, owedVars, exists, dir, crashes>>

IngestEmpty(r) ==
  /\ At(Job(r), "parsing")
  /\ disk[file[r]] # NoGen /\ file[r] \notin MemoryFile
  /\ Settle(r, pending)
  /\ UNCHANGED <<reqVars, fileVars, dbVars, fullPending, exists, dir, crashes>>

IngestArtifact(r) ==
  /\ At(Job(r), "stored")
  /\ file[r] \notin MemoryFile
  /\ Settle(r, TRUE)
  /\ UNCHANGED <<reqVars, fileVars, dbVars, fullPending, exists, dir, crashes>>

IngestMemory(r) ==
  /\ file[r] \in MemoryFile
  /\ \/ At(Job(r), "stored")
     \/ At(Job(r), "parsing") /\ disk[file[r]] # NoGen
  /\ Detect(FALSE)
  /\ Settle(r, pending)
  /\ UNCHANGED <<reqVars, fileVars, rows, fullPending, exists, dir, crashes>>

\* The file is gone, unreadable or damaged, or a batch cannot be written.
IngestFails(r) ==
  /\ \/ At(Job(r), "parsing") /\ disk[file[r]] = NoGen
     \/ /\ "parse" \in Faults
        /\ At(Job(r), "parsing") \/ At(Job(r), "stored")
  /\ Continue(Job(r), "failed")
  /\ UNCHANGED bodyVars

DetectOwed(r) ==
  /\ At(Job(r), "detecting")
  /\ Detect(fullPending)
  /\ pending' = FALSE /\ fullPending' = FALSE
  /\ status' = "ready"
  /\ Finish(Job(r))
  /\ UNCHANGED <<reqVars, fileVars, rows, exists, dir, crashes>>

DetectOwedFails(r) ==
  /\ At(Job(r), "detecting")
  /\ "detect" \in Faults
  /\ Continue(Job(r), "failed")
  /\ UNCHANGED bodyVars

\* The except clause: a replacement's rebuild is tried even now.
Recover(r) ==
  /\ At(Job(r), "failed")
  /\ \/ /\ fullPending
        /\ Detect(TRUE)
        /\ pending' = FALSE /\ fullPending' = FALSE
     \/ /\ fullPending => "detect" \in Faults
        /\ UNCHANGED <<findings, owedVars>>
  /\ status' = "error"
  /\ Finish(Job(r))
  /\ UNCHANGED <<reqVars, fileVars, rows, exists, dir, crashes>>

Ingest(r) ==
  \/ JobFindsNoCase(r) \/ IngestStart(r) \/ IngestRows(r) \/ IngestEmpty(r)
  \/ IngestArtifact(r) \/ IngestMemory(r) \/ IngestFails(r)
  \/ DetectOwed(r) \/ DetectOwedFails(r) \/ Recover(r)

-----------------------------------------------------------------------------
(* A crash of the backend and the recovery its next start makes: the tasks *)
(* and the manager's sets are gone, busy statuses become "ready", every    *)
(* staging file, .previous backups included, is unlinked, and the          *)
(* directory of an unregistered case is removed.                           *)
Restart(newStatus) ==
  /\ crashes < MaxCrashes
  /\ crashes' = crashes + 1
  /\ locked' = FALSE /\ waiters' = << >> /\ queued' = 0 /\ active' = NoTask
  /\ fut' = [t \in Task |-> "none"]
  /\ pc' = [t \in Task |-> "idle"]
  /\ step' = [t \in Task |-> IF step[t] = "unborn" THEN "unborn" ELSE "done"]
  /\ pending' = FALSE /\ fullPending' = FALSE
  /\ backup' = [f \in File |-> NoGen]
  /\ status' = newStatus
  /\ dir' = exists
  /\ UNCHANGED <<reqVars, disk, dbVars, exists>>

\* Mutant: the busy statuses of the stopped backend are not released.
RestartKeepingStatus == Restart(status)

CrashAndRestart ==
  Restart(IF status \in {"ingesting", "analyzing"} THEN "ready" ELSE status)

-----------------------------------------------------------------------------
RequestStep(r) ==
  \/ RouteFindsNoCase(r) \/ Upload(r) \/ Purge(r)
  \/ AnalysisStart(r) \/ AnalysisEnd(r) \/ RunDetections(r) \/ DeleteCase(r)

TaskStep(t) == AskSlot(t) \/ WakeInSlot(t) \/ CancelledInQueue(t)

Next ==
  \/ \E r \in Request : Ask(r) \/ RequestStep(r) \/ Ingest(r)
  \/ \E t \in Task : TaskStep(t)
  \/ CrashAndRestart

Spec == Init /\ [][Next]_vars

(***************************************************************************)
(* A route that was called and a task that was created run to their end:   *)
(* the event loop runs ready tasks, the body of an upload was received     *)
(* before its route is called, and worker threads return.  Nobody is       *)
(* obliged to make a request.                                              *)
(***************************************************************************)
Fairness ==
  /\ \A r \in Request : WF_vars(RequestStep(r)) /\ WF_vars(Ingest(r))
  /\ \A t \in Task : WF_vars(TaskStep(t))

FairSpec == Spec /\ Fairness

-----------------------------------------------------------------------------
AtRest == \A t \in Task : ~Live(t)

\* The bytes a name stands for: what is on disk, or what a failing replacement
\* will put back.
Evidence(f) == IF backup[f] # NoGen THEN backup[f] ELSE disk[f]

\* Rows are never attributed to other bytes than the file holds, in every
\* interleaving of uploads, deletions, re-ingestions and failing replacements:
\* replace_file_data commits rows and file as a pair.
RowsMatchEvidence ==
  \A f \in File : \A g \in Request : rows[f][g] > 0 => Evidence(f) = g

\* Findings derived from rows that are gone are never forgotten: the manager
\* owes a full rebuild (pipeline.py: "Keep this obligation until one atomic
\* full rebuild succeeds").
StaleFindingsOwed == findings \subseteq Ingested \/ fullPending

\* A full rebuild that is owed is always carried by the pending marker that
\* makes an ingestion run it.
FullRebuildIsPending == fullPending => pending

\* An accepted file is never lost to a replacement that fails half way: its
\* bytes stay under the name or in the backup until an evidence deletion or a
\* case deletion removes them, or a replacement commits.
EvidenceSurvives ==
  [][\A f \in File :
       Evidence(f) # NoGen /\ Evidence(f)' # Evidence(f) =>
         \E r \in Request :
           /\ kind[r] \in {"upload", "delete", "deleteCase"}
           /\ pc[Route(r)] = "holding" /\ step'[Route(r)] = "done"
           /\ kind[r] = "upload" => Evidence(f)' = r /\ rows'[f] = NoRows]_vars

\* Nothing an operation does after it waited for its slot brings evidence,
\* rows or findings of a deleted case back.
DeletedCaseStaysEmpty ==
  ~exists => /\ \A f \in File : disk[f] = NoGen /\ rows[f] = NoRows
             /\ findings = {}

\* What a case reported ready was assessed on: every ingested file has been
\* through a detection run, unless a restart reported it ready.
ReadyCaseIsAssessed ==
  AtRest /\ status = "ready" /\ crashes = 0 => Ingested \subseteq findings

\* A case is not left looking busy when nothing works on it any more, by the
\* last file of a batch or by the restart of a backend that was stopped.
NoBusyStatusAtRest ==
  AtRest /\ exists => status \notin {"ingesting", "analyzing"}

\* The strengthening the proofs of the invariants above need: a task whose body
\* has begun and not ended sits in the slot, and one that was not created or has
\* ended waits nowhere; a replacement under way belongs to an upload to a case
\* that exists, its old file is under the name until it is moved, and from then
\* on in the backup, which nobody else has.
SwapSteps == {"staged", "movedAway", "movedIn"}
Outside == {"unborn", "asking", "done"}

BodiesInSlot ==
  \A t \in Task : /\ step[t] \notin Outside => pc[t] = "holding"
                  /\ step[t] \in {"unborn", "done"} => pc[t] = "idle"

SwapShape ==
  \A r \in Request :
    /\ kind[r] = "none" => step[Route(r)] = "unborn"
    /\ step[Route(r)] \in SwapSteps => kind[r] = "upload" /\ exists
    /\ step[Route(r)] = "staged" => disk[file[r]] # NoGen
    /\ step[Route(r)] = "movedAway" => disk[file[r]] = NoGen
    /\ step[Route(r)] = "movedIn" => disk[file[r]] = r
    /\ step[Route(r)] \in {"movedAway", "movedIn"} => backup[file[r]] # NoGen
    /\ step[Route(r)] = "purged" => rows[file[r]] = NoRows

BackupOwned ==
  \A f \in File : backup[f] # NoGen =>
    \E r \in Request : file[r] = f /\ step[Route(r)] \in {"movedAway", "movedIn"}

PipelineInv ==
  /\ CoordInv /\ TypeOK /\ BodiesInSlot /\ SwapShape /\ BackupOwned
  /\ FullRebuildIsPending /\ DeletedCaseStaysEmpty

\* Every request that was accepted and every ingestion that was scheduled ends.
OperationsEnd == \A t \in Task : Live(t) ~> ~Live(t)
==============================================================================

# A TLA+ model of Investigator

Investigator is a local forensic workbench: a FastAPI backend that keeps one
directory and one SQLite database per case, ingests evidence files into it,
derives findings from the rows, and lets an external model analyse the case.
This directory holds its formal model: TLA+ modules translated from
`src/backend/app`, the TLC configurations that check them on small instances,
and theorems about them that TLAPS checks for every instance. `PROJECT.json`
lists the runs, the lines of code each definition stands for, the hazards the
properties were written for, and, for every property, a plausible bug of the
code that the property catches.

## 1. Inventory

| Part (under `src/backend/app`) | State | Operations | What is hard |
|---|---|---|---|
| Operation coordinator, `store/operations.py` | per case: an `asyncio.Lock`, `_active`, `_queued` | `run()` around every long operation | hand-off window of the lock, cancellation of waiters, a count read by others |
| Evidence lifecycle, `api/cases_router.py`, `ingest/evidence.py` | uploads directory, staging and `.previous` files, rows, findings | upload, same-name replacement, deletion, re-ingestion | file and transaction must change together; requests queue behind each other |
| Chunked upload, `api/cases_router.py` | `_CHUNK_UPLOADS`, `.parts` files | `upload-chunk` | retries, worker threads that outlive a cancelled request, quota |
| Ingestion manager, `ingest/pipeline.py` | `_detections_pending`, `_full_rebuild_pending`, listeners, status | `run_ingestion`, `require_detection_rebuild`, `subscribe` | detection deferred to a later job, obligations kept in memory |
| Case registry, `store/cases.py`, `config.py` | `registry.json`, case directories | create, update, delete, `get_session`, start-up recovery | registry lock covers the entry but not directory and database |
| Case database, `store/database.py` | engine cache, writer gates | `init_db`, `dispose_db`, `SerializedWriteSession` | read-modify-write across sessions |
| Detection engine, `detect/engine.py` and its rules | findings, severities of events and processes | plain run, rebuild | what earlier runs and the analyst wrote must come off again; a run works on what it read before its first write |
| File provenance, `detect/engine.py` | none: a function of the rows | `_artifact_lifecycles`, `_match_candidate_execution` | a file changes its name while five indexes follow it; rows are incomplete |
| Overlays, `detect/overrides.py`, `detect/manual.py` | manual findings, benign marks, disabled rules, baselines | apply, revert, reapply | any order of changes must be reversible |
| Entity map, `detect/entity_graph.py` | `_GRAPH_CACHE`, build locks | map, dossier | identity by path or by name; a cache beside concurrent commits |
| Assistant, `llm/` and `api/analysis_router.py` | `_analysis_running`, reports, chats, memo | analysis, chat turns, tools | rows change while the model is asked; busy marker cleared on every path |
| Memory forensics, `memory/` | memory rows, process rows and their flags | one ingestion of a dump, in passes | views contradict each other; artifacts that fire everywhere |
| Rules, `rules/` | built-in overrides, custom rules, revision, cached profile | switch, regrade, fork, edit, import, load | the cache races the changes; rules share ids |
| Reverse workspace, `reverse/` | projects, runs, messages, reports, signatures, tasks | start, stop, resume, extend, review, sign, recover | requests and tasks suspend at every await; a run outlives its task |
| Authentication, `auth/` | sessions, login transactions, policy fingerprint | login, refresh, revoke | expiry and policy change racing requests |
| HTTP limits, settings | configuration | per-request checks | no state between steps |
| Parsers, Sigma compiler, sandbox image, frontend | none that is authoritative | pure translations, views | data, not control |

How they interact. Every route that changes a case for long enters the case's
slot with `coordinator.run()`. Upload, re-ingestion and replacement schedule
`run_ingestion` as a task of its own, which asks for the same slot again. The
ingestion reads `coordinator.queued_count()` to decide whether detection runs
now or is left to a later file, and keeps what is owed in two sets of the
process; a replacement adds to those sets (`require_detection_rebuild`). All
sessions come from `get_session()`, which asks the registry first. Blocking work
runs in worker threads (`asyncio.to_thread`), which a cancelled request does not
stop. A restart loses every task and set; `main.py:lifespan` repairs what is on
disk before the first request.

Routes that only touch findings (benign marks, manual findings, rule switches,
chat tools) take no slot, only the writer gate of their session, and so fall in
the middle of detection runs and analyses. The rules of the installation are a
database of their own that each run reads through a cached profile.

What makes each part correct, in one line: the slot is exclusive, fair and never
lost; rows, file and findings of one name belong together or a rebuild is owed; a
chunked file is complete or not there; a listed case is whole; a deleted case
stays away; the analyst's word on a finding outlives every run and every run can
be undone; a verdict stands on the finding it was given for; a profile is the
rules as they are; one actor works on a reverse project, executes a request once
and publishes reports only; conclusions from rows rest on rows about the same
file, process or region; an answer of the cache is the map of now; everything
that was started ends.

## 2. Modules

| Module | Models | State and actions |
|---|---|---|
| `CaseMutex` | what the coordinator promises | one variable: who sits in the slot |
| `CaseCoordinator` | `operations.py` over `asyncio.Lock` | lock flag, waiter queue, futures, `_active`, `_queued`; one action per stretch of code between two awaits |
| `EvidencePipeline` | upload, replacement, purge, ingestion, detection, analysis, case deletion and restart of one case | extends `CaseCoordinator`: request `r` is the task `Route(r)`, its ingestion the task `Job(r)`; `step` is where a task's body stands |
| `ChunkedUpload` | `upload_chunk` with the other requests for its names | `now` is the request in the slot, `up` is `_CHUNK_UPLOADS`, `part` and `file` the files, `threads` the workers left behind by a cancelled request |
| `CaseRegistry` | `store/cases.py` with the engine cache | threads that load, change and replace the registry file, and make or remove directories entry by entry |
| `DetectionRun` | a plain run and a rebuild, benign marks, disabled rules, manual findings | `db` are the tables of the case, `off` the rules switched off for all cases, `run` the snapshot a run computes from; `BeginRun`, `ScanUngated`, `FinishRun` are its transactions, the routes fall in between; `Child` makes processes a family |
| `CaseAssistant` | the AI analysis, two chat sockets, the tools and the memo | `job` and `turn` carry the rows each session loaded; `finding` are the rows by id, which SQLite uses again; the memo is the messages it was given and those cut off (`Fit` is how many surely fit) |
| `RuleState` | rule store, forks, imports, and the profile a run loads | each SELECT of `load_profile` is an action, and so are a commit and the cache drop after it; `AtFinding` are the rules whose findings are made with the profile at hand |
| `ReverseRun` | tasks, requests, statuses, signatures, shutdown and restart of a reverse project | `cur` is `_tasks`, `lock` the lock of the project, `call` the requests suspended at an await |
| `ReverseTurns` | the tool loop, review, revision, denial and what a later task rebuilds | `last`, `substantial`, `asked` are what the stored messages say, `controller` is the progress controller; `Candidate` are the texts the code takes for a report |
| `MemoryAnalysis` | the passes over a memory dump, the dampener, the composite verdicts | one action per pass and commit; `dump` are the views, `processes` and `memory` the rows |
| `Provenance` | renames, deletions and executions of files that were brought to the machine | the variables are the machine and its telemetry, with whether a row was lost or filtered (`missing`, a ghost; `Executable` is the filter); `Lifecycles`, `Best`, `OriginFindings` are the correlation, functions of the rows |
| `EntityMap` | the map as a function of process, event and finding rows | operators only: `Graph`, `Dismissed`, `Propagated`, `AttachManual`, `Severity`, `Map`, `Dossier`; the text of a raised event is the set of names that occur in it |
| `EntityGraph` | the requests for it, its cache, the writers beside | a request reads in three queries under the build lock; SQLite's log and database file carry the fingerprint |
| `EvidencePipelineProofs`, `CaseRegistryProofs`, `ChunkedUploadProofs`, `CorrelationProofs`, `ReverseRunProofs`, `AssistantProofs` (the chat assistant and the turns of a reverse analysis), `DetectionRunProofs`, `FoldLaws` | | theorems (section 5) |
| `FileNames` | a directory and a name, and the name alone | constants and operators, for the two modules above that compare names |
| `Severities` | the order of the severities | constants, for the three modules above that compare them |
| `MC*` | | constants of the runs; `MCPipelineScenarios` and `MCCorrelation` join several instances in one run |

`CaseCoordinator` is composed with what runs in its slot in `EvidencePipeline`.
`DetectionRun`, `CaseAssistant` and `RuleState` rely on what those two show: that
runs, uploads and analyses of one case exclude each other. `EntityGraph` contains
`EntityMap`. `ReverseRun` abstracts the texts of a run and `ReverseTurns` the
races of its requests.

Abstractions, and why they are safe:

* Bytes are named after the request that brought them; `rows[f][r]` counts how
  often the bytes of `r` were ingested under the name `f`. Whether rows match a
  file, and whether they are there twice, is all the properties ask.
* In `EvidencePipeline` a finding is the pair of file and bytes it derives from;
  a rebuild replaces the findings, a plain run adds. In `DetectionRun` a detector
  fires on the rows of `Trigger`; what happens to findings and severities after
  that is kept in full.
* A purge is one transaction, as in the code; so are the two deletions inside
  `delete_case` as seen by the pipeline, because the slot and the registry lock
  are held. `CaseRegistry` takes that deletion apart.
* `EvidencePipeline` cancels a task only where the program itself does. A client
  that goes away is modelled in `ChunkedUpload`, whose awaits are not shielded.
* In `ChunkedUpload` a chunk is one byte. A refused chunk (409) changes nothing
  and is no step. A restart removes every staging file; one whose unlink fails is
  left out.
* In `CaseRegistry` an update writes back the registry it loaded, which is what
  can go wrong; statistics and the other fields are left out.
* The language model, the reviewer and the sandbox are the environment: any answer,
  failure or timeout. A text is only its kind.
* Addresses, names and paths of memory dumps are reduced to the comparisons the
  passes make; a dump of `MCMemoryDumps` says which views list what.
* Files of `Provenance` and rows of `EntityMap` have paths of a directory and a
  name, because the code compares exactly these two. Rows of `Provenance` carry
  the file they are about; the correlation never reads it, the properties do.
* A commit becomes visible and changes the fingerprint in one step. SQLite's
  order of the two within one commit is not modelled.
* Definitions marked `Mutant:` are never part of a specification; they are the
  bugs the properties are tried against.

## 3. Runs

| Run | Question | Instance |
|---|---|---|
| `coordinator` | no overtaking, every waiter served, implements `CaseMutex` | 4 operations: one inside, one woken, one that arrives in the hand-off window, one cancelled |
| `pipeline` | rows, findings, files and owed rebuilds stay consistent | 3 requests of any kind, a plain and a memory file, every failure, no crash |
| `pipeline_scenarios` | a batch is assessed and released; everything started ends | a batch: 3 uploads, no failure, 1 crash; a pair: 2 requests of any kind, every failure, 1 crash |
| `chunked_upload` | only complete files, quota, late threads overwrite nothing | 2 names, 3 chunks, limits that two full files break, 2 uploads begun, 2 cancellations, 1 crash |
| `detection_run` | overrides hold, manual severities can be given back, a rebuild forgets, a run grades | 4 detectors, one gated and one in a rule table, 2 events, a process with its parent and grandparent, 1 manual finding, 2 row ids |
| `case_assistant` | verdicts on their findings, memo and cursor agree, the analysis ends | an analysis beside the analyst, an analysis beside one socket, two sockets that fill a chat |
| `registries` | listed cases were created to the end and stay whole; a load not overtaken is exact; rules stay apart | cases: 3 threads, 2 cases, failing schema and removal, 1 crash; rules: 2 requests and 2 loads, rules with a shared id, with a family, in engine code, and a fork |
| `reverse_run` | one worker, nobody waits for nobody, stop reaches the work, signatures cover the text | 2 task slots, 2 requests, 2 runs, 1 turn each |
| `reverse_turns` | a request is executed once, only reports are published, a task ends | 2 turns, an extension of 1, at most 3; a probe and another method, one evidence, one failure |
| `correlation` | what memory, provenance and map conclude, and whether the cache is current | 4,340 dumps of 3 processes and 2 drivers; 2 files, 4 paths (one an archive's), 4 moments, 3 kinds of telemetry, of which the journals lose rows (all of a rename, its old name, or both rows of its new name), files created beside downloaded ones where no journal is kept; cases of up to 5 rows added to two given ones, by writers alone; 2 map requests, 2 commits, a cache of 1 |
| `identity` | ends in a violation: section 4 | two initial cases and up to 3 further rows |
| `switches` | ends in a violation: section 4 | the rules of `registries` |

Why the bounds are enough. The coordinator distinguishes the task inside, the
first waiter, the waiter just cancelled and a newcomer: four tasks fill all
roles at once. A conflict in the pipeline is between a request, a second one that
queued behind it, and the ingestion one of them scheduled; three requests give
six tasks. Two files separate "this name" from "the other rows of the case". One
crash suffices where a restart leaves nothing in memory for a second one to
find. Three chunks give a first, a middle and a last one. The registry conflicts
are between a read-modify-write and one other thread, with a third to hold a
session open. Detection meets every case of its order of writes with a detector
that lends corroboration, one that receives it, one that needs another, and one
the profile filters; two row ids make SQLite use one again. Two sockets, two
loads, two requests are the two sides of each race; a third adds only another
copy of one of them. The second run of a reverse project is the one a stale
request would confuse with the first. A rename, another rename or a namesake, a
deletion and an execution are the four rows a story of a file needs. The cache
keeps one map so that the second request displaces it.

Every bound is a constant marked BOUND or named `Max...` in its module. Where one
run checks several instances (`pipeline_scenarios`, `registries`, `correlation`, and the
`Limits` of `case_assistant` and `Scopes` of `RuleState`) a behaviour is about
one of them; each instance is explored in full.

Deadlock is checked for the coordinator, where every task may always ask again,
and switched off elsewhere: the requests are finite in number and the system
rests when they are served.

Fairness. The event loop runs every ready task, and worker threads return, so
each action that continues a task already begun is weakly fair: `Resume`,
`UnwindCancelled` and `Leave` in the coordinator; the steps of a route, of an
ingestion and of a queued task in the pipeline; the steps of an analysis in
`CaseAssistant`, whose provider calls have a timeout. Nobody is obliged to make a
request, to cancel one, or to crash. Weak fairness suffices, because a woken
waiter stays woken until it runs. That a reverse task ends is shown without
fairness: `TaskRunsDown` gives each task a rank that falls with every step.

## 4. Where code and documentation disagree, and known limits

Checked by the run `identity`: a finding about one full path is attached in the
entity map to a file of the same name in another directory, because
`_attach_findings` also looks for the name alone (`entity_graph.py:463`).
SECURITY.md, lines 282 to 286, asks for the full path wherever one is known.

Checked by the run `switches`: a rule in engine code that is switched off goes on
reporting. `_add_finding` asks the profile it is given (`engine.py:313-326`), and
the detections in engine code (3036, 3080, 3101, 4037 and others) give it none, so
it works with `DEFAULT_PROFILE`; a severity given to such a rule is ignored in the
same way. `rules/profile.py:84`, `registry.py:415` and `rules/database.py:13` say
that these rules are switched and regraded there. Only the command-line checks
call it with the profile.

The models contain the following as well; the checked properties are worded
around them, so a property that forbade one would fail.

Evidence and cases:

* Detection is deferred whenever anything is queued (`pipeline.py:440`), an analysis
  or a deletion included, and those never run it; ARCHITECTURE.md:289 says while
  more files are queued. The final status is left to them in the same way
  (`pipeline.py:461`). `ReadyCaseIsAssessed` and `NoBusyStatusAtRest` are checked
  for uploads alone.
* Evidence deletion and re-ingestion check the registry only before they queue;
  resolving the name then creates the uploads directory of a case deleted
  meanwhile (`config.py:188`; ARCHITECTURE.md:366). `get_session()` checks the
  registry and opens the database afterwards without the lock (`cases.py:204`;
  ARCHITECTURE.md:828).
* A process that ends between the two renames of a replacement leaves the only
  copy of the old file under a staging name, which the next start removes
  (`cases.py:248`; SECURITY.md:143). `EvidenceSurvives` is stated without a crash.
* Re-ingestion purges in one slot and ingests in another; an ingestion queued in
  between fills the rows again (`cases_router.py:555`; `evidence.py:392`).
  `RowsMatchEvidence` allows the same bytes twice.
* A cancelled request leaves its append running; the retry appends the chunk again
  (`cases_router.py:464`; SECURITY.md:147). After two cancelled requests of one
  upload a late rename can overwrite what a later request committed;
  `LateThreadsNeverOverwrite` is stated for one cancellation.
* A restart forgets the rebuild that was owed (`StaleFindingsOwed` is stated without
  one); a failing detection after a purge, or a parse that fails after its first
  batch, leaves rows without findings and owes nothing.

Detection and overlays:

* A manual finding keeps the row id of its event, which SQLite gives to another
  event once the last rows are deleted (`manual.py:257`; README.md:46).
* A finding marked benign while a run computes can be raised twice, because the run
  resets its base from what it read before (`engine.py:2999`; `engine.py:2877`).
* `RebuildForgets` is about the severities the engine itself gives: a severity other
  than info from the parser, or from a table rule that was switched off since, is
  not told from it, and the severity of a process is never taken off (`Forgettable`).
  Detectors in engine code that are switched off still raise events.
  A plain run under a manual severity loses its own escalation until a rebuild.
* Corroboration joins the names of processes by union-find (`engine.py:2895-2931`), so
  a finding is raised by one about a grandparent or a sibling, where the docstring
  (2869-2871) speaks of a direct parent and child. `RunGrades` is about the
  families the code makes.
* The memo is made of the first 800 characters of each message and 12000 of all
  together, and its cursor goes behind the last message all the same
  (`orchestrator.py:906-915`): what was cut off lies below the cursor and is
  never given to the model. `MemoMatchesCursor` counts such a message as cut.
* When the client of a chat leaves, the task of its tools is not cancelled
  (`orchestrator.py:795`) and may still suppress findings. `get_process_handles`
  expires what its session loaded (`tools.py:445`), the only tool that does; the
  model keeps the loaded rows through every read.
* A chat turn keeps the findings it loaded; a rebuild meanwhile gives their ids to
  others (`overrides.py:212`, `tools.py:359`). The verdicts on rows of the analyst
  are excluded from `VerdictsOnTheirFindings` for the same reason. A report stored
  after a change of overrides is not shown as stale (`orchestrator.py:623`).
* Rules: a load may mix two revisions of its two tables; the mixture is never used
  as the profile of the newer one. Severity overrides of members of LOLBin,
  parent-child, masquerade and directory tables have no effect; one of a registry run
  key reaches only the MemProcFS title. Forking with `disable_builtin` can leave
  the copy disabled and the original off.

Memory:

* With forensic extraction `process.csv` makes a first process row of a pid
  (`forensics.py:344`), and `_mark_process` takes `.first()`; flags of one pid end
  on two rows and do not meet (`pipeline.py:1757`; its comment at 1754).
* A suspicious network mark whose only reason was a widespread region survives the
  dampener; the marks of YARA come after the correlation; events of dampened
  regions keep their severity; a hollowing suspect with an unlinked module, both
  from one list of modules, makes a critical verdict.

Provenance:

* A rename that is journalled as new name and again on close counts twice in the
  chain. Renames and deletions do not ask for the host, executions do. A deletion
  does not end a segment. Rows without reference pair by a stack of 200. A name
  collision can take a candidate along; `NamesTellFilesApart` is the premise of
  `NoForeignLinks`. An exact path without a time ties with a name within the window.
* Journal rows without a file reference pair with the last old name on the stack
  (`engine.py:1895-1898`). When one of them is lost, or the rows of two renames lie
  between each other, two files are linked that never shared a name.
  `NoForeignLinks` is stated for such a journal while no row is missing, and the
  model keeps the rows of one rename together.
* The reference of a Defender row is a hash of the file's contents
  (`parsers.py:488`), which copies share; the files of the model differ in theirs.
* Rows of the journal are read only if their own path has an executable extension
  (`engine.py:52-55`, 1788-1797, 3331-3335), so of a file renamed from `payload.zip` to
  `payload.exe` one half is dropped and its download is not told; the comment at
  1790-1793 says provenance can follow a file across renames.
  `TracedThroughRenames` counts a dropped row as missing.

Entity map:

* A dismissed name is looked for anywhere in the text of a raised event
  (`entity_graph.py:774-780`; the text is written at `engine.py:2800-2802`), so dismissing
  a finding about `a.exe` quiets what was raised for `java.exe`, an event included that a
  finding in force names by its id. `DismissalIsExact` takes the names that occur
  in the text, whole or as part of another, and asks that an event shows when what
  stands knows each of them.
* `ensure_manual_findings_applied` makes the rows of manual findings again without
  the overrides (`manual.py:306-312`), so a benign mark on a legacy one is lost
  until the next run; `EntityGraph` leaves the marks as they are.
* Suppressing the only finding on a process lets the severity of its process row
  show again. Suppressing a medium web log event turns its edge to high.
  `parent_name=f"pid-{parent.ppid}"` names the wrong process. Processes are looked
  up by pid across sessions.
* An answer may be torn between the three queries; it is never kept or served as
  current. Manual findings keep their event in `ref_id`, which the suppression
  signals do not read.

Reverse workspace:

* `deny_extension` takes no lock: overlapping a request it breaks `OneWorker`,
  `BusyIsWorked` and `SignatureCoversReport`. A review that continues a run the
  project has moved on from escapes `stop`. A recovery says `verifying` before the review and
  catches nothing (`analysis.py:2094-2120`, 1546-1551): when the review sends the report
  back to work, when storing the report fails (1835-1841), or when the client goes
  away meanwhile, the run says so with nobody at work and cannot be resumed. The constant `Explored` of `ReverseRun`
  turns each of these on; the run leaves them off.
* `stop` leaves the status to the cancelled task, and two kinds of task do not set
  it; the run then says `stopping` and cannot be resumed (`analysis.py:2188`;
  ARCHITECTURE.md:197). `approve_extension` called twice grants twice.
* A rejected response counts as the report after a resume; a recovery or a repeated
  review replaces the draft with whatever came last; a refused call counts as
  executed after a resume. `OnlyReportsPublished` names these exceptions.
* A tool request that the policy denies, or that is malformed, is no request to
  `parse_tool_call` (`tools.py:140-155`). When it has 80 characters or more it is a
  candidate for the report (`analysis.py:158-161`), is kept as the draft and can be
  published (1259-1280); the answer to a denial is taken as it comes (2437-2441).
  The model has such texts (`"denied"`), and `OnlyReportsPublished` allows them.

## 5. Proofs

Checked by TLAPS for every set of operations, requests, files, cases, threads and
names, every choice of kinds and faults, every number of crashes, and any rows of
a case; TLC had agreed on each formula first.

`EvidencePipelineProofs`, on the coordinator, from `NoTaskAssumption` (nobody is not
an operation).
`CoordInv` is inductive: the typing, `OneOperation`, `NoLostWakeup`,
`QueuedNeverOverCounts`, and `QueueShape`. The last is what the others lack: the
queue holds each waiting task once, and a future that has its result belongs to
the first waiter of a free lock. Without it a cancellation could be thought to
remove somebody else's wake-up. `NoOvertaking` and the refinement of `CaseMutex`
follow step by step from it.

The same module, on the pipeline, from `TaskAssumption` (the tasks are the routes and the
jobs of the requests) and `NoGenAssumption`. `PipelineInv` is inductive: it adds
`BodiesInSlot` (a body that has begun and not ended sits in the slot),
`SwapShape` (what a replacement under way has done to the file so far) and
`BackupOwned` (a backup file belongs to a replacement under way). From
`SlotIsExclusive`, the consequence of the first with the mutex, every other body
stands still, so each conjunct needs to be looked at only for the actions its
frame lemma names. Three theorems assume `MaxCrashes = 0`:
`StaleFindingsAlwaysOwed`, `RowsAlwaysMatchEvidence` and
`EvidenceAlwaysSurvives`. A crash does break the first and the third (section 4).

Two more are about a case at rest. `ReadyCaseAlwaysAssessed` follows from `BatchInv`:
what is ingested is in the findings, or a file, a purge or a pending detection is
still to come (`Assessed`), and a ready case with a pending detection has a job
that will see it (`PendingCarried`). It holds for uploads, replacements, deletions,
re-ingestions, rebuilds and case deletions together, with rejected uploads, failing
replacements and refused purges; it assumes that no parser and no detection
fails, which loses the mark, and that no analysis, which ends as "ready",
comes in between. `NoBusyStatusEverAtRest` follows from `ReleaseInv`: a busy status
has a live task (`Working`), since an ingestion that leaves its status leaves
a waiter, and a waiter that is an upload leaves a job. It allows uploads and
analyses, failing parsers, detections and analyses, and any number of crashes; not
rejected uploads or failing replacements, nor the other requests, because such
a waiter ends and leaves nobody (section 4). Both rest on `OnlyFailedCancel`: nobody is
cancelled in the queue but the job of a replacement that failed.

`CaseRegistryProofs`, from `CaseAssumption` (there is a case), `NoThreadAssumption`
and `CrashAssumption`. `CreatedCaseStaysWhole` and `ListedCaseWasCreated` hold
together and need the rest of `IInv`: `LockInv` and `CopyInv` (the thread between
load and save holds the lock, and knows the registry as it is but for its own
case), `CreatorInv` and `OwnInv` (how far a creator came, and that nobody else has
its id), `OpenInv` and `EngineInv` (no engine is cached for an id before its
creator makes the schema; a cached one would skip it). What holds without a lock,
`CreatorInv`, holds because ids are never drawn twice.

`ChunkedUploadProofs`, from `BoundsAssumption`, `NoneAssumption` (no upload and
no file are neither) and `NameAssumption` (the names are finitely many, as every
moment of a running program has them). `UpInv` survives cancellations: an upload has a part file of
its own and chunks to come, and the request in the slot sends the next of them.
`ContentInv` says what the part files hold and is stated while nothing was
cancelled, which is when nobody but the request writes to them; the lemmas on
`Prefix` say that appending and truncating lead from one prefix to the next.
`LateInv` is about what survives a cancellation: while one request was cancelled,
a thread that waits to rename a part file either finds it, and then no file has its
name (`RenameWaits`), or it is gone for good, because no state refers to it and an
append would need a second cancellation. `QuotaHolds` needs `QuotaInv`: the request
that commits was measured with its last chunk, and nobody else writes to the case
between the two. The sums in it are the library's, which take one name after the
other; `SumUnique` to `SumOfNothing` show that they do not depend on the order,
each by taking the smallest set of names that would refute the lemma, since the
induction theorems of the library cannot be used.

`CorrelationProofs` is about the conclusions drawn from rows, in four parts. The first is the analysis of a memory dump, from `PidsAssumption` (finitely
many processes), `DumpsAssumption` (traces are of the kinds the code reads) and
`AbsentAssumption`; the dumps, the thresholds of the dampener and the order of rows
are arbitrary. `LeadsStayLeads` compares the grade of a process with the views of the
dump, and the passes compute one from the other through flags; `LeadInv` says what
each flag stands for (`Speaks`): a candidate of the pool scan for the pool scan, an
injection for a region, a hollowing suspect for what a loader list says, the
remaining ones for a full lead. Two flags that count are then two artifacts
(`CompositeLeads`). Each view has its lemma (`PoolSpeaks`, `MalfindHolds`, `LdrHolds`, `DllHolds`),
each kind of writing too (`MarksHold`, `AppendHolds`, `DampedHolds`).
An artifact counts only if a clean process does not show it: a listed process is in
the pool scan and leaves traces like any other, so of these only an address outside counts.
`WideInv` is what the order of the passes must ensure: before the dampener no
process has a flag of its classes, from then on such a flag is to be ignored if
its class is widespread, and no later pass changes how widespread a class is
(`WidespreadKept`), since the rows it adds have none. `InjectedInv` needs the order, too:
the hidden processes are known before the regions are graded.

The second part is the cache of the map, from `EntityGraphConstants` (the initial cases are cases, the
cache holds at least one map). `AnswersAreCurrent` is not inductive: whether an
answer is current depends on what its request has read so far and on what the cache
kept. `GraphInv` adds for each request that, if nobody committed since it took the
fingerprint (`Unmet`), what it has read are the rows of now (`ReadsHold`), and for
each entry of the cache that one with the present log position holds the present
rows (`EntryHolds`). The heart is `CommitOutdates`: a commit makes every reading
and every entry a thing of the past at once, because the log position only grows.
What the map contains is never looked at, so the theorem holds for any map that is
a function of the rows. The invariant needs no claim on the build lock: two
builders at once would be slower and no less correct.

The third part is what a map contains, from `EntityRows` (severities are grades,
names of files and programs are file names). The map is a fold: the findings are
laid over the nodes of the rows one by one, in the order of their ids, and each
sees what the earlier ones added. `FoldLaws` has the law for that, for any step, any
order and any claim: a claim that holds of the base and that each element's step
keeps, holds of what a fold over finitely many elements gives (`FoldKeeps`), and a fold
over 1 to n + 1 is the step of n + 1 on the fold over 1 to n (`FoldInOrder`). The
library folds with a recursively defined function, which a proof has to show to exist:
`FoldExists` and `FoldUnique` do so from a smallest set without one, which is how the
proofs here get by without induction. The claim for the map is
`MapHolds`: what the rows put there stays, every mark is a grade, a tie of a manual
finding that names a path leads to a path only if one event has both (`Witnessed`),
and a case without manual findings has nothing but what the rows put there.
`ManualEdgesAlwaysWitnessed` and `DismissalAlwaysExact` follow for every case the
cache module can reach, which is a case in the sense of `IsCase` by `GraphInv`.

The fourth part is where a program came from, from `ProvenanceConstants`. `RowsInv` is
the invariant of the machine and its log: only a run is told without a path or a time,
rows name their own file or, in telemetry without references, none, and such a
journal keeps the rows of a rename together while none is missing (`Tripled`). From there the proof is about the correlation, a
function of the rows. `PairsHold` is the claim of the fold that pairs
old and new names. `ArtifactHolds` says of what is offered to an artifact that it
stays about one file while names tell files apart (`OfOneFile`), through renames and deletions. `IndexesHold` relates the five indexes to
the artifacts: each is found (`Found`) under whatever the next rename or deletion
may ask for, so that the pool looked up has all that match, and an artifact
outside it is left as it is. So every step of the indexed fold is, artifact by artifact,
the step of a plain fold (`RenamesKept`, `DeletesKept`), which is what
`IndexesAlwaysMissNothing` says. `NeverForeignLinks` adds that the story told of
an artifact takes nothing but its own chain and runs under its own names.

`DownloadsAlwaysTraced` is the converse: with no row missing, what happened
to a download is told. `TraceInv` relates the log to the true history of each
download, as stays under a path: stays follow each other in time (`StaysFollow`),
the pairs that the fold makes of the rows are the file's moves, each once and none
left out (`PairsTrace`), and they come in the order of time (`PairsSorted`); every
run names where the file was when it ran (`RowsTrace`); and nothing in the log is
later than the clock (`Past`). The pairs are a fold over a growing log, so each action has the lemma that
its rows add to the fold what they should: a move adds one pair, of two rows or of
one, every other action adds none. From there it is again about the correlation as a function: the
artifact takes the moves of its file one by one and stops at none of them (`TrailHolds`,
a claim of the fold over the pairs), so that a run in the window finds the chain that
leads to the name it ran under; the best run is one under the full path, because that match outranks all others
(`BestIs`); and the names of that chain, a third fold, are those of the history. Of the
constants it asks that `None` is neither a time nor the word for an exact match.

`ReverseRunProofs`, from the assumptions of `ReverseRun` on its constants. The
typing holds with every member of `Explored`; the other theorems name what they
exclude, because each of these is a behaviour of the code that breaks them
(section 4): `NoOverlap` (no denial beside a request), `NoOlderRun` (no review
that continues an older run) and `NoUnpublished` (every recovery
publishes or asks for turns). Four invariants stand on each other. `SlotInv` is about the lock: a live
task is the entry of `_tasks`, a request between its awaits is the owner of the
lock and has no live task beside it, and only a stop waits for a task. `FreshInv` follows publication and signing:
no signature under way is one of an older report. `OwnInv` says that what
is at work, or about to continue, is on the run of the project, and `WorkInv` that a
busy status has its task or a recovering request, and that a task that is cancelled
or signs has left no busy status behind. Each later one is preserved
because the earlier ones say who can move.

The second part of `AssistantProofs` is about `ReverseTurns`, from `NoneAssumption` and the assumptions on turns. `RunsInv`
relates three memories of one fact: a request that was executed is in a stored
message, and while the loop is at work it is among those the loop knows or is the
one in hand; so the filter of `_run` misses none, after any resumption either.
`DraftInv` says what the task's draft and the stored last text can be in each of
its positions. `TaskRunsDown` is an action property: the rank is a number while the
types hold, and each action is shown to lower it.

`DetectionRunProofs`, from `DetectionConstants` (detectors and items are different
things, what a detector emits is above info, the maps have the types they need). `DatabaseInv` is kept by
every commit: `IsDatabase` (types), `ItemsKept`, `OverridesIn` and `ManualOwned`.
`SnapshotInv` says that the override sets a run read are still those of the case
unless something crossed it, and `GradesInv` that in that case each detector's
finding is worth what was emitted or one rank more with its base at hand. The passes of a run are functions
of the tables, so there is one lemma on each (`ScanEffect`, `AddFindingsEffect`,
`CorroborateEffect`, `ApplyManualEffect`, `ApplyOverridesEffect`, `ResetEffect`),
and a step is the chain of its passes. `ConcludeGrades` follows the grades through
that chain; `RunGrades` is this lemma for the action `FinishRun`. Of the families
of processes it needs that the passes leave them alone. The passes add
tables with `Over`, which the module defines with a function constructor, so that
the prover can look into them.

`DetectionRunRebuildForgets` has a hypothesis beyond `DetectionConstants`, named
`Forgettable` in the model: the parser gives every event info, and what made a
process suspicious is not deleted before the process nor, for a rule of a table,
switched off. It is a limit of the code and not of the proof: a rebuild never
resets the severity of a process, and cannot tell a severity other than info that
the parser gave from its own. The instance of the run satisfies it
(`InstanceForgettable`). `ForgetInv` is what the hypothesis buys at every step: a
severity called the parser's is info, on events and in baselines (`ParserInfo`), and each
process severity is zero or that of a detector that still fires
(`ProcEarned`). With it `ResetForgets` says that the reset leaves nothing but the
rows, and `ScanForgets` that the scan finds the process severities again. From
there both rebuilds continue on the same database, so the later passes need
no comparison.

The first part of `AssistantProofs` is about `CaseAssistant`, from `AssistantConstants` (the findings of detectors, analyst
and model are different ones, the first and the last finitely many). Both
properties are about something written from what was loaded before an await, so
the invariant says what such a load is still good for. `ViewInv`: a row that the
analysis loaded names the finding that has its id now, unless that row is the
analyst's. It holds because whatever runs beside an analysis (the analyst's routes,
a suppression by the chat) writes only the analyst's rows anew (`KeepsOthers`), and
what does more, a detection, waits for its slot. `TurnsInv`: while the chat
exists, every turn holds a memo about the messages up to its own cursor, given or
cut, and one that is folding a set of messages that continues it without a gap. So whichever turn
stores last, memo and cursor fit each other; the cursor may go back, the
memo then with it. `UnfoldedIs` is the lemma on the arithmetic: leaving the newest
messages out leaves a beginning. A deleted chat ends the claim of the turns that
hold its memo, and is never there again under its row.

The last part of `CaseRegistryProofs` is about `RuleState`, the other database that
all cases share. A load reads the revision, the built-in and the custom
rules in steps of their own, and a cached profile may be stored late. `RuleInv` says
why none of this matters: each commit has a revision of its own, so what a load
read is the present state or its revision is not the present one (`LoadHolds`), and
a cached profile fits its own revision only (`Fits`). The default profile is the
exception that needs a word: it carries revision 0 whatever revision it was built
at, and is therefore never a hit, since no load looks at the cache before there is a
revision. Neither `QuietLoadAlwaysExact` nor `RulesAlwaysApart` needs an assumption on
the rules: a rule with rows reports from them, whatever ids it shares, and only
a command-line rule is silenced by an id, namely when all that own it are off.

Only model-checked: liveness (`WaitersServed`, `PairOperationsEnd`, `AnalysisEnds`),
because the prover does not reason about fairness. Every safety invariant that a
run checks is a theorem.

## 6. Not modelled

* Parsers, normalization, the Sigma compiler and the recognition of a detector's
  rows (`_check_*`) are functions on data that keep nothing; the models need only
  that a file yields rows, none, or an error, and which detectors fire.
* Provenance of services (`engine.py`, the service part of the correlation),
  composite correlation findings, promotion of memory results, domain indicators.
* `memory/explorer.py`: the VFS and the handle drawers of a dump. Two drawers opened
  at once both collect and store the handles, because "no events yet" is asked
  without a lock (`explorer.py:133`). Neither is the ingestion of the event logs
  found in a dump.
* Of the entity map: labels, counts, times, samples, the cut at `max_nodes`, the cap on
  neighbours, and the search in summaries for types that are not indexed.
* The listener queues of the ingestion progress (`pipeline.py:351`): a full queue drops
  its oldest item; only the display depends on it.
* The external model, MemProcFS, and the sandbox containers with their image are
  outside the state modelled; so are uploads to a reverse project and its tool policy.
* Authentication, HTTP limits and settings check single requests; the frontend holds
  no authoritative state. Read-only routes and statistics change nothing.

## 7. Plan

1. Session and login-transaction lifetimes against policy changes (`auth/`).
2. The explorer's collection and extraction, once its locks are settled.

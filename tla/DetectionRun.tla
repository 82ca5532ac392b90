---------------------------- MODULE DetectionRun ----------------------------
(***************************************************************************)
(* The detection engine and the analyst's overlays of one case: a plain    *)
(* run and a rebuild (app/detect/engine.py), disabled rules and benign     *)
(* marks (app/detect/overrides.py), manual findings and the severities     *)
(* they lend to events (app/detect/manual.py), the routes that change them *)
(* (app/api/cases_router.py) and the application-wide rule state a run     *)
(* snapshots (app/rules/profile.py).                                       *)
(*                                                                         *)
(* A detector is a key of Key: it fires on stored rows, adds one finding   *)
(* and raises the rows it fired on.  How a detector recognises its rows is *)
(* abstracted to the constant Trigger; everything that happens to findings *)
(* and severities afterwards is kept.  The case coordinator (module        *)
(* CaseCoordinator) keeps runs, uploads and deletions apart; the routes    *)
(* below take only the writer gate and may fall inside a plain run.        *)
(***************************************************************************)
EXTENDS Integers, FiniteSets, FiniteSetsExt, Functions

CONSTANTS
  Row, Proc,       \* evidence: events by their content, processes
  Key, Gated,      \* detectors; those that need another finding to speak of their account
  Table,           \* detectors kept in a rule table, which the profile filters beforehand
  Item,            \* the findings an analyst may write
  Name,            \* entities: a file, process or account name
  Rule, RuleOf,    \* the rule id of each detector and item (rule_id_for)
  Emits, Level,    \* the severity a detector emits, the one the analyst chose
  Trigger,         \* the rows a detector fires on
  Entity,          \* the name a detector's finding concerns
  Named, Mentions, \* the name an event or process is about, the names an event mentions
  Child,           \* the processes and their parents whose names a run joins: no
                   \* generic host, no name of less than four letters
  Parsed,          \* the severity the parser gave an event
  Toggled,         \* BOUND: the rules an administrator switches for all cases
  Switched,        \* BOUND: the rules an analyst disables in this case
  Listing,         \* BOUND: the processes that are read from one source
  Deleted,         \* BOUND: the evidence that is deleted
  Marked,          \* BOUND: the findings an analyst marks benign
  MaxId            \* BOUND: row ids

None == -1
Low == 1
High == 3
Severity == 0 .. 4

ASSUME DetectionConstants ==
  /\ Key \cap Item = {} /\ Gated \subseteq Key /\ Table \subseteq Key
  /\ Toggled \cup Switched \subseteq Rule
  /\ Marked \subseteq Key \cup Item /\ Deleted \subseteq Row \cup Proc
  /\ RuleOf \in [Key \cup Item -> Rule] /\ Entity \in [Key -> Name]
  /\ Emits \in [Key -> Low .. 4] /\ Level \in [Item -> Severity]
  /\ Trigger \in [Key -> SUBSET (Row \cup Proc)] /\ Parsed \in [Row -> Severity]
  /\ Named \in [Row \cup Proc -> Name] /\ Mentions \in [Row -> SUBSET Name]
  /\ Child \subseteq Proc \X Proc /\ Listing \subseteq SUBSET Proc /\ MaxId \in Nat \ {0}

VARIABLES
  db,      \* the case database, a record: see Init
  off,     \* rules switched off for all cases (rules.db)
  run,     \* the plain run under way, or Idle
  crossed  \* history: an override changed during a run since the findings were last rebuilt

vars == <<db, off, run, crossed>>

Idle == [phase |-> "none"]
Nothing == [x \in {} |-> x]

Init ==
  /\ db = [event |-> Nothing,     \* row id -> [row, sev, why]
           proc |-> Nothing,      \* process -> severity
           finding |-> Nothing,   \* detector or item -> [sev, base, stash]
           items |-> Nothing,     \* case_meta manual_findings: item -> [id, name]
           baseline |-> Nothing,  \* case_meta manual_event_severity_baselines
           disabled |-> {},       \* case_meta disabled_rules
           benign |-> {}]         \* case_meta benign_findings
  /\ off = {}
  /\ run = Idle
  /\ crossed = FALSE

-----------------------------------------------------------------------------
(* What a finding is about, and whether an override suppresses it. *)

EntityOf(d, f) == IF f \in Item THEN d.items[f].name ELSE Entity[f]

(* finding_key: title and entity *)
MarkOf(d, f) == <<f, EntityOf(d, f)>>

Suppressed(d, f, disabled, benign) == RuleOf[f] \in disabled \/ MarkOf(d, f) \in benign

Stored(d) == {d.event[i].row : i \in DOMAIN d.event} \cup DOMAIN d.proc

Raised(e, sev, why) == IF sev > e.sev THEN [e EXCEPT !.sev = sev, !.why = why] ELSE e

Highest(S) == Max(S \cup {0})

(* Rows written over the rows that are there. *)
Over(f, g) == [x \in DOMAIN f \cup DOMAIN g |-> IF x \in DOMAIN f THEN f[x] ELSE g[x]]

-----------------------------------------------------------------------------
(* The phases of a run, in the order of run_detections_sync. *)

(* Table-driven detectors that are switched off are not evaluated at all.  The
   imperative ones do not see the profile: no switch of an administrator
   reaches them (_add_finding is called with DEFAULT_PROFILE). *)
Fired(d, o) == {k \in Key : Trigger[k] \subseteq Stored(d) /\ ~(k \in Table /\ RuleOf[k] \in o)}

ScanProcesses(d, o) ==
  [d EXCEPT !.proc = [p \in DOMAIN @ |->
     Max({@[p]} \cup {Emits[k] : k \in {q \in Fired(d, o) \ Gated : p \in Trigger[q]}})]]

ScannedEvent(d, o, i) ==
  Raised(d.event[i], Highest({Emits[k] : k \in {q \in Fired(d, o) \ Gated : d.event[i].row \in Trigger[q]}}),
         "detection")

ScanEvents(d, o) == [d EXCEPT !.event = [i \in DOMAIN @ |-> ScannedEvent(d, o, i)]]

(* _add_finding: nothing for a known key. *)
AddFindings(d, keys) ==
  [d EXCEPT !.finding = Over(@, [k \in keys |-> [sev |-> Emits[k], base |-> None, stash |-> None]])]

(* RDP and privileged logons: only for accounts another finding names. *)
GatedLogons(d, o) ==
  AddFindings(d, {k \in Fired(d, o) \cap Gated :
                    \E f \in DOMAIN d.finding \ Gated : EntityOf(d, f) = Entity[k]})

Taint(d, n) ==
  Highest({d.proc[p] : p \in {q \in DOMAIN d.proc : Named[q] = n}}
          \cup {d.event[i].sev : i \in {j \in DOMAIN d.event : d.event[j].why # "match" /\ Named[d.event[j].row] = n}})

(* _propagate_flagged_entities *)
Propagate(d) ==
  [d EXCEPT !.event = [i \in DOMAIN @ |->
     Raised(d.event[i], Highest({Taint(d, n) : n \in Mentions[d.event[i].row]}), "match")]]

(* Mutant: The base severity is not kept: a run starts from what the last one left. *)
BaseBug(f) == f.sev

Base(f) == IF f.base # None THEN f.base ELSE f.sev

(* The union-find over names: whatever set holds the one, and with a process's
   name its parent's and the other way round, holds the other too. *)
Related(d, m, n) ==
  \A S \in SUBSET Name :
    /\ m \in S
    /\ \A c \in Child : c[1] \in DOMAIN d.proc /\ c[2] \in DOMAIN d.proc =>
                        (Named[c[1]] \in S <=> Named[c[2]] \in S)
    => n \in S

Partners(d, f, active) ==
  {g \in active : RuleOf[g] # RuleOf[f] /\ Related(d, EntityOf(d, g), EntityOf(d, f))}

(* _corroborate_findings, with the override sets the run was given. *)
Corroborate(d, disabled, benign) ==
  LET active == {f \in DOMAIN d.finding : /\ ~Suppressed(d, f, disabled, benign)
                                          /\ Base(d.finding[f]) >= Low}
      Graded(f) == LET r == d.finding[f] IN
        IF Partners(d, f, active) = {} \/ Base(r) >= High
        THEN [r EXCEPT !.sev = Base(r), !.base = None]
        ELSE [r EXCEPT !.sev = Base(r) + 1, !.base = Base(r)]
  IN [d EXCEPT !.finding = [f \in DOMAIN @ |-> IF f \in active THEN Graded(f) ELSE @[f]]]

(* restore_manual_event_severities *)
Restore(d) ==
  [d EXCEPT !.event = [i \in DOMAIN @ |->
                         IF i \in DOMAIN d.baseline /\ @[i].why = "manual"
                         THEN [@[i] EXCEPT !.sev = d.baseline[i].sev, !.why = d.baseline[i].why]
                         ELSE @[i]],
            !.baseline = Nothing]

(* The node an item is about is derived again from the event id it stores. *)
Derived(d) ==
  [d EXCEPT !.items = [m \in DOMAIN @ |->
     LET id == d.items[m].id
     IN IF id \in DOMAIN d.event THEN [@[m] EXCEPT !.name = Named[d.event[id].row]] ELSE @[m]]]

(* _sync_manual_event_severities: the referenced event and the events about
   the same entity rise to the item's severity, and remember what they had. *)
Impact(d, i) ==
  Highest({Level[m] : m \in {q \in DOMAIN d.items :
             /\ d.items[q].id \in DOMAIN d.event
             /\ MarkOf(d, q) \notin d.benign
             /\ i = d.items[q].id \/ Named[d.event[i].row] = d.items[q].name}})

SyncEvents(restored) ==
  LET d == Derived(restored)
      hit == {i \in DOMAIN d.event : Impact(d, i) > d.event[i].sev}
  IN [d EXCEPT !.event = [i \in DOMAIN @ |-> Raised(d.event[i], Impact(d, i), "manual")],
               !.baseline = [i \in hit |-> [sev |-> d.event[i].sev, why |-> d.event[i].why]]]

(* Mutant: The manual severities are given again without being taken back first. *)
ApplyManualBug(d) ==
  LET s == SyncEvents(d)
  IN [s EXCEPT !.finding =
           Over([m \in DOMAIN s.items |-> [sev |-> Level[m], base |-> None, stash |-> None]],
                Restrict(@, DOMAIN @ \ Item))]

(* apply_manual_findings: the module's rows are deleted and written again. *)
ApplyManual(d) ==
  LET s == SyncEvents(Restore(d))
  IN [s EXCEPT !.finding =
           Over([m \in DOMAIN s.items |-> [sev |-> Level[m], base |-> None, stash |-> None]],
                Restrict(@, DOMAIN @ \ Item))]

(* apply_overrides *)
ApplyOverrides(d) ==
  LET Overridden(f) == LET r == d.finding[f] IN
        IF Suppressed(d, f, d.disabled, d.benign)
        THEN [r EXCEPT !.sev = 0, !.stash = IF @ = None THEN r.sev ELSE @]
        ELSE IF r.stash # None THEN [r EXCEPT !.sev = r.stash, !.stash = None] ELSE r
  IN [d EXCEPT !.finding = [f \in DOMAIN @ |-> Overridden(f)]]

(* Mutant: The overrides are applied before the manual findings are written. *)
ConcludeBug(d, o, disabled, benign) ==
  ApplyManual(ApplyOverrides(Corroborate(Propagate(
    GatedLogons(AddFindings(d, Fired(d, o) \ Gated), o)), disabled, benign)))

(* From the aggregate heuristics to the overrides, on scanned rows. *)
Conclude(d, o, disabled, benign) ==
  ApplyOverrides(ApplyManual(Corroborate(Propagate(
    GatedLogons(AddFindings(d, Fired(d, o) \ Gated), o)), disabled, benign)))

Scan(d, o) == ScanEvents(ScanProcesses(d, o), o)

(* Mutant: A rebuild does not take the manual severities off. *)
ResetBug(d) ==
  [d EXCEPT !.finding = Nothing,
            !.event = [i \in DOMAIN @ |-> IF @[i].why \in {"detection", "match"}
                                          THEN [@[i] EXCEPT !.sev = 0, !.why = "parser"] ELSE @[i]]]

(* What a rebuild takes off first: the manual severities, the findings, and
   the severities the engine gave to events. *)
Reset(d) ==
  LET r == Restore(d)
  IN [r EXCEPT !.finding = Nothing,
               !.event = [i \in DOMAIN @ |-> IF @[i].why \in {"detection", "match"}
                                             THEN [@[i] EXCEPT !.sev = 0, !.why = "parser"] ELSE @[i]]]

-----------------------------------------------------------------------------
(* Runs.  A rebuild takes the writer gate with its first statement.  A plain
   run reads the override sets and the rule profile before its first write;
   a case without processes also has its events scanned before that. *)

Rebuilt(d) == Conclude(Scan(Reset(d), off), off, d.disabled, d.benign)

Rebuild ==
  /\ run = Idle
  /\ db' = Rebuilt(db)
  /\ crossed' = FALSE
  /\ UNCHANGED <<off, run>>

BeginRun ==
  /\ run = Idle
  /\ run' = [phase |-> "begun", disabled |-> db.disabled, benign |-> db.benign]
  /\ UNCHANGED <<db, off, crossed>>

(* The raised rows stay in the session, unflushed, while routes may commit. *)
ScanUngated ==
  /\ run.phase = "begun" /\ DOMAIN db.proc = {}
  /\ run' = [phase |-> "scanned", disabled |-> run.disabled, benign |-> run.benign,
             pending |-> Restrict(ScanEvents(db, off).event,
                           {i \in DOMAIN db.event : ScannedEvent(db, off, i) # db.event[i]})]
  /\ UNCHANGED <<db, off, crossed>>

FinishRun ==
  /\ \/ run.phase = "begun" /\ DOMAIN db.proc # {}
        /\ db' = Conclude(Scan(db, off), off, run.disabled, run.benign)
     \/ run.phase = "scanned"
        /\ db' = Conclude([db EXCEPT !.event = Over(run.pending, @)], off, run.disabled, run.benign)
  /\ run' = Idle
  /\ UNCHANGED <<off, crossed>>

(* An error rolls the transaction back and keeps the earlier results. *)
FailRun == run # Idle /\ run' = Idle /\ UNCHANGED <<db, off, crossed>>

-----------------------------------------------------------------------------
(* The analyst's routes, each one transaction behind the writer gate. *)

Toggle(S, x, on) == IF on THEN S \cup {x} ELSE S \ {x}

set_finding_benign(f, benign) ==
  /\ f \in DOMAIN db.finding
  /\ LET d == [db EXCEPT !.benign = Toggle(@, MarkOf(db, f), benign)]
     IN db' = ApplyOverrides(IF f \in Item THEN ApplyManual(d) ELSE d)
  /\ run = Idle \/ ~crossed  \* BOUND
  /\ crossed' = (crossed \/ run # Idle)
  /\ UNCHANGED <<off, run>>

(* The assistant's tool: never an analyst's finding, only to suppress, and
   only with a stored row to refer to. *)
suppress_finding(f) == f \in Key /\ Stored(db) # {} /\ set_finding_benign(f, TRUE)

set_rule_disabled(r, disabled) ==
  /\ db' = ApplyOverrides([db EXCEPT !.disabled = Toggle(@, r, disabled)])
  /\ run = Idle \/ ~crossed  \* BOUND
  /\ crossed' = (crossed \/ run # Idle)
  /\ UNCHANGED <<off, run>>

add_manual_finding(m, i) ==
  /\ m \notin DOMAIN db.items /\ i \in DOMAIN db.event
  /\ db' = ApplyOverrides(ApplyManual(
             [db EXCEPT !.items = Over([x \in {m} |-> [id |-> i, name |-> Named[db.event[i].row]]], @)]))
  /\ UNCHANGED <<off, run, crossed>>

delete_manual_finding(m) ==
  /\ m \in DOMAIN db.items
  /\ db' = ApplyOverrides(ApplyManual([db EXCEPT !.items = Restrict(@, DOMAIN @ \ {m})]))
  /\ UNCHANGED <<off, run, crossed>>

(* A run works on the snapshot it took of the rules (load_profile): a switch
   during a run is one after it. *)
set_state(r) ==
  /\ r \in Toggled /\ run = Idle
  /\ off' = Toggle(off, r, r \notin off)
  /\ UNCHANGED <<db, run, crossed>>

-----------------------------------------------------------------------------
(* Evidence, under the coordinator and so never during a run.  SQLite gives a
   new row the id after the largest one in use. *)

Ingest(r) ==
  LET i == 1 + Highest(DOMAIN db.event) IN
  /\ run = Idle /\ r \notin Stored(db) /\ i <= MaxId
  /\ db' = [db EXCEPT !.event = Over([x \in {i} |-> [row |-> r, sev |-> Parsed[r], why |-> "parser"]], @)]
  /\ UNCHANGED <<off, run, crossed>>

IngestProcesses(S) ==
  /\ run = Idle /\ S \cap Stored(db) = {}
  /\ db' = [db EXCEPT !.proc = Over([x \in S |-> 0], @)]
  /\ UNCHANGED <<off, run, crossed>>

(* purge_file_data: the rows and all findings go; a plain run follows. *)
Purge(r) ==
  /\ run = Idle /\ r \in Stored(db)
  /\ db' = [db EXCEPT !.finding = Nothing,
                      !.proc = Restrict(@, DOMAIN @ \ {r}),
                      !.event = Restrict(@, {i \in DOMAIN @ : @[i].row # r})]
  /\ UNCHANGED <<off, run, crossed>>

Next ==
  \/ Rebuild \/ BeginRun \/ ScanUngated \/ FinishRun \/ FailRun
  \/ \E f \in Marked, b \in BOOLEAN : set_finding_benign(f, b)
  \/ \E f \in Marked : suppress_finding(f)
  \/ \E r \in Switched, b \in BOOLEAN : set_rule_disabled(r, b)
  \/ \E m \in Item, i \in 1 .. MaxId : add_manual_finding(m, i)
  \/ \E m \in Item : delete_manual_finding(m)
  \/ \E r \in Rule : set_state(r)
  \/ \E r \in Row : Ingest(r)
  \/ \E S \in Listing : IngestProcesses(S)
  \/ \E r \in Deleted : Purge(r)

Spec == Init /\ [][Next]_vars

-----------------------------------------------------------------------------
(* After every commit a finding shows as info exactly when a disabled rule or
   a benign mark suppresses it now, and nothing else keeps a stashed severity:
   whatever run, rebuild, manual change or toggle came in between or fell
   inside a run that had read older override sets (overrides.py:1). *)
OverridesHold ==
  \A f \in DOMAIN db.finding :
    IF Suppressed(db, f, db.disabled, db.benign)
    THEN db.finding[f].sev = 0 /\ db.finding[f].stash # None
    ELSE db.finding[f].stash = None

(* An event shows an analyst's severity only while an item that is not marked
   benign has that severity, and only with the severity to give back at hand,
   a lower one that no item gave (manual.py:220). *)
ManualImpactOwned ==
  \A i \in DOMAIN db.event : db.event[i].why = "manual" =>
    /\ i \in DOMAIN db.baseline
    /\ db.baseline[i].sev < db.event[i].sev /\ db.baseline[i].why # "manual"
    /\ \E m \in DOMAIN db.items : Level[m] = db.event[i].sev /\ MarkOf(db, m) \notin db.benign

(* At the end of a plain run every finding in force has the severity its detector
   emitted, or one rank more (never above high) when another rule in force
   speaks of the same entity or of one that a chain of parents and children
   among the processes joins to it: runs repeat without compounding, and a partner
   that was suppressed or is gone lends nothing (engine.py:2866).  Overrides
   changed during a run are left out, until the findings are rebuilt. *)
RunEndGraded ==
  run # Idle /\ run' = Idle /\ db' # db /\ ~crossed =>
    \A k \in Key \cap DOMAIN db'.finding :
      LET Lends(d, f) == /\ ~Suppressed(d, f, d.disabled, d.benign) /\ RuleOf[f] # RuleOf[k]
                         /\ Related(d, EntityOf(d, f), Entity[k])
          detector == \E f \in Key \cap DOMAIN db'.finding : Lends(db', f)
          item == \E f \in Item \cap DOMAIN db.finding : Lends(db, f)
      IN ~Suppressed(db', k, db'.disabled, db'.benign) =>
           \/ db'.finding[k].sev = Emits[k] /\ (Emits[k] >= High \/ ~detector)
           \/ db'.finding[k].sev = Emits[k] + 1 /\ Emits[k] < High /\ (detector \/ item)

(* As a property of steps: every step that ends a run leaves the findings graded. *)
RunGrades == [][RunEndGraded]_vars

(* What a rebuild can tell from its own doing: the parser gives every event info, and
   what made a process suspicious lasts as long as the process. *)
Forgettable ==
  /\ \A r \in Row : Parsed[r] = 0
  /\ \A k \in Key \ Gated, p \in Proc : p \in Trigger[k] =>
       /\ Trigger[k] \cap Deleted \subseteq {p}
       /\ k \in Table => RuleOf[k] \notin Toggled

(* A rebuild leaves no trace of the past: started now, it would give the
   findings and event severities of a case that holds the same rows, overrides
   and items and was never detected before (engine.py:2966). *)
RebuildForgets ==
  LET pristine == [db EXCEPT !.finding = Nothing, !.baseline = Nothing,
        !.proc = [p \in DOMAIN @ |-> 0],
        !.event = [i \in DOMAIN @ |-> [row |-> @[i].row, sev |-> Parsed[@[i].row], why |-> "parser"]]]
      fresh == Rebuilt(pristine)
      rebuilt == Rebuilt(db)
  IN run = Idle => rebuilt.finding = fresh.finding /\ rebuilt.event = fresh.event
=============================================================================

-------------------------- MODULE DetectionRunProofs --------------------------
(***************************************************************************)
(* Proofs about DetectionRun, for every set of rows, detectors, rules,     *)
(* items and names, and every bound on what is switched and deleted.       *)
(*                                                                         *)
(* Every write of the findings ends with the overrides, so the argument    *)
(* goes through the phases of a run one by one: what each leaves of the    *)
(* tables (IsDatabase), of the severities an analyst lent (ManualBase,     *)
(* ManualOwned) and of the grades (KeysGraded).  That a rebuild forgets    *)
(* follows from two facts about what it does not reset (ForgetInv).        *)
(***************************************************************************)
EXTENDS DetectionRun, WellFoundedInduction, TLAPS

Fields == {"event", "proc", "finding", "items", "baseline", "disabled", "benign"}
Why == {"parser", "detection", "match", "manual"}
EventRow == [row : Row, sev : Severity, why : Why]
FindingRow == [sev : Severity, base : -1 .. 4, stash : -1 .. 4]
Marks == (Key \cup Item) \X Name

\* The tables of a case: a finding is a detector's or an item's.
IsDatabase(d) ==
  /\ DOMAIN d = Fields
  /\ d.event \in [DOMAIN d.event -> EventRow] /\ DOMAIN d.event \subseteq 1 .. MaxId
  /\ d.proc \in [DOMAIN d.proc -> Severity] /\ DOMAIN d.proc \subseteq Proc
  /\ d.finding \in [DOMAIN d.finding -> FindingRow]
  /\ DOMAIN d.finding \subseteq Key \cup Item
  /\ d.items \in [DOMAIN d.items -> [id : 1 .. MaxId, name : Name]] /\ DOMAIN d.items \subseteq Item
  /\ d.baseline \in [DOMAIN d.baseline -> [sev : Severity, why : Why]]
  /\ d.disabled \subseteq Rule /\ d.benign \subseteq Marks

\* The finding of an item is there only while the item is.
ItemsKept(d) == Item \cap DOMAIN d.finding \subseteq DOMAIN d.items

\* A run under way: its snapshot, and the rows it raised and has not written.
RunOK ==
  \/ run = Idle
  \/ /\ run.phase \in {"begun", "scanned"}
     /\ run.disabled \subseteq Rule /\ run.benign \subseteq Marks
     /\ run.phase = "scanned" =>
          /\ run.pending \in [DOMAIN run.pending -> EventRow]
          /\ DOMAIN run.pending \subseteq 1 .. MaxId
          /\ \A i \in DOMAIN run.pending : run.pending[i].why = "detection"

TypeOK == IsDatabase(db) /\ ItemsKept(db) /\ off \subseteq Rule /\ RunOK /\ crossed \in BOOLEAN

\* No override changed behind a run that is not marked as crossed.
SnapshotInv ==
  ~crossed /\ run # Idle => run.disabled = db.disabled /\ run.benign = db.benign

\* The severity a finding has in force, when it is not suppressed.
Worth(r) == IF r.stash = None THEN r.sev ELSE r.stash

\* A finding has what its detector emitted, or one rank more and its base.
IsGraded(r, e) ==
  \/ r.base = None /\ Worth(r) = e
  \/ r.base = e /\ Worth(r) = e + 1 /\ e < High

KeysGraded(d) == \A k \in Key \cap DOMAIN d.finding : IsGraded(d.finding[k], Emits[k])

GradesInv == ~crossed => KeysGraded(db)

\* The properties, of any database.
OverridesIn(d) ==
  \A f \in DOMAIN d.finding :
    IF Suppressed(d, f, d.disabled, d.benign)
    THEN d.finding[f].sev = 0 /\ d.finding[f].stash # None
    ELSE d.finding[f].stash = None

ManualOwned(d) ==
  \A i \in DOMAIN d.event : d.event[i].why = "manual" =>
    /\ i \in DOMAIN d.baseline
    /\ d.baseline[i].sev < d.event[i].sev /\ d.baseline[i].why # "manual"
    /\ \E m \in DOMAIN d.items : Level[m] = d.event[i].sev /\ MarkOf(d, m) \notin d.benign

\* What taking the lent severities back relies on.
ManualBase(d) ==
  \A i \in DOMAIN d.event : d.event[i].why = "manual" =>
    i \in DOMAIN d.baseline /\ d.baseline[i].why # "manual"

\* A severity that is said to be the parser's, now or before an item lent another, is info.
ParserInfo(d) ==
  /\ \A i \in DOMAIN d.event : d.event[i].why = "parser" => d.event[i].sev = 0
  /\ \A i \in DOMAIN d.baseline : d.baseline[i].why = "parser" => d.baseline[i].sev = 0

\* What every change of severities keeps: the evidence, and what the parser said of it.
Keeps(d, n) == Stored(n) = Stored(d) /\ (ParserInfo(d) => ParserInfo(n))

-----------------------------------------------------------------------------
(* Operators. *)

\* A bounded set of numbers has a greatest one, and 0 if it is empty.
LEMMA HighestIs ==
  ASSUME NEW n \in Nat, NEW S \in SUBSET (0 .. n)
  PROVE  /\ Highest(S) \in S \cup {0} /\ Highest(S) \in 0 .. n
         /\ \A x \in S : x <= Highest(S)
<1> DEFINE T == S \cup {0}
<1> DEFINE B == {b \in Nat : \A x \in T : x <= b}
<1>1. n \in B
  OBVIOUS
<1>2. IsWellFoundedOn(OpToRel(<, Nat), Nat)
  BY NatLessThanWellFounded
<1>3. \E b \in B : \A c \in B : ~(<<c, b>> \in OpToRel(<, Nat))
  <2>1. B \subseteq Nat /\ B # {}
    BY <1>1
  <2> HIDE DEF B
  <2> QED BY <1>2, <2>1, WFMin
<1>4. PICK b \in B : \A c \in B : ~(c < b)
  BY <1>3 DEF OpToRel
<1>5. b \in T
  <2>1. SUFFICES ASSUME b \notin T PROVE FALSE
    OBVIOUS
  <2>2. b # 0 /\ b - 1 \in Nat
    BY <2>1
  <2>3. \A x \in T : x <= b - 1
    BY <2>1, <2>2
  <2>4. b - 1 \in B
    BY <2>2, <2>3
  <2> QED BY <1>4, <2>2, <2>4
<1>6. \E x \in T : \A y \in T : x >= y
  BY <1>5
<1>7. Highest(S) \in T /\ \A y \in T : Highest(S) >= y
  BY <1>6 DEF Highest, Max
<1>8. T \subseteq 0 .. n /\ S \subseteq T
  OBVIOUS
<1> HIDE DEF T
<1>9. Highest(S) \in 0 .. n /\ \A x \in S : x <= Highest(S)
  BY <1>7, <1>8
<1> QED BY <1>7, <1>9 DEF T

\* The same of severities.
LEMMA HighestSeverity ==
  ASSUME NEW S, S \subseteq Severity
  PROVE  /\ Highest(S) \in S \cup {0} /\ Highest(S) \in Severity
         /\ \A x \in S : x <= Highest(S)
BY HighestIs DEF Severity

\* Rows written over others are there, the others are kept.
LEMMA OverIs ==
  ASSUME NEW f, NEW g
  PROVE  /\ DOMAIN Over(f, g) = DOMAIN f \cup DOMAIN g
         /\ \A x \in DOMAIN f : Over(f, g)[x] = f[x]
         /\ \A x \in DOMAIN g : x \notin DOMAIN f => Over(f, g)[x] = g[x]
         /\ Over(f, g) = [x \in DOMAIN Over(f, g) |-> Over(f, g)[x]]
BY DEF Over

\* A row is raised or stays.
LEMMA RaisedIs ==
  ASSUME NEW e \in EventRow, NEW sev \in Severity, NEW why \in Why
  PROVE  /\ Raised(e, sev, why) \in EventRow
         /\ Raised(e, sev, why).row = e.row
         /\ sev > e.sev => Raised(e, sev, why).sev = sev /\ Raised(e, sev, why).why = why
         /\ ~(sev > e.sev) => Raised(e, sev, why) = e
BY DEF Raised, EventRow

\* Another finding table leaves the rest of a database alone.
LEMMA FindingTable ==
  ASSUME NEW d, IsDatabase(d), NEW F
  PROVE  LET n == [d EXCEPT !.finding = F] IN
         /\ DOMAIN n = Fields /\ n.finding = F /\ n.event = d.event /\ n.proc = d.proc
         /\ n.items = d.items /\ n.baseline = d.baseline /\ n.disabled = d.disabled
         /\ n.benign = d.benign
BY DEF IsDatabase, Fields

\* So does another event table.
LEMMA EventTable ==
  ASSUME NEW d, IsDatabase(d), NEW E
  PROVE  LET n == [d EXCEPT !.event = E] IN
         /\ DOMAIN n = Fields /\ n.finding = d.finding /\ n.event = E /\ n.proc = d.proc
         /\ n.items = d.items /\ n.baseline = d.baseline /\ n.disabled = d.disabled
         /\ n.benign = d.benign
BY DEF IsDatabase, Fields

\* Suppression does not depend on the findings, the rows or the baselines.
LEMMA SuppressedSame ==
  ASSUME NEW d, NEW e, d.items = e.items, NEW f, NEW disabled, NEW benign
  PROVE  /\ Suppressed(d, f, disabled, benign) = Suppressed(e, f, disabled, benign)
         /\ MarkOf(d, f) = MarkOf(e, f) /\ EntityOf(d, f) = EntityOf(e, f)
BY DEF Suppressed, MarkOf, EntityOf

\* Of a detector's finding it depends on the override sets alone.
LEMMA SuppressedKey ==
  ASSUME NEW d, NEW e, NEW k \in Key, NEW disabled, NEW benign
  PROVE  /\ Suppressed(d, k, disabled, benign) = Suppressed(e, k, disabled, benign)
         /\ EntityOf(d, k) = Entity[k]
<1>1. k \notin Item
  BY DetectionConstants
<1> QED BY <1>1 DEF Suppressed, MarkOf, EntityOf

-----------------------------------------------------------------------------
(* The phases of a run. *)

\* A database with its events raised.
RaisedTo(d, to, why) ==
  [d EXCEPT !.event = [i \in DOMAIN d.event |-> Raised(d.event[i], to[i], why)]]

\* Raising events, by a detection or by a match, takes no lent severity for its own.
LEMMA RaisedEvents ==
  ASSUME NEW d, IsDatabase(d), NEW to, NEW why \in {"detection", "match"},
         \A i \in DOMAIN d.event : to[i] \in Severity
  PROVE  LET n == RaisedTo(d, to, why) IN
         /\ IsDatabase(n) /\ n.finding = d.finding /\ n.proc = d.proc /\ n.items = d.items
         /\ n.disabled = d.disabled /\ n.benign = d.benign
         /\ (ManualBase(d) => ManualBase(n)) /\ Keeps(d, n)
<1> DEFINE E == [i \in DOMAIN d.event |-> Raised(d.event[i], to[i], why)]
<1> DEFINE n == [d EXCEPT !.event = E]
<1>1. /\ DOMAIN n = Fields /\ n.finding = d.finding /\ n.event = E /\ n.proc = d.proc
      /\ n.items = d.items /\ n.baseline = d.baseline /\ n.disabled = d.disabled
      /\ n.benign = d.benign
  BY EventTable
<1>2. /\ why \in Why /\ why \notin {"manual", "parser"}
  BY DEF Why
<1>3. \A i \in DOMAIN d.event : d.event[i] \in EventRow
  BY DEF IsDatabase
<1>4. \A i \in DOMAIN d.event :
        /\ E[i] \in EventRow /\ E[i].row = d.event[i].row
        /\ E[i].why \in {"manual", "parser"} => E[i] = d.event[i]
  BY <1>2, <1>3, RaisedIs
<1>5. DOMAIN E = DOMAIN d.event /\ E \in [DOMAIN E -> EventRow]
  BY <1>4
<1> HIDE DEF E
<1>6. n = RaisedTo(d, to, why)
  BY DEF RaisedTo, E
<1> HIDE DEF n
<1>7. IsDatabase(n)
  BY <1>1, <1>5 DEF IsDatabase
<1>8. ManualBase(d) => ManualBase(n)
  BY <1>1, <1>4, <1>5 DEF ManualBase
<1>9. Stored(n) = Stored(d) /\ (ParserInfo(d) => ParserInfo(n))
  BY <1>1, <1>4, <1>5 DEF Stored, ParserInfo
<1> QED BY <1>1, <1>6, <1>7, <1>8, <1>9 DEF Keeps

\* What a set of detectors emits is a set of severities.
LEMMA EmitsSeverity ==
  ASSUME NEW S, S \subseteq Key
  PROVE  {Emits[k] : k \in S} \subseteq Severity
BY DetectionConstants DEF Severity, Low

\* Scanning the processes only raises the severities of the process table.
LEMMA ScanProcessesEffect ==
  ASSUME NEW d, IsDatabase(d), NEW o
  PROVE  LET n == ScanProcesses(d, o) IN
         /\ IsDatabase(n) /\ n.finding = d.finding /\ n.event = d.event /\ n.items = d.items
         /\ DOMAIN n.proc = DOMAIN d.proc /\ n.baseline = d.baseline
         /\ n.disabled = d.disabled /\ n.benign = d.benign
<1> DEFINE raisers(p) == {q \in Fired(d, o) \ Gated : p \in Trigger[q]}
<1> DEFINE P == [p \in DOMAIN d.proc |-> Max({d.proc[p]} \cup {Emits[k] : k \in raisers(p)})]
<1> DEFINE n == [d EXCEPT !.proc = P]
<1>1. /\ DOMAIN n = Fields /\ n.finding = d.finding /\ n.event = d.event /\ n.proc = P
      /\ n.items = d.items /\ n.baseline = d.baseline /\ n.disabled = d.disabled
      /\ n.benign = d.benign
  BY DEF IsDatabase, Fields
<1>2. ASSUME NEW p \in DOMAIN d.proc
      PROVE  P[p] \in Severity
  <2>1. raisers(p) \subseteq Key
    BY DEF Fired
  <2>2. {Emits[k] : k \in raisers(p)} \subseteq Severity
    BY <2>1, EmitsSeverity
  <2>3. d.proc[p] \in Severity
    BY DEF IsDatabase
  <2> DEFINE S == {d.proc[p]} \cup {Emits[k] : k \in raisers(p)}
  <2>4. S \subseteq Severity /\ S # {}
    BY <2>2, <2>3
  <2>5. Max(S) \in S
    <3> HIDE DEF S
    <3>1. Highest(S) \in S \cup {0} /\ \A x \in S : x <= Highest(S)
      BY <2>4, HighestSeverity
    <3>2. Highest(S) \in S
      <4>1. PICK x \in S : x \in Severity /\ x <= Highest(S)
        BY <2>4, <3>1
      <4>2. Highest(S) = 0 => x = 0
        BY <4>1 DEF Severity
      <4> QED BY <3>1, <4>1, <4>2
    <3>3. \E x \in S : \A y \in S : x >= y
      BY <2>4, <3>1, <3>2 DEF Severity
    <3> QED BY <3>3 DEF Max
  <2>6. P[p] = Max(S)
    OBVIOUS
  <2> HIDE DEF S, P
  <2> QED BY <2>4, <2>5, <2>6
<1>3. DOMAIN P = DOMAIN d.proc /\ P \in [DOMAIN P -> Severity]
  BY <1>2
<1>4. n = ScanProcesses(d, o)
  BY DEF ScanProcesses
<1> HIDE DEF P, n
<1> QED BY <1>1, <1>3, <1>4 DEF IsDatabase

\* What the detectors make of one event is a severity.
LEMMA ScannedIs ==
  ASSUME NEW d, IsDatabase(d), NEW o, NEW i \in DOMAIN d.event
  PROVE  /\ ScannedEvent(d, o, i) \in EventRow
         /\ ScannedEvent(d, o, i) # d.event[i] => ScannedEvent(d, o, i).why = "detection"
<1> DEFINE S == {q \in Fired(d, o) \ Gated : d.event[i].row \in Trigger[q]}
<1>1. S \subseteq Key
  BY DEF Fired
<1>2. {Emits[k] : k \in S} \subseteq Severity
  BY <1>1, EmitsSeverity
<1>3. Highest({Emits[k] : k \in S}) \in Severity
  BY <1>2, HighestSeverity
<1>4. d.event[i] \in EventRow /\ "detection" \in Why
  BY DEF IsDatabase, Why
<1>5. ScannedEvent(d, o, i) = Raised(d.event[i], Highest({Emits[k] : k \in S}), "detection")
  BY DEF ScannedEvent
<1> HIDE DEF S
<1> QED BY <1>3, <1>4, <1>5, RaisedIs

\* Scanning the events only touches the event table, and leaves no manual mark on a row
\* that had none: the scan gives every row it raises the reason "detection".
LEMMA ScanEventsEffect ==
  ASSUME NEW d, IsDatabase(d), NEW o
  PROVE  LET n == ScanEvents(d, o) IN
         /\ IsDatabase(n) /\ n.finding = d.finding /\ n.proc = d.proc /\ n.items = d.items
         /\ n.disabled = d.disabled /\ n.benign = d.benign
         /\ (ManualBase(d) => ManualBase(n)) /\ Keeps(d, n)
<1> DEFINE to == [i \in DOMAIN d.event |->
                    Highest({Emits[k] : k \in {q \in Fired(d, o) \ Gated : d.event[i].row \in Trigger[q]}})]
<1>1. \A i \in DOMAIN d.event : to[i] \in Severity
  <2> TAKE i \in DOMAIN d.event
  <2> DEFINE S == {q \in Fired(d, o) \ Gated : d.event[i].row \in Trigger[q]}
  <2>1. S \subseteq Key
    BY DEF Fired
  <2>2. Highest({Emits[k] : k \in S}) \in Severity
    BY <2>1, EmitsSeverity, HighestSeverity
  <2> QED BY <2>2
<1>2. ScanEvents(d, o) =
        RaisedTo(d, to, "detection")
  BY DEF RaisedTo, ScanEvents, ScannedEvent
<1> HIDE DEF to
<1>3. "detection" \in {"detection", "match"}
  OBVIOUS
<1> QED BY <1>1, <1>2, <1>3, RaisedEvents

\* Where the rows, their severities and the baselines stay, nothing is lost.
LEMMA KeepsSame ==
  ASSUME NEW d, NEW n, n.event = d.event, n.baseline = d.baseline, DOMAIN n.proc = DOMAIN d.proc
  PROVE  Keeps(d, n)
BY DEF Keeps, Stored, ParserInfo

\* The two scans together: the findings, the items and the switches are left alone.
LEMMA ScanEffect ==
  ASSUME NEW d, IsDatabase(d), NEW o
  PROVE  LET n == Scan(d, o) IN
         /\ IsDatabase(n) /\ n.finding = d.finding /\ DOMAIN n.proc = DOMAIN d.proc
         /\ n.items = d.items /\ n.disabled = d.disabled /\ n.benign = d.benign
         /\ (ManualBase(d) => ManualBase(n)) /\ Keeps(d, n)
<1> DEFINE p == ScanProcesses(d, o)
<1>1. /\ IsDatabase(p) /\ p.finding = d.finding /\ p.event = d.event /\ p.items = d.items
      /\ DOMAIN p.proc = DOMAIN d.proc /\ p.baseline = d.baseline
      /\ p.disabled = d.disabled /\ p.benign = d.benign
  BY ScanProcessesEffect
<1>2. ManualBase(d) => ManualBase(p)
  BY <1>1 DEF ManualBase
<1>3. Scan(d, o) = ScanEvents(p, o)
  BY DEF Scan
<1> HIDE DEF p
<1>4. Keeps(d, p)
  BY <1>1, KeepsSame
<1> QED BY <1>1, <1>2, <1>3, <1>4, ScanEventsEffect DEF Keeps

\* The row of a new detector finding.
LEMMA NewFinding ==
  ASSUME NEW s \in Severity
  PROVE  LET r == [sev |-> s, base |-> None, stash |-> None] IN
         /\ r \in FindingRow /\ r.sev = s /\ r.base = None /\ r.stash = None
BY DEF FindingRow, None, Severity

\* New findings come from detectors, ungraded; the known ones stay.
FindingsAdded(d, n) ==
  /\ IsDatabase(n) /\ n.event = d.event /\ n.proc = d.proc /\ n.items = d.items
  /\ n.baseline = d.baseline /\ n.disabled = d.disabled /\ n.benign = d.benign
  /\ DOMAIN d.finding \subseteq DOMAIN n.finding
  /\ \A f \in DOMAIN d.finding : n.finding[f] = d.finding[f]
  /\ \A f \in DOMAIN n.finding \ DOMAIN d.finding :
       /\ f \in Key /\ n.finding[f].sev = Emits[f]
       /\ n.finding[f].base = None /\ n.finding[f].stash = None

\* Adding the findings of some detectors is an addition in the sense above.
LEMMA AddFindingsEffect ==
  ASSUME NEW d, IsDatabase(d), NEW keys, keys \subseteq Key
  PROVE  FindingsAdded(d, AddFindings(d, keys))
<1> DEFINE new == [k \in keys |-> [sev |-> Emits[k], base |-> None, stash |-> None]]
<1> DEFINE F == Over(d.finding, new)
<1> DEFINE n == [d EXCEPT !.finding = F]
<1>1. /\ DOMAIN n = Fields /\ n.finding = F /\ n.event = d.event /\ n.proc = d.proc
      /\ n.items = d.items /\ n.baseline = d.baseline /\ n.disabled = d.disabled
      /\ n.benign = d.benign
  BY FindingTable
<1>2. \A k \in DOMAIN new : /\ k \in Key /\ new[k] \in FindingRow /\ new[k].sev = Emits[k]
                            /\ new[k].base = None /\ new[k].stash = None
  <2> TAKE k \in DOMAIN new
  <2>1. k \in Key /\ Emits[k] \in Severity
    BY DetectionConstants DEF Severity, Low
  <2>2. new[k] = [sev |-> Emits[k], base |-> None, stash |-> None]
    OBVIOUS
  <2> HIDE DEF new
  <2> QED BY <2>1, <2>2, NewFinding
<1>3. n = AddFindings(d, keys)
  BY DEF AddFindings
<1> HIDE DEF new
<1>4. /\ DOMAIN F = DOMAIN d.finding \cup DOMAIN new
      /\ \A f \in DOMAIN d.finding : F[f] = d.finding[f]
      /\ \A f \in DOMAIN new : f \notin DOMAIN d.finding => F[f] = new[f]
      /\ F = [f \in DOMAIN F |-> F[f]]
  BY OverIs
<1>5. \A f \in DOMAIN d.finding : d.finding[f] \in FindingRow
  BY DEF IsDatabase
<1> HIDE DEF F
<1>6. \A f \in DOMAIN F : F[f] \in FindingRow
  BY <1>2, <1>4, <1>5
<1>7. F \in [DOMAIN F -> FindingRow]
  BY <1>4, <1>6
<1>8. DOMAIN F \subseteq Key \cup Item
  BY <1>2, <1>4 DEF IsDatabase
<1> HIDE DEF n
<1>9. IsDatabase(n)
  BY <1>1, <1>7, <1>8 DEF IsDatabase
<1> QED BY <1>1, <1>2, <1>3, <1>4, <1>9 DEF FindingsAdded

\* Propagation along names touches the event table only.
LEMMA PropagateEffect ==
  ASSUME NEW d, IsDatabase(d)
  PROVE  LET n == Propagate(d) IN
         /\ IsDatabase(n) /\ n.finding = d.finding /\ n.proc = d.proc /\ n.items = d.items
         /\ n.disabled = d.disabled /\ n.benign = d.benign
         /\ (ManualBase(d) => ManualBase(n)) /\ Keeps(d, n)
<1> DEFINE to == [i \in DOMAIN d.event |->
                    Highest({Taint(d, x) : x \in Mentions[d.event[i].row]})]
<1>1. \A x : Taint(d, x) \in Severity
  <2> TAKE x
  <2> DEFINE S == {d.proc[p] : p \in {q \in DOMAIN d.proc : Named[q] = x}}
          \cup {d.event[i].sev : i \in {j \in DOMAIN d.event : d.event[j].why # "match" /\ Named[d.event[j].row] = x}}
  <2>1. S \subseteq Severity
    BY DEF IsDatabase, EventRow
  <2>2. Taint(d, x) = Highest(S)
    BY DEF Taint
  <2> HIDE DEF S
  <2> QED BY <2>1, <2>2, HighestSeverity
<1>2. \A i \in DOMAIN d.event : to[i] \in Severity
  <2> TAKE i \in DOMAIN d.event
  <2>1. {Taint(d, x) : x \in Mentions[d.event[i].row]} \subseteq Severity
    BY <1>1
  <2> QED BY <2>1, HighestSeverity
<1>3. Propagate(d) = RaisedTo(d, to, "match")
  BY DEF RaisedTo, Propagate
<1> HIDE DEF to
<1>4. "match" \in {"detection", "match"}
  OBVIOUS
<1> QED BY <1>2, <1>3, <1>4, RaisedEvents

\* The gated logon pass is an addition too: of detectors that have an actor beside them.
LEMMA GatedLogonsEffect ==
  ASSUME NEW d, IsDatabase(d), NEW o
  PROVE  FindingsAdded(d, GatedLogons(d, o))
<1> DEFINE keys == {k \in Fired(d, o) \cap Gated :
                      \E f \in DOMAIN d.finding \ Gated : EntityOf(d, f) = Entity[k]}
<1>1. keys \subseteq Key
  BY DEF Fired
<1>2. GatedLogons(d, o) = AddFindings(d, keys)
  BY DEF GatedLogons
<1> HIDE DEF keys
<1> QED BY <1>1, <1>2, AddFindingsEffect

\* The findings that are graded.
Active(d, disabled, benign) ==
  {f \in DOMAIN d.finding : ~Suppressed(d, f, disabled, benign) /\ Base(d.finding[f]) >= Low}

\* The base severity is a severity.
LEMMA BaseSeverity ==
  ASSUME NEW r \in FindingRow
  PROVE  Base(r) \in Severity
BY DEF Base, FindingRow, Severity, None

\* Corroboration keeps every finding and grades the active ones: at its own severity
\* without a partner or when already high, else one step above it, with the severity
\* it started from kept as base.
LEMMA CorroborateEffect ==
  ASSUME NEW d, IsDatabase(d), NEW disabled, NEW benign
  PROVE  LET n == Corroborate(d, disabled, benign)
             A == Active(d, disabled, benign)
         IN
         /\ IsDatabase(n) /\ n.event = d.event /\ n.proc = d.proc /\ n.items = d.items
         /\ n.baseline = d.baseline /\ n.disabled = d.disabled /\ n.benign = d.benign
         /\ DOMAIN n.finding = DOMAIN d.finding
         /\ \A f \in DOMAIN d.finding \ A : n.finding[f] = d.finding[f]
         /\ \A f \in A :
              /\ n.finding[f].stash = d.finding[f].stash
              /\ (Partners(d, f, A) = {} \/ Base(d.finding[f]) >= High) =>
                   n.finding[f].sev = Base(d.finding[f]) /\ n.finding[f].base = None
              /\ ~(Partners(d, f, A) = {} \/ Base(d.finding[f]) >= High) =>
                   /\ n.finding[f].sev = Base(d.finding[f]) + 1
                   /\ n.finding[f].base = Base(d.finding[f])
<1> DEFINE A == Active(d, disabled, benign)
<1> DEFINE G(f) == LET r == d.finding[f] IN
                   IF Partners(d, f, A) = {} \/ Base(r) >= High
                   THEN [r EXCEPT !.sev = Base(r), !.base = None]
                   ELSE [r EXCEPT !.sev = Base(r) + 1, !.base = Base(r)]
<1> DEFINE F == [f \in DOMAIN d.finding |-> IF f \in A THEN G(f) ELSE d.finding[f]]
<1> DEFINE n == [d EXCEPT !.finding = F]
<1>1. n = Corroborate(d, disabled, benign)
  BY DEF Corroborate, Active
<1>2. /\ DOMAIN n = Fields /\ n.finding = F /\ n.event = d.event /\ n.proc = d.proc
      /\ n.items = d.items /\ n.baseline = d.baseline /\ n.disabled = d.disabled
      /\ n.benign = d.benign
  BY FindingTable
<1>3. ASSUME NEW f \in DOMAIN d.finding
      PROVE  LET r == d.finding[f] IN
             /\ G(f) \in FindingRow /\ G(f).stash = r.stash
             /\ (Partners(d, f, A) = {} \/ Base(r) >= High) =>
                  G(f).sev = Base(r) /\ G(f).base = None
             /\ ~(Partners(d, f, A) = {} \/ Base(r) >= High) =>
                  G(f).sev = Base(r) + 1 /\ G(f).base = Base(r)
  <2> DEFINE r == d.finding[f]
  <2>1. r \in FindingRow
    BY DEF IsDatabase
  <2>2. Base(r) \in 0 .. 4
    BY <2>1, BaseSeverity DEF Severity
  <2>3. CASE Partners(d, f, A) = {} \/ Base(r) >= High
    <3>1. G(f) = [r EXCEPT !.sev = Base(r), !.base = None]
      BY <2>3
    <3> HIDE DEF G, r
    <3>2. [r EXCEPT !.sev = Base(r), !.base = None] \in FindingRow
      <4>1. Base(r) \in Severity /\ None \in -1 .. 4
        BY <2>2 DEF Severity, None
      <4> QED BY <2>1, <4>1 DEF FindingRow
    <3>3. /\ [r EXCEPT !.sev = Base(r), !.base = None].sev = Base(r)
          /\ [r EXCEPT !.sev = Base(r), !.base = None].base = None
          /\ [r EXCEPT !.sev = Base(r), !.base = None].stash = r.stash
      BY <2>1 DEF FindingRow
    <3> QED BY <2>3, <3>1, <3>2, <3>3 DEF r
  <2>4. CASE ~(Partners(d, f, A) = {} \/ Base(r) >= High)
    <3>1. G(f) = [r EXCEPT !.sev = Base(r) + 1, !.base = Base(r)]
      BY <2>4
    <3>2. Base(r) + 1 \in 0 .. 4
      BY <2>2, <2>4 DEF High
    <3> HIDE DEF G, r
    <3>3. [r EXCEPT !.sev = Base(r) + 1, !.base = Base(r)] \in FindingRow
      <4>1. Base(r) + 1 \in Severity /\ Base(r) \in -1 .. 4
        BY <2>2, <3>2 DEF Severity
      <4> QED BY <2>1, <4>1 DEF FindingRow
    <3>4. /\ [r EXCEPT !.sev = Base(r) + 1, !.base = Base(r)].sev = Base(r) + 1
          /\ [r EXCEPT !.sev = Base(r) + 1, !.base = Base(r)].base = Base(r)
          /\ [r EXCEPT !.sev = Base(r) + 1, !.base = Base(r)].stash = r.stash
      BY <2>1 DEF FindingRow
    <3> QED BY <2>4, <3>1, <3>3, <3>4 DEF r
  <2> HIDE DEF G
  <2> QED BY <2>3, <2>4
<1> HIDE DEF G, A
<1>4. /\ DOMAIN F = DOMAIN d.finding
      /\ \A f \in DOMAIN d.finding : F[f] = IF f \in A THEN G(f) ELSE d.finding[f]
      /\ F = [f \in DOMAIN F |-> F[f]]
  OBVIOUS
<1> HIDE DEF F
<1>5. \A f \in DOMAIN d.finding : d.finding[f] \in FindingRow
  BY DEF IsDatabase
<1>6. \A f \in DOMAIN F : F[f] \in FindingRow
  BY <1>3, <1>4, <1>5
<1>7. F \in [DOMAIN F -> FindingRow]
  BY <1>4, <1>6
<1> HIDE DEF n
<1>8. IsDatabase(n)
  BY <1>2, <1>4, <1>7 DEF IsDatabase
<1>9. A \subseteq DOMAIN d.finding
  BY DEF A, Active
<1>10. \A f \in DOMAIN d.finding \ A : n.finding[f] = d.finding[f]
  BY <1>2, <1>4
<1>11. \A f \in A :
         /\ n.finding[f].stash = d.finding[f].stash
         /\ (Partners(d, f, A) = {} \/ Base(d.finding[f]) >= High) =>
              n.finding[f].sev = Base(d.finding[f]) /\ n.finding[f].base = None
         /\ ~(Partners(d, f, A) = {} \/ Base(d.finding[f]) >= High) =>
              n.finding[f].sev = Base(d.finding[f]) + 1 /\ n.finding[f].base = Base(d.finding[f])
  BY <1>2, <1>3, <1>4, <1>9
<1>12. A = Active(d, disabled, benign)
  BY DEF A
<1> QED BY <1>1, <1>2, <1>4, <1>8, <1>10, <1>11, <1>12

\* After restoring the baseline no event carries a manual impact.
LEMMA RestoreEffect ==
  ASSUME NEW d, IsDatabase(d)
  PROVE  LET n == Restore(d) IN
         /\ IsDatabase(n) /\ n.finding = d.finding /\ n.proc = d.proc /\ n.items = d.items
         /\ n.disabled = d.disabled /\ n.benign = d.benign
         /\ ManualBase(d) => \A i \in DOMAIN n.event : n.event[i].why # "manual"
         /\ n.baseline = Nothing /\ Keeps(d, n)
<1> DEFINE E == [i \in DOMAIN d.event |->
                   IF i \in DOMAIN d.baseline /\ d.event[i].why = "manual"
                   THEN [d.event[i] EXCEPT !.sev = d.baseline[i].sev, !.why = d.baseline[i].why]
                   ELSE d.event[i]]
<1> DEFINE n == [d EXCEPT !.event = E, !.baseline = Nothing]
<1>1. n = Restore(d)
  BY DEF Restore
<1>2. /\ DOMAIN n = Fields /\ n.finding = d.finding /\ n.event = E /\ n.proc = d.proc
      /\ n.items = d.items /\ n.baseline = Nothing /\ n.disabled = d.disabled
      /\ n.benign = d.benign
  BY DEF IsDatabase, Fields
<1>3. ASSUME NEW i \in DOMAIN d.event
      PROVE  /\ E[i] \in EventRow /\ E[i].row = d.event[i].row
             /\ ManualBase(d) => E[i].why # "manual"
             /\ (ParserInfo(d) => (E[i].why = "parser" => E[i].sev = 0))
  <2>1. d.event[i] \in EventRow
    BY DEF IsDatabase
  <2>2. CASE i \in DOMAIN d.baseline /\ d.event[i].why = "manual"
    <3> DEFINE e == d.event[i]
    <3> DEFINE b == d.baseline[i]
    <3>1. b.sev \in Severity /\ b.why \in Why
      BY <2>2 DEF IsDatabase
    <3>2. E[i] = [e EXCEPT !.sev = b.sev, !.why = b.why]
      BY <2>2
    <3>3. ManualBase(d) => b.why # "manual"
      BY <2>2 DEF ManualBase
    <3>5. ParserInfo(d) => (b.why = "parser" => b.sev = 0)
      BY <2>2 DEF ParserInfo
    <3> HIDE DEF E, b, e
    <3>4. e \in EventRow
      BY <2>1 DEF e
    <3>6. /\ E[i] \in EventRow /\ E[i].row = e.row /\ E[i].sev = b.sev /\ E[i].why = b.why
      BY <3>1, <3>2, <3>4 DEF EventRow
    <3> QED BY <3>3, <3>5, <3>6 DEF e
  <2>3. CASE ~(i \in DOMAIN d.baseline /\ d.event[i].why = "manual")
    BY <2>1, <2>3 DEF ManualBase, ParserInfo
  <2> QED BY <2>2, <2>3
<1>4. DOMAIN E = DOMAIN d.event /\ E \in [DOMAIN E -> EventRow]
  BY <1>3
<1>5. DOMAIN Nothing = {} /\ Nothing \in [DOMAIN Nothing -> [sev : Severity, why : Why]]
  BY DEF Nothing
<1> HIDE DEF E, n
<1>6. IsDatabase(n)
  BY <1>2, <1>4, <1>5 DEF IsDatabase
<1>7. Keeps(d, n)
  BY <1>2, <1>3, <1>4, <1>5 DEF Keeps, Stored, ParserInfo
<1> QED BY <1>1, <1>2, <1>3, <1>4, <1>6, <1>7

\* Deriving the names of the manual findings keeps which findings there are.
LEMMA DerivedEffect ==
  ASSUME NEW d, IsDatabase(d)
  PROVE  LET n == Derived(d) IN
         /\ IsDatabase(n) /\ n.finding = d.finding /\ n.event = d.event /\ n.proc = d.proc
         /\ DOMAIN n.items = DOMAIN d.items /\ n.baseline = d.baseline
         /\ n.disabled = d.disabled /\ n.benign = d.benign
<1> DEFINE I == [m \in DOMAIN d.items |->
                   LET id == d.items[m].id
                   IN IF id \in DOMAIN d.event THEN [d.items[m] EXCEPT !.name = Named[d.event[id].row]]
                      ELSE d.items[m]]
<1> DEFINE n == [d EXCEPT !.items = I]
<1>1. n = Derived(d)
  BY DEF Derived
<1>2. /\ DOMAIN n = Fields /\ n.finding = d.finding /\ n.event = d.event /\ n.proc = d.proc
      /\ n.items = I /\ n.baseline = d.baseline /\ n.disabled = d.disabled
      /\ n.benign = d.benign
  BY DEF IsDatabase, Fields
<1>3. ASSUME NEW m \in DOMAIN d.items
      PROVE  I[m] \in [id : 1 .. MaxId, name : Name]
  <2> DEFINE t == d.items[m]
  <2>1. t \in [id : 1 .. MaxId, name : Name]
    BY DEF IsDatabase
  <2>2. CASE t.id \in DOMAIN d.event
    <3> DEFINE x == Named[d.event[t.id].row]
    <3>1. x \in Name
      <4>1. d.event[t.id].row \in Row
        BY <2>2 DEF IsDatabase, EventRow
      <4> QED BY <4>1, DetectionConstants
    <3>2. I[m] = [t EXCEPT !.name = x]
      BY <2>2
    <3> HIDE DEF I, t, x
    <3> QED BY <2>1, <3>1, <3>2
  <2>3. CASE t.id \notin DOMAIN d.event
    BY <2>1, <2>3
  <2> QED BY <2>2, <2>3
<1>4. DOMAIN I = DOMAIN d.items /\ I \in [DOMAIN I -> [id : 1 .. MaxId, name : Name]]
  BY <1>3
<1> HIDE DEF I, n
<1>5. IsDatabase(n)
  BY <1>2, <1>4 DEF IsDatabase
<1> QED BY <1>1, <1>2, <1>4, <1>5

\* An event is lent the severity of an item in force, or nothing.
LEMMA ImpactIs ==
  ASSUME NEW d, IsDatabase(d), NEW i
  PROVE  /\ Impact(d, i) \in Severity
         /\ Impact(d, i) > 0 => \E m \in DOMAIN d.items :
              Level[m] = Impact(d, i) /\ MarkOf(d, m) \notin d.benign
<1> DEFINE M == {q \in DOMAIN d.items :
                   /\ d.items[q].id \in DOMAIN d.event
                   /\ MarkOf(d, q) \notin d.benign
                   /\ i = d.items[q].id \/ Named[d.event[i].row] = d.items[q].name}
<1>1. \A m \in M : Level[m] \in Severity
  BY DetectionConstants DEF IsDatabase
<1>2. Impact(d, i) = Highest({Level[m] : m \in M})
  BY DEF Impact
<1>3. \A m \in M : m \in DOMAIN d.items /\ MarkOf(d, m) \notin d.benign
  OBVIOUS
<1> HIDE DEF M
<1>4. {Level[m] : m \in M} \subseteq Severity
  BY <1>1
<1>5. Impact(d, i) \in Severity /\ Impact(d, i) \in {Level[m] : m \in M} \cup {0}
  BY <1>2, <1>4, HighestSeverity
<1>6. ASSUME Impact(d, i) > 0
      PROVE  \E m \in DOMAIN d.items : Level[m] = Impact(d, i) /\ MarkOf(d, m) \notin d.benign
  <2>1. Impact(d, i) \in {Level[m] : m \in M}
    BY <1>5, <1>6
  <2> QED BY <1>3, <2>1
<1> QED BY <1>5, <1>6

\* Raising the events of a table without manual impacts leaves every impact owned:
\* its baseline is kept, and an item accounts for it.
LEMMA SyncEventsEffect ==
  ASSUME NEW c, IsDatabase(c), \A i \in DOMAIN c.event : c.event[i].why # "manual"
  PROVE  LET n == SyncEvents(c) IN
         /\ IsDatabase(n) /\ n.finding = c.finding /\ n.proc = c.proc
         /\ DOMAIN n.items = DOMAIN c.items /\ n.disabled = c.disabled /\ n.benign = c.benign
         /\ ManualOwned(n) /\ Keeps(c, n)
<1> DEFINE d == Derived(c)
<1>0. /\ IsDatabase(d) /\ d.finding = c.finding /\ d.event = c.event /\ d.proc = c.proc
      /\ DOMAIN d.items = DOMAIN c.items /\ d.disabled = c.disabled /\ d.benign = c.benign
  BY DerivedEffect
<1> DEFINE hit == {i \in DOMAIN d.event : Impact(d, i) > d.event[i].sev}
<1> DEFINE E == [i \in DOMAIN d.event |-> Raised(d.event[i], Impact(d, i), "manual")]
<1> DEFINE B == [i \in hit |-> [sev |-> d.event[i].sev, why |-> d.event[i].why]]
<1> DEFINE n == [d EXCEPT !.event = E, !.baseline = B]
<1>1. n = SyncEvents(c)
  BY DEF SyncEvents
<1> HIDE DEF d
<1>2. /\ DOMAIN n = Fields /\ n.finding = d.finding /\ n.event = E /\ n.proc = d.proc
      /\ n.items = d.items /\ n.baseline = B /\ n.disabled = d.disabled
      /\ n.benign = d.benign
  BY <1>0 DEF IsDatabase, Fields
<1>3. ASSUME NEW i \in DOMAIN d.event
      PROVE  /\ E[i] \in EventRow /\ E[i].row = d.event[i].row
             /\ E[i].why = "manual" => i \in hit /\ E[i].sev = Impact(d, i)
             /\ E[i].why = "parser" => E[i] = d.event[i]
  <2>1. d.event[i] \in EventRow /\ d.event[i].why # "manual"
    BY <1>0 DEF IsDatabase
  <2>2. "manual" \in Why /\ Impact(d, i) \in Severity
    BY <1>0, ImpactIs DEF Why
  <2>3. E[i] = Raised(d.event[i], Impact(d, i), "manual")
    OBVIOUS
  <2> HIDE DEF E
  <2> QED BY <2>1, <2>2, <2>3, RaisedIs
<1>4. ASSUME NEW i \in hit
      PROVE  /\ B[i] \in [sev : Severity, why : Why]
             /\ B[i].sev = d.event[i].sev /\ B[i].why = d.event[i].why /\ B[i].why # "manual"
  <2>1. d.event[i] \in EventRow /\ d.event[i].why # "manual"
    BY <1>0 DEF IsDatabase
  <2> QED BY <2>1 DEF EventRow
<1>5. /\ DOMAIN E = DOMAIN d.event /\ E \in [DOMAIN E -> EventRow]
      /\ DOMAIN B = hit /\ B \in [DOMAIN B -> [sev : Severity, why : Why]]
  BY <1>3, <1>4
<1>h. \A i \in hit : i \in DOMAIN d.event /\ Impact(d, i) > d.event[i].sev
  OBVIOUS
<1> HIDE DEF E, B, n, hit
<1>6. IsDatabase(n)
  BY <1>0, <1>2, <1>5 DEF IsDatabase
<1>7. \A m : MarkOf(n, m) = MarkOf(d, m)
  BY <1>2, SuppressedSame
<1>8. ASSUME NEW i \in DOMAIN n.event, n.event[i].why = "manual"
      PROVE  /\ i \in DOMAIN n.baseline
             /\ n.baseline[i].sev < n.event[i].sev /\ n.baseline[i].why # "manual"
             /\ \E m \in DOMAIN n.items : Level[m] = n.event[i].sev /\ MarkOf(n, m) \notin n.benign
  <2>1. i \in hit /\ n.event[i].sev = Impact(d, i) /\ i \in DOMAIN d.event
    BY <1>2, <1>3, <1>5, <1>8
  <2>2. n.baseline[i].sev = d.event[i].sev /\ n.baseline[i].why # "manual" /\ i \in DOMAIN n.baseline
    BY <1>2, <1>4, <1>5, <2>1
  <2>3. d.event[i].sev \in 0 .. 4 /\ Impact(d, i) \in 0 .. 4 /\ Impact(d, i) > d.event[i].sev
    <3>1. d.event[i].sev \in Severity
      BY <1>0, <2>1 DEF IsDatabase, EventRow
    <3> QED BY <1>0, <1>h, <2>1, <3>1, ImpactIs DEF Severity
  <2>4. Impact(d, i) > 0
    BY <2>3
  <2>5. \E m \in DOMAIN d.items : Level[m] = Impact(d, i) /\ MarkOf(d, m) \notin d.benign
    BY <1>0, <2>4, ImpactIs
  <2>6. n.baseline[i].sev < n.event[i].sev
    BY <2>1, <2>2, <2>3
  <2>7. \E m \in DOMAIN n.items : Level[m] = n.event[i].sev /\ MarkOf(n, m) \notin n.benign
    BY <1>2, <1>7, <2>1, <2>5
  <2> QED BY <2>2, <2>6, <2>7
<1>9. ManualOwned(n)
  BY <1>8 DEF ManualOwned
<1>10. Keeps(c, n)
  BY <1>0, <1>2, <1>3, <1>4, <1>5, <1>h DEF Keeps, Stored, ParserInfo
<1> QED BY <1>0, <1>1, <1>2, <1>6, <1>9, <1>10

\* The manual findings written again: the detectors' findings stay.
LEMMA ApplyManualEffect ==
  ASSUME NEW d, IsDatabase(d), ManualBase(d)
  PROVE  LET n == ApplyManual(d) IN
         /\ IsDatabase(n) /\ n.proc = d.proc /\ n.disabled = d.disabled /\ n.benign = d.benign
         /\ ManualOwned(n) /\ ItemsKept(n) /\ Keeps(d, n)
         /\ \A k \in Key : /\ k \in DOMAIN n.finding <=> k \in DOMAIN d.finding
                           /\ k \in DOMAIN d.finding => n.finding[k] = d.finding[k]
<1> DEFINE c == Restore(d)
<1>1. /\ IsDatabase(c) /\ c.finding = d.finding /\ c.proc = d.proc /\ c.items = d.items
      /\ c.disabled = d.disabled /\ c.benign = d.benign
      /\ (\A i \in DOMAIN c.event : c.event[i].why # "manual") /\ Keeps(d, c)
  BY RestoreEffect
<1> DEFINE s == SyncEvents(c)
<1> HIDE DEF c
<1>2. /\ IsDatabase(s) /\ s.finding = d.finding /\ s.proc = d.proc
      /\ DOMAIN s.items = DOMAIN d.items /\ s.disabled = d.disabled /\ s.benign = d.benign
      /\ ManualOwned(s) /\ Keeps(c, s)
  BY <1>1, SyncEventsEffect
<1> DEFINE M == [m \in DOMAIN s.items |-> [sev |-> Level[m], base |-> None, stash |-> None]]
<1> DEFINE R == Restrict(s.finding, DOMAIN s.finding \ Item)
<1> DEFINE F == Over(M, R)
<1> DEFINE n == [s EXCEPT !.finding = F]
<1>3. n = ApplyManual(d)
  BY DEF ApplyManual, c
<1> HIDE DEF s
<1>4. /\ DOMAIN n = Fields /\ n.finding = F /\ n.event = s.event /\ n.proc = s.proc
      /\ n.items = s.items /\ n.baseline = s.baseline /\ n.disabled = s.disabled
      /\ n.benign = s.benign
  BY <1>2, FindingTable
<1>5. DOMAIN s.items \subseteq Item
  BY <1>2 DEF IsDatabase
<1>6. \A m \in DOMAIN M : M[m] \in FindingRow
  <2> TAKE m \in DOMAIN M
  <2>1. Level[m] \in Severity
    BY <1>5, DetectionConstants
  <2>2. M[m] = [sev |-> Level[m], base |-> None, stash |-> None]
    OBVIOUS
  <2> HIDE DEF M
  <2> QED BY <2>1, <2>2, NewFinding
<1>7. DOMAIN M = DOMAIN s.items
  OBVIOUS
<1>8. /\ DOMAIN R = DOMAIN s.finding \ Item
      /\ \A f \in DOMAIN R : R[f] = s.finding[f] /\ R[f] \in FindingRow
  BY <1>2 DEF Restrict, IsDatabase
<1> HIDE DEF M, R
<1>9. /\ DOMAIN F = DOMAIN M \cup DOMAIN R
      /\ \A f \in DOMAIN M : F[f] = M[f]
      /\ \A f \in DOMAIN R : f \notin DOMAIN M => F[f] = R[f]
      /\ F = [f \in DOMAIN F |-> F[f]]
  BY OverIs
<1> HIDE DEF F
<1>10. \A f \in DOMAIN F : F[f] \in FindingRow
  BY <1>6, <1>8, <1>9
<1>11. F \in [DOMAIN F -> FindingRow]
  BY <1>9, <1>10
<1>12. DOMAIN F \subseteq Key \cup Item /\ Item \cap DOMAIN F \subseteq DOMAIN s.items
  <2>1. DOMAIN s.finding \subseteq Key \cup Item
    BY <1>2 DEF IsDatabase
  <2> QED BY <1>5, <1>7, <1>8, <1>9, <2>1
<1> HIDE DEF n
<1>13. IsDatabase(n)
  BY <1>2, <1>4, <1>11, <1>12 DEF IsDatabase
<1>14. ManualOwned(n)
  <2>1. \A m : MarkOf(n, m) = MarkOf(s, m)
    BY <1>4, SuppressedSame
  <2> QED BY <1>2, <1>4, <2>1 DEF ManualOwned
<1>15. ASSUME NEW k \in Key
       PROVE  /\ k \in DOMAIN n.finding <=> k \in DOMAIN d.finding
              /\ k \in DOMAIN d.finding => n.finding[k] = d.finding[k]
  <2>1. k \notin Item
    BY DetectionConstants
  <2> QED BY <1>2, <1>4, <1>5, <1>7, <1>8, <1>9, <2>1
<1>16. ItemsKept(n)
  BY <1>4, <1>12 DEF ItemsKept
<1>17. Keeps(d, n)
  <2>1. Keeps(s, n)
    BY <1>4, KeepsSame
  <2> QED BY <1>1, <1>2, <2>1 DEF Keeps
<1> QED BY <1>2, <1>3, <1>4, <1>13, <1>14, <1>15, <1>16, <1>17

\* Applying the overrides makes them hold, and keeps what each finding is worth.
LEMMA ApplyOverridesEffect ==
  ASSUME NEW d, IsDatabase(d)
  PROVE  LET n == ApplyOverrides(d) IN
         /\ IsDatabase(n) /\ n.event = d.event /\ n.proc = d.proc /\ n.items = d.items
         /\ n.baseline = d.baseline /\ n.disabled = d.disabled /\ n.benign = d.benign
         /\ OverridesIn(n)
         /\ DOMAIN n.finding = DOMAIN d.finding
         /\ \A f \in DOMAIN d.finding :
              /\ n.finding[f].base = d.finding[f].base
              /\ Worth(n.finding[f]) = Worth(d.finding[f])
<1> DEFINE S(f) == Suppressed(d, f, d.disabled, d.benign)
<1> DEFINE O(f) == LET r == d.finding[f] IN
        IF S(f) THEN [r EXCEPT !.sev = 0, !.stash = IF @ = None THEN r.sev ELSE @]
        ELSE IF r.stash # None THEN [r EXCEPT !.sev = r.stash, !.stash = None] ELSE r
<1> DEFINE F == [f \in DOMAIN d.finding |-> O(f)]
<1> DEFINE n == [d EXCEPT !.finding = F]
<1>1. n = ApplyOverrides(d)
  BY DEF ApplyOverrides
<1>2. /\ DOMAIN n = Fields /\ n.finding = F /\ n.event = d.event /\ n.proc = d.proc
      /\ n.items = d.items /\ n.baseline = d.baseline /\ n.disabled = d.disabled
      /\ n.benign = d.benign
  BY FindingTable
<1>3. ASSUME NEW f \in DOMAIN d.finding
      PROVE  /\ O(f) \in FindingRow /\ O(f).base = d.finding[f].base
             /\ Worth(O(f)) = Worth(d.finding[f])
             /\ S(f) => O(f).sev = 0 /\ O(f).stash # None
             /\ ~S(f) => O(f).stash = None
  <2> DEFINE r == d.finding[f]
  <2>1. r \in FindingRow
    BY DEF IsDatabase
  <2>2. r.sev \in 0 .. 4 /\ r.base \in -1 .. 4 /\ r.stash \in -1 .. 4
    BY <2>1 DEF FindingRow, Severity
  <2>3. CASE S(f)
    <3> DEFINE t == IF r.stash = None THEN r.sev ELSE r.stash
    <3>1. O(f) = [r EXCEPT !.sev = 0, !.stash = t]
      BY <2>3
    <3>2. t \in 0 .. 4
      BY <2>2 DEF None
    <3>3. t = Worth(r)
      BY DEF Worth
    <3> HIDE DEF t, O, r, S
    <3>4. O(f) \in FindingRow /\ O(f).sev = 0 /\ O(f).stash = t /\ O(f).base = r.base
      <4>1. 0 \in Severity /\ t \in -1 .. 4
        BY <3>2 DEF Severity
      <4> QED BY <2>1, <3>1, <4>1 DEF FindingRow
    <3>5. t # None
      BY <3>2 DEF None
    <3>6. Worth(O(f)) = t
      BY <3>4, <3>5 DEF Worth
    <3> QED BY <2>3, <3>3, <3>4, <3>5, <3>6 DEF r
  <2>4. CASE ~S(f) /\ r.stash # None
    <3>1. O(f) = [r EXCEPT !.sev = r.stash, !.stash = None]
      BY <2>4
    <3>2. r.stash \in 0 .. 4
      BY <2>2, <2>4 DEF None
    <3>3. Worth(r) = r.stash /\ ~S(f)
      BY <2>4 DEF Worth
    <3> HIDE DEF O, r, S
    <3>4. O(f) \in FindingRow /\ O(f).sev = r.stash /\ O(f).stash = None /\ O(f).base = r.base
      <4>1. r.stash \in Severity /\ None \in -1 .. 4
        BY <3>2 DEF Severity, None
      <4> QED BY <2>1, <3>1, <4>1 DEF FindingRow
    <3>5. Worth(O(f)) = r.stash
      BY <3>4 DEF Worth
    <3> QED BY <3>3, <3>4, <3>5 DEF r
  <2>5. CASE ~S(f) /\ r.stash = None
    BY <2>1, <2>5
  <2> QED BY <2>3, <2>4, <2>5
<1> HIDE DEF O
<1>4. /\ DOMAIN F = DOMAIN d.finding /\ \A f \in DOMAIN d.finding : F[f] = O(f)
      /\ F \in [DOMAIN F -> FindingRow]
  BY <1>3
<1> HIDE DEF F, n
<1>5. IsDatabase(n)
  BY <1>2, <1>4 DEF IsDatabase
<1>6. \A f : Suppressed(n, f, n.disabled, n.benign) = S(f)
  BY <1>2, SuppressedSame
<1>7. OverridesIn(n)
  <2> HIDE DEF S
  <2> QED BY <1>2, <1>3, <1>4, <1>6 DEF OverridesIn
<1> QED BY <1>1, <1>2, <1>3, <1>4, <1>5, <1>7

-----------------------------------------------------------------------------
(* Whole runs. *)

\* Owned impacts have their baseline.
LEMMA OwnedIsBase == ASSUME NEW d, ManualOwned(d) PROVE ManualBase(d)
BY DEF ManualOwned, ManualBase

\* The overrides and the items depend on the tables a scan leaves alone.
LEMMA OverridesSame ==
  ASSUME NEW d, NEW n, n.finding = d.finding, n.items = d.items,
         n.disabled = d.disabled, n.benign = d.benign
  PROVE  /\ OverridesIn(d) => OverridesIn(n)
         /\ ItemsKept(d) => ItemsKept(n)
         /\ KeysGraded(d) => KeysGraded(n)
<1>1. \A f : Suppressed(n, f, n.disabled, n.benign) = Suppressed(d, f, d.disabled, d.benign)
  BY SuppressedSame
<1> QED BY <1>1 DEF OverridesIn, ItemsKept, KeysGraded

\* The reset of a rebuild: no finding is left, and no manual impact without a baseline.
LEMMA ResetEffect ==
  ASSUME NEW d, IsDatabase(d), ManualBase(d)
  PROVE  LET n == Reset(d) IN
         /\ IsDatabase(n) /\ n.finding = Nothing /\ n.proc = d.proc /\ n.items = d.items
         /\ n.disabled = d.disabled /\ n.benign = d.benign /\ ManualBase(n)
<1> DEFINE r == Restore(d)
<1>1. /\ IsDatabase(r) /\ r.proc = d.proc /\ r.items = d.items
      /\ r.disabled = d.disabled /\ r.benign = d.benign
      /\ \A i \in DOMAIN r.event : r.event[i].why # "manual"
  BY RestoreEffect
<1> DEFINE E == [i \in DOMAIN r.event |->
                   IF r.event[i].why \in {"detection", "match"}
                   THEN [r.event[i] EXCEPT !.sev = 0, !.why = "parser"] ELSE r.event[i]]
<1> DEFINE n == [r EXCEPT !.finding = Nothing, !.event = E]
<1>2. n = Reset(d)
  BY DEF Reset
<1> HIDE DEF r
<1>3. /\ DOMAIN n = Fields /\ n.finding = Nothing /\ n.event = E /\ n.proc = r.proc
      /\ n.items = r.items /\ n.baseline = r.baseline /\ n.disabled = r.disabled
      /\ n.benign = r.benign
  BY <1>1 DEF IsDatabase, Fields
<1>4. ASSUME NEW i \in DOMAIN r.event
      PROVE  E[i] \in EventRow /\ E[i].why # "manual"
  <2> DEFINE e == r.event[i]
  <2>1. e \in EventRow /\ e.why # "manual"
    BY <1>1 DEF IsDatabase
  <2>2. CASE e.why \in {"detection", "match"}
    <3>1. E[i] = [e EXCEPT !.sev = 0, !.why = "parser"]
      BY <2>2
    <3>2. 0 \in Severity /\ "parser" \in Why
      BY DEF Severity, Why
    <3> HIDE DEF e, E
    <3> QED BY <2>1, <3>1, <3>2 DEF EventRow
  <2>3. CASE e.why \notin {"detection", "match"}
    BY <2>1, <2>3
  <2> QED BY <2>2, <2>3
<1>5. DOMAIN E = DOMAIN r.event /\ E \in [DOMAIN E -> EventRow]
  BY <1>4
<1>6. Nothing \in [DOMAIN Nothing -> FindingRow] /\ DOMAIN Nothing = {}
  BY DEF Nothing
<1> HIDE DEF E, n
<1>7. IsDatabase(n)
  BY <1>1, <1>3, <1>5, <1>6 DEF IsDatabase
<1>8. ManualBase(n)
  BY <1>3, <1>4, <1>5 DEF ManualBase
<1> QED BY <1>1, <1>2, <1>3, <1>7, <1>8

\* The end of every run and rebuild: the overrides hold, the lent severities are owned.
LEMMA ConcludeEffect ==
  ASSUME NEW d, IsDatabase(d), ManualBase(d), NEW o, NEW disabled, NEW benign
  PROVE  LET n == Conclude(d, o, disabled, benign) IN
         /\ IsDatabase(n) /\ OverridesIn(n) /\ ManualOwned(n) /\ ItemsKept(n)
         /\ n.disabled = d.disabled /\ n.benign = d.benign
         /\ n.proc = d.proc /\ Keeps(d, n)
<1> DEFINE d1 == AddFindings(d, Fired(d, o) \ Gated)
<1>1. FindingsAdded(d, d1)
  <2>1. Fired(d, o) \ Gated \subseteq Key
    BY DEF Fired
  <2> QED BY <2>1, AddFindingsEffect
<1> DEFINE d2 == GatedLogons(d1, o)
<1> HIDE DEF d1
<1>2. FindingsAdded(d1, d2)
  BY <1>1, GatedLogonsEffect DEF FindingsAdded
<1> DEFINE d3 == Propagate(d2)
<1> HIDE DEF d2
<1>3. /\ IsDatabase(d3) /\ ManualBase(d3) /\ d3.disabled = d.disabled /\ d3.benign = d.benign
      /\ d3.proc = d.proc /\ Keeps(d, d3)
  <2>1. IsDatabase(d2) /\ d2.disabled = d.disabled /\ d2.benign = d.benign
    BY <1>1, <1>2 DEF FindingsAdded
  <2>2. ManualBase(d2)
    BY <1>1, <1>2 DEF FindingsAdded, ManualBase
  <2>3. d2.proc = d.proc /\ Keeps(d, d2)
    BY <1>1, <1>2, KeepsSame DEF FindingsAdded
  <2> QED BY <2>1, <2>2, <2>3, PropagateEffect DEF Keeps
<1> DEFINE d4 == Corroborate(d3, disabled, benign)
<1> HIDE DEF d3
<1>4. /\ IsDatabase(d4) /\ d4.disabled = d.disabled /\ d4.benign = d.benign
      /\ d4.event = d3.event /\ d4.baseline = d3.baseline /\ d4.proc = d.proc
  BY <1>3, CorroborateEffect
<1>5. ManualBase(d4)
  BY <1>3, <1>4 DEF ManualBase
<1>10. Keeps(d, d4)
  <2>1. Keeps(d3, d4)
    BY <1>3, <1>4, KeepsSame
  <2> QED BY <1>3, <2>1 DEF Keeps
<1> DEFINE d5 == ApplyManual(d4)
<1> HIDE DEF d4
<1>6. /\ IsDatabase(d5) /\ ManualOwned(d5) /\ ItemsKept(d5)
      /\ d5.disabled = d.disabled /\ d5.benign = d.benign
      /\ d5.proc = d.proc /\ Keeps(d4, d5)
  BY <1>4, <1>5, ApplyManualEffect
<1> DEFINE d6 == ApplyOverrides(d5)
<1> HIDE DEF d5
<1>7. /\ IsDatabase(d6) /\ OverridesIn(d6) /\ d6.event = d5.event /\ d6.items = d5.items
      /\ d6.baseline = d5.baseline /\ d6.disabled = d.disabled /\ d6.benign = d.benign
      /\ d6.benign = d5.benign /\ DOMAIN d6.finding = DOMAIN d5.finding
      /\ d6.proc = d5.proc
  BY <1>6, ApplyOverridesEffect
<1> HIDE DEF d6
<1>8. ManualOwned(d6) /\ ItemsKept(d6)
  <2>1. \A m : MarkOf(d6, m) = MarkOf(d5, m)
    BY <1>7, SuppressedSame
  <2> QED BY <1>6, <1>7, <2>1 DEF ManualOwned, ItemsKept
<1>9. Conclude(d, o, disabled, benign) = d6
  BY DEF Conclude, d1, d2, d3, d4, d5, d6
<1>11. d6.proc = d.proc /\ Keeps(d, d6)
  <2>1. Keeps(d5, d6)
    BY <1>7, KeepsSame
  <2> QED BY <1>6, <1>7, <1>10, <2>1 DEF Keeps
<1> QED BY <1>7, <1>8, <1>9, <1>11

\* An ungraded or raised finding in force starts again from what its detector emitted.
LEMMA GradedBase ==
  ASSUME NEW r \in FindingRow, NEW k \in Key, IsGraded(r, Emits[k]), r.stash = None
  PROVE  Base(r) = Emits[k] /\ Emits[k] \in 1 .. 4
BY DetectionConstants DEF IsGraded, Worth, Base, FindingRow, Low, None

\* Manual findings and overrides change no grade of a detector's finding.
LEMMA ManualKeepsGrades ==
  ASSUME NEW d, IsDatabase(d), ManualBase(d), KeysGraded(d)
  PROVE  KeysGraded(ApplyManual(d))
BY ApplyManualEffect DEF KeysGraded

\* Applying the overrides keeps the findings graded.
LEMMA OverridesKeepGrades ==
  ASSUME NEW d, IsDatabase(d), KeysGraded(d)
  PROVE  KeysGraded(ApplyOverrides(d))
BY ApplyOverridesEffect DEF KeysGraded, IsGraded

\* Finding f lends a rank to the finding of detector k.
Lending(d, f, k) ==
  /\ ~Suppressed(d, f, d.disabled, d.benign) /\ RuleOf[f] # RuleOf[k]
  /\ Related(d, EntityOf(d, f), Entity[k])

\* The grades of n, a database as the run leaves it that found d.
GradedFrom(d, n) ==
  \A k \in Key \cap DOMAIN n.finding :
    LET detector == \E f \in Key \cap DOMAIN n.finding : Lending(n, f, k)
        item == \E f \in Item \cap DOMAIN d.finding : Lending(d, f, k)
    IN ~Suppressed(n, k, n.disabled, n.benign) =>
         \/ n.finding[k].sev = Emits[k] /\ (Emits[k] >= High \/ ~detector)
         \/ n.finding[k].sev = Emits[k] + 1 /\ Emits[k] < High /\ (detector \/ item)

\* The passes after the scan grade every finding of a detector: the heart of RunGrades.
\* Each pass is followed in turn (added, gated, corroborated, manual, overrides).
LEMMA ConcludeGrades ==
  ASSUME NEW d, IsDatabase(d), ManualBase(d), OverridesIn(d), KeysGraded(d), NEW o
  PROVE  LET n == Conclude(d, o, d.disabled, d.benign) IN
         KeysGraded(n) /\ GradedFrom(d, n)
<1> DEFINE S(f) == Suppressed(d, f, d.disabled, d.benign)
<1> DEFINE d1 == AddFindings(d, Fired(d, o) \ Gated)
<1>1. FindingsAdded(d, d1)
  <2>1. Fired(d, o) \ Gated \subseteq Key
    BY DEF Fired
  <2> QED BY <2>1, AddFindingsEffect
<1> DEFINE d2 == GatedLogons(d1, o)
<1> HIDE DEF d1
<1>2. FindingsAdded(d1, d2)
  BY <1>1, GatedLogonsEffect DEF FindingsAdded
<1> DEFINE d3 == Propagate(d2)
<1> HIDE DEF d2
<1>3. IsDatabase(d2) /\ ManualBase(d2)
  BY <1>1, <1>2 DEF FindingsAdded, ManualBase
<1>4. /\ IsDatabase(d3) /\ ManualBase(d3) /\ d3.disabled = d.disabled /\ d3.benign = d.benign
      /\ d3.items = d.items /\ d3.proc = d.proc /\ d3.finding = d2.finding
  BY <1>1, <1>2, <1>3, PropagateEffect DEF FindingsAdded
<1>5. /\ DOMAIN d.finding \subseteq DOMAIN d3.finding
      /\ \A f \in DOMAIN d.finding : d3.finding[f] = d.finding[f]
      /\ \A f \in DOMAIN d3.finding \ DOMAIN d.finding :
           /\ f \in Key /\ d3.finding[f].sev = Emits[f]
           /\ d3.finding[f].base = None /\ d3.finding[f].stash = None
  BY <1>1, <1>2, <1>4 DEF FindingsAdded
<1>6. \A f \in DOMAIN d3.finding : ~S(f) => d3.finding[f].stash = None
  BY <1>5 DEF OverridesIn
<1>7. \A k \in Key \cap DOMAIN d3.finding : IsGraded(d3.finding[k], Emits[k])
  BY <1>5 DEF KeysGraded, IsGraded, Worth
<1>8. \A f : Suppressed(d3, f, d.disabled, d.benign) = S(f) /\ EntityOf(d3, f) = EntityOf(d, f)
  BY <1>4, SuppressedSame
<1> DEFINE A == Active(d3, d.disabled, d.benign)
<1> DEFINE d4 == Corroborate(d3, d.disabled, d.benign)
<1> HIDE DEF d3, S
<1>9. ASSUME NEW k \in Key \cap DOMAIN d3.finding, ~S(k)
      PROVE  /\ Base(d3.finding[k]) = Emits[k] /\ Emits[k] \in 1 .. 4
             /\ k \in A /\ d3.finding[k].stash = None
  <2>1. d3.finding[k] \in FindingRow /\ d3.finding[k].stash = None
    BY <1>4, <1>6, <1>9 DEF IsDatabase
  <2>2. Base(d3.finding[k]) = Emits[k] /\ Emits[k] \in 1 .. 4
    BY <1>7, <2>1, GradedBase
  <2> QED BY <1>8, <1>9, <2>1, <2>2 DEF Active, Low
<1>10. \A f \in A : f \in DOMAIN d3.finding /\ ~S(f)
  BY <1>8 DEF Active
<1>11. /\ IsDatabase(d4) /\ d4.event = d3.event /\ d4.proc = d3.proc /\ d4.items = d3.items
       /\ d4.baseline = d3.baseline /\ d4.disabled = d3.disabled /\ d4.benign = d3.benign
       /\ DOMAIN d4.finding = DOMAIN d3.finding
       /\ \A f \in DOMAIN d3.finding \ A : d4.finding[f] = d3.finding[f]
       /\ \A f \in A :
            /\ d4.finding[f].stash = d3.finding[f].stash
            /\ (Partners(d3, f, A) = {} \/ Base(d3.finding[f]) >= High) =>
                 d4.finding[f].sev = Base(d3.finding[f]) /\ d4.finding[f].base = None
            /\ ~(Partners(d3, f, A) = {} \/ Base(d3.finding[f]) >= High) =>
                 /\ d4.finding[f].sev = Base(d3.finding[f]) + 1
                 /\ d4.finding[f].base = Base(d3.finding[f])
  BY <1>4, CorroborateEffect
<1> HIDE DEF A, d4
<1>12. ASSUME NEW k \in Key \cap DOMAIN d3.finding, ~S(k)
       PROVE  /\ d4.finding[k].stash = None
              /\ \/ /\ Partners(d3, k, A) = {} \/ Emits[k] >= High
                    /\ d4.finding[k].sev = Emits[k] /\ d4.finding[k].base = None
                 \/ /\ Partners(d3, k, A) # {} /\ Emits[k] < High
                    /\ d4.finding[k].sev = Emits[k] + 1 /\ d4.finding[k].base = Emits[k]
  <2>1. /\ Base(d3.finding[k]) = Emits[k] /\ Emits[k] \in 1 .. 4
        /\ k \in A /\ d3.finding[k].stash = None
    BY <1>9, <1>12
  <2> QED BY <1>11, <2>1 DEF High
<1>13. KeysGraded(d4)
  <2>1. SUFFICES ASSUME NEW k \in Key \cap DOMAIN d3.finding
                 PROVE  IsGraded(d4.finding[k], Emits[k])
    BY <1>11 DEF KeysGraded
  <2>2. CASE S(k)
    BY <1>7, <1>10, <1>11, <2>2
  <2>3. CASE ~S(k)
    BY <1>12, <2>3 DEF IsGraded, Worth
  <2> QED BY <2>2, <2>3
<1>14. ManualBase(d4)
  BY <1>4, <1>11 DEF ManualBase
<1> DEFINE d5 == ApplyManual(d4)
<1>15. /\ IsDatabase(d5) /\ d5.proc = d4.proc /\ d5.disabled = d4.disabled /\ d5.benign = d4.benign
       /\ KeysGraded(d5)
       /\ \A k \in Key : /\ k \in DOMAIN d5.finding <=> k \in DOMAIN d4.finding
                         /\ k \in DOMAIN d4.finding => d5.finding[k] = d4.finding[k]
  BY <1>11, <1>13, <1>14, ApplyManualEffect, ManualKeepsGrades
<1> DEFINE d6 == ApplyOverrides(d5)
<1> HIDE DEF d5
<1>16. /\ IsDatabase(d6) /\ KeysGraded(d6) /\ OverridesIn(d6)
       /\ d6.proc = d5.proc /\ d6.disabled = d5.disabled /\ d6.benign = d5.benign
       /\ DOMAIN d6.finding = DOMAIN d5.finding
       /\ \A f \in DOMAIN d5.finding : Worth(d6.finding[f]) = Worth(d5.finding[f])
  BY <1>15, ApplyOverridesEffect, OverridesKeepGrades
<1> HIDE DEF d6
<1>17. /\ d6.disabled = d.disabled /\ d6.benign = d.benign /\ d6.proc = d.proc
       /\ \A k \in Key : k \in DOMAIN d6.finding <=> k \in DOMAIN d3.finding
  BY <1>4, <1>11, <1>15, <1>16
<1>18. \A k \in Key : /\ Suppressed(d6, k, d6.disabled, d6.benign) = S(k)
                      /\ EntityOf(d6, k) = Entity[k] /\ EntityOf(d3, k) = Entity[k]
                      /\ EntityOf(d, k) = Entity[k]
  BY <1>17, SuppressedKey DEF S
<1>19. \A m, x : /\ Related(d6, m, x) = Related(d, m, x)
                 /\ Related(d3, m, x) = Related(d, m, x)
  BY <1>4, <1>17 DEF Related
<1>20. ASSUME NEW k \in Key \cap DOMAIN d6.finding,
              ~Suppressed(d6, k, d6.disabled, d6.benign)
       PROVE  LET detector == \E f \in Key \cap DOMAIN d6.finding : Lending(d6, f, k)
                  item == \E f \in Item \cap DOMAIN d.finding : Lending(d, f, k)
              IN \/ d6.finding[k].sev = Emits[k] /\ (Emits[k] >= High \/ ~detector)
                 \/ d6.finding[k].sev = Emits[k] + 1 /\ Emits[k] < High /\ (detector \/ item)
  <2> DEFINE detector == \E f \in Key \cap DOMAIN d6.finding : Lending(d6, f, k)
  <2> DEFINE item == \E f \in Item \cap DOMAIN d.finding : Lending(d, f, k)
  <2>1. k \in Key \cap DOMAIN d3.finding /\ ~S(k)
    BY <1>17, <1>18, <1>20
  <2>2. d6.finding[k].sev = d4.finding[k].sev
    <3>1. d6.finding[k].stash = None
      BY <1>16, <1>20 DEF OverridesIn
    <3>2. d6.finding[k].sev = Worth(d6.finding[k])
      BY <3>1 DEF Worth
    <3>3. Worth(d6.finding[k]) = Worth(d4.finding[k])
      BY <1>11, <1>15, <1>16, <2>1
    <3>4. Worth(d4.finding[k]) = d4.finding[k].sev
      BY <1>12, <2>1 DEF Worth
    <3> QED BY <3>2, <3>3, <3>4
  <2>3. ASSUME NEW f \in Key \cap DOMAIN d6.finding, Lending(d6, f, k)
        PROVE  f \in Partners(d3, k, A)
    <3>1. /\ ~S(f) /\ RuleOf[f] # RuleOf[k] /\ Related(d3, EntityOf(d3, f), EntityOf(d3, k))
      BY <1>18, <1>19, <2>3 DEF Lending
    <3>2. f \in A
      BY <1>9, <1>17, <3>1
    <3> QED BY <3>1, <3>2 DEF Partners
  <2>4. ASSUME NEW g \in Partners(d3, k, A)
        PROVE  detector \/ item
    <3>1. /\ g \in DOMAIN d3.finding /\ ~S(g) /\ RuleOf[g] # RuleOf[k]
          /\ Related(d, EntityOf(d, g), Entity[k])
      BY <1>8, <1>10, <1>18, <1>19 DEF Partners
    <3>2. CASE g \in Key
      <4>1. Lending(d6, g, k) /\ g \in Key \cap DOMAIN d6.finding
        BY <1>17, <1>18, <1>19, <3>1, <3>2 DEF Lending
      <4> QED BY <4>1
    <3>3. CASE g \notin Key
      <4>1. g \in Item \cap DOMAIN d.finding
        BY <1>4, <1>5, <3>1, <3>3 DEF IsDatabase
      <4>2. Lending(d, g, k)
        BY <3>1 DEF Lending, S
      <4> QED BY <4>1, <4>2
    <3> QED BY <3>2, <3>3
  <2>5. CASE /\ Partners(d3, k, A) = {} \/ Emits[k] >= High
             /\ d4.finding[k].sev = Emits[k] /\ d4.finding[k].base = None
    BY <2>2, <2>3, <2>5
  <2>6. CASE /\ Partners(d3, k, A) # {} /\ Emits[k] < High
             /\ d4.finding[k].sev = Emits[k] + 1 /\ d4.finding[k].base = Emits[k]
    BY <2>2, <2>4, <2>6
  <2> HIDE DEF detector, item
  <2>7. \/ d6.finding[k].sev = Emits[k] /\ (Emits[k] >= High \/ ~detector)
        \/ d6.finding[k].sev = Emits[k] + 1 /\ Emits[k] < High /\ (detector \/ item)
    BY <1>12, <2>1, <2>5, <2>6 DEF detector, item
  <2> QED BY <2>7 DEF detector, item
<1>21. GradedFrom(d, d6)
  BY <1>20 DEF GradedFrom
<1>22. Conclude(d, o, d.disabled, d.benign) = d6
  BY DEF Conclude, d1, d2, d3, d4, d5, d6
<1> QED BY <1>16, <1>21, <1>22

-----------------------------------------------------------------------------
(* Steps. *)

\* What holds of the database after every commit.
DatabaseInv(d) == IsDatabase(d) /\ ItemsKept(d) /\ OverridesIn(d) /\ ManualOwned(d)

Inv ==
  /\ DatabaseInv(db) /\ off \subseteq Rule /\ RunOK /\ crossed \in BOOLEAN
  /\ SnapshotInv /\ GradesInv

\* The empty database satisfies the invariant.
LEMMA InitInv == Init => Inv
<1> SUFFICES ASSUME Init PROVE Inv
  OBVIOUS
<1>1. /\ DOMAIN db = Fields
      /\ db.event = Nothing /\ db.proc = Nothing /\ db.finding = Nothing /\ db.items = Nothing
      /\ db.baseline = Nothing /\ db.disabled = {} /\ db.benign = {}
      /\ off = {} /\ run = Idle /\ crossed = FALSE
  BY DEF Init, Fields
<1>2. DOMAIN Nothing = {} /\ \A T : Nothing \in [{} -> T]
  BY DEF Nothing
<1>3. IsDatabase(db)
  BY <1>1, <1>2 DEF IsDatabase
<1>4. ItemsKept(db) /\ OverridesIn(db) /\ ManualOwned(db) /\ KeysGraded(db)
  BY <1>1, <1>2 DEF ItemsKept, OverridesIn, ManualOwned, KeysGraded
<1> QED BY <1>1, <1>3, <1>4 DEF Inv, DatabaseInv, RunOK, SnapshotInv, GradesInv

\* A database without findings satisfies everything that is said about them.
LEMMA NoFindings ==
  ASSUME NEW d, d.finding = Nothing
  PROVE  OverridesIn(d) /\ ItemsKept(d) /\ KeysGraded(d)
BY DEF OverridesIn, ItemsKept, KeysGraded, Nothing

\* What a change of the overlays leaves of the evidence and of its processes.
Remembers == db'.proc = db.proc /\ Keeps(db, db')

\* A rebuild: reset, scan and conclude in one transaction.
LEMMA RebuildStep ==
  ASSUME Inv, Rebuild
  PROVE  Inv'
<1> DEFINE r == Reset(db)
<1>1. /\ IsDatabase(r) /\ r.finding = Nothing /\ r.items = db.items
      /\ r.disabled = db.disabled /\ r.benign = db.benign /\ ManualBase(r)
  BY ResetEffect, OwnedIsBase DEF Inv, DatabaseInv
<1> DEFINE s == Scan(r, off)
<1> HIDE DEF r
<1>2. /\ IsDatabase(s) /\ s.finding = Nothing
      /\ s.disabled = db.disabled /\ s.benign = db.benign /\ ManualBase(s)
  BY <1>1, ScanEffect
<1> HIDE DEF s
<1>3. OverridesIn(s) /\ KeysGraded(s)
  BY <1>2, NoFindings
<1> DEFINE n == Conclude(s, off, db.disabled, db.benign)
<1>4. DatabaseInv(n)
  BY <1>2, ConcludeEffect DEF DatabaseInv
<1>5. KeysGraded(n)
  BY <1>2, <1>3, ConcludeGrades
<1>6. db' = n /\ run = Idle /\ run' = Idle /\ off' = off /\ crossed' = FALSE
  BY DEF Rebuild, Rebuilt, r, s
<1> HIDE DEF n
<1> QED BY <1>4, <1>5, <1>6 DEF Inv, RunOK, SnapshotInv, GradesInv

\* The snapshot of a run that begins is the override sets as they are.
LEMMA BeginRunStep ==
  ASSUME Inv, BeginRun
  PROVE  Inv'
<1>1. /\ run'.phase = "begun" /\ run'.disabled = db.disabled /\ run'.benign = db.benign
      /\ db' = db /\ off' = off /\ crossed' = crossed
  BY DEF BeginRun
<1>2. db.disabled \subseteq Rule /\ db.benign \subseteq Marks
  BY DEF Inv, DatabaseInv, IsDatabase
<1>3. RunOK'
  BY <1>1, <1>2 DEF RunOK
<1> QED BY <1>1, <1>3 DEF Inv, SnapshotInv, GradesInv

\* The scan outside the write gate: what it will write is well formed.
LEMMA ScanUngatedStep ==
  ASSUME Inv, ScanUngated
  PROVE  Inv'
<1> DEFINE hit == {i \in DOMAIN db.event : ScannedEvent(db, off, i) # db.event[i]}
<1> DEFINE P == Restrict(ScanEvents(db, off).event, hit)
<1>1. /\ run'.phase = "scanned" /\ run'.disabled = run.disabled /\ run'.benign = run.benign
      /\ run'.pending = P
      /\ db' = db /\ off' = off /\ crossed' = crossed /\ run.phase = "begun"
  BY DEF ScanUngated
<1>2. run # Idle
  BY <1>1 DEF Idle
<1>3. ScanEvents(db, off).event = [i \in DOMAIN db.event |-> ScannedEvent(db, off, i)]
  BY DEF ScanEvents, Inv, DatabaseInv, IsDatabase, Fields
<1>4. P = [i \in hit |-> ScannedEvent(db, off, i)]
  BY <1>3 DEF Restrict
<1>5. \A i \in hit : i \in DOMAIN db.event /\ ScannedEvent(db, off, i) # db.event[i]
  OBVIOUS
<1> HIDE DEF hit, P
<1>6. \A i \in hit : /\ P[i] \in EventRow /\ P[i].why = "detection"
  BY <1>4, <1>5, ScannedIs DEF Inv, DatabaseInv
<1>7. DOMAIN P = hit /\ P \in [DOMAIN P -> EventRow]
  BY <1>4, <1>6
<1>8. hit \subseteq 1 .. MaxId
  BY <1>5 DEF Inv, DatabaseInv, IsDatabase
<1>9. run.disabled \subseteq Rule /\ run.benign \subseteq Marks
  BY <1>2 DEF Inv, RunOK
<1>10. RunOK'
  BY <1>1, <1>6, <1>7, <1>8, <1>9 DEF RunOK
<1> QED BY <1>1, <1>2, <1>10 DEF Inv, SnapshotInv, GradesInv

\* What a plain run concludes on: the database with its events raised, now or before.
ConcludesOn(d) ==
  /\ db' = Conclude(d, off, run.disabled, run.benign)
  /\ IsDatabase(d) /\ ManualBase(d) /\ d.finding = db.finding /\ d.items = db.items
  /\ d.disabled = db.disabled /\ d.benign = db.benign /\ DOMAIN d.proc = DOMAIN db.proc
  /\ ParserInfo(db) => ParserInfo(d)
  /\ d = Scan(db, off) \/ run.phase = "scanned"

LEMMA RunBase ==
  ASSUME Inv, FinishRun
  PROVE  \E d : ConcludesOn(d)
<1>0. /\ run' = Idle /\ off' = off /\ crossed' = crossed /\ run # Idle
      /\ DatabaseInv(db) /\ ManualBase(db) /\ RunOK /\ off \subseteq Rule /\ crossed \in BOOLEAN
  BY OwnedIsBase DEF FinishRun, Idle, Inv, DatabaseInv
<1>1. CASE run.phase = "begun" /\ db' = Conclude(Scan(db, off), off, run.disabled, run.benign)
  <2> DEFINE d == Scan(db, off)
  <2>1. /\ IsDatabase(d) /\ ManualBase(d) /\ d.finding = db.finding /\ d.items = db.items
        /\ d.disabled = db.disabled /\ d.benign = db.benign /\ DOMAIN d.proc = DOMAIN db.proc
        /\ ParserInfo(db) => ParserInfo(d)
    BY <1>0, ScanEffect DEF DatabaseInv, Keeps
  <2>2. d = Scan(db, off) /\ db' = Conclude(d, off, run.disabled, run.benign)
    BY <1>1
  <2> HIDE DEF d
  <2>3. ConcludesOn(d)
    BY <2>1, <2>2 DEF ConcludesOn
  <2> QED BY <2>3
<1>2. CASE /\ run.phase = "scanned"
           /\ db' = Conclude([db EXCEPT !.event = Over(run.pending, @)], off, run.disabled, run.benign)
  <2> DEFINE E == Over(run.pending, db.event)
  <2> DEFINE d == [db EXCEPT !.event = E]
  <2>1. /\ run.pending \in [DOMAIN run.pending -> EventRow]
        /\ DOMAIN run.pending \subseteq 1 .. MaxId
        /\ \A i \in DOMAIN run.pending : run.pending[i].why = "detection"
    BY <1>0, <1>2 DEF RunOK
  <2>2. /\ DOMAIN E = DOMAIN run.pending \cup DOMAIN db.event
        /\ \A x \in DOMAIN run.pending : E[x] = run.pending[x]
        /\ \A x \in DOMAIN db.event : x \notin DOMAIN run.pending => E[x] = db.event[x]
        /\ E = [x \in DOMAIN E |-> E[x]]
    BY OverIs
  <2>3. /\ DOMAIN d = Fields /\ d.finding = db.finding /\ d.event = E /\ d.proc = db.proc
        /\ d.items = db.items /\ d.baseline = db.baseline /\ d.disabled = db.disabled
        /\ d.benign = db.benign
    BY <1>0, EventTable DEF DatabaseInv
  <2>4. db' = Conclude(d, off, run.disabled, run.benign)
    BY <1>2
  <2> HIDE DEF E, d
  <2>5. \A x \in DOMAIN db.event : db.event[x] \in EventRow
    BY <1>0 DEF DatabaseInv, IsDatabase
  <2>6. \A x \in DOMAIN E : E[x] \in EventRow
    BY <2>1, <2>2, <2>5
  <2>7. E \in [DOMAIN E -> EventRow] /\ DOMAIN E \subseteq 1 .. MaxId
    BY <1>0, <2>1, <2>2, <2>6 DEF DatabaseInv, IsDatabase
  <2>8. IsDatabase(d)
    BY <1>0, <2>3, <2>7 DEF DatabaseInv, IsDatabase
  <2>9. ManualBase(d)
    BY <1>0, <2>1, <2>2, <2>3 DEF ManualBase
  <2>10. ParserInfo(db) => ParserInfo(d)
    BY <2>1, <2>2, <2>3 DEF ParserInfo
  <2>11. ConcludesOn(d)
    BY <1>2, <2>3, <2>4, <2>8, <2>9, <2>10 DEF ConcludesOn
  <2> QED BY <2>11
<1> QED BY <1>1, <1>2 DEF FinishRun

\* A plain run.
LEMMA FinishRunStep ==
  ASSUME Inv, FinishRun
  PROVE  Inv' /\ (~crossed => GradedFrom(db, db'))
<1>0. /\ run' = Idle /\ off' = off /\ crossed' = crossed /\ run # Idle
      /\ DatabaseInv(db) /\ ManualBase(db) /\ RunOK /\ off \subseteq Rule /\ crossed \in BOOLEAN
  BY OwnedIsBase DEF FinishRun, Idle, Inv, DatabaseInv
<1>2. PICK d : /\ db' = Conclude(d, off, run.disabled, run.benign)
               /\ IsDatabase(d) /\ ManualBase(d) /\ d.finding = db.finding /\ d.items = db.items
               /\ d.disabled = db.disabled /\ d.benign = db.benign /\ DOMAIN d.proc = DOMAIN db.proc
  BY RunBase DEF ConcludesOn
<1> DEFINE n == Conclude(d, off, run.disabled, run.benign)
<1>3. DatabaseInv(n)
  BY <1>2, ConcludeEffect DEF DatabaseInv
<1>4. ASSUME ~crossed
      PROVE  KeysGraded(n) /\ GradedFrom(db, n)
  <2>1. run.disabled = d.disabled /\ run.benign = d.benign /\ KeysGraded(db)
    BY <1>0, <1>2, <1>4 DEF Inv, SnapshotInv, GradesInv
  <2>2. OverridesIn(d) /\ KeysGraded(d)
    BY <1>0, <1>2, <2>1, OverridesSame DEF DatabaseInv
  <2>3. KeysGraded(n) /\ GradedFrom(d, n)
    BY <1>2, <2>1, <2>2, ConcludeGrades
  <2>4. \A f, k : Lending(d, f, k) = Lending(db, f, k)
    <3>1. \A f : /\ Suppressed(d, f, d.disabled, d.benign) = Suppressed(db, f, db.disabled, db.benign)
                 /\ EntityOf(d, f) = EntityOf(db, f)
      BY <1>2, SuppressedSame
    <3>2. \A m, x : Related(d, m, x) = Related(db, m, x)
      BY <1>2 DEF Related
    <3> QED BY <3>1, <3>2 DEF Lending
  <2> HIDE DEF n
  <2>5. GradedFrom(db, n)
    BY <1>2, <2>3, <2>4 DEF GradedFrom
  <2> QED BY <2>3, <2>5
<1>5. db' = n
  BY <1>2
<1> HIDE DEF n
<1> QED BY <1>0, <1>3, <1>4, <1>5 DEF Inv, RunOK, SnapshotInv, GradesInv

\* A transaction that ends with the overrides, and perhaps the manual findings.
LEMMA Overridden ==
  ASSUME NEW d, IsDatabase(d), ManualOwned(d), ItemsKept(d)
  PROVE  /\ DatabaseInv(ApplyOverrides(d))
         /\ ApplyOverrides(d).disabled = d.disabled /\ ApplyOverrides(d).benign = d.benign
         /\ ApplyOverrides(d).proc = d.proc /\ Keeps(d, ApplyOverrides(d))
         /\ KeysGraded(d) => KeysGraded(ApplyOverrides(d))
<1> DEFINE n == ApplyOverrides(d)
<1>1. /\ IsDatabase(n) /\ n.event = d.event /\ n.items = d.items /\ n.baseline = d.baseline
      /\ n.proc = d.proc
      /\ n.disabled = d.disabled /\ n.benign = d.benign /\ OverridesIn(n)
      /\ DOMAIN n.finding = DOMAIN d.finding
  BY ApplyOverridesEffect
<1>2. KeysGraded(d) => KeysGraded(n)
  BY OverridesKeepGrades
<1> HIDE DEF n
<1>3. ManualOwned(n) /\ ItemsKept(n)
  <2>1. \A m : MarkOf(n, m) = MarkOf(d, m)
    BY <1>1, SuppressedSame
  <2> QED BY <1>1, <2>1 DEF ManualOwned, ItemsKept
<1>4. DatabaseInv(n) /\ n.disabled = d.disabled /\ n.benign = d.benign
  BY <1>1, <1>3 DEF DatabaseInv
<1>5. n.proc = d.proc /\ Keeps(d, n)
  BY <1>1, KeepsSame
<1> QED BY <1>2, <1>4, <1>5 DEF n

LEMMA ManualOverridden ==
  ASSUME NEW d, IsDatabase(d), ManualBase(d)
  PROVE  LET n == ApplyOverrides(ApplyManual(d)) IN
         /\ DatabaseInv(n) /\ n.disabled = d.disabled /\ n.benign = d.benign
         /\ n.proc = d.proc /\ Keeps(d, n)
         /\ KeysGraded(d) => KeysGraded(n)
<1> DEFINE m == ApplyManual(d)
<1>1. /\ IsDatabase(m) /\ ManualOwned(m) /\ ItemsKept(m) /\ m.proc = d.proc /\ Keeps(d, m)
      /\ m.disabled = d.disabled /\ m.benign = d.benign
      /\ KeysGraded(d) => KeysGraded(m)
  BY ApplyManualEffect, ManualKeepsGrades
<1> HIDE DEF m
<1> DEFINE n == ApplyOverrides(m)
<1>2. /\ DatabaseInv(n) /\ n.disabled = m.disabled /\ n.benign = m.benign
      /\ n.proc = m.proc /\ Keeps(m, n) /\ (KeysGraded(m) => KeysGraded(n))
  BY <1>1, Overridden
<1> HIDE DEF n
<1>3. /\ DatabaseInv(n) /\ n.disabled = d.disabled /\ n.benign = d.benign
      /\ n.proc = d.proc /\ Keeps(d, n) /\ (KeysGraded(d) => KeysGraded(n))
  BY <1>1, <1>2 DEF Keeps
<1> QED BY <1>3 DEF n, m

\* One benign mark more or less.
LEMMA BenignTable ==
  ASSUME NEW B
  PROVE  LET d == [db EXCEPT !.benign = B] IN
         IsDatabase(db) =>
           /\ DOMAIN d = Fields /\ d.finding = db.finding /\ d.event = db.event /\ d.proc = db.proc
           /\ d.items = db.items /\ d.baseline = db.baseline /\ d.disabled = db.disabled
           /\ d.benign = B
BY DEF IsDatabase, Fields

\* Marking a finding benign, or taking the mark back.
LEMMA BenignStep ==
  ASSUME Inv, NEW f, NEW benign \in BOOLEAN, set_finding_benign(f, benign)
  PROVE  Inv' /\ Remembers
<1> DEFINE B == Toggle(db.benign, MarkOf(db, f), benign)
<1> DEFINE d == [db EXCEPT !.benign = B]
<1>0. /\ DatabaseInv(db) /\ f \in DOMAIN db.finding
      /\ db' = ApplyOverrides(IF f \in Item THEN ApplyManual(d) ELSE d)
      /\ crossed' = (crossed \/ run # Idle) /\ off' = off /\ run' = run
  BY DEF Inv, set_finding_benign
<1>1. /\ DOMAIN d = Fields /\ d.finding = db.finding /\ d.event = db.event /\ d.proc = db.proc
      /\ d.items = db.items /\ d.baseline = db.baseline /\ d.disabled = db.disabled
      /\ d.benign = B
  BY <1>0, BenignTable DEF DatabaseInv
<1>2. MarkOf(db, f) \in Marks
  <2>1. f \in Key \cup Item
    BY <1>0 DEF DatabaseInv, IsDatabase
  <2>2. CASE f \in Item
    <3>1. f \in DOMAIN db.items
      BY <1>0, <2>2 DEF DatabaseInv, ItemsKept
    <3>2. db.items[f].name \in Name
      BY <1>0, <3>1 DEF DatabaseInv, IsDatabase
    <3> QED BY <2>2, <3>2 DEF MarkOf, EntityOf, Marks
  <2>3. CASE f \notin Item
    BY <2>1, <2>3, DetectionConstants DEF MarkOf, EntityOf, Marks
  <2> QED BY <2>2, <2>3
<1>3. B \subseteq Marks
  BY <1>0, <1>2 DEF Toggle, DatabaseInv, IsDatabase
<1>4. \A m : MarkOf(d, m) = MarkOf(db, m)
  BY <1>1, SuppressedSame
<1>5. \A mark : mark # MarkOf(db, f) => (mark \in B <=> mark \in db.benign)
  BY DEF Toggle
<1> HIDE DEF B, d
<1>6. IsDatabase(d)
  BY <1>0, <1>1, <1>3 DEF DatabaseInv, IsDatabase
<1>7. ManualBase(d) /\ ItemsKept(d) /\ (KeysGraded(db) => KeysGraded(d))
  BY <1>0, <1>1, OwnedIsBase DEF DatabaseInv, ManualBase, ItemsKept, KeysGraded
<1>8. DatabaseInv(db') /\ (KeysGraded(db) => KeysGraded(db')) /\ db'.proc = d.proc /\ Keeps(d, db')
  <2>1. CASE f \in Item
    <3>1. db' = ApplyOverrides(ApplyManual(d))
      BY <1>0, <2>1
    <3> QED BY <1>6, <1>7, <3>1, ManualOverridden
  <2>2. CASE f \notin Item
    <3>1. \A m \in Item : MarkOf(db, m) # MarkOf(db, f)
      BY <2>2 DEF MarkOf
    <3>2. DOMAIN db.items \subseteq Item
      BY <1>0 DEF DatabaseInv, IsDatabase
    <3>3. ManualOwned(d)
      BY <1>0, <1>1, <1>4, <1>5, <3>1, <3>2 DEF DatabaseInv, ManualOwned
    <3>4. db' = ApplyOverrides(d)
      BY <1>0, <2>2
    <3> QED BY <1>6, <1>7, <3>3, <3>4, Overridden
  <2> QED BY <2>1, <2>2
<1>9. RunOK'
  BY <1>0 DEF Inv, RunOK
<1>10. Remembers
  <2>1. Keeps(db, d)
    BY <1>1, KeepsSame
  <2> QED BY <1>1, <1>8, <2>1 DEF Remembers, Keeps
<1> QED BY <1>0, <1>8, <1>9, <1>10 DEF Inv, SnapshotInv, GradesInv

\* Switching a rule off or on for a case.
LEMMA DisabledStep ==
  ASSUME Inv, NEW r \in Switched, NEW disabled \in BOOLEAN, set_rule_disabled(r, disabled)
  PROVE  Inv' /\ Remembers
<1> DEFINE D == Toggle(db.disabled, r, disabled)
<1> DEFINE d == [db EXCEPT !.disabled = D]
<1>0. /\ DatabaseInv(db) /\ db' = ApplyOverrides(d)
      /\ crossed' = (crossed \/ run # Idle) /\ off' = off /\ run' = run
  BY DEF Inv, set_rule_disabled
<1>1. /\ DOMAIN d = Fields /\ d.finding = db.finding /\ d.event = db.event /\ d.proc = db.proc
      /\ d.items = db.items /\ d.baseline = db.baseline /\ d.disabled = D
      /\ d.benign = db.benign
  BY <1>0 DEF DatabaseInv, IsDatabase, Fields
<1>2. D \subseteq Rule
  BY <1>0, DetectionConstants DEF Toggle, DatabaseInv, IsDatabase
<1>3. \A m : MarkOf(d, m) = MarkOf(db, m)
  BY <1>1, SuppressedSame
<1> HIDE DEF D, d
<1>4. IsDatabase(d)
  BY <1>0, <1>1, <1>2 DEF DatabaseInv, IsDatabase
<1>5. ManualOwned(d) /\ ItemsKept(d) /\ (KeysGraded(db) => KeysGraded(d))
  BY <1>0, <1>1, <1>3 DEF DatabaseInv, ManualOwned, ItemsKept, KeysGraded
<1>6. DatabaseInv(db') /\ (KeysGraded(db) => KeysGraded(db')) /\ db'.proc = d.proc /\ Keeps(d, db')
  BY <1>0, <1>4, <1>5, Overridden
<1>7. RunOK'
  BY <1>0 DEF Inv, RunOK
<1>8. Remembers
  <2>1. Keeps(db, d)
    BY <1>1, KeepsSame
  <2> QED BY <1>1, <1>6, <2>1 DEF Remembers, Keeps
<1> QED BY <1>0, <1>6, <1>7, <1>8 DEF Inv, SnapshotInv, GradesInv

\* Items come and go: what they lend is given and taken anew.
LEMMA ItemsStep ==
  ASSUME Inv, NEW I, I \in [DOMAIN I -> [id : 1 .. MaxId, name : Name]], DOMAIN I \subseteq Item,
         db' = ApplyOverrides(ApplyManual([db EXCEPT !.items = I])),
         UNCHANGED <<off, run, crossed>>
  PROVE  Inv' /\ Remembers
<1> DEFINE d == [db EXCEPT !.items = I]
<1>0. DatabaseInv(db) /\ db' = ApplyOverrides(ApplyManual(d))
  BY DEF Inv
<1>1. /\ DOMAIN d = Fields /\ d.finding = db.finding /\ d.event = db.event /\ d.proc = db.proc
      /\ d.items = I /\ d.baseline = db.baseline /\ d.disabled = db.disabled
      /\ d.benign = db.benign
  BY <1>0 DEF DatabaseInv, IsDatabase, Fields
<1> HIDE DEF d
<1>2. IsDatabase(d)
  BY <1>0, <1>1 DEF DatabaseInv, IsDatabase
<1>3. ManualBase(d) /\ (KeysGraded(db) => KeysGraded(d))
  BY <1>0, <1>1, OwnedIsBase DEF DatabaseInv, ManualBase, KeysGraded
<1>4. /\ DatabaseInv(db') /\ db'.disabled = db.disabled /\ db'.benign = db.benign
      /\ db'.proc = d.proc /\ Keeps(d, db') /\ (KeysGraded(db) => KeysGraded(db'))
  BY <1>0, <1>1, <1>2, <1>3, ManualOverridden
<1>5. RunOK'
  BY DEF Inv, RunOK
<1>6. Remembers
  <2>1. Keeps(db, d)
    BY <1>1, KeepsSame
  <2> QED BY <1>1, <1>4, <2>1 DEF Remembers, Keeps
<1> QED BY <1>4, <1>5, <1>6 DEF Inv, SnapshotInv, GradesInv

\* Adding a manual finding.
LEMMA AddManualStep ==
  ASSUME Inv, NEW m \in Item, NEW i \in 1 .. MaxId, add_manual_finding(m, i)
  PROVE  Inv' /\ Remembers
<1> DEFINE new == [x \in {m} |-> [id |-> i, name |-> Named[db.event[i].row]]]
<1> DEFINE I == Over(new, db.items)
<1>1. /\ i \in DOMAIN db.event /\ UNCHANGED <<off, run, crossed>>
      /\ db' = ApplyOverrides(ApplyManual([db EXCEPT !.items = I]))
  BY DEF add_manual_finding
<1>2. db.event[i].row \in Row
  BY <1>1 DEF Inv, DatabaseInv, IsDatabase, EventRow
<1>3. Named[db.event[i].row] \in Name
  BY <1>2, DetectionConstants
<1>4. DOMAIN new = {m} /\ new[m] \in [id : 1 .. MaxId, name : Name]
  BY <1>3
<1> HIDE DEF new
<1>5. /\ DOMAIN I = DOMAIN new \cup DOMAIN db.items
      /\ \A x \in DOMAIN new : I[x] = new[x]
      /\ \A x \in DOMAIN db.items : x \notin DOMAIN new => I[x] = db.items[x]
      /\ I = [x \in DOMAIN I |-> I[x]]
  BY OverIs
<1>6. /\ DOMAIN db.items \subseteq Item
      /\ \A x \in DOMAIN db.items : db.items[x] \in [id : 1 .. MaxId, name : Name]
  BY DEF Inv, DatabaseInv, IsDatabase
<1> HIDE DEF I
<1>7. \A x \in DOMAIN I : I[x] \in [id : 1 .. MaxId, name : Name]
  BY <1>4, <1>5, <1>6
<1>8. I \in [DOMAIN I -> [id : 1 .. MaxId, name : Name]] /\ DOMAIN I \subseteq Item
  BY <1>4, <1>5, <1>6, <1>7
<1> QED BY <1>1, <1>8, ItemsStep

\* Deleting a manual finding.
LEMMA DeleteManualStep ==
  ASSUME Inv, NEW m \in Item, delete_manual_finding(m)
  PROVE  Inv' /\ Remembers
<1> DEFINE I == Restrict(db.items, DOMAIN db.items \ {m})
<1>1. /\ UNCHANGED <<off, run, crossed>>
      /\ db' = ApplyOverrides(ApplyManual([db EXCEPT !.items = I]))
  BY DEF delete_manual_finding
<1>2. I \in [DOMAIN I -> [id : 1 .. MaxId, name : Name]] /\ DOMAIN I \subseteq Item
  BY DEF Inv, DatabaseInv, IsDatabase, Restrict
<1> HIDE DEF I
<1> QED BY <1>1, <1>2, ItemsStep

\* New rows take nothing away: an id that is free, a process that is not stored.
LEMMA IngestStep ==
  ASSUME Inv, NEW r \in Row, Ingest(r)
  PROVE  Inv'
<1> DEFINE i == 1 + Highest(DOMAIN db.event)
<1>0. /\ DatabaseInv(db) /\ run' = run /\ off' = off /\ crossed' = crossed
  BY DEF Inv, Ingest
<1>1. ASSUME NEW d, db' = d, IsDatabase(d), ManualOwned(d), d.finding = db.finding,
             d.items = db.items, d.disabled = db.disabled, d.benign = db.benign
      PROVE  Inv'
  <2>1. DatabaseInv(d) /\ (KeysGraded(db) => KeysGraded(d))
    BY <1>0, <1>1, OverridesSame DEF DatabaseInv
  <2> QED BY <1>0, <1>1, <2>1 DEF Inv, RunOK, SnapshotInv, GradesInv
<1>2. /\ i <= MaxId
      /\ db' = [db EXCEPT !.event = Over([x \in {i} |-> [row |-> r, sev |-> Parsed[r], why |-> "parser"]], @)]
  BY DEF Ingest
<1> DEFINE new == [x \in {i} |-> [row |-> r, sev |-> Parsed[r], why |-> "parser"]]
<1> DEFINE E == Over(new, db.event)
<1> DEFINE d == [db EXCEPT !.event = E]
<1>3. db' = d
  BY <1>2
<1>4. /\ DOMAIN d = Fields /\ d.finding = db.finding /\ d.event = E /\ d.proc = db.proc
      /\ d.items = db.items /\ d.baseline = db.baseline /\ d.disabled = db.disabled
      /\ d.benign = db.benign
  BY <1>0, EventTable DEF DatabaseInv
<1>5. i \in 1 .. MaxId
  <2>1. DOMAIN db.event \subseteq 0 .. MaxId /\ MaxId \in Nat
    BY <1>0, DetectionConstants DEF DatabaseInv, IsDatabase
  <2>2. Highest(DOMAIN db.event) \in 0 .. MaxId
    BY <2>1, HighestIs
  <2> QED BY <1>2, <2>2
<1>6. DOMAIN new = {i} /\ new[i] \in EventRow /\ new[i].why = "parser"
  <2>1. Parsed[r] \in Severity /\ "parser" \in Why
    BY <1>2, DetectionConstants DEF Why
  <2> HIDE DEF i
  <2> QED BY <1>2, <2>1 DEF EventRow
<1> HIDE DEF new, i
<1>7. /\ DOMAIN E = DOMAIN new \cup DOMAIN db.event
      /\ \A x \in DOMAIN new : E[x] = new[x]
      /\ \A x \in DOMAIN db.event : x \notin DOMAIN new => E[x] = db.event[x]
      /\ E = [x \in DOMAIN E |-> E[x]]
  BY OverIs
<1>8. /\ DOMAIN db.event \subseteq 1 .. MaxId
      /\ \A x \in DOMAIN db.event : db.event[x] \in EventRow
  BY <1>0 DEF DatabaseInv, IsDatabase
<1> HIDE DEF E, d
<1>9. \A x \in DOMAIN E : E[x] \in EventRow
  BY <1>6, <1>7, <1>8
<1>10. E \in [DOMAIN E -> EventRow] /\ DOMAIN E \subseteq 1 .. MaxId
  BY <1>5, <1>6, <1>7, <1>8, <1>9
<1>11. IsDatabase(d)
  BY <1>0, <1>4, <1>10 DEF DatabaseInv, IsDatabase
<1>12. ManualOwned(d)
  <2>1. \A x \in DOMAIN E : E[x].why = "manual" => x \in DOMAIN db.event /\ E[x] = db.event[x]
    BY <1>6, <1>7
  <2>2. \A m : MarkOf(d, m) = MarkOf(db, m)
    BY <1>4, SuppressedSame
  <2> QED BY <1>0, <1>4, <2>1, <2>2 DEF DatabaseInv, ManualOwned
<1> QED BY <1>1, <1>3, <1>4, <1>11, <1>12

\* Processes that are not stored are added as the parser left them.
LEMMA IngestProcessesStep ==
  ASSUME Inv, NEW S \in Listing, IngestProcesses(S)
  PROVE  Inv'
<1>0. /\ DatabaseInv(db) /\ run' = run /\ off' = off /\ crossed' = crossed
  BY DEF Inv, IngestProcesses
<1>1. ASSUME NEW d, db' = d, IsDatabase(d), ManualOwned(d), d.finding = db.finding,
             d.items = db.items, d.disabled = db.disabled, d.benign = db.benign
      PROVE  Inv'
  <2>1. DatabaseInv(d) /\ (KeysGraded(db) => KeysGraded(d))
    BY <1>0, <1>1, OverridesSame DEF DatabaseInv
  <2> QED BY <1>0, <1>1, <2>1 DEF Inv, RunOK, SnapshotInv, GradesInv
<1>2. /\ S \subseteq Proc
      /\ db' = [db EXCEPT !.proc = Over([x \in S |-> 0], @)]
  BY DetectionConstants DEF IngestProcesses
<1> DEFINE new == [x \in S |-> 0]
<1> DEFINE P == Over(new, db.proc)
<1> DEFINE d == [db EXCEPT !.proc = P]
<1>3. db' = d
  BY <1>2
<1>4. /\ DOMAIN d = Fields /\ d.finding = db.finding /\ d.event = db.event /\ d.proc = P
      /\ d.items = db.items /\ d.baseline = db.baseline /\ d.disabled = db.disabled
      /\ d.benign = db.benign
  BY <1>0 DEF DatabaseInv, IsDatabase, Fields
<1>5. DOMAIN new = S /\ \A x \in S : new[x] \in Severity
  BY DEF Severity
<1> HIDE DEF new
<1>6. /\ DOMAIN P = DOMAIN new \cup DOMAIN db.proc
      /\ \A x \in DOMAIN new : P[x] = new[x]
      /\ \A x \in DOMAIN db.proc : x \notin DOMAIN new => P[x] = db.proc[x]
      /\ P = [x \in DOMAIN P |-> P[x]]
  BY OverIs
<1>7. DOMAIN db.proc \subseteq Proc /\ \A x \in DOMAIN db.proc : db.proc[x] \in Severity
  BY <1>0 DEF DatabaseInv, IsDatabase
<1> HIDE DEF P, d
<1>8. \A x \in DOMAIN P : P[x] \in Severity
  BY <1>5, <1>6, <1>7
<1>9. P \in [DOMAIN P -> Severity] /\ DOMAIN P \subseteq Proc
  BY <1>2, <1>5, <1>6, <1>7, <1>8
<1>10. IsDatabase(d)
  BY <1>0, <1>4, <1>9 DEF DatabaseInv, IsDatabase
<1>11. ManualOwned(d)
  <2>1. \A m : MarkOf(d, m) = MarkOf(db, m)
    BY <1>4, SuppressedSame
  <2> QED BY <1>0, <1>4, <2>1 DEF DatabaseInv, ManualOwned
<1> QED BY <1>1, <1>3, <1>4, <1>10, <1>11

\* Rows that go take their lent severities with them, and all findings go.
LEMMA PurgeStep ==
  ASSUME Inv, NEW r, Purge(r)
  PROVE  Inv'
<1> DEFINE P == Restrict(db.proc, DOMAIN db.proc \ {r})
<1> DEFINE E == Restrict(db.event, {i \in DOMAIN db.event : db.event[i].row # r})
<1> DEFINE d == [db EXCEPT !.finding = Nothing, !.proc = P, !.event = E]
<1>0. /\ DatabaseInv(db) /\ db' = d /\ run' = run /\ off' = off /\ crossed' = crossed
  BY DEF Inv, Purge
<1>1. /\ DOMAIN d = Fields /\ d.finding = Nothing /\ d.event = E /\ d.proc = P
      /\ d.items = db.items /\ d.baseline = db.baseline /\ d.disabled = db.disabled
      /\ d.benign = db.benign
  BY <1>0 DEF DatabaseInv, IsDatabase, Fields
<1>2. /\ DOMAIN P \subseteq DOMAIN db.proc /\ P \in [DOMAIN P -> Severity]
  BY <1>0 DEF Restrict, DatabaseInv, IsDatabase
<1>3. /\ DOMAIN E \subseteq DOMAIN db.event /\ E \in [DOMAIN E -> EventRow]
      /\ \A i \in DOMAIN E : E[i] = db.event[i]
  BY <1>0 DEF Restrict, DatabaseInv, IsDatabase
<1>4. Nothing \in [DOMAIN Nothing -> FindingRow] /\ DOMAIN Nothing = {}
  BY DEF Nothing
<1> HIDE DEF P, E, d
<1>5. IsDatabase(d)
  BY <1>0, <1>1, <1>2, <1>3, <1>4 DEF DatabaseInv, IsDatabase
<1>6. ManualOwned(d)
  <2>1. \A m : MarkOf(d, m) = MarkOf(db, m)
    BY <1>1, SuppressedSame
  <2> QED BY <1>0, <1>1, <1>3, <2>1 DEF DatabaseInv, ManualOwned
<1>7. DatabaseInv(d) /\ KeysGraded(d)
  BY <1>1, <1>5, <1>6, NoFindings DEF DatabaseInv
<1> QED BY <1>0, <1>1, <1>7 DEF Inv, RunOK, SnapshotInv, GradesInv

\* Every step keeps the invariant: one case per action of Next.
LEMMA InvStep == Inv /\ [Next]_vars => Inv'
<1> SUFFICES ASSUME Inv, [Next]_vars PROVE Inv'
  OBVIOUS
<1>1. CASE FailRun
  BY <1>1 DEF FailRun, Inv, RunOK, SnapshotInv, GradesInv
<1>2. CASE \E r \in Rule : set_state(r)
  <2>1. /\ off' \subseteq Rule /\ db' = db /\ run' = run /\ crossed' = crossed
    BY <1>2 DEF set_state, Toggle, Inv
  <2> QED BY <2>1 DEF Inv, RunOK, SnapshotInv, GradesInv
<1>3. CASE \E f \in Marked : suppress_finding(f)
  BY <1>3, BenignStep DEF suppress_finding
<1>4. CASE UNCHANGED vars
  BY <1>4 DEF vars, Inv, RunOK, SnapshotInv, GradesInv
<1> QED
  BY <1>1, <1>2, <1>3, <1>4, RebuildStep, BeginRunStep, ScanUngatedStep, FinishRunStep,
     BenignStep, DisabledStep, AddManualStep, DeleteManualStep, IngestStep,
     IngestProcessesStep, PurgeStep
  DEF Next

-----------------------------------------------------------------------------
(* Theorems. *)

\* The tables of a case keep their types: every row, baseline and manual finding
\* refers to what it should, whatever the order of runs, edits, imports and purges.
THEOREM DetectionRunTypes == Spec => []TypeOK
<1>1. Inv => TypeOK
  BY DEF Inv, DatabaseInv, TypeOK
<1> QED BY <1>1, InitInv, InvStep, PTL DEF Spec

\* A finding under a benign mark or a disabled rule is at severity zero and remembers
\* the severity it had; no other finding is held down (detect/overrides.py), in every
\* state between the analyst's edits, the runs and the changes of evidence.
THEOREM DetectionRunOverridesHold == Spec => []OverridesHold
<1>1. Inv => OverridesHold
  BY DEF Inv, DatabaseInv, OverridesIn, OverridesHold
<1> QED BY <1>1, InitInv, InvStep, PTL DEF Spec

\* An event raised for a manual finding keeps the severity it had as a baseline, and
\* every baseline belongs to an event so raised (detect/manual.py).
THEOREM DetectionRunManualImpactOwned == Spec => []ManualImpactOwned
<1>1. Inv => ManualImpactOwned
  BY DEF Inv, DatabaseInv, ManualOwned, ManualImpactOwned
<1> QED BY <1>1, InitInv, InvStep, PTL DEF Spec

\* The step that ends a run nothing crossed is FinishRun, and it grades as stated.
LEMMA RunEndStep == Inv /\ [Next]_vars => [RunEndGraded]_vars
<1> SUFFICES ASSUME Inv, Next, run # Idle, run' = Idle, db' # db, ~crossed
             PROVE  GradedFrom(db, db')
  BY DEF RunEndGraded, GradedFrom, Lending
<1>1. FinishRun
  BY DEF Next, Rebuild, BeginRun, ScanUngated, FailRun, set_finding_benign, suppress_finding,
       set_rule_disabled, add_manual_finding, delete_manual_finding, set_state, Ingest,
       IngestProcesses, Purge
<1> QED BY <1>1, FinishRunStep

\* A run that nothing crossed leaves the findings graded by the database it ended on:
\* what a finding is worth follows from its detector and its active partners alone,
\* so no run compounds the raise of an earlier one (detect/engine.py).
THEOREM DetectionRunRunGrades == Spec => RunGrades
BY InitInv, InvStep, RunEndStep, PTL DEF Spec, RunGrades

-----------------------------------------------------------------------------
(***************************************************************************)
(* A rebuild forgets.  What it does not reset are the severities of the    *)
(* processes; each is zero or comes from a detector that still fires on    *)
(* the process, and so is found again.                                     *)
(***************************************************************************)
Earned(d, p) ==
  \E k \in Key \ Gated :
    p \in Trigger[k] /\ Trigger[k] \subseteq Stored(d) /\ d.proc[p] <= Emits[k]

ProcEarned(d) == \A p \in DOMAIN d.proc : d.proc[p] = 0 \/ Earned(d, p)

\* A run that has scanned its events ahead has no processes.
ForgetInv ==
  /\ ParserInfo(db) /\ ProcEarned(db) /\ off \subseteq Toggled
  /\ run # Idle /\ run.phase = "scanned" => DOMAIN db.proc = {}

\* A set of severities that is not empty has a greatest one.
LEMMA MaxSeverity ==
  ASSUME NEW S, S \subseteq Severity, S # {}
  PROVE  Max(S) \in S /\ \A x \in S : Max(S) >= x
<1>1. Highest(S) \in S \cup {0} /\ \A x \in S : x <= Highest(S)
  BY HighestSeverity
<1>2. Highest(S) \in S
  <2>1. PICK x \in S : x \in Severity /\ x <= Highest(S)
    BY <1>1
  <2>2. Highest(S) = 0 => x = 0
    BY <2>1 DEF Severity
  <2> QED BY <1>1, <2>1, <2>2
<1>3. \E x \in S : \A y \in S : x >= y
  BY <1>1, <1>2 DEF Severity
<1> QED BY <1>3 DEF Max

\* The detectors that raise a process.
Raisers(d, o, p) == {q \in Fired(d, o) \ Gated : p \in Trigger[q]}
Raising(d, o, p) == {Emits[k] : k \in Raisers(d, o, p)}

LEMMA ScannedProcess ==
  ASSUME NEW d, IsDatabase(d), NEW o, NEW p \in DOMAIN d.proc
  PROVE  LET m == ScanProcesses(d, o).proc[p] IN
         /\ m = Max({d.proc[p]} \cup Raising(d, o, p))
         /\ Raising(d, o, p) \subseteq Severity /\ d.proc[p] \in Severity
         /\ m \in {d.proc[p]} \cup Raising(d, o, p)
         /\ \A x \in {d.proc[p]} \cup Raising(d, o, p) : m >= x
<1>1. Raisers(d, o, p) \subseteq Key
  BY DEF Raisers, Fired
<1>2. Raising(d, o, p) \subseteq Severity
  <2> DEFINE R == Raisers(d, o, p)
  <2>1. Raising(d, o, p) = {Emits[k] : k \in R}
    BY DEF Raising
  <2> HIDE DEF R
  <2> QED BY <1>1, <2>1, EmitsSeverity DEF R
<1>3. d.proc[p] \in Severity
  BY DEF IsDatabase
<1>4. ScanProcesses(d, o).proc[p] = Max({d.proc[p]} \cup Raising(d, o, p))
  BY DEF ScanProcesses, IsDatabase, Fields, Raising, Raisers
<1>5. {d.proc[p]} \cup Raising(d, o, p) \subseteq Severity
  BY <1>2, <1>3
<1> QED BY <1>2, <1>3, <1>4, <1>5, MaxSeverity

\* A scan gives processes no severity that they have not earned.
LEMMA ScanEarns ==
  ASSUME NEW d, IsDatabase(d), ProcEarned(d), NEW o
  PROVE  ProcEarned(Scan(d, o))
<1> DEFINE n == ScanProcesses(d, o)
<1>1. /\ IsDatabase(n) /\ n.event = d.event /\ DOMAIN n.proc = DOMAIN d.proc
  BY ScanProcessesEffect
<1>2. Stored(n) = Stored(d)
  BY <1>1 DEF Stored
<1>3. ASSUME NEW p \in DOMAIN d.proc
      PROVE  n.proc[p] = 0 \/ Earned(n, p)
  <2>1. n.proc[p] \in {d.proc[p]} \cup Raising(d, o, p) /\ Raising(d, o, p) \subseteq Severity
    BY ScannedProcess
  <2>2. CASE n.proc[p] = d.proc[p]
    <3> HIDE DEF n
    <3> QED BY <1>2, <1>3, <2>2 DEF ProcEarned, Earned
  <2>3. CASE n.proc[p] \in Raising(d, o, p)
    <3>1. PICK k \in Raisers(d, o, p) : n.proc[p] = Emits[k]
      BY <2>3 DEF Raising
    <3>2. k \in Key \ Gated /\ p \in Trigger[k] /\ Trigger[k] \subseteq Stored(d)
      BY DEF Raisers, Fired
    <3>3. n.proc[p] <= Emits[k]
      BY <2>1, <2>3, <3>1 DEF Severity
    <3> HIDE DEF n
    <3> QED BY <1>2, <3>2, <3>3 DEF Earned
  <2> QED BY <2>1, <2>2, <2>3
<1>4. Scan(d, o) = ScanEvents(n, o)
  BY DEF Scan
<1> HIDE DEF n
<1>5. ScanEvents(n, o).proc = n.proc /\ Stored(ScanEvents(n, o)) = Stored(n)
  BY <1>1, ScanEventsEffect DEF Keeps
<1> QED BY <1>1, <1>3, <1>4, <1>5 DEF ProcEarned, Earned

\* The same processes with the same evidence have earned what they have.
LEMMA EarnedSame ==
  ASSUME NEW d, NEW n, ProcEarned(d), n.proc = d.proc, Stored(d) \subseteq Stored(n)
  PROVE  ProcEarned(n)
BY DEF ProcEarned, Earned

\* Databases with the same tables are the same.
LEMMA SameTables ==
  ASSUME NEW d, NEW n, d = [x \in Fields |-> d[x]], n = [x \in Fields |-> n[x]],
         d.finding = n.finding, d.event = n.event, d.proc = n.proc, d.items = n.items,
         d.baseline = n.baseline, d.disabled = n.disabled, d.benign = n.benign
  PROVE  d = n
<1>1. \A x \in Fields : d[x] = n[x]
  BY DEF Fields
<1> QED BY <1>1

\* The reset leaves of an event its row alone.
LEMMA ResetForgets ==
  ASSUME NEW d, IsDatabase(d), ManualBase(d), ParserInfo(d)
  PROVE  LET n == Reset(d) IN
         /\ n.event = [i \in DOMAIN d.event |-> [row |-> d.event[i].row, sev |-> 0, why |-> "parser"]]
         /\ n.baseline = Nothing
<1> DEFINE r == Restore(d)
<1> DEFINE E == [i \in DOMAIN r.event |->
                   IF r.event[i].why \in {"detection", "match"}
                   THEN [r.event[i] EXCEPT !.sev = 0, !.why = "parser"] ELSE r.event[i]]
<1> DEFINE n == [r EXCEPT !.finding = Nothing, !.event = E]
<1>1. /\ IsDatabase(r) /\ r.baseline = Nothing /\ Keeps(d, r)
      /\ \A i \in DOMAIN r.event : r.event[i].why # "manual"
  BY RestoreEffect
<1>2. DOMAIN r.event = DOMAIN d.event /\ \A i \in DOMAIN d.event : r.event[i].row = d.event[i].row
  <2>1. r.event = [i \in DOMAIN d.event |->
                    IF i \in DOMAIN d.baseline /\ d.event[i].why = "manual"
                    THEN [d.event[i] EXCEPT !.sev = d.baseline[i].sev, !.why = d.baseline[i].why]
                    ELSE d.event[i]]
    BY DEF Restore, IsDatabase, Fields
  <2>2. \A i \in DOMAIN d.event : d.event[i] \in EventRow
    BY DEF IsDatabase
  <2> HIDE DEF r
  <2> QED BY <2>1, <2>2 DEF EventRow
<1>3. n = Reset(d)
  BY DEF Reset
<1> HIDE DEF r
<1>4. n.event = E /\ n.baseline = Nothing
  BY <1>1 DEF IsDatabase, Fields
<1>5. ASSUME NEW i \in DOMAIN d.event
      PROVE  E[i] = [row |-> d.event[i].row, sev |-> 0, why |-> "parser"]
  <2> DEFINE e == r.event[i]
  <2>1. e \in EventRow /\ e.row = d.event[i].row /\ e.why # "manual"
    BY <1>1, <1>2 DEF IsDatabase
  <2>2. e.why = "parser" => e.sev = 0
    BY <1>1, <1>2 DEF Keeps, ParserInfo
  <2>3. E[i] = IF e.why \in {"detection", "match"} THEN [e EXCEPT !.sev = 0, !.why = "parser"] ELSE e
    BY <1>2
  <2> HIDE DEF e, E
  <2> QED BY <2>1, <2>2, <2>3 DEF EventRow, Why
<1>6. DOMAIN E = DOMAIN d.event
  BY <1>2
<1>7. E = [i \in DOMAIN d.event |-> [row |-> d.event[i].row, sev |-> 0, why |-> "parser"]]
  <2>1. E = [i \in DOMAIN E |-> E[i]]
    OBVIOUS
  <2> HIDE DEF E
  <2> QED BY <1>5, <1>6, <2>1
<1> HIDE DEF E, n
<1> QED BY <1>3, <1>4, <1>7

\* The scan finds again what a process had earned.
LEMMA ScanForgets ==
  ASSUME NEW c, NEW e, NEW o, IsDatabase(c), IsDatabase(e), DOMAIN c.proc = DOMAIN e.proc,
         c.event = e.event, NEW p \in DOMAIN c.proc, e.proc[p] = 0,
         \/ c.proc[p] = 0
         \/ \E k \in Raisers(c, o, p) : c.proc[p] <= Emits[k]
  PROVE  ScanProcesses(c, o).proc[p] = ScanProcesses(e, o).proc[p]
<1> DEFINE m == ScanProcesses(c, o).proc[p]
<1> DEFINE l == ScanProcesses(e, o).proc[p]
<1> DEFINE R == Raising(c, o, p)
<1>1. R = Raising(e, o, p) /\ \A k \in Raisers(c, o, p) : Emits[k] \in R
  BY DEF Raising, Raisers, Fired, Stored
<1>2. /\ m = Max({c.proc[p]} \cup R) /\ R \subseteq Severity /\ c.proc[p] \in Severity
      /\ m \in {c.proc[p]} \cup R /\ \A x \in {c.proc[p]} \cup R : m >= x
  BY ScannedProcess
<1>3. /\ l = Max({0} \cup R)
      /\ l \in {0} \cup R /\ \A x \in {0} \cup R : l >= x
  <2> DEFINE Q == Raising(e, o, p)
  <2>1. p \in DOMAIN e.proc
    OBVIOUS
  <2>2. /\ l = Max({e.proc[p]} \cup Q)
        /\ l \in {e.proc[p]} \cup Q /\ \A x \in {e.proc[p]} \cup Q : l >= x
    BY <2>1, ScannedProcess
  <2>3. Q = R
    BY <1>1
  <2> HIDE DEF Q, R, l
  <2> QED BY <2>2, <2>3
<1> HIDE DEF m, l, R
<1>4. CASE c.proc[p] = 0
  BY <1>2, <1>3, <1>4 DEF m, l
<1>5. CASE \E k \in Raisers(c, o, p) : c.proc[p] <= Emits[k]
  <2>1. PICK x \in R : c.proc[p] <= x
    BY <1>1, <1>5
  <2>2. \A y \in R \cup {0, c.proc[p]} : y \in 0 .. 4
    BY <1>2 DEF Severity
  <2>3. m \in R
    BY <1>2, <2>1, <2>2
  <2>4. m = l
    BY <1>2, <1>3, <2>2, <2>3
  <2> QED BY <2>4 DEF m, l
<1> QED BY <1>4, <1>5

LEMMA Forgotten ==
  ASSUME Inv, ForgetInv, Forgettable
  PROVE  RebuildForgets
<1> DEFINE E == [i \in DOMAIN db.event |->
                   [row |-> db.event[i].row, sev |-> Parsed[db.event[i].row], why |-> "parser"]]
<1> DEFINE Z == [p \in DOMAIN db.proc |-> 0]
<1> DEFINE pristine == [db EXCEPT !.finding = Nothing, !.baseline = Nothing, !.proc = Z, !.event = E]
<1>1. IsDatabase(db) /\ ManualBase(db) /\ ParserInfo(db) /\ ProcEarned(db) /\ off \subseteq Toggled
  BY OwnedIsBase DEF Inv, DatabaseInv, ForgetInv
<1>2. /\ DOMAIN pristine = Fields /\ pristine.finding = Nothing /\ pristine.event = E
      /\ pristine.proc = Z /\ pristine.items = db.items /\ pristine.baseline = Nothing
      /\ pristine.disabled = db.disabled /\ pristine.benign = db.benign
  BY <1>1 DEF IsDatabase, Fields
<1>3. \A i \in DOMAIN db.event :
        /\ E[i].row = db.event[i].row /\ E[i].sev = 0 /\ E[i].why = "parser"
        /\ E[i] \in EventRow
  <2> TAKE i \in DOMAIN db.event
  <2>1. db.event[i].row \in Row
    BY <1>1 DEF IsDatabase, EventRow
  <2>2. E[i] = [row |-> db.event[i].row, sev |-> 0, why |-> "parser"]
    BY <2>1 DEF Forgettable
  <2> HIDE DEF E
  <2> QED BY <2>1, <2>2 DEF EventRow, Severity, Why
<1>4. DOMAIN E = DOMAIN db.event /\ E \in [DOMAIN E -> EventRow]
  BY <1>3
<1>5. DOMAIN Z = DOMAIN db.proc /\ (\A p \in DOMAIN Z : Z[p] = 0) /\ Z \in [DOMAIN Z -> Severity]
  BY DEF Severity
<1>6. DOMAIN Nothing = {} /\ \A T : Nothing \in [DOMAIN Nothing -> T]
  BY DEF Nothing
<1> HIDE DEF E, Z
<1>7. IsDatabase(pristine) /\ ManualBase(pristine) /\ ParserInfo(pristine)
  <2> HIDE DEF pristine
  <2>1. IsDatabase(pristine)
    BY <1>1, <1>2, <1>4, <1>5, <1>6 DEF IsDatabase
  <2>2. \A i \in DOMAIN pristine.event :
          pristine.event[i].why = "parser" /\ pristine.event[i].sev = 0
    BY <1>2, <1>3, <1>4
  <2>3. ManualBase(pristine)
    BY <2>2 DEF ManualBase
  <2>4. ParserInfo(pristine)
    BY <1>2, <1>6, <2>2 DEF ParserInfo
  <2> QED BY <2>1, <2>3, <2>4
<1> DEFINE c == Reset(db)
<1> DEFINE e == Reset(pristine)
<1>8. /\ IsDatabase(c) /\ c.finding = Nothing /\ c.proc = db.proc /\ c.items = db.items
      /\ c.disabled = db.disabled /\ c.benign = db.benign /\ c.baseline = Nothing
      /\ c.event = [i \in DOMAIN db.event |-> [row |-> db.event[i].row, sev |-> 0, why |-> "parser"]]
  BY <1>1, ResetEffect, ResetForgets
<1>9. /\ IsDatabase(e) /\ e.finding = Nothing /\ e.proc = Z /\ e.items = db.items
      /\ e.disabled = db.disabled /\ e.benign = db.benign /\ e.baseline = Nothing
      /\ e.event = [i \in DOMAIN E |-> [row |-> E[i].row, sev |-> 0, why |-> "parser"]]
  <2> HIDE DEF pristine
  <2>1. /\ IsDatabase(e) /\ e.finding = Nothing /\ e.proc = Z /\ e.items = db.items
        /\ e.disabled = db.disabled /\ e.benign = db.benign
    BY <1>2, <1>7, ResetEffect
  <2>2. /\ e.event = [i \in DOMAIN pristine.event |->
                        [row |-> pristine.event[i].row, sev |-> 0, why |-> "parser"]]
        /\ e.baseline = Nothing
    BY <1>7, ResetForgets
  <2> HIDE DEF e
  <2> QED BY <1>2, <2>1, <2>2
<1> HIDE DEF pristine, c, e
<1>10. c.event = e.event
  <2>1. \A i \in DOMAIN db.event : E[i].row = db.event[i].row
    BY <1>3
  <2> QED BY <1>4, <1>8, <1>9, <2>1
<1>11. Stored(c) = Stored(db)
  BY <1>8 DEF Stored
<1>12. ASSUME NEW p \in DOMAIN db.proc
       PROVE  ScanProcesses(c, off).proc[p] = ScanProcesses(e, off).proc[p]
  <2>1. c.proc[p] = 0 \/ \E k \in Raisers(c, off, p) : c.proc[p] <= Emits[k]
    <3>1. CASE db.proc[p] = 0
      BY <1>8, <3>1
    <3>2. CASE Earned(db, p)
      <4>1. PICK k \in Key \ Gated :
              p \in Trigger[k] /\ Trigger[k] \subseteq Stored(db) /\ db.proc[p] <= Emits[k]
        BY <3>2 DEF Earned
      <4>2. p \in Proc
        BY <1>1 DEF IsDatabase
      <4>3. ~(k \in Table /\ RuleOf[k] \in off)
        BY <1>1, <4>1, <4>2 DEF Forgettable
      <4>4. k \in Raisers(c, off, p)
        BY <1>11, <4>1, <4>3 DEF Raisers, Fired
      <4> QED BY <1>8, <4>1, <4>4
    <3> QED BY <1>1, <3>1, <3>2 DEF ProcEarned
  <2>2. DOMAIN c.proc = DOMAIN e.proc /\ p \in DOMAIN c.proc /\ e.proc[p] = 0
    BY <1>5, <1>8, <1>9
  <2> QED BY <1>8, <1>9, <1>10, <2>1, <2>2, ScanForgets
<1>13. ScanProcesses(c, off) = ScanProcesses(e, off)
  <2> DEFINE m == ScanProcesses(c, off)
  <2> DEFINE l == ScanProcesses(e, off)
  <2>1. /\ IsDatabase(m) /\ m.finding = c.finding /\ m.event = c.event /\ m.items = c.items
        /\ DOMAIN m.proc = DOMAIN db.proc /\ m.baseline = c.baseline
        /\ m.disabled = c.disabled /\ m.benign = c.benign
    BY <1>8, ScanProcessesEffect
  <2>2. /\ IsDatabase(l) /\ l.finding = e.finding /\ l.event = e.event /\ l.items = e.items
        /\ DOMAIN l.proc = DOMAIN db.proc /\ l.baseline = e.baseline
        /\ l.disabled = e.disabled /\ l.benign = e.benign
    BY <1>5, <1>9, ScanProcessesEffect
  <2>3. m = [x \in DOMAIN m |-> m[x]] /\ l = [x \in DOMAIN l |-> l[x]]
    BY DEF ScanProcesses
  <2>4. \A p \in DOMAIN db.proc : m.proc[p] = l.proc[p]
    BY <1>12
  <2> HIDE DEF m, l
  <2>5. DOMAIN m = Fields /\ DOMAIN l = Fields
    BY <2>1, <2>2 DEF IsDatabase
  <2>6. m.proc = l.proc
    <3>1. m.proc \in [DOMAIN db.proc -> Severity] /\ l.proc \in [DOMAIN db.proc -> Severity]
      BY <2>1, <2>2 DEF IsDatabase
    <3> QED BY <2>4, <3>1
  <2>7. m = l
    BY <1>8, <1>9, <1>10, <2>1, <2>2, <2>3, <2>5, <2>6, SameTables
  <2> QED BY <2>7 DEF m, l
<1>14. Rebuilt(db) = Rebuilt(pristine)
  BY <1>2, <1>13 DEF Rebuilt, Scan, c, e
<1> QED BY <1>14 DEF RebuildForgets, pristine, E, Z

\* A change of the overlays.
LEMMA Remembered ==
  ASSUME ForgetInv, Remembers, UNCHANGED <<off, run>>
  PROVE  ForgetInv'
<1>1. ProcEarned(db') /\ ParserInfo(db') /\ DOMAIN db'.proc = DOMAIN db.proc
  BY EarnedSame DEF ForgetInv, Remembers, Keeps
<1> QED BY <1>1 DEF ForgetInv

\* The end of a run or a rebuild that scans the processes anew.
LEMMA ScannedForget ==
  ASSUME NEW d, IsDatabase(d), ManualBase(d), ParserInfo(d), ProcEarned(d),
         NEW o, NEW disabled, NEW benign
  PROVE  LET n == Conclude(Scan(d, o), o, disabled, benign) IN ParserInfo(n) /\ ProcEarned(n)
<1> DEFINE s == Scan(d, o)
<1>1. IsDatabase(s) /\ ManualBase(s) /\ ParserInfo(s) /\ ProcEarned(s)
  BY ScanEffect, ScanEarns DEF Keeps
<1> HIDE DEF s
<1> DEFINE n == Conclude(s, o, disabled, benign)
<1>2. n.proc = s.proc /\ Keeps(s, n)
  BY <1>1, ConcludeEffect
<1> HIDE DEF n
<1>3. ParserInfo(n) /\ ProcEarned(n)
  BY <1>1, <1>2, EarnedSame DEF Keeps
<1> QED BY <1>3 DEF n, s

LEMMA RebuildForget ==
  ASSUME Inv, ForgetInv, Rebuild
  PROVE  ForgetInv'
<1> DEFINE r == Reset(db)
<1>1. IsDatabase(db) /\ ManualBase(db) /\ ParserInfo(db) /\ ProcEarned(db)
  BY OwnedIsBase DEF Inv, DatabaseInv, ForgetInv
<1>2. /\ IsDatabase(r) /\ ManualBase(r) /\ r.proc = db.proc /\ r.baseline = Nothing
      /\ r.event = [i \in DOMAIN db.event |-> [row |-> db.event[i].row, sev |-> 0, why |-> "parser"]]
  BY <1>1, ResetEffect, ResetForgets
<1> HIDE DEF r
<1>3. ParserInfo(r) /\ Stored(r) = Stored(db)
  BY <1>2 DEF ParserInfo, Stored, Nothing
<1>4. ProcEarned(r)
  BY <1>1, <1>2, <1>3, EarnedSame
<1>5. db' = Conclude(Scan(r, off), off, db.disabled, db.benign) /\ off' = off /\ run' = Idle
  BY DEF Rebuild, Rebuilt, r
<1>6. ParserInfo(db') /\ ProcEarned(db')
  BY <1>2, <1>3, <1>4, <1>5, ScannedForget
<1> QED BY <1>5, <1>6 DEF ForgetInv

LEMMA FinishRunForget ==
  ASSUME Inv, ForgetInv, FinishRun
  PROVE  ForgetInv'
<1>1. run' = Idle /\ off' = off /\ run # Idle
  BY DEF FinishRun, Idle
<1>2. IsDatabase(db) /\ ManualBase(db) /\ ParserInfo(db) /\ ProcEarned(db)
  BY OwnedIsBase DEF Inv, DatabaseInv, ForgetInv
<1>3. PICK d : ConcludesOn(d)
  BY RunBase
<1>4. CASE d = Scan(db, off)
  <2>1. db' = Conclude(Scan(db, off), off, run.disabled, run.benign)
    BY <1>3, <1>4 DEF ConcludesOn
  <2>2. ParserInfo(db') /\ ProcEarned(db')
    BY <1>2, <2>1, ScannedForget
  <2> QED BY <1>1, <2>2 DEF ForgetInv
<1>5. CASE run.phase = "scanned"
  <2>1. /\ IsDatabase(d) /\ ManualBase(d) /\ ParserInfo(d) /\ DOMAIN d.proc = {}
        /\ db' = Conclude(d, off, run.disabled, run.benign)
    BY <1>1, <1>2, <1>3, <1>5 DEF ConcludesOn, ForgetInv
  <2>2. db'.proc = d.proc /\ ParserInfo(db')
    BY <2>1, ConcludeEffect DEF Keeps
  <2>3. ProcEarned(db')
    BY <2>1, <2>2 DEF ProcEarned
  <2> QED BY <1>1, <2>2, <2>3 DEF ForgetInv
<1> QED BY <1>3, <1>4, <1>5 DEF ConcludesOn

\* New evidence is of info, and no event is written over another.
LEMMA IngestForget ==
  ASSUME Inv, ForgetInv, Forgettable, NEW r \in Row, Ingest(r)
  PROVE  ForgetInv'
<1> DEFINE i == 1 + Highest(DOMAIN db.event)
<1>0. /\ IsDatabase(db) /\ ParserInfo(db) /\ ProcEarned(db) /\ off \subseteq Toggled
      /\ run = Idle /\ run' = run /\ off' = off
  BY DEF Inv, DatabaseInv, ForgetInv, Ingest
<1>1. ASSUME ParserInfo(db'), ProcEarned(db')
      PROVE  ForgetInv'
  BY <1>0, <1>1 DEF ForgetInv
<1>2. db' = [db EXCEPT !.event = Over([x \in {i} |-> [row |-> r, sev |-> Parsed[r], why |-> "parser"]], @)]
  BY DEF Ingest
<1> DEFINE new == [x \in {i} |-> [row |-> r, sev |-> Parsed[r], why |-> "parser"]]
<1> DEFINE E == Over(new, db.event)
<1> DEFINE d == [db EXCEPT !.event = E]
<1>3. db' = d
  BY <1>2
<1>4. d.event = E /\ d.proc = db.proc /\ d.baseline = db.baseline
  BY <1>0, EventTable
<1>5. i \notin DOMAIN db.event
  <2>1. DOMAIN db.event \subseteq 0 .. MaxId /\ MaxId \in Nat
    BY <1>0, DetectionConstants DEF IsDatabase
  <2>2. Highest(DOMAIN db.event) \in Nat /\ \A x \in DOMAIN db.event : x <= Highest(DOMAIN db.event)
    BY <2>1, HighestIs
  <2>3. \A x \in DOMAIN db.event : x \in Nat
    BY <2>1
  <2> QED BY <2>2, <2>3
<1>6. DOMAIN new = {i} /\ new[i].sev = 0
  BY <1>2 DEF Forgettable
<1> HIDE DEF new, i
<1>7. /\ DOMAIN E = DOMAIN new \cup DOMAIN db.event
      /\ \A x \in DOMAIN new : E[x] = new[x]
      /\ \A x \in DOMAIN db.event : x \notin DOMAIN new => E[x] = db.event[x]
      /\ E = [x \in DOMAIN E |-> E[x]]
  BY OverIs
<1> HIDE DEF E, d
<1>8. ParserInfo(d)
  BY <1>0, <1>4, <1>6, <1>7 DEF ParserInfo
<1>9. \A x \in DOMAIN db.event : x \in DOMAIN E /\ E[x] = db.event[x]
  BY <1>5, <1>6, <1>7
<1>10. Stored(db) \subseteq Stored(d)
  BY <1>4, <1>9 DEF Stored
<1>11. ProcEarned(d)
  BY <1>0, <1>4, <1>10, EarnedSame
<1> QED BY <1>1, <1>3, <1>8, <1>11

\* New processes are no more suspicious than the parser left them.
LEMMA IngestProcessesForget ==
  ASSUME Inv, ForgetInv, Forgettable, NEW S \in Listing, IngestProcesses(S)
  PROVE  ForgetInv'
<1>0. /\ IsDatabase(db) /\ ParserInfo(db) /\ ProcEarned(db) /\ off \subseteq Toggled
      /\ run = Idle /\ run' = run /\ off' = off
  BY DEF Inv, DatabaseInv, ForgetInv, IngestProcesses
<1>1. ASSUME ParserInfo(db'), ProcEarned(db')
      PROVE  ForgetInv'
  BY <1>0, <1>1 DEF ForgetInv
<1>2. db' = [db EXCEPT !.proc = Over([x \in S |-> 0], @)]
  BY DEF IngestProcesses
<1> DEFINE new == [x \in S |-> 0]
<1> DEFINE P == Over(new, db.proc)
<1> DEFINE d == [db EXCEPT !.proc = P]
<1>3. db' = d
  BY <1>2
<1>4. d.event = db.event /\ d.proc = P /\ d.baseline = db.baseline
  BY <1>0 DEF IsDatabase, Fields
<1>5. DOMAIN new = S /\ \A x \in S : new[x] = 0
  OBVIOUS
<1> HIDE DEF new
<1>6. /\ DOMAIN P = DOMAIN new \cup DOMAIN db.proc
      /\ \A x \in DOMAIN new : P[x] = new[x]
      /\ \A x \in DOMAIN db.proc : x \notin DOMAIN new => P[x] = db.proc[x]
      /\ P = [x \in DOMAIN P |-> P[x]]
  BY OverIs
<1> HIDE DEF P, d
<1>7. ParserInfo(d)
  BY <1>0, <1>4 DEF ParserInfo
<1>8. Stored(db) \subseteq Stored(d)
  BY <1>4, <1>6 DEF Stored
<1>9. ProcEarned(d)
  BY <1>0, <1>4, <1>5, <1>6, <1>8 DEF ProcEarned, Earned
<1> QED BY <1>1, <1>3, <1>7, <1>9

\* The evidence that goes is not what another process is suspicious for.
LEMMA PurgeForget ==
  ASSUME Inv, ForgetInv, Forgettable, NEW r \in Deleted, Purge(r)
  PROVE  ForgetInv'
<1> DEFINE P == Restrict(db.proc, DOMAIN db.proc \ {r})
<1> DEFINE E == Restrict(db.event, {i \in DOMAIN db.event : db.event[i].row # r})
<1> DEFINE d == [db EXCEPT !.finding = Nothing, !.proc = P, !.event = E]
<1>0. /\ IsDatabase(db) /\ ParserInfo(db) /\ ProcEarned(db) /\ off \subseteq Toggled
      /\ run = Idle /\ run' = run /\ off' = off /\ db' = d
  BY DEF Inv, DatabaseInv, ForgetInv, Purge
<1>1. d.event = E /\ d.proc = P /\ d.baseline = db.baseline
  BY <1>0 DEF IsDatabase, Fields
<1>2. DOMAIN P = DOMAIN db.proc \ {r} /\ \A p \in DOMAIN P : P[p] = db.proc[p]
  BY DEF Restrict
<1>3. /\ DOMAIN E = {i \in DOMAIN db.event : db.event[i].row # r}
      /\ \A i \in DOMAIN E : E[i] = db.event[i]
  BY DEF Restrict
<1> HIDE DEF P, E, d
<1>4. ParserInfo(d)
  BY <1>0, <1>1, <1>3 DEF ParserInfo
<1>5. Stored(db) \ {r} \subseteq Stored(d)
  BY <1>1, <1>2, <1>3 DEF Stored
<1>6. ASSUME NEW p \in DOMAIN P, Earned(db, p)
      PROVE  Earned(d, p)
  <2>1. PICK k \in Key \ Gated :
          p \in Trigger[k] /\ Trigger[k] \subseteq Stored(db) /\ db.proc[p] <= Emits[k]
    BY <1>6 DEF Earned
  <2>2. p \in Proc /\ p # r
    BY <1>0, <1>2 DEF IsDatabase
  <2>3. r \notin Trigger[k]
    BY <2>1, <2>2 DEF Forgettable
  <2>4. Trigger[k] \subseteq Stored(d) /\ d.proc[p] <= Emits[k]
    BY <1>1, <1>2, <1>5, <2>1, <2>3
  <2> QED BY <2>1, <2>4 DEF Earned
<1>7. ProcEarned(d)
  BY <1>0, <1>1, <1>2, <1>6 DEF ProcEarned
<1> QED BY <1>0, <1>4, <1>7 DEF ForgetInv

LEMMA ForgetStep == Forgettable /\ Inv /\ ForgetInv /\ [Next]_vars => ForgetInv'
<1> SUFFICES ASSUME Forgettable, Inv, ForgetInv, [Next]_vars PROVE ForgetInv'
  OBVIOUS
<1>1. CASE BeginRun
  BY <1>1 DEF BeginRun, ForgetInv
<1>2. CASE ScanUngated
  <2>1. db' = db /\ off' = off /\ DOMAIN db.proc = {}
    BY <1>2 DEF ScanUngated
  <2> QED BY <2>1 DEF ForgetInv
<1>3. CASE FailRun \/ UNCHANGED vars
  BY <1>3 DEF FailRun, vars, ForgetInv
<1>4. ASSUME NEW r \in Rule, set_state(r)
      PROVE  ForgetInv'
  <2>1. off' \subseteq Toggled /\ db' = db /\ run' = run
    BY <1>4 DEF set_state, Toggle, ForgetInv
  <2> QED BY <2>1 DEF ForgetInv
<1>5. ASSUME NEW f, NEW b \in BOOLEAN, set_finding_benign(f, b)
      PROVE  ForgetInv'
  BY <1>5, BenignStep, Remembered DEF set_finding_benign
<1>6. ASSUME NEW f, suppress_finding(f)
      PROVE  ForgetInv'
  BY <1>5, <1>6 DEF suppress_finding
<1>7. ASSUME NEW r \in Switched, NEW b \in BOOLEAN, set_rule_disabled(r, b)
      PROVE  ForgetInv'
  BY <1>7, DisabledStep, Remembered DEF set_rule_disabled
<1>8. ASSUME NEW m \in Item, NEW i \in 1 .. MaxId, add_manual_finding(m, i)
      PROVE  ForgetInv'
  BY <1>8, AddManualStep, Remembered DEF add_manual_finding
<1>9. ASSUME NEW m \in Item, delete_manual_finding(m)
      PROVE  ForgetInv'
  BY <1>9, DeleteManualStep, Remembered DEF delete_manual_finding
<1> QED
  BY <1>1, <1>2, <1>3, <1>4, <1>5, <1>6, <1>7, <1>8, <1>9, RebuildForget, FinishRunForget,
     IngestForget, IngestProcessesForget, PurgeForget
  DEF Next

\* A rebuild leaves no trace of the past: started in any state, it gives the findings and
\* the event severities of a case with the same evidence, overrides and items that was
\* never detected before (engine.py:2966), where the parser gives info and nothing that
\* made a process suspicious goes before it.
THEOREM DetectionRunRebuildForgets ==
  ASSUME Forgettable
  PROVE  Spec => []RebuildForgets
<1>1. Init => ForgetInv
  <2> SUFFICES ASSUME Init PROVE ForgetInv
    OBVIOUS
  <2>1. db.event = Nothing /\ db.proc = Nothing /\ db.baseline = Nothing /\ off = {} /\ run = Idle
    BY DEF Init
  <2>2. DOMAIN Nothing = {}
    BY DEF Nothing
  <2> QED BY <2>1, <2>2 DEF ForgetInv, ParserInfo, ProcEarned
<1>2. Inv /\ ForgetInv /\ [Next]_vars => ForgetInv'
  BY ForgetStep
<1>3. Inv /\ ForgetInv => RebuildForgets
  BY Forgotten
<1> QED BY <1>1, <1>2, <1>3, InitInv, InvStep, PTL DEF Spec

=============================================================================

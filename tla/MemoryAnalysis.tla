----------------------------- MODULE MemoryAnalysis -----------------------------
(***************************************************************************)
(* The analysis of one memory dump (backend/app/memory/pipeline.py,        *)
(* forensics.py): each pass grades one view of the dump by what the other  *)
(* views say, classes of anomalies that fire on many processes are         *)
(* downgraded, and the flags a process is left with are correlated.        *)
(*                                                                         *)
(* One action is one pass with its commit; any pass may raise, which loses *)
(* only what that pass had not committed.  Of addresses, names and paths   *)
(* only the comparisons the code makes are kept.                           *)
(***************************************************************************)
EXTENDS Integers, FiniteSets, SequencesExt, Severities

CONSTANTS
  Pids,          \* the process ids that occur
  Unattributed,  \* the module of a handler no module could be named for
  Dumps,         \* BOUND: the dumps considered; the fields are explained below
  MinProcesses,  \* MIN_PROCESSES of the dampener
  Percent,       \* its FRACTION, in percent
  Absent         \* no process, class or flag

SUSPICIOUS_MEMORY_FLAGS ==
  {"hidden", "hidden-candidate", "injected", "hollowing-suspect",
   "unlinked-module", "suspicious-network", "skeleton-key", "cross-process", "yara-hit"}

(* corroboration_sources, but for the views that other passes read too. *)
Traces ==
  {"cmdline", "handles", "envars", "privileges", "getsids", "parent-of-visible-process"}

ClassFlags == {"injected", "rwx-anomaly", "hollowing-suspect", "unlinked-module"}
Classes == {"malfind-region", "exe-anomaly", "unlinked-module"}

ASSUME PidsAssumption == IsFiniteSet(Pids)
ASSUME DumpsAssumption == \A d \in Dumps : \A p \in Pids : d.process[p].traces \subseteq Traces
ASSUME AbsentAssumption == Absent \notin ClassFlags \cup Classes

VARIABLES
  dump,       \* what MemProcFS found: a member of Dumps
  stage,      \* the pass that comes next, "done", or "failed"
  processes,  \* Process rows of this dump's session, in the order of their ids
  memory,     \* MemoryResult rows; class and flag as registered with the dampener
  hidden,     \* hidden_flag_pids
  ignored     \* pid -> flags the correlation must not count (_dampened_flags)

memoryVars == <<dump, stage, processes, memory, hidden, ignored>>

(* A dump: views per process, views of the kernel, and whether the forensic *)
(* CSV files were asked for.                                                *)
See(p) == dump.process[p]

Worst(S) == IF S = {} THEN Info ELSE Max(S)

Row(plugin, subject, severity) ==
  [plugin |-> plugin, subject |-> subject, severity |-> severity,
   class |-> Absent, flag |-> Absent, basis |-> {}]

Registered(plugin, p, severity, class, flag, basis) ==
  [plugin |-> plugin, subject |-> p, severity |-> severity,
   class |-> class, flag |-> flag, basis |-> basis]

(* _mark_process, for a set of marks: the first row of the process gets the *)
(* flag, and the severity if it is higher.                                  *)
MarkProcess(rows, marks) ==
  [i \in DOMAIN rows |->
     LET first == \A j \in DOMAIN rows : rows[j].pid = rows[i].pid => i <= j
         mine == {m \in marks : first /\ m.pid = rows[i].pid}
     IN [rows[i] EXCEPT !.flags = @ \cup {m.flag : m \in mine},
                        !.severity = Worst({@} \cup {m.severity : m \in mine})]]

MarkOf(p, flag, severity) == [pid |-> p, flag |-> flag, severity |-> severity]

Process(p, flags, severity) == [pid |-> p, flags |-> flags, severity |-> severity]

-----------------------------------------------------------------------------
(* What the passes read.  A list has no pid twice, so its order is not kept. *)

Listed == {p \in Pids : See(p).listed}                 \* pslist_pids

(* The CSV hints are there only when the forensic artifacts were extracted. *)
Evil(p) == IF dump.forensic THEN See(p).evil ELSE {}

(* psscan_rows: the last row for a pid counts.  The rows of findevil.csv and *)
(* of the process CSV come after those of the plugin, the latter only for    *)
(* pids neither list has.  A findevil row has no times.                      *)
PoolRow(p) ==
  CASE "hide" \in Evil(p) -> "smeared"
    [] "hide" \notin Evil(p) /\ See(p).pool # "none" -> See(p).pool
    [] "hide" \notin Evil(p) /\ See(p).pool = "none" /\ dump.forensic /\ ~See(p).listed -> See(p).csv
    [] OTHER -> "none"

(* corroboration_sources *)
Corroborating(p) ==
  See(p).traces \cup (IF See(p).net # "none" THEN {"network-connections"} ELSE {})
                \cup (IF "thread" \in Evil(p) THEN {"suspicious-threads"} ELSE {})

(* _jit_runtime_evidence: a runtime library is loaded, or the name says so. *)
Jit(p) == See(p).jit \/ \E i \in DOMAIN See(p).dlls : See(p).dlls[i] = "runtime"

Malfind == {p \in Pids : See(p).regions # {}}          \* malfind_pids
External(p) == See(p).net = "external"                 \* external_net_pids

(* dll_mismatch_pids: the first module of the load order is not the process. *)
DllMismatch == {p \in Listed : See(p).dlls # <<>> /\ See(p).dlls[1] # "main"}

(* _analyze_ldrmodules *)
Patterns(row) ==
  (IF row.linked = "nowhere" THEN {"unlinked-all-lists"}
   ELSE IF row.image # "library" /\ row.linked = "not-in-load" THEN {"exe-not-in-load-order"} ELSE {})
  \cup (IF row.image = "other" THEN {"exe-name-mismatch"} ELSE {})

Reported(p) ==
  {row \in See(p).ldr :
     LET dropped == IF See(p).pseudo \/ ~row.executable THEN {"unlinked-all-lists"} ELSE {}
     IN Patterns(row) \ dropped # {}}

ExeLevel(row) == Patterns(row) \cap {"exe-not-in-load-order", "exe-name-mismatch"} # {}

LdrExeLevel == {p \in Pids : \E row \in Reported(p) : ExeLevel(row)}   \* ldr_exe_level_pids

(* _check_exe_vad: no image is mapped under that name, or a writable one is. *)
ExeVadAnomalous(p, name) ==
  LET matches == {v \in See(p).images : v.file = name}
  IN See(p).images # {} /\ (matches = {} \/ \E v \in matches : v.writable)

-----------------------------------------------------------------------------
(* Grades. *)

(* _grade_malfind_vad *)
VadGrade(severity, region, jit) ==
  CASE region.shape = "file-backed" /\ ~region.mz -> Worst({severity - 1, Info})
    [] region.shape # "file-backed" /\ region.thread -> Worst({severity, IF jit THEN High ELSE Critical})
    [] OTHER -> severity

(* _grade_malfind_region *)
RegionGrade(region, jit, corroborated) ==
  VadGrade(CASE region.mz -> Critical
             [] ~region.mz /\ ~region.content -> Low
             [] ~region.mz /\ region.content /\ corroborated # {} -> High
             [] OTHER -> IF jit THEN Low ELSE Medium, region, jit)

(* proc_corroborated *)
ProcCorroborated(p) ==
  (IF p \in hidden THEN {"psscan-hidden"} ELSE {})
  \cup (IF p \in LdrExeLevel THEN {"ldrmodules"} ELSE {})
  \cup (IF p \in DllMismatch \ LdrExeLevel THEN {"dlllist-exe-mismatch"} ELSE {})
  \cup (IF External(p) THEN {"external-network"} ELSE {})

ThreadInside(p) ==
  IF \E r \in See(p).regions : r.thread /\ r.shape # "file-backed" THEN {"thread-start-in-region"} ELSE {}

(* Mutant: every corroboration makes it an injection, the loader's too. *)
IndependentOfAll(basis) == basis

Independent(basis) == basis \ {"ldrmodules", "dlllist-exe-mismatch"}

MalfindRow(p) ==
  LET corroborated == ProcCorroborated(p)
      severity == Worst({RegionGrade(r, Jit(p), corroborated) : r \in See(p).regions})
      basis == corroborated \cup ThreadInside(p)
      strong == (\E r \in See(p).regions : r.mz \/ r.thread) \/ Independent(basis) # {}
  IN Registered("malfind", p, severity, "malfind-region",
                IF strong /\ severity >= High THEN "injected" ELSE "rwx-anomaly", basis)

(* The grade of what speaks about the main exe: one corroboration is high,   *)
(* a second one beside the shape of the mapped image is critical.            *)
ExeGrade(basis) ==
  CASE "exe-vad-anomalous" \in basis /\ Cardinality(basis) > 1 -> Critical
    [] basis = {} -> Medium
    [] OTHER -> High

LdrRow(p, row) ==
  LET Suspect == "exe-name-mismatch" \in Patterns(row) \/ p \in DllMismatch
      named == {See(p).dlls[i] : i \in DOMAIN See(p).dlls}
      basis ==
        (IF p \in Malfind THEN {"malfind"} ELSE {})
        \cup (IF p \in DllMismatch THEN {"dlllist-exe-mismatch"} ELSE {})
        \cup (IF "exe-not-in-load-order" \in Patterns(row) /\ named # {} /\ row.image \notin named
              THEN {"absent-from-dlllist"} ELSE {})
        \cup (IF Suspect /\ ExeVadAnomalous(p, row.image) THEN {"exe-vad-anomalous"} ELSE {})
  IN IF ExeLevel(row)
     THEN Registered("ldrmodules", p, ExeGrade(basis), "exe-anomaly", "hollowing-suspect", basis)
     ELSE Registered("ldrmodules", p, Medium, "unlinked-module", "unlinked-module", {})

LdrRows(p) == {LdrRow(p, row) : row \in Reported(p)}

DllRow(p) ==
  LET basis == (IF p \in Malfind THEN {"malfind"} ELSE {})
               \cup (IF ExeVadAnomalous(p, See(p).dlls[1]) THEN {"exe-vad-anomalous"} ELSE {})
  IN Registered("dlllist", p, ExeGrade(basis), "exe-anomaly", "hollowing-suspect", basis)

(* _grade_handle, for the handles to processes, threads and tokens *)
HandleGrade(h) ==
  CASE h.sensitive /\ h.dangerous -> Critical
    [] h.sensitive \/ h.dangerous -> High
    [] OTHER -> Low

(* The grade of a process only the pool scan sees, and the flag it gets. *)
PoolGrade(p) ==
  LET kind == PoolRow(p)
      backed == Corroborating(p) # {}
  IN CASE kind = "exited" -> [severity |-> Info, flag |-> "terminated"]
       [] kind = "smeared" /\ ~backed -> [severity |-> Low, flag |-> "psscan-artifact"]
       [] kind # "exited" /\ backed -> [severity |-> IF kind = "live" THEN Critical ELSE High, flag |-> "hidden"]
       [] OTHER -> [severity |-> Medium, flag |-> "hidden-candidate"]

(* Kernel: loaded and pool are functions from module names to the place of   *)
(* the file, "system", "odd" or "none".                                      *)
HaveModules == DOMAIN dump.kernel.loaded # {}
PoolOnly == IF HaveModules THEN DOMAIN dump.kernel.pool \ DOMAIN dump.kernel.loaded ELSE {}

DriverGrade(d) ==
  CASE d \in dump.kernel.callbacks \cup dump.kernel.ssdt -> Critical
    [] d \in dump.kernel.flagged \ (dump.kernel.callbacks \cup dump.kernel.ssdt) -> High
    [] OTHER -> IF dump.kernel.pool[d] = "system" THEN Low ELSE Medium

(* _grade_kernel_pointer *)
PointerGrade(m) ==
  CASE m = Unattributed -> Medium
    [] m \in PoolOnly -> Critical
    [] m \in DOMAIN dump.kernel.loaded -> IF dump.kernel.loaded[m] = "odd" THEN Low ELSE Info
    [] OTHER -> IF HaveModules THEN High ELSE Info

-----------------------------------------------------------------------------
(* The passes. *)

MemoryInit ==
  /\ dump \in Dumps
  /\ stage = "open" /\ processes = <<>> /\ memory = {} /\ hidden = {}
  /\ ignored = [p \in Pids |-> {}]

Pass(at, to) == stage = at /\ stage' = to

(* MemProcFS is not installed, or the image is opened and its maps collected. *)
Unavailable == Pass("open", "done") /\ UNCHANGED <<dump, processes, memory, hidden, ignored>>

Collect == Pass("open", IF dump.forensic THEN "findevil" ELSE "pslist")
           /\ UNCHANGED <<dump, processes, memory, hidden, ignored>>

Diagnostic == Row("memprocfs_forensics", Absent, Low)

(* A CSV file that cannot be parsed is rolled back and noted. *)
FindEvilCsv(parsed) ==
  /\ Pass("findevil", "process-csv")
  /\ memory' = memory \cup (IF parsed THEN {Row("memprocfs_findevil", p, High) : p \in {q \in Pids : Evil(q) # {}}}
                            ELSE {Diagnostic})
  /\ UNCHANGED <<dump, processes, hidden, ignored>>

(* The process CSV is ingested before the process list is. *)
ProcessCsv(parsed) ==
  LET named == SetToSeq({p \in Pids : See(p).csv # "none"})
  IN /\ Pass("process-csv", "pslist")
     /\ processes' = IF parsed THEN [i \in DOMAIN named |-> Process(named[i], {}, Info)] ELSE processes
     /\ memory' = IF parsed THEN memory ELSE memory \cup {Diagnostic}
     /\ UNCHANGED <<dump, hidden, ignored>>

Pslist ==
  LET listed == SetToSeq(Listed)
  IN /\ Pass("pslist", "psscan")
     /\ processes' = processes \o [i \in DOMAIN listed |-> Process(listed[i], {}, Info)]
     /\ UNCHANGED <<dump, memory, hidden, ignored>>

Psscan ==
  LET unlisted == {p \in Pids \ Listed : PoolRow(p) # "none"}
      found == SetToSeq(unlisted)
      reused == {p \in Listed : PoolRow(p) = "reused"}
  IN /\ Pass("psscan", "drivers")
     /\ hidden' = {p \in unlisted : PoolGrade(p).flag \in {"hidden", "hidden-candidate"}}
     /\ processes' = processes \o
          [i \in DOMAIN found |-> Process(found[i], {PoolGrade(found[i]).flag}, PoolGrade(found[i]).severity)]
     /\ memory' = memory \cup {Row("psscan", p, PoolGrade(p).severity) : p \in unlisted}
                         \cup {Row("psscan", p, Info) : p \in reused}
     /\ UNCHANGED <<dump, ignored>>

HiddenDrivers ==
  /\ Pass("drivers", "pointers")
  /\ memory' = memory \cup {Row("hidden-driver", d, DriverGrade(d)) : d \in PoolOnly}
  /\ UNCHANGED <<dump, processes, hidden, ignored>>

(* Without a modules list the system call table is graded by name alone. *)
KernelPointers ==
  LET ssdt == {m \in dump.kernel.ssdt : ~HaveModules \/ PointerGrade(m) > Info}
  IN /\ Pass("pointers", "malfind")
     /\ memory' = memory
          \cup {Row("callbacks", m, PointerGrade(m)) : m \in dump.kernel.callbacks}
          \cup {Row("ssdt", m, IF HaveModules THEN PointerGrade(m) ELSE Medium) : m \in ssdt}
     /\ UNCHANGED <<dump, processes, hidden, ignored>>

InjectedCode ==
  /\ Pass("malfind", "ldrmodules")
  /\ memory' = memory \cup {MalfindRow(p) : p \in Malfind}
  /\ UNCHANGED <<dump, processes, hidden, ignored>>

ModuleLinkage ==
  /\ Pass("ldrmodules", "skeleton")
  /\ memory' = memory \cup (UNION {LdrRows(p) : p \in Pids})
                      \cup {DllRow(p) : p \in DllMismatch \ LdrExeLevel}
  /\ UNCHANGED <<dump, processes, hidden, ignored>>

SkeletonKey ==
  LET patched == {p \in Pids : See(p).skeleton}
  IN /\ Pass("skeleton", "network")
     /\ memory' = memory \cup {Row("skeleton_key", p, Critical) : p \in patched}
     /\ processes' = MarkProcess(processes, {MarkOf(p, "skeleton-key", Critical) : p \in patched})
     /\ UNCHANGED <<dump, hidden, ignored>>

(* Mutant: any remote address of a process with malfind rows will do. *)
SuspectConnectionAnywhere(p) == See(p).net # "none"

SuspectConnection(p) ==
  \/ p \in hidden /\ See(p).net # "none"
  \/ p \in Malfind /\ External(p)

Network ==
  LET suspects == {p \in Pids : SuspectConnection(p)}
  IN /\ Pass("network", "handles")
     /\ memory' = memory \cup {Row("netscan", p, High) : p \in suspects}
     /\ processes' = MarkProcess(processes, {MarkOf(p, "suspicious-network", High) : p \in suspects})
     /\ UNCHANGED <<dump, hidden, ignored>>

Handles ==
  LET risky == {p \in Pids : \E h \in See(p).handles : HandleGrade(h) >= High}
      risk(p) == Worst({HandleGrade(h) : h \in See(p).handles})
  IN /\ Pass("handles", "services")
     /\ memory' = memory \cup {Row("handles", p, risk(p)) : p \in risky}
     /\ processes' = MarkProcess(processes, {MarkOf(p, "cross-process", risk(p)) : p \in risky})
     /\ UNCHANGED <<dump, hidden, ignored>>

(* A service that runs from a place any user can write to. *)
Services ==
  /\ Pass("services", "dampen")
  /\ memory' = IF dump.staged THEN memory \cup {Row("svcscan", Absent, Medium)} ELSE memory
  /\ UNCHANGED <<dump, processes, hidden, ignored>>

(* The classes that fired on more than MinProcesses processes and on more    *)
(* than the given share of the listed ones.                                  *)
Widespread ==
  {c \in {r.class : r \in memory} \ {Absent} :
     LET fired == Cardinality({r.subject : r \in {s \in memory : s.class = c}})
     IN fired > MinProcesses /\ 100 * fired > Percent * Worst({1, Cardinality(Listed)})}

Damped(r) == [r EXCEPT !.severity = IF @ > Low THEN Low ELSE @]

(* Mutant: the flags of a widespread class still count. *)
DampenForgetful ==
  LET graded == {IF r.class \in Widespread THEN Damped(r) ELSE r : r \in memory}
  IN /\ Pass("dampen", "correlate")
     /\ memory' = graded \cup {[Row("prevalence", Absent, Low) EXCEPT !.basis = {c}] : c \in Widespread}
     /\ processes' = MarkProcess(processes, {MarkOf(r.subject, r.flag, r.severity) : r \in {s \in graded : s.class # Absent}})
     /\ UNCHANGED <<dump, hidden, ignored>>

(* _PrevalenceTracker.apply *)
Dampen ==
  LET graded == {IF r.class \in Widespread THEN Damped(r) ELSE r : r \in memory}
  IN /\ Pass("dampen", "correlate")
     /\ memory' = graded \cup {[Row("prevalence", Absent, Low) EXCEPT !.basis = {c}] : c \in Widespread}
     /\ processes' = MarkProcess(processes, {MarkOf(r.subject, r.flag, r.severity) : r \in {s \in graded : s.class # Absent}})
     /\ ignored' = [p \in Pids |-> {r.flag : r \in {s \in memory : s.subject = p /\ s.class \in Widespread}}]
     /\ UNCHANGED <<dump, hidden>>

SuspiciousFlags(row) == (row.flags \cap SUSPICIOUS_MEMORY_FLAGS) \ ignored[row.pid]

Correlate ==
  LET composite == {i \in DOMAIN processes : Cardinality(SuspiciousFlags(processes[i])) >= 2}
  IN /\ Pass("correlate", "yara")
     /\ memory' = memory \cup
          {[Row("correlation", processes[i].pid, Critical) EXCEPT !.basis = SuspiciousFlags(processes[i])] : i \in composite}
     /\ processes' = [i \in DOMAIN processes |->
          IF i \in composite THEN [processes[i] EXCEPT !.severity = Critical] ELSE processes[i]]
     /\ UNCHANGED <<dump, hidden, ignored>>

(* The regions malfind sampled are scanned, then the file for the rule if no *)
(* region had it; YARA marks come last.                                      *)
YaraScan ==
  LET matched == {p \in Malfind : See(p).yara}
  IN /\ Pass("yara", "detect")
     /\ memory' = memory \cup {Row("yara", p, High) : p \in matched}
          \cup (IF dump.signature /\ matched = {} THEN {Row("yara", Absent, High)} ELSE {})
     /\ processes' = MarkProcess(processes, {MarkOf(p, "yara-hit", High) : p \in matched})
     /\ UNCHANGED <<dump, hidden, ignored>>

(* Maps that could not be collected are noted, and a detection run follows. *)
Detect ==
  /\ Pass("detect", "done")
  /\ memory' = IF dump.incomplete THEN memory \cup {Row("diagnostics", Absent, Info)} ELSE memory
  /\ UNCHANGED <<dump, processes, hidden, ignored>>

Fail ==
  /\ stage \notin {"done", "failed"} /\ stage' = "failed"
  /\ UNCHANGED <<dump, processes, memory, hidden, ignored>>

MemoryNext ==
  \/ Unavailable \/ Collect
  \/ \E parsed \in BOOLEAN : FindEvilCsv(parsed) \/ ProcessCsv(parsed)
  \/ Pslist \/ Psscan \/ HiddenDrivers \/ KernelPointers \/ InjectedCode \/ ModuleLinkage
  \/ SkeletonKey \/ Network \/ Handles \/ Services \/ Dampen \/ Correlate \/ YaraScan \/ Detect
  \/ Fail

MemorySpec == MemoryInit /\ [][MemoryNext]_memoryVars

-----------------------------------------------------------------------------
(* Properties.  They refer to the views of the dump, not to the grades. *)

(* The artifacts that speak about a process, each from a view of its own,    *)
(* and the classes of the dampener they fall under.                          *)
Disagrees(p) == \* dlllist against the process, or against ldrmodules
  \/ p \in DllMismatch
  \/ See(p).dlls # <<>> /\ \E row \in Reported(p) : \A i \in DOMAIN See(p).dlls : See(p).dlls[i] # row.image

(* The main image under a name that one of the lists gives it. *)
Unmapped(p) ==
  \/ \E row \in Reported(p) : ExeLevel(row) /\ ExeVadAnomalous(p, row.image)
  \/ p \in DllMismatch /\ ExeVadAnomalous(p, See(p).dlls[1])

(* A listed process is in the pool scan and leaves traces like any other; it *)
(* is an address outside that says something.                                *)
Seen(p) ==
  IF p \in Listed THEN IF External(p) THEN {"network-connections"} ELSE {}
  ELSE Corroborating(p) \cup IF PoolRow(p) # "none" THEN {"pool-scan"} ELSE {}

Artifacts(p) ==
  Seen(p)
  \cup (IF p \in Malfind THEN {"region"} ELSE {})
  \cup (IF p \in LdrExeLevel THEN {"exe-linkage"} ELSE {})
  \cup (IF \E row \in Reported(p) : ~ExeLevel(row) THEN {"module-linkage"} ELSE {})
  \cup (IF Disagrees(p) THEN {"load-order"} ELSE {})
  \cup (IF Unmapped(p) THEN {"image-vad"} ELSE {})

(* What the code takes for proof by itself. *)
Conclusive(p) ==
  \/ \E r \in See(p).regions : r.mz \/ (r.thread /\ r.shape # "file-backed")
  \/ See(p).skeleton \/ See(p).yara
  \/ \E h \in See(p).handles : h.sensitive \/ h.dangerous

(* A single anomalous view is a lead, not a verdict: a process graded high   *)
(* or critical is spoken about by two artifacts, or by a conclusive one.     *)
LeadsStayLeads ==
  \A i \in DOMAIN processes : processes[i].severity >= High =>
    Conclusive(processes[i].pid) \/ Cardinality(Artifacts(processes[i].pid)) >= 2

ClassOf(flag) ==
  CASE flag \in {"injected", "rwx-anomaly"} -> "malfind-region"
    [] flag = "hollowing-suspect" -> "exe-anomaly"
    [] flag = "unlinked-module" -> "unlinked-module"
    [] OTHER -> Absent

(* A composite verdict counts no flag of a widespread class. *)
CompositesIgnoreWidespread ==
  \A r \in memory : r.plugin = "correlation" =>
    \A flag \in r.basis : ClassOf(flag) \notin Widespread

(* One region's evidence must not yield two flags: who is both injected and  *)
(* a hollowing suspect shows an injection apart from what the loader lists   *)
(* say, in a region, the pool scan or the network.                           *)
InjectedStandsAlone ==
  \A r, s \in memory :
    /\ r.flag = "injected" /\ s.flag = "hollowing-suspect" /\ r.subject = s.subject
    => \/ \E region \in See(r.subject).regions : region.mz \/ region.thread
       \/ r.subject \in hidden \/ External(r.subject)

=============================================================================

---------------------------- MODULE CorrelationProofs ----------------------------
(***************************************************************************)
(* What is proved of the conclusions the engine and the map draw.          *)
(*                                                                         *)
(* The analysis of a memory dump: for any dumps, processes and thresholds, *)
(* a process is graded high only when two artifacts or a conclusive one    *)
(* speak about it, a composite verdict counts no flag of a widespread      *)
(* class, and an injection shows itself apart from what the loader lists   *)
(* say.  The strengthening says of every flag a process has which artifact *)
(* stands behind it, so that two flags stand for two artifacts.            *)
(*                                                                         *)
(* The cache of the entity map never passes an old map for a current one,  *)
(* and a request that no commit met is answered from the case as it is,    *)
(* for any requests, rows, cache size and number of commits.  What a map   *)
(* is does not matter: that proof never opens Answered.  The strengthening *)
(* counts in commits.  Rows read while the last commit is still the one    *)
(* the fingerprint saw are the rows of now; every commit makes that        *)
(* premise false for all requests and entries at once.                     *)
(*                                                                         *)
(* The map itself is a fold over the findings.  For any rows, a finding in *)
(* force shows, nothing else does, and a manual finding that names a path  *)
(* is tied to other paths only by events that have both.                   *)
(*                                                                         *)
(* Where a program came from: for any rows a machine can leave, the five   *)
(* indexes lose no rename and no deletion, and while names tell files      *)
(* apart, what is told of a file is about that file.  When besides no row  *)
(* of a rename is missing, a download that ran is told with every name it  *)
(* had: the pairs that the rows give are the moves of the file, each once  *)
(* and in their order, and its artifact takes them one by one.             *)
(***************************************************************************)
EXTENDS EntityGraph, MemoryAnalysis, Provenance, SequenceTheorems, FiniteSetTheorems, TLAPS

(* The analysis of a memory dump. *)

Lead(p) == Conclusive(p) \/ Cardinality(Artifacts(p)) >= 2

\* What stands behind a flag that the correlation counts.
Speaks(flag, p) ==
  /\ flag \in {"hidden", "suspicious-network", "skeleton-key", "cross-process", "yara-hit"} => Lead(p)
  /\ flag = "hidden-candidate" => "pool-scan" \in Artifacts(p)
  /\ flag = "injected" => "region" \in Artifacts(p)
  /\ flag = "hollowing-suspect" => "exe-linkage" \in Artifacts(p) \/ "load-order" \in Artifacts(p)
  /\ flag = "unlinked-module" => "module-linkage" \in Artifacts(p)

Fields(r) ==
  r = [plugin |-> r.plugin, subject |-> r.subject, severity |-> r.severity,
       class |-> r.class, flag |-> r.flag, basis |-> r.basis]

\* A row the dampener knows is about a process, and its class is that of its flag.
RowHolds(r) ==
  /\ Fields(r)
  /\ \/ r.class = Absent /\ r.flag = Absent
     \/ /\ r.subject \in Pids /\ r.flag \in ClassFlags /\ r.class = ClassOf(r.flag)
        /\ r.severity \in Grades /\ (r.severity >= High => Lead(r.subject))
        /\ Speaks(r.flag, r.subject)

Flags == SUSPICIOUS_MEMORY_FLAGS \cup {"rwx-anomaly", "terminated", "psscan-artifact"}

ProcessRows == [pid : Pids, flags : SUBSET Flags, severity : Grades]

ProcessHolds(row) ==
  /\ row.severity >= High => Lead(row.pid)
  /\ \A flag \in row.flags : Speaks(flag, row.pid)

HiddenHolds == \A p \in hidden : p \in Pids \ Listed /\ PoolRow(p) # "none"

LeadInv ==
  /\ dump \in Dumps
  /\ processes \in Seq(ProcessRows)
  /\ \A i \in DOMAIN processes, row \in ProcessRows : row = processes[i] => ProcessHolds(row)
  /\ \A r \in memory : RowHolds(r)
  /\ HiddenHolds

-----------------------------------------------------------------------------

LEMMA WorstIn ==
  ASSUME NEW S, S \subseteq Grades
  PROVE  /\ Worst(S) \in Grades
         /\ S # {} => Worst(S) \in S
         /\ \A s \in S : s <= Worst(S)
<1>1. CASE S = {}
  BY <1>1 DEF Worst, Info, Grades
<1>2. CASE S # {}
  <2>1. \E x \in S : \A y \in S : x >= y
    <3>1. CASE 4 \in S
      BY <3>1 DEF Grades
    <3>2. CASE 4 \notin S /\ 3 \in S
      BY <3>2 DEF Grades
    <3>3. CASE 4 \notin S /\ 3 \notin S /\ 2 \in S
      BY <3>3 DEF Grades
    <3>4. CASE 4 \notin S /\ 3 \notin S /\ 2 \notin S /\ 1 \in S
      BY <3>4 DEF Grades
    <3>5. CASE 4 \notin S /\ 3 \notin S /\ 2 \notin S /\ 1 \notin S
      <4>1. \A s \in S : s = 0
        BY <3>5 DEF Grades
      <4> QED
        BY <1>2, <4>1
    <3> QED
      BY <3>1, <3>2, <3>3, <3>4, <3>5
  <2>2. Max(S) \in S /\ \A y \in S : Max(S) >= y
    BY <2>1 DEF Max
  <2> QED
    BY <1>2, <2>2 DEF Worst, Grades
<1> QED
  BY <1>1, <1>2

LEMMA ArtifactsFinite ==
  ASSUME dump \in Dumps, NEW p \in Pids
  PROVE  IsFiniteSet(Artifacts(p))
<1> DEFINE A == {"cmdline", "handles", "envars", "privileges", "getsids", "parent-of-visible-process"}
           B == {"network-connections", "suspicious-threads", "pool-scan", "region"}
           C == {"exe-linkage", "module-linkage", "load-order", "image-vad"}
<1>1. IsFiniteSet(A \cup B \cup C)
  <2>1. \A S, x : IsFiniteSet(S) => IsFiniteSet(S \cup {x})
    BY FS_AddElement
  <2>2. IsFiniteSet({})
    BY FS_EmptySet
  <2>3. IsFiniteSet(A)
    <3>1. IsFiniteSet((((((({} \cup {"cmdline"}) \cup {"handles"}) \cup {"envars"}) \cup {"privileges"}) \cup {"getsids"}) \cup {"parent-of-visible-process"}))
      BY <2>1, <2>2
    <3> QED
      BY <3>1, (((((({} \cup {"cmdline"}) \cup {"handles"}) \cup {"envars"}) \cup {"privileges"}) \cup {"getsids"}) \cup {"parent-of-visible-process"}) = A
  <2>4. IsFiniteSet(B)
    <3>1. IsFiniteSet((((({} \cup {"network-connections"}) \cup {"suspicious-threads"}) \cup {"pool-scan"}) \cup {"region"}))
      BY <2>1, <2>2
    <3> QED
      BY <3>1, (((({} \cup {"network-connections"}) \cup {"suspicious-threads"}) \cup {"pool-scan"}) \cup {"region"}) = B
  <2>5. IsFiniteSet(C)
    <3>1. IsFiniteSet((((({} \cup {"exe-linkage"}) \cup {"module-linkage"}) \cup {"load-order"}) \cup {"image-vad"}))
      BY <2>1, <2>2
    <3> QED
      BY <3>1, (((({} \cup {"exe-linkage"}) \cup {"module-linkage"}) \cup {"load-order"}) \cup {"image-vad"}) = C
  <2> HIDE DEF A, B, C
  <2> QED
    BY <2>3, <2>4, <2>5, FS_Union
<1>2. See(p).traces \subseteq A
  BY DumpsAssumption DEF See, Traces
<1>3. Artifacts(p) \subseteq A \cup B \cup C
  BY <1>2 DEF Artifacts, Seen, Corroborating
<1> QED
  BY <1>1, <1>3, FS_Subset

\* Two different artifacts make a lead a verdict.
LEMMA TwoSpeak ==
  ASSUME dump \in Dumps, NEW p \in Pids, NEW a \in Artifacts(p), NEW b \in Artifacts(p), a # b
  PROVE  Lead(p)
<1>1. IsFiniteSet({a, b}) /\ Cardinality({a, b}) = 2
  <2>1. IsFiniteSet({a}) /\ Cardinality({a}) = 1
    BY FS_Singleton
  <2>2. IsFiniteSet({a} \cup {b}) /\ Cardinality({a} \cup {b}) = Cardinality({a}) + 1
    BY <2>1, FS_AddElement, b \notin {a}
  <2>3. {a, b} = {a} \cup {b}
    OBVIOUS
  <2> QED
    BY <2>1, <2>2, <2>3
<1>2. Cardinality({a, b}) <= Cardinality(Artifacts(p))
  BY ArtifactsFinite, FS_Subset, {a, b} \in SUBSET Artifacts(p)
<1>3. Cardinality(Artifacts(p)) \in Nat
  BY ArtifactsFinite, FS_CardinalityType
<1> QED
  BY <1>1, <1>2, <1>3 DEF Lead

LEMMA WorstOfTwo ==
  ASSUME NEW a \in Int, NEW b \in Int
  PROVE  Worst({a, b}) = IF a >= b THEN a ELSE b
<1> DEFINE m == IF a >= b THEN a ELSE b
<1>1. m \in {a, b} /\ \A y \in {a, b} : m >= y
  OBVIOUS
<1>2. \A x \in {a, b} : (\A y \in {a, b} : x >= y) => x = m
  OBVIOUS
<1>3. Max({a, b}) = m
  BY <1>1, <1>2 DEF Max
<1> QED
  BY <1>3 DEF Worst

-----------------------------------------------------------------------------
(* What the passes say about a process. *)

\* A process only the pool scan sees is hidden when something else saw it too.
LEMMA PoolSpeaks ==
  ASSUME dump \in Dumps, NEW p \in Pids \ Listed, PoolRow(p) # "none"
  PROVE  /\ PoolGrade(p).severity \in Grades /\ PoolGrade(p).flag \in Flags
         /\ PoolGrade(p).severity >= High => Lead(p)
         /\ Speaks(PoolGrade(p).flag, p)
<1>1. "pool-scan" \in Artifacts(p)
  BY DEF Artifacts, Seen
<1>2. Corroborating(p) # {} => Lead(p)
  <2>1. Corroborating(p) \subseteq Artifacts(p)
    BY DEF Artifacts, Seen
  <2>2. "pool-scan" \notin Corroborating(p)
    BY DumpsAssumption DEF Corroborating, Traces, See
  <2> QED
    BY <1>1, <2>1, <2>2, TwoSpeak
<1>3. \/ PoolGrade(p) = [severity |-> Info, flag |-> "terminated"]
      \/ PoolGrade(p) = [severity |-> Low, flag |-> "psscan-artifact"]
      \/ /\ Corroborating(p) # {}
         /\ PoolGrade(p) = [severity |-> IF PoolRow(p) = "live" THEN Critical ELSE High, flag |-> "hidden"]
      \/ PoolGrade(p) = [severity |-> Medium, flag |-> "hidden-candidate"]
  BY DEF PoolGrade
<1>4. ASSUME NEW severity, NEW flag, PoolGrade(p) = [severity |-> severity, flag |-> flag]
      PROVE  PoolGrade(p).severity = severity /\ PoolGrade(p).flag = flag
  BY <1>4
<1>5. /\ PoolGrade(p).severity \in Grades /\ PoolGrade(p).flag \in {"terminated", "psscan-artifact", "hidden", "hidden-candidate"}
      /\ PoolGrade(p).severity >= High \/ PoolGrade(p).flag = "hidden" => Corroborating(p) # {}
  BY <1>3, <1>4 DEF Grades, Info, Low, Medium, High, Critical
<1>6. Speaks(PoolGrade(p).flag, p)
  BY <1>1, <1>2, <1>5 DEF Speaks
<1>7. PoolGrade(p).flag \in Flags
  BY <1>5 DEF Flags, SUSPICIOUS_MEMORY_FLAGS
<1> QED
  BY <1>2, <1>5, <1>6, <1>7

LEMMA CorroboratedTwice ==
  ASSUME dump \in Dumps, HiddenHolds, NEW p \in Malfind, ProcCorroborated(p) # {}
  PROVE  Lead(p)
<1>1. p \in Pids /\ "region" \in Artifacts(p)
  BY DEF Artifacts, Malfind
<1>2. CASE p \in hidden
  <2>1. "pool-scan" \in Artifacts(p)
    BY <1>2 DEF HiddenHolds, Artifacts, Seen
  <2> QED
    BY <1>1, <2>1, TwoSpeak
<1>3. CASE p \in LdrExeLevel
  <2>1. "exe-linkage" \in Artifacts(p)
    BY <1>3 DEF Artifacts
  <2> QED
    BY <1>1, <2>1, TwoSpeak
<1>4. CASE p \in DllMismatch
  <2>1. "load-order" \in Artifacts(p)
    BY <1>4 DEF Artifacts, Disagrees
  <2> QED
    BY <1>1, <2>1, TwoSpeak
<1>5. CASE External(p)
  <2>1. "network-connections" \in Artifacts(p)
    BY <1>5 DEF Artifacts, Seen, Corroborating, External
  <2> QED
    BY <1>1, <2>1, TwoSpeak
<1> QED
  BY <1>2, <1>3, <1>4, <1>5 DEF ProcCorroborated

LEMMA RegionSpeaks ==
  ASSUME dump \in Dumps, HiddenHolds, NEW p \in Malfind, NEW region \in See(p).regions
  PROVE  /\ RegionGrade(region, Jit(p), ProcCorroborated(p)) \in Grades
         /\ RegionGrade(region, Jit(p), ProcCorroborated(p)) >= High => Lead(p)
<1> DEFINE base == CASE region.mz -> Critical
                     [] ~region.mz /\ ~region.content -> Low
                     [] ~region.mz /\ region.content /\ ProcCorroborated(p) # {} -> High
                     [] OTHER -> IF Jit(p) THEN Low ELSE Medium
<1>1. RegionGrade(region, Jit(p), ProcCorroborated(p)) = VadGrade(base, region, Jit(p))
  BY DEF RegionGrade
<1>2. base \in Grades /\ (base >= High /\ ~region.mz => ProcCorroborated(p) # {})
  BY DEF Grades, Low, Medium, High, Critical
<1>3. /\ Worst({base - 1, Info}) \in Grades /\ Worst({base - 1, Info}) <= base
      /\ \A s \in {High, Critical} : Worst({base, s}) \in Grades
  <2> HIDE DEF base
  <2> QED
    BY <1>2, WorstOfTwo DEF Grades, Info, High, Critical
<1>4. region.mz \/ (region.thread /\ region.shape # "file-backed") => Lead(p)
  BY DEF Lead, Conclusive
<1>5. VadGrade(base, region, Jit(p)) \in Grades
  <2> HIDE DEF base
  <2> QED
    BY <1>2, <1>3 DEF VadGrade
<1>6. ASSUME VadGrade(base, region, Jit(p)) >= High, ~region.mz, ~(region.thread /\ region.shape # "file-backed")
      PROVE  base >= High
  <2> HIDE DEF base
  <2> QED
    BY <1>2, <1>3, <1>6 DEF VadGrade, Grades, High
<1> QED
  BY <1>1, <1>2, <1>4, <1>5, <1>6, CorroboratedTwice

LEMMA MalfindHolds ==
  ASSUME dump \in Dumps, HiddenHolds, NEW p \in Malfind
  PROVE  RowHolds(MalfindRow(p))
<1> DEFINE S == {RegionGrade(r, Jit(p), ProcCorroborated(p)) : r \in See(p).regions}
<1>1. Worst(S) \in Grades /\ Worst(S) \in S
  <2>1. S \subseteq Grades
    BY RegionSpeaks
  <2>2. S # {}
    BY DEF Malfind
  <2> HIDE DEF S
  <2> QED
    BY <2>1, <2>2, WorstIn
<1>2. Worst(S) >= High => Lead(p)
  BY <1>1, RegionSpeaks
<1>3. p \in Pids /\ "region" \in Artifacts(p)
  BY DEF Artifacts, Malfind
<1>4. /\ MalfindRow(p).subject = p /\ MalfindRow(p).severity = Worst(S)
      /\ MalfindRow(p).class = "malfind-region" /\ MalfindRow(p).flag \in {"injected", "rwx-anomaly"}
      /\ Fields(MalfindRow(p))
  BY DEF MalfindRow, Registered, Fields
<1> HIDE DEF S
<1> QED
  BY <1>1, <1>2, <1>3, <1>4 DEF RowHolds, ClassFlags, ClassOf, Speaks

LEMMA ExeGradeIs ==
  ASSUME NEW basis
  PROVE  ExeGrade(basis) \in Grades /\ (ExeGrade(basis) >= High => basis # {})
BY DEF ExeGrade, Grades, Medium, High, Critical

LEMMA LdrHolds ==
  ASSUME dump \in Dumps, NEW p \in Pids, NEW row \in Reported(p)
  PROVE  RowHolds(LdrRow(p, row))
<1>1. CASE ~ExeLevel(row)
  <2>1. LdrRow(p, row) = Registered("ldrmodules", p, Medium, "unlinked-module", "unlinked-module", {})
    BY <1>1 DEF LdrRow
  <2>2. "module-linkage" \in Artifacts(p)
    BY <1>1 DEF Artifacts
  <2> QED
    BY <2>1, <2>2 DEF RowHolds, Fields, Registered, ClassFlags, ClassOf, Speaks, Grades, Medium, High
<1>2. CASE ExeLevel(row)
  <2> DEFINE basis == LdrRow(p, row).basis
  <2>1. /\ LdrRow(p, row).severity = ExeGrade(basis) /\ LdrRow(p, row).subject = p
        /\ LdrRow(p, row).class = "exe-anomaly" /\ LdrRow(p, row).flag = "hollowing-suspect"
        /\ Fields(LdrRow(p, row))
    BY <1>2 DEF LdrRow, Registered, Fields
  <2>2. "exe-linkage" \in Artifacts(p)
    BY <1>2 DEF Artifacts, LdrExeLevel
  <2>3. ASSUME basis # {}
        PROVE  Lead(p)
    <3>1. \/ p \in Malfind \/ p \in DllMismatch \/ ExeVadAnomalous(p, row.image)
          \/ row.image \notin {See(p).dlls[i] : i \in DOMAIN See(p).dlls}
             /\ {See(p).dlls[i] : i \in DOMAIN See(p).dlls} # {}
      BY <1>2, <2>3 DEF LdrRow, Registered
    <3>2. CASE p \in Malfind
      <4>1. "region" \in Artifacts(p)
        BY <3>2 DEF Artifacts
      <4> QED
        BY <2>2, <4>1, TwoSpeak
    <3>3. CASE Disagrees(p)
      <4>1. "load-order" \in Artifacts(p)
        BY <3>3 DEF Artifacts
      <4> QED
        BY <2>2, <4>1, TwoSpeak
    <3>4. CASE ExeVadAnomalous(p, row.image)
      <4>1. "image-vad" \in Artifacts(p)
        BY <1>2, <3>4 DEF Artifacts, Unmapped
      <4> QED
        BY <2>2, <4>1, TwoSpeak
    <3>5. /\ {See(p).dlls[i] : i \in DOMAIN See(p).dlls} # {} => See(p).dlls # <<>>
          /\ row.image \notin {See(p).dlls[i] : i \in DOMAIN See(p).dlls} =>
               \A i \in DOMAIN See(p).dlls : See(p).dlls[i] # row.image
      OBVIOUS
    <3> QED
      BY <3>1, <3>2, <3>3, <3>4, <3>5 DEF Disagrees
  <2> HIDE DEF basis
  <2> QED
    BY <2>1, <2>2, <2>3, ExeGradeIs DEF RowHolds, ClassFlags, ClassOf, Speaks
<1> QED
  BY <1>1, <1>2

LEMMA DllHolds ==
  ASSUME dump \in Dumps, NEW p \in DllMismatch
  PROVE  RowHolds(DllRow(p))
<1> DEFINE basis == DllRow(p).basis
<1>1. /\ DllRow(p).severity = ExeGrade(basis) /\ DllRow(p).subject = p
      /\ DllRow(p).class = "exe-anomaly" /\ DllRow(p).flag = "hollowing-suspect"
      /\ Fields(DllRow(p))
  BY DEF DllRow, Registered, Fields
<1>2. p \in Pids /\ "load-order" \in Artifacts(p)
  BY DEF Artifacts, Disagrees, DllMismatch, Listed
<1>3. ASSUME basis # {}
      PROVE  Lead(p)
  <2>1. p \in Malfind \/ ExeVadAnomalous(p, See(p).dlls[1])
    BY <1>3 DEF DllRow, Registered
  <2>2. "region" \in Artifacts(p) \/ "image-vad" \in Artifacts(p)
    BY <2>1 DEF Artifacts, Unmapped
  <2> QED
    BY <1>2, <2>2, TwoSpeak
<1> HIDE DEF basis
<1> QED
  BY <1>1, <1>2, <1>3, ExeGradeIs DEF RowHolds, ClassFlags, ClassOf, Speaks

-----------------------------------------------------------------------------
(* What the passes write. *)

MarkHolds(m) ==
  /\ m.flag \in Flags /\ m.severity \in Grades
  /\ m.severity >= High => Lead(m.pid)
  /\ Speaks(m.flag, m.pid)

LEMMA MarksHold ==
  ASSUME NEW table \in Seq(ProcessRows), \A i \in DOMAIN table : ProcessHolds(table[i]),
         NEW marks, \A m \in marks : MarkHolds(m)
  PROVE  /\ MarkProcess(table, marks) \in Seq(ProcessRows)
         /\ \A i \in DOMAIN MarkProcess(table, marks) : ProcessHolds(MarkProcess(table, marks)[i])
<1> DEFINE new == MarkProcess(table, marks)
           first(i) == \A j \in DOMAIN table : table[j].pid = table[i].pid => i <= j
           mine(i) == {m \in marks : first(i) /\ m.pid = table[i].pid}
           worst(i) == Worst({table[i].severity} \cup {m.severity : m \in mine(i)})
<1>1. DOMAIN new = DOMAIN table
  BY DEF MarkProcess
<1>2. ASSUME NEW i \in DOMAIN table
      PROVE  /\ new[i] \in ProcessRows
             /\ ProcessHolds(new[i])
  <2>1. table[i] \in ProcessRows
    OBVIOUS
  <2>2. new[i] = [table[i] EXCEPT !.flags = @ \cup {m.flag : m \in mine(i)}, !.severity = worst(i)]
    BY DEF MarkProcess
  <2> HIDE DEF new
  <2>3. /\ {table[i].severity} \cup {m.severity : m \in mine(i)} \subseteq Grades
        /\ {m.flag : m \in mine(i)} \subseteq Flags
    BY <2>1 DEF MarkHolds, ProcessRows
  <2>4. worst(i) \in Grades /\ worst(i) \in {table[i].severity} \cup {m.severity : m \in mine(i)}
    BY <2>3, WorstIn
  <2>5. worst(i) >= High => Lead(table[i].pid)
    BY <2>4 DEF MarkHolds, ProcessHolds
  <2>6. \A flag \in table[i].flags \cup {m.flag : m \in mine(i)} : Speaks(flag, table[i].pid)
    BY DEF MarkHolds, ProcessHolds
  <2> HIDE DEF worst, mine
  <2>7. /\ new[i].pid = table[i].pid /\ new[i].severity = worst(i)
        /\ new[i].flags = table[i].flags \cup {m.flag : m \in mine(i)}
        /\ new[i] \in ProcessRows
    BY <2>1, <2>2, <2>3, <2>4 DEF ProcessRows
  <2> QED
    BY <2>5, <2>6, <2>7 DEF ProcessHolds
<1>3. new \in Seq(ProcessRows)
  <2>1. DOMAIN table = 1..Len(table) /\ Len(table) \in Nat
    OBVIOUS
  <2>2. new = [i \in 1..Len(table) |-> new[i]]
    BY <2>1 DEF MarkProcess
  <2> HIDE DEF new
  <2>3. \A i \in 1..Len(table) : new[i] \in ProcessRows
    BY <1>2, <2>1
  <2> QED
    BY <2>1, <2>2, <2>3
<1> QED
  BY <1>1, <1>2, <1>3

\* Process ids that are listed are those that were to be listed.
LEMMA ListingIs ==
  ASSUME NEW S \in SUBSET Pids
  PROVE  SetToSeq(S) \in [1..Cardinality(S) -> S] /\ Cardinality(S) \in Nat
<1>1. IsFiniteSet(S)
  BY PidsAssumption, FS_Subset
<1>2. Cardinality(S) \in Nat /\ ExistsBijection(1..Cardinality(S), S)
  BY <1>1, FS_CardinalityType
<1>3. \E f \in [1..Cardinality(S) -> S] : IsInjective(f)
  BY <1>2 DEF ExistsBijection, Bijection, Injection
<1> QED
  BY <1>2, <1>3 DEF SetToSeq

LEMMA AppendHolds ==
  ASSUME NEW table \in Seq(ProcessRows), \A i \in DOMAIN table : ProcessHolds(table[i]),
         NEW S \in SUBSET Pids, NEW new,
         DOMAIN new = DOMAIN SetToSeq(S),
         \A i \in DOMAIN new : new[i] \in ProcessRows /\ ProcessHolds(new[i]),
         new = [i \in DOMAIN new |-> new[i]]
  PROVE  /\ table \o new \in Seq(ProcessRows)
         /\ \A i \in DOMAIN (table \o new) : ProcessHolds((table \o new)[i])
<1>1. DOMAIN new = 1..Cardinality(S) /\ Cardinality(S) \in Nat
  BY ListingIs
<1>2. new \in Seq(ProcessRows)
  BY <1>1
<1> QED
  BY <1>2

\* The views of a dump do not change while it is analyzed.
LEMMA SameViews ==
  ASSUME dump' = dump
  PROVE  /\ Listed' = Listed /\ \A p : PoolRow(p)' = PoolRow(p)
         /\ \A p : Lead(p)' <=> Lead(p)
         /\ \A flag, p : Speaks(flag, p)' <=> Speaks(flag, p)
<1>1. \A p : See(p)' = See(p) /\ Evil(p)' = Evil(p)
  BY DEF See, Evil
<1>2. Listed' = Listed /\ Malfind' = Malfind
  BY <1>1 DEF Listed, Malfind
<1>3. DllMismatch' = DllMismatch
  BY <1>1, <1>2 DEF DllMismatch
<1>4. \A p : Reported(p)' = Reported(p)
  BY <1>1 DEF Reported
<1>5. LdrExeLevel' = LdrExeLevel
  BY <1>4 DEF LdrExeLevel
<1>6. \A p, name : ExeVadAnomalous(p, name)' <=> ExeVadAnomalous(p, name)
  BY <1>1 DEF ExeVadAnomalous
<1>7. \A p : /\ PoolRow(p)' = PoolRow(p)
             /\ Corroborating(p)' = Corroborating(p)
             /\ External(p)' <=> External(p)
  BY <1>1 DEF PoolRow, Corroborating, External
<1>8. \A p : (Disagrees(p)' <=> Disagrees(p)) /\ (Unmapped(p)' <=> Unmapped(p))
  BY <1>1, <1>3, <1>4, <1>6 DEF Disagrees, Unmapped
<1>9. \A p : Seen(p)' = Seen(p)
  BY <1>2, <1>7 DEF Seen
<1>10. \A p : Artifacts(p)' = Artifacts(p)
  BY <1>2, <1>4, <1>5, <1>8, <1>9 DEF Artifacts
<1>11. \A p : Conclusive(p)' <=> Conclusive(p)
  BY <1>1 DEF Conclusive
<1>12. \A p : Lead(p)' <=> Lead(p)
  BY <1>10, <1>11 DEF Lead
<1>13. \A flag, p : Speaks(flag, p)' <=> Speaks(flag, p)
  BY <1>10, <1>12 DEF Speaks
<1> QED
  BY <1>2, <1>7, <1>12, <1>13

\* What a pass may do, said with the dump as it was.
LEMMA LeadKept ==
  ASSUME LeadInv, dump' = dump,
         processes' \in Seq(ProcessRows), \A i \in DOMAIN processes' : ProcessHolds(processes'[i]),
         \A r \in memory' : RowHolds(r),
         \A p \in hidden' : p \in Pids \ Listed /\ PoolRow(p) # "none"
  PROVE  LeadInv'
<1>1. \A row : ProcessHolds(row)' <=> ProcessHolds(row)
  BY SameViews DEF ProcessHolds
<1>2. \A r : RowHolds(r)' <=> RowHolds(r)
  BY SameViews DEF RowHolds
<1>3. HiddenHolds'
  BY SameViews DEF HiddenHolds
<1>4. (\A i \in DOMAIN processes, row \in ProcessRows : row = processes[i] => ProcessHolds(row))'
  BY <1>1
<1>5. (\A r \in memory : RowHolds(r))'
  BY <1>2
<1> QED
  BY <1>3, <1>4, <1>5 DEF LeadInv

LEMMA PlainRow ==
  ASSUME NEW plugin, NEW subject, NEW severity
  PROVE  RowHolds(Row(plugin, subject, severity))
BY DEF Row, RowHolds, Fields

LEMMA PlainRowWith ==
  ASSUME NEW plugin, NEW subject, NEW severity, NEW basis
  PROVE  RowHolds([Row(plugin, subject, severity) EXCEPT !.basis = basis])
BY DEF Row, RowHolds, Fields

LEMMA TwoOf ==
  ASSUME NEW S, Cardinality(S) >= 2
  PROVE  \E a, b \in S : a # b
<1> SUFFICES ASSUME \A a, b \in S : a = b
             PROVE  FALSE
  OBVIOUS
<1>1. CASE S = {}
  BY <1>1, FS_EmptySet
<1>2. CASE S # {}
  <2>1. PICK x : S = {x}
    BY <1>2
  <2>2. Cardinality(S) = 1
    BY <2>1, FS_Singleton
  <2> QED
    BY <2>2
<1> QED
  BY <1>1, <1>2

\* Two flags that count stand for two artifacts.
LEMMA CompositeLeads ==
  ASSUME dump \in Dumps, NEW row \in ProcessRows, ProcessHolds(row),
         Cardinality(SuspiciousFlags(row)) >= 2
  PROVE  Lead(row.pid)
<1> DEFINE p == row.pid
<1> SUFFICES ASSUME ~Lead(p)
             PROVE  FALSE
  OBVIOUS
<1>1. p \in Pids
  BY DEF ProcessRows
<1>2. PICK a, b \in SuspiciousFlags(row) : a # b
  BY TwoOf
<1>3. ASSUME NEW flag \in SuspiciousFlags(row)
      PROVE  /\ Speaks(flag, p)
             /\ flag \in {"hidden-candidate", "injected", "hollowing-suspect", "unlinked-module"}
  <2>1. flag \in row.flags /\ flag \in SUSPICIOUS_MEMORY_FLAGS
    BY DEF SuspiciousFlags
  <2>2. Speaks(flag, p)
    BY <2>1 DEF ProcessHolds
  <2> HIDE DEF p
  <2> QED
    BY <2>1, <2>2 DEF Speaks, SUSPICIOUS_MEMORY_FLAGS
<1>4. \A x, y \in Artifacts(p) : x = y
  BY <1>1, TwoSpeak
<1> HIDE DEF p
<1> QED
  BY <1>2, <1>3, <1>4 DEF Speaks

LEMMA DampedHolds ==
  ASSUME NEW r, RowHolds(r), r.class # Absent
  PROVE  /\ RowHolds(Damped(r))
         /\ Damped(r).subject = r.subject /\ Damped(r).class = r.class
         /\ Damped(r).flag = r.flag /\ Damped(r).plugin = r.plugin
<1> DEFINE s == IF r.severity > Low THEN Low ELSE r.severity
<1>1. Damped(r) = [plugin |-> r.plugin, subject |-> r.subject, severity |-> s,
                   class |-> r.class, flag |-> r.flag, basis |-> r.basis]
  BY DEF RowHolds, Fields, Damped
<1>2. s \in Grades /\ ~(s >= High)
  BY DEF RowHolds, Grades, Low, High
<1> HIDE DEF s
<1> QED
  BY <1>1, <1>2 DEF RowHolds, Fields

\* A registered row marks its process.
LEMMA RegisteredMarks ==
  ASSUME NEW r, RowHolds(r), r.class # Absent
  PROVE  MarkHolds(MarkOf(r.subject, r.flag, r.severity))
BY DEF RowHolds, MarkHolds, MarkOf, Flags, ClassFlags, SUSPICIOUS_MEMORY_FLAGS

\* What every pass starts from.
LEMMA LeadInvUses ==
  ASSUME LeadInv
  PROVE  /\ dump \in Dumps /\ processes \in Seq(ProcessRows)
         /\ \A i \in DOMAIN processes : processes[i] \in ProcessRows /\ ProcessHolds(processes[i])
         /\ \A r \in memory : RowHolds(r)
         /\ HiddenHolds /\ \A p \in hidden : p \in Pids \ Listed /\ PoolRow(p) # "none"
<1>1. \A i \in DOMAIN processes : processes[i] \in ProcessRows
  BY DEF LeadInv
<1> QED
  BY <1>1 DEF LeadInv, HiddenHolds

LEMMA LeadInvInit == MemoryInit => LeadInv
<1> SUFFICES ASSUME MemoryInit
             PROVE  LeadInv
  OBVIOUS
<1> QED
  BY DEF MemoryInit, LeadInv, HiddenHolds

\* A process that is listed is unremarkable at first.
LEMMA ListedHolds ==
  ASSUME NEW p \in Pids
  PROVE  Process(p, {}, Info) \in ProcessRows /\ ProcessHolds(Process(p, {}, Info))
BY DEF Process, ProcessRows, ProcessHolds, Grades, Info, High

\* A pass that marks processes, and adds rows of its own.
LEMMA MarkingKeeps ==
  ASSUME LeadInv, NEW marks, \A m \in marks : MarkHolds(m),
         processes' = MarkProcess(processes, marks),
         \A r \in memory' : RowHolds(r), UNCHANGED <<dump, hidden>>
  PROVE  LeadInv'
<1>1. /\ processes' \in Seq(ProcessRows)
      /\ \A i \in DOMAIN processes' : ProcessHolds(processes'[i])
  BY LeadInvUses, MarksHold
<1> QED
  BY <1>1, LeadKept, LeadInvUses

\* A pass that only adds rows.
LEMMA AddingKeeps ==
  ASSUME LeadInv, \A r \in memory' : RowHolds(r), UNCHANGED <<dump, hidden, processes>>
  PROVE  LeadInv'
<1>1. /\ processes' \in Seq(ProcessRows)
      /\ \A i \in DOMAIN processes' : ProcessHolds(processes'[i])
  BY LeadInvUses
<1> QED
  BY <1>1, LeadKept, LeadInvUses

LEMMA ConclusiveLeads ==
  ASSUME NEW p, Conclusive(p)
  PROVE  \A flag \in {"skeleton-key", "cross-process", "yara-hit", "suspicious-network"},
            severity \in Grades : MarkHolds(MarkOf(p, flag, severity))
BY DEF MarkHolds, MarkOf, Lead, Speaks, Flags, SUSPICIOUS_MEMORY_FLAGS

LEMMA LeadInvStep == LeadInv /\ [MemoryNext]_memoryVars => LeadInv'
<1> SUFFICES ASSUME LeadInv, [MemoryNext]_memoryVars
             PROVE  LeadInv'
  OBVIOUS
<1> USE LeadInvUses
<1>1. ASSUME UNCHANGED <<dump, processes, memory, hidden>>
      PROVE  LeadInv'
  BY <1>1, AddingKeeps
<1>2. ASSUME NEW parsed \in BOOLEAN, FindEvilCsv(parsed)
      PROVE  LeadInv'
  BY <1>2, PlainRow, AddingKeeps DEF FindEvilCsv, Diagnostic
<1>3. ASSUME NEW parsed \in BOOLEAN, ProcessCsv(parsed)
      PROVE  LeadInv'
  <2> DEFINE S == {p \in Pids : See(p).csv # "none"}
             new == [i \in DOMAIN SetToSeq(S) |-> Process(SetToSeq(S)[i], {}, Info)]
  <2>1. \A r \in memory' : RowHolds(r)
    BY <1>3, PlainRow DEF ProcessCsv, Diagnostic
  <2>2. /\ new \in Seq(ProcessRows)
        /\ \A i \in DOMAIN new : ProcessHolds(new[i])
    <3>1. SetToSeq(S) \in [1..Cardinality(S) -> S] /\ Cardinality(S) \in Nat
      BY ListingIs
    <3>2. S \subseteq Pids
      OBVIOUS
    <3> HIDE DEF S
    <3>3. \A i \in 1..Cardinality(S) : Process(SetToSeq(S)[i], {}, Info) \in ProcessRows
                                        /\ ProcessHolds(Process(SetToSeq(S)[i], {}, Info))
      BY <3>1, <3>2, ListedHolds
    <3>4. new = [i \in 1..Cardinality(S) |-> Process(SetToSeq(S)[i], {}, Info)]
      BY <3>1
    <3> QED
      BY <3>1, <3>3, <3>4
  <2>3. /\ processes' \in Seq(ProcessRows)
        /\ \A i \in DOMAIN processes' : ProcessHolds(processes'[i])
    BY <1>3, <2>2 DEF ProcessCsv
  <2> QED
    BY <1>3, <2>1, <2>3, LeadKept DEF ProcessCsv
<1>4. CASE Pslist
  <2> DEFINE new == [i \in DOMAIN SetToSeq(Listed) |-> Process(SetToSeq(Listed)[i], {}, Info)]
  <2>1. Listed \in SUBSET Pids
    BY DEF Listed
  <2>2. /\ DOMAIN new = DOMAIN SetToSeq(Listed)
        /\ \A i \in DOMAIN new : new[i] \in ProcessRows /\ ProcessHolds(new[i])
        /\ new = [i \in DOMAIN new |-> new[i]]
    BY <2>1, ListingIs, ListedHolds
  <2>3. processes' = processes \o new
    BY <1>4 DEF Pslist
  <2> HIDE DEF new
  <2>4. /\ processes' \in Seq(ProcessRows)
        /\ \A i \in DOMAIN processes' : ProcessHolds(processes'[i])
    BY <2>1, <2>2, <2>3, AppendHolds
  <2> QED
    BY <1>4, <2>4, LeadKept DEF Pslist
<1>5. CASE Psscan
  <2> DEFINE S == {p \in Pids \ Listed : PoolRow(p) # "none"}
             row(p) == Process(p, {PoolGrade(p).flag}, PoolGrade(p).severity)
             new == [i \in DOMAIN SetToSeq(S) |-> row(SetToSeq(S)[i])]
  <2>1. S \in SUBSET Pids
    OBVIOUS
  <2>2. \A p \in S : row(p) \in ProcessRows /\ ProcessHolds(row(p))
    BY PoolSpeaks DEF Process, ProcessRows, ProcessHolds
  <2>3. /\ processes' = processes \o new
        /\ hidden' \subseteq S /\ \A r \in memory' : RowHolds(r)
    BY <1>5, PlainRow DEF Psscan
  <2>4. \A p \in hidden' : p \in Pids \ Listed /\ PoolRow(p) # "none"
    BY <2>3
  <2> HIDE DEF S, row
  <2>5. /\ DOMAIN new = DOMAIN SetToSeq(S)
        /\ \A i \in DOMAIN new : new[i] \in ProcessRows /\ ProcessHolds(new[i])
        /\ new = [i \in DOMAIN new |-> new[i]]
    BY <2>1, <2>2, ListingIs
  <2> HIDE DEF new
  <2>6. /\ processes' \in Seq(ProcessRows)
        /\ \A i \in DOMAIN processes' : ProcessHolds(processes'[i])
    BY <2>1, <2>3, <2>5, AppendHolds
  <2> QED
    BY <1>5, <2>3, <2>4, <2>6, LeadKept DEF Psscan
<1>6. CASE HiddenDrivers \/ KernelPointers \/ Services \/ Detect
  BY <1>6, PlainRow, AddingKeeps DEF HiddenDrivers, KernelPointers, Services, Detect
<1>7. CASE InjectedCode
  BY <1>7, MalfindHolds, AddingKeeps DEF InjectedCode
<1>8. CASE ModuleLinkage
  <2>1. ASSUME NEW r \in memory'
        PROVE  RowHolds(r)
    <3>1. \/ r \in memory
          \/ \E p \in Pids : \E row \in Reported(p) : r = LdrRow(p, row)
          \/ \E p \in DllMismatch : r = DllRow(p)
      <4>1. \/ r \in memory
            \/ \E p \in Pids : r \in LdrRows(p)
            \/ \E p \in DllMismatch : r = DllRow(p)
        BY <1>8 DEF ModuleLinkage
      <4> QED
        BY <4>1 DEF LdrRows
    <3> QED
      BY <3>1, LdrHolds, DllHolds
  <2> QED
    BY <1>8, <2>1, AddingKeeps DEF ModuleLinkage
<1>9. CASE SkeletonKey
  <2> DEFINE marks == {MarkOf(p, "skeleton-key", Critical) : p \in {q \in Pids : See(q).skeleton}}
  <2>1. \A m \in marks : MarkHolds(m)
    BY ConclusiveLeads DEF Conclusive, Critical, Grades
  <2>2. processes' = MarkProcess(processes, marks) /\ UNCHANGED <<dump, hidden>>
    BY <1>9 DEF SkeletonKey
  <2>3. \A r \in memory' : RowHolds(r)
    BY <1>9, PlainRow DEF SkeletonKey
  <2> HIDE DEF marks
  <2> QED
    BY <2>1, <2>2, <2>3, MarkingKeeps
<1>10. CASE Network
  <2> DEFINE marks == {MarkOf(p, "suspicious-network", High) : p \in {q \in Pids : SuspectConnection(q)}}
  <2>1. ASSUME NEW p \in Pids, SuspectConnection(p)
        PROVE  Lead(p)
    <3>1. CASE p \in hidden /\ See(p).net # "none"
      <4>1. "pool-scan" \in Artifacts(p) /\ "network-connections" \in Artifacts(p)
        BY <3>1 DEF Artifacts, Seen, Corroborating
      <4> QED
        BY <4>1, TwoSpeak
    <3>2. CASE p \in Malfind /\ External(p)
      <4>1. "region" \in Artifacts(p) /\ "network-connections" \in Artifacts(p)
        BY <3>2 DEF Artifacts, Seen, Corroborating, External
      <4> QED
        BY <4>1, TwoSpeak
    <3> QED
      BY <2>1, <3>1, <3>2 DEF SuspectConnection
  <2>2. \A m \in marks : MarkHolds(m)
    BY <2>1 DEF MarkHolds, MarkOf, Speaks, Flags, SUSPICIOUS_MEMORY_FLAGS, High, Grades
  <2>3. processes' = MarkProcess(processes, marks) /\ UNCHANGED <<dump, hidden>>
    BY <1>10 DEF Network
  <2>4. \A r \in memory' : RowHolds(r)
    BY <1>10, PlainRow DEF Network
  <2> HIDE DEF marks
  <2> QED
    BY <2>2, <2>3, <2>4, MarkingKeeps
<1>11. CASE Handles
  <2> DEFINE risk(p) == Worst({HandleGrade(h) : h \in See(p).handles})
             risky == {p \in Pids : \E h \in See(p).handles : HandleGrade(h) >= High}
             marks == {MarkOf(p, "cross-process", risk(p)) : p \in risky}
  <2>1. \A h : HandleGrade(h) \in Grades /\ (HandleGrade(h) >= High => h.sensitive \/ h.dangerous)
    BY DEF HandleGrade, Grades, Low, High, Critical
  <2>2. \A p : risk(p) \in Grades
    BY <2>1, WorstIn
  <2>3. \A p \in risky : Conclusive(p)
    BY <2>1 DEF Conclusive
  <2>4. processes' = MarkProcess(processes, marks) /\ UNCHANGED <<dump, hidden>>
    BY <1>11 DEF Handles
  <2>5. \A r \in memory' : RowHolds(r)
    BY <1>11, PlainRow DEF Handles
  <2> HIDE DEF risk, risky
  <2>6. \A m \in marks : MarkHolds(m)
    BY <2>2, <2>3, ConclusiveLeads
  <2> HIDE DEF marks
  <2> QED
    BY <2>4, <2>5, <2>6, MarkingKeeps
<1>12. CASE Dampen
  <2> DEFINE graded == {IF r.class \in Widespread THEN Damped(r) ELSE r : r \in memory}
             marks == {MarkOf(r.subject, r.flag, r.severity) : r \in {s \in graded : s.class # Absent}}
  <2>1. \A r \in graded : RowHolds(r)
    BY DampedHolds DEF Widespread
  <2>2. /\ processes' = MarkProcess(processes, marks) /\ UNCHANGED <<dump, hidden>>
        /\ memory' = graded \cup {[Row("prevalence", Absent, Low) EXCEPT !.basis = {c}] : c \in Widespread}
    BY <1>12 DEF Dampen
  <2> HIDE DEF graded
  <2>3. \A m \in marks : MarkHolds(m)
    BY <2>1, RegisteredMarks
  <2>4. \A r \in memory' : RowHolds(r)
    <3>1. ASSUME NEW c
          PROVE  RowHolds([Row("prevalence", Absent, Low) EXCEPT !.basis = {c}])
      BY PlainRowWith
    <3> QED
      BY <2>1, <2>2, <3>1
  <2> HIDE DEF marks
  <2> QED
    BY <2>2, <2>3, <2>4, MarkingKeeps
<1>13. CASE Correlate
  <2> DEFINE composite == {i \in DOMAIN processes : Cardinality(SuspiciousFlags(processes[i])) >= 2}
  <2>1. memory' = memory \cup {[Row("correlation", processes[i].pid, Critical)
                                  EXCEPT !.basis = SuspiciousFlags(processes[i])] : i \in composite}
    BY <1>13 DEF Correlate
  <2>2. /\ processes' = [i \in DOMAIN processes |->
              IF i \in composite THEN [processes[i] EXCEPT !.severity = Critical] ELSE processes[i]]
        /\ UNCHANGED <<dump, hidden>>
    BY <1>13 DEF Correlate
  <2>3. \A i \in composite : i \in DOMAIN processes /\ Lead(processes[i].pid)
    BY CompositeLeads
  <2> HIDE DEF composite
  <2>4. \A r \in memory' : RowHolds(r)
    <3>1. \A i \in composite :
            RowHolds([Row("correlation", processes[i].pid, Critical) EXCEPT !.basis = SuspiciousFlags(processes[i])])
      BY PlainRowWith
    <3> QED
      BY <2>1, <3>1
  <2>5. ASSUME NEW i \in DOMAIN processes
        PROVE  processes'[i] \in ProcessRows /\ ProcessHolds(processes'[i])
    <3>1. CASE i \in composite
      <4>1. processes'[i] = [processes[i] EXCEPT !.severity = Critical]
        BY <2>2, <3>1
      <4>2. processes[i] \in ProcessRows /\ ProcessHolds(processes[i]) /\ Critical \in Grades
        BY DEF Grades, Critical
      <4>3. /\ processes'[i] \in ProcessRows
            /\ processes'[i].pid = processes[i].pid /\ processes'[i].flags = processes[i].flags
        BY <4>1, <4>2 DEF ProcessRows
      <4> QED
        BY <2>3, <3>1, <4>2, <4>3 DEF ProcessHolds
    <3>2. CASE i \notin composite
      BY <2>2, <3>2
    <3> QED
      BY <3>1, <3>2
  <2>6. DOMAIN processes' = 1..Len(processes) /\ Len(processes) \in Nat
    BY <2>2
  <2>7. processes' = [i \in 1..Len(processes) |-> processes'[i]]
    BY <2>2, <2>6
  <2>8. processes' \in Seq(ProcessRows)
    BY <2>5, <2>6, <2>7
  <2> QED
    BY <2>2, <2>5, <2>8, <2>4, LeadKept
<1>14. CASE YaraScan
  <2> DEFINE marks == {MarkOf(p, "yara-hit", High) : p \in {q \in Malfind : See(q).yara}}
  <2>1. \A m \in marks : MarkHolds(m)
    BY ConclusiveLeads DEF Conclusive, High, Grades
  <2>2. processes' = MarkProcess(processes, marks) /\ UNCHANGED <<dump, hidden>>
    BY <1>14 DEF YaraScan
  <2>3. \A r \in memory' : RowHolds(r)
    BY <1>14, PlainRow DEF YaraScan
  <2> HIDE DEF marks
  <2> QED
    BY <2>1, <2>2, <2>3, MarkingKeeps
<1> QED
  <2>1. CASE UNCHANGED memoryVars
    BY <1>1, <2>1 DEF memoryVars
  <2>2. CASE Unavailable \/ Collect \/ Fail
    BY <1>1, <2>2 DEF Unavailable, Collect, Fail
  <2> QED
    BY <1>2, <1>3, <1>4, <1>5, <1>6, <1>7, <1>8, <1>9, <1>10, <1>11, <1>12, <1>13, <1>14, <2>1, <2>2
       DEF MemoryNext

\* A process graded high or critical is spoken about by two artifacts, or by a
\* conclusive one, at every moment of every analysis.
THEOREM LeadsAlwaysStayLeads == MemorySpec => []LeadsStayLeads
<1>1. LeadInv => LeadsStayLeads
  BY LeadInvUses DEF LeadsStayLeads, ProcessHolds, Lead
<1> QED
  BY <1>1, LeadInvInit, LeadInvStep, PTL DEF MemorySpec

-----------------------------------------------------------------------------
(* Widespread classes, and what an injection shows. *)

Undamped ==
  {"open", "findevil", "process-csv", "pslist", "psscan", "drivers", "pointers", "malfind",
   "ldrmodules", "skeleton", "network", "handles", "services", "dampen"}
Unscanned == {"open", "findevil", "process-csv", "pslist", "psscan", "drivers", "pointers", "malfind"}

\* Flags of the dampener's classes come with the list of those not to count.
FlagsCounted(row) ==
  /\ stage \in Undamped => row.flags \cap ClassFlags = {}
  /\ \A flag \in row.flags \cap ClassFlags : ClassOf(flag) \in Widespread => flag \in ignored[row.pid]

WideInv ==
  /\ DOMAIN ignored = Pids
  /\ \A i \in DOMAIN processes, row \in ProcessRows : row = processes[i] => FlagsCounted(row)
  /\ \A r \in memory : stage \in Undamped => r.plugin # "correlation"
  /\ CompositesIgnoreWidespread

ShowsInjection(p) ==
  (\E region \in See(p).regions : region.mz \/ region.thread) \/ p \in hidden \/ External(p)

InjectedInv ==
  \A r \in memory : r.flag = "injected" => stage \notin Unscanned /\ ShowsInjection(r.subject)

LEMMA WidespreadKept ==
  ASSUME dump' = dump,
         \A r \in memory : r.class # Absent =>
           \E s \in memory' : s.class = r.class /\ s.subject = r.subject,
         \A r \in memory' : r.class # Absent =>
           \E s \in memory : s.class = r.class /\ s.subject = r.subject
  PROVE  Widespread' = Widespread
<1> DEFINE Fired(M, c) == {r.subject : r \in {s \in M : s.class = c}}
           Known(M) == {r.class : r \in M} \ {Absent}
           Wide(M, c) == /\ Cardinality(Fired(M, c)) > MinProcesses
                         /\ 100 * Cardinality(Fired(M, c)) > Percent * Worst({1, Cardinality(Listed)})
<1>1. Listed' = Listed
  BY SameViews
<1>2. Widespread = {c \in Known(memory) : Wide(memory, c)}
  BY DEF Widespread
<1>3. Widespread' = {c \in Known(memory') : Wide(memory', c)}
  BY <1>1 DEF Widespread
<1>4. \A c : c # Absent => Fired(memory', c) = Fired(memory, c)
  OBVIOUS
<1>5. Known(memory') = Known(memory)
  OBVIOUS
<1>6. \A c \in Known(memory) : c # Absent
  OBVIOUS
<1>7. \A c \in Known(memory) : Wide(memory', c) <=> Wide(memory, c)
  BY <1>4, <1>6
<1> HIDE DEF Wide, Known
<1> QED
  BY <1>2, <1>3, <1>5, <1>7

\* Rows that the dampener does not know make no class widespread.
LEMMA PlainRowsSpread ==
  ASSUME dump' = dump, NEW added, \A r \in added : r.class = Absent, memory' = memory \cup added
  PROVE  Widespread' = Widespread
BY WidespreadKept

LEMMA PlainIs ==
  ASSUME NEW plugin, NEW subject, NEW severity
  PROVE  /\ Row(plugin, subject, severity).plugin = plugin
         /\ Row(plugin, subject, severity).class = Absent
         /\ Row(plugin, subject, severity).flag # "injected"
BY AbsentAssumption DEF Row, ClassFlags

LEMMA PlainWithIs ==
  ASSUME NEW plugin, NEW subject, NEW severity, NEW basis
  PROVE  /\ [Row(plugin, subject, severity) EXCEPT !.basis = basis].plugin = plugin
         /\ [Row(plugin, subject, severity) EXCEPT !.basis = basis].class = Absent
         /\ [Row(plugin, subject, severity) EXCEPT !.basis = basis].flag # "injected"
         /\ [Row(plugin, subject, severity) EXCEPT !.basis = basis].basis = basis
BY AbsentAssumption DEF Row, ClassFlags

LEMMA RegisteredIs ==
  /\ \A p : MalfindRow(p).plugin # "correlation"
  /\ \A p, row : LdrRow(p, row).plugin # "correlation" /\ LdrRow(p, row).flag # "injected"
  /\ \A p : DllRow(p).plugin # "correlation" /\ DllRow(p).flag # "injected"
BY DEF MalfindRow, LdrRow, DllRow, Registered

LEMMA InjectedShown ==
  ASSUME NEW p \in Pids, MalfindRow(p).flag = "injected"
  PROVE  ShowsInjection(p)
<1> DEFINE basis == ProcCorroborated(p) \cup ThreadInside(p)
<1>1. (\E r \in See(p).regions : r.mz \/ r.thread) \/ Independent(basis) # {}
  BY DEF MalfindRow, Registered
<1>2. Independent(basis) \subseteq {"psscan-hidden", "external-network", "thread-start-in-region"}
  BY DEF Independent, ProcCorroborated, ThreadInside
<1>3. /\ "psscan-hidden" \in basis => p \in hidden
      /\ "external-network" \in basis => External(p)
      /\ "thread-start-in-region" \in basis => \E r \in See(p).regions : r.thread
  BY DEF ProcCorroborated, ThreadInside
<1>4. Independent(basis) \subseteq basis
  BY DEF Independent
<1> HIDE DEF basis
<1> QED
  BY <1>1, <1>2, <1>3, <1>4 DEF ShowsInjection

LEMMA InjectedKept ==
  ASSUME InjectedInv, dump' = dump,
         stage \notin Unscanned => hidden' = hidden /\ stage' \notin Unscanned,
         \A r \in memory' : r.flag = "injected" =>
           \E s \in memory : s.flag = "injected" /\ s.subject = r.subject
  PROVE  InjectedInv'
<1>1. \A p : hidden' = hidden => (ShowsInjection(p)' <=> ShowsInjection(p))
  BY DEF ShowsInjection, See, External
<1>2. ASSUME NEW r \in memory', r.flag = "injected"
      PROVE  stage' \notin Unscanned /\ ShowsInjection(r.subject)'
  BY <1>1, <1>2 DEF InjectedInv
<1> QED
  BY <1>2 DEF InjectedInv

\* Rows without a flag say nothing of injections.
LEMMA InjectedAdding ==
  ASSUME InjectedInv, dump' = dump,
         stage \notin Unscanned => hidden' = hidden /\ stage' \notin Unscanned,
         NEW added, \A r \in added : r.flag # "injected", memory' = memory \cup added
  PROVE  InjectedInv'
BY InjectedKept

\* The dampener changes what a row is worth, not whom or what it is about.
LEMMA DampedRows ==
  ASSUME LeadInv
  PROVE  LET graded == {IF r.class \in Widespread THEN Damped(r) ELSE r : r \in memory}
         IN /\ \A r \in graded : \E s \in memory :
                 s.flag = r.flag /\ s.subject = r.subject /\ s.class = r.class /\ s.plugin = r.plugin
            /\ \A s \in memory : \E r \in graded :
                 s.flag = r.flag /\ s.subject = r.subject /\ s.class = r.class /\ s.plugin = r.plugin
<1>1. \A c \in Widespread : c # Absent
  BY DEF Widespread
<1>2. \A r \in memory : r.class \in Widespread =>
        /\ Damped(r).flag = r.flag /\ Damped(r).subject = r.subject
        /\ Damped(r).class = r.class /\ Damped(r).plugin = r.plugin
  BY <1>1, LeadInvUses, DampedHolds
<1> QED
  BY <1>2

\* Most passes add rows that no other pass counts on.
LEMMA PlainPasses ==
  ASSUME \/ \E parsed \in BOOLEAN : FindEvilCsv(parsed) \/ ProcessCsv(parsed)
         \/ Pslist \/ Psscan \/ HiddenDrivers \/ KernelPointers
         \/ SkeletonKey \/ Network \/ Handles \/ Services \/ YaraScan \/ Detect
  PROVE  /\ memory \subseteq memory'
         /\ \A r \in memory' : r \in memory \/ (/\ r.flag # "injected" /\ r.class = Absent
                                             /\ r.plugin # "correlation")
<1> DEFINE Plain(r) == r.flag # "injected" /\ r.class = Absent /\ r.plugin # "correlation"
           Done == memory \subseteq memory' /\ \A r \in memory' : r \in memory \/ Plain(r)
<1>1. \A plugin, p, severity : plugin # "correlation" => Plain(Row(plugin, p, severity))
  BY PlainIs
<1> HIDE DEF Plain
<1>2. ASSUME NEW parsed \in BOOLEAN, FindEvilCsv(parsed) \/ ProcessCsv(parsed)
      PROVE  Done
  BY <1>1, <1>2 DEF FindEvilCsv, ProcessCsv, Diagnostic
<1>3. ASSUME Pslist \/ Psscan
      PROVE  Done
  BY <1>1, <1>3 DEF Pslist, Psscan
<1>4. ASSUME HiddenDrivers \/ KernelPointers
      PROVE  Done
  BY <1>1, <1>4 DEF HiddenDrivers, KernelPointers
<1>5. ASSUME SkeletonKey \/ Network \/ Services
      PROVE  Done
  BY <1>1, <1>5 DEF SkeletonKey, Network, Services
<1>6. ASSUME Handles
      PROVE  Done
  <2> DEFINE risk(p) == Worst({HandleGrade(h) : h \in See(p).handles})
             risky == {p \in Pids : \E h \in See(p).handles : HandleGrade(h) >= High}
             added == {Row("handles", p, risk(p)) : p \in risky}
  <2>1. memory' = memory \cup added
    BY <1>6 DEF Handles
  <2> HIDE DEF risk, risky
  <2> QED
    BY <1>1, <2>1
<1>7. ASSUME YaraScan \/ Detect
      PROVE  Done
  BY <1>1, <1>7 DEF YaraScan, Detect
<1> QED
  BY <1>2, <1>3, <1>4, <1>5, <1>6, <1>7 DEF Plain

LEMMA InjectedStep == LeadInv /\ InjectedInv /\ [MemoryNext]_memoryVars => InjectedInv'
<1> SUFFICES ASSUME LeadInv, InjectedInv, [MemoryNext]_memoryVars
             PROVE  InjectedInv'
  OBVIOUS
<1> USE DEF Unscanned, Pass
<1>1. CASE UNCHANGED memoryVars
  BY <1>1, InjectedKept DEF memoryVars
<1>2. CASE Unavailable \/ Collect \/ Fail
  BY <1>2, InjectedKept DEF Unavailable, Collect, Fail
<1>3. ASSUME NEW parsed \in BOOLEAN, FindEvilCsv(parsed) \/ ProcessCsv(parsed)
      PROVE  InjectedInv'
  <2>1. \A r \in memory' : r \in memory \/ r.flag # "injected"
    BY <1>3, PlainPasses
  <2> QED
    BY <1>3, <2>1, InjectedKept DEF FindEvilCsv, ProcessCsv
<1>4. CASE \/ Pslist \/ Psscan \/ HiddenDrivers \/ KernelPointers
           \/ SkeletonKey \/ Network \/ Handles \/ Services \/ YaraScan \/ Detect
  <2>1. \A r \in memory' : r \in memory \/ r.flag # "injected"
    BY <1>4, PlainPasses
  <2>2. dump' = dump /\ (stage \notin Unscanned => hidden' = hidden /\ stage' \notin Unscanned)
    BY <1>4 DEF Pslist, Psscan, HiddenDrivers, KernelPointers, SkeletonKey, Network, Handles, Services, YaraScan, Detect
  <2> QED
    BY <2>1, <2>2, InjectedKept
<1>5. CASE InjectedCode
  <2>1. stage' \notin Unscanned
    BY <1>5 DEF InjectedCode
  <2>2. \A p : ShowsInjection(p)' <=> ShowsInjection(p)
    BY <1>5 DEF InjectedCode, ShowsInjection, See, External
  <2>3. \A p \in Malfind : p \in Pids /\ MalfindRow(p).subject = p
    BY DEF Malfind, MalfindRow, Registered
  <2>4. ASSUME NEW r \in memory', r.flag = "injected"
        PROVE  ShowsInjection(r.subject)
    <3>1. r \in memory \/ \E p \in Malfind : r = MalfindRow(p)
      BY <1>5 DEF InjectedCode
    <3> QED
      BY <2>3, <2>4, <3>1, InjectedShown DEF InjectedInv
  <2> QED
    BY <2>1, <2>2, <2>4 DEF InjectedInv
<1>6. CASE ModuleLinkage
  <2>1. \A r \in memory' : r \in memory \/ r.flag # "injected"
    BY <1>6, RegisteredIs DEF ModuleLinkage, LdrRows
  <2> QED
    BY <1>6, <2>1, InjectedKept DEF ModuleLinkage
<1>7. CASE Dampen
  <2> DEFINE graded == {IF r.class \in Widespread THEN Damped(r) ELSE r : r \in memory}
         added == {[Row("prevalence", Absent, Low) EXCEPT !.basis = {c}] : c \in Widespread}
  <2>1. \A r \in graded : \E s \in memory : s.flag = r.flag /\ s.subject = r.subject
    BY DampedRows
  <2>2. memory' = graded \cup added
    BY <1>7 DEF Dampen
  <2>3. \A r \in added : r.flag # "injected"
    <3>1. \A c : [Row("prevalence", Absent, Low) EXCEPT !.basis = {c}].flag # "injected"
      BY PlainWithIs
    <3> QED
      BY <3>1
  <2> HIDE DEF graded, added
  <2>4. \A r \in memory' : r.flag = "injected" => \E s \in memory : s.flag = "injected" /\ s.subject = r.subject
    BY <2>1, <2>2, <2>3
  <2> QED
    BY <1>7, <2>4, InjectedKept DEF Dampen
<1>8. CASE Correlate
  <2> DEFINE composite == {i \in DOMAIN processes : Cardinality(SuspiciousFlags(processes[i])) >= 2}
             added == {[Row("correlation", processes[i].pid, Critical)
                          EXCEPT !.basis = SuspiciousFlags(processes[i])] : i \in composite}
  <2>1. memory' = memory \cup added
    BY <1>8 DEF Correlate
  <2>2. \A r \in added : r.flag # "injected"
    <3> HIDE DEF composite
    <3>1. \A i \in composite : [Row("correlation", processes[i].pid, Critical)
                                EXCEPT !.basis = SuspiciousFlags(processes[i])].flag # "injected"
      BY PlainWithIs
    <3> QED
      BY <3>1
  <2> HIDE DEF added
  <2> QED
    BY <1>8, <2>1, <2>2, InjectedAdding DEF Correlate
<1> QED
  BY <1>1, <1>2, <1>3, <1>4, <1>5, <1>6, <1>7, <1>8 DEF MemoryNext

\* Who is an injection and a hollowing suspect shows an injection apart from
\* what the loader lists say, at every moment of every analysis.
THEOREM InjectedAlwaysStandsAlone == MemorySpec => []InjectedStandsAlone
<1>1. MemoryInit => InjectedInv
  BY DEF MemoryInit, InjectedInv
<1>2. InjectedInv => InjectedStandsAlone
  BY DEF InjectedInv, InjectedStandsAlone, ShowsInjection
<1> QED
  BY <1>1, <1>2, LeadInvInit, LeadInvStep, InjectedStep, PTL DEF MemorySpec

-----------------------------------------------------------------------------
(* What the correlation counts. *)

\* Before the dampener no process has a flag of its classes.
LEMMA WideEarly ==
  ASSUME WideInv, stage \in Undamped, ignored' = ignored,
         \A i \in DOMAIN processes' : processes'[i].flags \cap ClassFlags = {},
         \A r \in memory' : r.plugin # "correlation"
  PROVE  WideInv'
<1>1. (\A i \in DOMAIN processes, row \in ProcessRows : row = processes[i] => FlagsCounted(row))'
  BY DEF FlagsCounted
<1>2. (\A r \in memory : stage \in Undamped => r.plugin # "correlation")' /\ CompositesIgnoreWidespread'
  BY DEF CompositesIgnoreWidespread
<1> QED
  BY <1>1, <1>2 DEF WideInv

\* From then on the classes stay as widespread as they were.
LEMMA WideLate ==
  ASSUME WideInv, stage' \notin Undamped, Widespread' = Widespread, DOMAIN ignored' = Pids,
         \A i \in DOMAIN processes' : \A flag \in processes'[i].flags \cap ClassFlags :
           ClassOf(flag) \in Widespread => flag \in ignored'[processes'[i].pid],
         \A r \in memory' : r.plugin = "correlation" =>
           \A flag \in r.basis : ClassOf(flag) \notin Widespread
  PROVE  WideInv'
<1>1. (\A i \in DOMAIN processes, row \in ProcessRows : row = processes[i] => FlagsCounted(row))'
  BY DEF FlagsCounted
<1>2. (\A r \in memory : stage \in Undamped => r.plugin # "correlation")' /\ CompositesIgnoreWidespread'
  BY DEF CompositesIgnoreWidespread
<1> QED
  BY <1>1, <1>2 DEF WideInv

LEMMA WideInvUses ==
  ASSUME LeadInv, WideInv
  PROVE  /\ \A i \in DOMAIN processes :
              /\ stage \in Undamped => processes[i].flags \cap ClassFlags = {}
              /\ \A flag \in processes[i].flags \cap ClassFlags :
                   ClassOf(flag) \in Widespread => flag \in ignored[processes[i].pid]
         /\ \A r \in memory : r.plugin = "correlation" =>
              stage \notin Undamped /\ \A flag \in r.basis : ClassOf(flag) \notin Widespread
         /\ DOMAIN ignored = Pids
<1>1. \A i \in DOMAIN processes : FlagsCounted(processes[i])
  BY LeadInvUses DEF WideInv
<1> QED
  BY <1>1 DEF WideInv, FlagsCounted, CompositesIgnoreWidespread

\* A marked process has the flags it had and those of the marks.
LEMMA MarkedFlags ==
  ASSUME NEW table \in Seq(ProcessRows), NEW marks
  PROVE  /\ DOMAIN MarkProcess(table, marks) = DOMAIN table
         /\ \A i \in DOMAIN table :
              /\ MarkProcess(table, marks)[i].pid = table[i].pid
              /\ \A flag \in MarkProcess(table, marks)[i].flags :
                   flag \in table[i].flags \/ \E m \in marks : m.pid = table[i].pid /\ m.flag = flag
<1> DEFINE new == MarkProcess(table, marks)
           first(i) == \A j \in DOMAIN table : table[j].pid = table[i].pid => i <= j
           mine(i) == {m \in marks : first(i) /\ m.pid = table[i].pid}
           worst(i) == Worst({table[i].severity} \cup {m.severity : m \in mine(i)})
<1>1. DOMAIN new = DOMAIN table
  BY DEF MarkProcess
<1>2. ASSUME NEW i \in DOMAIN table
      PROVE  /\ new[i].pid = table[i].pid
             /\ new[i].flags = table[i].flags \cup {m.flag : m \in mine(i)}
  <2>1. table[i] \in ProcessRows
    OBVIOUS
  <2>2. new[i] = [table[i] EXCEPT !.flags = @ \cup {m.flag : m \in mine(i)}, !.severity = worst(i)]
    BY DEF MarkProcess
  <2> HIDE DEF new, mine, worst
  <2> QED
    BY <2>1, <2>2 DEF ProcessRows
<1>3. \A i \in DOMAIN table : \A flag \in {m.flag : m \in mine(i)} :
        \E m \in marks : m.pid = table[i].pid /\ m.flag = flag
  OBVIOUS
<1> HIDE DEF mine
<1> QED
  BY <1>1, <1>2, <1>3

\* A pass that marks processes with a flag of its own.
LEMMA MarkedPlainly ==
  ASSUME LeadInv, WideInv, NEW marks, processes' = MarkProcess(processes, marks),
         \A m \in marks : m.flag \notin ClassFlags
  PROVE  /\ stage \in Undamped => \A i \in DOMAIN processes' : processes'[i].flags \cap ClassFlags = {}
         /\ \A i \in DOMAIN processes' : \A flag \in processes'[i].flags \cap ClassFlags :
              ClassOf(flag) \in Widespread => flag \in ignored[processes'[i].pid]
BY LeadInvUses, WideInvUses, MarkedFlags

LEMMA AppendedPlainly ==
  ASSUME LeadInv, WideInv, stage \in Undamped,
         NEW S \in SUBSET Pids, NEW new,
         DOMAIN new = DOMAIN SetToSeq(S), new = [i \in DOMAIN new |-> new[i]],
         \A i \in DOMAIN new : new[i] \in ProcessRows /\ new[i].flags \cap ClassFlags = {},
         processes' = processes \o new
  PROVE  \A i \in DOMAIN processes' : processes'[i].flags \cap ClassFlags = {}
<1>1. DOMAIN new = 1..Cardinality(S) /\ Cardinality(S) \in Nat
  BY ListingIs
<1>2. new \in Seq(ProcessRows)
  BY <1>1
<1> QED
  BY <1>2, LeadInvUses, WideInvUses

LEMMA WideStep == LeadInv /\ WideInv /\ [MemoryNext]_memoryVars => WideInv'
<1> SUFFICES ASSUME LeadInv, WideInv, [MemoryNext]_memoryVars
             PROVE  WideInv'
  OBVIOUS
<1> USE LeadInvUses, WideInvUses DEF Pass
<1>1. ASSUME UNCHANGED <<dump, processes, memory, hidden, ignored>>,
             stage' \in Undamped => stage \in Undamped
      PROVE  WideInv'
  <2>1. CASE stage \in Undamped
    BY <1>1, <2>1, WideEarly
  <2>2. CASE stage \notin Undamped
    <3>1. Widespread' = Widespread
      BY <1>1, WidespreadKept
    <3> QED
      BY <1>1, <2>2, <3>1, WideLate
  <2> QED
    BY <2>1, <2>2
<1>2. CASE UNCHANGED memoryVars \/ Unavailable \/ Collect \/ Fail
  BY <1>1, <1>2 DEF memoryVars, Unavailable, Collect, Fail, Undamped
<1>3. ASSUME NEW parsed \in BOOLEAN, FindEvilCsv(parsed)
      PROVE  WideInv'
  <2>1. \A r \in memory' : r.plugin # "correlation"
    BY <1>3, PlainPasses DEF FindEvilCsv, Undamped
  <2> QED
    BY <1>3, <2>1, WideEarly DEF FindEvilCsv, Undamped
<1>4. ASSUME NEW parsed \in BOOLEAN, ProcessCsv(parsed)
      PROVE  WideInv'
  <2> DEFINE S == {p \in Pids : See(p).csv # "none"}
             new == [i \in DOMAIN SetToSeq(S) |-> Process(SetToSeq(S)[i], {}, Info)]
  <2>1. \A r \in memory' : r.plugin # "correlation"
    BY <1>4, PlainPasses DEF ProcessCsv, Undamped
  <2>2. stage \in Undamped /\ ignored' = ignored /\ processes' \in {processes, new}
    BY <1>4 DEF ProcessCsv, Undamped
  <2>3. \A i \in DOMAIN new : new[i].flags \cap ClassFlags = {}
    BY DEF Process
  <2> HIDE DEF new
  <2> QED
    BY <2>1, <2>2, <2>3, WideEarly
<1>5. CASE Pslist
  <2> DEFINE new == [i \in DOMAIN SetToSeq(Listed) |-> Process(SetToSeq(Listed)[i], {}, Info)]
  <2>1. \A r \in memory' : r.plugin # "correlation"
    BY <1>5 DEF Pslist, Undamped
  <2>2. Listed \in SUBSET Pids
    BY DEF Listed
  <2>3. /\ DOMAIN new = DOMAIN SetToSeq(Listed) /\ new = [i \in DOMAIN new |-> new[i]]
        /\ \A i \in DOMAIN new : new[i] \in ProcessRows /\ new[i].flags \cap ClassFlags = {}
    BY <2>2, ListingIs, ListedHolds DEF Process
  <2>4. processes' = processes \o new /\ stage \in Undamped /\ ignored' = ignored
    BY <1>5 DEF Pslist, Undamped
  <2> HIDE DEF new
  <2>5. \A i \in DOMAIN processes' : processes'[i].flags \cap ClassFlags = {}
    BY <2>2, <2>3, <2>4, AppendedPlainly
  <2> QED
    BY <2>1, <2>4, <2>5, WideEarly
<1>6. CASE Psscan
  <2> DEFINE S == {p \in Pids \ Listed : PoolRow(p) # "none"}
             row(p) == Process(p, {PoolGrade(p).flag}, PoolGrade(p).severity)
             new == [i \in DOMAIN SetToSeq(S) |-> row(SetToSeq(S)[i])]
  <2>1. \A r \in memory' : r.plugin # "correlation"
    BY <1>6, PlainPasses DEF Psscan, Undamped
  <2>2. S \in SUBSET Pids
    OBVIOUS
  <2>3. \A p \in S : row(p) \in ProcessRows /\ row(p).flags \cap ClassFlags = {}
    <3>1. \A p \in S : row(p) \in ProcessRows
      BY PoolSpeaks DEF Process, ProcessRows
    <3>2. \A p : PoolGrade(p).flag \notin ClassFlags
      BY DEF PoolGrade, ClassFlags
    <3> QED
      BY <3>1, <3>2 DEF Process
  <2>4. processes' = processes \o new /\ stage \in Undamped /\ ignored' = ignored
    BY <1>6 DEF Psscan, Undamped
  <2> HIDE DEF S, row
  <2>5. /\ DOMAIN new = DOMAIN SetToSeq(S) /\ new = [i \in DOMAIN new |-> new[i]]
        /\ \A i \in DOMAIN new : new[i] \in ProcessRows /\ new[i].flags \cap ClassFlags = {}
    BY <2>2, <2>3, ListingIs
  <2> HIDE DEF new
  <2>6. \A i \in DOMAIN processes' : processes'[i].flags \cap ClassFlags = {}
    BY <2>2, <2>4, <2>5, AppendedPlainly
  <2> QED
    BY <2>1, <2>4, <2>6, WideEarly
<1>7. CASE HiddenDrivers \/ KernelPointers \/ Services
  <2>1. \A r \in memory' : r.plugin # "correlation"
    BY <1>7, PlainPasses DEF HiddenDrivers, KernelPointers, Services, Undamped
  <2>2. stage \in Undamped /\ UNCHANGED <<processes, ignored>>
    BY <1>7 DEF HiddenDrivers, KernelPointers, Services, Undamped
  <2> QED
    BY <2>1, <2>2, WideEarly
<1>8. CASE InjectedCode
  <2>1. stage \in Undamped /\ UNCHANGED <<processes, ignored>>
    BY <1>8 DEF InjectedCode, Undamped
  <2>2. \A r \in memory' : r.plugin # "correlation"
    BY <1>8, <2>1, RegisteredIs DEF InjectedCode
  <2> QED
    BY <2>1, <2>2, WideEarly
<1>9. CASE ModuleLinkage
  <2>1. stage \in Undamped /\ UNCHANGED <<processes, ignored>>
    BY <1>9 DEF ModuleLinkage, Undamped
  <2>2. \A r \in memory' : r.plugin # "correlation"
    BY <1>9, <2>1, RegisteredIs DEF ModuleLinkage, LdrRows
  <2> QED
    BY <2>1, <2>2, WideEarly
<1>10. CASE SkeletonKey \/ Network \/ Handles
  <2>1. stage \in Undamped /\ ignored' = ignored
    BY <1>10 DEF SkeletonKey, Network, Handles, Undamped
  <2>2. \A r \in memory' : r.plugin # "correlation"
    BY <1>10, <2>1, PlainPasses
  <2>3. \E marks : processes' = MarkProcess(processes, marks) /\ \A m \in marks : m.flag \notin ClassFlags
    <3>1. \A p, severity : \A flag : MarkOf(p, flag, severity).flag = flag
      BY DEF MarkOf
    <3>2. CASE SkeletonKey
      <4> DEFINE marks == {MarkOf(p, "skeleton-key", Critical) : p \in {q \in Pids : See(q).skeleton}}
      <4>1. processes' = MarkProcess(processes, marks)
        BY <3>2 DEF SkeletonKey
      <4>2. \A m \in marks : m.flag \notin ClassFlags
        BY <3>1 DEF ClassFlags
      <4> HIDE DEF marks
      <4> QED
        BY <4>1, <4>2
    <3>3. CASE Network
      <4> DEFINE marks == {MarkOf(p, "suspicious-network", High) : p \in {q \in Pids : SuspectConnection(q)}}
      <4>1. processes' = MarkProcess(processes, marks)
        BY <3>3 DEF Network
      <4>2. \A m \in marks : m.flag \notin ClassFlags
        BY <3>1 DEF ClassFlags
      <4> HIDE DEF marks
      <4> QED
        BY <4>1, <4>2
    <3>4. CASE Handles
      <4> DEFINE risk(p) == Worst({HandleGrade(h) : h \in See(p).handles})
                 risky == {p \in Pids : \E h \in See(p).handles : HandleGrade(h) >= High}
                 marks == {MarkOf(p, "cross-process", risk(p)) : p \in risky}
      <4>1. processes' = MarkProcess(processes, marks)
        BY <3>4 DEF Handles
      <4> HIDE DEF risk, risky
      <4>2. \A m \in marks : m.flag \notin ClassFlags
        BY <3>1 DEF ClassFlags
      <4> HIDE DEF marks
      <4> QED
        BY <4>1, <4>2
    <3> QED
      BY <1>10, <3>2, <3>3, <3>4
  <2>4. \A i \in DOMAIN processes' : processes'[i].flags \cap ClassFlags = {}
    BY <2>1, <2>3, MarkedPlainly
  <2> QED
    BY <2>1, <2>2, <2>4, WideEarly
<1>11. CASE Dampen
  <2> DEFINE graded == {IF r.class \in Widespread THEN Damped(r) ELSE r : r \in memory}
             marks == {MarkOf(r.subject, r.flag, r.severity) : r \in {s \in graded : s.class # Absent}}
             added == {[Row("prevalence", Absent, Low) EXCEPT !.basis = {c}] : c \in Widespread}
  <2>1. /\ memory' = graded \cup added /\ processes' = MarkProcess(processes, marks)
        /\ dump' = dump /\ stage \in Undamped /\ stage' \notin Undamped
        /\ ignored' = [p \in Pids |-> {r.flag : r \in {s \in memory : s.subject = p /\ s.class \in Widespread}}]
    BY <1>11 DEF Dampen, Undamped
  <2>2. \A r \in added : r.class = Absent /\ r.plugin # "correlation"
    <3>1. \A c \in Widespread :
            LET r == [Row("prevalence", Absent, Low) EXCEPT !.basis = {c}]
            IN r.class = Absent /\ r.plugin # "correlation"
      BY PlainWithIs
    <3> QED
      BY <3>1
  <2>3. /\ \A r \in graded : \E s \in memory :
             s.flag = r.flag /\ s.subject = r.subject /\ s.class = r.class /\ s.plugin = r.plugin
        /\ \A s \in memory : \E r \in graded :
             s.flag = r.flag /\ s.subject = r.subject /\ s.class = r.class /\ s.plugin = r.plugin
    BY DampedRows
  <2> HIDE DEF graded, added
  <2>4. Widespread' = Widespread
    BY <2>1, <2>2, <2>3, WidespreadKept
  <2>5. \A r \in memory' : r.plugin # "correlation"
    BY <2>1, <2>2, <2>3
  <2>6. \A m \in marks : \E s \in memory : s.class # Absent /\ s.subject = m.pid /\ s.flag = m.flag
    BY <2>3 DEF MarkOf
  <2> HIDE DEF marks
  <2>7. ASSUME NEW i \in DOMAIN processes', NEW flag \in processes'[i].flags \cap ClassFlags,
               ClassOf(flag) \in Widespread
        PROVE  flag \in ignored'[processes'[i].pid]
    <3>1. /\ i \in DOMAIN processes /\ processes'[i].pid = processes[i].pid
          /\ flag \notin processes[i].flags
      BY <2>1, MarkedFlags
    <3>2. PICK s \in memory : s.class # Absent /\ s.subject = processes[i].pid /\ s.flag = flag
      BY <2>1, <2>6, <3>1, MarkedFlags
    <3>3. s.class = ClassOf(flag) /\ s.subject \in Pids
      BY <3>2 DEF RowHolds
    <3> QED
      BY <2>1, <2>7, <3>1, <3>2, <3>3
  <2> QED
    BY <2>1, <2>4, <2>5, <2>7, WideLate
<1>12. CASE Correlate
  <2> DEFINE composite == {i \in DOMAIN processes : Cardinality(SuspiciousFlags(processes[i])) >= 2}
             verdict(i) == [Row("correlation", processes[i].pid, Critical)
                              EXCEPT !.basis = SuspiciousFlags(processes[i])]
  <2>1. /\ memory' = memory \cup {verdict(i) : i \in composite}
        /\ processes' = [i \in DOMAIN processes |->
              IF i \in composite THEN [processes[i] EXCEPT !.severity = Critical] ELSE processes[i]]
        /\ dump' = dump /\ ignored' = ignored /\ stage' \notin Undamped
    BY <1>12 DEF Correlate, Undamped
  <2>2. composite \subseteq DOMAIN processes
    OBVIOUS
  <2>3. \A i \in composite : verdict(i).class = Absent /\ verdict(i).basis = SuspiciousFlags(processes[i])
    BY PlainWithIs
  <2> HIDE DEF composite, verdict
  <2>4. Widespread' = Widespread
    <3>1. \A r \in {verdict(i) : i \in composite} : r.class = Absent
      BY <2>3
    <3> QED
      BY <2>1, <3>1, PlainRowsSpread
  <2>5. \A i \in DOMAIN processes : processes'[i].pid = processes[i].pid /\ processes'[i].flags = processes[i].flags
    BY <2>1 DEF ProcessRows
  <2>6. ASSUME NEW i \in composite, NEW flag \in SuspiciousFlags(processes[i])
        PROVE  ClassOf(flag) \notin Widespread
    <3>1. flag \in processes[i].flags /\ flag \notin ignored[processes[i].pid]
      BY DEF SuspiciousFlags
    <3>2. CASE flag \in ClassFlags
      BY <2>2, <3>1, <3>2
    <3>3. CASE flag \notin ClassFlags
      <4>1. ClassOf(flag) = Absent
        BY <3>3 DEF ClassOf, ClassFlags
      <4> QED
        BY <4>1 DEF Widespread
    <3> QED
      BY <3>2, <3>3
  <2>7. \A r \in memory' : r.plugin = "correlation" => \A flag \in r.basis : ClassOf(flag) \notin Widespread
    BY <2>1, <2>3, <2>6
  <2> QED
    BY <2>1, <2>4, <2>5, <2>7, WideLate
<1>13. CASE YaraScan \/ Detect
  <2>1. \A r \in memory' : r \in memory \/ (r.class = Absent /\ r.plugin # "correlation")
    BY <1>13, PlainPasses
  <2>2. memory \subseteq memory' /\ dump' = dump /\ ignored' = ignored /\ stage' \notin Undamped
    BY <1>13, PlainPasses DEF YaraScan, Detect, Undamped
  <2>3. Widespread' = Widespread
    BY <2>1, <2>2, WidespreadKept
  <2>4. \A i \in DOMAIN processes' : \A flag \in processes'[i].flags \cap ClassFlags :
          ClassOf(flag) \in Widespread => flag \in ignored[processes'[i].pid]
    <3>1. CASE Detect
      BY <3>1 DEF Detect
    <3>2. CASE YaraScan
      <4> DEFINE marks == {MarkOf(p, "yara-hit", High) : p \in {q \in Malfind : See(q).yara}}
      <4>1. processes' = MarkProcess(processes, marks) /\ \A m \in marks : m.flag \notin ClassFlags
        BY <3>2 DEF YaraScan, MarkOf, ClassFlags
      <4> HIDE DEF marks
      <4> QED
        BY <4>1, MarkedPlainly
    <3> QED
      BY <1>13, <3>1, <3>2
  <2>5. \A r \in memory' : r.plugin = "correlation" => \A flag \in r.basis : ClassOf(flag) \notin Widespread
    BY <2>1
  <2> QED
    BY <2>2, <2>3, <2>4, <2>5, WideLate
<1> QED
  BY <1>2, <1>3, <1>4, <1>5, <1>6, <1>7, <1>8, <1>9, <1>10, <1>11, <1>12, <1>13 DEF MemoryNext

\* No composite verdict counts a flag of a widespread class.
THEOREM CompositesAlwaysIgnoreWidespread == MemorySpec => []CompositesIgnoreWidespread
<1>1. MemoryInit => WideInv
  BY DEF MemoryInit, WideInv, CompositesIgnoreWidespread
<1>2. WideInv => CompositesIgnoreWidespread
  BY DEF WideInv
<1> QED
  BY <1>1, <1>2, LeadInvInit, LeadInvStep, WideStep, PTL DEF MemorySpec

-----------------------------------------------------------------------------
(* The cache of the entity map. *)

Stamps == Nat \X Nat
Entry == [view : Views, stamp : Stamps, read : Case]
Answers == {Answered(d, v) : d \in Case, v \in Views} \cup {None}
Reading == {"processes", "findings", "events", "answer"}
Asked == [step : {"idle", "waiting", "stamp", "done"} \cup Reading, view : Views \cup {None},
          since : Nat, stamp : Stamps \cup {None}, read : Case, answer : Answers]

GraphType ==
  /\ data \in Case /\ logged \in Nat /\ copied \in Nat
  /\ cache \in Seq(Entry)
  /\ request \in [Request -> Asked]

\* Nobody committed since the request took the lock, or since its fingerprint.
Unmet(q) == q.since = logged \/ (IsMap(q.view) /\ q.stamp[2] = logged)

\* What was read so far is still so.
ReadsHold(q) ==
  /\ q.step \in {"findings", "events", "answer"} => q.read.processes = data.processes
  /\ q.step \in {"events", "answer"} =>
       q.read.findings = data.findings /\ q.read.suppressed = data.suppressed
  /\ q.step = "answer" => q.read.events = data.events /\ q.read.unapplied = data.unapplied

RequestHolds(q) ==
  /\ q.since <= logged
  /\ q.step # "idle" => q.view \in Views
  /\ q.step \in Reading /\ IsMap(q.view) => q.stamp \in Stamps /\ q.stamp[2] <= logged
  /\ q.step \in Reading /\ Unmet(q) => ReadsHold(q)
  /\ q.step = "done" /\ q.since = logged => q.answer = Answered(data, q.view)

EntryHolds(e) == e.stamp[2] <= logged /\ (e.stamp[2] = logged => e.read = data)

GraphInv ==
  /\ GraphType
  /\ \A r \in Request : RequestHolds(request[r])
  /\ \A i \in DOMAIN cache : EntryHolds(cache[i])

-----------------------------------------------------------------------------

\* Two cases with the same rows are the same.
LEMMA SameRows ==
  ASSUME NEW c \in Case, NEW d \in Case,
         c.processes = d.processes, c.findings = d.findings, c.suppressed = d.suppressed,
         c.unapplied = d.unapplied, c.events = d.events
  PROVE  c = d
BY DEF Case

\* The cache after a map was kept: the new entry and some of the old ones.
LEMMA RememberKeeps ==
  ASSUME cache \in Seq(Entry), NEW e \in Entry
  PROVE  /\ Remember(e) \in Seq(Entry)
         /\ \A i \in DOMAIN Remember(e) :
              Remember(e)[i] = e \/ \E j \in DOMAIN cache : Remember(e)[i] = cache[j]
<1> DEFINE known == {i \in DOMAIN cache : cache[i].view = e.view}
           longer == Append(cache, e)
<1>1. CASE known # {}
  <2>1. Remember(e) = [i \in DOMAIN cache |-> IF i \in known THEN e ELSE cache[i]]
    BY <1>1 DEF Remember
  <2> QED BY <2>1
<1>2. CASE known = {} /\ Len(longer) > CacheLimit
  <2>1. Remember(e) = Tail(longer) BY <1>2 DEF Remember
  <2>2. longer \in Seq(Entry) /\ Len(longer) = Len(cache) + 1 BY AppendProperties
  <2>3. longer # <<>> BY <2>2, LenProperties
  <2>4. /\ Tail(longer) \in Seq(Entry) /\ Len(Tail(longer)) = Len(cache)
        /\ \A i \in 1 .. Len(cache) : Tail(longer)[i] = longer[i + 1]
    BY <2>2, <2>3, HeadTailProperties, LenProperties
  <2>5. \A i \in 1 .. Len(cache) + 1 : longer[i] = e \/ \E j \in DOMAIN cache : longer[i] = cache[j]
    BY AppendProperties, LenProperties
  <2> HIDE DEF longer
  <2>6. \A i \in DOMAIN Tail(longer) : i \in 1 .. Len(cache) BY <2>4, LenProperties
  <2> QED BY <2>1, <2>4, <2>5, <2>6, LenProperties
<1>3. CASE known = {} /\ ~(Len(longer) > CacheLimit)
  <2>1. Remember(e) = longer BY <1>3 DEF Remember
  <2> QED BY <2>1, AppendProperties, LenProperties
<1> QED BY <1>1, <1>2, <1>3

LEMMA GraphInit == Init => GraphInv
<1> SUFFICES ASSUME Init PROVE GraphInv OBVIOUS
<1>1. NoRows \in Case BY DEF NoRows, Case
<1>2. Idle \in Asked BY <1>1 DEF Idle, Asked, Answers
<1>3. GraphType BY <1>2, EntityGraphConstants DEF Init, GraphType
<1>4. \A r \in Request : request[r].step = "idle" /\ request[r].since = 0
  BY DEF Init, Idle
<1> QED BY <1>3, <1>4 DEF Init, GraphInv, RequestHolds, Reading

LEMMA EntryTypes ==
  ASSUME cache \in Seq(Entry), NEW i \in DOMAIN cache
  PROVE  cache[i] \in Entry /\ cache[i].stamp[2] \in Nat
<1>1. cache[i] \in Entry BY LenProperties
<1> QED BY <1>1 DEF Entry, Stamps

\* A commit outdates every map and every reading at once.
LEMMA CommitOutdates ==
  ASSUME GraphInv, NEW q \in Asked, RequestHolds(q), q.step # "done" \/ q.since # logged + 1,
         data' \in Case, logged' = logged + 1
  PROVE  RequestHolds(q)'
<1>1. q.since <= logged /\ q.since \in Nat /\ logged \in Nat
  BY DEF GraphInv, GraphType, RequestHolds, Asked
<1>2. q.step \in Reading /\ IsMap(q.view) => q.stamp[2] <= logged /\ q.stamp[2] \in Nat
  BY DEF RequestHolds, Stamps
<1>3. q.step \in Reading => ~Unmet(q)' BY <1>1, <1>2 DEF Unmet, IsMap
<1> QED BY <1>1, <1>2, <1>3 DEF RequestHolds, IsMap

LEMMA CommitStep ==
  ASSUME GraphInv, NEW new \in Case, Commit(new)
  PROVE  GraphInv'
<1> USE DEF Commit
<1>1. GraphType' BY DEF GraphInv, GraphType
<1>2. ASSUME NEW r \in Request PROVE RequestHolds(request[r])'
  <2>1. request[r] \in Asked /\ RequestHolds(request[r]) /\ request[r].since # logged + 1
    BY DEF GraphInv, GraphType, RequestHolds, Asked
  <2>2. RequestHolds(request[r])' BY <2>1, CommitOutdates
  <2> QED BY <2>2
<1>3. ASSUME NEW i \in DOMAIN cache PROVE EntryHolds(cache[i])'
  BY EntryTypes DEF GraphInv, GraphType, EntryHolds
<1> QED BY <1>1, <1>2, <1>3 DEF GraphInv

LEMMA WriterStep ==
  ASSUME GraphInv,
         \/ \E e \in Events : AddEvent(e)
         \/ \E p \in Processes : AddProcess(p)
         \/ \E i \in DOMAIN Findings : Override(Findings[i]) \/ \E legacy \in BOOLEAN : AddFinding(Findings[i], legacy)
  PROVE  GraphInv'
<1>0. data \in Case BY DEF GraphInv, GraphType
<1>1. ASSUME NEW e \in Events, AddEvent(e) PROVE GraphInv'
  <2>1. [data EXCEPT !.events = @ \cup {e}] \in Case BY <1>0 DEF Case
  <2> QED BY <1>1, <2>1, CommitStep DEF AddEvent
<1>2. ASSUME NEW p \in Processes, AddProcess(p) PROVE GraphInv'
  <2>1. [data EXCEPT !.processes = @ \cup {p}] \in Case BY <1>0 DEF Case
  <2> QED BY <1>2, <2>1, CommitStep DEF AddProcess
<1>3. ASSUME NEW i \in DOMAIN Findings, Override(Findings[i]) PROVE GraphInv'
  <2> DEFINE f == Findings[i]
  <2>1. f \in ToSet(Findings) BY DEF ToSet
  <2>2. [data EXCEPT !.suppressed = IF f \in @ THEN @ \ {f} ELSE @ \cup {f}] \in Case
    BY <1>0, <2>1 DEF Case
  <2> QED BY <1>3, <2>2, CommitStep DEF Override
<1>4. ASSUME NEW i \in DOMAIN Findings, NEW legacy \in BOOLEAN, AddFinding(Findings[i], legacy) PROVE GraphInv'
  <2> DEFINE f == Findings[i]
  <2>1. f \in ToSet(Findings) BY DEF ToSet
  <2>2. [data EXCEPT !.findings = @ \cup {f}, !.unapplied = IF legacy THEN @ \cup {f} ELSE @] \in Case
    BY <1>0, <2>1 DEF Case
  <2> QED BY <1>4, <2>2, CommitStep DEF AddFinding
<1> QED BY <1>1, <1>2, <1>3, <1>4

\* A step of one request, at no commit.
LEMMA RequestStep ==
  ASSUME GraphInv, NEW r \in Request, NEW q \in Asked, RequestHolds(q),
         request' = [request EXCEPT ![r] = q], UNCHANGED <<data, files>>,
         \/ cache' = cache
         \/ \E e \in Entry : EntryHolds(e) /\ cache' = Remember(e)
  PROVE  GraphInv'
<1> USE DEF files
<1>1. cache' \in Seq(Entry) /\ \A i \in DOMAIN cache' : EntryHolds(cache'[i])
  <2>1. CASE cache' = cache BY <2>1 DEF GraphInv, GraphType
  <2>2. ASSUME NEW e \in Entry, EntryHolds(e), cache' = Remember(e)
        PROVE  cache' \in Seq(Entry) /\ \A i \in DOMAIN cache' : EntryHolds(cache'[i])
    BY <2>2, RememberKeeps DEF GraphInv, GraphType
  <2> QED BY <2>1, <2>2
<1>2. GraphType' BY <1>1 DEF GraphInv, GraphType
<1>3. \A s \in Request : RequestHolds(request'[s])
  BY DEF GraphInv, GraphType
<1>4. \A s \in Request : RequestHolds(request[s])'
  BY <1>3 DEF RequestHolds, Unmet, ReadsHold, IsMap
<1>5. \A i \in DOMAIN cache' : EntryHolds(cache[i])' BY <1>1 DEF EntryHolds
<1> QED BY <1>2, <1>4, <1>5 DEF GraphInv

\* What the invariant says of one request.
LEMMA Typed ==
  ASSUME GraphInv, NEW r \in Request
  PROVE  /\ request[r] \in Asked /\ RequestHolds(request[r]) /\ data \in Case
         /\ logged \in Nat /\ copied \in Nat
BY DEF GraphInv, GraphType

LEMMA AskStep ==
  ASSUME GraphInv, NEW r \in Request, NEW view \in Views, Ask(r, view)
  PROVE  GraphInv'
<1> DEFINE q == [Idle EXCEPT !.step = "waiting", !.view = view]
<1>1. NoRows \in Case BY DEF NoRows, Case
<1>2. Idle \in Asked BY <1>1 DEF Idle, Asked, Answers
<1>3. q \in Asked BY <1>2 DEF Asked
<1>4. RequestHolds(q) BY Typed DEF Idle, RequestHolds, Reading
<1> QED BY <1>3, <1>4, RequestStep DEF Ask

\* The first to hold the lock applies what older versions left; if anything, that
\* is a commit, and else the rows stay.
LEMMA EnterStep ==
  ASSUME GraphInv, NEW r \in Request, Enter(r)
  PROVE  GraphInv'
<1> DEFINE q == [request[r] EXCEPT !.step = IF IsMap(request[r].view) THEN "stamp" ELSE "processes",
                                   !.since = logged']
<1>1. /\ request[r] \in Asked /\ request[r].step = "waiting" /\ request[r].view \in Views
      /\ data \in Case /\ logged \in Nat
  BY Typed DEF Enter, At, RequestHolds
<1>2. logged' \in Nat BY <1>1 DEF Enter
<1>3. q \in Asked BY <1>1, <1>2 DEF Asked, Reading
<1>4. request' = [request EXCEPT ![r] = q] BY <1>1 DEF Enter, GraphInv, GraphType, Asked
<1>5. CASE data.unapplied = {}
  <2>1. data' = data BY <1>1, <1>5, SameRows DEF Enter, Case
  <2>2. logged' = logged BY <1>5 DEF Enter
  <2>3. RequestHolds(q)
    BY <1>1, <2>2 DEF RequestHolds, Reading, Asked, IsMap, ReadsHold
  <2> QED BY <1>3, <1>4, <2>1, <2>2, <2>3, RequestStep DEF Enter, files
<1>6. CASE data.unapplied # {}
  <2>1. logged' = logged + 1 /\ data' \in Case BY <1>1, <1>6 DEF Enter, Case
  <2>2. GraphType'
    <3> HIDE DEF q
    <3>1. request \in [Request -> Asked] /\ cache \in Seq(Entry) /\ copied \in Nat
      BY DEF GraphInv, GraphType
    <3>2. request' \in [Request -> Asked] BY <3>1, <1>3, <1>4
    <3>3. cache' = cache /\ copied' = copied BY DEF Enter
    <3> QED BY <1>2, <2>1, <3>1, <3>2, <3>3 DEF GraphType
  <2>3. ASSUME NEW s \in Request PROVE RequestHolds(request[s])'
    <3>1. CASE s = r
      <4>1. request'[s] = q BY <1>4, <3>1 DEF GraphInv, GraphType
      <4> QED BY <1>1, <1>2, <4>1 DEF RequestHolds, Reading, Asked, IsMap, ReadsHold
    <3>2. CASE s # r
      <4>1. request'[s] = request[s] BY <1>4, <3>2 DEF GraphInv, GraphType
      <4>2. /\ request[s] \in Asked /\ RequestHolds(request[s]) /\ request[s].since # logged + 1
        BY Typed DEF RequestHolds, Asked
      <4>3. PICK c \in Asked : c = request[s] BY <4>2
      <4>4. RequestHolds(c)' BY <2>1, <4>2, <4>3, CommitOutdates
      <4> QED BY <4>1, <4>3, <4>4 DEF RequestHolds, Unmet, ReadsHold, IsMap
    <3> QED BY <3>1, <3>2
  <2>4. ASSUME NEW i \in DOMAIN cache PROVE EntryHolds(cache[i])'
    BY <2>1, EntryTypes DEF GraphInv, GraphType, EntryHolds, Enter
  <2> QED BY <2>2, <2>3, <2>4 DEF GraphInv, Enter
<1> QED BY <1>5, <1>6

LEMMA ReadProcessesStep ==
  ASSUME GraphInv, NEW r \in Request, ReadProcesses(r)
  PROVE  GraphInv'
<1> DEFINE q == [request[r] EXCEPT !.step = "findings", !.read.processes = data.processes]
<1>1. q \in Asked
  <2> DEFINE table == [request[r].read EXCEPT !.processes = data.processes]
  <2>1. request[r] \in Asked /\ data \in Case BY Typed
  <2>2. table \in Case BY <2>1 DEF Asked, Case
  <2>3. q = [request[r] EXCEPT !.step = "findings", !.read = table] BY <2>1 DEF Asked, Case
  <2> HIDE DEF table
  <2> QED BY <2>1, <2>2, <2>3 DEF Asked, Reading
<1>2. RequestHolds(q)
  BY Typed DEF ReadProcesses, At, RequestHolds, ReadsHold, Unmet, IsMap, Reading, Asked, Case
<1>3. request' = [request EXCEPT ![r] = q] BY Typed DEF ReadProcesses, GraphInv, GraphType, Asked
<1> QED BY <1>1, <1>2, <1>3, RequestStep DEF ReadProcesses

LEMMA ReadFindingsStep ==
  ASSUME GraphInv, NEW r \in Request, ReadFindings(r)
  PROVE  GraphInv'
<1> DEFINE q == [request[r] EXCEPT !.step = "events", !.read.findings = data.findings,
                                   !.read.suppressed = data.suppressed]
<1>1. q \in Asked
  <2> DEFINE table == [request[r].read EXCEPT !.findings = data.findings, !.suppressed = data.suppressed]
  <2>1. request[r] \in Asked /\ data \in Case BY Typed
  <2>2. table \in Case BY <2>1 DEF Asked, Case
  <2>3. q = [request[r] EXCEPT !.step = "events", !.read = table] BY <2>1 DEF Asked, Case
  <2> HIDE DEF table
  <2> QED BY <2>1, <2>2, <2>3 DEF Asked, Reading
<1>2. RequestHolds(q)
  <2>1. request[r].step = "findings" /\ request[r] \in Asked /\ RequestHolds(request[r])
    BY Typed DEF ReadFindings, At
  <2>2. Unmet(q) => q.read.processes = data.processes
    BY <2>1 DEF RequestHolds, ReadsHold, Unmet, IsMap, Reading, Asked, Case
  <2>3. q.read.findings = data.findings /\ q.read.suppressed = data.suppressed
    BY <2>1 DEF Asked, Case
  <2> QED BY <2>1, <2>2, <2>3 DEF RequestHolds, ReadsHold, Unmet, IsMap, Reading, Asked
<1>3. request' = [request EXCEPT ![r] = q] BY Typed DEF ReadFindings, GraphInv, GraphType, Asked
<1> QED BY <1>1, <1>2, <1>3, RequestStep DEF ReadFindings

LEMMA ReadEventsStep ==
  ASSUME GraphInv, NEW r \in Request, ReadEvents(r)
  PROVE  GraphInv'
<1> DEFINE q == [request[r] EXCEPT !.step = "answer", !.read.events = data.events,
                                   !.read.unapplied = data.unapplied]
<1>1. q \in Asked
  <2> DEFINE table == [request[r].read EXCEPT !.events = data.events, !.unapplied = data.unapplied]
  <2>1. request[r] \in Asked /\ data \in Case BY Typed
  <2>2. table \in Case BY <2>1 DEF Asked, Case
  <2>3. q = [request[r] EXCEPT !.step = "answer", !.read = table] BY <2>1 DEF Asked, Case
  <2> HIDE DEF table
  <2> QED BY <2>1, <2>2, <2>3 DEF Asked, Reading
<1>2. RequestHolds(q)
  <2>1. request[r].step = "events" /\ request[r] \in Asked /\ RequestHolds(request[r])
    BY Typed DEF ReadEvents, At
  <2>2. Unmet(q) => /\ q.read.processes = data.processes /\ q.read.findings = data.findings
                    /\ q.read.suppressed = data.suppressed
    BY <2>1 DEF RequestHolds, ReadsHold, Unmet, IsMap, Reading, Asked, Case
  <2>3. q.read.events = data.events /\ q.read.unapplied = data.unapplied
    BY <2>1 DEF Asked, Case
  <2> QED BY <2>1, <2>2, <2>3 DEF RequestHolds, ReadsHold, Unmet, IsMap, Reading, Asked
<1>3. request' = [request EXCEPT ![r] = q] BY Typed DEF ReadEvents, GraphInv, GraphType, Asked
<1> QED BY <1>1, <1>2, <1>3, RequestStep DEF ReadEvents

\* An answer made of rows that are those of now unless somebody committed.
LEMMA Finished ==
  ASSUME GraphInv, NEW r \in Request, NEW table \in Case, Finish(r, table), request[r].view \in Views,
         request[r].since = logged => table = data
  PROVE  \E q \in Asked : RequestHolds(q) /\ request' = [request EXCEPT ![r] = q]
<1> DEFINE q == [request[r] EXCEPT !.step = "done", !.stamp = None, !.read = NoRows,
                                   !.answer = Answered(table, request[r].view)]
<1>1. NoRows \in Case BY DEF NoRows, Case
<1>2. Answered(table, request[r].view) \in Answers BY DEF Answers
<1>3. q \in Asked BY <1>1, <1>2, Typed DEF Asked
<1>4. RequestHolds(q) BY Typed DEF RequestHolds, Reading, Asked
<1>5. request' = [request EXCEPT ![r] = q] BY Typed DEF Finish, GraphInv, GraphType, Asked
<1> QED BY <1>3, <1>4, <1>5

\* A fingerprint that the cache knows is of the last commit.
LEMMA StampStep ==
  ASSUME GraphInv, NEW r \in Request, Stamp(r)
  PROVE  GraphInv'
<1>1. /\ request[r] \in Asked /\ RequestHolds(request[r]) /\ request[r].step = "stamp"
      /\ request[r].view \in Views /\ logged \in Nat /\ copied \in Nat
  BY Typed DEF Stamp, At, RequestHolds
<1>2. CASE Hits(request[r].view, Fingerprint) = {}
  <2> DEFINE q == [request[r] EXCEPT !.step = "processes", !.stamp = Fingerprint]
  <2>1. Fingerprint \in Stamps /\ Fingerprint[2] = logged BY <1>1 DEF Fingerprint, Stamps
  <2>2. q \in Asked BY <1>1, <2>1 DEF Asked, Reading
  <2>3. RequestHolds(q) BY <1>1, <2>1 DEF RequestHolds, ReadsHold, Reading, Asked
  <2>4. request' = [request EXCEPT ![r] = q] BY <1>1, <1>2 DEF Stamp, GraphInv, GraphType, Asked
  <2> QED BY <2>2, <2>3, <2>4, RequestStep DEF Stamp
<1>3. CASE Hits(request[r].view, Fingerprint) # {}
  <2>1. PICK i \in DOMAIN cache : cache[i].stamp = Fingerprint /\ Finish(r, cache[i].read)
    BY <1>3 DEF Stamp, Hits
  <2>2. cache[i] \in Entry /\ EntryHolds(cache[i]) BY EntryTypes DEF GraphInv, GraphType
  <2>3. cache[i].stamp[2] = logged BY <2>1 DEF Fingerprint
  <2>4. cache[i].read = data /\ cache[i].read \in Case BY <2>2, <2>3 DEF EntryHolds, Entry
  <2>5. PICK q \in Asked : RequestHolds(q) /\ request' = [request EXCEPT ![r] = q]
    BY <1>1, <2>1, <2>4, Finished
  <2> QED BY <2>5, RequestStep DEF Stamp
<1> QED BY <1>2, <1>3

LEMMA AnswerStep ==
  ASSUME GraphInv, NEW r \in Request, Answer(r)
  PROVE  GraphInv'
<1> DEFINE view == request[r].view
           read == request[r].read
           entry == [view |-> view, stamp |-> request[r].stamp, read |-> read]
<1>1. /\ request[r] \in Asked /\ RequestHolds(request[r]) /\ request[r].step = "answer"
      /\ view \in Views /\ data \in Case /\ read \in Case
  BY Typed DEF Answer, At, RequestHolds, Asked
<1>2. Unmet(request[r]) => read = data
  <2>1. SUFFICES ASSUME Unmet(request[r]) PROVE read = data OBVIOUS
  <2>2. ReadsHold(request[r]) BY <1>1, <2>1 DEF RequestHolds, Reading
  <2> QED BY <1>1, <2>2, SameRows DEF ReadsHold
<1>3. request[r].since = logged => read = data BY <1>2 DEF Unmet
<1>4. PICK q \in Asked : RequestHolds(q) /\ request' = [request EXCEPT ![r] = q]
  BY <1>1, <1>3, Finished DEF Answer
<1>5. CASE IsMap(view)
  <2>1. request[r].stamp \in Stamps /\ request[r].stamp[2] <= logged
    BY <1>1, <1>5 DEF RequestHolds, Reading
  <2>2. entry \in Entry BY <1>1, <2>1 DEF Entry
  <2>3. EntryHolds(entry) BY <1>2, <1>5, <2>1 DEF EntryHolds, Unmet
  <2>4. cache' = Remember(entry) BY <1>5 DEF Answer
  <2> QED BY <1>4, <2>2, <2>3, <2>4, RequestStep DEF Answer
<1>6. CASE ~IsMap(view)
  BY <1>4, <1>6, RequestStep DEF Answer
<1> QED BY <1>5, <1>6

LEMMA CheckpointStep ==
  ASSUME GraphInv, Checkpoint
  PROVE  GraphInv'
<1> USE DEF Checkpoint
<1>1. GraphType' BY DEF GraphInv, GraphType
<1>2. \A r \in Request : RequestHolds(request[r])'
  BY DEF GraphInv, RequestHolds, Unmet, ReadsHold, IsMap
<1>3. \A i \in DOMAIN cache' : EntryHolds(cache[i])' BY DEF GraphInv, EntryHolds
<1> QED BY <1>1, <1>2, <1>3 DEF GraphInv

LEMMA GraphStep == GraphInv /\ [Next]_vars => GraphInv'
<1> SUFFICES ASSUME GraphInv, [Next]_vars PROVE GraphInv' OBVIOUS
<1>1. CASE UNCHANGED vars
  <2> USE <1>1 DEF vars
  <2>1. GraphType' BY DEF GraphInv, GraphType
  <2>2. \A r \in Request : RequestHolds(request[r])'
    BY DEF GraphInv, RequestHolds, Unmet, ReadsHold, IsMap
  <2>3. \A i \in DOMAIN cache' : EntryHolds(cache[i])' BY DEF GraphInv, EntryHolds
  <2> QED BY <2>1, <2>2, <2>3 DEF GraphInv
<1>2. ASSUME NEW r \in Request,
             \/ \E view \in Views : Ask(r, view)
             \/ Enter(r) \/ Stamp(r) \/ ReadProcesses(r) \/ ReadFindings(r) \/ ReadEvents(r) \/ Answer(r)
      PROVE  GraphInv'
  BY <1>2, AskStep, EnterStep, StampStep, ReadProcessesStep, ReadFindingsStep, ReadEventsStep, AnswerStep
<1> QED BY <1>1, <1>2, WriterStep, CheckpointStep DEF Next, Write

\* The invariant holds, and with it both properties below.
THEOREM GraphInvariant == Spec => []GraphInv
<1> QED BY GraphInit, GraphStep, PTL DEF Spec

\* For any number of requests, whatever is committed between their queries and
\* whatever the cache kept: a map or a dossier asked for while nobody committed is
\* the one of the case as it is (list_graph, entity_graph_node).
THEOREM AnswersAlwaysCurrent == Spec => []AnswersAreCurrent
<1>1. GraphInv => AnswersAreCurrent BY DEF GraphInv, RequestHolds, AnswersAreCurrent, At
<1> QED BY <1>1, GraphInvariant, PTL

\* A map in the cache that would be served now is made of the rows of now: a
\* commit between the three queries leaves nothing behind that passes for current.
THEOREM CacheAlwaysCurrent == Spec => []CachedIsCurrent
<1>1. GraphInv => CachedIsCurrent BY DEF GraphInv, EntryHolds, CachedIsCurrent, Fingerprint
<1> QED BY <1>1, GraphInvariant, PTL


-----------------------------------------------------------------------------
(* The entity map, folded over the findings in the order of their ids. *)

\* The index whose turn is last.
GreatestIndex(S) == Max(S)

\* One finding's turn, as Graph has it.
ManualTurn(d, g, i) ==
  IF Findings[i] \in Effective(d) /\ Findings[i].node # None
  THEN AttachManual(g, Findings[i], Resolve(g.nodes, TypeOf(Findings[i].node), ValueOf(Findings[i].node)), d)
  ELSE g

\* The nodes of the rows, which no finding of the analyst takes away.
RowNodes(d) == {m.node : m \in RowMarks(d)}

\* A path that a tie leads to is, with the node's own, in one event.
Witnessed(m, d) ==
  LET type == TypeOf(m.finding.node) v == ValueOf(m.finding.node)
      ends == (UNION {{e.from, e.to} : e \in m.edges}) \ {m.node}
  IN type \in Named /\ HasPath(v) =>
       /\ HasPath(ValueOf(m.node)) => ValueOf(m.node) = v
       /\ \A n \in ends : TypeOf(n) \in Named /\ HasPath(ValueOf(n)) =>
            \E e \in d.events : v \in IndexValues(e, type) /\ ValueOf(n) \in IndexValues(e, "process")

MapHolds(d, i, g) ==
  /\ RowNodes(d) \subseteq g.nodes
  /\ RowMarks(d) \subseteq g.marks /\ \A m \in g.marks : m.severity \in Grades
  /\ \A m \in g.manual : Witnessed(m, d)
  /\ (\A f \in Effective(d) : f.node = None) => g = Extracted(RowMarks(d), d)

MapFold == INSTANCE FoldLaws WITH Pick <- GreatestIndex, Step <- ManualTurn, Holds <- MapHolds

LEMMA MapPicks == MapFold!PicksLast
BY DEF MapFold!PicksLast, GreatestIndex, Max

LEMMA GraphFolds ==
  ASSUME NEW d
  PROVE  Graph(d) = MapFold!Fold(d, Extracted(RowMarks(d), d), 1 .. Len(Findings))
<1>1. DOMAIN Findings = 1 .. Len(Findings)
  BY EntityRows
<1> QED
  BY <1>1 DEF Graph, FoldLeft, MapThenFoldSet, MapFold!Fold, MapFold!IsFold, ManualTurn, GreatestIndex

\* What holds of the map of the rows and is kept by every turn holds of the map.
LEMMA GraphHolds ==
  ASSUME NEW d, MapHolds(d, 0, Extracted(RowMarks(d), d)),
         \A i \in 1 .. Len(Findings) : \A g : MapHolds(d, i - 1, g) => MapHolds(d, i, ManualTurn(d, g, i))
  PROVE  MapHolds(d, Len(Findings), Graph(d))
<1> DEFINE n == Len(Findings)
           base == Extracted(RowMarks(d), d)
<1>1. n \in Nat
  BY EntityRows
<1>2. \A m \in 0 .. n - 1 : \A x : MapHolds(d, m, x) => MapHolds(d, m + 1, ManualTurn(d, x, m + 1))
  <2> SUFFICES ASSUME NEW m \in 0 .. n - 1, NEW x, MapHolds(d, m, x)
               PROVE  MapHolds(d, m + 1, ManualTurn(d, x, m + 1))
    OBVIOUS
  <2>1. m + 1 \in 1 .. n /\ (m + 1) - 1 = m
    BY <1>1
  <2> HIDE DEF n
  <2> QED BY <2>1 DEF n
<1> HIDE DEF n, base
<1>3. \A m \in 0 .. n : MapHolds(d, m, MapFold!Fold(d, base, 1 .. m))
  BY <1>1, <1>2, MapPicks, MapFold!FoldKeeps DEF base
<1>4. n \in 0 .. n
  BY <1>1
<1> QED BY <1>3, <1>4, GraphFolds DEF n, base

\* The greatest of some grades is one of them.
LEMMA GreatestIn ==
  ASSUME NEW S, S \subseteq Grades, S # {}
  PROVE  Greatest(S) \in S /\ \A s \in S : s <= Greatest(S)
<1>1. \E x \in S : \A y \in S : y <= x
  <2>1. CASE 4 \in S
    BY <2>1 DEF Grades
  <2>2. CASE 4 \notin S /\ 3 \in S
    BY <2>2 DEF Grades
  <2>3. CASE 4 \notin S /\ 3 \notin S /\ 2 \in S
    BY <2>3 DEF Grades
  <2>4. CASE 4 \notin S /\ 3 \notin S /\ 2 \notin S /\ 1 \in S
    BY <2>4 DEF Grades
  <2>5. CASE 4 \notin S /\ 3 \notin S /\ 2 \notin S /\ 1 \notin S
    <3>1. \A s \in S : s = 0
      BY <2>5 DEF Grades
    <3> QED BY <3>1
  <2> QED BY <2>1, <2>2, <2>3, <2>4, <2>5
<1> QED BY <1>1 DEF Greatest

LEMMA FindingsGraded ==
  ASSUME NEW d, d.findings \subseteq ToSet(Findings), NEW f \in Effective(d)
  PROVE  f.severity \in Grades
BY EntityRows DEF Effective

\* The events of a case are as severe as their rows, what raises them, or nothing.
LEMMA EventGraded ==
  ASSUME NEW d, d.findings \subseteq ToSet(Findings), NEW e \in Events
  PROVE  RowSeverity(e, d) \in Grades /\ EventSeverity(e, d) \in Grades
<1> DEFINE S == {e.severity} \cup {f.severity : f \in {g \in Effective(d) \ d.unapplied : Raises(g, e)}}
<1>1. S \subseteq Grades
  BY FindingsGraded, EntityRows
<1>2. S # {}
  OBVIOUS
<1>3. RowSeverity(e, d) = Greatest(S)
  BY DEF RowSeverity
<1> HIDE DEF S
<1>4. RowSeverity(e, d) \in Grades
  BY <1>1, <1>2, <1>3, GreatestIn
<1> QED BY <1>4 DEF EventSeverity, Info, Grades

IsCase(d) ==
  d.events \subseteq Events /\ d.processes \subseteq Processes /\ d.findings \subseteq ToSet(Findings)

\* A mark of a row is of a process, of an event or of the chain of a finding.
LEMMA RowMarkIs ==
  ASSUME NEW d, NEW m \in RowMarks(d)
  PROVE  \/ \E p \in d.processes : m.node \in NodesOfProcess(p) /\ m.severity = p.severity
         \/ \E e \in d.events : m.node \in NodesOfEvent(e, EventSeverity(e, d)) /\ m.severity = EventSeverity(e, d)
         \/ \E f \in Effective(d) : m.node \in Chained(f) /\ m.severity = f.severity
BY DEF RowMarks, Mark

LEMMA RowMarksGraded ==
  ASSUME NEW d, IsCase(d), NEW m \in RowMarks(d)
  PROVE  m.severity \in Grades
<1>1. \A p \in d.processes : p.severity \in Grades
  BY EntityRows DEF IsCase
<1>2. \A e \in d.events : EventSeverity(e, d) \in Grades
  BY EventGraded DEF IsCase
<1>3. \A f \in Effective(d) : f.severity \in Grades
  BY FindingsGraded DEF IsCase
<1> QED BY <1>1, <1>2, <1>3, RowMarkIs

LEMMA RowsHold ==
  ASSUME NEW d, IsCase(d)
  PROVE  MapHolds(d, 0, Extracted(RowMarks(d), d))
<1> DEFINE g == Extracted(RowMarks(d), d)
<1>1. /\ g.nodes = RowNodes(d) /\ g.manual = {}
      /\ g.marks = RowMarks(d) \cup {[node |-> a[1], source |-> "finding", severity |-> a[2].severity] : a \in g.attached}
      /\ \A a \in g.attached : a[2] \in Effective(d)
  BY DEF RowNodes, Extracted, Attached, Automatic
<1> HIDE DEF g
<1>2. \A m \in g.marks : m.severity \in Grades
  BY <1>1, RowMarksGraded, FindingsGraded DEF IsCase
<1> QED BY <1>1, <1>2 DEF MapHolds, g

\* A program of an event is the one node its bare name can stand for.
LEMMA ResolvedPath ==
  ASSUME NEW nodes, NEW w, IsFileName(w), <<"process", w>> \in nodes,
         HasPath(ValueOf(Resolve(nodes, "process", NameOnly(w))))
  PROVE  ValueOf(Resolve(nodes, "process", NameOnly(w))) = w
<1> DEFINE bare == NameOnly(w)
<1>1. bare.dir = None /\ bare.base = w.base
  BY DEF NameOnly, IsFileName
<1>2. ~HasPath(bare)
  BY <1>1 DEF HasPath
<1>3. <<"process", w>> \in Alike(nodes, "process", bare)
  BY <1>1, <1>2 DEF Alike, TypeOf, ValueOf
<1>4. ASSUME NEW n \in UniqueOfTheName(nodes, "process", bare)
      PROVE  n = <<"process", w>>
  BY <1>3 DEF UniqueOfTheName
<1> HIDE DEF bare
<1>5. CASE <<"process", bare>> \in nodes \/ UniqueOfTheName(nodes, "process", bare) = {}
  BY <1>2, <1>5 DEF Resolve, ValueOf, bare
<1>6. CASE <<"process", bare>> \notin nodes /\ UniqueOfTheName(nodes, "process", bare) # {}
  <2>1. Resolve(nodes, "process", bare) = CHOOSE n \in UniqueOfTheName(nodes, "process", bare) : TRUE
    BY <1>6 DEF Resolve, Named
  <2>2. Resolve(nodes, "process", bare) = <<"process", w>>
    BY <1>4, <1>6, <2>1
  <2> QED BY <2>2 DEF ValueOf, bare
<1> QED BY <1>5, <1>6

\* The types whose values are atoms are resolved to themselves.
LEMMA ResolvedAtom ==
  ASSUME NEW nodes, NEW type, type \notin Named, NEW v
  PROVE  Resolve(nodes, type, v) = <<type, v>>
BY DEF Resolve

\* Two full paths that Resolve takes for one are one.
LEMMA ResolvedSame ==
  ASSUME NEW nodes, NEW type, NEW v, HasPath(v), HasPath(ValueOf(Resolve(nodes, type, v)))
  PROVE  ValueOf(Resolve(nodes, type, v)) = v
<1> DEFINE U == UniqueOfTheName(nodes, type, v)
<1>1. \A n \in U : HasPath(ValueOf(n)) => ValueOf(n) = v
  BY DEF UniqueOfTheName, Alike
<1>2. CASE Resolve(nodes, type, v) = <<type, v>>
  BY <1>2 DEF ValueOf
<1>3. CASE Resolve(nodes, type, v) # <<type, v>>
  <2>1. U # {} /\ Resolve(nodes, type, v) = CHOOSE n \in U : TRUE
    BY <1>3 DEF Resolve
  <2> HIDE DEF U
  <2> QED BY <1>1, <2>1
<1> QED BY <1>2, <1>3

\* What the event of a neighbour says of it.
LEMMA NeighbourIn ==
  ASSUME NEW n, NEW e \in Events, NEW r \in Neighbours(n, e), NEW d, e \in d.events
  PROVE  \/ TypeOf(r.to) \in Atomic
         \/ \E w \in IndexValues(e, "process") :
              IsFileName(w) /\ r.to = <<"process", NameOnly(w)>> /\ <<"process", w>> \in RowNodes(d)
<1>1. /\ e.category # "weblog"
      /\ r.to \in BareNode("process", e.parent) \cup BareNode("process", e.proc) \cup Node("user", e.actor)
                    \cup Node("host", e.host) \cup Node("ip", e.ip)
  <2> DEFINE run == (TypeOf(n) \in Named /\ Pathish(ValueOf(n), e.proc)) /\ e.verb = "executed"
             by == IF run THEN BareNode("process", e.parent) ELSE BareNode("process", e.proc)
             verb == IF run THEN "executed" ELSE e.verb
             first == {[to |-> m, verb |-> verb, out |-> FALSE] : m \in by \cup Node("user", e.actor)}
             second == {[to |-> m, verb |-> "seen on", out |-> TRUE] : m \in Node("host", e.host)}
             third == {[to |-> m, verb |-> "connected to", out |-> TRUE] :
                         m \in IF e.category = "network" THEN Node("ip", e.ip) ELSE {}}
             itself == {n} \cup IF TypeOf(n) \in Named THEN {<<TypeOf(n), NameOnly(ValueOf(n))>>} ELSE {}
  <2>1. Neighbours(n, e) = {q \in first \cup second \cup third : e.category # "weblog" /\ q.to \notin itself}
    BY DEF Neighbours
  <2> HIDE DEF first, second, third, itself
  <2>2. e.category # "weblog" /\ r \in first \cup second \cup third
    BY <2>1
  <2>3. CASE r \in first
    <3>1. PICK m \in by \cup Node("user", e.actor) : r = [to |-> m, verb |-> verb, out |-> FALSE]
      BY <2>3 DEF first
    <3>2. r.to = m
      BY <3>1
    <3> QED BY <2>2, <3>1, <3>2
  <2>4. CASE r \in second
    <3>1. PICK m \in Node("host", e.host) : r = [to |-> m, verb |-> "seen on", out |-> TRUE]
      BY <2>4 DEF second
    <3> QED BY <2>2, <3>1
  <2>5. CASE r \in third
    <3>1. PICK m \in Node("ip", e.ip) : r = [to |-> m, verb |-> "connected to", out |-> TRUE]
      BY <2>5 DEF third
    <3> QED BY <2>2, <3>1
  <2> QED BY <2>2, <2>3, <2>4, <2>5
<1>2. CASE r.to \in Node("user", e.actor) \cup Node("host", e.host) \cup Node("ip", e.ip)
  BY <1>2 DEF Node, TypeOf, Atomic
<1>3. ASSUME NEW w \in {e.parent, e.proc}, r.to \in BareNode("process", w)
      PROVE  w \in IndexValues(e, "process") /\ IsFileName(w) /\ r.to = <<"process", NameOnly(w)>>
             /\ <<"process", w>> \in RowNodes(d)
  <2>1. w # None /\ r.to = <<"process", NameOnly(w)>>
    BY <1>3 DEF BareNode
  <2>2. w \in IndexValues(e, "process")
    BY <2>1 DEF IndexValues
  <2>3. IsFileName(w)
    BY <2>1, EntityRows
  <2>4. <<"process", w>> \in NodesOfEvent(e, EventSeverity(e, d))
    BY <1>1, <2>1 DEF NodesOfEvent, EventNodes, Node
  <2>5. [node |-> <<"process", w>>, source |-> "event", severity |-> EventSeverity(e, d)] \in RowMarks(d)
    BY <2>4 DEF RowMarks, Mark
  <2> QED BY <2>1, <2>2, <2>3, <2>5 DEF RowNodes
<1> QED BY <1>1, <1>2, <1>3

\* An edge that ties the node of a finding ends at it and at a resolved neighbour.
LEMMA TieEnds ==
  ASSUME NEW nodes, NEW n, NEW related, NEW severity, NEW edge \in Ties(nodes, n, related, severity),
         NEW m \in {edge.from, edge.to}, m # n
  PROVE  \E r \in related : m = Resolve(nodes, TypeOf(r.to), ValueOf(r.to))
BY DEF Ties, Link

LEMMA TurnWitnessed ==
  ASSUME NEW d, d.events \subseteq Events, NEW g, RowNodes(d) \subseteq g.nodes, NEW f,
         NEW n, n = Resolve(g.nodes, TypeOf(f.node), ValueOf(f.node)), NEW events,
         events = Naming(TypeOf(n), ValueOf(n), Naming(TypeOf(f.node), ValueOf(f.node), d.events))
  PROVE  Witnessed([finding |-> f, node |-> n,
                    edges |-> Ties(g.nodes \cup {n}, n, UNION {Neighbours(n, e) : e \in events}, f.severity)], d)
<1> DEFINE related == UNION {Neighbours(n, e) : e \in events}
           drawn == Ties(g.nodes \cup {n}, n, related, f.severity)
           type == TypeOf(f.node)
           v == ValueOf(f.node)
<1> HIDE DEF related
<1>1. SUFFICES ASSUME type \in Named, HasPath(v)
               PROVE  /\ HasPath(ValueOf(n)) => ValueOf(n) = v
                      /\ \A m \in (UNION {{x.from, x.to} : x \in drawn}) \ {n} :
                           TypeOf(m) \in Named /\ HasPath(ValueOf(m)) =>
                             \E e \in d.events : v \in IndexValues(e, type) /\ ValueOf(m) \in IndexValues(e, "process")
  BY DEF Witnessed, related
<1>2. HasPath(ValueOf(n)) => ValueOf(n) = v
  BY <1>1, ResolvedSame
<1>3. ASSUME NEW m \in (UNION {{x.from, x.to} : x \in drawn}) \ {n}, TypeOf(m) \in Named, HasPath(ValueOf(m))
      PROVE  \E e \in d.events : v \in IndexValues(e, type) /\ ValueOf(m) \in IndexValues(e, "process")
  <2>1. PICK x \in drawn : m \in {x.from, x.to} /\ m # n
    BY <1>3
  <2>2. PICK r \in related : m = Resolve(g.nodes \cup {n}, TypeOf(r.to), ValueOf(r.to))
    BY <2>1, TieEnds
  <2>3. PICK e \in events : r \in Neighbours(n, e)
    BY DEF related
  <2>4. /\ e \in Naming(type, v, d.events) /\ e \in d.events /\ e \in Events
    BY <2>3 DEF Naming
  <2>5. v \in IndexValues(e, type)
    BY <1>1, <2>4 DEF Naming, Pathish
  <2>6. TypeOf(r.to) \notin Atomic
    <3> SUFFICES ASSUME TypeOf(r.to) \in Atomic PROVE FALSE
      OBVIOUS
    <3>1. TypeOf(r.to) \notin Named
      BY DEF Atomic, Named
    <3>2. m = <<TypeOf(r.to), ValueOf(r.to)>>
      BY <2>2, <3>1, ResolvedAtom
    <3>3. TypeOf(m) = TypeOf(r.to)
      BY <3>2 DEF TypeOf
    <3> QED BY <1>3, <3>1, <3>3
  <2>7. PICK w \in IndexValues(e, "process") :
          IsFileName(w) /\ r.to = <<"process", NameOnly(w)>> /\ <<"process", w>> \in RowNodes(d)
    BY <2>3, <2>4, <2>6, NeighbourIn
  <2>8. m = Resolve(g.nodes \cup {n}, "process", NameOnly(w))
    BY <2>2, <2>7 DEF TypeOf, ValueOf
  <2>9. ValueOf(m) = w
    BY <1>3, <2>7, <2>8, ResolvedPath
  <2> QED BY <2>4, <2>5, <2>7, <2>9
<1> QED BY <1>2, <1>3

\* The marks of a map that a finding joins are its own and those of the finding.
LEMMA JoinedMarks ==
  ASSUME NEW g, NEW f, NEW n, NEW drawn, NEW edges, NEW m \in Joined(g, f, n, drawn, edges).marks
  PROVE  m \in g.marks \/ m.severity \in {f.severity, Info}
<1> DEFINE ends == (UNION {{e.from, e.to} : e \in edges}) \ {n}
<1>1. m \in g.marks \cup Mark({n}, "finding", f.severity) \cup Mark(ends, "event", Info)
  BY DEF Joined
<1> HIDE DEF ends
<1> QED BY <1>1 DEF Mark

LEMMA TurnHolds ==
  ASSUME NEW d, IsCase(d), NEW i, NEW g, MapHolds(d, i - 1, g)
  PROVE  MapHolds(d, i, ManualTurn(d, g, i))
<1> DEFINE f == Findings[i]
           n == Resolve(g.nodes, TypeOf(f.node), ValueOf(f.node))
           events == Naming(TypeOf(n), ValueOf(n), Naming(TypeOf(f.node), ValueOf(f.node), d.events))
           drawn == Ties(g.nodes \cup {n}, n, UNION {Neighbours(n, e) : e \in events}, f.severity)
<1>1. CASE f \in Effective(d) /\ f.node # None
  <2>1. ManualTurn(d, g, i) = JoinedBy(g, f, n, drawn)
    BY <1>1 DEF ManualTurn, AttachManual
  <2> HIDE DEF n, events, drawn
  <2>2. g.nodes \subseteq JoinedBy(g, f, n, drawn).nodes /\ g.marks \subseteq JoinedBy(g, f, n, drawn).marks
    BY DEF JoinedBy, Joined
  <2>5. \A m \in JoinedBy(g, f, n, drawn).marks : m \in g.marks \/ m.severity \in {f.severity, Info}
    BY JoinedMarks DEF JoinedBy
  <2>6. f.severity \in Grades /\ Info \in Grades
    BY <1>1, FindingsGraded DEF IsCase, Info, Grades
  <2>3. JoinedBy(g, f, n, drawn).manual = g.manual \cup {[finding |-> f, node |-> n, edges |-> drawn]}
    BY DEF JoinedBy, Joined
  <2>4. Witnessed([finding |-> f, node |-> n, edges |-> drawn], d)
    BY TurnWitnessed DEF MapHolds, n, events, drawn, IsCase
  <2> QED BY <1>1, <2>1, <2>2, <2>3, <2>4, <2>5, <2>6 DEF MapHolds
<1>2. CASE ~(f \in Effective(d) /\ f.node # None)
  BY <1>2 DEF MapHolds, ManualTurn
<1> QED BY <1>1, <1>2

LEMMA MapOfCase ==
  ASSUME NEW d, IsCase(d)
  PROVE  MapHolds(d, Len(Findings), Graph(d))
BY RowsHold, TurnHolds, GraphHolds

\* Only what stands is not dismissed, and what stands is as severe as its row.
LEMMA StandingSeverity ==
  ASSUME NEW e
  PROVE  IF Stands(e) THEN EventSeverity(e, data) = RowSeverity(e, data) ELSE EventSeverity(e, data) = Info
<1> DEFINE active == UNION {Tokens(g) : g \in Active(data)}
           words == UNION {Tokens(f) : f \in data.suppressed}
<1>1. Propagated(e, data) <=> Reason(e, data) \cap (words \ active) # {}
  BY DEF Propagated, Dismissed
<1>2. e.id \in Dismissed(data).events <=> e.id \in EventsOf(data.suppressed) /\ e.id \notin EventsOf(Active(data))
  BY DEF Dismissed
<1>3. (\A f \in data.suppressed : Reason(e, data) \cap Tokens(f) \subseteq active)
        <=> Reason(e, data) \cap (words \ active) = {}
  <2> HIDE DEF active
  <2> QED OBVIOUS
<1>4. Stands(e) <=> /\ e.id \in EventsOf(data.suppressed) => e.id \in EventsOf(Active(data))
                    /\ \A f \in data.suppressed : Reason(e, data) \cap Tokens(f) \subseteq active
  BY DEF Stands
<1> HIDE DEF active, words
<1>5. Stands(e) <=> ~(e.id \in Dismissed(data).events \/ Propagated(e, data))
  BY <1>1, <1>2, <1>3, <1>4
<1> QED BY <1>5 DEF EventSeverity

LEMMA MarkShows ==
  ASSUME NEW g, \A m \in g.marks : m.severity \in Grades, NEW m \in g.marks, m.source = "event"
  PROVE  Severity(g, m.node) >= m.severity
<1> DEFINE counted == IF \E a \in g.attached : a[1] = m.node THEN {"event", "finding"}
                      ELSE {"event", "process", "finding"}
           S == {Info} \cup {k.severity : k \in {l \in g.marks : l.node = m.node /\ l.source \in counted}}
<1>1. S \subseteq Grades /\ m.severity \in S
  BY DEF Info, Grades
<1>2. Severity(g, m.node) = Greatest(S)
  BY DEF Severity
<1> HIDE DEF S
<1>3. Greatest(S) \in S /\ m.severity <= Greatest(S)
  BY <1>1, GreatestIn
<1> QED BY <1>1, <1>2, <1>3 DEF Grades

LEMMA RaisedAlwaysShows ==
  ASSUME IsCase(data)
  PROVE  RaisedShows(Graph(data))
<1> DEFINE g == Graph(data)
<1>1. RowMarks(data) \subseteq g.marks /\ \A m \in g.marks : m.severity \in Grades
  BY MapOfCase DEF MapHolds
<1> HIDE DEF g
<1>2. SUFFICES ASSUME NEW e \in data.events, Stands(e),
                      NEW n \in NodesOfEvent(e, RowSeverity(e, data))
               PROVE  Severity(g, n) >= RowSeverity(e, data)
  BY DEF RaisedShows, g
<1>3. [node |-> n, source |-> "event", severity |-> RowSeverity(e, data)] \in RowMarks(data)
  BY <1>2, StandingSeverity DEF RowMarks, Mark
<1> HIDE DEF RowMarks
<1> DEFINE m == [node |-> n, source |-> "event", severity |-> RowSeverity(e, data)]
<1>4. m \in g.marks /\ m.source = "event" /\ m.node = n /\ m.severity = RowSeverity(e, data)
  BY <1>1, <1>3
<1> HIDE DEF m
<1> QED BY <1>1, <1>4, MarkShows

\* At info an event is drawn on no node that it is not drawn on otherwise.
LEMMA LessAtInfo ==
  ASSUME NEW e, NEW d
  PROVE  NodesOfEvent(e, EventSeverity(e, d)) \subseteq NodesOfEvent(e, RowSeverity(e, d))
<1>1. Service(e, Info) \subseteq Service(e, RowSeverity(e, d))
  BY DEF Service
<1>2. Binary(e, Info) \subseteq Binary(e, RowSeverity(e, d))
  BY <1>1 DEF Binary
<1>3. NodesOfEvent(e, Info) \subseteq NodesOfEvent(e, RowSeverity(e, d))
  BY <1>1, <1>2 DEF NodesOfEvent, EventNodes
<1> QED BY <1>3 DEF EventSeverity

LEMMA OnlyInfo ==
  ASSUME NEW g, NEW n, \A m \in g.marks : m.node = n => m.severity = Info
  PROVE  Severity(g, n) = Info
<1>1. Severity(g, n) = Greatest({Info})
  BY DEF Severity
<1>2. {Info} \subseteq Grades /\ {Info} # {}
  BY DEF Info, Grades
<1> QED BY <1>1, <1>2, GreatestIn

LEMMA NothingElseEverShows ==
  ASSUME IsCase(data)
  PROVE  NothingElseShows(Graph(data))
<1> DEFINE g == Graph(data)
<1> SUFFICES ASSUME NEW n \in g.nodes,
                    \A e \in data.events : Stands(e) => n \notin NodesOfEvent(e, RowSeverity(e, data)),
                    \A f \in Effective(data) : ~Says(f, n),
                    \A p \in data.processes : n \notin NodesOfProcess(p)
             PROVE  Severity(g, n) = Info
  BY DEF NothingElseShows
<1>1. \A f \in Effective(data) : f.node = None /\ n \notin Chained(f) /\ ~Matches(f, n)
  BY DEF Says
<1>2. g = Extracted(RowMarks(data), data)
  BY <1>1, MapOfCase DEF MapHolds
<1>3. \A e \in data.events : ~Stands(e) => EventSeverity(e, data) = Info
  BY StandingSeverity
<1>4. \A m \in g.marks : m \in RowMarks(data) \/ \E f \in Effective(data) : Matches(f, m.node)
  BY <1>2 DEF Extracted, Attached, Automatic
<1> HIDE DEF g
<1>5. ASSUME NEW m \in g.marks, m.node = n
      PROVE  m.severity = Info
  <2>1. m \in RowMarks(data)
    BY <1>1, <1>4, <1>5
  <2>2. PICK e \in data.events : n \in NodesOfEvent(e, EventSeverity(e, data)) /\ m.severity = EventSeverity(e, data)
    BY <1>1, <1>5, <2>1, RowMarkIs
  <2>3. ~Stands(e)
    BY <2>2, LessAtInfo
  <2> QED BY <1>3, <2>2, <2>3
<1> QED BY <1>5, OnlyInfo

LEMMA CaseIs == GraphInv => IsCase(data)
BY DEF GraphInv, GraphType, Case, IsCase

\* For any rows and findings, of any number and in any order of their ids: two
\* files or processes known by their full paths are joined on behalf of a manual
\* finding only if one event names both (_attach_manual_nodes).
THEOREM ManualEdgesAlwaysWitnessed == Spec => []ManualEdgesWitnessed
<1>1. IsCase(data) => ManualEdgesWitnessed
  BY MapOfCase DEF MapHolds, Witnessed, ManualEdgesWitnessed
<1> QED BY <1>1, CaseIs, GraphInvariant, PTL

\* Whatever is dismissed and whatever stands: an event that no dismissal is about, or
\* that a finding in force is about as well, shows on all its nodes, and a node with
\* nothing but dismissed events is at info, those raised for a flagged entity
\* included (_suppressed_graph_signals, _is_suppressed_propagation,
\* _finalize_node_severities).
THEOREM DismissalAlwaysExact == Spec => []DismissalIsExact
<1>1. IsCase(data) => DismissalIsExact
  BY RaisedAlwaysShows, NothingElseEverShows DEF DismissalIsExact
<1> QED BY <1>1, CaseIs, GraphInvariant, PTL

-----------------------------------------------------------------------------
(* Where a program came from. *)

Kinds == {"download", "create", "old", "new", "renamed", "delete", "run"}

LogRows ==
  [kind : Kinds, file : File, path : Path \cup {NameOnly(p) : p \in Path}, old : Path \cup {None},
   time : Nat \cup {None}, origin : BOOLEAN, severity : Grades, ref : File \cup {None}]

\* Only a run is told without a whole path or a time.
LogRowHolds(r) ==
  /\ r \in LogRows /\ r.ref \in {None, r.file}
  /\ r.kind # "run" => r.path \in Path /\ r.time \in Nat
  /\ r.kind = "renamed" => r.old \in Path

\* A journal without references, of which no row is missing, keeps the rows of a
\* rename together.
Tripled(log) ==
  \A k \in DOMAIN log : log[k].kind = "old" =>
    k + 1 \in DOMAIN log /\ log[k + 1].kind = "new" /\ log[k + 1].file = log[k].file

LogHolds(log) ==
  /\ log \in Seq(LogRows)
  /\ \A k \in DOMAIN log : LogRowHolds(log[k])
  /\ (\A k \in DOMAIN log : log[k].ref # None) \/ (\A k \in DOMAIN log : log[k].ref = None)

\* The rows tell which old name is whose.
Together(log) == (\A k \in DOMAIN log : log[k].ref # None) \/ Tripled(log)

\* A path that a row of the file has.
Own(log, f, p) == \E k \in DOMAIN log : log[k].file = f /\ p \in PathsOf(log[k])

Pairs == [old : Path, new : Path, ref : File \cup {None}, time : Nat, row : LogRows]

PairHolds(log, rn) ==
  /\ rn \in Pairs /\ rn.ref \in {None, rn.row.file}
  /\ Own(log, rn.row.file, rn.new) /\ (Together(log) => Own(log, rn.row.file, rn.old))

-----------------------------------------------------------------------------
(* The pairs are folded out of the log, row by row. *)

PairTurn(log, s, i) == PairRow(s, log[i])

NoPairs == [byRef |-> [f \in File |-> None], stack |-> <<>>, pairs |-> <<>>]

StackAfter(log, m) == IF m > 0 /\ log[m].kind = "old" /\ log[m].ref = None THEN <<log[m].path>> ELSE <<>>

\* Where the rows are together, on the stack is at most the name the row before
\* gave up.
PairsHold(log, m, s) ==
  /\ s \in [byRef : [File -> Path \cup {None}], stack : Seq(Path), pairs : Seq(Pairs)]
  /\ Together(log) => s.stack = StackAfter(log, m)
  /\ \A f \in File : s.byRef[f] # None => Own(log, f, s.byRef[f])
  /\ \A i \in DOMAIN s.pairs : PairHolds(log, s.pairs[i])

PairFold == INSTANCE FoldLaws WITH Pick <- GreatestIndex, Step <- PairTurn, Holds <- PairsHold

LEMMA PairPicks == PairFold!PicksLast
BY DEF PairFold!PicksLast, GreatestIndex, Max

LEMMA PairsFold ==
  ASSUME NEW log, DOMAIN log = 1 .. Len(log)
  PROVE  Renames(log) = PairFold!Fold(log, NoPairs, 1 .. Len(log)).pairs
BY DEF Renames, FoldLeft, MapThenFoldSet, PairFold!Fold, PairFold!IsFold, PairTurn, GreatestIndex, NoPairs

LEMMA PairsBase ==
  ASSUME NEW log
  PROVE  PairsHold(log, 0, NoPairs)
BY DEF PairsHold, NoPairs, StackAfter

LEMMA RowPaths ==
  ASSUME NEW log, LogHolds(log), NEW k \in DOMAIN log
  PROVE  /\ LogRowHolds(log[k]) /\ log[k] \in LogRows /\ log[k].path # None
         /\ log[k].path \in PathsOf(log[k]) /\ Own(log, log[k].file, log[k].path)
         /\ log[k].kind = "renamed" => Own(log, log[k].file, log[k].old)
<1>1. LogRowHolds(log[k]) /\ log[k] \in LogRows
  BY DEF LogHolds, LogRowHolds
<1>2. \A p \in Path : p # None /\ NameOnly(p) # None
  BY ProvenanceConstants
<1>3. log[k].path \in Path \cup {NameOnly(p) : p \in Path}
  BY <1>1 DEF LogRows
<1>4. log[k].path # None
  BY <1>2, <1>3
<1>5. log[k].kind = "renamed" => log[k].old \in Path
  BY <1>1 DEF LogRowHolds
<1> QED BY <1>1, <1>2, <1>4, <1>5 DEF PathsOf, Own

\* A pair made of a row and of an old name of its file.
LEMMA PairMade ==
  ASSUME NEW log, LogHolds(log), NEW k \in DOMAIN log, log[k].kind # "run",
         NEW old \in Path, Together(log) => Own(log, log[k].file, old)
  PROVE  PairHolds(log, Rename(log[k], old))
<1>1. LogRowHolds(log[k]) /\ log[k] \in LogRows /\ Own(log, log[k].file, log[k].path)
  BY RowPaths
<1>2. log[k].path \in Path /\ log[k].time \in Nat /\ log[k].ref \in File \cup {None}
      /\ log[k].ref \in {None, log[k].file}
  BY <1>1 DEF LogRowHolds, LogRows
<1>3. Rename(log[k], old) =
        [old |-> old, new |-> log[k].path, ref |-> log[k].ref, time |-> log[k].time, row |-> log[k]]
  BY DEF Rename
<1>4. Rename(log[k], old) \in Pairs
  BY <1>1, <1>2, <1>3 DEF Pairs
<1> QED BY <1>1, <1>2, <1>3, <1>4 DEF PairHolds

LEMMA PairAdded ==
  ASSUME NEW log, NEW pairs \in Seq(Pairs), \A i \in DOMAIN pairs : PairHolds(log, pairs[i]),
         NEW rn, PairHolds(log, rn)
  PROVE  Append(pairs, rn) \in Seq(Pairs) /\ \A i \in DOMAIN Append(pairs, rn) : PairHolds(log, Append(pairs, rn)[i])
<1>1. rn \in Pairs
  BY DEF PairHolds
<1> QED BY <1>1, AppendProperties, LenProperties

LEMMA FrontIn ==
  ASSUME NEW stack \in Seq(Path), stack # <<>>
  PROVE  Last(stack) \in Path /\ Front(stack) \in Seq(Path)
<1>1. Len(stack) \in Nat /\ Len(stack) > 0 /\ DOMAIN stack = 1 .. Len(stack)
  BY LenProperties, EmptySeq
<1>2. stack[Len(stack)] \in Path
  BY <1>1, LenProperties
<1>3. SubSeq(stack, 1, Len(stack) - 1) \in Seq(Path)
  <2>1. \A i \in 1 .. Len(stack) - 1 : stack[i] \in Path
    BY <1>1
  <2> QED BY <1>1, <2>1, SubSeqProperties
<1> QED BY <1>2, <1>3 DEF Last, Front

LEMMA PairsStep ==
  ASSUME NEW log, LogHolds(log), NEW m \in 0 .. Len(log) - 1, NEW s, PairsHold(log, m, s)
  PROVE  PairsHold(log, m + 1, PairTurn(log, s, m + 1))
<1> DEFINE k == m + 1
           r == log[k]
           t == PairTurn(log, s, k)
<1>1. k \in DOMAIN log /\ k \in Nat /\ k > 0 /\ k - 1 = m /\ Len(log) \in Nat
  BY LenProperties DEF LogHolds
<1>2. /\ LogRowHolds(r) /\ r \in LogRows /\ r.file \in File /\ r.ref \in {None, r.file}
      /\ Own(log, r.file, r.path) /\ r.path # None
      /\ r.kind # "run" => r.path \in Path
      /\ r.kind = "renamed" => r.old \in Path /\ Own(log, r.file, r.old)
  BY <1>1, RowPaths DEF LogRowHolds, LogRows
<1>3. /\ s = [byRef |-> s.byRef, stack |-> s.stack, pairs |-> s.pairs]
      /\ s.byRef \in [File -> Path \cup {None}] /\ s.stack \in Seq(Path) /\ s.pairs \in Seq(Pairs)
      /\ Together(log) => s.stack = StackAfter(log, m)
      /\ \A f \in File : s.byRef[f] # None => Own(log, f, s.byRef[f])
      /\ \A i \in DOMAIN s.pairs : PairHolds(log, s.pairs[i])
  BY DEF PairsHold
<1>4. t = PairRow(s, r)
  BY DEF PairTurn
<1>5. r.ref # None => r.ref = r.file
  BY <1>2
\* The row after a name given up without a reference takes it for the same file.
<1>6. Together(log) /\ s.stack # <<>> => /\ m \in DOMAIN log /\ s.stack = <<log[m].path>> /\ log[m].kind = "old"
                                        /\ r.kind = "new" /\ r.ref = None /\ log[m].file = r.file
  <2> SUFFICES ASSUME Together(log), s.stack # <<>>
               PROVE  /\ m \in DOMAIN log /\ s.stack = <<log[m].path>> /\ log[m].kind = "old"
                      /\ r.kind = "new" /\ r.ref = None /\ log[m].file = r.file
    OBVIOUS
  <2>1. m > 0 /\ log[m].kind = "old" /\ log[m].ref = None /\ s.stack = <<log[m].path>>
    BY <1>3 DEF StackAfter
  <2>2. m \in DOMAIN log
    BY <1>1, <2>1, LenProperties DEF LogHolds
  <2>3. (\A j \in DOMAIN log : log[j].ref = None) /\ Tripled(log)
    BY <2>1, <2>2 DEF LogHolds, Together
  <2> QED BY <1>1, <2>1, <2>2, <2>3 DEF Tripled
<1>7. StackAfter(log, k) = IF r.kind = "old" /\ r.ref = None THEN <<r.path>> ELSE <<>>
  BY <1>1 DEF StackAfter
<1> HIDE DEF t
<1> DEFINE after == IF r.kind = "old" /\ r.ref = None THEN <<r.path>> ELSE <<>>
           made(new) == /\ new \in [byRef : [File -> Path \cup {None}], stack : Seq(Path), pairs : Seq(Pairs)]
                        /\ Together(log) => new.stack = after
                        /\ \A f \in File : new.byRef[f] # None => Own(log, f, new.byRef[f])
                        /\ \A i \in DOMAIN new.pairs : PairHolds(log, new.pairs[i])
<1>8. SUFFICES made(t)
  BY <1>7 DEF PairsHold, t
<1> HIDE DEF k, r
<1>9. CASE r.kind = "renamed"
  <2>1. Together(log) => s.stack = <<>>
    BY <1>6, <1>9
  <2>2. PairHolds(log, Rename(r, r.old))
    BY <1>1, <1>2, <1>9, PairMade DEF r
  <2>3. t = [s EXCEPT !.pairs = Append(@, Rename(r, r.old))]
    BY <1>4, <1>9 DEF PairRow
  <2>4. t = [byRef |-> s.byRef, stack |-> s.stack, pairs |-> Append(s.pairs, Rename(r, r.old))]
    BY <1>3, <2>3
  <2> QED BY <1>3, <1>9, <2>1, <2>2, <2>4, PairAdded
<1>10. CASE r.kind = "old" /\ r.ref # None
  <2>1. Together(log) => s.stack = <<>>
    BY <1>6, <1>10
  <2>2. t = [s EXCEPT !.byRef[r.ref] = r.path]
    BY <1>4, <1>10 DEF PairRow
  <2>3. t = [byRef |-> [s.byRef EXCEPT ![r.file] = r.path], stack |-> s.stack, pairs |-> s.pairs]
    BY <1>3, <1>5, <1>10, <2>2
  <2>4. \A f \in File : t.byRef[f] = IF f = r.file THEN r.path ELSE s.byRef[f]
    BY <1>3, <2>3
  <2>5. t.byRef \in [File -> Path \cup {None}]
    BY <1>2, <1>3, <1>10, <2>3
  <2> QED BY <1>2, <1>3, <1>10, <2>1, <2>3, <2>4, <2>5
<1>11. CASE r.kind = "old" /\ r.ref = None
  <2>1. Together(log) => s.stack = <<>>
    BY <1>6, <1>11
  <2>2. t = [s EXCEPT !.stack = Append(@, r.path)]
    BY <1>4, <1>11 DEF PairRow
  <2>3. t = [byRef |-> s.byRef, stack |-> Append(s.stack, r.path), pairs |-> s.pairs]
    BY <1>3, <2>2
  <2>4. Append(s.stack, r.path) \in Seq(Path)
    BY <1>2, <1>3, <1>11, AppendProperties
  <2>5. Together(log) => Append(s.stack, r.path) = <<r.path>>
    <3>1. Append(<<>>, r.path) = <<r.path>>
      OBVIOUS
    <3> QED BY <2>1, <3>1
  <2> QED BY <1>3, <1>11, <2>3, <2>4, <2>5
<1>12. CASE r.kind = "new" /\ r.ref # None /\ s.byRef[r.ref] # None
  <2>1. Together(log) => s.stack = <<>>
    BY <1>6, <1>12
  <2>2. t = [s EXCEPT !.pairs = Append(@, Rename(r, s.byRef[r.ref]))]
    BY <1>4, <1>12 DEF PairRow
  <2>3. t = [byRef |-> s.byRef, stack |-> s.stack, pairs |-> Append(s.pairs, Rename(r, s.byRef[r.file]))]
    BY <1>3, <1>5, <1>12, <2>2
  <2>4. s.byRef[r.file] \in Path /\ Own(log, r.file, s.byRef[r.file])
    BY <1>2, <1>3, <1>5, <1>12
  <2>5. PairHolds(log, Rename(r, s.byRef[r.file]))
    BY <1>1, <1>12, <2>4, PairMade DEF r
  <2> QED BY <1>3, <1>12, <2>1, <2>3, <2>5, PairAdded
<1>13. CASE r.kind = "new" /\ r.ref = None /\ s.stack # <<>>
  <2> DEFINE last == Last(s.stack)
             front == Front(s.stack)
  <2>1. last \in Path /\ front \in Seq(Path)
    BY <1>3, <1>13, FrontIn
  <2>2. ASSUME Together(log)
        PROVE  front = <<>> /\ Own(log, r.file, last)
    <3>1. m \in DOMAIN log /\ s.stack = <<log[m].path>> /\ log[m].file = r.file /\ log[m].kind = "old"
      BY <1>6, <1>13, <2>2
    <3>2. last = log[m].path /\ front = <<>>
      BY <3>1 DEF Last, Front
    <3> QED BY <3>1, <3>2, RowPaths
  <2> HIDE DEF last, front
  <2>3. t = [s EXCEPT !.pairs = Append(@, Rename(r, last)), !.stack = front]
    BY <1>4, <1>13 DEF PairRow, last, front
  <2>4. t = [byRef |-> s.byRef, stack |-> front, pairs |-> Append(s.pairs, Rename(r, last))]
    BY <1>3, <2>3
  <2>5. PairHolds(log, Rename(r, last))
    BY <1>1, <1>13, <2>1, <2>2, PairMade DEF r
  <2> QED BY <1>3, <1>13, <2>1, <2>2, <2>4, <2>5, PairAdded
<1>14. CASE /\ r.kind # "renamed" /\ r.kind # "old"
            /\ ~(r.kind = "new" /\ r.ref # None /\ s.byRef[r.ref] # None)
            /\ ~(r.kind = "new" /\ r.ref = None /\ s.stack # <<>>)
  <2>1. t = s
    BY <1>4, <1>14 DEF PairRow
  <2>2. Together(log) => s.stack = <<>>
    BY <1>6, <1>14
  <2> QED BY <1>3, <1>14, <2>1, <2>2
<1> QED BY <1>9, <1>10, <1>11, <1>12, <1>13, <1>14

LEMMA RenamesHold ==
  ASSUME NEW log, LogHolds(log)
  PROVE  /\ Renames(log) \in Seq(Pairs) /\ \A i \in DOMAIN Renames(log) : PairHolds(log, Renames(log)[i])
         /\ Renames(log) = PairFold!Fold(log, NoPairs, 1 .. Len(log)).pairs
         /\ PairsHold(log, Len(log), PairFold!Fold(log, NoPairs, 1 .. Len(log)))
<1> DEFINE n == Len(log)
<1>1. n \in Nat /\ DOMAIN log = 1 .. n
  BY LenProperties DEF LogHolds
<1>2. \A m \in 0 .. n - 1 : \A x : PairsHold(log, m, x) => PairsHold(log, m + 1, PairTurn(log, x, m + 1))
  BY PairsStep
<1> HIDE DEF n
<1>3. \A m \in 0 .. n : PairsHold(log, m, PairFold!Fold(log, NoPairs, 1 .. m))
  BY <1>1, <1>2, PairsBase, PairPicks, PairFold!FoldKeeps
<1>4. n \in 0 .. n
  BY <1>1
<1>5. Renames(log) = PairFold!Fold(log, NoPairs, 1 .. n).pairs
  BY <1>1, PairsFold DEF n
<1>6. PairsHold(log, n, PairFold!Fold(log, NoPairs, 1 .. n))
  BY <1>3, <1>4
<1> QED BY <1>5, <1>6 DEF PairsHold, n

-----------------------------------------------------------------------------
(* What an artifact is, whatever it was offered. *)

Segments == [path : Path, start : Nat, end : Nat \cup {None}]

\* No two files ever had one name, in a log that tells whose old names are.
Apart(log) ==
  /\ Together(log)
  /\ \A i, j \in DOMAIN log : log[i].file # log[j].file =>
       \A p \in PathsOf(log[i]), q \in PathsOf(log[j]) : p.base # q.base

OfOneFile(log, c) ==
  /\ c.ref \in {None, c.row.file}
  /\ \A k \in DOMAIN c.segments : Own(log, c.row.file, c.segments[k].path)
  /\ \A k \in DOMAIN c.renames : c.renames[k].row.file = c.row.file
  /\ \A k \in DOMAIN c.deletes : c.deletes[k].file = c.row.file

Artifact == [row : LogRows, ref : File \cup {None}, renames : Seq(Pairs), deletes : Seq(LogRows),
             segments : Seq(Segments)]

ArtifactHolds(log, c) ==
  /\ c \in Artifact /\ c.row.time \in Nat
  /\ Len(c.segments) = Len(c.renames) + 1
  /\ Apart(log) => OfOneFile(log, c)

LEMMA SameBase ==
  ASSUME NEW log, Apart(log), NEW f, NEW g, NEW p, NEW q, Own(log, f, p), Own(log, g, q), p.base = q.base
  PROVE  f = g
BY DEF Own, Apart

LEMMA ArtifactParts ==
  ASSUME NEW log, NEW c, ArtifactHolds(log, c)
  PROVE  /\ c = [row |-> c.row, ref |-> c.ref, renames |-> c.renames, deletes |-> c.deletes, segments |-> c.segments]
         /\ c.row \in LogRows /\ c.ref \in File \cup {None} /\ c.renames \in Seq(Pairs)
         /\ c.deletes \in Seq(LogRows) /\ c.segments \in Seq(Segments) /\ c.row.time \in Nat
         /\ Len(c.renames) \in Nat /\ Len(c.segments) = Len(c.renames) + 1 /\ Len(c.deletes) \in Nat
         /\ DOMAIN c.segments = 1 .. Len(c.segments) /\ DOMAIN c.renames = 1 .. Len(c.renames)
         /\ DOMAIN c.deletes = 1 .. Len(c.deletes)
         /\ Len(c.segments) \in DOMAIN c.segments
         /\ Current(c) = c.segments[Len(c.segments)].path
         /\ \A k \in DOMAIN c.segments : c.segments[k] \in Segments
<1>1. /\ c = [row |-> c.row, ref |-> c.ref, renames |-> c.renames, deletes |-> c.deletes, segments |-> c.segments]
      /\ c.row \in LogRows /\ c.ref \in File \cup {None} /\ c.renames \in Seq(Pairs)
      /\ c.deletes \in Seq(LogRows) /\ c.segments \in Seq(Segments) /\ c.row.time \in Nat
      /\ Len(c.segments) = Len(c.renames) + 1
  BY DEF ArtifactHolds, Artifact
<1>2. /\ Len(c.renames) \in Nat /\ Len(c.deletes) \in Nat
      /\ DOMAIN c.segments = 1 .. Len(c.segments) /\ DOMAIN c.renames = 1 .. Len(c.renames)
      /\ DOMAIN c.deletes = 1 .. Len(c.deletes) /\ \A k \in DOMAIN c.segments : c.segments[k] \in Segments
  BY <1>1, LenProperties
<1>3. Len(c.segments) \in DOMAIN c.segments
  BY <1>1, <1>2
<1> QED BY <1>1, <1>2, <1>3 DEF Current, Last

\* A row that brings a file is an artifact of that file.
LEMMA ArtifactBrought ==
  ASSUME NEW log, LogHolds(log), NEW k \in DOMAIN log, Brings(log[k])
  PROVE  /\ ArtifactHolds(log, Candidate(log[k])) /\ Candidate(log[k]).ref = None
         /\ DOMAIN Candidate(log[k]).segments = {1} /\ Current(Candidate(log[k])) = log[k].path
         /\ Candidate(log[k]).segments[1].path = log[k].path /\ log[k].path \in Path
<1> DEFINE c == Candidate(log[k])
           one == [path |-> log[k].path, start |-> log[k].time, end |-> None]
<1>1. log[k] \in LogRows /\ log[k].path \in Path /\ log[k].time \in Nat /\ Own(log, log[k].file, log[k].path)
  BY RowPaths DEF Brings, LogRowHolds
<1>2. one \in Segments
  BY <1>1 DEF Segments
<1>3. c = [row |-> log[k], ref |-> None, renames |-> <<>>, deletes |-> <<>>, segments |-> <<one>>]
  BY DEF Candidate, Segment
<1>4. /\ <<one>> \in Seq(Segments) /\ Len(<<one>>) = 1 /\ DOMAIN <<one>> = {1} /\ <<one>>[1] = one
      /\ <<>> \in Seq(Pairs) /\ <<>> \in Seq(LogRows) /\ Len(<<>>) = 0 /\ DOMAIN <<>> = {}
  BY <1>2
<1>5. one.path = log[k].path
  OBVIOUS
<1> HIDE DEF one, c
<1>6. c \in Artifact
  BY <1>1, <1>3, <1>4 DEF Artifact
<1>7. OfOneFile(log, c)
  BY <1>1, <1>3, <1>4, <1>5 DEF OfOneFile
<1>8. Current(c) = log[k].path
  BY <1>3, <1>4, <1>5 DEF Current, Last
<1>9. ArtifactHolds(log, c)
  BY <1>1, <1>3, <1>4, <1>6, <1>7 DEF ArtifactHolds
<1> QED BY <1>1, <1>3, <1>4, <1>5, <1>8, <1>9 DEF c

LEMMA RenamedIs ==
  ASSUME NEW c, NEW rn,
         c = [row |-> c.row, ref |-> c.ref, renames |-> c.renames, deletes |-> c.deletes, segments |-> c.segments]
  PROVE  Renamed(c, rn) =
           [row |-> c.row, ref |-> IF c.ref = None THEN rn.ref ELSE c.ref, renames |-> Append(c.renames, rn),
            deletes |-> c.deletes,
            segments |-> Append([c.segments EXCEPT ![Len(c.segments)].end = rn.time],
                                [path |-> rn.new, start |-> rn.time, end |-> None])]
<1> DEFINE ref == IF c.ref = None THEN rn.ref ELSE c.ref
           renames == Append(c.renames, rn)
           segments == Append([c.segments EXCEPT ![Len(c.segments)].end = rn.time],
                              [path |-> rn.new, start |-> rn.time, end |-> None])
           c1 == [c EXCEPT !.ref = ref]
           c2 == [c1 EXCEPT !.renames = renames]
<1>1. Renamed(c, rn) = [c2 EXCEPT !.segments = segments]
  BY DEF Renamed, Segment
<1> HIDE DEF ref, renames, segments
<1>2. c1 = [row |-> c.row, ref |-> ref, renames |-> c.renames, deletes |-> c.deletes, segments |-> c.segments]
  OBVIOUS
<1> HIDE DEF c1
<1>3. c2 = [row |-> c.row, ref |-> ref, renames |-> renames, deletes |-> c.deletes, segments |-> c.segments]
  BY <1>2
<1> HIDE DEF c2
<1>4. Renamed(c, rn) = [row |-> c.row, ref |-> ref, renames |-> renames, deletes |-> c.deletes, segments |-> segments]
  BY <1>1, <1>3
<1> QED BY <1>4 DEF ref, renames, segments

LEMMA DeletedIs ==
  ASSUME NEW c, NEW r,
         c = [row |-> c.row, ref |-> c.ref, renames |-> c.renames, deletes |-> c.deletes, segments |-> c.segments]
  PROVE  Deleted(c, r) = [row |-> c.row, ref |-> IF c.ref = None THEN r.ref ELSE c.ref, renames |-> c.renames,
                          deletes |-> Append(c.deletes, r), segments |-> c.segments]
<1> DEFINE ref == IF c.ref = None THEN r.ref ELSE c.ref
           deletes == Append(c.deletes, r)
           c1 == [c EXCEPT !.ref = ref]
<1>1. Deleted(c, r) = [c1 EXCEPT !.deletes = deletes]
  BY DEF Deleted
<1> HIDE DEF ref, deletes
<1>2. c1 = [row |-> c.row, ref |-> ref, renames |-> c.renames, deletes |-> c.deletes, segments |-> c.segments]
  OBVIOUS
<1> HIDE DEF c1
<1>3. Deleted(c, r) = [row |-> c.row, ref |-> ref, renames |-> c.renames, deletes |-> deletes, segments |-> c.segments]
  BY <1>1, <1>2
<1> QED BY <1>3 DEF ref, deletes

\* A rename adds a segment and changes the path of none.
\* The stays of an artifact after a rename: the last one ends, and a new one starts.
NextStay(d, c, rn) ==
  /\ d.segments[Len(c.segments) + 1] = [path |-> rn.new, start |-> rn.time, end |-> None]
  /\ \A k \in DOMAIN c.segments :
       /\ d.segments[k].start = c.segments[k].start
       /\ d.segments[k].end = IF k = Len(c.segments) THEN rn.time ELSE c.segments[k].end

LEMMA RenamedParts ==
  ASSUME NEW log, NEW c, ArtifactHolds(log, c), NEW rn, PairHolds(log, rn)
  PROVE  LET d == Renamed(c, rn) IN
         /\ d \in Artifact /\ d.row = c.row /\ d.deletes = c.deletes
         /\ d.ref = IF c.ref = None THEN rn.ref ELSE c.ref
         /\ d.renames = Append(c.renames, rn)
         /\ Len(d.segments) = Len(c.segments) + 1
         /\ d.segments[Len(c.segments) + 1].path = rn.new
         /\ \A k \in DOMAIN c.segments : d.segments[k].path = c.segments[k].path
         /\ NextStay(d, c, rn)
<1> DEFINE n == Len(c.segments)
           cut == [c.segments EXCEPT ![n].end = rn.time]
           next == [path |-> rn.new, start |-> rn.time, end |-> None]
           d == Renamed(c, rn)
<1>1. /\ c = [row |-> c.row, ref |-> c.ref, renames |-> c.renames, deletes |-> c.deletes, segments |-> c.segments]
      /\ c.row \in LogRows /\ c.ref \in File \cup {None} /\ c.renames \in Seq(Pairs)
      /\ c.deletes \in Seq(LogRows) /\ c.segments \in Seq(Segments) /\ n \in Nat
      /\ DOMAIN c.segments = 1 .. n /\ \A k \in DOMAIN c.segments : c.segments[k] \in Segments
  BY ArtifactParts
<1>2. rn \in Pairs /\ rn.time \in Nat /\ rn.new \in Path /\ rn.ref \in File \cup {None}
  BY DEF PairHolds, Pairs
<1>3. next \in Segments
  BY <1>2 DEF Segments
<1>4. \A k \in 1 .. n : /\ cut[k] \in Segments /\ cut[k].path = c.segments[k].path
                        /\ cut[k].start = c.segments[k].start
                        /\ cut[k].end = IF k = n THEN rn.time ELSE c.segments[k].end
  BY <1>1, <1>2 DEF Segments
<1>5. cut \in Seq(Segments) /\ Len(cut) = n
  <2>1. DOMAIN cut = 1 .. n /\ cut = [k \in 1 .. n |-> cut[k]]
    BY <1>1
  <2>2. cut \in [1 .. n -> Segments]
    BY <1>4, <2>1
  <2> HIDE DEF cut
  <2> QED BY <1>1, <2>1, <2>2, SeqDef, LenProperties
<1>6. d = [row |-> c.row, ref |-> IF c.ref = None THEN rn.ref ELSE c.ref, renames |-> Append(c.renames, rn),
           deletes |-> c.deletes, segments |-> Append(cut, next)]
  BY <1>1, RenamedIs
<1>7. next.path = rn.new
  OBVIOUS
<1> HIDE DEF n, cut, next, d
<1>8. /\ Append(cut, next) \in Seq(Segments) /\ Len(Append(cut, next)) = n + 1
      /\ Append(cut, next)[n + 1] = next /\ \A k \in 1 .. n : Append(cut, next)[k] = cut[k]
  BY <1>3, <1>5, AppendProperties
<1>9. Append(c.renames, rn) \in Seq(Pairs)
  BY <1>1, <1>2, AppendProperties
<1>10. d \in Artifact
  BY <1>1, <1>2, <1>6, <1>8, <1>9 DEF Artifact
<1>11. NextStay(d, c, rn)
  BY <1>1, <1>4, <1>6, <1>8 DEF NextStay, n, next
<1> QED BY <1>1, <1>4, <1>6, <1>7, <1>8, <1>10, <1>11 DEF d, n

\* A rename that matches is one of the same file.
LEMMA RenameOfOneFile ==
  ASSUME NEW log, Apart(log), NEW c, ArtifactHolds(log, c), NEW rn, PairHolds(log, rn), MatchesRename(c, rn)
  PROVE  rn.row.file = c.row.file
<1>1. OfOneFile(log, c) /\ Len(c.segments) \in DOMAIN c.segments /\ Current(c) = c.segments[Len(c.segments)].path
  BY ArtifactParts DEF ArtifactHolds
<1>2. Own(log, c.row.file, Current(c)) /\ c.ref \in {None, c.row.file}
  BY <1>1 DEF OfOneFile
<1>3. Own(log, rn.row.file, rn.old) /\ rn.ref \in {None, rn.row.file}
  BY DEF PairHolds, Apart
<1>4. CASE SameReference(c, rn.ref)
  BY <1>2, <1>3, <1>4 DEF SameReference
<1>5. CASE Current(c) = rn.old \/ SameName(c, rn.old.base)
  <2>1. Current(c).base = rn.old.base
    BY <1>5 DEF SameName
  <2> QED BY <1>2, <1>3, <2>1, SameBase
<1> QED BY <1>4, <1>5 DEF MatchesRename

LEMMA RenamedHolds ==
  ASSUME NEW log, NEW c, ArtifactHolds(log, c), NEW rn, PairHolds(log, rn), MatchesRename(c, rn)
  PROVE  ArtifactHolds(log, Renamed(c, rn))
<1> DEFINE d == Renamed(c, rn)
           n == Len(c.segments)
<1>1. /\ d \in Artifact /\ d.row = c.row /\ d.deletes = c.deletes
      /\ d.ref = IF c.ref = None THEN rn.ref ELSE c.ref
      /\ d.renames = Append(c.renames, rn)
      /\ Len(d.segments) = n + 1
      /\ d.segments[n + 1].path = rn.new
      /\ \A k \in DOMAIN c.segments : d.segments[k].path = c.segments[k].path
  BY RenamedParts
<1>2. /\ c.row.time \in Nat /\ c.renames \in Seq(Pairs) /\ Len(c.renames) \in Nat /\ n = Len(c.renames) + 1
      /\ DOMAIN c.segments = 1 .. n /\ DOMAIN c.renames = 1 .. Len(c.renames)
  BY ArtifactParts
<1>3. rn \in Pairs /\ rn.ref \in {None, rn.row.file} /\ Own(log, rn.row.file, rn.new)
  BY DEF PairHolds
<1>4. d.segments \in Seq(Segments)
  BY <1>1 DEF Artifact
<1> HIDE DEF d, n
<1>5. DOMAIN d.segments = 1 .. n + 1
  BY <1>1, <1>4, LenProperties
<1>6. /\ Len(d.renames) = Len(c.renames) + 1 /\ DOMAIN d.renames = 1 .. Len(c.renames) + 1
      /\ d.renames[Len(c.renames) + 1] = rn /\ \A k \in 1 .. Len(c.renames) : d.renames[k] = c.renames[k]
  <2>1. /\ Append(c.renames, rn) \in Seq(Pairs) /\ Len(Append(c.renames, rn)) = Len(c.renames) + 1
        /\ Append(c.renames, rn)[Len(c.renames) + 1] = rn
        /\ \A k \in 1 .. Len(c.renames) : Append(c.renames, rn)[k] = c.renames[k]
    BY <1>2, <1>3, AppendProperties
  <2> QED BY <1>1, <2>1, LenProperties
<1>7. ASSUME Apart(log) PROVE OfOneFile(log, d)
  <2>1. OfOneFile(log, c) /\ rn.row.file = c.row.file
    BY <1>7, RenameOfOneFile DEF ArtifactHolds
  <2>2. d.ref \in {None, d.row.file}
    BY <1>1, <1>3, <2>1 DEF OfOneFile
  <2>3. \A k \in DOMAIN d.segments : Own(log, d.row.file, d.segments[k].path)
    BY <1>1, <1>2, <1>3, <1>5, <2>1 DEF OfOneFile
  <2>4. \A k \in DOMAIN d.renames : d.renames[k].row.file = d.row.file
    BY <1>1, <1>2, <1>6, <2>1 DEF OfOneFile
  <2>5. \A k \in DOMAIN d.deletes : d.deletes[k].file = d.row.file
    BY <1>1, <2>1 DEF OfOneFile
  <2> QED BY <2>2, <2>3, <2>4, <2>5 DEF OfOneFile
<1> QED BY <1>1, <1>2, <1>6, <1>7 DEF ArtifactHolds, d

LEMMA DeletedParts ==
  ASSUME NEW log, NEW c, ArtifactHolds(log, c), NEW r, LogRowHolds(r)
  PROVE  LET d == Deleted(c, r) IN
         /\ d \in Artifact /\ d.row = c.row /\ d.renames = c.renames /\ d.segments = c.segments
         /\ d.ref = IF c.ref = None THEN r.ref ELSE c.ref
         /\ d.deletes = Append(c.deletes, r)
<1>1. /\ c = [row |-> c.row, ref |-> c.ref, renames |-> c.renames, deletes |-> c.deletes, segments |-> c.segments]
      /\ c.row \in LogRows /\ c.ref \in File \cup {None} /\ c.renames \in Seq(Pairs)
      /\ c.deletes \in Seq(LogRows) /\ c.segments \in Seq(Segments)
  BY ArtifactParts
<1>2. r \in LogRows /\ r.ref \in File \cup {None}
  BY DEF LogRowHolds, LogRows
<1>3. Deleted(c, r) = [row |-> c.row, ref |-> IF c.ref = None THEN r.ref ELSE c.ref, renames |-> c.renames,
                       deletes |-> Append(c.deletes, r), segments |-> c.segments]
  BY <1>1, DeletedIs
<1>4. Append(c.deletes, r) \in Seq(LogRows)
  BY <1>1, <1>2, AppendProperties
<1> QED BY <1>1, <1>2, <1>3, <1>4 DEF Artifact

LEMMA DeleteOfOneFile ==
  ASSUME NEW log, LogHolds(log), Apart(log), NEW c, ArtifactHolds(log, c), NEW k \in DOMAIN log, MatchesDelete(c, log[k])
  PROVE  log[k].file = c.row.file
<1>1. OfOneFile(log, c) /\ Len(c.segments) \in DOMAIN c.segments /\ Current(c) = c.segments[Len(c.segments)].path
  BY ArtifactParts DEF ArtifactHolds
<1>2. Own(log, c.row.file, Current(c)) /\ c.ref \in {None, c.row.file}
  BY <1>1 DEF OfOneFile
<1>3. Own(log, log[k].file, log[k].path) /\ log[k].ref \in {None, log[k].file}
  BY RowPaths DEF LogRowHolds
<1>4. CASE SameReference(c, log[k].ref)
  BY <1>2, <1>3, <1>4 DEF SameReference
<1>5. CASE \E i \in DOMAIN c.segments : c.segments[i].path = log[k].path
  BY <1>1, <1>3, <1>5, SameBase DEF OfOneFile
<1>6. CASE SameName(c, log[k].path.base)
  BY <1>2, <1>3, <1>6, SameBase DEF SameName
<1> QED BY <1>4, <1>5, <1>6 DEF MatchesDelete

LEMMA DeletedHolds ==
  ASSUME NEW log, LogHolds(log), NEW c, ArtifactHolds(log, c), NEW k \in DOMAIN log, MatchesDelete(c, log[k])
  PROVE  ArtifactHolds(log, Deleted(c, log[k]))
<1> DEFINE d == Deleted(c, log[k])
           n == Len(c.deletes)
<1>1. LogRowHolds(log[k]) /\ log[k] \in LogRows /\ log[k].ref \in {None, log[k].file}
  BY RowPaths DEF LogRowHolds
<1>2. /\ d \in Artifact /\ d.row = c.row /\ d.renames = c.renames /\ d.segments = c.segments
      /\ d.ref = IF c.ref = None THEN log[k].ref ELSE c.ref
      /\ d.deletes = Append(c.deletes, log[k])
  BY <1>1, DeletedParts
<1>3. /\ c.row.time \in Nat /\ c.deletes \in Seq(LogRows) /\ n \in Nat /\ Len(c.segments) = Len(c.renames) + 1
      /\ DOMAIN c.deletes = 1 .. n
  BY ArtifactParts
<1> HIDE DEF d, n
<1>4. DOMAIN d.deletes = 1 .. n + 1 /\ d.deletes[n + 1] = log[k] /\ \A i \in 1 .. n : d.deletes[i] = c.deletes[i]
  <2>1. /\ Append(c.deletes, log[k]) \in Seq(LogRows) /\ Len(Append(c.deletes, log[k])) = n + 1
        /\ Append(c.deletes, log[k])[n + 1] = log[k]
        /\ \A i \in 1 .. n : Append(c.deletes, log[k])[i] = c.deletes[i]
    BY <1>1, <1>3, AppendProperties DEF n
  <2> QED BY <1>2, <2>1, LenProperties
<1>5. ASSUME Apart(log) PROVE OfOneFile(log, d)
  <2>1. OfOneFile(log, c) /\ log[k].file = c.row.file
    BY <1>5, DeleteOfOneFile DEF ArtifactHolds
  <2> QED BY <1>1, <1>2, <1>3, <1>4, <2>1 DEF OfOneFile
<1> QED BY <1>2, <1>3, <1>5 DEF ArtifactHolds, d

-----------------------------------------------------------------------------
(* The indexes lead to every artifact, by all it can be asked for. *)

Found(s, i) ==
  /\ s.cs[i].ref # None => <<s.cs[i].ref, i>> \in s.byRef
  /\ <<Current(s.cs[i]), i>> \in s.byPath
  /\ <<Current(s.cs[i]).base, i>> \in s.byBase
  /\ \A k \in DOMAIN s.cs[i].segments : <<s.cs[i].segments[k].path, i>> \in s.bySegment

StateParts(s) ==
  s = [cs |-> s.cs, byRef |-> s.byRef, byPath |-> s.byPath, byBase |-> s.byBase, bySegment |-> s.bySegment]

\* The artifacts of a log, each found by the indexes.
IndexesHold(log, s) ==
  /\ StateParts(s) /\ s.cs = [i \in DOMAIN Candidates(log) |-> s.cs[i]]
  /\ \A i \in DOMAIN Candidates(log) : ArtifactHolds(log, s.cs[i]) /\ Found(s, i)

LEMMA PathKeys ==
  ASSUME NEW log, NEW c, ArtifactHolds(log, c)
  PROVE  Current(c) \in Path /\ Current(c) # None /\ Current(c).base # None
<1>1. Len(c.segments) \in DOMAIN c.segments /\ Current(c) = c.segments[Len(c.segments)].path
      /\ \A k \in DOMAIN c.segments : c.segments[k] \in Segments
  BY ArtifactParts
<1>2. Current(c) \in Path
  BY <1>1 DEF Segments
<1> QED BY <1>2, ProvenanceConstants

LEMMA InUnder ==
  ASSUME NEW index, NEW key, NEW i, <<key, i>> \in index
  PROVE  i \in Under(index, key)
<1> DEFINE e == <<key, i>>
<1>1. e \in index /\ e[1] = key /\ e[2] = i
  OBVIOUS
<1> HIDE DEF e
<1> QED BY <1>1 DEF Under

\* Whatever matches a rename is in the pool the indexes give for it.
LEMMA RenamePooled ==
  ASSUME NEW s, NEW i, Found(s, i), NEW rn, MatchesRename(s.cs[i], rn)
  PROVE  i \in RenamePool(s, rn)
<1>1. CASE SameReference(s.cs[i], rn.ref)
  <2>1. <<rn.ref, i>> \in s.byRef
    BY <1>1 DEF SameReference, Found
  <2> QED BY <2>1, InUnder DEF RenamePool
<1>2. CASE Current(s.cs[i]) = rn.old
  <2>1. <<rn.old, i>> \in s.byPath
    BY <1>2 DEF Found
  <2> QED BY <2>1, InUnder DEF RenamePool
<1>3. CASE SameName(s.cs[i], rn.old.base)
  <2>1. <<rn.old.base, i>> \in s.byBase
    BY <1>3 DEF SameName, Found
  <2> QED BY <2>1, InUnder DEF RenamePool
<1> QED BY <1>1, <1>2, <1>3 DEF MatchesRename

LEMMA DeletePooled ==
  ASSUME NEW s, NEW i, Found(s, i), NEW r, MatchesDelete(s.cs[i], r)
  PROVE  i \in DeletePool(s, r)
<1>1. CASE SameReference(s.cs[i], r.ref)
  <2>1. <<r.ref, i>> \in s.byRef
    BY <1>1 DEF SameReference, Found
  <2> QED BY <2>1, InUnder DEF DeletePool
<1>2. CASE \E k \in DOMAIN s.cs[i].segments : s.cs[i].segments[k].path = r.path
  <2>1. <<r.path, i>> \in s.bySegment
    BY <1>2 DEF Found
  <2> QED BY <2>1, InUnder DEF DeletePool
<1>3. CASE SameName(s.cs[i], r.path.base)
  <2>1. <<r.path.base, i>> \in s.byBase
    BY <1>3 DEF SameName, Found
  <2> QED BY <2>1, InUnder DEF DeletePool
<1> QED BY <1>1, <1>2, <1>3 DEF MatchesDelete

\* What an artifact is after a rename, or a row, was offered to it.
OfferRename(c, rn) == IF InWindow(c, rn.time) /\ MatchesRename(c, rn) THEN Renamed(c, rn) ELSE c
OfferDelete(c, r) == IF Deletes(r) /\ InWindow(c, r.time) /\ MatchesDelete(c, r) THEN Deleted(c, r) ELSE c

LEMMA IndexesRename ==
  ASSUME NEW log, NEW s, IndexesHold(log, s), NEW rn, PairHolds(log, rn)
  PROVE  LET t == ApplyRename(s, rn, RenamePool(s, rn)) IN
         IndexesHold(log, t) /\ \A i \in DOMAIN Candidates(log) : t.cs[i] = OfferRename(s.cs[i], rn)
<1> DEFINE D == DOMAIN Candidates(log)
           pool == RenamePool(s, rn)
           hit == {i \in pool : InWindow(s.cs[i], rn.time) /\ MatchesRename(s.cs[i], rn)}
           new == [i \in DOMAIN s.cs |-> IF i \in hit THEN Renamed(s.cs[i], rn) ELSE s.cs[i]]
           t == ApplyRename(s, rn, pool)
<1>1. /\ t.cs = new
      /\ t.byRef = (s.byRef \ Keys(s.cs, hit, Ref)) \cup Keys(new, hit, Ref)
      /\ t.byPath = (s.byPath \ Keys(s.cs, hit, Current)) \cup Keys(new, hit, Current)
      /\ t.byBase = (s.byBase \ Keys(s.cs, hit, CurrentBase)) \cup Keys(new, hit, CurrentBase)
      /\ t.bySegment = s.bySegment \cup Keys(new, hit, Current)
      /\ StateParts(t)
  BY DEF ApplyRename, StateParts
<1>2. DOMAIN s.cs = D /\ \A i \in D : ArtifactHolds(log, s.cs[i]) /\ Found(s, i)
  BY DEF IndexesHold
<1>3. \A i \in D : i \in hit <=> InWindow(s.cs[i], rn.time) /\ MatchesRename(s.cs[i], rn)
  BY <1>2, RenamePooled
<1> HIDE DEF pool, hit, t
<1>4. new = [i \in D |-> IF i \in hit THEN Renamed(s.cs[i], rn) ELSE s.cs[i]]
  BY <1>2
<1>5. \A i \in D : new[i] = IF i \in hit THEN Renamed(s.cs[i], rn) ELSE s.cs[i]
  BY <1>4
<1> HIDE DEF new
<1>6. \A i \in D : t.cs[i] = OfferRename(s.cs[i], rn)
  BY <1>1, <1>3, <1>5 DEF OfferRename
<1>7. ASSUME NEW i \in D
      PROVE  ArtifactHolds(log, t.cs[i]) /\ Found(t, i)
  <2>1. CASE i \notin hit
    <3>1. t.cs[i] = s.cs[i] /\ Found(s, i) /\ ArtifactHolds(log, s.cs[i])
      BY <1>1, <1>2, <1>5, <2>1
    <3>2. \A key : /\ <<key, i>> \notin Keys(s.cs, hit, Ref)
                   /\ <<key, i>> \notin Keys(s.cs, hit, Current)
                   /\ <<key, i>> \notin Keys(s.cs, hit, CurrentBase)
      BY <2>1 DEF Keys
    <3> QED BY <1>1, <3>1, <3>2 DEF Found
  <2>2. CASE i \in hit
    <3>1. t.cs[i] = Renamed(s.cs[i], rn) /\ new[i] = t.cs[i] /\ ArtifactHolds(log, s.cs[i]) /\ Found(s, i)
      BY <1>1, <1>2, <1>5, <2>2
    <3>2. ArtifactHolds(log, t.cs[i])
      BY <1>3, <2>2, <3>1, RenamedHolds
    <3>3. Current(t.cs[i]) # None /\ Current(t.cs[i]).base # None
      BY <3>2, PathKeys
    <3>4. /\ t.cs[i].ref # None => <<t.cs[i].ref, i>> \in Keys(new, hit, Ref)
          /\ <<Current(t.cs[i]), i>> \in Keys(new, hit, Current)
          /\ <<Current(t.cs[i]).base, i>> \in Keys(new, hit, CurrentBase)
      BY <2>2, <3>1, <3>3 DEF Keys, Ref, CurrentBase
    <3>5. \A k \in DOMAIN t.cs[i].segments : <<t.cs[i].segments[k].path, i>> \in t.bySegment
      <4>1. /\ Len(s.cs[i].segments) \in Nat /\ Len(t.cs[i].segments) = Len(s.cs[i].segments) + 1
            /\ \A k \in DOMAIN s.cs[i].segments : t.cs[i].segments[k].path = s.cs[i].segments[k].path
        BY <3>1, RenamedParts, ArtifactParts
      <4>2. /\ DOMAIN s.cs[i].segments = 1 .. Len(s.cs[i].segments)
            /\ DOMAIN t.cs[i].segments = 1 .. Len(t.cs[i].segments)
            /\ Current(t.cs[i]) = t.cs[i].segments[Len(t.cs[i].segments)].path
        BY <3>1, <3>2, ArtifactParts
      <4>3. \A k \in DOMAIN t.cs[i].segments : k \in DOMAIN s.cs[i].segments \/ k = Len(t.cs[i].segments)
        BY <4>1, <4>2
      <4> QED BY <1>1, <3>1, <3>4, <4>1, <4>2, <4>3 DEF Found
    <3> QED BY <1>1, <3>2, <3>4, <3>5 DEF Found
  <2> QED BY <2>1, <2>2
<1>8. t.cs = [i \in D |-> t.cs[i]]
  BY <1>1, <1>4
<1> QED BY <1>1, <1>6, <1>7, <1>8 DEF IndexesHold, t, pool

LEMMA IndexesDelete ==
  ASSUME NEW log, LogHolds(log), NEW s, IndexesHold(log, s), NEW k \in DOMAIN log, Deletes(log[k])
  PROVE  LET t == ApplyDelete(s, log[k], DeletePool(s, log[k])) IN
         IndexesHold(log, t) /\ \A i \in DOMAIN Candidates(log) : t.cs[i] = OfferDelete(s.cs[i], log[k])
<1> DEFINE D == DOMAIN Candidates(log)
           r == log[k]
           pool == DeletePool(s, r)
           hit == {i \in pool : InWindow(s.cs[i], r.time) /\ MatchesDelete(s.cs[i], r)}
           new == [i \in DOMAIN s.cs |-> IF i \in hit THEN Deleted(s.cs[i], r) ELSE s.cs[i]]
           t == ApplyDelete(s, r, pool)
<1>1. /\ StateParts(s) /\ DOMAIN s.cs = D /\ \A i \in D : ArtifactHolds(log, s.cs[i]) /\ Found(s, i)
  BY DEF IndexesHold
<1>2. t = [s EXCEPT !.cs = new, !.byRef = s.byRef \cup Keys(new, hit, Ref)]
  BY DEF ApplyDelete
<1>3. \A i \in D : i \in hit <=> InWindow(s.cs[i], r.time) /\ MatchesDelete(s.cs[i], r)
  BY <1>1, DeletePooled
<1>4. LogRowHolds(r)
  BY RowPaths
<1> HIDE DEF pool, hit, t
<1>5. new = [i \in D |-> IF i \in hit THEN Deleted(s.cs[i], r) ELSE s.cs[i]]
  BY <1>1
<1>6. \A i \in D : new[i] = IF i \in hit THEN Deleted(s.cs[i], r) ELSE s.cs[i]
  BY <1>5
<1>7. DOMAIN new = D
  BY <1>5
<1> HIDE DEF new
<1>8. t = [cs |-> new, byRef |-> s.byRef \cup Keys(new, hit, Ref), byPath |-> s.byPath, byBase |-> s.byBase,
           bySegment |-> s.bySegment]
  <2> DEFINE s1 == [s EXCEPT !.cs = new]
             refs == s.byRef \cup Keys(new, hit, Ref)
  <2>1. t = [s1 EXCEPT !.byRef = refs]
    BY <1>2
  <2> HIDE DEF refs
  <2>2. s1 = [cs |-> new, byRef |-> s.byRef, byPath |-> s.byPath, byBase |-> s.byBase, bySegment |-> s.bySegment]
    BY <1>1 DEF StateParts
  <2> HIDE DEF s1
  <2>3. t = [cs |-> new, byRef |-> refs, byPath |-> s.byPath, byBase |-> s.byBase, bySegment |-> s.bySegment]
    BY <2>1, <2>2
  <2> QED BY <2>3 DEF refs
<1>9. \A i \in D : t.cs[i] = OfferDelete(s.cs[i], r)
  BY <1>3, <1>6, <1>8 DEF OfferDelete
<1>10. ASSUME NEW i \in D
       PROVE  ArtifactHolds(log, t.cs[i]) /\ Found(t, i)
  <2>1. CASE i \notin hit
    <3>1. t.cs[i] = s.cs[i] /\ Found(s, i) /\ ArtifactHolds(log, s.cs[i])
      BY <1>1, <1>6, <1>8, <2>1
    <3> QED BY <1>8, <3>1 DEF Found
  <2>2. CASE i \in hit
    <3>1. t.cs[i] = Deleted(s.cs[i], r) /\ new[i] = t.cs[i] /\ ArtifactHolds(log, s.cs[i]) /\ Found(s, i)
      BY <1>1, <1>6, <1>8, <2>2
    <3>2. ArtifactHolds(log, t.cs[i])
      BY <1>3, <2>2, <3>1, DeletedHolds
    <3>3. t.cs[i].segments = s.cs[i].segments
      BY <1>4, <3>1, DeletedParts
    <3>4. Current(t.cs[i]) = Current(s.cs[i])
      BY <3>3 DEF Current
    <3>5. t.cs[i].ref # None => <<t.cs[i].ref, i>> \in Keys(new, hit, Ref)
      BY <2>2, <3>1 DEF Keys, Ref
    <3> QED BY <1>8, <3>1, <3>2, <3>3, <3>4, <3>5 DEF Found
  <2> QED BY <2>1, <2>2
<1>11. StateParts(t) /\ t.cs = [i \in D |-> t.cs[i]]
  BY <1>5, <1>8 DEF StateParts, new
<1> QED BY <1>9, <1>10, <1>11 DEF IndexesHold, t, pool

-----------------------------------------------------------------------------
(* Two folds over all artifacts, each beside the folds of one artifact. *)

RenameTurn(log, s, i) == ApplyRename(s, Renames(log)[i], RenamePool(s, Renames(log)[i]))
DeleteTurn(log, s, i) == IF Deletes(log[i]) THEN ApplyDelete(s, log[i], DeletePool(s, log[i])) ELSE s
RenameOffered(log, c, i) == OfferRename(c, Renames(log)[i])
DeleteOffered(log, c, i) == OfferDelete(c, log[i])
AnyTurn(log, i, c) == TRUE

OneRenamed == INSTANCE FoldLaws WITH Pick <- GreatestIndex, Step <- RenameOffered, Holds <- AnyTurn
OneDeleted == INSTANCE FoldLaws WITH Pick <- GreatestIndex, Step <- DeleteOffered, Holds <- AnyTurn

\* What the renames make of an artifact.
AfterRenames(log, i, m) == OneRenamed!Fold(log, Candidates(log)[i], 1 .. m)
AfterDeletes(log, i, m) == OneDeleted!Fold(log, AfterRenames(log, i, Len(Renames(log))), 1 .. m)

RenamesKept(log, m, s) ==
  IndexesHold(log, s) /\ \A i \in DOMAIN Candidates(log) : s.cs[i] = AfterRenames(log, i, m)

DeletesKept(log, m, s) ==
  IndexesHold(log, s) /\ \A i \in DOMAIN Candidates(log) : s.cs[i] = AfterDeletes(log, i, m)

AllRenamed == INSTANCE FoldLaws WITH Pick <- GreatestIndex, Step <- RenameTurn, Holds <- RenamesKept
AllDeleted == INSTANCE FoldLaws WITH Pick <- GreatestIndex, Step <- DeleteTurn, Holds <- DeletesKept

LEMMA TurnPicks ==
  OneRenamed!PicksLast /\ OneDeleted!PicksLast /\ AllRenamed!PicksLast /\ AllDeleted!PicksLast
BY DEF OneRenamed!PicksLast, OneDeleted!PicksLast, AllRenamed!PicksLast, AllDeleted!PicksLast, GreatestIndex, Max

AllAfterRenames(log) == AllRenamed!Fold(log, Indexed(Candidates(log)), 1 .. Len(Renames(log)))

LEMMA LifecyclesFold ==
  ASSUME NEW log, DOMAIN log = 1 .. Len(log), DOMAIN Renames(log) = 1 .. Len(Renames(log))
  PROVE  Lifecycles(log) = AllDeleted!Fold(log, AllAfterRenames(log), 1 .. Len(log)).cs
<1> DEFINE renamed == FoldLeft(LAMBDA s, rn : ApplyRename(s, rn, RenamePool(s, rn)),
                               Indexed(Candidates(log)), Renames(log))
<1>1. renamed = AllAfterRenames(log)
  BY DEF AllAfterRenames, FoldLeft, MapThenFoldSet, AllRenamed!Fold, AllRenamed!IsFold, RenameTurn, GreatestIndex
<1>2. Lifecycles(log) =
        FoldLeft(LAMBDA s, r : IF Deletes(r) THEN ApplyDelete(s, r, DeletePool(s, r)) ELSE s, renamed, log).cs
  BY DEF Lifecycles
<1> HIDE DEF renamed
<1>3. FoldLeft(LAMBDA s, r : IF Deletes(r) THEN ApplyDelete(s, r, DeletePool(s, r)) ELSE s, renamed, log)
        = AllDeleted!Fold(log, renamed, 1 .. Len(log))
  BY DEF FoldLeft, MapThenFoldSet, AllDeleted!Fold, AllDeleted!IsFold, DeleteTurn, GreatestIndex
<1> QED BY <1>1, <1>2, <1>3

LEMMA ScannedFold ==
  ASSUME NEW log, DOMAIN log = 1 .. Len(log), DOMAIN Renames(log) = 1 .. Len(Renames(log))
  PROVE  Scanned(log) = [i \in DOMAIN Candidates(log) |-> AfterDeletes(log, i, Len(log))]
<1>1. \A c : FoldLeft(OfferRename, c, Renames(log)) = OneRenamed!Fold(log, c, 1 .. Len(Renames(log)))
  BY DEF FoldLeft, MapThenFoldSet, OneRenamed!Fold, OneRenamed!IsFold, RenameOffered, GreatestIndex
<1>2. \A c : FoldLeft(OfferDelete, c, log) = OneDeleted!Fold(log, c, 1 .. Len(log))
  BY DEF FoldLeft, MapThenFoldSet, OneDeleted!Fold, OneDeleted!IsFold, DeleteOffered, GreatestIndex
<1>3. Scanned(log) =
        [i \in DOMAIN Candidates(log) |->
           FoldLeft(OfferDelete, FoldLeft(OfferRename, Candidates(log)[i], Renames(log)), log)]
  BY DEF Scanned, OfferRename, OfferDelete
<1>4. \A i : FoldLeft(OfferDelete, FoldLeft(OfferRename, Candidates(log)[i], Renames(log)), log)
               = AfterDeletes(log, i, Len(log))
  BY <1>1, <1>2 DEF AfterDeletes, AfterRenames
<1> QED BY <1>3, <1>4

\* At first every artifact has one path, and no reference to be found by.
LEMMA IndexedFirst ==
  ASSUME NEW log, LogHolds(log)
  PROVE  IndexesHold(log, Indexed(Candidates(log)))
<1> DEFINE cs == Candidates(log)
           s == Indexed(cs)
<1>1. cs = [i \in {j \in DOMAIN log : Brings(log[j])} |-> Candidate(log[i])]
  BY DEF Candidates
<1>2. /\ s.cs = cs /\ s.byRef = {} /\ s.byPath = Keys(cs, DOMAIN cs, Current)
      /\ s.byBase = Keys(cs, DOMAIN cs, CurrentBase) /\ s.bySegment = Keys(cs, DOMAIN cs, Current)
      /\ StateParts(s)
  BY DEF Indexed, StateParts
<1> HIDE DEF cs, s
<1>3. ASSUME NEW i \in DOMAIN cs
      PROVE  ArtifactHolds(log, s.cs[i]) /\ Found(s, i)
  <2>1. i \in DOMAIN log /\ Brings(log[i]) /\ cs[i] = Candidate(log[i])
    BY <1>1
  <2>2. /\ ArtifactHolds(log, cs[i]) /\ cs[i].ref = None /\ DOMAIN cs[i].segments = {1}
        /\ cs[i].segments[1].path = Current(cs[i])
    BY <2>1, ArtifactBrought
  <2>3. Current(cs[i]) # None /\ Current(cs[i]).base # None
    BY <2>2, PathKeys
  <2>4. <<Current(cs[i]), i>> \in Keys(cs, DOMAIN cs, Current) /\ <<Current(cs[i]).base, i>> \in Keys(cs, DOMAIN cs, CurrentBase)
    BY <2>3 DEF Keys, CurrentBase
  <2> QED BY <1>2, <2>2, <2>4 DEF Found
<1>4. s.cs = [i \in DOMAIN cs |-> s.cs[i]]
  BY <1>1, <1>2
<1> QED BY <1>2, <1>3, <1>4 DEF IndexesHold, cs, s

LEMMA AllRenamedHolds ==
  ASSUME NEW log, LogHolds(log)
  PROVE  RenamesKept(log, Len(Renames(log)), AllAfterRenames(log))
<1> DEFINE n == Len(Renames(log))
           base == Indexed(Candidates(log))
<1>1. n \in Nat /\ \A m \in 1 .. n : PairHolds(log, Renames(log)[m])
  BY RenamesHold, LenProperties
<1>2. \A i, m : m \in Nat => AfterRenames(log, i, m + 1) = RenameOffered(log, AfterRenames(log, i, m), m + 1)
  BY TurnPicks, OneRenamed!FoldInOrder DEF AfterRenames
<1>3. \A i : AfterRenames(log, i, 0) = Candidates(log)[i]
  BY TurnPicks, OneRenamed!FoldInOrder DEF AfterRenames
<1>4. RenamesKept(log, 0, base)
  <2>1. \A i : base.cs[i] = Candidates(log)[i]
    BY DEF Indexed
  <2> QED BY <1>3, <2>1, IndexedFirst DEF RenamesKept
<1>5. \A m \in 0 .. n - 1 : \A x : RenamesKept(log, m, x) => RenamesKept(log, m + 1, RenameTurn(log, x, m + 1))
  <2> SUFFICES ASSUME NEW m \in 0 .. n - 1, NEW x, RenamesKept(log, m, x)
               PROVE  RenamesKept(log, m + 1, RenameTurn(log, x, m + 1))
    OBVIOUS
  <2>1. m + 1 \in 1 .. n /\ m \in Nat
    BY <1>1
  <2>2. PairHolds(log, Renames(log)[m + 1])
    BY <1>1, <2>1
  <2>3. /\ IndexesHold(log, RenameTurn(log, x, m + 1))
        /\ \A i \in DOMAIN Candidates(log) : RenameTurn(log, x, m + 1).cs[i] = RenameOffered(log, x.cs[i], m + 1)
    BY <2>2, IndexesRename DEF RenamesKept, RenameTurn, RenameOffered
  <2> QED BY <1>2, <2>1, <2>3 DEF RenamesKept
<1> HIDE DEF n, base
<1>6. \A m \in 0 .. n : RenamesKept(log, m, AllRenamed!Fold(log, base, 1 .. m))
  BY <1>1, <1>4, <1>5, TurnPicks, AllRenamed!FoldKeeps
<1>7. n \in 0 .. n
  BY <1>1
<1> QED BY <1>6, <1>7 DEF AllAfterRenames, n, base

LEMMA AllDeletedHolds ==
  ASSUME NEW log, LogHolds(log)
  PROVE  DeletesKept(log, Len(log), AllDeleted!Fold(log, AllAfterRenames(log), 1 .. Len(log)))
<1> DEFINE n == Len(log)
           base == AllAfterRenames(log)
<1>1. n \in Nat /\ DOMAIN log = 1 .. n
  BY LenProperties DEF LogHolds
<1>2. \A i, m : m \in Nat => AfterDeletes(log, i, m + 1) = DeleteOffered(log, AfterDeletes(log, i, m), m + 1)
  BY TurnPicks, OneDeleted!FoldInOrder DEF AfterDeletes
<1>3. \A i : AfterDeletes(log, i, 0) = AfterRenames(log, i, Len(Renames(log)))
  BY TurnPicks, OneDeleted!FoldInOrder DEF AfterDeletes
<1>4. DeletesKept(log, 0, base)
  BY <1>3, AllRenamedHolds DEF RenamesKept, DeletesKept
<1>5. \A m \in 0 .. n - 1 : \A x : DeletesKept(log, m, x) => DeletesKept(log, m + 1, DeleteTurn(log, x, m + 1))
  <2> SUFFICES ASSUME NEW m \in 0 .. n - 1, NEW x, DeletesKept(log, m, x)
               PROVE  DeletesKept(log, m + 1, DeleteTurn(log, x, m + 1))
    OBVIOUS
  <2>1. m + 1 \in DOMAIN log /\ m \in Nat
    BY <1>1
  <2>2. CASE Deletes(log[m + 1])
    <3>1. /\ IndexesHold(log, DeleteTurn(log, x, m + 1))
          /\ \A i \in DOMAIN Candidates(log) : DeleteTurn(log, x, m + 1).cs[i] = DeleteOffered(log, x.cs[i], m + 1)
      BY <2>1, <2>2, IndexesDelete DEF DeletesKept, DeleteTurn, DeleteOffered
    <3> QED BY <1>2, <2>1, <3>1 DEF DeletesKept
  <2>3. CASE ~Deletes(log[m + 1])
    <3>1. DeleteTurn(log, x, m + 1) = x
      BY <2>3 DEF DeleteTurn
    <3>2. \A i : AfterDeletes(log, i, m + 1) = AfterDeletes(log, i, m)
      BY <1>2, <2>1, <2>3 DEF DeleteOffered, OfferDelete
    <3> QED BY <3>1, <3>2 DEF DeletesKept
  <2> QED BY <2>2, <2>3
<1> HIDE DEF n, base
<1>6. \A m \in 0 .. n : DeletesKept(log, m, AllDeleted!Fold(log, base, 1 .. m))
  BY <1>1, <1>4, <1>5, TurnPicks, AllDeleted!FoldKeeps
<1>7. n \in 0 .. n
  BY <1>1
<1> QED BY <1>6, <1>7 DEF n, base

\* Of any log the indexes miss nothing; and what is known of the artifacts.
LEMMA LifecyclesHold ==
  ASSUME NEW log, LogHolds(log)
  PROVE  /\ Lifecycles(log) = Scanned(log)
         /\ DOMAIN Lifecycles(log) = DOMAIN Candidates(log)
         /\ \A i \in DOMAIN Lifecycles(log) : ArtifactHolds(log, Lifecycles(log)[i])
<1> DEFINE s == AllDeleted!Fold(log, AllAfterRenames(log), 1 .. Len(log))
<1>1. DOMAIN log = 1 .. Len(log) /\ DOMAIN Renames(log) = 1 .. Len(Renames(log))
  BY RenamesHold, LenProperties DEF LogHolds
<1>2. Lifecycles(log) = s.cs /\ DeletesKept(log, Len(log), s)
  BY <1>1, LifecyclesFold, AllDeletedHolds
<1>3. Scanned(log) = [i \in DOMAIN Candidates(log) |-> AfterDeletes(log, i, Len(log))]
  BY <1>1, ScannedFold
<1> HIDE DEF s
<1>4. /\ s.cs = [i \in DOMAIN Candidates(log) |-> s.cs[i]]
      /\ \A i \in DOMAIN Candidates(log) : ArtifactHolds(log, s.cs[i]) /\ s.cs[i] = AfterDeletes(log, i, Len(log))
  BY <1>2 DEF DeletesKept, IndexesHold
<1> QED BY <1>2, <1>3, <1>4

-----------------------------------------------------------------------------
(* The rows the machine leaves. *)

Stays == [path : Path \cup {None}, since : Nat]

\* The rows name their files or, in telemetry without references, none does.
Referenced(log) ==
  \A k \in DOMAIN log : log[k].ref = IF telemetry = "bare" THEN None ELSE log[k].file

RowsInv ==
  /\ rows \in Seq(LogRows)
  /\ \A k \in DOMAIN rows : LogRowHolds(rows[k])
  /\ Referenced(rows) /\ (telemetry = "bare" /\ ~missing => Tripled(rows))
  /\ history \in [File -> Seq(Stays)] /\ clock \in Nat
  /\ telemetry \in Telemetry /\ missing \in BOOLEAN

\* Rows that the machine could have left are a log.
LEMMA LogOf ==
  ASSUME NEW log \in Seq(LogRows), \A k \in DOMAIN log : LogRowHolds(log[k]), Referenced(log)
  PROVE  LogHolds(log)
<1>1. CASE telemetry = "bare"
  BY <1>1 DEF LogHolds, Referenced
<1>2. CASE telemetry # "bare"
  <2>1. \A k \in DOMAIN log : log[k].file \in File
    BY DEF LogRowHolds, LogRows
  <2>2. \A k \in DOMAIN log : log[k].ref # None
    BY <1>2, <2>1, ProvenanceConstants DEF Referenced
  <2> QED BY <2>2 DEF LogHolds
<1> QED BY <1>1, <1>2

LEMMA RowsInvHolds == RowsInv => LogHolds(rows)
BY LogOf DEF RowsInv

\* With references, or with no row missing, the rows tell whose old name each is.
LEMMA RowsTogether == RowsInv /\ (telemetry = "bare" => ~missing) => Together(rows)
<1> SUFFICES ASSUME RowsInv, telemetry # "bare" PROVE Together(rows)
  BY DEF Together, RowsInv
<1>1. \A k \in DOMAIN rows : rows[k].file \in File
  BY DEF RowsInv, LogRowHolds, LogRows
<1> QED BY <1>1, ProvenanceConstants DEF RowsInv, Referenced, Together

\* Rows behind rows are rows, and those that are together stay so.
LEMMA RowsBehind ==
  ASSUME NEW old \in Seq(LogRows), \A k \in DOMAIN old : LogRowHolds(old[k]), Referenced(old),
         NEW new \in Seq(LogRows), \A k \in DOMAIN new : LogRowHolds(new[k]), Referenced(new)
  PROVE  /\ old \o new \in Seq(LogRows)
         /\ \A k \in DOMAIN (old \o new) : LogRowHolds((old \o new)[k])
         /\ Referenced(old \o new) /\ (Tripled(old) /\ Tripled(new) => Tripled(old \o new))
<1> DEFINE both == old \o new
           n == Len(old)
<1>1. /\ n \in Nat /\ Len(new) \in Nat /\ DOMAIN old = 1 .. n /\ DOMAIN new = 1 .. Len(new)
  BY LenProperties
<1>2. /\ both \in Seq(LogRows) /\ Len(both) = n + Len(new)
      /\ \A k \in 1 .. Len(both) : both[k] = IF k <= n THEN old[k] ELSE new[k - n]
  BY ConcatProperties
<1> HIDE DEF both
<1>3. DOMAIN both = 1 .. n + Len(new)
  BY <1>2, LenProperties
<1> HIDE DEF n
<1>4. \A k \in DOMAIN both : \/ k \in DOMAIN old /\ both[k] = old[k]
                             \/ k - n \in DOMAIN new /\ both[k] = new[k - n]
  BY <1>1, <1>2, <1>3
<1>5. ASSUME Tripled(old), Tripled(new) PROVE Tripled(both)
  <2> SUFFICES ASSUME NEW k \in DOMAIN both, both[k].kind = "old"
               PROVE  k + 1 \in DOMAIN both /\ both[k + 1].kind = "new" /\ both[k + 1].file = both[k].file
    BY DEF Tripled
  <2>1. CASE k \in DOMAIN old /\ both[k] = old[k]
    <3>1. k + 1 \in DOMAIN old /\ old[k + 1].kind = "new" /\ old[k + 1].file = old[k].file
      BY <1>5, <2>1 DEF Tripled
    <3>2. k + 1 \in DOMAIN both /\ both[k + 1] = old[k + 1]
      BY <1>1, <1>2, <1>3, <3>1
    <3> QED BY <2>1, <3>1, <3>2
  <2>2. CASE k - n \in DOMAIN new /\ both[k] = new[k - n]
    <3>1. (k - n) + 1 \in DOMAIN new /\ new[(k - n) + 1].kind = "new" /\ new[(k - n) + 1].file = new[k - n].file
      BY <1>5, <2>2 DEF Tripled
    <3>2. k + 1 \in DOMAIN both /\ both[k + 1] = new[(k + 1) - n] /\ (k + 1) - n = (k - n) + 1
      BY <1>1, <1>2, <1>3, <3>1
    <3> QED BY <2>2, <3>1, <3>2
  <2> QED BY <1>4, <2>1, <2>2
<1>6. \A k \in DOMAIN both : LogRowHolds(both[k])
  BY <1>4
<1>7. Referenced(both)
  BY <1>4 DEF Referenced
<1> QED BY <1>2, <1>5, <1>6, <1>7 DEF both

\* No row at all, as nothing is read.
LEMMA NoRow == <<>> \in Seq(LogRows) /\ (\A k \in DOMAIN <<>> : LogRowHolds(<<>>[k])) /\ Referenced(<<>>)
BY DEF Referenced

\* A row the machine writes, and what else it may say.
LEMMA RowWritten ==
  ASSUME RowsInv, NEW kind \in Kinds, NEW f \in File, NEW path \in Path
  PROVE  LET r == LogRow(kind, f, path) IN
         /\ r \in LogRows /\ r.kind = kind /\ r.file = f /\ r.path = path /\ r.time \in Nat
         /\ r.ref = IF telemetry = "bare" THEN None ELSE f
         /\ kind # "renamed" => LogRowHolds(r)
<1>1. clock \in Nat
  BY DEF RowsInv
<1>2. Low \in Grades /\ FALSE \in BOOLEAN
  BY DEF Low, Grades
<1> QED BY <1>1, <1>2 DEF LogRow, LogRows, LogRowHolds

LEMMA OneRow ==
  ASSUME NEW r, LogRowHolds(r), r.ref = IF telemetry = "bare" THEN None ELSE r.file, r.kind # "old"
  PROVE  /\ <<r>> \in Seq(LogRows) /\ \A k \in DOMAIN <<r>> : LogRowHolds(<<r>>[k])
         /\ Referenced(<<r>>) /\ Tripled(<<r>>)
<1>1. r \in LogRows
  BY DEF LogRowHolds
<1>2. <<r>> \in Seq(LogRows) /\ DOMAIN <<r>> = {1} /\ <<r>>[1] = r
  BY <1>1
<1> QED BY <1>2 DEF Referenced, Tripled

LEMMA Logged ==
  ASSUME RowsInv, NEW all, NEW kept \in Seq(LogRows), \A k \in DOMAIN kept : LogRowHolds(kept[k]), Referenced(kept),
         kept = all => Tripled(kept), Log(all, kept), history' \in [File -> Seq(Stays)]
  PROVE  RowsInv'
<1>1. /\ rows' = rows \o kept /\ clock' = clock + 1 /\ telemetry' = telemetry
      /\ missing' = (missing \/ kept # all)
  BY DEF Log
<1>2. /\ rows \in Seq(LogRows) /\ \A k \in DOMAIN rows : LogRowHolds(rows[k])
      /\ Referenced(rows) /\ (telemetry = "bare" /\ ~missing => Tripled(rows)) /\ missing \in BOOLEAN
  BY DEF RowsInv
<1>3. /\ rows' \in Seq(LogRows)
      /\ \A k \in DOMAIN rows' : LogRowHolds(rows'[k])
      /\ Referenced(rows') /\ (Tripled(rows) /\ Tripled(kept) => Tripled(rows'))
  BY <1>1, <1>2, RowsBehind
<1>4. Referenced(rows)'
  BY <1>1, <1>3 DEF Referenced
<1>5. clock' \in Nat /\ telemetry' \in Telemetry /\ missing' \in BOOLEAN
  BY <1>1, <1>2 DEF RowsInv
<1>6. telemetry' = "bare" /\ ~missing' => Tripled(rows')
  BY <1>1, <1>2, <1>3
<1> QED BY <1>3, <1>4, <1>5, <1>6 DEF RowsInv, Tripled

\* One row, read or not.
LEMMA OneLogged ==
  ASSUME RowsInv, NEW r, LogRowHolds(r), r.ref = IF telemetry = "bare" THEN None ELSE r.file, r.kind # "old",
         LogOne(r), history' \in [File -> Seq(Stays)]
  PROVE  RowsInv'
<1> DEFINE kept == IF Read(r) THEN <<r>> ELSE <<>>
<1>1. Log(<<r>>, kept)
  BY DEF LogOne
<1>2. /\ <<r>> \in Seq(LogRows) /\ (\A k \in DOMAIN <<r>> : LogRowHolds(<<r>>[k]))
      /\ Referenced(<<r>>) /\ Tripled(<<r>>)
  BY OneRow
<1>3. kept \in {<<r>>, <<>>}
  OBVIOUS
<1> HIDE DEF kept
<1>4. CASE kept = <<r>>
  BY <1>1, <1>2, <1>4, Logged
<1>5. CASE kept = <<>>
  <2>1. <<>> # <<r>>
    OBVIOUS
  <2> QED BY <1>1, <1>5, <2>1, NoRow, Logged
<1> QED BY <1>3, <1>4, <1>5

LEMMA StaysOn ==
  ASSUME RowsInv, NEW f \in File, NEW path \in Path \cup {None}
  PROVE  /\ [history EXCEPT ![f] = <<Stay(path)>>] \in [File -> Seq(Stays)]
         /\ [history EXCEPT ![f] = Append(@, Stay(path))] \in [File -> Seq(Stays)]
<1>1. Stay(path) \in Stays
  BY DEF RowsInv, Stay, Stays
<1>2. history \in [File -> Seq(Stays)] /\ history[f] \in Seq(Stays)
  BY DEF RowsInv
<1>3. <<Stay(path)>> \in Seq(Stays) /\ Append(history[f], Stay(path)) \in Seq(Stays)
  BY <1>1, <1>2, AppendProperties
<1> QED BY <1>2, <1>3

LEMMA WhereIs ==
  ASSUME RowsInv, NEW f \in File, Present(f)
  PROVE  Where(f) \in Path
<1>1. history[f] \in Seq(Stays) /\ history[f] # <<>> /\ Where(f) # None
  BY DEF RowsInv, Present
<1>2. Len(history[f]) \in DOMAIN history[f]
  BY <1>1, LenProperties, EmptySeq
<1>3. Last(history[f]) \in Stays
  BY <1>1, <1>2, LenProperties DEF Last
<1> QED BY <1>1, <1>3 DEF Where, Stays

LEMMA RowsInit == OriginInit => RowsInv
<1> SUFFICES ASSUME OriginInit PROVE RowsInv
  OBVIOUS
<1>1. rows = <<>> /\ clock = 0 /\ telemetry \in Telemetry /\ missing = FALSE
  BY DEF OriginInit
<1>2. history \in [File -> Seq(Stays)]
  <2>1. \A p \in Path : <<Stay(p)>> \in Seq(Stays)
    <3>1. \A p \in Path : Stay(p) \in Stays
      BY <1>1 DEF Stay, Stays
    <3> QED BY <3>1
  <2>2. <<>> \in Seq(Stays)
    OBVIOUS
  <2>3. CASE history = [g \in File |-> <<>>]
    BY <2>2, <2>3
  <2>4. ASSUME NEW f \in File, NEW p \in Path, history = [g \in File |-> IF g = f THEN <<Stay(p)>> ELSE <<>>]
        PROVE  history \in [File -> Seq(Stays)]
    <3>1. \A g \in File : (IF g = f THEN <<Stay(p)>> ELSE <<>>) \in Seq(Stays)
      BY <2>1, <2>2
    <3> QED BY <2>4, <3>1
  <2>5. \/ history = [g \in File |-> <<>>]
        \/ \E f \in File, p \in Path : history = [g \in File |-> IF g = f THEN <<Stay(p)>> ELSE <<>>]
    BY DEF OriginInit
  <2> QED BY <2>3, <2>4, <2>5
<1>3. rows \in Seq(LogRows) /\ DOMAIN rows = {}
  BY <1>1
<1> QED BY <1>1, <1>2, <1>3 DEF RowsInv, Referenced, Tripled

LEMMA ArriveKeeps ==
  ASSUME RowsInv, NEW f \in File, NEW path \in Path, NEW kind \in Arrival[telemetry], NEW origin \in Origin,
         Arrive(f, path, kind, origin)
  PROVE  RowsInv'
<1> DEFINE row == LogRow(kind, f, path)
           r == [row EXCEPT !.origin = kind = "download" /\ origin]
<1>1. kind \in {"download", "create"} /\ kind \in Kinds
  BY ProvenanceConstants DEF RowsInv, Kinds
<1>2. /\ row \in LogRows /\ row.kind = kind /\ row.file = f /\ row.path = path /\ row.time \in Nat
      /\ row.ref = IF telemetry = "bare" THEN None ELSE f
      /\ LogRowHolds(row)
  BY <1>1, RowWritten
<1>3. (kind = "download" /\ origin) \in BOOLEAN
  OBVIOUS
<1> HIDE DEF row
<1>4. r \in LogRows /\ r.kind = kind /\ r.file = f /\ r.path = path /\ r.time = row.time /\ r.ref = row.ref
  BY <1>2, <1>3 DEF LogRows
<1>5. LogOne(r) /\ history' = [history EXCEPT ![f] = <<Stay(path)>>]
  BY DEF Arrive, row
<1> HIDE DEF r
<1>6. LogRowHolds(r)
  BY <1>1, <1>2, <1>4 DEF LogRowHolds
<1> QED BY <1>1, <1>2, <1>4, <1>5, <1>6, StaysOn, OneLogged

LEMMA RefIs ==
  ASSUME NEW f
  PROVE  (IF telemetry = "bare" THEN None ELSE f) \in {None, f}
OBVIOUS

\* What may be there of one row, or of three.
LEMMA RemainsOf ==
  ASSUME NEW a, NEW b
  PROVE  /\ Remains(<<a>>) \subseteq {<<a>>, <<>>}
         /\ Remains(<<a, b, b>>) \subseteq {<<a, b, b>>, <<>>, <<a>>, <<b>>, <<a, b>>, <<b, b>>}
BY DEF Remains

\* What is there of a move: nothing, or some of the names in their order.
LEMMA MoveWritten ==
  ASSUME RowsInv, NEW f \in File, NEW path \in Path, Where(f) \in Path,
         NEW kept \in Remains(MoveRows(f, path))
  PROVE  /\ kept \in Seq(LogRows) /\ \A k \in DOMAIN kept : LogRowHolds(kept[k])
         /\ Referenced(kept) /\ (kept = MoveRows(f, path) => Tripled(kept))
<1> DEFINE old == LogRow("old", f, Where(f))
           new == LogRow("new", f, path)
           row == LogRow("renamed", f, path)
           one == [row EXCEPT !.old = Where(f)]
           ref == IF telemetry = "bare" THEN None ELSE f
           all == MoveRows(f, path)
<1>1. /\ LogRowHolds(old) /\ old \in LogRows /\ old.kind = "old" /\ old.file = f /\ old.ref = ref
      /\ LogRowHolds(new) /\ new \in LogRows /\ new.kind = "new" /\ new.file = f /\ new.ref = ref
      /\ row \in LogRows /\ row.kind = "renamed" /\ row.file = f /\ row.path = path /\ row.time \in Nat /\ row.ref = ref
  BY RowWritten DEF Kinds
<1>2. all = <<one>> \/ all = <<old, new, new>>
  BY DEF MoveRows
<1> HIDE DEF old, new, row, all
<1>3. one \in LogRows /\ one.kind = "renamed" /\ one.file = f /\ one.path = path /\ one.time = row.time
      /\ one.ref = ref /\ one.old = Where(f)
  BY <1>1 DEF LogRows
<1> HIDE DEF one, ref
<1>4. LogRowHolds(one)
  BY <1>1, <1>3, RefIs DEF LogRowHolds, ref
<1>5. CASE all = <<one>>
  <2>1. kept \in {<<one>>, <<>>}
    BY <1>5, RemainsOf DEF all
  <2>2. CASE kept = <<one>>
    BY <1>3, <1>4, <2>2, OneRow DEF ref
  <2>3. CASE kept = <<>>
    <3>1. kept # <<one>>
      BY <2>3
    <3> QED BY <1>5, <2>3, <3>1, NoRow DEF all
  <2> QED BY <2>1, <2>2, <2>3
<1>6. CASE all = <<old, new, new>>
  <2>1. kept \in {<<old, new, new>>, <<>>, <<old>>, <<new>>, <<old, new>>, <<new, new>>}
    BY <1>6, RemainsOf DEF all
  <2>2. kept \in Seq(LogRows) /\ \A k \in DOMAIN kept : kept[k] \in {old, new}
    <3>1. CASE kept = <<old, new, new>>
      BY <1>1, <3>1
    <3>2. CASE kept = <<>>
      BY <3>2
    <3>3. CASE kept = <<old>>
      BY <1>1, <3>3
    <3>4. CASE kept = <<new>>
      BY <1>1, <3>4
    <3>5. CASE kept = <<old, new>>
      BY <1>1, <3>5
    <3>6. CASE kept = <<new, new>>
      BY <1>1, <3>6
    <3> QED BY <2>1, <3>1, <3>2, <3>3, <3>4, <3>5, <3>6
  <2>3. \A k \in DOMAIN kept : LogRowHolds(kept[k])
    BY <1>1, <2>2
  <2>4. Referenced(kept)
    BY <1>1, <2>2 DEF Referenced, ref
  <2>5. ASSUME kept = all PROVE Tripled(kept)
    <3>1. DOMAIN kept = {1, 2, 3} /\ kept[1] = old /\ kept[2] = new /\ kept[3] = new
      BY <1>6, <2>5
    <3> QED BY <1>1, <3>1 DEF Tripled
  <2> QED BY <2>2, <2>3, <2>4, <2>5 DEF all
<1> QED BY <1>2, <1>5, <1>6

LEMMA RunKeeps ==
  ASSUME RowsInv, NEW f \in File, NEW form \in Form, Run(f, form)
  PROVE  RowsInv'
<1> DEFINE row == LogRow("run", f, IF form.named THEN Where(f) ELSE NameOnly(Where(f)))
           time == IF form.timed THEN row.time ELSE None
           r1 == [row EXCEPT !.severity = form.severity]
           r == [r1 EXCEPT !.time = time]
<1>1. Where(f) \in Path /\ clock \in Nat /\ form.severity \in Grades
  BY WhereIs, ProvenanceConstants DEF Run, RowsInv
<1>2. /\ row \in LogRows /\ row.kind = "run" /\ row.file = f /\ row.time \in Nat
      /\ row.ref = IF telemetry = "bare" THEN None ELSE f
  <2>1. (IF form.named THEN Where(f) ELSE NameOnly(Where(f))) \in Path \cup {NameOnly(p) : p \in Path}
    BY <1>1
  <2>2. Low \in Grades
    BY DEF Low, Grades
  <2> QED BY <1>1, <2>1, <2>2 DEF LogRow, LogRows, Kinds
<1>3. history' = history /\ LogOne(r)
  BY DEF Run
<1> HIDE DEF row
<1>4. time \in Nat \cup {None}
  BY <1>2
<1> HIDE DEF time
<1>5. r1 \in LogRows /\ r1.kind = "run" /\ r1.file = f /\ r1.ref = row.ref
  BY <1>1, <1>2 DEF LogRows
<1> HIDE DEF r1
<1>6. r \in LogRows /\ r.kind = "run" /\ r.file = f /\ r.ref = row.ref
  BY <1>4, <1>5 DEF LogRows
<1> HIDE DEF r
<1>7. LogRowHolds(r)
  BY <1>2, <1>6 DEF LogRowHolds
<1>8. history' \in [File -> Seq(Stays)]
  BY <1>3 DEF RowsInv
<1> QED BY <1>2, <1>3, <1>6, <1>7, <1>8, OneLogged

LEMMA EraseKeeps ==
  ASSUME RowsInv, NEW f \in File, Erase(f)
  PROVE  RowsInv'
<1> DEFINE r == LogRow("delete", f, Where(f))
<1>1. Where(f) \in Path
  BY WhereIs DEF Erase
<1>2. LogRowHolds(r) /\ r.kind = "delete" /\ r.file = f /\ r.ref = IF telemetry = "bare" THEN None ELSE f
  BY <1>1, RowWritten DEF Kinds
<1>3. LogOne(r) /\ history' = [history EXCEPT ![f] = Append(@, Stay(None))]
  BY DEF Erase
<1> HIDE DEF r
<1> QED BY <1>2, <1>3, StaysOn, OneLogged

LEMMA MoveKeeps ==
  ASSUME RowsInv, NEW f \in File, NEW path \in Path, Move(f, path)
  PROVE  RowsInv'
<1>1. Where(f) \in Path
  BY WhereIs DEF Move
<1>2. PICK kept \in Remains(MoveRows(f, path)) : Log(MoveRows(f, path), kept)
  BY DEF Move
<1>3. history' = [history EXCEPT ![f] = Append(@, Stay(path))]
  BY DEF Move
<1> QED BY <1>1, <1>2, <1>3, MoveWritten, StaysOn, Logged

LEMMA RowsStep == RowsInv /\ [OriginNext]_originVars => RowsInv'
<1> SUFFICES ASSUME RowsInv, [OriginNext]_originVars PROVE RowsInv'
  OBVIOUS
<1>1. CASE UNCHANGED originVars
  BY <1>1 DEF RowsInv, originVars, Referenced, Tripled
<1>2. CASE OriginNext
  BY <1>2, ArriveKeeps, MoveKeeps, EraseKeeps, RunKeeps DEF OriginNext
<1> QED BY <1>1, <1>2

\* The rows a machine leaves are well formed.
THEOREM RowsInvariant == OriginSpec => []RowsInv
<1> QED BY RowsInit, RowsStep, PTL DEF OriginSpec

\* Looking artifacts up in indexes that are kept as they move finds every rename and
\* every deletion that would be found by asking each of them.
THEOREM IndexesAlwaysMissNothing == OriginSpec => []IndexesMissNothing
<1>1. RowsInv => IndexesMissNothing
  BY RowsInvHolds, LifecyclesHold DEF IndexesMissNothing
<1> QED BY <1>1, RowsInvariant, PTL

-----------------------------------------------------------------------------
(* What is told is about one file. *)

LEMMA LeastOf ==
  ASSUME NEW B \in SUBSET Nat, B # {}
  PROVE  \E b \in B : \A c \in B : b <= c
<1>1. PICK b \in B : \A c \in B : ~(c < b)
  BY OneRenamed!LeastExists
<1> QED BY <1>1

LEMMA ScoreIs ==
  ASSUME NEW log, LogHolds(log), NEW c, ArtifactHolds(log, c), NEW h \in RunHits(c, log)
  PROVE  Score(c, log, h) \in Nat /\ h[1] \in Nat /\ h[2] \in Nat /\ h = <<h[1], h[2]>>
<1>1. /\ h \in (DOMAIN c.segments) \X (DOMAIN log) /\ InWindow(c, log[h[2]].time)
  BY DEF RunHits
<1>2. DOMAIN c.segments = 1 .. Len(c.segments) /\ DOMAIN log = 1 .. Len(log) /\ c.row.time \in Nat
  BY ArtifactParts, LenProperties DEF LogHolds
<1>3. h[1] \in DOMAIN c.segments /\ h[2] \in DOMAIN log /\ h = <<h[1], h[2]>>
  BY <1>1
<1>4. h[1] \in Nat /\ h[2] \in Nat
  BY <1>2, <1>3
<1>5. Window \in Nat
  BY ProvenanceConstants
<1>6. Gap(c, log[h[2]]) \in Nat
  BY <1>1, <1>2, <1>5 DEF InWindow, Gap
<1> QED BY <1>3, <1>4, <1>5, <1>6 DEF Score

\* Of the runs an artifact can be told with there is a best one.
LEMMA BestIs ==
  ASSUME NEW log, LogHolds(log), NEW c, ArtifactHolds(log, c), RunHits(c, log) # {}
  PROVE  /\ Best(c, log, RunHits(c, log)) \in RunHits(c, log)
         /\ \A o \in RunHits(c, log) : Score(c, log, Best(c, log, RunHits(c, log))) <= Score(c, log, o)
<1> DEFINE H == RunHits(c, log)
           low(h) == Score(c, log, h)
           A == {low(h) : h \in H}
<1>1. \A h \in H : low(h) \in Nat /\ h[1] \in Nat /\ h[2] \in Nat /\ h = <<h[1], h[2]>>
  BY ScoreIs
<1> HIDE DEF H, low
<1>2. PICK a \in A : \A b \in A : a <= b
  <2>1. A \in SUBSET Nat /\ A # {}
    BY <1>1 DEF H
  <2> HIDE DEF A
  <2> QED BY <2>1, LeastOf
<1> DEFINE B == {h[1] : h \in {k \in H : low(k) = a}}
<1>3. PICK i \in B : \A j \in B : i <= j
  <2>1. B \in SUBSET Nat /\ B # {}
    BY <1>1, <1>2
  <2> HIDE DEF B
  <2> QED BY <2>1, LeastOf
<1> DEFINE C == {h[2] : h \in {k \in H : low(k) = a /\ k[1] = i}}
<1>4. PICK m \in C : \A n \in C : m <= n
  <2>1. C \in SUBSET Nat /\ C # {}
    BY <1>1, <1>3
  <2> HIDE DEF C
  <2> QED BY <2>1, LeastOf
<1>5. PICK h \in H : low(h) = a /\ h[1] = i /\ h[2] = m
  BY <1>4
<1>6. \A o \in H \ {h} : \/ low(h) < low(o)
                         \/ low(h) = low(o) /\ (h[1] < o[1] \/ (h[1] = o[1] /\ h[2] < o[2]))
  <2> SUFFICES ASSUME NEW o \in H, o # h
               PROVE  \/ low(h) < low(o)
                      \/ low(h) = low(o) /\ (h[1] < o[1] \/ (h[1] = o[1] /\ h[2] < o[2]))
    OBVIOUS
  <2>1. low(o) \in Nat /\ o[1] \in Nat /\ o[2] \in Nat /\ low(h) \in Nat /\ h[1] \in Nat /\ h[2] \in Nat
    BY <1>1
  <2>2. low(h) <= low(o)
    BY <1>2, <1>5
  <2>3. low(o) = a => h[1] <= o[1]
    BY <1>3, <1>5
  <2>4. low(o) = a /\ o[1] = i => h[2] <= o[2]
    BY <1>4, <1>5
  <2>5. o[1] # h[1] \/ o[2] # h[2]
    BY <1>1
  <2> HIDE DEF A, B, C
  <2> QED BY <1>5, <2>1, <2>2, <2>3, <2>4, <2>5
<1> DEFINE best == Best(c, log, H)
<1>7. /\ best \in H
      /\ \A o \in H \ {best} : \/ low(best) < low(o)
                               \/ low(best) = low(o) /\ (best[1] < o[1] \/ (best[1] = o[1] /\ best[2] < o[2]))
  BY <1>6 DEF Best, low
<1> HIDE DEF best
<1>8. \A o \in H : low(best) <= low(o)
  BY <1>1, <1>7
<1> QED BY <1>7, <1>8 DEF H, low, best

\* A run and an artifact of one base are of one file, and so is the rest of the story.
LEMMA StoryOfOneFile ==
  ASSUME NEW log, LogHolds(log), Apart(log), NEW c, ArtifactHolds(log, c), NEW h \in RunHits(c, log),
         NEW r \in Escalated(Story(c, log, h))
  PROVE  r.file = c.row.file
<1> DEFINE g == Story(c, log, h)
           x == log[h[2]]
<1>1. /\ h[1] \in DOMAIN c.segments /\ h[2] \in DOMAIN log
      /\ Confidence(c.segments[h[1]].path, x.path) # None
  BY DEF RunHits
<1>2. /\ OfOneFile(log, c) /\ c.renames \in Seq(Pairs) /\ Len(c.renames) \in Nat
      /\ Len(c.segments) = Len(c.renames) + 1 /\ DOMAIN c.segments = 1 .. Len(c.segments)
      /\ DOMAIN c.renames = 1 .. Len(c.renames)
      /\ DOMAIN c.deletes = 1 .. Len(c.deletes) /\ Len(c.deletes) \in Nat
  BY ArtifactParts DEF ArtifactHolds
<1>3. x.file = c.row.file
  <2>1. c.segments[h[1]].path.base = x.path.base
    BY <1>1 DEF Confidence
  <2>2. Own(log, c.row.file, c.segments[h[1]].path) /\ Own(log, x.file, x.path)
    BY <1>1, <1>2, RowPaths DEF OfOneFile
  <2> QED BY <2>1, <2>2, SameBase
<1>4. /\ g.artifact = c.row /\ g.execution = x
      /\ g.chain = SubSeq(c.renames, 1, h[1] - 1) /\ g.deleted = DeleteAfter(c, x)
  BY DEF Story, Chain
<1> HIDE DEF x
<1>5. \A i \in DOMAIN g.chain : i \in DOMAIN c.renames /\ g.chain[i] = c.renames[i]
  <2>1. h[1] - 1 \in 0 .. Len(c.renames)
    BY <1>1, <1>2
  <2> DEFINE n == h[1] - 1
  <2>2. n \in 0 .. Len(c.renames) /\ n \in Nat
    BY <1>2, <2>1
  <2> HIDE DEF n
  <2>3. /\ DOMAIN SubSeq(c.renames, 1, n) = 1 .. n
        /\ \A i \in 1 .. n : SubSeq(c.renames, 1, n)[i] = c.renames[i]
    BY <1>2, <2>2
  <2> QED BY <1>2, <1>4, <2>2, <2>3 DEF n
<1>6. \A i \in DOMAIN g.deleted : \E j \in DOMAIN c.deletes : g.deleted[i] = c.deletes[j]
  <2> DEFINE after == {i \in DOMAIN c.deletes : x.time # None /\ c.deletes[i].time > x.time}
  <2>1. DeleteAfter(c, x) = IF after = {} THEN <<>> ELSE <<c.deletes[Min(after)]>>
    BY DEF DeleteAfter
  <2>2. after \in SUBSET Nat /\ after \subseteq DOMAIN c.deletes
    BY <1>2
  <2> HIDE DEF after
  <2>3. CASE after = {}
    <3>1. g.deleted = <<>>
      BY <1>4, <2>1, <2>3
    <3> HIDE DEF g
    <3> QED BY <3>1
  <2>4. CASE after # {}
    <3>1. Min(after) \in after
      BY <2>2, <2>4, LeastOf DEF Min
    <3>2. g.deleted = <<c.deletes[Min(after)]>>
      BY <1>4, <2>1, <2>4
    <3> HIDE DEF g
    <3>3. DOMAIN g.deleted = {1} /\ g.deleted[1] = c.deletes[Min(after)]
      BY <3>2
    <3> QED BY <2>2, <3>1, <3>3
  <2> QED BY <2>3, <2>4
<1> HIDE DEF g
<1>7. \/ r \in {g.artifact, g.execution} \/ \E i \in DOMAIN g.chain : r = g.chain[i].row
      \/ \E i \in DOMAIN g.deleted : r = g.deleted[i]
  BY DEF Escalated, g
<1>8. /\ \A k \in DOMAIN c.renames : c.renames[k].row.file = c.row.file
      /\ \A k \in DOMAIN c.deletes : c.deletes[k].file = c.row.file
  BY <1>2 DEF OfOneFile
<1>9. CASE r \in {g.artifact, g.execution}
  BY <1>3, <1>4, <1>9
<1>10. CASE \E i \in DOMAIN g.chain : r = g.chain[i].row
  BY <1>5, <1>8, <1>10
<1>11. CASE \E i \in DOMAIN g.deleted : r = g.deleted[i]
  BY <1>6, <1>8, <1>11
<1> QED BY <1>7, <1>9, <1>10, <1>11

LEMMA ToldOfOneFile ==
  ASSUME NEW log, LogHolds(log), Apart(log), NEW i \in DOMAIN Stories(log), NEW r \in Escalated(Stories(log)[i])
  PROVE  r.file = Stories(log)[i].artifact.file
<1> DEFINE cs == Lifecycles(log)
           ran == {k \in DOMAIN cs : RunHits(cs[k], log) # {}}
           story == [k \in ran |-> Story(cs[k], log, Best(cs[k], log, RunHits(cs[k], log)))]
           g == Stories(log)[i]
<1>1. Stories(log) = [k \in {l \in ran : Told(story[l])} |-> story[k]]
  BY DEF Stories, ToldOf
<1> HIDE DEF cs, story
<1>2. i \in ran /\ g = story[i]
  BY <1>1
<1> HIDE DEF g
<1>3. g = Story(cs[i], log, Best(cs[i], log, RunHits(cs[i], log)))
  BY <1>2 DEF story
<1>4. i \in DOMAIN cs /\ RunHits(cs[i], log) # {}
  BY <1>2
<1>5. ArtifactHolds(log, cs[i])
  BY <1>4, LifecyclesHold DEF cs
<1>6. Best(cs[i], log, RunHits(cs[i], log)) \in RunHits(cs[i], log)
  BY <1>4, <1>5, BestIs
<1>7. r \in Escalated(Story(cs[i], log, Best(cs[i], log, RunHits(cs[i], log))))
  BY <1>3 DEF g
<1>8. r.file = cs[i].row.file
  BY <1>5, <1>6, <1>7, StoryOfOneFile
<1>9. g.artifact = cs[i].row
  BY <1>3 DEF Story
<1> QED BY <1>8, <1>9 DEF g

\* While no two files ever had one name, nothing that is told of where a program came
\* from, and no row raised with it, mixes two files: with file references whatever rows
\* are missing; without them, where no row is missing and the rows of a rename lie together.
THEOREM NeverForeignLinks == OriginSpec => []NoForeignLinks
<1>1. RowsInv /\ NamesTellFilesApart /\ (telemetry = "bare" => ~missing) => Apart(rows)
  BY RowsTogether DEF NamesTellFilesApart, Apart
<1>2. RowsInv => NoForeignLinks
  <2> SUFFICES ASSUME RowsInv, NamesTellFilesApart, telemetry = "bare" => ~missing,
                      NEW g \in Range(Stories(rows)), NEW r \in Escalated(g)
               PROVE  r.file = g.artifact.file
    BY DEF NoForeignLinks
  <2>1. PICK i \in DOMAIN Stories(rows) : g = Stories(rows)[i]
    BY DEF Range
  <2> QED BY <2>1, <1>1, RowsInvHolds, ToldOfOneFile
<1> QED BY <1>2, RowsInvariant, PTL

-----------------------------------------------------------------------------
(* Where a download went: its history, and what the journal says of it. *)

\* The rename of a pair is the one that ended a stay.
MovedBy(h, v, rn) == rn.old = h[v - 1].path /\ rn.new = h[v].path /\ rn.time = h[v].since

\* A time in a stay, between two moves.
During(h, v, time) ==
  /\ h[v].path # None /\ h[v].since < time
  /\ v + 1 \in DOMAIN h => time < h[v + 1].since

\* The stays of a file follow each other, and only the last can be that of a deleted one.
StaysFollow(h) ==
  /\ \A v, w \in DOMAIN h : v < w => h[v].since < h[w].since
  /\ \A v \in DOMAIN h : v + 1 \in DOMAIN h => h[v].path # None /\ h[v + 1].path # h[v].path

\* The pairs of a file are its moves: none is missing, none is of something else.
PairsTrace(pairs, f, h) ==
  /\ \A k \in DOMAIN pairs : pairs[k].row.file = f => \E v \in DOMAIN h : v > 1 /\ MovedBy(h, v, pairs[k])
  /\ \A v \in DOMAIN h : v > 1 /\ h[v].path # None =>
       \E k \in DOMAIN pairs : pairs[k].row.file = f /\ pairs[k].time = h[v].since

\* A download is the first row of its file, and its runs name where the file was.
RowsTrace(log, i, h) ==
  /\ 1 \in DOMAIN h /\ h[1].path = log[i].path /\ h[1].since = log[i].time
  /\ \A k \in DOMAIN log : log[k].file = log[i].file => k >= i
  /\ \A j \in DOMAIN log : log[j].kind = "run" /\ log[j].file = log[i].file /\ log[j].time # None =>
       \E v \in DOMAIN h : During(h, v, log[j].time) /\ log[j].path \in {h[v].path, NameOnly(h[v].path)}

PairsSorted(pairs) == \A k, l \in DOMAIN pairs : k <= l => pairs[k].time <= pairs[l].time

Traced(log, pairs, i, h) ==
  StaysFollow(h) /\ PairsTrace(pairs, log[i].file, h) /\ RowsTrace(log, i, h)

\* Nothing recorded is of a time to come.
Past(log, f, h, now) ==
  /\ \A v \in DOMAIN h : h[v].since \in 0 .. now - 1
  /\ \A j \in DOMAIN log : log[j].file = f /\ log[j].time # None => log[j].time \in 0 .. now - 1

TraceInv ==
  /\ PairsSorted(Renames(rows)) /\ \A k \in DOMAIN Renames(rows) : Renames(rows)[k].time \in 0 .. clock - 1
  /\ \A j \in DOMAIN rows : history[rows[j].file] # <<>>
  /\ \A i \in DOMAIN rows : rows[i].kind = "download" =>
       LET h == history[rows[i].file]
       IN Traced(rows, Renames(rows), i, h) /\ Past(rows, rows[i].file, h, clock)

\* What holds from the least number on, step by step.
LEMMA Upward ==
  ASSUME NEW n \in Nat, NEW B, 0 \in B, \A m \in 0 .. n - 1 : m \in B => m + 1 \in B
  PROVE  \A m \in 0 .. n : m \in B
<1> DEFINE C == {m \in 0 .. n : m \notin B}
<1> SUFFICES ASSUME C # {} PROVE FALSE
  OBVIOUS
<1>1. C \in SUBSET Nat
  OBVIOUS
<1> HIDE DEF C
<1>2. PICK b \in C : \A d \in C : b <= d
  BY <1>1, LeastOf
<1>3. b \in 0 .. n /\ b \notin B /\ b # 0
  BY <1>2 DEF C
<1>4. b - 1 \in 0 .. n - 1 /\ b - 1 \in 0 .. n /\ (b - 1) + 1 = b /\ ~(b <= b - 1)
  BY <1>3
<1>5. b - 1 \in B
  BY <1>2, <1>4 DEF C
<1> QED BY <1>3, <1>4, <1>5

LEMMA StayParts ==
  ASSUME NEW h \in Seq(Stays), StaysFollow(h)
  PROVE  /\ Len(h) \in Nat /\ DOMAIN h = 1 .. Len(h)
         /\ \A v \in DOMAIN h : v \in Nat /\ h[v].since \in Nat /\ h[v].path \in Path \cup {None}
         /\ \A v, w \in DOMAIN h : h[v].since <= h[w].since <=> v <= w
<1>1. Len(h) \in Nat /\ DOMAIN h = 1 .. Len(h) /\ \A v \in DOMAIN h : h[v] \in Stays
  BY LenProperties
<1>2. \A v \in DOMAIN h : v \in Nat /\ h[v].since \in Nat /\ h[v].path \in Path \cup {None}
  BY <1>1 DEF Stays
<1>3. ASSUME NEW v \in DOMAIN h, NEW w \in DOMAIN h
      PROVE  h[v].since <= h[w].since <=> v <= w
  <2>1. v < w => h[v].since < h[w].since
    BY DEF StaysFollow
  <2>2. w < v => h[w].since < h[v].since
    BY DEF StaysFollow
  <2> QED BY <1>2, <2>1, <2>2
<1> QED BY <1>1, <1>2, <1>3

\* What is given: a log, the history of a file, and an artifact made of its download.
Tracks(log, h, c) ==
  /\ LogHolds(log) /\ h \in Seq(Stays) /\ StaysFollow(h) /\ PairsSorted(Renames(log))
  /\ PairsTrace(Renames(log), c.row.file, h)
  /\ 1 \in DOMAIN h /\ h[1].since = c.row.time /\ h[1].path = c.row.path
  /\ ArtifactHolds(log, c)

\* The segments are stays in their order, none left out, as far as the pairs go.
TrailHolds(log, h, m, c) ==
  LET ss == c.segments last == Len(c.segments) pairs == Renames(log)
  IN /\ \A k \in DOMAIN ss : \E v \in DOMAIN h : ss[k].path = h[v].path /\ ss[k].start = h[v].since
     /\ ss[1].start = h[1].since /\ ss[last].end = None
     /\ \A k \in DOMAIN c.renames :
          /\ c.renames[k].new = ss[k + 1].path /\ ss[k].end = ss[k + 1].start /\ ss[k].start <= ss[k + 1].start
          /\ \A v \in DOMAIN h : ~(ss[k].start < h[v].since /\ h[v].since < ss[k + 1].start)
     /\ \A k \in 1 .. m : pairs[k].row.file = c.row.file /\ InWindow(c, pairs[k].time) =>
                             pairs[k].time <= ss[last].start
     /\ ss[last].start = h[1].since \/ \E k \in 1 .. m : pairs[k].time = ss[last].start

\* The next pair of the file is of its last move or of the one after it.
LEMMA NextMove ==
  ASSUME NEW log, NEW h, NEW c, Tracks(log, h, c), NEW m \in 0 .. Len(Renames(log)) - 1, TrailHolds(log, h, m, c),
         Renames(log)[m + 1].row.file = c.row.file, InWindow(c, Renames(log)[m + 1].time),
         NEW u \in DOMAIN h, c.segments[Len(c.segments)].start = h[u].since
  PROVE  \E v \in {u, u + 1} : v \in DOMAIN h /\ v > 1 /\ MovedBy(h, v, Renames(log)[m + 1])
<1> DEFINE pairs == Renames(log)
           rn == pairs[m + 1]
           start == c.segments[Len(c.segments)].start
<1>1. /\ Len(pairs) \in Nat /\ DOMAIN pairs = 1 .. Len(pairs) /\ \A k \in DOMAIN pairs : pairs[k].time \in Nat
  <2>1. pairs \in Seq(Pairs)
    BY RenamesHold DEF Tracks
  <2> HIDE DEF pairs
  <2>2. Len(pairs) \in Nat /\ DOMAIN pairs = 1 .. Len(pairs) /\ \A k \in DOMAIN pairs : pairs[k] \in Pairs
    BY <2>1, LenProperties
  <2> QED BY <2>2 DEF Pairs
<1>2. m + 1 \in DOMAIN pairs /\ m \in Nat
  BY <1>1
<1>3. PICK v \in DOMAIN h : v > 1 /\ MovedBy(h, v, rn)
  BY <1>2 DEF Tracks, PairsTrace
<1>4. /\ DOMAIN h = 1 .. Len(h) /\ Len(h) \in Nat
      /\ \A w \in DOMAIN h : w \in Nat /\ h[w].since \in Nat
      /\ \A w, x \in DOMAIN h : h[w].since <= h[x].since <=> w <= x
  BY StayParts DEF Tracks
<1>5. rn.time = h[v].since
  BY <1>3 DEF MovedBy
<1>6. 1 \in DOMAIN h /\ h[1].since = c.row.time /\ c.row.time \in Nat
  BY DEF Tracks, ArtifactHolds
<1>7. Window \in Nat /\ None \notin Nat
  BY <1>4, <1>6, ProvenanceConstants
<1>8. h[u].since <= rn.time
  <2>1. start = h[1].since \/ \E k \in 1 .. m : pairs[k].time = start
    BY DEF TrailHolds
  <2>2. CASE start = h[1].since
    BY <1>4, <1>5, <1>6, <2>2
  <2>3. ASSUME NEW k \in 1 .. m, pairs[k].time = start PROVE h[u].since <= rn.time
    <3>1. k \in DOMAIN pairs /\ k <= m + 1
      BY <1>1, <1>2
    <3> QED BY <1>2, <2>3, <3>1 DEF Tracks, PairsSorted
  <2> QED BY <2>1, <2>2, <2>3
<1>9. u <= v
  BY <1>4, <1>5, <1>8
<1>10. ASSUME u + 1 < v PROVE FALSE
  <2>1. u + 1 \in DOMAIN h /\ u + 1 > 1 /\ (u + 1) + 1 \in DOMAIN h
    BY <1>4, <1>10
  <2>2. h[u + 1].path # None
    BY <2>1 DEF Tracks, StaysFollow
  <2>3. PICK k \in DOMAIN pairs : pairs[k].row.file = c.row.file /\ pairs[k].time = h[u + 1].since
    BY <2>1, <2>2 DEF Tracks, PairsTrace
  <2>4. h[u + 1].since < rn.time /\ h[1].since <= h[u + 1].since /\ h[u].since < h[u + 1].since
    <3>1. /\ h[u + 1].since \in Nat /\ h[v].since \in Nat /\ h[u].since \in Nat
          /\ ~(h[v].since <= h[u + 1].since) /\ ~(h[u + 1].since <= h[u].since)
          /\ h[1].since <= h[u + 1].since
      <4>1. u \in Nat /\ v \in Nat /\ ~(v <= u + 1) /\ ~(u + 1 <= u) /\ 1 <= u + 1
        BY <1>4, <1>10
      <4> DEFINE w == u + 1
      <4>2. w \in DOMAIN h
        BY <2>1
      <4> HIDE DEF w
      <4>3. /\ h[w].since \in Nat /\ h[v].since \in Nat /\ h[u].since \in Nat
            /\ h[v].since <= h[w].since <=> v <= w
            /\ h[w].since <= h[u].since <=> w <= u
            /\ h[1].since <= h[w].since <=> 1 <= w
        BY <1>4, <1>6, <4>2
      <4> QED BY <4>1, <4>3 DEF w
    <3> QED BY <1>5, <3>1
  <2>5. k \in 1 .. m
    <3>1. m + 1 <= k => rn.time <= pairs[k].time
      BY <1>2 DEF Tracks, PairsSorted
    <3>2. /\ pairs[k].time \in Nat /\ rn.time \in Nat /\ pairs[k].time < rn.time
          /\ k \in Nat /\ k >= 1
      BY <1>1, <1>2, <2>3, <2>4
    <3>3. ~(m + 1 <= k)
      BY <3>1, <3>2
    <3> QED BY <1>2, <3>2, <3>3
  <2>6. InWindow(c, pairs[k].time)
    <3>1. rn.time \in c.row.time .. c.row.time + Window
      BY <1>4, <1>5, <1>7 DEF InWindow
    <3>2. pairs[k].time \in Nat /\ rn.time \in Nat /\ c.row.time <= pairs[k].time /\ pairs[k].time < rn.time
      BY <1>1, <1>2, <1>6, <2>3, <2>4
    <3>3. pairs[k].time \in c.row.time .. c.row.time + Window
      BY <1>6, <1>7, <3>1, <3>2
    <3> QED BY <3>3 DEF InWindow
  <2>7. pairs[k].time <= start
    BY <2>3, <2>5, <2>6 DEF TrailHolds
  <2> QED BY <1>4, <2>1, <2>3, <2>4, <2>7
<1> QED BY <1>3, <1>4, <1>9, <1>10

LEMMA TrailStart ==
  ASSUME NEW log, NEW h, NEW c, Tracks(log, h, c), c.renames = <<>>, Len(c.segments) = 1,
         c.segments[1] = [path |-> c.row.path, start |-> c.row.time, end |-> None]
  PROVE  TrailHolds(log, h, 0, c)
<1>1. DOMAIN c.segments = {1} /\ DOMAIN c.renames = {}
  <2>1. c.segments \in Seq(Segments)
    BY ArtifactParts DEF Tracks
  <2> QED BY <2>1, LenProperties
<1> QED BY <1>1 DEF TrailHolds, Tracks

\* What a pair makes of the trail, whether it matches or not.
LEMMA TrailStep ==
  ASSUME NEW log, NEW h, NEW c, Tracks(log, h, c), Apart(log),
         NEW m \in 0 .. Len(Renames(log)) - 1, TrailHolds(log, h, m, c)
  PROVE  LET d == OfferRename(c, Renames(log)[m + 1])
         IN Tracks(log, h, d) /\ d.row = c.row /\ TrailHolds(log, h, m + 1, d)
<1> DEFINE pairs == Renames(log)
           rn == pairs[m + 1]
           n == Len(c.segments)
           d == OfferRename(c, rn)
<1>1. m + 1 \in DOMAIN pairs /\ m \in Nat /\ PairHolds(log, rn)
  <2>1. pairs \in Seq(Pairs) /\ \A k \in DOMAIN pairs : PairHolds(log, pairs[k])
    BY RenamesHold DEF Tracks
  <2> HIDE DEF pairs
  <2>2. Len(pairs) \in Nat /\ DOMAIN pairs = 1 .. Len(pairs)
    BY <2>1, LenProperties
  <2>3. m + 1 \in DOMAIN pairs /\ m \in Nat
    BY <2>2 DEF pairs
  <2> QED BY <2>1, <2>3
<1>2. /\ ArtifactHolds(log, c) /\ n \in DOMAIN c.segments /\ DOMAIN c.segments = 1 .. n /\ n \in Nat
      /\ n = Len(c.renames) + 1 /\ DOMAIN c.renames = 1 .. Len(c.renames) /\ Len(c.renames) \in Nat
      /\ Current(c) = c.segments[n].path /\ c.renames \in Seq(Pairs)
  BY ArtifactParts DEF Tracks
<1>3. PICK u \in DOMAIN h : c.segments[n].path = h[u].path /\ c.segments[n].start = h[u].since
  BY <1>2 DEF TrailHolds
<1>4. /\ \A w \in DOMAIN h : w \in Nat /\ h[w].since \in Nat
      /\ \A w, x \in DOMAIN h : h[w].since <= h[x].since <=> w <= x
  BY StayParts DEF Tracks
<1>5. ASSUME rn.row.file = c.row.file, InWindow(c, rn.time)
      PROVE  \E v \in {u, u + 1} : v \in DOMAIN h /\ v > 1 /\ MovedBy(h, v, rn)
  BY <1>3, <1>5, NextMove
<1>6. CASE ~(InWindow(c, rn.time) /\ MatchesRename(c, rn))
  <2>1. d = c
    BY <1>6 DEF OfferRename
  <2>2. ASSUME rn.row.file = c.row.file, InWindow(c, rn.time)
        PROVE  rn.time <= c.segments[n].start
    <3>1. PICK v \in {u, u + 1} : v \in DOMAIN h /\ v > 1 /\ MovedBy(h, v, rn)
      BY <1>5, <2>2
    <3>2. CASE v = u + 1
      <4>1. v - 1 = u
        BY <1>4, <3>2
      <4>2. rn.old = Current(c)
        BY <1>2, <1>3, <3>1, <4>1 DEF MovedBy
      <4> QED BY <1>6, <2>2, <4>2 DEF MatchesRename
    <3>3. CASE v = u
      BY <1>3, <1>4, <3>1, <3>3 DEF MovedBy
    <3> QED BY <3>1, <3>2, <3>3
  <2>3. \A k \in 1 .. m + 1 : k \in 1 .. m \/ k = m + 1
    BY <1>1
  <2>4. \A k \in 1 .. m : k \in 1 .. m + 1
    BY <1>1
  <2>5. TrailHolds(log, h, m + 1, c)
    BY <2>2, <2>3, <2>4 DEF TrailHolds
  <2> QED BY <2>1, <2>5
<1>7. CASE InWindow(c, rn.time) /\ MatchesRename(c, rn)
  <2>1. d = Renamed(c, rn)
    BY <1>7 DEF OfferRename
  <2>2. rn.row.file = c.row.file
    BY <1>1, <1>2, <1>7, RenameOfOneFile
  <2>3. PICK v \in {u, u + 1} : v \in DOMAIN h /\ v > 1 /\ MovedBy(h, v, rn)
    BY <1>5, <1>7, <2>2
  <2>4. ArtifactHolds(log, d)
    BY <1>1, <1>2, <1>7, <2>1, RenamedHolds
  <2>5. /\ d.row = c.row /\ d.renames = Append(c.renames, rn) /\ Len(d.segments) = n + 1
        /\ d.segments[n + 1] = [path |-> rn.new, start |-> rn.time, end |-> None]
        /\ \A k \in DOMAIN c.segments :
             /\ d.segments[k].path = c.segments[k].path /\ d.segments[k].start = c.segments[k].start
             /\ d.segments[k].end = IF k = n THEN rn.time ELSE c.segments[k].end
    <3> HIDE DEF d, rn
    <3>1. LET e == Renamed(c, rn) IN
          /\ e.row = c.row /\ e.renames = Append(c.renames, rn) /\ Len(e.segments) = n + 1
          /\ e.segments[n + 1] = [path |-> rn.new, start |-> rn.time, end |-> None]
          /\ \A k \in DOMAIN c.segments :
               /\ e.segments[k].path = c.segments[k].path /\ e.segments[k].start = c.segments[k].start
               /\ e.segments[k].end = IF k = n THEN rn.time ELSE c.segments[k].end
      <4>1. ArtifactHolds(log, c) /\ PairHolds(log, rn)
        BY <1>1, <1>2
      <4> QED BY <4>1, RenamedParts DEF NextStay
    <3> HIDE DEF n
    <3> QED BY <2>1, <3>1
  <2>6. DOMAIN d.segments = 1 .. n + 1 /\ DOMAIN d.renames = 1 .. n
        /\ d.renames[n] = rn /\ \A k \in 1 .. n - 1 : d.renames[k] = c.renames[k]
    <3>1. rn \in Pairs
      BY <1>1 DEF PairHolds
    <3>2. DOMAIN d.segments = 1 .. Len(d.segments) /\ DOMAIN d.renames = 1 .. Len(d.renames)
      BY <2>4, ArtifactParts
    <3> HIDE DEF d, rn, n
    <3>3. /\ Append(c.renames, rn) \in Seq(Pairs) /\ Len(Append(c.renames, rn)) = Len(c.renames) + 1
          /\ Append(c.renames, rn)[Len(c.renames) + 1] = rn
          /\ \A k \in 1 .. Len(c.renames) : Append(c.renames, rn)[k] = c.renames[k]
      BY <1>2, <3>1, AppendProperties
    <3> QED BY <1>2, <2>5, <3>2, <3>3
  <2>7. /\ rn.new = h[v].path /\ rn.time = h[v].since /\ v \in DOMAIN h /\ h[u].since <= h[v].since
        /\ \A w \in DOMAIN h : ~(h[u].since < h[w].since /\ h[w].since < h[v].since)
    <3>1. rn.new = h[v].path /\ rn.time = h[v].since /\ v \in DOMAIN h
      BY <2>3 DEF MovedBy
    <3>2. u \in Nat /\ v \in Nat /\ u <= v
      BY <1>4, <2>3
    <3>3. h[u].since <= h[v].since
      BY <1>4, <3>1, <3>2
    <3>4. ASSUME NEW w \in DOMAIN h, h[u].since < h[w].since, h[w].since < h[v].since PROVE FALSE
      <4>1. h[u].since \in Nat /\ h[w].since \in Nat /\ h[v].since \in Nat /\ w \in Nat
        BY <1>4, <3>1
      <4>2. ~(h[w].since <= h[u].since) /\ ~(h[v].since <= h[w].since)
        BY <3>4, <4>1
      <4>3. ~(w <= u) /\ ~(v <= w)
        BY <1>4, <3>1, <4>2
      <4> QED BY <2>3, <3>2, <4>1, <4>3
    <3> QED BY <3>1, <3>3, <3>4
  <2>8. Tracks(log, h, d)
    BY <2>4, <2>5 DEF Tracks
  <2> HIDE DEF d, n, rn
  <2>9. 1 \in 1 .. n /\ n + 1 \in 1 .. n + 1 /\ n + 1 \notin 1 .. n /\ \A k \in 1 .. n + 1 : k \in 1 .. n \/ k = n + 1
    BY <1>2
  <2>10. \A k \in DOMAIN d.segments : \E w \in DOMAIN h : d.segments[k].path = h[w].path /\ d.segments[k].start = h[w].since
    <3>1. \A k \in 1 .. n : \E w \in DOMAIN h : c.segments[k].path = h[w].path /\ c.segments[k].start = h[w].since
      BY <1>2 DEF TrailHolds
    <3> QED BY <1>2, <2>5, <2>6, <2>7, <2>9, <3>1
  <2>11. d.segments[1].start = h[1].since /\ d.segments[n + 1].end = None
    BY <1>2, <2>5, <2>9 DEF TrailHolds
  <2>12. ASSUME NEW k \in DOMAIN d.renames
         PROVE  /\ d.renames[k].new = d.segments[k + 1].path /\ d.segments[k].end = d.segments[k + 1].start
                /\ d.segments[k].start <= d.segments[k + 1].start
                /\ \A w \in DOMAIN h : ~(d.segments[k].start < h[w].since /\ h[w].since < d.segments[k + 1].start)
    <3>1. CASE k = n
      <4>1. d.renames[k] = rn /\ k \in DOMAIN c.segments /\ k + 1 = n + 1
        BY <1>2, <2>6, <3>1
      <4>2. d.segments[k + 1].path = rn.new /\ d.segments[k + 1].start = rn.time
        BY <2>5, <3>1
      <4>3. d.segments[k].start = h[u].since /\ d.segments[k].end = rn.time
        BY <1>3, <2>5, <3>1, <4>1
      <4> QED BY <2>7, <4>1, <4>2, <4>3
    <3>2. CASE k \in 1 .. n - 1
      <4>1. k \in DOMAIN c.renames /\ k \in 1 .. n /\ k + 1 \in 1 .. n /\ k # n
        BY <1>2, <3>2
      <4>2. /\ c.renames[k].new = c.segments[k + 1].path /\ c.segments[k].end = c.segments[k + 1].start
            /\ c.segments[k].start <= c.segments[k + 1].start
            /\ \A w \in DOMAIN h : ~(c.segments[k].start < h[w].since /\ h[w].since < c.segments[k + 1].start)
        BY <4>1 DEF TrailHolds
      <4>3. /\ d.renames[k] = c.renames[k] /\ d.segments[k].start = c.segments[k].start /\ d.segments[k].end = c.segments[k].end
            /\ d.segments[k + 1].path = c.segments[k + 1].path /\ d.segments[k + 1].start = c.segments[k + 1].start
        BY <1>2, <2>5, <2>6, <3>2, <4>1
      <4> QED BY <4>2, <4>3
    <3> QED BY <1>2, <2>6, <3>1, <3>2
  <2>13. ASSUME NEW k \in 1 .. m + 1, pairs[k].row.file = d.row.file, InWindow(d, pairs[k].time)
         PROVE  pairs[k].time <= d.segments[n + 1].start
    <3>1. d.segments[n + 1].start = h[v].since /\ h[v].since \in Nat /\ h[u].since \in Nat
      BY <1>4, <2>5, <2>7
    <3>2. CASE k = m + 1
      BY <2>7, <3>1, <3>2 DEF rn
    <3>3. CASE k \in 1 .. m
      <4>1. pairs[k].row.file = c.row.file /\ InWindow(c, pairs[k].time)
        BY <2>5, <2>13 DEF InWindow
      <4>2. pairs[k].time <= h[u].since
        BY <1>3, <3>3, <4>1 DEF TrailHolds, n
      <4>3. pairs[k].time \in Nat
        <5>1. pairs \in Seq(Pairs)
          BY RenamesHold DEF Tracks
        <5> HIDE DEF pairs
        <5>2. \A j \in DOMAIN pairs : pairs[j] \in Pairs
          BY <5>1, LenProperties
        <5>3. k \in DOMAIN pairs
          BY <1>1, <3>3, <5>1, LenProperties
        <5> QED BY <5>2, <5>3 DEF Pairs
      <4> HIDE DEF pairs
      <4> QED BY <2>7, <3>1, <4>2, <4>3
    <3> QED BY <1>1, <3>2, <3>3
  <2>14. \E k \in 1 .. m + 1 : pairs[k].time = d.segments[n + 1].start
    <3>1. m + 1 \in 1 .. m + 1
      BY <1>1
    <3> QED BY <2>5, <3>1 DEF rn
  <2>15. TrailHolds(log, h, m + 1, d)
    BY <2>5, <2>10, <2>11, <2>12, <2>13, <2>14 DEF TrailHolds
  <2> QED BY <2>5, <2>8, <2>15 DEF d, rn
<1> QED BY <1>6, <1>7

\* The renames lead the artifact of a download along the stays of the file.
LEMMA TrailRenamed ==
  ASSUME NEW log, LogHolds(log), Apart(log), PairsSorted(Renames(log)),
         NEW i \in DOMAIN log, log[i].kind = "download", NEW h \in Seq(Stays), Traced(log, Renames(log), i, h)
  PROVE  LET c == AfterRenames(log, i, Len(Renames(log)))
         IN i \in DOMAIN Candidates(log) /\ Tracks(log, h, c) /\ c.row = log[i] /\ TrailHolds(log, h, Len(Renames(log)), c)
<1> DEFINE n == Len(Renames(log))
           After(m) == AfterRenames(log, i, m)
           Good(m) == Tracks(log, h, After(m)) /\ After(m).row = log[i] /\ TrailHolds(log, h, m, After(m))
           B == {m \in 0 .. n : Good(m)}
<1>1. n \in Nat
  BY RenamesHold, LenProperties
<1>2. \A m : m \in Nat => After(m + 1) = OfferRename(After(m), Renames(log)[m + 1])
  BY TurnPicks, OneRenamed!FoldInOrder DEF AfterRenames, RenameOffered
<1>3. After(0) = Candidate(log[i]) /\ i \in DOMAIN Candidates(log)
  <2>1. After(0) = Candidates(log)[i]
    BY TurnPicks, OneRenamed!FoldInOrder DEF AfterRenames
  <2> QED BY <2>1 DEF Candidates, Brings
<1> HIDE DEF After
<1>4. Good(0)
  <2> DEFINE c == Candidate(log[i])
  <2>1. ArtifactHolds(log, c)
    BY ArtifactBrought DEF Brings
  <2>2. c.row = log[i] /\ c.renames = <<>> /\ c.segments = <<[path |-> log[i].path, start |-> log[i].time, end |-> None]>>
    BY DEF Candidate, Segment
  <2> HIDE DEF c
  <2>3. Tracks(log, h, c)
    BY <2>1, <2>2 DEF Tracks, Traced, RowsTrace
  <2>4. Len(c.segments) = 1 /\ c.segments[1] = [path |-> c.row.path, start |-> c.row.time, end |-> None]
    BY <2>2
  <2>5. TrailHolds(log, h, 0, c)
    BY <2>2, <2>3, <2>4, TrailStart
  <2> QED BY <1>3, <2>2, <2>3, <2>5 DEF c
<1>5. ASSUME NEW m \in 0 .. n - 1, Good(m) PROVE Good(m + 1)
  <2>1. m \in Nat
    BY <1>1
  <2>2. After(m + 1) = OfferRename(After(m), Renames(log)[m + 1])
    BY <1>2, <2>1
  <2> HIDE DEF n
  <2>3. LET d == OfferRename(After(m), Renames(log)[m + 1])
        IN Tracks(log, h, d) /\ d.row = After(m).row /\ TrailHolds(log, h, m + 1, d)
    <3>1. m \in 0 .. Len(Renames(log)) - 1
      BY DEF n
    <3> QED BY <1>5, <3>1, TrailStep
  <2> QED BY <1>5, <2>2, <2>3
<1>6. 0 \in B /\ \A m \in 0 .. n - 1 : m \in B => m + 1 \in B
  <2>1. 0 \in 0 .. n /\ \A m \in 0 .. n - 1 : m + 1 \in 0 .. n
    BY <1>1
  <2> HIDE DEF n, Good
  <2> QED BY <1>4, <1>5, <2>1
<1>7. n \in B
  <2>1. n \in 0 .. n
    BY <1>1
  <2> HIDE DEF B, n
  <2> QED BY <1>1, <1>6, <2>1, Upward
<1> QED BY <1>3, <1>7 DEF After

\* No row of a deletion moves an artifact.
LEMMA DeletesStay ==
  ASSUME NEW log, LogHolds(log), NEW i, NEW h, Tracks(log, h, AfterRenames(log, i, Len(Renames(log)))),
         NEW m \in 0 .. Len(log)
  PROVE  LET c == AfterRenames(log, i, Len(Renames(log))) d == AfterDeletes(log, i, m)
         IN ArtifactHolds(log, d) /\ d.row = c.row /\ d.segments = c.segments /\ d.renames = c.renames
<1> DEFINE n == Len(log)
           c == AfterRenames(log, i, Len(Renames(log)))
           After(l) == AfterDeletes(log, i, l)
           Same(d) == ArtifactHolds(log, d) /\ d.row = c.row /\ d.segments = c.segments /\ d.renames = c.renames
           B == {l \in 0 .. n : Same(After(l))}
<1>1. n \in Nat /\ DOMAIN log = 1 .. n
  BY LenProperties DEF LogHolds
<1>2. \A l : l \in Nat => After(l + 1) = OfferDelete(After(l), log[l + 1])
  BY TurnPicks, OneDeleted!FoldInOrder DEF AfterDeletes, DeleteOffered
<1>3. After(0) = c
  BY TurnPicks, OneDeleted!FoldInOrder DEF AfterDeletes
<1> HIDE DEF After, c
<1>4. Same(After(0))
  BY <1>3 DEF Tracks, c
<1>5. ASSUME NEW l \in 0 .. n - 1, Same(After(l)) PROVE Same(After(l + 1))
  <2>1. l \in Nat /\ l + 1 \in DOMAIN log
    BY <1>1
  <2>2. After(l + 1) = OfferDelete(After(l), log[l + 1])
    BY <1>2, <2>1
  <2>3. CASE Deletes(log[l + 1]) /\ InWindow(After(l), log[l + 1].time) /\ MatchesDelete(After(l), log[l + 1])
    <3> DEFINE d == After(l)
    <3>1. ArtifactHolds(log, d) /\ MatchesDelete(d, log[l + 1]) /\ LogRowHolds(log[l + 1])
      BY <1>5, <2>1, <2>3, RowPaths
    <3>2. ArtifactHolds(log, Deleted(d, log[l + 1]))
      BY <2>1, <3>1, DeletedHolds
    <3>3. LET e == Deleted(d, log[l + 1]) IN e.row = d.row /\ e.renames = d.renames /\ e.segments = d.segments
      BY <3>1, DeletedParts
    <3>4. After(l + 1) = Deleted(d, log[l + 1])
      BY <2>2, <2>3 DEF OfferDelete
    <3> QED BY <1>5, <3>2, <3>3, <3>4
  <2>4. CASE ~(Deletes(log[l + 1]) /\ InWindow(After(l), log[l + 1].time) /\ MatchesDelete(After(l), log[l + 1]))
    BY <1>5, <2>2, <2>4 DEF OfferDelete
  <2> QED BY <2>3, <2>4
<1>6. 0 \in B /\ \A l \in 0 .. n - 1 : l \in B => l + 1 \in B
  <2>1. 0 \in 0 .. n /\ \A l \in 0 .. n - 1 : l + 1 \in 0 .. n
    BY <1>1
  <2> HIDE DEF n, Same
  <2> QED BY <1>4, <1>5, <2>1
<1>7. m \in B
  <2>1. m \in 0 .. n
    OBVIOUS
  <2> HIDE DEF B, n
  <2> QED BY <1>1, <1>6, <2>1, Upward
<1> QED BY <1>7 DEF After, c

LEMMA TrailOf ==
  ASSUME NEW log, LogHolds(log), Apart(log), PairsSorted(Renames(log)),
         NEW i \in DOMAIN log, log[i].kind = "download", NEW h \in Seq(Stays), Traced(log, Renames(log), i, h)
  PROVE  LET c == Lifecycles(log)[i]
         IN i \in DOMAIN Lifecycles(log) /\ Tracks(log, h, c) /\ c.row = log[i] /\ TrailHolds(log, h, Len(Renames(log)), c)
<1> DEFINE b == AfterRenames(log, i, Len(Renames(log)))
           c == Lifecycles(log)[i]
<1>1. i \in DOMAIN Candidates(log) /\ Tracks(log, h, b) /\ b.row = log[i] /\ TrailHolds(log, h, Len(Renames(log)), b)
  BY TrailRenamed
<1>2. DOMAIN log = 1 .. Len(log) /\ Len(log) \in Nat /\ DOMAIN Renames(log) = 1 .. Len(Renames(log))
  BY RenamesHold, LenProperties DEF LogHolds
<1>3. i \in DOMAIN Lifecycles(log) /\ c = AfterDeletes(log, i, Len(log))
  <2>1. Lifecycles(log) = Scanned(log)
    BY LifecyclesHold
  <2>2. Scanned(log) = [k \in DOMAIN Candidates(log) |-> AfterDeletes(log, k, Len(log))]
    BY <1>2, ScannedFold
  <2> QED BY <1>1, <2>1, <2>2
<1>4. ArtifactHolds(log, c) /\ c.row = b.row /\ c.segments = b.segments /\ c.renames = b.renames
  <2>1. Len(log) \in 0 .. Len(log)
    BY <1>2
  <2> QED BY <1>1, <1>3, <2>1, DeletesStay
<1> HIDE DEF b, c
<1>5. Tracks(log, h, c)
  BY <1>1, <1>4 DEF Tracks
<1>6. TrailHolds(log, h, Len(Renames(log)), c)
  BY <1>1, <1>4 DEF TrailHolds, InWindow
<1> QED BY <1>1, <1>3, <1>4, <1>5, <1>6 DEF c

\* A segment that a time of a stay is in tells that stay.
LEMMA SegmentOf ==
  ASSUME NEW log, NEW h, NEW c, Tracks(log, h, c), TrailHolds(log, h, Len(Renames(log)), c),
         NEW v \in DOMAIN h, NEW time \in Nat, During(h, v, time), InWindow(c, time),
         NEW k \in DOMAIN c.segments, SegmentActive(c.segments[k], time)
  PROVE  c.segments[k].path = h[v].path /\ c.segments[k].start = h[v].since
<1> DEFINE ss == c.segments
           last == Len(ss)
           pairs == Renames(log)
<1>1. /\ DOMAIN h = 1 .. Len(h) /\ Len(h) \in Nat
      /\ \A w \in DOMAIN h : w \in Nat /\ h[w].since \in Nat
      /\ \A w, x \in DOMAIN h : h[w].since <= h[x].since <=> w <= x
  BY StayParts DEF Tracks
<1>2. /\ DOMAIN ss = 1 .. last /\ last \in Nat /\ last = Len(c.renames) + 1 /\ Len(c.renames) \in Nat
      /\ DOMAIN c.renames = 1 .. Len(c.renames) /\ c.row.time \in Nat
      /\ \A l \in DOMAIN ss : ss[l].start \in Nat /\ ss[l].end \in Nat \cup {None}
  <2>1. \A l \in DOMAIN ss : ss[l] \in Segments
    BY ArtifactParts DEF Tracks
  <2>2. \A l \in DOMAIN ss : ss[l].start \in Nat /\ ss[l].end \in Nat \cup {None}
    BY <2>1 DEF Segments
  <2> QED BY <2>2, ArtifactParts DEF Tracks
<1>3. /\ \A l \in DOMAIN ss : \E w \in DOMAIN h : ss[l].path = h[w].path /\ ss[l].start = h[w].since
      /\ ss[last].end = None
      /\ \A l \in DOMAIN c.renames : /\ ss[l].end = ss[l + 1].start
           /\ \A w \in DOMAIN h : ~(ss[l].start < h[w].since /\ h[w].since < ss[l + 1].start)
      /\ \A l \in 1 .. Len(pairs) : pairs[l].row.file = c.row.file /\ InWindow(c, pairs[l].time) =>
                             pairs[l].time <= ss[last].start
  BY DEF TrailHolds
<1>4. None \notin Nat /\ Window \in Nat
  BY ProvenanceConstants
<1>5. ss[k].start <= time /\ (ss[k].end = None \/ time <= ss[k].end)
  BY <1>4 DEF SegmentActive
<1>6. h[v].path # None /\ h[v].since < time /\ (v + 1 \in DOMAIN h => time < h[v + 1].since)
  BY DEF During
<1>7. PICK u \in DOMAIN h : ss[k].path = h[u].path /\ ss[k].start = h[u].since
  BY <1>3
<1> HIDE DEF ss, last, pairs
<1>8. u <= v
  <2> SUFFICES ASSUME ~(u <= v) PROVE FALSE
    OBVIOUS
  <2> DEFINE w == v + 1
  <2>1. w \in DOMAIN h /\ w <= u
    BY <1>1
  <2>2. time < h[w].since /\ h[w].since <= h[u].since /\ h[w].since \in Nat /\ h[u].since \in Nat
    BY <1>1, <1>6, <2>1
  <2> HIDE DEF w
  <2> QED BY <1>5, <1>7, <2>2
<1>9. ASSUME u < v PROVE FALSE
  <2>1. h[u].since < h[v].since /\ h[v].since \in Nat /\ h[u].since \in Nat
    BY <1>1, <1>9
  <2>2. CASE k = last
    <3>1. v > 1
      BY <1>1, <1>9
    <3>2. PICK l \in DOMAIN pairs : pairs[l].row.file = c.row.file /\ pairs[l].time = h[v].since
      BY <1>6, <3>1 DEF Tracks, PairsTrace, pairs
    <3>3. DOMAIN pairs = 1 .. Len(pairs)
      <4>1. pairs \in Seq(Pairs)
        BY RenamesHold DEF Tracks, pairs
      <4> QED BY <4>1, LenProperties
    <3>4. h[1].since = c.row.time /\ h[1].since <= h[v].since
      BY <1>1 DEF Tracks
    <3>5. h[v].since \in c.row.time .. c.row.time + Window
      <4>1. time \in c.row.time .. c.row.time + Window
        BY <1>4 DEF InWindow
      <4> QED BY <1>2, <1>4, <1>6, <2>1, <3>4, <4>1
    <3>6. InWindow(c, pairs[l].time)
      BY <3>2, <3>5 DEF InWindow
    <3>7. h[v].since <= ss[last].start
      BY <1>3, <3>2, <3>3, <3>6
    <3> QED BY <1>7, <2>1, <2>2, <3>7
  <2>3. CASE k # last
    <3>1. k \in DOMAIN c.renames /\ k + 1 \in DOMAIN ss
      BY <1>2, <2>3 DEF ss
    <3>2. ss[k].end = ss[k + 1].start /\ ss[k + 1].start \in Nat
      BY <1>2, <1>3, <3>1
    <3>3. time <= ss[k + 1].start
      BY <1>4, <1>5, <3>2
    <3>4. ~(ss[k].start < h[v].since /\ h[v].since < ss[k + 1].start)
      BY <1>3, <3>1
    <3> QED BY <1>6, <1>7, <2>1, <3>2, <3>3, <3>4
  <2> QED BY <2>2, <2>3
<1>10. u = v
  BY <1>1, <1>8, <1>9
<1> QED BY <1>7, <1>10 DEF ss

\* Some segment is that of a stay the file was in while it could be the origin of what ran.
LEMMA SegmentAt ==
  ASSUME NEW log, NEW h, NEW c, Tracks(log, h, c), TrailHolds(log, h, Len(Renames(log)), c),
         NEW v \in DOMAIN h, NEW time \in Nat, During(h, v, time), InWindow(c, time)
  PROVE  \E k \in DOMAIN c.segments : SegmentActive(c.segments[k], time) /\ c.segments[k].path = h[v].path
<1> DEFINE ss == c.segments
           last == Len(ss)
           n == Len(c.renames)
<1>1. /\ DOMAIN ss = 1 .. last /\ n \in Nat /\ last = n + 1 /\ DOMAIN c.renames = 1 .. n
      /\ \A l \in DOMAIN ss : ss[l].start \in Nat /\ ss[l].end \in Nat \cup {None}
  <2>1. \A l \in DOMAIN ss : ss[l] \in Segments
    BY ArtifactParts DEF Tracks
  <2>2. \A l \in DOMAIN ss : ss[l].start \in Nat /\ ss[l].end \in Nat \cup {None}
    BY <2>1 DEF Segments
  <2> QED BY <2>2, ArtifactParts DEF Tracks
<1>2. /\ ss[1].start = h[1].since /\ ss[last].end = None
      /\ \A l \in DOMAIN c.renames : ss[l].end = ss[l + 1].start
  BY DEF TrailHolds
<1>3. h[1].since <= time
  <2>1. 1 \in DOMAIN h /\ h[1].since \in Nat /\ h[v].since \in Nat /\ 1 <= v /\ h[1].since <= h[v].since
    BY StayParts DEF Tracks
  <2> QED BY <2>1 DEF During
<1>4. SUFFICES ASSUME \A k \in DOMAIN ss : ~SegmentActive(ss[k], time) PROVE FALSE
  BY SegmentOf
<1> HIDE DEF ss, last, n
<1>5. \A k \in DOMAIN ss : ~(ss[k].start <= time /\ (ss[k].end = None \/ time <= ss[k].end))
  BY <1>4 DEF SegmentActive
<1> DEFINE B == {m \in 0 .. n : ss[m + 1].start <= time}
<1>6. 0 \in B
  BY <1>1, <1>2, <1>3
<1>7. ASSUME NEW m \in 0 .. n - 1, m \in B PROVE m + 1 \in B
  <2> DEFINE l == m + 1
  <2>1. l \in DOMAIN ss /\ l \in DOMAIN c.renames /\ l \in 0 .. n /\ l + 1 \in DOMAIN ss /\ ss[l].start <= time
    BY <1>1, <1>7
  <2> HIDE DEF l
  <2>2. ss[l].end # None /\ ~(time <= ss[l].end) /\ ss[l].end = ss[l + 1].start
    BY <1>2, <1>5, <2>1
  <2>3. ss[l + 1].start <= time
    BY <1>1, <2>1, <2>2
  <2> QED BY <2>1, <2>3 DEF l
<1>8. n \in B
  <2>1. n \in 0 .. n
    BY <1>1
  <2> HIDE DEF B
  <2> QED BY <1>1, <1>6, <1>7, <2>1, Upward
<1>9. ss[last].start <= time /\ last \in DOMAIN ss
  BY <1>1, <1>8
<1> QED BY <1>2, <1>5, <1>9

-----------------------------------------------------------------------------
(* The names a chain tells. *)

NameTurn(chain, names, i) == IF chain[i].new = Last(names) THEN names ELSE Append(names, chain[i].new)

NamesFold == INSTANCE FoldLaws WITH Pick <- GreatestIndex, Step <- NameTurn, Holds <- AnyTurn

LEMMA NamesPicks == NamesFold!PicksLast
BY DEF NamesFold!PicksLast, GreatestIndex, Max

LEMMA NamesFolded ==
  ASSUME NEW g, DOMAIN g.chain = 1 .. Len(g.chain)
  PROVE  NamesOf(g) = NamesFold!Fold(g.chain, <<g.artifact.path>>, 1 .. Len(g.chain))
BY DEF NamesOf, FoldLeft, MapThenFoldSet, NamesFold!Fold, NamesFold!IsFold, NameTurn, GreatestIndex

\* The names of a file up to a stay.
NamesTo(h, v) == [w \in 1 .. v |-> h[w].path]

LEMMA OneNameMore ==
  ASSUME NEW h \in Seq(Stays), NEW v \in Nat, v >= 1, v + 1 \in DOMAIN h
  PROVE  /\ NamesTo(h, v + 1) = Append(NamesTo(h, v), h[v + 1].path)
         /\ Last(NamesTo(h, v)) = h[v].path
<1> DEFINE s == NamesTo(h, v)
           t == NamesTo(h, v + 1)
           Names == Path \cup {None}
<1>1. \A w \in 1 .. v + 1 : h[w].path \in Names
  <2>1. DOMAIN h = 1 .. Len(h) /\ Len(h) \in Nat /\ \A w \in DOMAIN h : h[w] \in Stays
    BY LenProperties
  <2>2. \A w \in 1 .. v + 1 : w \in DOMAIN h
    BY <2>1
  <2> QED BY <2>1, <2>2 DEF Stays
<1>2. s \in Seq(Names) /\ t \in Seq(Names) /\ Len(s) = v /\ Len(t) = v + 1
  <2>1. s \in [1 .. v -> Names] /\ t \in [1 .. v + 1 -> Names]
    BY <1>1 DEF NamesTo
  <2> HIDE DEF s, t, Names
  <2> QED BY <2>1
<1>3. (\A w \in 1 .. v : s[w] = h[w].path) /\ \A w \in 1 .. v + 1 : t[w] = h[w].path
  BY DEF NamesTo
<1> HIDE DEF s, t
<1> DEFINE a == Append(s, h[v + 1].path)
<1>4. /\ a \in Seq(Names) /\ Len(a) = v + 1 /\ a[v + 1] = h[v + 1].path /\ \A w \in 1 .. v : a[w] = s[w]
  BY <1>1, <1>2, AppendProperties
<1> HIDE DEF a, Names
<1>5. t = a
  <2>1. \A w \in 1 .. v + 1 : w \in 1 .. v \/ w = v + 1
    OBVIOUS
  <2>2. \A w \in 1 .. Len(t) : t[w] = a[w]
    BY <1>2, <1>3, <1>4, <2>1
  <2> QED BY <1>2, <1>4, <2>2, SeqEqual
<1>6. Last(s) = h[v].path
  BY <1>2, <1>3 DEF Last
<1> QED BY <1>5, <1>6 DEF s, t, a

\* The chain that leads to the segment of a stay tells every name up to it.
LEMMA ChainNames ==
  ASSUME NEW log, NEW h, NEW c, Tracks(log, h, c), TrailHolds(log, h, Len(Renames(log)), c),
         NEW g, NEW k \in DOMAIN c.segments, g.artifact = c.row, g.chain = SubSeq(c.renames, 1, k - 1),
         NEW v \in DOMAIN h, c.segments[k].start = h[v].since
  PROVE  NamesOf(g) = NamesTo(h, v)
<1> DEFINE ss == c.segments
           chain == g.chain
           n == k - 1
           After(m) == NamesFold!Fold(chain, <<g.artifact.path>>, 1 .. m)
<1>1. /\ DOMAIN ss = 1 .. Len(c.renames) + 1 /\ Len(c.renames) \in Nat /\ DOMAIN c.renames = 1 .. Len(c.renames)
      /\ c.renames \in Seq(Pairs)
      /\ \A l \in DOMAIN ss : ss[l].start \in Nat
  <2>1. \A l \in DOMAIN ss : ss[l] \in Segments
    BY ArtifactParts DEF Tracks
  <2>2. \A l \in DOMAIN ss : ss[l].start \in Nat
    BY <2>1 DEF Segments
  <2> QED BY <2>2, ArtifactParts DEF Tracks
<1>2. /\ DOMAIN h = 1 .. Len(h) /\ Len(h) \in Nat /\ h \in Seq(Stays)
      /\ \A w \in DOMAIN h : w \in Nat /\ h[w].since \in Nat
      /\ \A w, x \in DOMAIN h : h[w].since <= h[x].since <=> w <= x
      /\ \A w, x \in DOMAIN h : h[w].since = h[x].since => w = x
  <2>1. /\ DOMAIN h = 1 .. Len(h) /\ Len(h) \in Nat /\ h \in Seq(Stays)
        /\ \A w \in DOMAIN h : w \in Nat /\ h[w].since \in Nat
        /\ \A w, x \in DOMAIN h : h[w].since <= h[x].since <=> w <= x
    BY StayParts DEF Tracks
  <2>2. ASSUME NEW w \in DOMAIN h, NEW x \in DOMAIN h, h[w].since = h[x].since PROVE w = x
    <3>1. w <= x /\ x <= w /\ w \in Nat /\ x \in Nat
      BY <2>1, <2>2
    <3> QED BY <3>1
  <2> QED BY <2>1, <2>2
<1>3. n \in Nat /\ n <= Len(c.renames) /\ k = n + 1
  BY <1>1
<1> HIDE DEF n
<1>4. Len(chain) = n /\ DOMAIN chain = 1 .. n /\ \A l \in 1 .. n : chain[l] = c.renames[l]
  <2>1. chain = SubSeq(c.renames, 1, n)
    BY DEF n
  <2> HIDE DEF chain
  <2> QED BY <1>1, <1>3, <2>1
<1>5. NamesOf(g) = After(n)
  BY <1>4, NamesFolded
<1>6. After(0) = <<h[1].path>> /\ \A m : m \in Nat => After(m + 1) = NameTurn(chain, After(m), m + 1)
  <2>1. After(0) = <<g.artifact.path>>
    BY NamesPicks, NamesFold!FoldInOrder
  <2>2. \A m : m \in Nat => After(m + 1) = NameTurn(chain, After(m), m + 1)
    BY NamesPicks, NamesFold!FoldInOrder
  <2>3. g.artifact.path = h[1].path
    BY DEF Tracks
  <2> HIDE DEF After
  <2> QED BY <2>1, <2>2, <2>3
<1> HIDE DEF After
<1>7. /\ \A l \in DOMAIN ss : \E w \in DOMAIN h : ss[l].path = h[w].path /\ ss[l].start = h[w].since
      /\ ss[1].start = h[1].since
      /\ \A l \in DOMAIN c.renames :
           /\ c.renames[l].new = ss[l + 1].path /\ ss[l].start <= ss[l + 1].start
           /\ \A w \in DOMAIN h : ~(ss[l].start < h[w].since /\ h[w].since < ss[l + 1].start)
  BY DEF TrailHolds
<1> HIDE DEF chain, ss
<1> DEFINE Good(m) == \E u \in DOMAIN h : ss[m + 1].start = h[u].since /\ After(m) = NamesTo(h, u)
           B == {m \in 0 .. n : Good(m)}
<1>8. Good(0)
  <2>1. NamesTo(h, 1) = <<h[1].path>>
    BY DEF NamesTo
  <2>2. 1 \in DOMAIN h
    BY DEF Tracks
  <2> QED BY <1>6, <1>7, <2>1, <2>2
<1>9. ASSUME NEW m \in 0 .. n - 1, Good(m) PROVE Good(m + 1)
  <2> DEFINE l == m + 1
  <2>1. m \in Nat /\ l \in DOMAIN c.renames /\ l \in DOMAIN ss /\ l + 1 \in DOMAIN ss /\ l \in 1 .. n
    BY <1>1, <1>3 DEF ss
  <2>2. PICK u \in DOMAIN h : ss[l].start = h[u].since /\ After(m) = NamesTo(h, u)
    BY <1>9
  <2>3. After(l) = NameTurn(chain, After(m), l)
    BY <1>6, <2>1
  <2> HIDE DEF l
  <2>4. PICK x \in DOMAIN h : ss[l + 1].path = h[x].path /\ ss[l + 1].start = h[x].since
    BY <1>7, <2>1
  <2>5. chain[l].new = h[x].path
    BY <1>4, <1>7, <2>1, <2>4
  <2>6. u <= x /\ u \in Nat /\ x \in Nat /\ u >= 1 /\ ~(u + 1 < x)
    <3>1. h[u].since <= h[x].since /\ \A w \in DOMAIN h : ~(h[u].since < h[w].since /\ h[w].since < h[x].since)
      BY <1>7, <2>1, <2>2, <2>4
    <3>2. u <= x /\ u \in Nat /\ x \in Nat /\ u >= 1
      BY <1>2, <3>1
    <3>3. ASSUME u + 1 < x PROVE FALSE
      <4> DEFINE w == u + 1
      <4>1. w \in DOMAIN h /\ ~(w <= u) /\ ~(x <= w)
        BY <1>2, <3>2, <3>3
      <4> HIDE DEF w
      <4>2. h[w].since \in Nat /\ h[u].since \in Nat /\ h[x].since \in Nat
            /\ ~(h[w].since <= h[u].since) /\ ~(h[x].since <= h[w].since)
        BY <1>2, <4>1
      <4> QED BY <3>1, <4>1, <4>2
    <3> QED BY <3>2, <3>3
  <2>7. CASE x = u
    <3>1. Last(NamesTo(h, u)) = h[u].path
      <4>1. NamesTo(h, u) \in [1 .. u -> {h[w].path : w \in 1 .. u}] /\ NamesTo(h, u)[u] = h[u].path
        BY <2>6 DEF NamesTo
      <4>2. Len(NamesTo(h, u)) = u
        BY <2>6 DEF NamesTo
      <4> QED BY <4>1, <4>2 DEF Last
    <3>2. After(l) = After(m)
      BY <2>2, <2>3, <2>5, <2>7, <3>1 DEF NameTurn
    <3> QED BY <2>2, <2>4, <2>7, <3>2 DEF l
  <2>8. CASE x = u + 1
    <3>1. /\ NamesTo(h, u + 1) = Append(NamesTo(h, u), h[u + 1].path)
          /\ Last(NamesTo(h, u)) = h[u].path
      BY <1>2, <2>6, <2>8, OneNameMore
    <3>2. h[u + 1].path # h[u].path
      BY <2>8 DEF Tracks, StaysFollow
    <3>3. After(l) = NamesTo(h, x)
      BY <2>2, <2>3, <2>5, <2>8, <3>1, <3>2 DEF NameTurn
    <3> QED BY <2>4, <3>3 DEF l
  <2> QED BY <2>6, <2>7, <2>8
<1>10. n \in B
  <2>1. 0 \in 0 .. n /\ n \in 0 .. n /\ \A m \in 0 .. n - 1 : m + 1 \in 0 .. n
    BY <1>3
  <2> HIDE DEF Good
  <2>2. 0 \in B /\ \A m \in 0 .. n - 1 : m \in B => m + 1 \in B
    BY <1>8, <1>9, <2>1
  <2> HIDE DEF B
  <2> QED BY <1>3, <2>1, <2>2, Upward
<1>11. PICK u \in DOMAIN h : ss[n + 1].start = h[u].since /\ After(n) = NamesTo(h, u)
  BY <1>10
<1>12. u = v
  BY <1>2, <1>3, <1>11 DEF ss
<1> QED BY <1>5, <1>11, <1>12

LEMMA RenameOfferedKeeps ==
  ASSUME NEW log, NEW c, ArtifactHolds(log, c), NEW rn, PairHolds(log, rn)
  PROVE  ArtifactHolds(log, OfferRename(c, rn)) /\ OfferRename(c, rn).row = c.row
<1>1. Renamed(c, rn).row = c.row
  <2>1. c = [row |-> c.row, ref |-> c.ref, renames |-> c.renames, deletes |-> c.deletes, segments |-> c.segments]
    BY ArtifactParts
  <2>2. Renamed(c, rn) =
          [row |-> c.row, ref |-> IF c.ref = None THEN rn.ref ELSE c.ref, renames |-> Append(c.renames, rn),
           deletes |-> c.deletes,
           segments |-> Append([c.segments EXCEPT ![Len(c.segments)].end = rn.time],
                               [path |-> rn.new, start |-> rn.time, end |-> None])]
    BY <2>1, RenamedIs
  <2> QED BY <2>2
<1>2. MatchesRename(c, rn) => ArtifactHolds(log, Renamed(c, rn))
  BY RenamedHolds
<1> QED BY <1>1, <1>2 DEF OfferRename

LEMMA DeleteOfferedKeeps ==
  ASSUME NEW log, LogHolds(log), NEW c, ArtifactHolds(log, c), NEW k \in DOMAIN log
  PROVE  LET d == OfferDelete(c, log[k])
         IN ArtifactHolds(log, d) /\ d.row = c.row /\ d.segments = c.segments /\ d.renames = c.renames
<1>1. LogRowHolds(log[k])
  BY RowPaths
<1>2. LET d == Deleted(c, log[k]) IN d.row = c.row /\ d.segments = c.segments /\ d.renames = c.renames
  BY <1>1, DeletedParts
<1>3. MatchesDelete(c, log[k]) => ArtifactHolds(log, Deleted(c, log[k]))
  BY DeletedHolds
<1> QED BY <1>2, <1>3 DEF OfferDelete

\* An artifact keeps the row it was made of.
LEMMA RowKept ==
  ASSUME NEW log, LogHolds(log), NEW i \in DOMAIN Lifecycles(log)
  PROVE  i \in DOMAIN log /\ Lifecycles(log)[i].row = log[i]
<1> DEFINE n == Len(Renames(log))
           l == Len(log)
           Mid(m) == AfterRenames(log, i, m)
           End(m) == AfterDeletes(log, i, m)
           Kept(c) == ArtifactHolds(log, c) /\ c.row = log[i]
           B == {m \in 0 .. n : Kept(Mid(m))}
           D == {m \in 0 .. l : Kept(End(m))}
<1>1. /\ n \in Nat /\ DOMAIN Renames(log) = 1 .. n /\ l \in Nat /\ DOMAIN log = 1 .. l
      /\ \A m \in 1 .. n : PairHolds(log, Renames(log)[m])
  BY RenamesHold, LenProperties DEF LogHolds
<1>2. i \in DOMAIN Candidates(log) /\ i \in DOMAIN log /\ Brings(log[i]) /\ Candidates(log)[i] = Candidate(log[i])
  BY LifecyclesHold DEF Candidates
<1>3. Lifecycles(log)[i] = End(l)
  <2>1. Lifecycles(log) = Scanned(log)
    BY LifecyclesHold
  <2>2. Scanned(log) = [k \in DOMAIN Candidates(log) |-> AfterDeletes(log, k, Len(log))]
    BY <1>1, ScannedFold
  <2> QED BY <1>2, <2>1, <2>2
<1>4. /\ Mid(0) = Candidate(log[i])
      /\ \A m : m \in Nat => Mid(m + 1) = OfferRename(Mid(m), Renames(log)[m + 1])
  BY <1>2, TurnPicks, OneRenamed!FoldInOrder DEF AfterRenames, RenameOffered
<1>5. End(0) = Mid(n) /\ \A m : m \in Nat => End(m + 1) = OfferDelete(End(m), log[m + 1])
  BY TurnPicks, OneDeleted!FoldInOrder DEF AfterDeletes, DeleteOffered
<1> HIDE DEF Mid, End
<1>6. Kept(Mid(0))
  <2>1. Candidate(log[i]).row = log[i]
    BY DEF Candidate
  <2> QED BY <1>2, <1>4, <2>1, ArtifactBrought
<1>7. ASSUME NEW m \in 0 .. n - 1, Kept(Mid(m)) PROVE Kept(Mid(m + 1))
  <2>1. m \in Nat /\ m + 1 \in 1 .. n
    BY <1>1
  <2>2. PairHolds(log, Renames(log)[m + 1]) /\ Mid(m + 1) = OfferRename(Mid(m), Renames(log)[m + 1])
    <3> HIDE DEF n
    <3> QED BY <1>1, <1>4, <2>1
  <2> QED BY <1>7, <2>2, RenameOfferedKeeps
<1>8. n \in B
  <2>1. 0 \in 0 .. n /\ n \in 0 .. n /\ \A m \in 0 .. n - 1 : m + 1 \in 0 .. n
    BY <1>1
  <2> HIDE DEF n, Kept
  <2>2. 0 \in B /\ \A m \in 0 .. n - 1 : m \in B => m + 1 \in B
    BY <1>6, <1>7, <2>1
  <2> HIDE DEF B
  <2> QED BY <1>1, <2>1, <2>2, Upward
<1>9. ASSUME NEW m \in 0 .. l - 1, Kept(End(m)) PROVE Kept(End(m + 1))
  <2>1. m \in Nat /\ m + 1 \in DOMAIN log
    BY <1>1
  <2>2. End(m + 1) = OfferDelete(End(m), log[m + 1])
    <3> HIDE DEF l
    <3> QED BY <1>5, <2>1
  <2> QED BY <1>9, <2>1, <2>2, DeleteOfferedKeeps
<1>10. l \in D
  <2>1. 0 \in 0 .. l /\ l \in 0 .. l /\ \A m \in 0 .. l - 1 : m + 1 \in 0 .. l
    BY <1>1
  <2>2. Kept(End(0))
    BY <1>5, <1>8
  <2> HIDE DEF l, Kept
  <2>3. 0 \in D /\ \A m \in 0 .. l - 1 : m \in D => m + 1 \in D
    BY <1>9, <2>1, <2>2
  <2> HIDE DEF D
  <2> QED BY <1>1, <2>1, <2>3, Upward
<1> QED BY <1>2, <1>3, <1>10

\* A run an artifact can be told with is of its file.
LEMMA HitOfOneFile ==
  ASSUME NEW log, LogHolds(log), Apart(log), NEW c, ArtifactHolds(log, c), NEW b \in RunHits(c, log)
  PROVE  log[b[2]].file = c.row.file /\ b[2] \in DOMAIN log /\ b[1] \in DOMAIN c.segments
<1>1. b[1] \in DOMAIN c.segments /\ b[2] \in DOMAIN log
  BY DEF RunHits
<1>2. log[b[2]] \in Escalated(Story(c, log, b))
  BY DEF Escalated, Story
<1> QED BY <1>1, <1>2, StoryOfOneFile

\* Of a download that ran under its path in the window, the run that is told is by its path.
LEMMA ExactTold ==
  ASSUME NEW log, LogHolds(log), Apart(log), NEW h, NEW c, Tracks(log, h, c),
         TrailHolds(log, h, Len(Renames(log)), c), NEW i \in DOMAIN log, c.row = log[i],
         RowsTrace(log, i, h), NEW j \in DOMAIN log, DownloadRan(log[i], log[j])
  PROVE  LET b == Best(c, log, RunHits(c, log))
         IN b \in RunHits(c, log) /\ Confidence(c.segments[b[1]].path, log[b[2]].path) = "exact"
<1> DEFINE x == log[j]
           H == RunHits(c, log)
           b == Best(c, log, H)
<1>1. /\ ArtifactHolds(log, c) /\ c.row.time \in Nat /\ Window \in Nat /\ None \notin Nat /\ None # "exact"
      /\ \A k \in DOMAIN log : log[k].time \in Nat \cup {None}
  <2>1. \A k \in DOMAIN log : log[k].time \in Nat \cup {None}
    BY RowPaths DEF LogRows
  <2> QED BY <2>1, ProvenanceConstants DEF Tracks, ArtifactHolds
<1>2. x.kind = "run" /\ x.file = c.row.file /\ x.time \in Nat /\ x.time <= c.row.time + Window /\ x.path.dir # None
  BY <1>1 DEF DownloadRan
<1>3. PICK v \in DOMAIN h : During(h, v, x.time) /\ x.path \in {h[v].path, NameOnly(h[v].path)}
  BY <1>1, <1>2 DEF RowsTrace
<1>4. \A w \in DOMAIN h : h[w].since \in Nat /\ c.row.time <= h[w].since
  <2>1. /\ DOMAIN h = 1 .. Len(h) /\ Len(h) \in Nat
        /\ \A w \in DOMAIN h : w \in Nat /\ h[w].since \in Nat
        /\ \A w, y \in DOMAIN h : h[w].since <= h[y].since <=> w <= y
    BY StayParts DEF Tracks
  <2>2. 1 \in DOMAIN h /\ h[1].since = c.row.time /\ \A w \in DOMAIN h : 1 <= w
    BY <2>1 DEF Tracks
  <2> QED BY <2>1, <2>2
<1>5. x.path = h[v].path
  <2>1. h[v].path \in Path
    BY <1>3, StayParts DEF Tracks, During
  <2>2. IsFileName(h[v].path)
    BY <2>1, ProvenanceConstants
  <2>3. NameOnly(h[v].path).dir = None
    BY <2>2 DEF IsFileName, NameOnly
  <2> QED BY <1>2, <1>3, <2>3
<1>6. c.row.time < x.time /\ InWindow(c, x.time)
  <2>1. c.row.time < x.time
    BY <1>1, <1>2, <1>3, <1>4 DEF During
  <2>2. x.time \in c.row.time .. c.row.time + Window
    BY <1>1, <1>2, <2>1
  <2> QED BY <2>1, <2>2 DEF InWindow
<1>7. PICK k \in DOMAIN c.segments : SegmentActive(c.segments[k], x.time) /\ c.segments[k].path = x.path
  BY <1>2, <1>3, <1>5, <1>6, SegmentAt
<1> DEFINE o == <<k, j>>
<1>8. o[1] = k /\ o[2] = j /\ Confidence(c.segments[k].path, x.path) = "exact"
  BY <1>7 DEF Confidence
<1>9. o \in H
  BY <1>1, <1>2, <1>6, <1>7, <1>8 DEF RunHits
<1>10. Score(c, log, o) = x.time - c.row.time
  <2>1. x.time # None
    BY <1>1, <1>2
  <2>2. x.time - c.row.time \in Nat
    BY <1>1, <1>2, <1>6
  <2> HIDE DEF o
  <2> QED BY <1>8, <2>1, <2>2 DEF Score, Gap
<1>11. b \in H /\ Score(c, log, b) <= Score(c, log, o)
  BY <1>1, <1>9, BestIs
<1> HIDE DEF o, H, b
<1>12. /\ log[b[2]].file = c.row.file /\ b[2] \in DOMAIN log /\ InWindow(c, log[b[2]].time)
       /\ log[b[2]].kind = "run"
  BY <1>1, <1>11, HitOfOneFile DEF RunHits, H
<1>13. Gap(c, log[b[2]]) \in Nat /\ Gap(c, log[b[2]]) >= 1
  <2> DEFINE t == log[b[2]].time
  <2>1. CASE t = None
    BY <1>1, <1>2, <1>6, <2>1 DEF Gap
  <2>2. CASE t # None
    <3>1. PICK w \in DOMAIN h : During(h, w, t)
      BY <1>12, <2>2 DEF RowsTrace
    <3>2. t \in Nat
      BY <1>1, <1>12, <2>2
    <3> HIDE DEF t
    <3>3. c.row.time < t
      BY <1>1, <1>4, <3>1, <3>2 DEF During
    <3>4. t - c.row.time \in Nat /\ t - c.row.time >= 1
      BY <1>1, <3>2, <3>3
    <3> QED BY <2>2, <3>4 DEF Gap, t
  <2> QED BY <2>1, <2>2
<1>14. ASSUME Confidence(c.segments[b[1]].path, log[b[2]].path) # "exact" PROVE FALSE
  <2>1. Score(c, log, b) = Gap(c, log[b[2]]) + Window
    BY <1>14 DEF Score
  <2> QED BY <1>1, <1>2, <1>10, <1>11, <1>13, <2>1
<1> QED BY <1>11, <1>14 DEF b, H

\* The names of a file until a time.
NamesBefore(h, time) == [w \in {u \in DOMAIN h : h[u].since <= time} |-> h[w].path]

\* A run with a time is told with the names of its file until then.
LEMMA NamesTold ==
  ASSUME NEW log, LogHolds(log), Apart(log), NEW h, NEW c, Tracks(log, h, c),
         TrailHolds(log, h, Len(Renames(log)), c), NEW i \in DOMAIN log, c.row = log[i],
         RowsTrace(log, i, h), NEW b \in RunHits(c, log), log[b[2]].time # None
  PROVE  NamesOf(Story(c, log, b)) = NamesBefore(h, log[b[2]].time)
<1> DEFINE g == Story(c, log, b)
           time == log[b[2]].time
<1>1. /\ log[b[2]].file = c.row.file /\ b[2] \in DOMAIN log /\ b[1] \in DOMAIN c.segments /\ log[b[2]].kind = "run"
      /\ InWindow(c, time) /\ SegmentActive(c.segments[b[1]], time)
  BY HitOfOneFile DEF RunHits, Tracks
<1>2. time \in Nat
  BY <1>1, RowPaths DEF LogRows
<1>3. PICK v \in DOMAIN h : During(h, v, time)
  BY <1>1 DEF RowsTrace
<1>4. c.segments[b[1]].start = h[v].since
  BY <1>1, <1>2, <1>3, SegmentOf
<1>5. g.artifact = c.row /\ g.chain = SubSeq(c.renames, 1, b[1] - 1)
  BY DEF Story, Chain
<1> HIDE DEF g
<1>6. NamesOf(g) = NamesTo(h, v)
  BY <1>1, <1>4, <1>5, ChainNames
<1>7. {u \in DOMAIN h : h[u].since <= time} = 1 .. v
  <2>1. /\ DOMAIN h = 1 .. Len(h) /\ Len(h) \in Nat
        /\ \A w \in DOMAIN h : w \in Nat /\ h[w].since \in Nat
        /\ \A w, y \in DOMAIN h : h[w].since <= h[y].since <=> w <= y
    BY StayParts DEF Tracks
  <2>2. h[v].since < time /\ (v + 1 \in DOMAIN h => time < h[v + 1].since)
    BY <1>3 DEF During
  <2> HIDE DEF time
  <2>3. ASSUME NEW u \in DOMAIN h, h[u].since <= time PROVE u \in 1 .. v
    <3>1. ASSUME u > v PROVE FALSE
      <4> DEFINE w == v + 1
      <4>1. w \in DOMAIN h /\ w <= u
        BY <2>1, <3>1
      <4>2. time < h[w].since
        BY <2>2, <4>1
      <4> HIDE DEF w
      <4>3. h[w].since <= h[u].since /\ h[w].since \in Nat /\ h[u].since \in Nat
        BY <2>1, <4>1
      <4> QED BY <1>2, <2>3, <4>2, <4>3 DEF time
    <3> QED BY <2>1, <3>1
  <2>4. ASSUME NEW u \in 1 .. v PROVE u \in DOMAIN h /\ h[u].since <= time
    <3>1. u \in DOMAIN h /\ u <= v
      BY <2>1
    <3>2. h[u].since <= h[v].since /\ h[u].since \in Nat /\ h[v].since \in Nat
      BY <2>1, <3>1
    <3> QED BY <1>2, <2>2, <3>1, <3>2 DEF time
  <2> QED BY <2>3, <2>4
<1> QED BY <1>6, <1>7 DEF NamesTo, NamesBefore, g

\* The finding of a download that ran, with the names the file had.
LEMMA TracedOf ==
  ASSUME NEW log, LogHolds(log), Apart(log), PairsSorted(Renames(log)),
         NEW i \in DOMAIN log, NEW h \in Seq(Stays), Traced(log, Renames(log), i, h),
         NEW j \in DOMAIN log, DownloadRan(log[i], log[j])
  PROVE  \E g \in OriginFindings(log) :
           /\ g.artifact = log[i]
           /\ g.execution.time # None =>
                NamesOf(g) = NamesBefore(h, g.execution.time)
<1> DEFINE cs == Lifecycles(log)
           ran == {k \in DOMAIN cs : RunHits(cs[k], log) # {}}
           story == [k \in ran |-> Story(cs[k], log, Best(cs[k], log, RunHits(cs[k], log)))]
           c == cs[i]
           b == Best(c, log, RunHits(c, log))
           g == Story(c, log, b)
           stories == Stories(log)
<1>1. /\ stories = [k \in {l \in ran : Told(story[l])} |-> story[k]]
      /\ \A k \in DOMAIN stories : (\A l \in DOMAIN stories :
           l < k => FindingKey(stories[l]) # FindingKey(stories[k])) => stories[k] \in OriginFindings(log)
  BY DEF Stories, ToldOf, OriginFindings, FirstOfKeys
<1>2. log[i].kind = "download" /\ RowsTrace(log, i, h)
  BY DEF DownloadRan, Traced
<1>3. i \in DOMAIN cs /\ Tracks(log, h, c) /\ c.row = log[i] /\ TrailHolds(log, h, Len(Renames(log)), c)
  BY <1>2, TrailOf
<1> HIDE DEF cs
<1>4. b \in RunHits(c, log) /\ Confidence(c.segments[b[1]].path, log[b[2]].path) = "exact"
  BY <1>2, <1>3, ExactTold
<1>5. i \in ran /\ story[i] = g
  BY <1>3, <1>4
<1> HIDE DEF stories
<1> HIDE DEF b
<1>6. g.artifact = log[i] /\ g.execution = log[b[2]] /\ g.confidence = "exact"
  BY <1>3, <1>4 DEF Story
<1>7. Told(g)
  BY <1>6 DEF Told, Strong
<1>8. i \in DOMAIN stories /\ stories[i] = g
  <2> HIDE DEF g, story
  <2> QED BY <1>1, <1>5, <1>7
<1>9. ASSUME NEW k \in DOMAIN stories, k < i, FindingKey(stories[k]) = FindingKey(stories[i]) PROVE FALSE
  <2>0. k \in ran /\ stories[k] = story[k]
    <3> HIDE DEF story
    <3> QED BY <1>1, <1>9
  <2>1. k \in DOMAIN log /\ cs[k].row = log[k]
    BY <2>0, RowKept DEF cs
  <2>2. stories[k].artifact = log[k]
    BY <2>0, <2>1 DEF Story
  <2>3. log[k].path.base = log[i].path.base
    <3> HIDE DEF g
    <3> QED BY <1>8, <1>6, <1>9, <2>2 DEF FindingKey
  <2>4. Own(log, log[k].file, log[k].path) /\ Own(log, log[i].file, log[i].path)
    BY <2>1, RowPaths
  <2>5. log[k].file = log[i].file
    BY <2>3, <2>4, SameBase
  <2>6. k >= i /\ k \in Nat /\ i \in Nat
    <3>1. DOMAIN log = 1 .. Len(log)
      BY LenProperties DEF LogHolds
    <3> QED BY <1>2, <2>1, <2>5, <3>1 DEF RowsTrace
  <2> QED BY <1>9, <2>6
<1> HIDE DEF story, g, ran
<1>10. g \in OriginFindings(log)
  BY <1>1, <1>8, <1>9
<1>11. ASSUME g.execution.time # None
       PROVE  NamesOf(g) = NamesBefore(h, g.execution.time)
  <2>1. log[b[2]].time # None
    BY <1>6, <1>11
  <2>2. NamesOf(Story(c, log, b)) = NamesBefore(h, log[b[2]].time)
    <3> HIDE DEF c
    <3>1. /\ Tracks(log, h, c) /\ TrailHolds(log, h, Len(Renames(log)), c) /\ c.row = log[i]
          /\ RowsTrace(log, i, h) /\ b \in RunHits(c, log)
      BY <1>2, <1>3, <1>4
    <3> QED BY <2>1, <3>1, NamesTold
  <2> QED BY <1>6, <2>2 DEF g
<1> QED BY <1>6, <1>10, <1>11

-----------------------------------------------------------------------------
(* What rows to come add to the pairs. *)

PairState(log) == PairFold!Fold(log, NoPairs, 1 .. Len(log))

LEMMA PairsThen ==
  ASSUME NEW log \in Seq(LogRows), NEW new \in Seq(LogRows)
  PROVE  LET both == log \o new
             n == Len(log)
             Paired(m) == PairFold!Fold(both, NoPairs, 1 .. m)
         IN /\ n \in Nat /\ Len(both) = n + Len(new) /\ Paired(n) = PairState(log)
            /\ \A m \in 1 .. Len(new) : Paired(n + m) = PairRow(Paired(n + m - 1), new[m])
<1> DEFINE both == log \o new
           n == Len(log)
           Paired(m) == PairFold!Fold(both, NoPairs, 1 .. m)
           Old(m) == PairFold!Fold(log, NoPairs, 1 .. m)
           B == {m \in 0 .. n : Paired(m) = Old(m)}
<1>1. n \in Nat /\ Len(new) \in Nat
  BY LenProperties
<1>2. Len(both) = n + Len(new) /\ \A k \in 1 .. Len(both) : both[k] = IF k <= n THEN log[k] ELSE new[k - n]
  BY ConcatProperties
<1>3. /\ Paired(0) = NoPairs /\ Old(0) = NoPairs
      /\ \A m \in Nat : Paired(m + 1) = PairRow(Paired(m), both[m + 1]) /\ Old(m + 1) = PairRow(Old(m), log[m + 1])
  BY PairPicks, PairFold!FoldInOrder DEF PairTurn
<1> HIDE DEF Paired, Old, both, n
<1>4. ASSUME NEW m \in 0 .. n - 1, Paired(m) = Old(m) PROVE Paired(m + 1) = Old(m + 1)
  <2>1. m \in Nat /\ m + 1 \in 1 .. Len(both) /\ m + 1 <= n
    BY <1>1, <1>2
  <2>2. both[m + 1] = log[m + 1]
    BY <1>2, <2>1
  <2> QED BY <1>3, <1>4, <2>1, <2>2
<1>5. Paired(n) = Old(n)
  <2>1. 0 \in 0 .. n /\ n \in 0 .. n /\ \A m \in 0 .. n - 1 : m + 1 \in 0 .. n
    BY <1>1
  <2>2. 0 \in B /\ \A m \in 0 .. n - 1 : m \in B => m + 1 \in B
    BY <1>3, <1>4, <2>1
  <2>3. n \in B
    <3> HIDE DEF B
    <3> QED BY <1>1, <2>1, <2>2, Upward
  <2> QED BY <2>3
<1>6. ASSUME NEW m \in 1 .. Len(new) PROVE Paired(n + m) = PairRow(Paired(n + m - 1), new[m])
  <2> DEFINE k == n + m - 1
  <2>1. k \in Nat /\ k + 1 = n + m /\ k + 1 \in 1 .. Len(both) /\ ~(k + 1 <= n) /\ (k + 1) - n = m
    BY <1>1, <1>2
  <2> HIDE DEF k
  <2>2. both[k + 1] = new[m]
    BY <1>2, <2>1
  <2>3. Paired(k + 1) = PairRow(Paired(k), both[k + 1])
    BY <1>3, <2>1
  <2> QED BY <2>1, <2>2, <2>3 DEF k
<1> QED BY <1>1, <1>2, <1>5, <1>6 DEF Paired, Old, both, n, PairState

LEMMA OneRowMore ==
  ASSUME NEW log \in Seq(LogRows), NEW r \in LogRows
  PROVE  PairState(log \o <<r>>) = PairRow(PairState(log), r)
<1> DEFINE new == <<r>>
           both == log \o new
           n == Len(log)
           Paired(m) == PairFold!Fold(both, NoPairs, 1 .. m)
<1>1. new \in Seq(LogRows) /\ Len(new) = 1 /\ new[1] = r
  OBVIOUS
<1> HIDE DEF new
<1>2. /\ n \in Nat /\ Len(both) = n + Len(new) /\ Paired(n) = PairState(log)
      /\ \A m \in 1 .. Len(new) : Paired(n + m) = PairRow(Paired(n + m - 1), new[m])
  BY <1>1, PairsThen
<1> HIDE DEF Paired, n
<1>3. 1 \in 1 .. 1 /\ n + 1 - 1 = n
  BY <1>2
<1>4. Paired(n + 1) = PairRow(Paired(n), r)
  BY <1>1, <1>2, <1>3
<1> QED BY <1>1, <1>2, <1>4 DEF Paired, new, PairState

LEMMA ThreeRowsMore ==
  ASSUME NEW log \in Seq(LogRows), NEW a \in LogRows, NEW b \in LogRows
  PROVE  PairState(log \o <<a, b, b>>) = PairRow(PairRow(PairRow(PairState(log), a), b), b)
<1> DEFINE new == <<a, b, b>>
           both == log \o new
           n == Len(log)
           Paired(m) == PairFold!Fold(both, NoPairs, 1 .. m)
<1>1. new \in Seq(LogRows) /\ Len(new) = 3 /\ new[1] = a /\ new[2] = b /\ new[3] = b
  OBVIOUS
<1> HIDE DEF new
<1>2. /\ n \in Nat /\ Len(both) = n + Len(new) /\ Paired(n) = PairState(log)
      /\ \A m \in 1 .. Len(new) : Paired(n + m) = PairRow(Paired(n + m - 1), new[m])
  BY <1>1, PairsThen
<1> HIDE DEF Paired, n
<1>3. 1 \in 1 .. 3 /\ 2 \in 1 .. 3 /\ 3 \in 1 .. 3 /\ n + 1 - 1 = n /\ n + 2 - 1 = n + 1 /\ n + 3 - 1 = n + 2
  BY <1>2
<1>4. Paired(n + 1) = PairRow(Paired(n), a) /\ Paired(n + 2) = PairRow(Paired(n + 1), b) /\ Paired(n + 3) = PairRow(Paired(n + 2), b)
  BY <1>1, <1>2, <1>3
<1> QED BY <1>1, <1>2, <1>4 DEF Paired, new, PairState

\* Rows that are not of a rename add no pair.
LEMMA QuietPairs ==
  ASSUME NEW log, LogHolds(log), NEW r \in LogRows, r.kind \in {"download", "create", "delete", "run"},
         LogHolds(log \o <<r>>)
  PROVE  Renames(log \o <<r>>) = Renames(log)
<1>1. PairRow(PairState(log), r) = PairState(log)
  BY DEF PairRow
<1>2. PairState(log \o <<r>>) = PairState(log)
  BY <1>1, OneRowMore DEF LogHolds
<1> QED BY <1>2, RenamesHold DEF PairState

\* Nothing waits on the stack when the rows of all moves are there.
LEMMA StackEmpty ==
  ASSUME NEW log, LogHolds(log), Tripled(log)
  PROVE  PairState(log).stack = <<>>
<1> DEFINE n == Len(log)
<1>1. PairsHold(log, n, PairState(log))
  BY RenamesHold DEF PairState
<1>2. n \in Nat /\ DOMAIN log = 1 .. n
  BY LenProperties DEF LogHolds
<1> HIDE DEF n
<1>3. ~(n > 0 /\ log[n].kind = "old")
  <2>1. n + 1 \notin DOMAIN log
    BY <1>2
  <2>2. n > 0 => n \in DOMAIN log
    BY <1>2
  <2>3. \A k \in DOMAIN log : log[k].kind = "old" => k + 1 \in DOMAIN log
    BY DEF Tripled
  <2> QED BY <2>1, <2>2, <2>3
<1>4. StackAfter(log, n) = <<>>
  BY <1>3 DEF StackAfter
<1> QED BY <1>1, <1>4 DEF PairsHold, Together, n

\* Every one of the pairs is there, and behind them only the pair.
PairsGrown(pairs, more, p) ==
  /\ \A k \in DOMAIN pairs : k \in DOMAIN more /\ more[k] = pairs[k]
  /\ \A k \in DOMAIN more \ DOMAIN pairs : more[k] = p /\ \A l \in DOMAIN pairs : l <= k

LEMMA PairGrown ==
  ASSUME NEW pairs \in Seq(Pairs), NEW p \in Pairs
  PROVE  /\ PairsGrown(pairs, Append(pairs, p), p) /\ Len(pairs) + 1 \in DOMAIN Append(pairs, p)
         /\ Append(pairs, p)[Len(pairs) + 1] = p /\ Append(pairs, p) \in Seq(Pairs)
<1> DEFINE more == Append(pairs, p)
           n == Len(pairs)
<1>1. n \in Nat /\ DOMAIN pairs = 1 .. n
  BY LenProperties
<1>2. more \in Seq(Pairs) /\ Len(more) = n + 1 /\ more[n + 1] = p /\ \A k \in 1 .. n : more[k] = pairs[k]
  BY AppendProperties
<1>3. DOMAIN more = 1 .. n + 1
  BY <1>2, LenProperties
<1> HIDE DEF more, n
<1>4. \A k \in DOMAIN more \ DOMAIN pairs : k = n + 1
  BY <1>1, <1>3
<1>5. \A k \in DOMAIN pairs : k \in DOMAIN more /\ k <= n + 1
  BY <1>1, <1>3
<1>6. n + 1 \in DOMAIN more
  BY <1>1, <1>3
<1> QED BY <1>1, <1>2, <1>4, <1>5, <1>6 DEF PairsGrown, more, n

LEMMA PairGrownTwice ==
  ASSUME NEW pairs \in Seq(Pairs), NEW p \in Pairs
  PROVE  PairsGrown(pairs, Append(Append(pairs, p), p), p) /\ \E k \in DOMAIN Append(Append(pairs, p), p) :
           k \notin DOMAIN pairs /\ Append(Append(pairs, p), p)[k] = p
<1> DEFINE one == Append(pairs, p)
           two == Append(one, p)
           n == Len(pairs)
<1>1. PairsGrown(pairs, one, p) /\ n + 1 \in DOMAIN one /\ one[n + 1] = p /\ one \in Seq(Pairs)
  BY PairGrown
<1>2. PairsGrown(one, two, p)
  <2> HIDE DEF one
  <2> QED BY <1>1, PairGrown
<1>3. n \in Nat /\ DOMAIN pairs = 1 .. n
  BY LenProperties
<1> HIDE DEF one, two, n
<1>4. n + 1 \notin DOMAIN pairs /\ n + 1 \in DOMAIN two /\ two[n + 1] = p
  BY <1>1, <1>2, <1>3 DEF PairsGrown
<1>5. PairsGrown(pairs, two, p)
  BY <1>1, <1>2 DEF PairsGrown
<1> QED BY <1>4, <1>5 DEF one, two

LEMMA RenameIs ==
  ASSUME NEW r \in LogRows, NEW old \in Path, r.path \in Path, r.time \in Nat
  PROVE  LET p == Rename(r, old)
         IN p \in Pairs /\ p.old = old /\ p.new = r.path /\ p.time = r.time /\ p.row = r
<1>1. r.ref \in File \cup {None}
  BY DEF LogRows
<1> QED BY <1>1 DEF Rename, Pairs

LEMMA RenamedRow ==
  ASSUME NEW byRef, NEW stack, NEW pairs, NEW r, r.kind = "renamed"
  PROVE  PairRow([byRef |-> byRef, stack |-> stack, pairs |-> pairs], r)
           = [byRef |-> byRef, stack |-> stack, pairs |-> Append(pairs, Rename(r, r.old))]
BY DEF PairRow

LEMMA OldRow ==
  ASSUME NEW byRef, NEW stack, NEW pairs, NEW r, r.kind = "old", r.ref # None
  PROVE  PairRow([byRef |-> byRef, stack |-> stack, pairs |-> pairs], r)
           = [byRef |-> [byRef EXCEPT ![r.ref] = r.path], stack |-> stack, pairs |-> pairs]
BY DEF PairRow

LEMMA StackedRow ==
  ASSUME NEW byRef, NEW stack, NEW pairs, NEW r, r.kind = "old", r.ref = None
  PROVE  PairRow([byRef |-> byRef, stack |-> stack, pairs |-> pairs], r)
           = [byRef |-> byRef, stack |-> Append(stack, r.path), pairs |-> pairs]
BY DEF PairRow

LEMMA NewRow ==
  ASSUME NEW byRef, NEW stack, NEW pairs, NEW r, r.kind = "new", r.ref # None, byRef[r.ref] # None
  PROVE  PairRow([byRef |-> byRef, stack |-> stack, pairs |-> pairs], r)
           = [byRef |-> byRef, stack |-> stack, pairs |-> Append(pairs, Rename(r, byRef[r.ref]))]
BY DEF PairRow

LEMMA PoppedRow ==
  ASSUME NEW byRef, NEW stack, NEW pairs, NEW r, r.kind = "new", r.ref = None, stack # <<>>
  PROVE  PairRow([byRef |-> byRef, stack |-> stack, pairs |-> pairs], r)
           = [byRef |-> byRef, stack |-> Front(stack), pairs |-> Append(pairs, Rename(r, Last(stack)))]
<1> DEFINE s == [byRef |-> byRef, stack |-> stack, pairs |-> pairs]
           s1 == [s EXCEPT !.pairs = Append(@, Rename(r, Last(s.stack)))]
           more == Append(pairs, Rename(r, Last(stack)))
<1>1. PairRow(s, r) = [s EXCEPT !.pairs = Append(@, Rename(r, Last(s.stack))), !.stack = Front(@)]
  BY DEF PairRow
<1>2. [s EXCEPT !.pairs = Append(@, Rename(r, Last(s.stack))), !.stack = Front(@)] = [s1 EXCEPT !.stack = Front(@)]
  OBVIOUS
<1>3. s1 = [byRef |-> byRef, stack |-> stack, pairs |-> more]
  <2>1. s.pairs = pairs /\ s.stack = stack
    OBVIOUS
  <2>2. s1 = [s EXCEPT !.pairs = more]
    <3> HIDE DEF s
    <3> QED BY <2>1
  <2> HIDE DEF more, s1
  <2> QED BY <2>2
<1>4. [s1 EXCEPT !.stack = Front(@)] = [byRef |-> byRef, stack |-> Front(stack), pairs |-> more]
  <2> HIDE DEF s1, more
  <2> QED BY <1>3
<1> QED BY <1>1, <1>2, <1>4

LEMMA LoneRow ==
  ASSUME NEW byRef, NEW pairs, NEW r, r.kind = "new", r.ref = None
  PROVE  PairRow([byRef |-> byRef, stack |-> <<>>, pairs |-> pairs], r)
           = [byRef |-> byRef, stack |-> <<>>, pairs |-> pairs]
BY DEF PairRow

\* With all its rows a move adds its pair, and nothing else.
MovePair(p, f, old, path, now) ==
  p \in Pairs /\ p.old = old /\ p.new = path /\ p.time = now /\ p.row.file = f

LEMMA MovedPairs ==
  ASSUME RowsInv, ~missing, NEW f \in File, NEW path \in Path, Where(f) \in Path, NEW kept,
         kept = MoveRows(f, path)
  PROVE  \E p : /\ MovePair(p, f, Where(f), path, clock)
                /\ PairsGrown(Renames(rows), Renames(rows \o kept), p)
                /\ \E k \in DOMAIN Renames(rows \o kept) :
                     k \notin DOMAIN Renames(rows) /\ Renames(rows \o kept)[k] = p
<1> DEFINE old == LogRow("old", f, Where(f))
           new == LogRow("new", f, path)
           row == LogRow("renamed", f, path)
           one == [row EXCEPT !.old = Where(f)]
           was == Where(f)
           s == PairState(rows)
           pairs == Renames(rows)
           more == Renames(rows \o kept)
           p == Rename(new, was)
           ref == IF telemetry = "bare" THEN None ELSE f
<1>1. LogHolds(rows) /\ rows \in Seq(LogRows) /\ clock \in Nat
  BY RowsInvHolds DEF RowsInv
<1>2. LogHolds(rows \o kept)
  <2>1. kept \in Seq(LogRows) /\ (\A k \in DOMAIN kept : LogRowHolds(kept[k])) /\ Referenced(kept)
    <3>1. kept \in Remains(MoveRows(f, path))
      BY DEF Remains
    <3> QED BY <3>1, MoveWritten
  <2> DEFINE both == rows \o kept
  <2>2. both \in Seq(LogRows) /\ (\A k \in DOMAIN both : LogRowHolds(both[k])) /\ Referenced(both)
    BY <2>1, RowsBehind DEF RowsInv
  <2> HIDE DEF both
  <2>3. LogHolds(both)
    BY <2>2, LogOf
  <2> QED BY <2>3 DEF both
<1>3. pairs = s.pairs /\ PairsHold(rows, Len(rows), s) /\ more = PairState(rows \o kept).pairs /\ pairs \in Seq(Pairs)
  BY <1>1, <1>2, RenamesHold DEF PairState
<1>4. s = [byRef |-> s.byRef, stack |-> s.stack, pairs |-> pairs] /\ DOMAIN s.byRef = File
  <2>1. s \in [byRef : [File -> Path \cup {None}], stack : Seq(Path), pairs : Seq(Pairs)]
    BY <1>3 DEF PairsHold
  <2> HIDE DEF s, pairs
  <2> QED BY <1>3, <2>1
<1>5. /\ old \in LogRows /\ old.kind = "old" /\ old.ref = ref /\ old.path = was
      /\ new \in LogRows /\ new.kind = "new" /\ new.ref = ref /\ new.path = path /\ new.time = clock /\ new.file = f
      /\ row \in LogRows /\ row.kind = "renamed"
  BY RowWritten DEF Kinds, LogRow
<1>6. /\ one \in LogRows /\ one.kind = "renamed" /\ one.path = path /\ one.time = clock /\ one.old = was
      /\ one.file = f
  <2>1. row \in LogRows /\ row.kind = "renamed" /\ row.path = path /\ row.time = clock /\ row.file = f
    BY <1>5 DEF LogRow
  <2> HIDE DEF row
  <2> QED BY <2>1 DEF LogRows
<1>7. MovePair(p, f, was, path, clock) /\ p \in Pairs
  <2> HIDE DEF new, was
  <2> QED BY <1>1, <1>5, RenameIs DEF MovePair, was
<1>8. \/ telemetry = "renamed" /\ kept = <<one>>
      \/ telemetry # "renamed" /\ kept = <<old, new, new>>
  BY DEF MoveRows
<1>9. f # None /\ was # None
  BY ProvenanceConstants
<1> HIDE DEF old, new, row, one, was, s, pairs, more, p
<1>10. CASE telemetry = "renamed" /\ kept = <<one>>
  <2> DEFINE q == Rename(one, was)
  <2>1. MovePair(q, f, was, path, clock) /\ q \in Pairs
    <3> HIDE DEF q
    <3>1. one \in LogRows /\ was \in Path /\ one.path \in Path /\ one.time \in Nat
      BY <1>1, <1>6 DEF was
    <3> QED BY <1>6, <3>1, RenameIs DEF MovePair, q
  <2> HIDE DEF q
  <2>2. more = Append(pairs, q)
    <3>1. more = PairRow(s, one).pairs
      BY <1>1, <1>3, <1>6, <1>10, OneRowMore DEF s
    <3>2. PairRow([byRef |-> s.byRef, stack |-> s.stack, pairs |-> pairs], one)
            = [byRef |-> s.byRef, stack |-> s.stack, pairs |-> Append(pairs, q)]
      BY <1>6, RenamedRow DEF q
    <3> QED BY <1>4, <3>1, <3>2
  <2>3. PairsGrown(pairs, more, q) /\ \E k \in DOMAIN more : k \notin DOMAIN pairs /\ more[k] = q
    <3>1. Len(pairs) \in Nat /\ DOMAIN pairs = 1 .. Len(pairs)
      BY <1>3, LenProperties
    <3>2. Len(pairs) + 1 \notin DOMAIN pairs
      BY <3>1
    <3> QED BY <1>3, <2>1, <2>2, <3>2, PairGrown
  <2> QED BY <2>1, <2>3 DEF more, pairs, was
<1>11. CASE telemetry # "renamed" /\ kept = <<old, new, new>>
  <2>1. more = PairRow(PairRow(PairRow(s, old), new), new).pairs
    BY <1>1, <1>3, <1>5, <1>11, ThreeRowsMore DEF s
  <2> DEFINE byRef == s.byRef
             stack == s.stack
             s0 == [byRef |-> byRef, stack |-> stack, pairs |-> pairs]
  <2>2. s = s0
    BY <1>4
  <2>3. CASE telemetry = "bare"
    <3>1. old.ref = None /\ new.ref = None
      BY <1>5, <2>3
    <3>2. stack = <<>>
      BY <1>1, <2>3, StackEmpty DEF RowsInv, s
    <3> DEFINE held == <<was>>
    <3>3. PairRow(s0, old) = [byRef |-> byRef, stack |-> Append(stack, old.path), pairs |-> pairs]
      <4> HIDE DEF byRef, stack
      <4>1. old.kind = "old"
        BY <1>5
      <4> QED BY <3>1, <4>1, StackedRow
    <3>4. Append(stack, old.path) = held
      BY <1>5, <3>2
    <3>5. held # <<>> /\ Last(held) = was /\ Front(held) = <<>>
      BY DEF Last, Front
    <3> HIDE DEF byRef, stack, held
    <3>6. PairRow([byRef |-> byRef, stack |-> held, pairs |-> pairs], new)
            = [byRef |-> byRef, stack |-> <<>>, pairs |-> Append(pairs, p)]
      <4>1. PairRow([byRef |-> byRef, stack |-> held, pairs |-> pairs], new)
              = [byRef |-> byRef, stack |-> Front(held), pairs |-> Append(pairs, Rename(new, Last(held)))]
        BY <1>5, <3>1, <3>5, PoppedRow
      <4> QED BY <3>5, <4>1 DEF p
    <3> DEFINE end == [byRef |-> byRef, stack |-> <<>>, pairs |-> Append(pairs, p)]
    <3>7. PairRow(end, new) = end
      BY <1>5, <3>1, LoneRow
    <3>8. more = Append(pairs, p)
      BY <2>1, <2>2, <3>3, <3>4, <3>6, <3>7
    <3>9. PairsGrown(pairs, more, p) /\ \E k \in DOMAIN more : k \notin DOMAIN pairs /\ more[k] = p
      <4>1. Len(pairs) \in Nat /\ DOMAIN pairs = 1 .. Len(pairs)
        BY <1>3, LenProperties
      <4>2. Len(pairs) + 1 \notin DOMAIN pairs
        BY <4>1
      <4> QED BY <1>3, <1>7, <3>8, <4>2, PairGrown
    <3> QED BY <1>7, <3>9 DEF more, pairs, was
  <2>4. CASE telemetry # "bare"
    <3>1. old.ref = f /\ new.ref = f /\ old.ref # None
      BY <1>5, <1>9, <2>4
    <3> DEFINE kept2 == [byRef EXCEPT ![f] = was]
    <3>2. kept2[f] = was
      BY <1>4
    <3>3. PairRow(s0, old) = [byRef |-> kept2, stack |-> stack, pairs |-> pairs]
      <4>1. PairRow(s0, old) = [byRef |-> [byRef EXCEPT ![old.ref] = old.path], stack |-> stack, pairs |-> pairs]
        <5> HIDE DEF byRef, stack
        <5>1. old.kind = "old"
          BY <1>5
        <5> QED BY <3>1, <5>1, OldRow
      <4> QED BY <1>5, <3>1, <4>1
    <3> HIDE DEF kept2, byRef, stack
    <3>4. \A q : PairRow([byRef |-> kept2, stack |-> stack, pairs |-> q], new)
                   = [byRef |-> kept2, stack |-> stack, pairs |-> Append(q, p)]
      <4> TAKE q
      <4>1. new.kind = "new" /\ new.ref # None /\ kept2[new.ref] # None
        BY <1>5, <1>9, <3>1, <3>2
      <4>2. PairRow([byRef |-> kept2, stack |-> stack, pairs |-> q], new)
              = [byRef |-> kept2, stack |-> stack, pairs |-> Append(q, Rename(new, kept2[new.ref]))]
        BY <4>1, NewRow
      <4> QED BY <3>1, <3>2, <4>2 DEF p
    <3>5. more = Append(Append(pairs, p), p)
      <4> DEFINE r1 == PairRow(s, old)
                 r2 == PairRow(r1, new)
      <4>1. r1 = [byRef |-> kept2, stack |-> stack, pairs |-> pairs]
        BY <2>2, <3>3
      <4> HIDE DEF r1
      <4>2. r2 = [byRef |-> kept2, stack |-> stack, pairs |-> Append(pairs, p)]
        BY <3>4, <4>1
      <4> HIDE DEF r2
      <4>3. PairRow(r2, new) = [byRef |-> kept2, stack |-> stack, pairs |-> Append(Append(pairs, p), p)]
        BY <3>4, <4>2
      <4>4. more = PairRow(r2, new).pairs
        BY <2>1 DEF r1, r2
      <4> QED BY <4>3, <4>4
    <3>6. PairsGrown(pairs, more, p) /\ \E k \in DOMAIN more : k \notin DOMAIN pairs /\ more[k] = p
      BY <1>3, <1>7, <3>5, PairGrownTwice
    <3> QED BY <1>7, <3>6 DEF more, pairs, was
  <2> QED BY <2>3, <2>4
<1> QED BY <1>8, <1>10, <1>11

-----------------------------------------------------------------------------
(* What a step of the machine adds to where a download went. *)

\* Pairs of a file, and its rows of now, behind those that were there.
PairsMore(pairs, more, f) ==
  /\ \A k \in DOMAIN pairs : k \in DOMAIN more /\ more[k] = pairs[k]
  /\ \A k \in DOMAIN more \ DOMAIN pairs : more[k].row.file = f

LogMore(log, more, f, now) ==
  /\ \A k \in DOMAIN log : k \in DOMAIN more /\ more[k] = log[k]
  /\ \A k \in DOMAIN more \ DOMAIN log :
       more[k].file = f /\ more[k].time \in {now, None} /\ \A l \in DOMAIN log : k >= l

\* The steps of another file.
LEMMA OtherTraced ==
  ASSUME NEW log, NEW more, NEW pairs, NEW pairs2, NEW f, NEW now \in Nat,
         LogMore(log, more, f, now), PairsMore(pairs, pairs2, f),
         NEW i \in DOMAIN log, log[i].file # f, NEW h, Traced(log, pairs, i, h), Past(log, log[i].file, h, now)
  PROVE  Traced(more, pairs2, i, h) /\ Past(more, log[i].file, h, now + 1)
<1> DEFINE g == log[i].file
<1>1. more[i] = log[i] /\ \A k \in DOMAIN more : more[k].file = g => k \in DOMAIN log /\ more[k] = log[k]
  BY DEF LogMore
<1>2. \A k \in DOMAIN pairs2 : pairs2[k].row.file = g => k \in DOMAIN pairs /\ pairs2[k] = pairs[k]
  BY DEF PairsMore
<1>3. PairsTrace(pairs2, more[i].file, h)
  BY <1>1, <1>2 DEF Traced, PairsTrace, PairsMore
<1>4. RowsTrace(more, i, h)
  <2> HIDE DEF g
  <2>1. RowsTrace(log, i, h) /\ log[i].file = g
    BY DEF Traced, g
  <2> QED BY <1>1, <2>1 DEF RowsTrace
<1>5. Past(more, g, h, now + 1)
  <2>1. 0 .. now - 1 \subseteq 0 .. (now + 1) - 1
    OBVIOUS
  <2> QED BY <1>1, <2>1 DEF Past
<1> QED BY <1>3, <1>4, <1>5 DEF Traced

\* A run of the file, where it was last.
LEMMA RunTraced ==
  ASSUME NEW log, NEW more, NEW pairs, NEW now \in Nat, NEW i \in DOMAIN log, LogMore(log, more, log[i].file, now),
         NEW h \in Seq(Stays), Traced(log, pairs, i, h), Past(log, log[i].file, h, now), Last(h).path # None,
         \A k \in DOMAIN more \ DOMAIN log : more[k].path \in {Last(h).path, NameOnly(Last(h).path)}
  PROVE  Traced(more, pairs, i, h) /\ Past(more, log[i].file, h, now + 1)
<1> DEFINE n == Len(h)
<1>1. n \in DOMAIN h /\ n + 1 \notin DOMAIN h /\ Last(h) = h[n]
  <2>1. n \in Nat /\ DOMAIN h = 1 .. n /\ 1 \in DOMAIN h
    BY LenProperties DEF Traced, RowsTrace
  <2> QED BY <2>1 DEF Last
<1>2. more[i] = log[i] /\ i \in DOMAIN more
  BY DEF LogMore
<1>3. \A k \in DOMAIN more \ DOMAIN log : more[k].time # None =>
        During(h, n, more[k].time) /\ more[k].path \in {h[n].path, NameOnly(h[n].path)}
  <2> SUFFICES ASSUME NEW k \in DOMAIN more \ DOMAIN log, more[k].time # None
               PROVE  During(h, n, more[k].time) /\ more[k].path \in {h[n].path, NameOnly(h[n].path)}
    OBVIOUS
  <2>1. more[k].time = now
    BY DEF LogMore
  <2>2. h[n].since \in 0 .. now - 1
    BY <1>1 DEF Past
  <2>3. h[n].since < now
    BY <2>2
  <2> QED BY <1>1, <2>1, <2>3 DEF During
<1> HIDE DEF n
<1>4. RowsTrace(more, i, h)
  <2>1. RowsTrace(log, i, h)
    BY DEF Traced
  <2>2. \A k \in DOMAIN more : more[k].file = log[i].file => k >= i
    <3> SUFFICES ASSUME NEW k \in DOMAIN more, more[k].file = log[i].file PROVE k >= i
      OBVIOUS
    <3>1. CASE k \in DOMAIN log
      BY <2>1, <3>1 DEF RowsTrace, LogMore
    <3>2. CASE k \notin DOMAIN log
      BY <3>2 DEF LogMore
    <3> QED BY <3>1, <3>2
  <2>3. \A j \in DOMAIN more : more[j].kind = "run" /\ more[j].file = log[i].file /\ more[j].time # None =>
          \E v \in DOMAIN h : During(h, v, more[j].time) /\ more[j].path \in {h[v].path, NameOnly(h[v].path)}
    <3> SUFFICES ASSUME NEW j \in DOMAIN more, more[j].kind = "run", more[j].file = log[i].file, more[j].time # None
                 PROVE  \E v \in DOMAIN h : /\ During(h, v, more[j].time)
                                            /\ more[j].path \in {h[v].path, NameOnly(h[v].path)}
      OBVIOUS
    <3>1. CASE j \in DOMAIN log
      <4>1. more[j] = log[j]
        BY <3>1 DEF LogMore
      <4> QED BY <2>1, <3>1, <4>1 DEF RowsTrace
    <3>2. CASE j \notin DOMAIN log
      BY <1>1, <1>3, <3>2
    <3> QED BY <3>1, <3>2
  <2> QED BY <1>2, <2>1, <2>2, <2>3 DEF RowsTrace
<1>5. Past(more, log[i].file, h, now + 1)
  <2>1. 0 .. now - 1 \subseteq 0 .. (now + 1) - 1 /\ now \in 0 .. (now + 1) - 1
    OBVIOUS
  <2>2. \A j \in DOMAIN more : more[j].file = log[i].file /\ more[j].time # None =>
          more[j].time \in 0 .. now - 1 \/ more[j].time = now
    BY DEF Past, LogMore
  <2> QED BY <2>1, <2>2 DEF Past
<1> QED BY <1>2, <1>4, <1>5 DEF Traced

\* A move, or the end, of the file.
LEMMA MoveTraced ==
  ASSUME NEW log, NEW more, NEW pairs, NEW pairs2, NEW now \in Nat, NEW i \in DOMAIN log,
         LogMore(log, more, log[i].file, now), PairsMore(pairs, pairs2, log[i].file),
         NEW h \in Seq(Stays), Traced(log, pairs, i, h), Past(log, log[i].file, h, now),
         Last(h).path # None, NEW path \in Path \cup {None}, path # Last(h).path,
         \A k \in DOMAIN more \ DOMAIN log : more[k].kind # "run",
         \A k \in DOMAIN pairs2 \ DOMAIN pairs :
           pairs2[k].old = Last(h).path /\ pairs2[k].new = path /\ pairs2[k].time = now,
         path # None => \E k \in DOMAIN pairs2 : k \notin DOMAIN pairs
  PROVE  LET h2 == Append(h, [path |-> path, since |-> now])
         IN Traced(more, pairs2, i, h2) /\ Past(more, log[i].file, h2, now + 1)
<1> DEFINE n == Len(h)
           stay == [path |-> path, since |-> now]
           h2 == Append(h, stay)
<1>1. /\ n \in Nat /\ DOMAIN h = 1 .. n /\ n >= 1 /\ n \in DOMAIN h /\ Last(h) = h[n] /\ 1 \in DOMAIN h
      /\ \A v \in DOMAIN h : h[v].since \in 0 .. now - 1
  <2>1. n \in Nat /\ DOMAIN h = 1 .. n /\ 1 \in DOMAIN h
    BY LenProperties DEF Traced, RowsTrace
  <2> QED BY <2>1 DEF Last, Past
<1>2. stay.path = path /\ stay.since = now /\ stay \in Stays
  BY DEF Stays
<1> HIDE DEF stay
<1>3. /\ DOMAIN h2 = 1 .. n + 1 /\ h2[n + 1] = stay /\ \A v \in DOMAIN h : h2[v] = h[v]
  <2>1. h2 \in Seq(Stays) /\ Len(h2) = n + 1 /\ h2[n + 1] = stay /\ \A v \in 1 .. n : h2[v] = h[v]
    BY <1>2, AppendProperties
  <2> HIDE DEF h2
  <2> QED BY <1>1, <2>1, LenProperties
<1> HIDE DEF h2, n
<1>4. \A v \in DOMAIN h2 : v \in DOMAIN h \/ v = n + 1
  BY <1>1, <1>3
<1>5. StaysFollow(h2)
  <2>1. StaysFollow(h)
    BY DEF Traced
  <2>2. ASSUME NEW v \in DOMAIN h2, NEW w \in DOMAIN h2, v < w PROVE h2[v].since < h2[w].since
    <3>1. v \in DOMAIN h
      BY <1>1, <1>3, <2>2
    <3>2. CASE w \in DOMAIN h
      BY <1>3, <2>1, <2>2, <3>1, <3>2 DEF StaysFollow
    <3>3. CASE w = n + 1
      <4>1. h2[v].since \in 0 .. now - 1 /\ h2[w].since = now
        BY <1>1, <1>2, <1>3, <3>1, <3>3
      <4> QED BY <4>1
    <3> QED BY <1>4, <3>2, <3>3
  <2>3. ASSUME NEW v \in DOMAIN h2, v + 1 \in DOMAIN h2 PROVE h2[v].path # None /\ h2[v + 1].path # h2[v].path
    <3>1. v \in DOMAIN h /\ (v + 1 \in DOMAIN h \/ v = n)
      BY <1>1, <1>3, <2>3
    <3>2. CASE v + 1 \in DOMAIN h
      BY <1>3, <2>1, <3>1, <3>2 DEF StaysFollow
    <3>3. CASE v = n
      BY <1>1, <1>2, <1>3, <3>3
    <3> QED BY <3>1, <3>2, <3>3
  <2> QED BY <2>2, <2>3 DEF StaysFollow
<1>6. more[i] = log[i] /\ i \in DOMAIN more
  BY DEF LogMore
<1>7. PairsTrace(pairs2, log[i].file, h2)
  <2> DEFINE f == log[i].file
  <2>1. PairsTrace(pairs, f, h)
    BY DEF Traced
  <2>2. ASSUME NEW k \in DOMAIN pairs2, pairs2[k].row.file = f
        PROVE  \E v \in DOMAIN h2 : v > 1 /\ MovedBy(h2, v, pairs2[k])
    <3>1. CASE k \in DOMAIN pairs
      <4>1. pairs2[k] = pairs[k]
        BY <3>1 DEF PairsMore
      <4>2. PICK v \in DOMAIN h : v > 1 /\ MovedBy(h, v, pairs2[k])
        BY <2>1, <2>2, <3>1, <4>1 DEF PairsTrace
      <4>3. v - 1 \in DOMAIN h /\ v \in DOMAIN h2
        BY <1>1, <1>3, <4>2
      <4>4. MovedBy(h2, v, pairs2[k])
        BY <1>3, <4>2, <4>3 DEF MovedBy
      <4> QED BY <4>2, <4>3, <4>4
    <3>2. CASE k \notin DOMAIN pairs
      <4> DEFINE v == n + 1
      <4>1. v \in DOMAIN h2 /\ v > 1 /\ v - 1 = n
        BY <1>1, <1>3
      <4>2. h2[v].path = path /\ h2[v].since = now /\ h2[n] = h[n]
        BY <1>1, <1>2, <1>3
      <4> HIDE DEF v
      <4>3. MovedBy(h2, v, pairs2[k])
        BY <1>1, <3>2, <4>1, <4>2 DEF MovedBy
      <4> QED BY <4>1, <4>3
    <3> QED BY <3>1, <3>2
  <2>3. ASSUME NEW v \in DOMAIN h2, v > 1, h2[v].path # None
        PROVE  \E k \in DOMAIN pairs2 : pairs2[k].row.file = f /\ pairs2[k].time = h2[v].since
    <3>1. CASE v \in DOMAIN h
      <4>1. h2[v] = h[v]
        BY <1>3, <3>1
      <4>2. PICK k \in DOMAIN pairs : pairs[k].row.file = f /\ pairs[k].time = h[v].since
        BY <2>1, <2>3, <3>1, <4>1 DEF PairsTrace
      <4> QED BY <4>1, <4>2 DEF PairsMore
    <3>2. CASE v = n + 1
      <4>1. h2[v].since = now /\ path # None
        BY <1>2, <1>3, <2>3, <3>2
      <4>2. PICK k \in DOMAIN pairs2 : k \notin DOMAIN pairs
        BY <4>1
      <4>3. pairs2[k].row.file = f /\ pairs2[k].time = now
        BY <4>2 DEF PairsMore
      <4> QED BY <4>1, <4>3
    <3> QED BY <1>4, <3>1, <3>2
  <2> QED BY <2>2, <2>3 DEF PairsTrace
<1>8. RowsTrace(more, i, h2)
  <2>1. RowsTrace(log, i, h)
    BY DEF Traced
  <2>2. 1 \in DOMAIN h2 /\ h2[1] = h[1]
    BY <1>1, <1>3
  <2>3. \A k \in DOMAIN more : more[k].file = log[i].file => k >= i
    <3> SUFFICES ASSUME NEW k \in DOMAIN more, more[k].file = log[i].file PROVE k >= i
      OBVIOUS
    <3>1. CASE k \in DOMAIN log
      BY <2>1, <3>1 DEF RowsTrace, LogMore
    <3>2. CASE k \notin DOMAIN log
      BY <3>2 DEF LogMore
    <3> QED BY <3>1, <3>2
  <2>4. ASSUME NEW j \in DOMAIN more, more[j].kind = "run", more[j].file = log[i].file, more[j].time # None
        PROVE  \E v \in DOMAIN h2 : During(h2, v, more[j].time) /\ more[j].path \in {h2[v].path, NameOnly(h2[v].path)}
    <3>1. j \in DOMAIN log /\ more[j] = log[j]
      BY <2>4 DEF LogMore
    <3>2. PICK v \in DOMAIN h : During(h, v, log[j].time) /\ log[j].path \in {h[v].path, NameOnly(h[v].path)}
      BY <2>1, <2>4, <3>1 DEF RowsTrace
    <3>3. log[j].time \in 0 .. now - 1
      BY <2>4, <3>1 DEF Past
    <3>4. h2[v] = h[v] /\ v \in DOMAIN h2
      BY <1>1, <1>3, <3>2
    <3>5. ASSUME v + 1 \in DOMAIN h2 PROVE log[j].time < h2[v + 1].since
      <4>1. CASE v + 1 \in DOMAIN h
        BY <1>3, <3>2, <4>1 DEF During
      <4>2. CASE v + 1 = n + 1
        <5>1. h2[v + 1].since = now
          BY <1>2, <1>3, <4>2
        <5> QED BY <3>3, <5>1
      <4> QED BY <1>4, <3>5, <4>1, <4>2
    <3>6. During(h2, v, log[j].time)
      BY <3>2, <3>4, <3>5 DEF During
    <3> QED BY <3>1, <3>2, <3>4, <3>6
  <2>5. h2[1].path = more[i].path /\ h2[1].since = more[i].time
    BY <1>6, <2>1, <2>2 DEF RowsTrace
  <2>6. \A k \in DOMAIN more : more[k].file = more[i].file => k >= i
    BY <1>6, <2>3
  <2>7. \A j \in DOMAIN more : more[j].kind = "run" /\ more[j].file = more[i].file /\ more[j].time # None =>
          \E v \in DOMAIN h2 : During(h2, v, more[j].time) /\ more[j].path \in {h2[v].path, NameOnly(h2[v].path)}
    BY <1>6, <2>4
  <2> QED BY <2>2, <2>5, <2>6, <2>7 DEF RowsTrace
<1>9. Past(more, log[i].file, h2, now + 1)
  <2>1. 0 .. now - 1 \subseteq 0 .. (now + 1) - 1 /\ now \in 0 .. (now + 1) - 1
    OBVIOUS
  <2>2. \A j \in DOMAIN more : more[j].file = log[i].file /\ more[j].time # None =>
          more[j].time \in 0 .. now - 1 \/ more[j].time = now
    BY DEF Past, LogMore
  <2>3. \A v \in DOMAIN h2 : h2[v].since \in 0 .. now - 1 \/ h2[v].since = now
    BY <1>1, <1>2, <1>3, <1>4
  <2> QED BY <2>1, <2>2, <2>3 DEF Past
<1> QED BY <1>5, <1>6, <1>7, <1>8, <1>9 DEF Traced, h2, stay

\* A download, of a file nothing was known of.
LEMMA ArrivalTraced ==
  ASSUME NEW log, NEW more, NEW pairs, NEW now \in Nat, NEW f, NEW path, LogMore(log, more, f, now),
         \A k \in DOMAIN log : log[k].file # f, \A k \in DOMAIN pairs : pairs[k].row.file # f,
         NEW i \in DOMAIN more, DOMAIN more \ DOMAIN log = {i}, i \in Nat,
         more[i].kind = "download", more[i].path = path, more[i].time = now
  PROVE  LET h == <<[path |-> path, since |-> now]>>
         IN Traced(more, pairs, i, h) /\ Past(more, f, h, now + 1)
<1> DEFINE h == <<[path |-> path, since |-> now]>>
<1>1. DOMAIN h = {1} /\ h[1].path = path /\ h[1].since = now
  OBVIOUS
<1> HIDE DEF h
<1>2. more[i].file = f /\ \A k \in DOMAIN more : more[k].file = f => k = i
  BY DEF LogMore
<1>3. StaysFollow(h)
  BY <1>1 DEF StaysFollow
<1>4. PairsTrace(pairs, f, h)
  BY <1>1 DEF PairsTrace
<1>5. RowsTrace(more, i, h)
  BY <1>1, <1>2 DEF RowsTrace
<1>6. Past(more, f, h, now + 1)
  <2>1. now \in 0 .. (now + 1) - 1
    OBVIOUS
  <2> QED BY <1>1, <1>2, <2>1 DEF Past
<1> QED BY <1>2, <1>3, <1>4, <1>5, <1>6 DEF Traced, h

LEMMA LogGrown ==
  ASSUME RowsInv, NEW f, NEW new \in Seq(LogRows),
         \A k \in DOMAIN new : new[k].file = f /\ new[k].time \in {clock, None}
  PROVE  LET both == rows \o new
         IN /\ LogMore(rows, both, f, clock)
            /\ \A k \in DOMAIN both \ DOMAIN rows : \E l \in DOMAIN new : both[k] = new[l]
            /\ DOMAIN both = 1 .. Len(rows) + Len(new) /\ DOMAIN rows = 1 .. Len(rows) /\ Len(rows) \in Nat
<1> DEFINE both == rows \o new
           n == Len(rows)
<1>1. n \in Nat /\ Len(new) \in Nat /\ DOMAIN rows = 1 .. n /\ DOMAIN new = 1 .. Len(new)
  BY LenProperties DEF RowsInv
<1>2. /\ both \in Seq(LogRows) /\ Len(both) = n + Len(new)
      /\ \A k \in 1 .. Len(both) : both[k] = IF k <= n THEN rows[k] ELSE new[k - n]
  BY ConcatProperties DEF RowsInv
<1> HIDE DEF both
<1>3. DOMAIN both = 1 .. n + Len(new)
  BY <1>2, LenProperties
<1> HIDE DEF n
<1>4. \A k \in DOMAIN rows : k \in DOMAIN both /\ both[k] = rows[k]
  BY <1>1, <1>2, <1>3
<1>5. \A k \in DOMAIN both \ DOMAIN rows : k - n \in DOMAIN new /\ both[k] = new[k - n] /\ \A l \in DOMAIN rows : k >= l
  BY <1>1, <1>2, <1>3
<1>6. LogMore(rows, both, f, clock)
  BY <1>4, <1>5 DEF LogMore
<1> QED BY <1>1, <1>3, <1>5, <1>6 DEF both, n

\* What is to be shown of the file a step is about.
LEMMA StepTraces ==
  ASSUME RowsInv, TraceInv, NEW f \in File, NEW h, h # <<>>,
         rows' \in Seq(LogRows), LogMore(rows, rows', f, clock), clock' = clock + 1,
         history' = [history EXCEPT ![f] = h],
         PairsMore(Renames(rows), Renames(rows'), f),
         \A k \in DOMAIN Renames(rows') \ DOMAIN Renames(rows) :
           Renames(rows')[k].time = clock /\ \A l \in DOMAIN Renames(rows) : l <= k,
         Renames(rows') \in Seq(Pairs),
         \A i \in DOMAIN rows' : rows'[i].kind = "download" /\ rows'[i].file = f =>
           Traced(rows', Renames(rows'), i, h) /\ Past(rows', f, h, clock + 1)
  PROVE  TraceInv'
<1> DEFINE pairs == Renames(rows)
           more == Renames(rows')
<1>1. clock \in Nat /\ DOMAIN history = File /\ \A k \in DOMAIN rows : rows[k].file \in File
  BY DEF RowsInv, LogRowHolds, LogRows
<1>2. PairsSorted(pairs) /\ \A k \in DOMAIN pairs : pairs[k].time \in 0 .. clock - 1
  BY DEF TraceInv
<1>3. \A k \in DOMAIN more : \/ k \in DOMAIN pairs /\ more[k] = pairs[k]
                             \/ k \notin DOMAIN pairs /\ more[k].time = clock /\ \A l \in DOMAIN pairs : l <= k
  BY DEF PairsMore
<1>4. DOMAIN more \subseteq Nat
  BY LenProperties
<1> HIDE DEF pairs, more
<1>5. PairsSorted(more)
  <2> SUFFICES ASSUME NEW k \in DOMAIN more, NEW l \in DOMAIN more, k <= l PROVE more[k].time <= more[l].time
    BY DEF PairsSorted
  <2>1. CASE k \in DOMAIN pairs /\ l \in DOMAIN pairs
    BY <1>2, <1>3, <2>1 DEF PairsSorted
  <2>2. CASE k \in DOMAIN pairs /\ l \notin DOMAIN pairs
    BY <1>1, <1>2, <1>3, <2>2
  <2>3. CASE k \notin DOMAIN pairs /\ l \in DOMAIN pairs
    <3>1. l <= k /\ k \in Nat /\ l \in Nat
      BY <1>3, <1>4, <2>3
    <3>2. k = l
      BY <3>1
    <3> QED BY <2>3, <3>2
  <2>4. CASE k \notin DOMAIN pairs /\ l \notin DOMAIN pairs
    BY <1>1, <1>3, <2>4
  <2> QED BY <2>1, <2>2, <2>3, <2>4
<1>6. \A k \in DOMAIN more : more[k].time \in 0 .. (clock + 1) - 1
  BY <1>1, <1>2, <1>3
<1>7. \A g \in File : history'[g] = IF g = f THEN h ELSE history[g]
  BY <1>1
<1>8. \A j \in DOMAIN rows' : history'[rows'[j].file] # <<>>
  <2> SUFFICES ASSUME NEW j \in DOMAIN rows' PROVE history'[rows'[j].file] # <<>>
    OBVIOUS
  <2>1. CASE j \in DOMAIN rows
    <3>1. rows'[j] = rows[j]
      BY <2>1 DEF LogMore
    <3> QED BY <1>1, <1>7, <2>1, <3>1 DEF TraceInv
  <2>2. CASE j \notin DOMAIN rows
    BY <1>7, <2>2 DEF LogMore
  <2> QED BY <2>1, <2>2
<1>9. ASSUME NEW i \in DOMAIN rows', rows'[i].kind = "download"
      PROVE  Traced(rows', more, i, history'[rows'[i].file]) /\ Past(rows', rows'[i].file, history'[rows'[i].file], clock + 1)
  <2>1. CASE rows'[i].file = f
    BY <1>7, <1>9, <2>1 DEF more
  <2>2. CASE rows'[i].file # f
    <3>1. i \in DOMAIN rows /\ rows'[i] = rows[i]
      BY <2>2 DEF LogMore
    <3>2. history'[rows'[i].file] = history[rows[i].file]
      BY <1>1, <1>7, <2>2, <3>1
    <3>3. /\ Traced(rows, pairs, i, history[rows[i].file])
          /\ Past(rows, rows[i].file, history[rows[i].file], clock)
      BY <1>9, <3>1 DEF TraceInv, pairs
    <3>4. LogMore(rows, rows', f, clock) /\ PairsMore(pairs, more, f) /\ rows[i].file # f
      BY <2>2, <3>1 DEF pairs, more
    <3> DEFINE g == history[rows[i].file]
    <3> HIDE DEF g
    <3>5. Traced(rows, pairs, i, g) /\ Past(rows, rows[i].file, g, clock)
      BY <3>3 DEF g
    <3>6. Traced(rows', more, i, g) /\ Past(rows', rows[i].file, g, clock + 1)
      BY <1>1, <3>1, <3>4, <3>5, OtherTraced
    <3> QED BY <3>1, <3>2, <3>6 DEF g
  <2> QED BY <2>1, <2>2
<1>10. /\ PairsSorted(Renames(rows')) /\ \A k \in DOMAIN Renames(rows') : Renames(rows')[k].time \in 0 .. clock' - 1
       /\ \A j \in DOMAIN rows' : history'[rows'[j].file] # <<>>
       /\ \A i \in DOMAIN rows' : rows'[i].kind = "download" =>
            LET g == history'[rows'[i].file]
            IN Traced(rows', Renames(rows'), i, g) /\ Past(rows', rows'[i].file, g, clock')
  BY <1>5, <1>6, <1>8, <1>9 DEF more
<1> QED BY <1>10 DEF TraceInv

\* One row more, that is not of a rename.
LEMMA QuietStep ==
  ASSUME RowsInv, NEW r, LogRowHolds(r), r.ref = IF telemetry = "bare" THEN None ELSE r.file,
         r.kind \in {"download", "create", "delete", "run"}, r.time \in {clock, None}
  PROVE  LET both == rows \o <<r>>
         IN /\ both \in Seq(LogRows) /\ LogMore(rows, both, r.file, clock)
            /\ DOMAIN both \ DOMAIN rows = {Len(rows) + 1} /\ both[Len(rows) + 1] = r /\ Len(rows) + 1 \in Nat
            /\ Renames(both) = Renames(rows) /\ Renames(both) \in Seq(Pairs)
<1> DEFINE new == <<r>>
           both == rows \o new
<1>1. r \in LogRows /\ new \in Seq(LogRows) /\ DOMAIN new = {1} /\ new[1] = r /\ Len(new) = 1
  BY DEF LogRowHolds
<1>2. (\A k \in DOMAIN new : LogRowHolds(new[k])) /\ Referenced(new)
  BY OneRow
<1> HIDE DEF new
<1>3. /\ LogMore(rows, both, r.file, clock)
      /\ \A k \in DOMAIN both \ DOMAIN rows : \E l \in DOMAIN new : both[k] = new[l]
      /\ DOMAIN both = 1 .. Len(rows) + Len(new) /\ DOMAIN rows = 1 .. Len(rows) /\ Len(rows) \in Nat
  <2>1. \A k \in DOMAIN new : new[k].file = r.file /\ new[k].time \in {clock, None}
    BY <1>1
  <2> QED BY <1>1, <2>1, LogGrown
<1>4. /\ both \in Seq(LogRows) /\ \A k \in DOMAIN both : LogRowHolds(both[k])
      /\ Referenced(both)
  BY <1>1, <1>2, RowsBehind DEF RowsInv
<1> HIDE DEF both
<1>5. LogHolds(both) /\ LogHolds(rows)
  BY <1>4, LogOf, RowsInvHolds
<1>6. DOMAIN both \ DOMAIN rows = {Len(rows) + 1} /\ both[Len(rows) + 1] = r /\ Len(rows) + 1 \in Nat
  <2> DEFINE n == Len(rows)
  <2>1. n \in Nat /\ DOMAIN both = 1 .. n + 1 /\ DOMAIN rows = 1 .. n
    BY <1>1, <1>3
  <2> HIDE DEF n
  <2>2. DOMAIN both \ DOMAIN rows = {n + 1} /\ n + 1 \in Nat
    BY <2>1
  <2>3. both[n + 1] = r
    BY <1>1, <1>3, <2>2
  <2> QED BY <2>2, <2>3 DEF n
<1>7. Renames(both) = Renames(rows)
  BY <1>1, <1>5, QuietPairs DEF both, new
<1>8. Renames(both) \in Seq(Pairs)
  BY <1>5, RenamesHold
<1> QED BY <1>3, <1>4, <1>6, <1>7, <1>8 DEF both, new

LEMMA SamePairs ==
  ASSUME NEW pairs, NEW f
  PROVE  PairsMore(pairs, pairs, f) /\ DOMAIN pairs \ DOMAIN pairs = {}
BY DEF PairsMore

\* The pairs of a log are of files it has rows of.
LEMMA PairsOfRows ==
  ASSUME NEW log, LogHolds(log), NEW f, \A k \in DOMAIN log : log[k].file # f
  PROVE  \A k \in DOMAIN Renames(log) : Renames(log)[k].row.file # f
BY RenamesHold DEF PairHolds, Own

\* Where no row is missing a row that could be told is there.
LEMMA OneThere ==
  ASSUME NEW r, LogOne(r), ~missing'
  PROVE  rows' = rows \o <<r>> /\ clock' = clock + 1
<1> DEFINE kept == IF Read(r) THEN <<r>> ELSE <<>>
<1>1. rows' = rows \o kept /\ clock' = clock + 1 /\ missing' = (missing \/ kept # <<r>>)
  BY DEF LogOne, Log
<1> HIDE DEF kept
<1> QED BY <1>1

LEMMA ArriveTraces ==
  ASSUME RowsInv, TraceInv, ~missing',
         NEW f \in File, NEW path \in Path, NEW kind \in Arrival[telemetry], NEW origin \in Origin,
         Arrive(f, path, kind, origin)
  PROVE  TraceInv'
<1> DEFINE row == LogRow(kind, f, path)
           r == [row EXCEPT !.origin = kind = "download" /\ origin]
           h == <<Stay(path)>>
           n == Len(rows) + 1
<1>1. kind \in {"download", "create"} /\ kind \in Kinds
  BY ProvenanceConstants DEF RowsInv, Kinds
<1>2. /\ row \in LogRows /\ row.kind = kind /\ row.file = f /\ row.path = path /\ row.time = clock
      /\ row.ref = IF telemetry = "bare" THEN None ELSE f
  BY <1>1, RowWritten DEF LogRow
<1>3. (kind = "download" /\ origin) \in BOOLEAN /\ clock \in Nat
  BY DEF RowsInv
<1>4. rows' = rows \o <<r>> /\ clock' = clock + 1 /\ history[f] = <<>> /\ history' = [history EXCEPT ![f] = h]
  BY OneThere DEF Arrive
<1> HIDE DEF row
<1>5. r \in LogRows /\ r.kind = kind /\ r.file = f /\ r.path = path /\ r.time = clock /\ r.ref = row.ref
  BY <1>2, <1>3 DEF LogRows
<1> HIDE DEF r
<1>6. LogRowHolds(r)
  BY <1>1, <1>2, <1>3, <1>5 DEF LogRowHolds
<1>7. /\ rows' \in Seq(LogRows) /\ LogMore(rows, rows', f, clock)
      /\ DOMAIN rows' \ DOMAIN rows = {n} /\ rows'[n] = r /\ n \in Nat
      /\ Renames(rows') = Renames(rows) /\ Renames(rows') \in Seq(Pairs)
  BY <1>1, <1>2, <1>4, <1>5, <1>6, QuietStep
<1>8. \A k \in DOMAIN rows : rows[k].file # f
  BY <1>4 DEF TraceInv
<1>9. \A k \in DOMAIN Renames(rows) : Renames(rows)[k].row.file # f
  BY <1>8, PairsOfRows, RowsInvHolds
<1> HIDE DEF n
<1>10. ASSUME NEW i \in DOMAIN rows', rows'[i].kind = "download", rows'[i].file = f
       PROVE  Traced(rows', Renames(rows'), i, h) /\ Past(rows', f, h, clock + 1)
  <2>1. i = n
    <3>1. i \in DOMAIN rows => rows'[i] = rows[i]
      BY <1>7 DEF LogMore
    <3> QED BY <1>7, <1>8, <1>10, <3>1
  <2>2. rows'[i].path = path /\ rows'[i].time = clock /\ i \in Nat /\ DOMAIN rows' \ DOMAIN rows = {i}
    BY <1>5, <1>7, <2>1
  <2>3. h = <<[path |-> path, since |-> clock]>>
    BY DEF Stay
  <2> HIDE DEF h
  <2>4. LET g == <<[path |-> path, since |-> clock]>>
        IN Traced(rows', Renames(rows), i, g) /\ Past(rows', f, g, clock + 1)
    BY <1>3, <1>7, <1>8, <1>9, <1>10, <2>2, ArrivalTraced
  <2> QED BY <1>7, <2>3, <2>4
<1>11. h # <<>>
  OBVIOUS
<1> HIDE DEF h
<1>12. /\ PairsMore(Renames(rows), Renames(rows'), f)
       /\ \A k \in DOMAIN Renames(rows') \ DOMAIN Renames(rows) :
            Renames(rows')[k].time = clock /\ \A l \in DOMAIN Renames(rows) : l <= k
  BY <1>7, SamePairs
<1> QED BY <1>4, <1>7, <1>10, <1>11, <1>12, StepTraces

\* Where a file is that is present, after what is known of it.
LEMMA PresentAt ==
  ASSUME RowsInv, NEW f \in File, Present(f)
  PROVE  /\ history[f] \in Seq(Stays) /\ history[f] # <<>> /\ Last(history[f]).path = Where(f)
         /\ Where(f) \in Path /\ Where(f) # None /\ clock \in Nat
BY WhereIs DEF Present, Where, RowsInv

LEMMA RunTraces ==
  ASSUME RowsInv, TraceInv, ~missing', NEW f \in File, NEW form \in Form, Run(f, form)
  PROVE  TraceInv'
<1> DEFINE was == Where(f)
           row == LogRow("run", f, IF form.named THEN was ELSE NameOnly(was))
           time == IF form.timed THEN row.time ELSE None
           r1 == [row EXCEPT !.severity = form.severity]
           r == [r1 EXCEPT !.time = time]
           h == history[f]
           n == Len(rows) + 1
<1>1. /\ h \in Seq(Stays) /\ h # <<>> /\ Last(h).path = was /\ was \in Path /\ was # None
      /\ clock \in Nat /\ form.severity \in Grades
  BY PresentAt, ProvenanceConstants DEF Run
<1>2. /\ row \in LogRows /\ row.kind = "run" /\ row.file = f /\ row.time = clock
      /\ row.path \in {was, NameOnly(was)} /\ row.ref = IF telemetry = "bare" THEN None ELSE f
  <2>1. (IF form.named THEN was ELSE NameOnly(was)) \in Path \cup {NameOnly(p) : p \in Path}
    BY <1>1
  <2>2. Low \in Grades
    BY DEF Low, Grades
  <2> HIDE DEF was
  <2> QED BY <1>1, <2>1, <2>2 DEF LogRow, LogRows, Kinds
<1>3. rows' = rows \o <<r>> /\ clock' = clock + 1 /\ history' = history
  BY OneThere DEF Run
<1> HIDE DEF row, was
<1>4. time \in Nat \cup {None} /\ time \in {clock, None}
  BY <1>1, <1>2
<1> HIDE DEF time
<1>5. r1 \in LogRows /\ r1.kind = "run" /\ r1.file = f /\ r1.ref = row.ref /\ r1.path = row.path
  BY <1>1, <1>2 DEF LogRows
<1> HIDE DEF r1
<1>6. r \in LogRows /\ r.kind = "run" /\ r.file = f /\ r.ref = row.ref /\ r.path = row.path /\ r.time = time
  BY <1>4, <1>5 DEF LogRows
<1> HIDE DEF r
<1>7. LogRowHolds(r)
  BY <1>2, <1>6 DEF LogRowHolds
<1>8. /\ rows' \in Seq(LogRows) /\ LogMore(rows, rows', f, clock)
      /\ DOMAIN rows' \ DOMAIN rows = {n} /\ rows'[n] = r /\ n \in Nat
      /\ Renames(rows') = Renames(rows) /\ Renames(rows') \in Seq(Pairs)
  BY <1>2, <1>3, <1>4, <1>6, <1>7, QuietStep
<1> HIDE DEF n
<1>9. ASSUME NEW i \in DOMAIN rows', rows'[i].kind = "download", rows'[i].file = f
      PROVE  Traced(rows', Renames(rows'), i, h) /\ Past(rows', f, h, clock + 1)
  <2>1. i \in DOMAIN rows /\ rows'[i] = rows[i]
    BY <1>6, <1>8, <1>9 DEF LogMore
  <2>2. Traced(rows, Renames(rows), i, h) /\ Past(rows, rows[i].file, h, clock) /\ rows[i].file = f
    BY <1>9, <2>1 DEF TraceInv
  <2> HIDE DEF h
  <2>3. \A k \in DOMAIN rows' \ DOMAIN rows : rows'[k].path \in {Last(h).path, NameOnly(Last(h).path)}
    BY <1>1, <1>2, <1>6, <1>8
  <2>4. LogMore(rows, rows', rows[i].file, clock) /\ Last(h).path # None
    BY <1>1, <1>8, <2>2
  <2>5. Traced(rows', Renames(rows), i, h) /\ Past(rows', rows[i].file, h, clock + 1)
    BY <1>1, <2>1, <2>2, <2>3, <2>4, RunTraced
  <2> QED BY <1>8, <2>2, <2>5
<1>10. history' = [history EXCEPT ![f] = h]
  BY <1>3 DEF RowsInv
<1> HIDE DEF h
<1>11. /\ PairsMore(Renames(rows), Renames(rows'), f)
       /\ \A k \in DOMAIN Renames(rows') \ DOMAIN Renames(rows) :
            Renames(rows')[k].time = clock /\ \A l \in DOMAIN Renames(rows) : l <= k
  BY <1>8, SamePairs
<1> QED BY <1>1, <1>3, <1>8, <1>9, <1>10, <1>11, StepTraces

\* A stay more is not none.
LEMMA OneStayMore ==
  ASSUME NEW h \in Seq(Stays), NEW path \in Path \cup {None}, clock \in Nat
  PROVE  Append(h, Stay(path)) # <<>> /\ Stay(path) = [path |-> path, since |-> clock]
<1>1. Stay(path) \in Stays
  BY DEF Stay, Stays
<1>2. Len(Append(h, Stay(path))) = Len(h) + 1 /\ Len(h) \in Nat
  BY <1>1, AppendProperties, LenProperties
<1>3. Len(<<>>) = 0
  OBVIOUS
<1>4. Append(h, Stay(path)) # <<>>
  BY <1>2, <1>3
<1> QED BY <1>4 DEF Stay

LEMMA EraseTraces ==
  ASSUME RowsInv, TraceInv, ~missing', NEW f \in File, Erase(f)
  PROVE  TraceInv'
<1> DEFINE was == Where(f)
           r == LogRow("delete", f, was)
           h == history[f]
           h2 == Append(h, Stay(None))
           n == Len(rows) + 1
<1>1. /\ h \in Seq(Stays) /\ h # <<>> /\ Last(h).path = was /\ was \in Path /\ was # None /\ clock \in Nat
  BY PresentAt DEF Erase
<1>2. /\ LogRowHolds(r) /\ r.kind = "delete" /\ r.file = f /\ r.time = clock
      /\ r.ref = IF telemetry = "bare" THEN None ELSE f
  <2> HIDE DEF was
  <2> QED BY <1>1, RowWritten DEF Kinds, LogRow
<1>3. rows' = rows \o <<r>> /\ clock' = clock + 1 /\ history' = [history EXCEPT ![f] = h2]
  BY OneThere DEF Erase
<1> HIDE DEF r, was
<1>4. /\ rows' \in Seq(LogRows) /\ LogMore(rows, rows', f, clock)
      /\ DOMAIN rows' \ DOMAIN rows = {n} /\ rows'[n] = r /\ n \in Nat
      /\ Renames(rows') = Renames(rows) /\ Renames(rows') \in Seq(Pairs)
  BY <1>2, <1>3, QuietStep
<1> HIDE DEF n
<1>5. h2 # <<>> /\ h2 = Append(h, [path |-> None, since |-> clock])
  <2> HIDE DEF h
  <2> QED BY <1>1, OneStayMore
<1>6. /\ PairsMore(Renames(rows), Renames(rows'), f) /\ DOMAIN Renames(rows') \ DOMAIN Renames(rows) = {}
  BY <1>4, SamePairs
<1>7. ASSUME NEW i \in DOMAIN rows', rows'[i].kind = "download", rows'[i].file = f
      PROVE  Traced(rows', Renames(rows'), i, h2) /\ Past(rows', f, h2, clock + 1)
  <2>1. i \in DOMAIN rows /\ rows'[i] = rows[i]
    BY <1>2, <1>4, <1>7 DEF LogMore
  <2>2. Traced(rows, Renames(rows), i, h) /\ Past(rows, rows[i].file, h, clock) /\ rows[i].file = f
    BY <1>7, <2>1 DEF TraceInv
  <2> HIDE DEF h, h2
  <2>3. \A k \in DOMAIN rows' \ DOMAIN rows : rows'[k].kind # "run"
    BY <1>2, <1>4
  <2>4. LogMore(rows, rows', rows[i].file, clock) /\ PairsMore(Renames(rows), Renames(rows'), rows[i].file)
        /\ Last(h).path # None /\ None # Last(h).path /\ None \in Path \cup {None}
    BY <1>1, <1>4, <1>6, <2>2
  <2>5. LET g == Append(h, [path |-> None, since |-> clock])
        IN Traced(rows', Renames(rows'), i, g) /\ Past(rows', rows[i].file, g, clock + 1)
    BY <1>1, <1>6, <2>1, <2>2, <2>3, <2>4, MoveTraced
  <2> QED BY <1>5, <2>2, <2>5
<1> HIDE DEF h, h2
<1> QED BY <1>3, <1>4, <1>5, <1>6, <1>7, StepTraces

\* Rows of a move are of its file, of now, and no run.
LEMMA MoveRowsAre ==
  ASSUME RowsInv, NEW f \in File, NEW path \in Path, Where(f) \in Path, NEW kept, kept = MoveRows(f, path),
         NEW k \in DOMAIN kept
  PROVE  kept[k].file = f /\ kept[k].time = clock /\ kept[k].kind \in {"old", "new", "renamed"}
<1> DEFINE old == LogRow("old", f, Where(f))
           new == LogRow("new", f, path)
           row == LogRow("renamed", f, path)
           one == [row EXCEPT !.old = Where(f)]
           Is(r) == r.file = f /\ r.time = clock /\ r.kind \in {"old", "new", "renamed"}
<1>1. Is(old) /\ Is(new) /\ Is(one)
  BY DEF LogRow
<1>2. kept \in {<<one>>, <<old, new, new>>}
  BY DEF MoveRows
<1> HIDE DEF old, new, one
<1>3. kept[k] \in {old, new, one}
  <2>1. CASE kept = <<one>>
    BY <2>1
  <2>2. CASE kept = <<old, new, new>>
    BY <2>2
  <2> QED BY <1>2, <2>1, <2>2
<1> QED BY <1>1, <1>3

LEMMA MoveTraces ==
  ASSUME RowsInv, TraceInv, ~missing', NEW f \in File, NEW path \in Path, Move(f, path)
  PROVE  TraceInv'
<1> DEFINE was == Where(f)
           h == history[f]
           h2 == Append(h, Stay(path))
           pairs == Renames(rows)
           more == Renames(rows')
<1>1. /\ h \in Seq(Stays) /\ h # <<>> /\ Last(h).path = was /\ was \in Path /\ was # None /\ clock \in Nat
  BY PresentAt DEF Move
<1>2. path # was
  BY DEF Move, Free
<1> DEFINE kept == MoveRows(f, path)
<1>3. ~missing /\ rows' = rows \o kept /\ clock' = clock + 1
  <2>1. PICK there \in Remains(kept) : Log(kept, there)
    BY DEF Move
  <2> HIDE DEF kept
  <2> QED BY <2>1 DEF Log
<1>4. rows' = rows \o kept /\ clock' = clock + 1 /\ history' = [history EXCEPT ![f] = h2]
  BY <1>3 DEF Move
<1>5. kept \in Seq(LogRows) /\ (\A k \in DOMAIN kept : LogRowHolds(kept[k])) /\ Referenced(kept)
  <2>1. kept \in Remains(MoveRows(f, path))
    BY DEF Remains
  <2> QED BY <1>1, <2>1, MoveWritten
<1>6. \A k \in DOMAIN kept : kept[k].file = f /\ kept[k].time = clock /\ kept[k].kind \in {"old", "new", "renamed"}
  BY <1>1, MoveRowsAre
<1>7. LogMore(rows, rows', f, clock) /\ \A k \in DOMAIN rows' \ DOMAIN rows : \E l \in DOMAIN kept : rows'[k] = kept[l]
  <2>1. \A k \in DOMAIN kept : kept[k].file = f /\ kept[k].time \in {clock, None}
    BY <1>6
  <2> QED BY <1>4, <1>5, <2>1, LogGrown
<1>8. rows' \in Seq(LogRows) /\ more \in Seq(Pairs)
  <2> DEFINE both == rows \o kept
  <2>1. both \in Seq(LogRows) /\ (\A k \in DOMAIN both : LogRowHolds(both[k])) /\ Referenced(both)
    BY <1>5, RowsBehind DEF RowsInv
  <2> HIDE DEF both
  <2>2. Renames(both) \in Seq(Pairs)
    BY <2>1, LogOf, RenamesHold
  <2> QED BY <1>4, <2>1, <2>2 DEF both
<1>9. PICK p : /\ MovePair(p, f, was, path, clock) /\ PairsGrown(pairs, more, p)
               /\ \E k \in DOMAIN more : k \notin DOMAIN pairs /\ more[k] = p
  BY <1>1, <1>3, <1>4, MovedPairs
<1> HIDE DEF was, h2, kept
<1>10. /\ p.old = was /\ p.new = path /\ p.time = clock /\ p.row.file = f
  BY <1>9 DEF MovePair
<1>11. /\ PairsMore(pairs, more, f)
       /\ \A k \in DOMAIN more \ DOMAIN pairs :
            more[k].old = was /\ more[k].new = path /\ more[k].time = clock /\ \A l \in DOMAIN pairs : l <= k
  <2> HIDE DEF pairs, more
  <2> QED BY <1>9, <1>10 DEF PairsGrown, PairsMore
<1>12. h2 # <<>> /\ h2 = Append(h, [path |-> path, since |-> clock])
  <2> HIDE DEF h
  <2> QED BY <1>1, OneStayMore DEF h2
<1>13. ASSUME NEW i \in DOMAIN rows', rows'[i].kind = "download", rows'[i].file = f
       PROVE  Traced(rows', more, i, h2) /\ Past(rows', f, h2, clock + 1)
  <2>1. \A k \in DOMAIN rows' \ DOMAIN rows : rows'[k].kind \in {"old", "new", "renamed"}
    BY <1>6, <1>7
  <2>2. i \in DOMAIN rows /\ rows'[i] = rows[i]
    BY <1>7, <1>13, <2>1 DEF LogMore
  <2>3. Traced(rows, pairs, i, h) /\ Past(rows, rows[i].file, h, clock) /\ rows[i].file = f
    BY <1>13, <2>2 DEF TraceInv
  <2> HIDE DEF h, pairs, more
  <2>4. /\ LogMore(rows, rows', rows[i].file, clock) /\ PairsMore(pairs, more, rows[i].file)
        /\ Last(h).path # None /\ path # Last(h).path /\ path \in Path \cup {None}
        /\ \A k \in DOMAIN rows' \ DOMAIN rows : rows'[k].kind # "run"
        /\ \A k \in DOMAIN more \ DOMAIN pairs :
             more[k].old = Last(h).path /\ more[k].new = path /\ more[k].time = clock
        /\ \E k \in DOMAIN more : k \notin DOMAIN pairs
    BY <1>1, <1>2, <1>7, <1>9, <1>11, <2>1, <2>3 DEF was
  <2>5. LET g == Append(h, [path |-> path, since |-> clock])
        IN Traced(rows', more, i, g) /\ Past(rows', rows[i].file, g, clock + 1)
    BY <1>1, <2>2, <2>3, <2>4, MoveTraced
  <2> QED BY <1>12, <2>3, <2>5
<1> HIDE DEF h
<1>14. \A k \in DOMAIN more \ DOMAIN pairs : more[k].time = clock /\ \A l \in DOMAIN pairs : l <= k
  BY <1>11
<1> QED BY <1>4, <1>7, <1>8, <1>11, <1>12, <1>13, <1>14, StepTraces

LEMMA TraceInit == OriginInit => TraceInv
<1> SUFFICES ASSUME OriginInit PROVE TraceInv
  OBVIOUS
<1>1. rows = <<>> /\ DOMAIN rows = {}
  BY DEF OriginInit
<1>2. DOMAIN Renames(rows) = {}
  <2>1. LogHolds(rows)
    BY RowsInit, RowsInvHolds
  <2>2. DOMAIN Renames(rows) \subseteq Nat /\ \A k \in DOMAIN Renames(rows) : PairHolds(rows, Renames(rows)[k])
    BY <2>1, RenamesHold, LenProperties
  <2> QED BY <1>1, <2>2 DEF PairHolds, Own
<1> QED BY <1>1, <1>2 DEF TraceInv, PairsSorted

LEMMA TraceStep == RowsInv /\ (~missing => TraceInv) /\ [OriginNext]_originVars => (~missing' => TraceInv')
<1> SUFFICES ASSUME RowsInv, ~missing => TraceInv, [OriginNext]_originVars, ~missing' PROVE TraceInv'
  OBVIOUS
<1>1. ~missing
  <2>1. CASE UNCHANGED originVars
    BY <2>1 DEF originVars
  <2>2. ASSUME NEW all, NEW kept, Log(all, kept) PROVE ~missing
    BY <2>2 DEF Log
  <2>3. CASE OriginNext
    BY <2>2, <2>3 DEF OriginNext, Arrive, Move, Erase, Run, LogOne
  <2> QED BY <2>1, <2>3
<1>2. TraceInv
  BY <1>1
<1>3. CASE UNCHANGED originVars
  BY <1>2, <1>3 DEF TraceInv, originVars
<1>4. CASE OriginNext
  BY <1>2, <1>4, ArriveTraces, MoveTraces, EraseTraces, RunTraces DEF OriginNext
<1> QED BY <1>3, <1>4

\* While no row is missing, be it lost or not looked at for its extension, and no two
\* files ever had one name, a download that ran under its full path in the window is
\* told, with every name it had until then.
THEOREM DownloadsAlwaysTraced == OriginSpec => []TracedThroughRenames
<1>1. RowsInv /\ (~missing => TraceInv) => TracedThroughRenames
  <2> SUFFICES ASSUME RowsInv, ~missing => TraceInv, NamesTellFilesApart, ~missing,
                      NEW i \in DOMAIN rows, NEW j \in DOMAIN rows, DownloadRan(rows[i], rows[j])
               PROVE  \E g \in OriginFindings(rows) :
                        /\ g.artifact = rows[i]
                        /\ g.execution.time # None =>
                             NamesOf(g) = NamesUntil(rows[i].file, g.execution.time)
    BY DEF TracedThroughRenames
  <2> DEFINE h == history[rows[i].file]
  <2>1. LogHolds(rows) /\ Apart(rows) /\ PairsSorted(Renames(rows)) /\ h \in Seq(Stays)
    <3>1. rows[i].file \in File
      BY DEF RowsInv, LogRowHolds, LogRows
    <3> QED BY <3>1, RowsInvHolds, RowsTogether DEF NamesTellFilesApart, Apart, TraceInv, RowsInv
  <2>2. Traced(rows, Renames(rows), i, h)
    BY DEF TraceInv, DownloadRan
  <2>3. \A time : NamesBefore(h, time) = NamesUntil(rows[i].file, time)
    BY DEF NamesBefore, NamesUntil
  <2> HIDE DEF h
  <2>4. PICK g \in OriginFindings(rows) :
          g.artifact = rows[i] /\ (g.execution.time # None => NamesOf(g) = NamesBefore(h, g.execution.time))
    BY <2>1, <2>2, TracedOf
  <2> QED BY <2>3, <2>4
<1>2. OriginInit => (~missing => TraceInv)
  BY TraceInit
<1> QED BY <1>1, <1>2, TraceStep, RowsInvariant, PTL DEF OriginSpec

=================================================================================

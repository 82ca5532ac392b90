-------------------------- MODULE CaseRegistryProofs --------------------------
(***************************************************************************)
(* For every set of cases and of threads, every choice of failing calls    *)
(* and every number of crashes: a created case stays whole and listed, and *)
(* what is listed was created.                                             *)
(*                                                                         *)
(* Neither is inductive.  That a Save keeps both rests on what the thread  *)
(* that holds _REGISTRY_LOCK has loaded (CopyInv); that a case enters the  *)
(* registry whole rests on how far its creator came, which nobody else     *)
(* disturbs because the id is its own (CreatorInv, OwnInv) and because     *)
(* nothing cached an engine for it that would skip the schema (EngineInv). *)
(*                                                                         *)
(* The last part is about the other database that all cases share, the     *)
(* rules of backend/app/rules, for any rules, requests and runs: what a    *)
(* run read at the revision it noted is either current or outdated by a    *)
(* later revision, never something in between (RuleInv).                   *)
(***************************************************************************)
EXTENDS CaseRegistry, RuleState, TLAPS

Holding == {"disposing", "removing", "saving"}

\* _REGISTRY_LOCK is held by the one thread that is between load and save.
LockInv == \A t \in Thread : lock = t <=> at[t] \in Holding

\* The thread between load and save knows the registry as it is on disk.
Deleting(t) ==
  /\ copy[t] = registry
  /\ on[t] \in registry
  /\ life[on[t]] = "doomed"

SavesCreation(t) ==
  /\ copy[t] = registry \cup {on[t]}
  /\ life[on[t]] = "creating"
  /\ disk[on[t]] = Entries

SavesDeletion(t) == copy[t] = registry \ {on[t]} /\ life[on[t]] = "doomed"

SavesUpdate(t) == copy[t] = registry /\ on[t] \in registry

CopyInv ==
  \A t \in Thread :
    /\ at[t] \in {"disposing", "removing"} => Deleting(t)
    /\ at[t] = "saving" => SavesCreation(t) \/ SavesDeletion(t) \/ SavesUpdate(t)

\* A creator found its case as it left it.
Early == {"making", "filling", "initializing"}

CreatorInv ==
  \A t \in Thread :
    /\ at[t] \in Early \cup {"entering"} => life[on[t]] = "creating"
    /\ at[t] \in Early => on[t] \notin engines
    /\ at[t] = "filling" => "dir" \in disk[on[t]]
    /\ at[t] = "initializing" => {"dir", "uploads"} \subseteq disk[on[t]]
    /\ at[t] = "entering" => disk[on[t]] = Entries

\* Two threads never create the same case.
OwnInv ==
  \A t, u \in Thread :
    (/\ at[t] \in Early \cup {"entering", "saving"}
     /\ at[u] \in Early \cup {"entering", "saving"}
     /\ life[on[t]] = "creating"
     /\ on[t] = on[u]) => t = u

\* A session is opened for a case that was once created.
OpenInv ==
  \A t \in Thread : at[t] = "opening" => life[on[t]] \in {"made", "doomed", "gone"}

\* No engine is cached for an id that was not drawn yet.
EngineInv == \A c \in engines : life[c] # "new"

IInv ==
  /\ TypeOK
  /\ LockInv
  /\ CopyInv
  /\ CreatorInv
  /\ OwnInv
  /\ OpenInv
  /\ EngineInv
  /\ CreatedCaseStaysWhole
  /\ ListedCaseWasCreated
-----------------------------------------------------------------------------
(* CreateStart draws an id nobody used, so no thread, engine or entry knows it. *)
LEMMA CreateStartKeeps ==
  ASSUME IInv, NEW t \in Thread, NEW c \in Case, CreateStart(t, c)
  PROVE  IInv'
<1> USE DEF IInv, CreateStart, Goto, Start
<1>1. TypeOK'
  BY DEF TypeOK
<1>2. LockInv'
  BY DEF LockInv, Holding
<1>3. CopyInv'
  BY DEF CopyInv, Deleting, SavesCreation, SavesDeletion, SavesUpdate
<1>4. CreatorInv'
  BY DEF CreatorInv, EngineInv, TypeOK
<1>5. OwnInv'
  BY DEF OwnInv, CreatorInv, CopyInv, SavesCreation, SavesDeletion, SavesUpdate,
     ListedCaseWasCreated, TypeOK
<1>6. OpenInv'
  BY DEF OpenInv
<1>7. EngineInv'
  BY DEF EngineInv
<1>8. CreatedCaseStaysWhole'
  BY DEF CreatedCaseStaysWhole
<1>9. ListedCaseWasCreated'
  BY DEF ListedCaseWasCreated
<1> QED
  BY <1>1, <1>2, <1>3, <1>4, <1>5, <1>6, <1>7, <1>8, <1>9

(* CreateDir touches only the directory of its own case. *)
LEMMA CreateDirKeeps ==
  ASSUME IInv, NEW t \in Thread, CreateDir(t)
  PROVE  IInv'
<1> USE DEF IInv, CreateDir, Goto
<1>1. TypeOK'
  BY DEF TypeOK, Placed, Entries
<1>2. LockInv'
  BY DEF LockInv, Holding
<1>3. CopyInv'
  BY DEF CopyInv, Deleting, SavesCreation, SavesDeletion, SavesUpdate, Entries
<1>4. CreatorInv'
  BY DEF CreatorInv, Early, TypeOK, Entries
<1>5. OwnInv'
  BY DEF OwnInv, Early
<1>6. OpenInv'
  BY DEF OpenInv
<1>7. EngineInv'
  BY DEF EngineInv
<1>8. CreatedCaseStaysWhole'
  BY DEF CreatedCaseStaysWhole, Entries
<1>9. ListedCaseWasCreated'
  BY DEF ListedCaseWasCreated
<1> QED
  BY <1>1, <1>2, <1>3, <1>4, <1>5, <1>6, <1>7, <1>8, <1>9

(* CreateUploads touches only the directory of its own case. *)
LEMMA CreateUploadsKeeps ==
  ASSUME IInv, NEW t \in Thread, CreateUploads(t)
  PROVE  IInv'
<1> USE DEF IInv, CreateUploads, Goto
<1>1. TypeOK'
  BY DEF TypeOK, Placed, Entries, CreatorInv
<1>2. LockInv'
  BY DEF LockInv, Holding
<1>3. CopyInv'
  BY DEF CopyInv, Deleting, SavesCreation, SavesDeletion, SavesUpdate, Entries
<1>4. CreatorInv'
  BY DEF CreatorInv, Early, TypeOK, Entries
<1>5. OwnInv'
  BY DEF OwnInv, Early
<1>6. OpenInv'
  BY DEF OpenInv
<1>7. EngineInv'
  BY DEF EngineInv
<1>8. CreatedCaseStaysWhole'
  BY DEF CreatedCaseStaysWhole, Entries
<1>9. ListedCaseWasCreated'
  BY DEF ListedCaseWasCreated
<1> QED
  BY <1>1, <1>2, <1>3, <1>4, <1>5, <1>6, <1>7, <1>8, <1>9

(* CreateDb makes the schema, because no engine is cached for its case. *)
LEMMA CreateDbKeeps ==
  ASSUME IInv, NEW t \in Thread, CreateDb(t)
  PROVE  IInv'
<1> USE DEF IInv, CreateDb, Goto, InitDb, InitDbFails
<1>1. TypeOK'
  BY DEF TypeOK, Placed, Entries
<1>2. LockInv'
  BY DEF LockInv, Holding, TypeOK
<1>3. CopyInv'
  BY DEF CopyInv, Deleting, SavesCreation, SavesDeletion, SavesUpdate, TypeOK, Entries
<1>4. CreatorInv'
  BY DEF CreatorInv, OwnInv, Early, TypeOK, Entries
<1>5. OwnInv'
  BY DEF OwnInv, Early, TypeOK
<1>6. OpenInv'
  BY DEF OpenInv, TypeOK
<1>7. EngineInv'
  BY DEF EngineInv, CreatorInv, Early
<1>8. CreatedCaseStaysWhole'
  BY DEF CreatedCaseStaysWhole, TypeOK, Entries
<1>9. ListedCaseWasCreated'
  BY DEF ListedCaseWasCreated
<1> QED
  BY <1>1, <1>2, <1>3, <1>4, <1>5, <1>6, <1>7, <1>8, <1>9

(* CreateEntry loads the registry for a case that is whole on disk. *)
LEMMA CreateEntryKeeps ==
  ASSUME IInv, NEW t \in Thread, CreateEntry(t)
  PROVE  IInv'
<1> USE DEF IInv, CreateEntry, Goto, Load
<1>1. TypeOK'
  BY DEF TypeOK
<1>2. LockInv'
  BY NoThreadAssumption DEF LockInv, Holding, TypeOK
<1>3. CopyInv'
  BY DEF CopyInv, Deleting, SavesCreation, SavesDeletion, SavesUpdate, CreatorInv,
     TypeOK
<1>4. CreatorInv'
  BY DEF CreatorInv, Early
<1>5. OwnInv'
  BY DEF OwnInv
<1>6. OpenInv'
  BY DEF OpenInv
<1>7. EngineInv'
  BY DEF EngineInv
<1>8. CreatedCaseStaysWhole'
  BY DEF CreatedCaseStaysWhole
<1>9. ListedCaseWasCreated'
  BY DEF ListedCaseWasCreated
<1> QED
  BY <1>1, <1>2, <1>3, <1>4, <1>5, <1>6, <1>7, <1>8, <1>9

(* Update loads the registry of a case that is in it. *)
LEMMA UpdateKeeps ==
  ASSUME IInv, NEW t \in Thread, NEW c \in Case, Update(t, c)
  PROVE  IInv'
<1> USE DEF IInv, Update, Goto, Start, Load
<1>1. TypeOK'
  BY DEF TypeOK
<1>2. LockInv'
  BY NoThreadAssumption DEF LockInv, Holding, TypeOK
<1>3. CopyInv'
  BY DEF CopyInv, Deleting, SavesCreation, SavesDeletion, SavesUpdate, TypeOK
<1>4. CreatorInv'
  BY DEF CreatorInv, Early
<1>5. OwnInv'
  BY DEF OwnInv, ListedCaseWasCreated, TypeOK
<1>6. OpenInv'
  BY DEF OpenInv
<1>7. EngineInv'
  BY DEF EngineInv
<1>8. CreatedCaseStaysWhole'
  BY DEF CreatedCaseStaysWhole
<1>9. ListedCaseWasCreated'
  BY DEF ListedCaseWasCreated
<1> QED
  BY <1>1, <1>2, <1>3, <1>4, <1>5, <1>6, <1>7, <1>8, <1>9

(* DeleteStart takes the lock and dooms a case of the registry. *)
LEMMA DeleteStartKeeps ==
  ASSUME IInv, NEW t \in Thread, NEW c \in Case, DeleteStart(t, c)
  PROVE  IInv'
<1> USE DEF IInv, DeleteStart, Goto, Start, Load
<1>1. TypeOK'
  BY DEF TypeOK
<1>2. LockInv'
  BY NoThreadAssumption DEF LockInv, Holding, TypeOK
<1>3. CopyInv'
  BY DEF CopyInv, Deleting, SavesCreation, SavesDeletion, SavesUpdate,
     ListedCaseWasCreated, TypeOK
<1>4. CreatorInv'
  BY DEF CreatorInv, Early, ListedCaseWasCreated
<1>5. OwnInv'
  BY DEF OwnInv, TypeOK
<1>6. OpenInv'
  BY DEF OpenInv
<1>7. EngineInv'
  BY DEF EngineInv
<1>8. CreatedCaseStaysWhole'
  BY DEF CreatedCaseStaysWhole
<1>9. ListedCaseWasCreated'
  BY DEF ListedCaseWasCreated
<1> QED
  BY <1>1, <1>2, <1>3, <1>4, <1>5, <1>6, <1>7, <1>8, <1>9

(* DeleteDispose forgets the engine of a doomed case. *)
LEMMA DeleteDisposeKeeps ==
  ASSUME IInv, NEW t \in Thread, DeleteDispose(t)
  PROVE  IInv'
<1> USE DEF IInv, DeleteDispose, Goto
<1>1. TypeOK'
  BY DEF TypeOK
<1>2. LockInv'
  BY DEF LockInv, Holding
<1>3. CopyInv'
  BY DEF CopyInv, Deleting, SavesCreation, SavesDeletion, SavesUpdate
<1>4. CreatorInv'
  BY DEF CreatorInv, Early
<1>5. OwnInv'
  BY DEF OwnInv, Early
<1>6. OpenInv'
  BY DEF OpenInv
<1>7. EngineInv'
  BY DEF EngineInv
<1>8. CreatedCaseStaysWhole'
  BY DEF CreatedCaseStaysWhole
<1>9. ListedCaseWasCreated'
  BY DEF ListedCaseWasCreated
<1> QED
  BY <1>1, <1>2, <1>3, <1>4, <1>5, <1>6, <1>7, <1>8, <1>9

(* DeleteFiles removes files of a doomed case only. *)
LEMMA DeleteFilesKeeps ==
  ASSUME IInv, NEW t \in Thread, DeleteFiles(t)
  PROVE  IInv'
<1> USE DEF IInv, DeleteFiles, Goto
<1>1. TypeOK'
  BY DEF TypeOK, Placed
<1>2. LockInv'
  BY DEF LockInv
<1>3. CopyInv'
  BY DEF CopyInv, Deleting, SavesCreation, SavesDeletion, SavesUpdate
<1>4. CreatorInv'
  BY DEF CreatorInv, CopyInv, Deleting, Early
<1>5. OwnInv'
  BY DEF OwnInv
<1>6. OpenInv'
  BY DEF OpenInv
<1>7. EngineInv'
  BY DEF EngineInv
<1>8. CreatedCaseStaysWhole'
  BY DEF CreatedCaseStaysWhole, CopyInv, Deleting
<1>9. ListedCaseWasCreated'
  BY DEF ListedCaseWasCreated
<1> QED
  BY <1>1, <1>2, <1>3, <1>4, <1>5, <1>6, <1>7, <1>8, <1>9

(* DeleteEntry takes a doomed case out of the loaded registry. *)
LEMMA DeleteEntryKeeps ==
  ASSUME IInv, NEW t \in Thread, DeleteEntry(t)
  PROVE  IInv'
<1> USE DEF IInv, DeleteEntry, Goto
<1>1. TypeOK'
  BY DEF TypeOK
<1>2. LockInv'
  BY DEF LockInv, Holding
<1>3. CopyInv'
  BY DEF CopyInv, Deleting, SavesCreation, SavesDeletion, SavesUpdate, TypeOK
<1>4. CreatorInv'
  BY DEF CreatorInv, Early
<1>5. OwnInv'
  BY DEF OwnInv, CopyInv, Deleting
<1>6. OpenInv'
  BY DEF OpenInv
<1>7. EngineInv'
  BY DEF EngineInv
<1>8. CreatedCaseStaysWhole'
  BY DEF CreatedCaseStaysWhole
<1>9. ListedCaseWasCreated'
  BY DEF ListedCaseWasCreated
<1> QED
  BY <1>1, <1>2, <1>3, <1>4, <1>5, <1>6, <1>7, <1>8, <1>9

(* DeleteFails lets the lock go and leaves the case doomed. *)
LEMMA DeleteFailsKeeps ==
  ASSUME IInv, NEW t \in Thread, DeleteFails(t)
  PROVE  IInv'
<1> USE DEF IInv, DeleteFails, Goto
<1>1. TypeOK'
  BY DEF TypeOK
<1>2. LockInv'
  BY NoThreadAssumption DEF LockInv, Holding, TypeOK
<1>3. CopyInv'
  BY DEF CopyInv, Deleting, SavesCreation, SavesDeletion, SavesUpdate, TypeOK
<1>4. CreatorInv'
  BY DEF CreatorInv, Early
<1>5. OwnInv'
  BY DEF OwnInv, Early
<1>6. OpenInv'
  BY DEF OpenInv
<1>7. EngineInv'
  BY DEF EngineInv
<1>8. CreatedCaseStaysWhole'
  BY DEF CreatedCaseStaysWhole
<1>9. ListedCaseWasCreated'
  BY DEF ListedCaseWasCreated
<1> QED
  BY <1>1, <1>2, <1>3, <1>4, <1>5, <1>6, <1>7, <1>8, <1>9

(* OpenCheck finds a case that is in the registry. *)
LEMMA OpenCheckKeeps ==
  ASSUME IInv, NEW t \in Thread, NEW c \in Case, OpenCheck(t, c)
  PROVE  IInv'
<1> USE DEF IInv, OpenCheck, Goto, Start
<1>1. TypeOK'
  BY DEF TypeOK
<1>2. LockInv'
  BY DEF LockInv, Holding
<1>3. CopyInv'
  BY DEF CopyInv, Deleting, SavesCreation, SavesDeletion, SavesUpdate
<1>4. CreatorInv'
  BY DEF CreatorInv, Early
<1>5. OwnInv'
  BY DEF OwnInv, Early
<1>6. OpenInv'
  BY DEF OpenInv, ListedCaseWasCreated, TypeOK
<1>7. EngineInv'
  BY DEF EngineInv
<1>8. CreatedCaseStaysWhole'
  BY DEF CreatedCaseStaysWhole
<1>9. ListedCaseWasCreated'
  BY DEF ListedCaseWasCreated
<1> QED
  BY <1>1, <1>2, <1>3, <1>4, <1>5, <1>6, <1>7, <1>8, <1>9

(* OpenDb only adds to a directory, and a whole one has nothing to be added. *)
LEMMA OpenDbKeeps ==
  ASSUME IInv, NEW t \in Thread, OpenDb(t)
  PROVE  IInv'
<1> USE DEF IInv, OpenDb, Goto, InitDb, InitDbFails
<1>1. TypeOK'
  BY DEF TypeOK, Placed, Entries
<1>2. LockInv'
  BY DEF LockInv, Holding
<1>3. CopyInv'
  BY DEF CopyInv, Deleting, SavesCreation, SavesDeletion, SavesUpdate, TypeOK, Entries
<1>4. CreatorInv'
  BY DEF CreatorInv, OpenInv, Early, TypeOK
<1>5. OwnInv'
  BY DEF OwnInv, Early
<1>6. OpenInv'
  BY DEF OpenInv
<1>7. EngineInv'
  BY DEF EngineInv, OpenInv
<1>8. CreatedCaseStaysWhole'
  BY DEF CreatedCaseStaysWhole, TypeOK, Entries
<1>9. ListedCaseWasCreated'
  BY DEF ListedCaseWasCreated
<1> QED
  BY <1>1, <1>2, <1>3, <1>4, <1>5, <1>6, <1>7, <1>8, <1>9

(* Save replaces the registry by one that differs in its own case at most. *)
LEMMA SaveKeeps ==
  ASSUME IInv, NEW t \in Thread, Save(t)
  PROVE  IInv'
<1> USE DEF IInv, Save, Goto, Replace
<1>1. TypeOK'
  BY DEF TypeOK
<1>2. LockInv'
  BY NoThreadAssumption DEF LockInv, Holding, TypeOK
<1>3. CopyInv'
  BY DEF CopyInv, LockInv, Holding, TypeOK
<1>4. CreatorInv'
  BY DEF CreatorInv, OwnInv, Early
<1>5. OwnInv'
  BY DEF OwnInv
<1>6. OpenInv'
  BY DEF OpenInv
<1>7. EngineInv'
  BY DEF EngineInv
<1>8. CreatedCaseStaysWhole'
  BY DEF CreatedCaseStaysWhole, CopyInv, SavesCreation, SavesDeletion, SavesUpdate,
     ListedCaseWasCreated
<1>9. ListedCaseWasCreated'
  BY DEF ListedCaseWasCreated, CopyInv, SavesCreation, SavesDeletion, SavesUpdate,
     TypeOK
<1> QED
  BY <1>1, <1>2, <1>3, <1>4, <1>5, <1>6, <1>7, <1>8, <1>9

-----------------------------------------------------------------------------
\* The process ends: what it knew is lost, and only what is not registered goes.
LEMMA CrashKeeps ==
  ASSUME IInv, CrashAndRestart
  PROVE  IInv'
<1> USE DEF IInv, CrashAndRestart
<1>1. TypeOK'
  <2>1. disk' \in [Case -> SUBSET Entries] /\ \A c \in Case : Placed(disk'[c])
    BY DEF TypeOK, Placed
  <2>2. crashes' \in 0 .. MaxCrashes
    BY CrashAssumption DEF TypeOK
  <2> QED
    BY <2>1, <2>2 DEF TypeOK
<1>2. LockInv' /\ CopyInv' /\ CreatorInv' /\ OwnInv' /\ OpenInv' /\ EngineInv'
  BY NoThreadAssumption
     DEF LockInv, CopyInv, CreatorInv, OwnInv, OpenInv, EngineInv, Holding, Early
<1>3. CreatedCaseStaysWhole' /\ ListedCaseWasCreated'
  BY DEF CreatedCaseStaysWhole, ListedCaseWasCreated, Survives, TypeOK
<1> QED
  BY <1>1, <1>2, <1>3

LEMMA IInvInit == Init => IInv
<1> SUFFICES ASSUME Init PROVE IInv
  OBVIOUS
<1>1. AnyCase \in Case
  BY CaseAssumption DEF AnyCase
<1>2. TypeOK
  BY <1>1, CrashAssumption DEF Init, TypeOK, Placed
<1>3. LockInv /\ CopyInv /\ CreatorInv /\ OwnInv /\ OpenInv /\ EngineInv
  BY NoThreadAssumption
     DEF Init, LockInv, CopyInv, CreatorInv, OwnInv, OpenInv, EngineInv, Holding, Early
<1>4. CreatedCaseStaysWhole /\ ListedCaseWasCreated
  BY DEF Init, CreatedCaseStaysWhole, ListedCaseWasCreated
<1> QED
  BY <1>2, <1>3, <1>4 DEF IInv

LEMMA IInvStep == IInv /\ [Next]_vars => IInv'
<1> SUFFICES ASSUME IInv, [Next]_vars PROVE IInv'
  OBVIOUS
<1>1. CASE UNCHANGED vars
  BY <1>1 DEF vars, IInv, TypeOK, LockInv, CopyInv, Deleting, SavesCreation, SavesDeletion,
     SavesUpdate, CreatorInv, OwnInv, OpenInv, EngineInv, CreatedCaseStaysWhole,
     ListedCaseWasCreated
<1>2. CASE CrashAndRestart
  BY <1>2, CrashKeeps
<1>3. ASSUME NEW t \in Thread, Step(t)
      PROVE  IInv'
  BY <1>3, CreateStartKeeps, CreateDirKeeps, CreateUploadsKeeps, CreateDbKeeps,
     CreateEntryKeeps, UpdateKeeps, DeleteStartKeeps, DeleteDisposeKeeps,
     DeleteFilesKeeps, DeleteEntryKeeps, DeleteFailsKeeps, OpenCheckKeeps,
     OpenDbKeeps, SaveKeeps DEF Step
<1> QED
  BY <1>1, <1>2, <1>3 DEF Next

LEMMA SpecInv == Spec => []IInv
<1> QED
  BY IInvInit, IInvStep, PTL DEF Spec

(***************************************************************************)
(* Every variable of cases.py and of the engine cache keeps its type, and  *)
(* a directory never holds tables without a database, or files without     *)
(* itself.                                                                 *)
(***************************************************************************)
THEOREM RegistryTypeCorrect == Spec => []TypeOK
<1> QED
  BY SpecInv, PTL DEF IInv

(***************************************************************************)
(* A case that create_case returned stays in registry.json with its        *)
(* uploads and its tables, whatever other threads create, update, open and *)
(* delete, whatever fails, and however often the backend restarts and      *)
(* sweeps orphan directories, until somebody deletes that case.            *)
(***************************************************************************)
THEOREM CreatedCaseStays == Spec => []CreatedCaseStaysWhole
<1> QED
  BY SpecInv, PTL DEF IInv

(***************************************************************************)
(* registry.json lists no case whose creation did not end, and none that   *)
(* an update brought back after its deletion.                              *)
(***************************************************************************)
THEOREM OnlyCreatedCasesListed == Spec => []ListedCaseWasCreated
<1> QED
  BY SpecInv, PTL DEF IInv

-----------------------------------------------------------------------------
(* The rules of the installation.                                          *)

\* The profile of the rules as they are.
Now == build_profile(revision, builtin, CustomSet)

\* A profile that nobody can take for a newer one than it is.
Fits(profile) ==
  /\ profile.revision \in Nat /\ profile.revision <= revision
  /\ profile.revision = revision /\ revision # 0 => profile = Now

\* What was read at the last revision is as it was, since each change has its own.
LoadHolds(l) ==
  /\ l.at # "idle" => l.revision \in Nat /\ l.revision <= revision
  /\ l.at \in {"revision", "builtin", "built"} => l.revision # 0
  /\ l.at = "builtin" /\ l.revision = revision => l.builtin = builtin
  /\ l.at \in {"built", "loaded"} /\ l.revision = revision => l.profile = Now
  /\ l.at = "built" => l.profile.revision \in {0, l.revision}
  /\ l.at \in {"idle", "revision", "builtin", "built", "loaded"}

RuleInv ==
  /\ revision \in Nat
  /\ builtin \in [Rules -> [enabled : BOOLEAN, regraded : BOOLEAN]]
  /\ revision = 0 => Now = DefaultProfile
  /\ cache # None => Fits(cache)
  /\ DOMAIN load = scope.runs
  /\ \A n \in scope.runs : LoadHolds(load[n])

\* The default profile has no revision, and any other the one it is built for.
LEMMA ProfileRevision ==
  ASSUME NEW rev, NEW state, NEW rules
  PROVE  build_profile(rev, state, rules).revision \in {0, rev}
BY DEF build_profile, DefaultProfile

\* A change makes what was read before the reading of an older revision.
LEMMA ChangeOutdates ==
  ASSUME RuleInv, revision' \in Nat, revision' > revision,
         builtin' \in [Rules -> [enabled : BOOLEAN, regraded : BOOLEAN]],
         UNCHANGED <<scope, cache, load>>
  PROVE  RuleInv'
<1>1. cache # None => Fits(cache)'
  BY DEF RuleInv, Fits
<1>2. ASSUME NEW n \in scope.runs
      PROVE  LoadHolds(load[n])'
  BY DEF RuleInv, LoadHolds
<1>3. revision' # 0
  BY DEF RuleInv
<1> QED
  BY <1>1, <1>2, <1>3 DEF RuleInv

\* Every request changes the rules with a new revision, or only drops the cache.
LEMMA RequestOutdates ==
  ASSUME RuleInv, NEW q \in scope.requests, RequestStep(q)
  PROVE  RuleInv'
<1>1. ASSUME NEW rows, NEW state, NEW next, Commit(rows, state, q, next),
             state \in [Rules -> [enabled : BOOLEAN, regraded : BOOLEAN]],
             UNCHANGED <<scope, cache, load>>
      PROVE  RuleInv'
  <2>1. builtin' = state /\ revision' = (IF revision = 0 THEN 1 ELSE revision) + 1
    BY <1>1 DEF Commit
  <2>2. revision' \in Nat /\ revision' > revision
    BY <2>1 DEF RuleInv
  <2> QED
    BY <1>1, <2>1, <2>2, ChangeOutdates
<1>2. ASSUME NEW r \in scope.rules, NEW enabled \in BOOLEAN, NEW regraded \in BOOLEAN,
             SetBuiltin(q, r, enabled, regraded)
      PROVE  RuleInv'
  <2>1. [builtin EXCEPT ![r] = [enabled |-> enabled, regraded |-> regraded]]
          \in [Rules -> [enabled : BOOLEAN, regraded : BOOLEAN]]
    BY DEF RuleInv
  <2> QED
    BY <1>1, <1>2, <2>1 DEF SetBuiltin
<1>3. ASSUME NEW enabled \in BOOLEAN, NEW gated \in BOOLEAN, NEW next,
             Create(q, enabled, gated, next)
      PROVE  RuleInv'
  BY <1>1, <1>3 DEF Create, RuleInv
<1>4. ASSUME NEW c \in scope.ids, NEW rule \in CustomRule, UpdateCustom(q, c, rule)
      PROVE  RuleInv'
  BY <1>1, <1>4 DEF UpdateCustom, RuleInv
<1>5. ASSUME NEW c \in scope.ids, DeleteCustom(q, c)
      PROVE  RuleInv'
  BY <1>1, <1>5 DEF DeleteCustom, RuleInv
<1>6. CASE ForkDisables(q)
  <2>1. [builtin EXCEPT ![request[q].rule].enabled = FALSE]
          \in [Rules -> [enabled : BOOLEAN, regraded : BOOLEAN]]
    BY DEF RuleInv
  <2> QED
    BY <1>1, <1>6, <2>1 DEF ForkDisables
<1>7. CASE Refused(q)
  <2>1. revision' = 1 /\ revision = 0 /\ builtin' = builtin /\ UNCHANGED <<scope, cache, load>>
    BY <1>7 DEF Refused
  <2> QED
    BY <2>1, ChangeOutdates DEF RuleInv
<1>8. CASE invalidate_cache(q)
  <2>1. cache' = None /\ UNCHANGED <<scope, builtin, custom, revision, load>>
    BY <1>8 DEF invalidate_cache, stored
  <2>2. Now' = Now
    BY <2>1 DEF Now, CustomSet, Enabled
  <2> QED
    BY <2>1, <2>2 DEF RuleInv, LoadHolds
<1> QED
  BY <1>2, <1>3, <1>4, <1>5, <1>6, <1>7, <1>8
     DEF RequestStep, CreateCustom, Fork, ImportDocument

(***************************************************************************)
(* A run that loads its profile reads each part at the revision it noted,  *)
(* or the revision has moved on.                                           *)
(***************************************************************************)
LEMMA LoadKeeps ==
  ASSUME RuleInv, NEW n \in scope.runs, RunStep(n)
  PROVE  RuleInv'
<1>1. UNCHANGED <<scope, builtin, custom, revision>>
  BY DEF RunStep, ReadRevision, UseCache, ReadBuiltin,
     ReadCustom, Store, RunEnds, stored
<1>2. Now' = Now
  BY <1>1 DEF Now, CustomSet, Enabled
<1>3. ASSUME NEW l, At(n, l), LoadHolds(l), cache' # None => Fits(cache')
      PROVE  RuleInv'
  <2>1. DOMAIN load' = scope.runs /\ \A m \in scope.runs : load'[m] = IF m = n THEN l ELSE load[m]
    BY <1>3 DEF At, RuleInv
  <2>2. ASSUME NEW m \in scope.runs
        PROVE  LoadHolds(load[m])'
    BY <1>1, <1>2, <1>3, <2>1 DEF RuleInv, LoadHolds
  <2>3. cache' # None => Fits(cache)'
    BY <1>1, <1>2, <1>3 DEF Fits
  <2> QED
    BY <1>1, <1>2, <2>1, <2>2, <2>3 DEF RuleInv
<1>4. LoadHolds(load[n]) /\ revision \in Nat /\ (cache # None => Fits(cache))
  BY DEF RuleInv
<1>5. CASE ReadRevision(n)
  <2> DEFINE l == IF revision = 0 THEN Loaded(0, DefaultProfile)
                  ELSE [at |-> "revision", revision |-> revision]
  <2>1. At(n, l) /\ cache' = cache
    BY <1>5 DEF ReadRevision
  <2>2. LoadHolds(l)
    BY <1>4 DEF RuleInv, LoadHolds, Loaded
  <2> HIDE DEF l
  <2> QED
    BY <1>3, <1>4, <2>1, <2>2
<1>6. CASE UseCache(n)
  <2> DEFINE l == Loaded(load[n].revision, cache)
  <2>1. At(n, l) /\ cache' = cache
    BY <1>6 DEF UseCache
  <2>2. LoadHolds(l)
    BY <1>4, <1>6 DEF LoadHolds, Fits, UseCache, Hits, Loaded
  <2> HIDE DEF l
  <2> QED
    BY <1>3, <1>4, <2>1, <2>2
<1>7. CASE ReadBuiltin(n)
  <2> DEFINE l == [at |-> "builtin", revision |-> load[n].revision, builtin |-> builtin]
  <2>1. At(n, l) /\ cache' = cache
    BY <1>7 DEF ReadBuiltin
  <2>2. LoadHolds(l)
    BY <1>4, <1>7 DEF LoadHolds, ReadBuiltin
  <2> HIDE DEF l
  <2> QED
    BY <1>3, <1>4, <2>1, <2>2
<1>8. CASE ReadCustom(n)
  <2> DEFINE p == build_profile(load[n].revision, load[n].builtin, CustomSet)
             l == [at |-> "built", revision |-> load[n].revision, profile |-> p]
  <2>1. At(n, l) /\ cache' = cache /\ load[n].at = "builtin"
    BY <1>8 DEF ReadCustom
  <2>2. p.revision \in {0, load[n].revision}
    BY ProfileRevision
  <2>3. load[n].revision = revision => p = Now
    BY <1>4, <2>1 DEF LoadHolds, Now
  <2> HIDE DEF p
  <2>4. LoadHolds(l)
    BY <1>4, <2>1, <2>2, <2>3 DEF LoadHolds
  <2> HIDE DEF l
  <2> QED
    BY <1>3, <1>4, <2>1, <2>4
<1>9. CASE Store(n)
  <2> DEFINE l == Loaded(load[n].revision, load[n].profile)
  <2>1. At(n, l) /\ cache' = load[n].profile /\ load[n].at = "built"
    BY <1>9 DEF Store
  <2>2. LoadHolds(l)
    BY <1>4, <2>1 DEF LoadHolds, Loaded
  <2>3. Fits(cache')
    BY <1>4, <2>1 DEF LoadHolds, Fits
  <2> HIDE DEF l
  <2> QED
    BY <1>3, <2>1, <2>2, <2>3
<1>10. CASE RunEnds(n)
  <2>1. At(n, Idle) /\ cache' = cache
    BY <1>10 DEF RunEnds
  <2>2. LoadHolds(Idle)
    BY DEF LoadHolds, Idle
  <2> QED
    BY <1>3, <1>4, <2>1, <2>2
<1> QED
  BY <1>5, <1>6, <1>7, <1>8, <1>9, <1>10 DEF RunStep

LEMMA RuleInvInit == RuleInit => RuleInv
<1> SUFFICES ASSUME RuleInit
             PROVE  RuleInv
  OBVIOUS
<1>1. /\ builtin = [r \in Rules |-> [enabled |-> TRUE, regraded |-> FALSE]]
      /\ DOMAIN custom = {} /\ revision = 0 /\ cache = None
      /\ load = [n \in scope.runs |-> Idle]
  BY DEF RuleInit
<1>2. Now = DefaultProfile
  <2>1. CustomSet = {}
    BY <1>1 DEF CustomSet, Enabled
  <2>2. EffectiveDisabled(builtin) = {} /\ {r \in Rules : builtin[r].regraded} = {}
    BY <1>1 DEF EffectiveDisabled
  <2> QED
    BY <2>1, <2>2 DEF Now, build_profile
<1> QED
  BY <1>1, <1>2 DEF RuleInv, LoadHolds, Idle

LEMMA RuleInvStep == RuleInv /\ [RuleNext]_ruleVars => RuleInv'
<1> SUFFICES ASSUME RuleInv, [RuleNext]_ruleVars
             PROVE  RuleInv'
  OBVIOUS
<1>1. ASSUME UNCHANGED <<builtin, custom, revision>>
      PROVE  Now' = Now
  BY <1>1 DEF Now, CustomSet, Enabled
<1>2. CASE UNCHANGED ruleVars
  <2>1. UNCHANGED <<scope, builtin, custom, revision, cache, load>>
    BY <1>2 DEF ruleVars
  <2> QED
    BY <1>1, <2>1 DEF RuleInv, LoadHolds, Fits
<1>3. CASE Restart
  <2>1. /\ UNCHANGED <<scope, builtin, custom, revision>> /\ cache' = None
        /\ load' = [n \in scope.runs |-> Idle]
    BY <1>3 DEF Restart, stored
  <2> QED
    BY <1>1, <2>1 DEF RuleInv, LoadHolds, Idle
<1> QED
  BY <1>2, <1>3, RequestOutdates, LoadKeeps DEF RuleNext

(***************************************************************************)
(* A detection run whose rules did not change since it noted the revision  *)
(* works with the rules as they are, for any rules, requests and runs: a   *)
(* mixture of two revisions is never taken for the later one, and a cached *)
(* profile is used only at its own.                                        *)
(***************************************************************************)
THEOREM QuietLoadAlwaysExact == RuleSpec => []QuietLoadIsExact
<1>1. RuleInv => QuietLoadIsExact
  BY DEF RuleInv, LoadHolds, Now, QuietLoadIsExact
<1> QED
  BY <1>1, RuleInvInit, RuleInvStep, PTL DEF RuleSpec

(***************************************************************************)
(* A rule with rows reports under each of its ids exactly when it is on,   *)
(* though rules share ids and families; a rule in engine code reports      *)
(* whatever was switched; and a rule that is on has another severity       *)
(* exactly when it was given one and its rows have a severity.             *)
(***************************************************************************)
THEOREM RulesAlwaysApart == RuleSpec => []RulesStayApart
<1> DEFINE p == Now
           D == EffectiveDisabled(builtin)
           changed == {r \in Rules : builtin[r].regraded}
<1>1. ASSUME RuleInv, NEW r \in Rules, NEW l \in Legacy[r]
      PROVE  /\ Emits(p, r, l) = (r \notin D \/ Table[r] = "code")
             /\ r \notin D => Regraded(p, r, l) = (builtin[r].regraded /\ Table[r] \in {"cmdline", "graded"})
  <2>1. l \in Legacies /\ r \in Owners(l)
    BY DEF Legacies, Owners
  <2>2. CASE p = DefaultProfile /\ D = {} /\ changed = {}
    <3>1. Emits(p, r, l) /\ ~Regraded(p, r, l)
      BY <2>2 DEF Emits, Regraded, DefaultProfile
    <3>2. r \notin D /\ ~builtin[r].regraded
      BY <2>2
    <3>3. Emits(p, r, l) \in BOOLEAN /\ Regraded(p, r, l) \in BOOLEAN
      BY DEF Emits, Regraded
    <3> QED
      BY <3>1, <3>2, <3>3
  <2>3. CASE /\ p.dropped = {s \in D : Table[s] # "code"}
             /\ p.regradedRows = {s \in changed \ D : Table[s] \in {"cmdline", "graded"}}
             /\ p.silenced = {m \in Legacies : Silenced(m, D)}
             /\ \A m \in p.regradedIds : Owners(m) \subseteq changed
    <3>1. l \in p.silenced => r \in D
      BY <2>1, <2>3 DEF Silenced
    <3>2. Emits(p, r, l) <=> (r \notin D \/ Table[r] = "code")
      BY <2>3, <3>1 DEF Emits, AtFinding
    <3>3. l \in p.regradedIds => builtin[r].regraded
      BY <2>1, <2>3
    <3>4. r \notin D => (r \in p.regradedRows <=> builtin[r].regraded /\ Table[r] \in {"cmdline", "graded"})
      BY <2>3
    <3>5. r \notin D => (Regraded(p, r, l) <=> builtin[r].regraded /\ Table[r] \in {"cmdline", "graded"})
      BY <3>3, <3>4 DEF Regraded, AtFinding
    <3>6. Emits(p, r, l) \in BOOLEAN /\ Regraded(p, r, l) \in BOOLEAN
      BY DEF Emits, Regraded
    <3>7. (builtin[r].regraded /\ Table[r] \in {"cmdline", "graded"}) \in BOOLEAN
      OBVIOUS
    <3> HIDE DEF D, p, changed
    <3> QED
      BY <3>2, <3>5, <3>6, <3>7
  <2>4. CASE D = {} /\ changed = {} /\ CustomSet = {}
    BY <2>2, <2>4 DEF Now, build_profile
  <2>5. CASE ~(D = {} /\ changed = {} /\ CustomSet = {})
    BY <2>3, <2>5 DEF Now, build_profile
  <2> QED
    BY <2>4, <2>5
<1>2. RuleInv => RulesStayApart
  BY <1>1 DEF RulesStayApart, Now
<1> QED
  BY <1>2, RuleInvInit, RuleInvStep, PTL DEF RuleSpec
===============================================================================

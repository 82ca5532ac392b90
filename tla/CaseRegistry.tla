---------------------------- MODULE CaseRegistry -----------------------------
(***************************************************************************)
(* backend/app/store/cases.py and the engine cache of store/database.py:   *)
(* which cases exist.  A case is an entry of registry.json, a directory    *)
(* with its uploads and its database, and a cached engine; the three are   *)
(* changed by worker threads that run at the same time, and only the       *)
(* entry is protected by _REGISTRY_LOCK.                                   *)
(*                                                                         *)
(* A thread reads and writes the registry file in separate steps, makes    *)
(* and removes a directory entry by entry, and may be stopped between any  *)
(* two steps by the end of the process.  init_db and dispose_db hold       *)
(* _ENGINE_LOCK from end to end and are one step each.                     *)
(***************************************************************************)
EXTENDS Integers, FiniteSets

CONSTANTS
  Case,         \* case ids; each is drawn once (uuid4)
  Thread,       \* worker threads of the backend
  NoThread,     \* nobody holds _REGISTRY_LOCK
  Faults,       \* the calls that may fail
  MaxCrashes    \* bound on the number of backend crashes

ASSUME CaseAssumption == Case # {}
ASSUME NoThreadAssumption == NoThread \notin Thread
ASSUME FaultsAssumption == Faults \subseteq {"schema", "rmtree"}
ASSUME CrashAssumption == MaxCrashes \in Nat

VARIABLES
  registry,   \* the cases in registry.json
  lock,       \* the thread that holds _REGISTRY_LOCK
  disk,       \* what the directory of each case holds
  engines,    \* the cases in _ENGINE_CACHE
  at,         \* where each thread stands
  on,         \* the case it works on
  copy,       \* the registry it loaded, with its changes
  life,       \* how far the case was created or deleted (history)
  crashes

vars == <<registry, lock, disk, engines, at, on, copy, life, crashes>>

Entries == {"dir", "uploads", "db", "schema"}

\* A directory holds what it holds, and tables are inside a database file.
Placed(entries) ==
  /\ entries # {} => "dir" \in entries
  /\ "schema" \in entries => "db" \in entries

TypeOK ==
  /\ registry \subseteq Case
  /\ lock \in Thread \cup {NoThread}
  /\ disk \in [Case -> SUBSET Entries] /\ \A c \in Case : Placed(disk[c])
  /\ engines \subseteq Case
  /\ at \in [Thread -> {"idle", "making", "filling", "initializing", "entering",
                        "disposing", "removing", "saving", "opening"}]
  /\ on \in [Thread -> Case]
  /\ copy \in [Thread -> SUBSET Case]
  /\ life \in [Case -> {"new", "creating", "made", "doomed", "gone"}]
  /\ crashes \in 0 .. MaxCrashes

AnyCase == CHOOSE c \in Case : TRUE

Init ==
  /\ registry = {}
  /\ lock = NoThread
  /\ disk = [c \in Case |-> {}]
  /\ engines = {}
  /\ at = [t \in Thread |-> "idle"]
  /\ on = [t \in Thread |-> AnyCase]
  /\ copy = [t \in Thread |-> {}]
  /\ life = [c \in Case |-> "new"]
  /\ crashes = 0

Goto(t, s) == at' = [at EXCEPT ![t] = s]

Start(t, c, s) == at[t] = "idle" /\ Goto(t, s) /\ on' = [on EXCEPT ![t] = c]

-----------------------------------------------------------------------------
(* The registry file: load, change, write a temporary file, replace.       *)

\* Mutant: a caller that takes no lock around its read-modify-write.
LoadUnlocked(t, changed) ==
  /\ UNCHANGED lock
  /\ copy' = [copy EXCEPT ![t] = changed]

Load(t, changed) ==
  /\ lock = NoThread
  /\ lock' = t
  /\ copy' = [copy EXCEPT ![t] = changed]

\* os.replace makes the new file visible; the with statement lets the lock go.
Replace(t) ==
  /\ registry' = copy[t]
  /\ lock' = IF lock = t THEN NoThread ELSE lock
  /\ copy' = [copy EXCEPT ![t] = {}]

\* The last step of every call that changes the registry.
Save(t) ==
  /\ at[t] = "saving"
  /\ Replace(t)
  /\ life' = [life EXCEPT ![on[t]] =
                IF @ = "creating" /\ on[t] \in copy[t] THEN "made"
                ELSE IF @ = "doomed" /\ on[t] \notin copy[t] THEN "gone"
                ELSE @]
  /\ Goto(t, "idle")
  /\ UNCHANGED <<disk, engines, on, crashes>>

-----------------------------------------------------------------------------
(* init_db and dispose_db.                                                 *)

\* A cached engine is handed out as it is, and its next connection creates a
\* database file without tables if there is none.
InitDb(c) ==
  /\ disk' = [disk EXCEPT ![c] = @ \cup {"dir", "db"} \cup
                (IF c \in engines THEN {} ELSE {"schema"})]
  /\ engines' = engines \cup {c}

\* The engine is cached before its schema is made.
InitDbFails(c) ==
  /\ "schema" \in Faults /\ c \notin engines
  /\ disk' = [disk EXCEPT ![c] = @ \cup {"dir", "db"}]
  /\ engines' = engines \cup {c}

-----------------------------------------------------------------------------
(* create_case: the directory and the database first, the entry last.      *)

CreateStart(t, c) ==
  /\ life[c] = "new"
  /\ Start(t, c, "making")
  /\ life' = [life EXCEPT ![c] = "creating"]
  /\ UNCHANGED <<registry, lock, disk, engines, copy, crashes>>

CreateDir(t) ==
  /\ at[t] = "making"
  /\ disk' = [disk EXCEPT ![on[t]] = @ \cup {"dir"}]
  /\ Goto(t, "filling")
  /\ UNCHANGED <<registry, lock, engines, on, copy, life, crashes>>

CreateUploads(t) ==
  /\ at[t] = "filling"
  /\ disk' = [disk EXCEPT ![on[t]] = @ \cup {"uploads"}]
  /\ Goto(t, "initializing")
  /\ UNCHANGED <<registry, lock, engines, on, copy, life, crashes>>

\* Mutant: the case is entered in the registry although its schema failed.
CreateRegardless(t) ==
  /\ at[t] = "initializing"
  /\ (InitDb(on[t]) \/ InitDbFails(on[t])) /\ Goto(t, "entering")
  /\ UNCHANGED <<registry, lock, on, copy, life, crashes>>

CreateDb(t) ==
  /\ at[t] = "initializing"
  /\ \/ InitDb(on[t]) /\ Goto(t, "entering")
     \/ InitDbFails(on[t]) /\ Goto(t, "idle")
  /\ UNCHANGED <<registry, lock, on, copy, life, crashes>>

CreateEntry(t) ==
  /\ at[t] = "entering"
  /\ Load(t, registry \cup {on[t]})
  /\ Goto(t, "saving")
  /\ UNCHANGED <<registry, disk, engines, on, life, crashes>>

-----------------------------------------------------------------------------
(* update_case_meta: the status of a case, written by whoever works on it. *)

Update(t, c) ==
  /\ Load(t, registry)
  /\ c \in registry
  /\ Start(t, c, "saving")
  /\ UNCHANGED <<registry, disk, engines, life, crashes>>

-----------------------------------------------------------------------------
(* delete_case: the files first, the entry last, under one lock.           *)

DeleteStart(t, c) ==
  /\ Start(t, c, "disposing")
  /\ c \in registry
  /\ Load(t, registry)
  /\ life' = [life EXCEPT ![c] = "doomed"]
  /\ UNCHANGED <<registry, disk, engines, crashes>>

DeleteDispose(t) ==
  /\ at[t] = "disposing"
  /\ engines' = engines \ {on[t]}
  /\ Goto(t, "removing")
  /\ UNCHANGED <<registry, lock, disk, on, copy, life, crashes>>

\* _rmtree_with_retries: entry by entry, the directory last.
DeleteFiles(t) ==
  LET c == on[t]
  IN  /\ at[t] = "removing"
      /\ \E gone \in {{"uploads"}, {"db", "schema"}, {"dir"}} :
           /\ gone \cap disk[c] # {}
           /\ gone = {"dir"} => disk[c] = {"dir"}
           /\ disk' = [disk EXCEPT ![c] = @ \ gone]
      /\ UNCHANGED <<registry, lock, engines, at, on, copy, life, crashes>>

DeleteEntry(t) ==
  /\ at[t] = "removing"
  /\ disk[on[t]] = {}
  /\ copy' = [copy EXCEPT ![t] = @ \ {on[t]}]
  /\ Goto(t, "saving")
  /\ UNCHANGED <<registry, lock, disk, engines, on, life, crashes>>

\* Something cannot be removed: the case stays, with part of its files.
DeleteFails(t) ==
  /\ at[t] = "removing"
  /\ "rmtree" \in Faults
  /\ lock' = NoThread
  /\ copy' = [copy EXCEPT ![t] = {}]
  /\ Goto(t, "idle")
  /\ UNCHANGED <<registry, disk, engines, on, life, crashes>>

-----------------------------------------------------------------------------
(* get_session: the registry is read under the lock, the database opened   *)
(* without it.                                                             *)

OpenCheck(t, c) ==
  /\ lock = NoThread
  /\ c \in registry
  /\ Start(t, c, "opening")
  /\ UNCHANGED <<registry, lock, disk, engines, copy, life, crashes>>

OpenDb(t) ==
  /\ at[t] = "opening"
  /\ InitDb(on[t]) \/ InitDbFails(on[t])
  /\ Goto(t, "idle")
  /\ UNCHANGED <<registry, lock, on, copy, life, crashes>>

-----------------------------------------------------------------------------
\* cleanup_orphan_case_dirs keeps what is registered, and what does not look
\* like a case (no database and no uploads).
Survives(c) == c \in registry \/ disk[c] \cap {"uploads", "db"} = {}

\* The process ends at any point; the next one starts by cleaning up.
CrashAndRestart ==
  /\ crashes < MaxCrashes
  /\ crashes' = crashes + 1
  /\ lock' = NoThread
  /\ engines' = {}
  /\ disk' = [c \in Case |-> IF Survives(c) THEN disk[c] ELSE {}]
  /\ at' = [t \in Thread |-> "idle"]
  /\ copy' = [t \in Thread |-> {}]
  /\ UNCHANGED <<registry, on, life>>

Step(t) ==
  \/ \E c \in Case : CreateStart(t, c) \/ Update(t, c) \/ DeleteStart(t, c) \/ OpenCheck(t, c)
  \/ CreateDir(t) \/ CreateUploads(t) \/ CreateDb(t) \/ CreateEntry(t)
  \/ DeleteDispose(t) \/ DeleteFiles(t) \/ DeleteEntry(t) \/ DeleteFails(t)
  \/ OpenDb(t) \/ Save(t)

Next == (\E t \in Thread : Step(t)) \/ CrashAndRestart

Spec == Init /\ [][Next]_vars

-----------------------------------------------------------------------------
\* A case that was created stays listed, with its uploads and its tables, until
\* somebody deletes it: no concurrent update drops the entry, and no restart
\* takes its directory for an orphan.
CreatedCaseStaysWhole ==
  \A c \in Case : life[c] = "made" => c \in registry /\ disk[c] = Entries

\* What the registry lists was created to the end: a listed case was not
\* entered before, or in spite of, a failing database, and a deleted one is
\* not brought back by an update that had read the registry before.
ListedCaseWasCreated ==
  \A c \in registry : life[c] \in {"made", "doomed"}

==============================================================================

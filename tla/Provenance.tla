------------------------------ MODULE Provenance ------------------------------
(***************************************************************************)
(* How detect/engine.py follows a file from the row that brought it to the *)
(* machine, through the renames and deletions of a file journal, to a row  *)
(* that says it ran.                                                       *)
(*                                                                         *)
(* The variables are the machine the rows come from: where each file was and *)
(* when, which telemetry it keeps, and the rows of the case so far.  A row also  *)
(* names the file it is about; the correlation never reads that field, the *)
(* properties do.  The correlation is a function of the rows.              *)
(*                                                                         *)
(* A path is a directory and a name; normalization of paths, URLs, texts   *)
(* and the tokens of a name are abstracted to the sets Distinctive and     *)
(* Common.  Every name is that of a program, a script or an archive.  Rows *)
(* are numbered in the order of their times; the rows of one rename lie    *)
(* together.                                                               *)
(***************************************************************************)
EXTENDS Naturals, FiniteSets, SequencesExt, Severities, FileNames

CONSTANTS
  File,         \* the files, which no row can tell apart but by reference
  Dir, Base,    \* directories and names
  Path,         \* the paths files can have, a record of both
  Writable,     \* the directories users can write to
  Executable,   \* the names of programs and scripts, by their extension
  Distinctive,  \* names with a token nothing else has
  Common,       \* names of installers and the like
  Window,       \* how long a download can be the origin of what runs
  Telemetry,    \* "usn": two rows a rename, with file references; "bare":
                \* the same without; "renamed": one row a rename (Defender)
  Arrival,      \* for each telemetry, the kinds of the rows that bring a file
  CloseLost,    \* whether a journal loses one new-name row without the other
  Origin,       \* whether downloads come with the address they came from
  Form,         \* what a row of a run tells: the whole path or only the name,
                \* a time or none, and how severe it is
  MaxClock

ASSUME ProvenanceConstants ==
  /\ None \notin File /\ None \notin Nat /\ None # "exact"
  /\ \A p \in Path : IsFileName(p) /\ None \notin {p, NameOnly(p), p.base}
  /\ Telemetry \subseteq {"usn", "bare", "renamed"} /\ Origin \subseteq BOOLEAN
  /\ CloseLost \in BOOLEAN
  /\ Arrival \in [Telemetry -> SUBSET {"download", "create"}]
  /\ \A form \in Form : form.severity \in Grades
  /\ Window \in Nat /\ MaxClock \in Nat

VARIABLES rows, history, telemetry, missing, clock

originVars == <<rows, history, telemetry, missing, clock>>

-----------------------------------------------------------------------------
(* What the rows say.  Defender's reference is a hash of the contents, in which *)
(* the files here differ.                                                        *)

LogRow(kind, f, path) ==
  [kind |-> kind, file |-> f, path |-> path, old |-> None, time |-> clock,
   origin |-> FALSE, severity |-> Low,
   ref |-> IF telemetry = "bare" THEN None ELSE f]

\* The rows the rebuild looks at: of a file journal, and all that Defender tells of
\* files is one, those whose own path is that of a program or script.
Read(r) ==
  \/ r.kind = "run"
  \/ r.kind = "download" /\ telemetry # "renamed"
  \/ r.path.base \in Executable

\* _collect_file_artifacts: rows that bring a file.
Brings(r) ==
  \/ r.kind = "download"
  \/ r.kind \in {"create", "new", "renamed"} /\ r.path.dir \in Writable

\* _collect_usn_renames, _collect_defender_renames: an old-name row is kept by
\* its reference, or on a stack, for the new-name rows that come later.
Rename(r, old) == [old |-> old, new |-> r.path, ref |-> r.ref, time |-> r.time, row |-> r]

\* Mutant: the references of the rows are not looked at.
PairedByOrder(s, r) ==
  CASE r.kind = "renamed" -> [s EXCEPT !.pairs = Append(@, Rename(r, r.old))]
    [] r.kind = "old" -> [s EXCEPT !.stack = Append(@, r.path)]
    [] r.kind = "new" /\ s.stack # <<>> ->
         [s EXCEPT !.pairs = Append(@, Rename(r, Last(s.stack))), !.stack = Front(@)]
    [] OTHER -> s

PairRow(s, r) ==
  CASE r.kind = "renamed" -> [s EXCEPT !.pairs = Append(@, Rename(r, r.old))]
    [] r.kind = "old" /\ r.ref # None -> [s EXCEPT !.byRef[r.ref] = r.path]
    [] r.kind = "old" /\ r.ref = None -> [s EXCEPT !.stack = Append(@, r.path)]
    [] r.kind = "new" /\ r.ref # None /\ s.byRef[r.ref] # None ->
         [s EXCEPT !.pairs = Append(@, Rename(r, s.byRef[r.ref]))]
    [] r.kind = "new" /\ r.ref = None /\ s.stack # <<>> ->
         [s EXCEPT !.pairs = Append(@, Rename(r, Last(s.stack))), !.stack = Front(@)]
    [] OTHER -> s

Renames(log) ==
  FoldLeft(PairRow, [byRef |-> [f \in File |-> None], stack |-> <<>>, pairs |-> <<>>], log).pairs

-----------------------------------------------------------------------------
(* The lifecycle of an artifact: the names it went by, one segment each. *)

Segment(path, start) == [path |-> path, start |-> start, end |-> None]

Candidate(r) ==
  [row |-> r, ref |-> None, renames |-> <<>>, deletes |-> <<>>,
   segments |-> <<Segment(r.path, r.time)>>]

Current(c) == Last(c.segments).path

InWindow(c, time) == time = None \/ time \in c.row.time .. c.row.time + Window

SegmentActive(s, time) ==
  time = None \/ (s.start <= time /\ (s.end = None \/ time <= s.end))

\* What a name alone is worth, without references.
SameName(c, base) == c.ref = None /\ base = Current(c).base /\ base \notin Common

SameReference(c, ref) == ref # None /\ c.ref = ref

MatchesRename(c, rn) ==
  SameReference(c, rn.ref) \/ Current(c) = rn.old \/ SameName(c, rn.old.base)

MatchesDelete(c, d) ==
  \/ SameReference(c, d.ref)
  \/ \E i \in DOMAIN c.segments :
       c.segments[i].path = d.path /\ SegmentActive(c.segments[i], d.time)
  \/ SameName(c, d.path.base)

Renamed(c, rn) ==
  [c EXCEPT !.ref = IF @ = None THEN rn.ref ELSE @,
            !.renames = Append(@, rn),
            !.segments = Append([@ EXCEPT ![Len(@)].end = rn.time], Segment(rn.new, rn.time))]

Deleted(c, d) ==
  [c EXCEPT !.ref = IF @ = None THEN d.ref ELSE @, !.deletes = Append(@, d)]

\* The indexes: pairs of a key and an artifact.
Keys(cs, hit, Key(_)) == {<<Key(cs[i]), i>> : i \in {j \in hit : Key(cs[j]) # None}}
Under(index, key) == {e[2] : e \in {x \in index : x[1] = key}}
Ref(c) == c.ref
CurrentBase(c) == Current(c).base

Indexed(cs) ==
  [cs |-> cs, byRef |-> {}, byPath |-> Keys(cs, DOMAIN cs, Current),
   byBase |-> Keys(cs, DOMAIN cs, CurrentBase), bySegment |-> Keys(cs, DOMAIN cs, Current)]

RenamePool(s, rn) ==
  Under(s.byRef, rn.ref) \cup Under(s.byPath, rn.old) \cup Under(s.byBase, rn.old.base)

DeletePool(s, d) ==
  Under(s.byRef, d.ref) \cup Under(s.bySegment, d.path) \cup Under(s.byBase, d.path.base)

\* Mutant: the references and the paths of segments are not indexed again.
RenameKeepsIndexes(s, rn, pool) ==
  LET hit == {i \in pool : InWindow(s.cs[i], rn.time) /\ MatchesRename(s.cs[i], rn)}
      new == [i \in DOMAIN s.cs |-> IF i \in hit THEN Renamed(s.cs[i], rn) ELSE s.cs[i]]
      Reindexed(index, Key(_)) == (index \ Keys(s.cs, hit, Key)) \cup Keys(new, hit, Key)
  IN [s EXCEPT !.cs = new, !.byPath = Reindexed(@, Current), !.byBase = Reindexed(@, CurrentBase)]

ApplyRename(s, rn, pool) ==
  LET hit == {i \in pool : InWindow(s.cs[i], rn.time) /\ MatchesRename(s.cs[i], rn)}
      new == [i \in DOMAIN s.cs |-> IF i \in hit THEN Renamed(s.cs[i], rn) ELSE s.cs[i]]
      Reindexed(index, Key(_)) == (index \ Keys(s.cs, hit, Key)) \cup Keys(new, hit, Key)
  IN [cs |-> new,
      byRef |-> Reindexed(s.byRef, Ref),
      byPath |-> Reindexed(s.byPath, Current),
      byBase |-> Reindexed(s.byBase, CurrentBase),
      bySegment |-> s.bySegment \cup Keys(new, hit, Current)]

ApplyDelete(s, d, pool) ==
  LET hit == {i \in pool : InWindow(s.cs[i], d.time) /\ MatchesDelete(s.cs[i], d)}
      new == [i \in DOMAIN s.cs |-> IF i \in hit THEN Deleted(s.cs[i], d) ELSE s.cs[i]]
  IN [s EXCEPT !.cs = new, !.byRef = @ \cup Keys(new, hit, Ref)]

Candidates(log) ==
  [i \in {j \in DOMAIN log : Brings(log[j])} |-> Candidate(log[i])]

\* _collect_usn_deletes
Deletes(r) == r.kind = "delete"

\* _artifact_lifecycles: every rename, then every deletion.
Lifecycles(log) ==
  LET renamed == FoldLeft(LAMBDA s, rn : ApplyRename(s, rn, RenamePool(s, rn)),
                          Indexed(Candidates(log)), Renames(log))
  IN FoldLeft(LAMBDA s, r : IF Deletes(r) THEN ApplyDelete(s, r, DeletePool(s, r)) ELSE s,
              renamed, log).cs

-----------------------------------------------------------------------------
(* From a lifecycle to a finding. *)

\* _artifact_match_confidence
Confidence(path, exec) ==
  CASE path = exec -> "exact"
    [] path # exec /\ path.base = exec.base /\ path.base \in Distinctive -> "distinctive"
    [] path # exec /\ path.base = exec.base /\ path.base \notin Distinctive \cup Common -> "basename"
    [] OTHER -> None

Gap(c, x) == IF x.time = None THEN Window ELSE x.time - c.row.time

\* _match_candidate_execution: the first, in the order of segments and rows, of
\* the least score.
RunHits(c, log) ==
  {h \in (DOMAIN c.segments) \X (DOMAIN log) :
     LET s == c.segments[h[1]] x == log[h[2]]
     IN /\ x.kind = "run"
        /\ Confidence(s.path, x.path) # None
        /\ SegmentActive(s, x.time) /\ InWindow(c, x.time)}

Score(c, log, h) ==
  Gap(c, log[h[2]])
    + IF Confidence(c.segments[h[1]].path, log[h[2]].path) = "exact" THEN 0 ELSE Window

Best(c, log, hits) ==
  CHOOSE h \in hits : \A o \in hits \ {h} :
    \/ Score(c, log, h) < Score(c, log, o)
    \/ /\ Score(c, log, h) = Score(c, log, o)
       /\ h[1] < o[1] \/ (h[1] = o[1] /\ h[2] < o[2])

\* _candidate_delete_after: at most one, the earliest.
DeleteAfter(c, x) ==
  LET after == {i \in DOMAIN c.deletes : x.time # None /\ c.deletes[i].time > x.time}
  IN IF after = {} THEN <<>> ELSE <<c.deletes[Min(after)]>>

\* Mutant: the renames after the run are told too.
WholeChain(c, segment) == c.renames

\* The renames that led to a segment.
Chain(c, segment) == SubSeq(c.renames, 1, segment - 1)

Story(c, log, h) ==
  LET x == log[h[2]]
  IN [artifact |-> c.row, execution |-> x,
      confidence |-> Confidence(c.segments[h[1]].path, x.path),
      chain |-> Chain(c, h[1]),
      deleted |-> DeleteAfter(c, x),
      severity |-> IF High \in {x.severity, c.row.severity} THEN High ELSE Medium]

\* What is told although nothing about it is suspicious yet.
Strong(g) ==
  \/ g.confidence = "exact" \/ g.chain # <<>> \/ g.deleted # <<>>
  \/ g.artifact.kind = "download" /\ g.artifact.origin

Told(g) == Strong(g) \/ g.execution.severity >= Medium \/ g.artifact.severity >= Medium

\* _add_finding: the title and the executed path are the key.
FindingKey(g) ==
  <<g.artifact.path.base, g.chain # <<>>, g.deleted # <<>>, g.execution.path>>

ToldOf(story) == [i \in {j \in DOMAIN story : Told(story[j])} |-> story[i]]

\* _correlate_file_execution_provenance: what is told of each artifact that ran.
Stories(log) ==
  LET cs == Lifecycles(log)
      ran == {i \in DOMAIN cs : RunHits(cs[i], log) # {}}
  IN ToldOf([i \in ran |-> Story(cs[i], log, Best(cs[i], log, RunHits(cs[i], log)))])

\* A finding is made of the first of each key.
FirstOfKeys(stories) ==
  {stories[i] : i \in {j \in DOMAIN stories : \A k \in DOMAIN stories :
     k < j => FindingKey(stories[k]) # FindingKey(stories[j])}}

OriginFindings(log) == FirstOfKeys(Stories(log))

\* The rows _escalate_event raises, whether or not there was such a finding.
Escalated(g) ==
  {g.artifact, g.execution} \cup {g.chain[i].row : i \in DOMAIN g.chain}
    \cup {g.deleted[i] : i \in DOMAIN g.deleted}

-----------------------------------------------------------------------------
(* The machine. *)

Stay(path) == [path |-> path, since |-> clock]
Where(f) == Last(history[f]).path
Present(f) == history[f] # <<>> /\ Where(f) # None
Free(path) == \A f \in File : Present(f) => Where(f) # path

\* A program of the system may have been there before anything was recorded.
OriginInit ==
  /\ rows = <<>> /\ clock = 0
  /\ history \in {[g \in File |-> <<>>]} \cup
       {[g \in File |-> IF g = f THEN <<Stay(p)>> ELSE <<>>] : f \in File, p \in {q \in Path : q.dir \notin Writable}}
  /\ telemetry \in Telemetry
  /\ missing = FALSE

\* Of all that could be told, what is there to be read.
Log(all, kept) ==
  /\ \A k \in DOMAIN kept : Read(kept[k])
  /\ clock < MaxClock /\ clock' = clock + 1
  /\ rows' = rows \o kept
  /\ missing' = (missing \/ kept # all)
  /\ UNCHANGED telemetry

LogOne(r) == Log(<<r>>, IF Read(r) THEN <<r>> ELSE <<>>)

\* _download_evidence, or the creation a journal records.
Arrive(f, path, kind, origin) ==
  /\ history[f] = <<>> /\ Free(path)
  /\ history' = [history EXCEPT ![f] = <<Stay(path)>>]
  /\ LogOne([LogRow(kind, f, path) EXCEPT !.origin = kind = "download" /\ origin])

\* A rename is one row, or in the journal the old name, the new name and, as the
\* file is closed, the new name again.
MoveRows(f, path) ==
  LET new == LogRow("new", f, path)
  IN IF telemetry = "renamed" THEN <<[LogRow("renamed", f, path) EXCEPT !.old = Where(f)]>>
     ELSE <<LogRow("old", f, Where(f)), new, new>>

\* The journal may have lost some of them: those of either name, or the one alone
\* that the closing of the file left.
Remains(all) ==
  {all, <<>>}
    \cup IF Len(all) = 1 THEN {} ELSE {<<all[1]>>, <<all[2], all[3]>>}
    \cup IF Len(all) = 1 \/ ~CloseLost THEN {} ELSE {<<all[2]>>, <<all[1], all[2]>>}

Move(f, path) ==
  /\ Present(f) /\ Free(path)
  /\ history' = [history EXCEPT ![f] = Append(@, Stay(path))]
  /\ \E kept \in Remains(MoveRows(f, path)) : Log(MoveRows(f, path), kept)

Erase(f) ==
  /\ Present(f)
  /\ history' = [history EXCEPT ![f] = Append(@, Stay(None))]
  /\ LogOne(LogRow("delete", f, Where(f)))

\* _event_execution: a row that says a program ran, by its path or only by its
\* name, at a known time or not.
Run(f, form) ==
  /\ Present(f)
  /\ UNCHANGED history
  /\ LET x == LogRow("run", f, IF form.named THEN Where(f) ELSE NameOnly(Where(f)))
     IN LogOne([x EXCEPT !.severity = form.severity, !.time = IF form.timed THEN @ ELSE None])

OriginNext ==
  \/ \E f \in File, path \in Path, kind \in Arrival[telemetry], origin \in Origin :
       Arrive(f, path, kind, origin)
  \/ \E f \in File, path \in Path : Move(f, path)
  \/ \E f \in File : Erase(f)
  \/ \E f \in File, form \in Form : Run(f, form)

OriginSpec == OriginInit /\ [][OriginNext]_originVars

-----------------------------------------------------------------------------
(* Properties. *)

\* The lifecycles without the indexes: every artifact is offered every rename,
\* then every deletion.
Scanned(log) ==
  LET OfferRename(c, rn) == IF InWindow(c, rn.time) /\ MatchesRename(c, rn) THEN Renamed(c, rn) ELSE c
      OfferDelete(c, r) ==
        IF Deletes(r) /\ InWindow(c, r.time) /\ MatchesDelete(c, r) THEN Deleted(c, r) ELSE c
      cs == Candidates(log)
      renames == Renames(log)
  IN [i \in DOMAIN cs |-> FoldLeft(OfferDelete, FoldLeft(OfferRename, cs[i], renames), log)]

\* Looking artifacts up by reference, by path and by name, in indexes that are
\* kept as artifacts move, loses no rename and no deletion of any of them.
IndexesMissNothing == Lifecycles(rows) = Scanned(rows)

PathsOf(r) == {r.path, r.old} \ {None}

\* No two files ever had one name.
NamesTellFilesApart ==
  \A i, j \in DOMAIN rows : rows[i].file # rows[j].file =>
    \A p \in PathsOf(rows[i]), q \in PathsOf(rows[j]) : p.base # q.base

\* While names tell files apart, everything a finding is told from and every row
\* raised with it - the row that brought the file, its renames, what ran, what was
\* deleted afterwards - is about one file: whatever rows are missing where they
\* carry file references, and while none is missing where they do not.
NoForeignLinks ==
  NamesTellFilesApart /\ (telemetry = "bare" => ~missing) =>
    \A g \in Range(Stories(rows)) : \A r \in Escalated(g) : r.file = g.artifact.file

\* The names of a file until a time, and those of a chain of renames.
NamesUntil(f, time) ==
  [i \in {j \in DOMAIN history[f] : history[f][j].since <= time} |-> history[f][i].path]

NamesOf(g) ==
  FoldLeft(LAMBDA names, rn : IF rn.new = Last(names) THEN names ELSE Append(names, rn.new),
           <<g.artifact.path>>, g.chain)

DownloadRan(d, x) ==
  /\ d.kind = "download" /\ x.kind = "run" /\ d.file = x.file
  /\ x.time # None /\ x.time <= d.time + Window /\ x.path.dir # None

\* When no row is missing, lost or for its extension not looked at, and names tell
\* files apart, a download that ran under its full path within the window is told,
\* and the chain told is the one the file went through: it is followed through
\* every rename to the run.
TracedThroughRenames ==
  NamesTellFilesApart /\ ~missing =>
    LET told == OriginFindings(rows)
    IN \A i, j \in DOMAIN rows : DownloadRan(rows[i], rows[j]) =>
      \E g \in told :
        /\ g.artifact = rows[i]
        /\ g.execution.time # None =>
             NamesOf(g) = NamesUntil(rows[i].file, g.execution.time)
=============================================================================

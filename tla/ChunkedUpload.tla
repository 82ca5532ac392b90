---------------------------- MODULE ChunkedUpload ----------------------------
(***************************************************************************)
(* api/cases_router.py, upload_chunk: a large file sent as numbered chunks *)
(* to one case, together with the whole-file uploads and the deletions     *)
(* that touch the same names.  Each request runs inside the slot of the    *)
(* case (CaseMutex), so at most one is under way: "now".  What remains     *)
(* concurrent are the worker threads of asyncio.to_thread: cancelling the  *)
(* request does not stop them, and "threads" holds those left behind.      *)
(*                                                                         *)
(* A chunk is the pair <<index, total>> its request declared and counts as *)
(* one byte, so _ChunkUploadState.bytes_written equals next_index.  The    *)
(* ingestion that follows a complete upload is in EvidencePipeline.        *)
(***************************************************************************)
EXTENDS Integers, Sequences, FiniteSets, FiniteSetsExt

CONSTANTS
  Name,         \* upload names
  None,         \* no upload state, no file
  MaxChunks,    \* bound on the number of chunks of a file
  MaxFile,      \* MAX_UPLOAD_BYTES
  MaxCase,      \* MAX_CASE_BYTES
  MaxStarts,    \* bound on the number of chunked uploads begun
  CancelPoints, \* the awaits at which a request may be cancelled
  MaxCancels,   \* bound on the number of cancelled requests
  MaxCrashes    \* bound on the number of backend crashes

ASSUME NameAssumption == IsFiniteSet(Name)

ASSUME BoundsAssumption ==
  /\ MaxChunks \in Nat \ {0} /\ MaxFile \in Nat /\ MaxCase \in Nat
  /\ MaxStarts \in Nat /\ MaxCancels \in Nat /\ MaxCrashes \in Nat
  /\ CancelPoints \subseteq {"start", "append", "rename", "replace"}

VARIABLES
  now,      \* the request inside the slot
  up,       \* _CHUNK_UPLOADS: the upload under way for each name
  part,     \* the private .parts files, one per upload begun
  file,     \* the committed files
  starts,   \* how many uploads were begun
  threads,  \* worker threads whose request was cancelled
  cancels, crashes

vars == <<now, up, part, file, starts, threads, cancels, crashes>>

Parts == 1 .. MaxStarts
Chunk == (0 .. MaxChunks - 1) \X (1 .. MaxChunks)
Upload == [part : Parts, total : 1 .. MaxChunks, next : 0 .. MaxChunks - 1]

ASSUME NoneAssumption == None \notin Upload /\ None \notin Seq(Chunk)

Idle == [at |-> "idle"]
Thread == [does : {"append"}, part : Parts, chunk : Chunk, size : Nat]
          \cup [does : {"rename"}, part : Parts, name : Name]

TypeOK ==
  /\ now \in {Idle} \cup [at : {"checked", "appended"}, name : Name,
                          chunk : Chunk, replacing : BOOLEAN]
  /\ up \in [Name -> Upload \cup {None}]
  /\ part \in [Parts -> Seq(Chunk) \cup {None}]
  /\ file \in [Name -> Seq(Chunk) \cup {None}]
  /\ starts \in 0 .. MaxStarts
  /\ threads \subseteq Thread
  /\ cancels \in 0 .. MaxCancels
  /\ crashes \in 0 .. MaxCrashes

\* The first k chunks of a file of t chunks.
Prefix(k, t) == [i \in 1 .. k |-> <<i - 1, t>>]

Init ==
  /\ now = Idle
  /\ up = [n \in Name |-> None]
  /\ part = [p \in Parts |-> None]
  /\ file = [n \in Name |-> None]
  /\ starts = 0
  /\ threads = {}
  /\ cancels = 0 /\ crashes = 0

Cancelled(point) ==
  /\ point \in CancelPoints
  /\ cancels < MaxCancels
  /\ cancels' = cancels + 1

-----------------------------------------------------------------------------
(* Files and quotas.                                                       *)

\* _discard_chunk_upload: what remains of the parts without the upload of n.
WithoutPart(n) ==
  [p \in Parts |-> IF up[n] # None /\ p = up[n].part THEN None ELSE part[p]]

Discard(n) == up' = [up EXCEPT ![n] = None] /\ part' = WithoutPart(n)

\* truncate(size)
Cut(s, size) ==
  IF s # None /\ Len(s) > size THEN SubSeq(s, 1, size) ELSE s

\* open(path, "ab") creates the file if it is not there.
Extended(s, chunk) == Append(IF s = None THEN << >> ELSE s, chunk)

Size(n) == IF file[n] = None THEN 0 ELSE Len(file[n])
OtherBytes(n) == MapThenSumSet(Size, Name \ {n})

\* Mutant: the quota forgets the other files of the case.
FitsAlone(n, bytes) == bytes <= MaxFile /\ bytes <= MaxCase

\* _stage_upload: the projected size of the file and of the case.
Fits(n, bytes) == bytes <= MaxFile /\ OtherBytes(n) + bytes <= MaxCase

-----------------------------------------------------------------------------
(* A chunk arrives.  A refused one (409) changes nothing and is no step.   *)

\* Mutant: the declared number of chunks is not compared.
ContinuesWhatever(n, i, t) == up[n] # None /\ i = up[n].next

Continues(n, i, t) == up[n] # None /\ t = up[n].total /\ i = up[n].next

StartOver(n, t) ==
  /\ starts < MaxStarts
  /\ starts' = starts + 1
  /\ part' = [WithoutPart(n) EXCEPT ![starts'] = << >>]
  /\ up' = [up EXCEPT ![n] = [part |-> starts', total |-> t, next |-> 0]]

Begin(n, i, t) ==
  /\ now = Idle
  /\ i < t
  /\ \/ i = 0 /\ StartOver(n, t)
     \/ i > 0 /\ Continues(n, i, t) /\ UNCHANGED <<up, part, starts>>
  /\ now' = [at |-> "checked", name |-> n, chunk |-> <<i, t>>,
             replacing |-> file[n] # None]
  /\ UNCHANGED <<file, threads, cancels, crashes>>

\* Cancelled while the empty part file is created: no state refers to it.
CancelStart(n) ==
  /\ now = Idle
  /\ Cancelled("start")
  /\ starts < MaxStarts
  /\ starts' = starts + 1
  /\ part' = [WithoutPart(n) EXCEPT ![starts'] = << >>]
  /\ up' = [up EXCEPT ![n] = None]
  /\ UNCHANGED <<now, file, threads, crashes>>

\* Too large, empty, not attributable, or the request ends while staging.
GiveUp ==
  /\ now.at = "checked"
  /\ now' = Idle
  /\ UNCHANGED <<up, part, file, starts, threads, cancels, crashes>>

-----------------------------------------------------------------------------
(* The chunk is appended to the part file.                                 *)

Accepted(n) ==
  /\ now.at = "checked" /\ now.name = n
  /\ Fits(n, up[n].next + 1)

IsLast == now.chunk[1] + 1 = now.chunk[2]

AppendOK(n) ==
  LET u == up[n]
  IN  /\ Accepted(n)
      /\ part' = [part EXCEPT ![u.part] = Extended(@, now.chunk)]
      /\ IF IsLast
           THEN now' = [now EXCEPT !.at = "appended"] /\ UNCHANGED up
           ELSE now' = Idle /\ up' = [up EXCEPT ![n].next = @ + 1]
      /\ UNCHANGED <<file, starts, threads, cancels, crashes>>

\* A failed write restores the length the part file had.
AppendFails(n) ==
  LET u == up[n]
  IN  /\ Accepted(n)
      /\ part' = [part EXCEPT ![u.part] = Cut(@, u.next)]
      /\ now' = Idle
      /\ UNCHANGED <<up, file, starts, threads, cancels, crashes>>

\* The request is gone, its thread goes on writing.
CancelAppend(n) ==
  /\ Accepted(n)
  /\ Cancelled("append")
  /\ threads' = threads \cup {[does |-> "append", part |-> up[n].part,
                               chunk |-> now.chunk, size |-> up[n].next]}
  /\ now' = Idle
  /\ UNCHANGED <<up, part, file, starts, crashes>>

\* It finishes, or it fails because the request's own file was removed.
LateAppend(z) ==
  /\ z.does = "append"
  /\ \/ part' = [part EXCEPT ![z.part] = Extended(@, z.chunk)]
     \/ part' = [part EXCEPT ![z.part] = Cut(@, z.size)]
  /\ threads' = threads \ {z}
  /\ UNCHANGED <<now, up, file, starts, cancels, crashes>>

-----------------------------------------------------------------------------
(* The last chunk completes the file.                                      *)

Completing(n, replacing) ==
  now.at = "appended" /\ now.name = n /\ now.replacing = replacing

\* os.replace for a new name; replace_file_data, one transaction with the
\* rows of the old file (EvidencePipeline), for a name that exists.
Commit(n) ==
  LET p == up[n].part
  IN  /\ \E replacing \in BOOLEAN : Completing(n, replacing)
      /\ part[p] # None
      /\ file' = [file EXCEPT ![n] = part[p]]
      /\ part' = [part EXCEPT ![p] = None]
      /\ up' = [up EXCEPT ![n] = None]
      /\ now' = Idle
      /\ UNCHANGED <<starts, threads, cancels, crashes>>

\* The rename failed: the last chunk is taken off again and may be retried.
RenameFails(n) ==
  LET u == up[n]
  IN  /\ Completing(n, FALSE)
      /\ part' = [part EXCEPT ![u.part] = Cut(@, u.next)]
      /\ now' = Idle
      /\ UNCHANGED <<up, file, starts, threads, cancels, crashes>>

\* Cancelled during the rename.  Either its thread was faster, or the handler
\* cuts the file the thread is about to rename; the state is kept in both.
CancelRename(n) ==
  LET u == up[n]
  IN  /\ Completing(n, FALSE)
      /\ Cancelled("rename")
      /\ \/ /\ part[u.part] # None
            /\ file' = [file EXCEPT ![n] = part[u.part]]
            /\ part' = [part EXCEPT ![u.part] = None]
            /\ UNCHANGED threads
         \/ /\ part' = [part EXCEPT ![u.part] = Cut(@, u.next)]
            /\ threads' = threads \cup
                 {[does |-> "rename", part |-> u.part, name |-> n]}
            /\ UNCHANGED file
      /\ now' = Idle
      /\ UNCHANGED <<up, starts, crashes>>

LateRename(z) ==
  /\ z.does = "rename"
  /\ IF part[z.part] = None THEN UNCHANGED <<part, file>>
     ELSE /\ file' = [file EXCEPT ![z.name] = part[z.part]]
          /\ part' = [part EXCEPT ![z.part] = None]
  /\ threads' = threads \ {z}
  /\ UNCHANGED <<now, up, starts, cancels, crashes>>

\* _finish_replacement outlives a cancellation: the swap is over, and failed.
\* Then the state is dropped, and the part file unless the request was cancelled.
ReplaceFails(n) ==
  /\ Completing(n, TRUE)
  /\ \/ Discard(n) /\ UNCHANGED cancels
     \/ Cancelled("replace") /\ up' = [up EXCEPT ![n] = None] /\ UNCHANGED part
  /\ now' = Idle
  /\ UNCHANGED <<file, starts, threads, crashes>>

-----------------------------------------------------------------------------
(* The other requests that touch the name, and the backend itself.         *)

\* Mutant: a whole-file upload leaves the chunked upload of its name alone.
WholeUploadBeside(n) ==
  /\ now = Idle
  /\ \E t \in 1 .. MaxChunks : Fits(n, t) /\ file' = [file EXCEPT ![n] = Prefix(t, t)]
  /\ UNCHANGED <<now, up, part, starts, threads, cancels, crashes>>

\* upload_file ends the chunked upload of its name, even when it is refused.
WholeUpload(n) ==
  /\ now = Idle
  /\ Discard(n)
  /\ \/ \E t \in 1 .. MaxChunks :
          Fits(n, t) /\ file' = [file EXCEPT ![n] = Prefix(t, t)]
     \/ UNCHANGED file
  /\ UNCHANGED <<now, starts, threads, cancels, crashes>>

DeleteEvidence(n) ==
  /\ now = Idle
  /\ file[n] # None
  /\ Discard(n)
  /\ file' = [file EXCEPT ![n] = None]
  /\ UNCHANGED <<now, starts, threads, cancels, crashes>>

\* The next start of the backend removes every staging file.
CrashAndRestart ==
  /\ crashes < MaxCrashes
  /\ crashes' = crashes + 1
  /\ now' = Idle
  /\ up' = [n \in Name |-> None]
  /\ part' = [p \in Parts |-> None]
  /\ threads' = {}
  /\ UNCHANGED <<file, starts, cancels>>

Next ==
  \/ \E n \in Name :
       \/ \E i \in 0 .. MaxChunks - 1, t \in 1 .. MaxChunks : Begin(n, i, t)
       \/ CancelStart(n)
       \/ AppendOK(n) \/ AppendFails(n) \/ CancelAppend(n)
       \/ Commit(n) \/ RenameFails(n) \/ CancelRename(n) \/ ReplaceFails(n)
       \/ WholeUpload(n) \/ DeleteEvidence(n)
  \/ \E z \in threads : LateAppend(z) \/ LateRename(z)
  \/ GiveUp
  \/ CrashAndRestart

Spec == Init /\ [][Next]_vars

-----------------------------------------------------------------------------
Uncancelled == cancels = 0

\* Between requests the part file of an upload holds exactly the chunks that
\* were accepted, in order, as long as no request was cancelled (SECURITY.md:
\* skipped, duplicate or mismatched chunks cannot modify the accepted prefix).
AcceptedPrefixIntact ==
  Uncancelled =>
    \A n \in Name :
      up[n] # None /\ ~(now.at = "appended" /\ now.name = n) =>
        part[up[n].part] = Prefix(up[n].next, up[n].total)

\* A file in the evidence list is all the chunks of one file, in order (the
\* same sentence: such chunks cannot complete an upload).
CommittedFileComplete ==
  \A n \in Name : file[n] # None => \E t \in 1 .. MaxChunks : file[n] = Prefix(t, t)

\* It is, whatever fails and whenever the backend stops, unless a request is
\* cancelled while its worker thread runs.
UncancelledFileComplete == Uncancelled => CommittedFileComplete

\* The committed files stay below both limits, although a chunked upload is
\* measured against the case only one chunk at a time.
CaseQuota ==
  Uncancelled =>
    /\ \A n \in Name : Size(n) <= MaxFile
    /\ MapThenSumSet(Size, Name) <= MaxCase

\* No part file is left behind without the upload that would remove it.
NoLeakedPart ==
  Uncancelled =>
    \A p \in Parts :
      part[p] # None => \E n \in Name : up[n] # None /\ up[n].part = p

\* A thread that outlives its request creates at most a file that was not
\* there: it never overwrites what a later request committed.  Two threads of
\* one upload can: an append makes the part file anew that a rename waits for.
LateThreadsNeverOverwrite ==
  [][\A n \in Name :
       cancels <= 1 /\ file[n] # None /\ file'[n] # file[n] => threads' = threads]_vars
==============================================================================

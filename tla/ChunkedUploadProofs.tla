------------------------- MODULE ChunkedUploadProofs --------------------------
(***************************************************************************)
(* For any number of names, chunks, uploads and crashes: while no request  *)
(* is cancelled, the part file of an upload is the prefix it accepted, no  *)
(* part file is left behind, a committed file is complete, and no quota is *)
(* exceeded; the thread of a first cancelled request overwrites no file.   *)
(*                                                                         *)
(* UpInv says what the state of an upload and the request in the slot have *)
(* to do with each other, and holds after cancellations too.  ContentInv   *)
(* adds what the part files hold, which is true only while no thread is    *)
(* left that may write to them.                                            *)
(***************************************************************************)
EXTENDS ChunkedUpload, SequenceTheorems, FiniteSetTheorems, WellFoundedInduction, TLAPS

\* Each upload has a part file of its own and more chunks to come, and the
\* request in the slot is sending the next one.
UpInv ==
  /\ \A n \in Name : up[n] # None => /\ up[n].part <= starts
                                     /\ up[n].next < up[n].total
  /\ \A m, n \in Name : up[m] # None /\ up[n] # None /\ up[m].part = up[n].part => m = n
  /\ now.at # "idle" =>
       /\ up[now.name] # None
       /\ now.chunk = <<up[now.name].next, up[now.name].total>>
  /\ now.at = "appended" => IsLast

\* The part file of an upload holds what was accepted, and the last chunk too
\* while the request that sent it commits the file.
Held(n) ==
  up[n] # None =>
    part[up[n].part] =
      Prefix(IF now.at = "appended" /\ now.name = n THEN up[n].total ELSE up[n].next,
             up[n].total)

Owned == \A p \in Parts : part[p] # None => \E n \in Name : up[n] # None /\ up[n].part = p

\* What the files hold, and that nobody but the request writes to them.
ContentInv ==
  /\ threads = {}
  /\ \A n \in Name : Held(n)
  /\ Owned
  /\ CommittedFileComplete

IInv ==
  /\ TypeOK
  /\ UpInv
  /\ Uncancelled => ContentInv

-----------------------------------------------------------------------------
(***************************************************************************)
(* A prefix has the length it says, grows by one chunk and can be cut back.*)
(***************************************************************************)
LEMMA PrefixType ==
  ASSUME NEW t \in 1 .. MaxChunks, NEW k \in 0 .. t
  PROVE  /\ Prefix(k, t) \in Seq(Chunk)
         /\ Len(Prefix(k, t)) = k
         /\ Prefix(k, t) # None
<1>1. \A i \in 1 .. k : <<i - 1, t>> \in Chunk
  BY BoundsAssumption DEF Chunk
<1>2. Prefix(k, t) \in Seq(Chunk) /\ Len(Prefix(k, t)) = k
  BY <1>1, IsASeq, LenProperties DEF Prefix
<1> QED
  BY <1>2, NoneAssumption

LEMMA PrefixEmpty ==
  ASSUME NEW t \in 1 .. MaxChunks
  PROVE  Prefix(0, t) = << >>
<1>1. Prefix(0, t) \in Seq(Chunk) /\ Len(Prefix(0, t)) = 0
  BY PrefixType, BoundsAssumption
<1> QED
  BY <1>1, EmptySeq

LEMMA PrefixExtended ==
  ASSUME NEW t \in 1 .. MaxChunks, NEW k \in 0 .. (t - 1)
  PROVE  Extended(Prefix(k, t), <<k, t>>) = Prefix(k + 1, t)
<1>1. <<k, t>> \in Chunk
  BY BoundsAssumption DEF Chunk
<1>2. Prefix(k, t) \in Seq(Chunk) /\ Len(Prefix(k, t)) = k /\ Prefix(k, t) # None
  BY PrefixType, BoundsAssumption
<1>3. Prefix(k + 1, t) \in Seq(Chunk) /\ Len(Prefix(k + 1, t)) = k + 1
  BY PrefixType, BoundsAssumption
<1>4. Append(Prefix(k, t), <<k, t>>) = Prefix(k + 1, t)
  <2> DEFINE s == Append(Prefix(k, t), <<k, t>>)
  <2>1. s \in Seq(Chunk) /\ Len(s) = k + 1
    BY <1>1, <1>2, AppendProperties
  <2>2. ASSUME NEW i \in 1 .. (k + 1)
        PROVE  s[i] = Prefix(k + 1, t)[i]
    BY <1>1, <1>2, AppendProperties DEF Prefix
  <2> QED
    BY <1>3, <2>1, <2>2, SeqEqual
<1> QED
  BY <1>2, <1>4 DEF Extended

LEMMA PrefixCut ==
  ASSUME NEW t \in 1 .. MaxChunks, NEW k \in 0 .. t
  PROVE  /\ Cut(Prefix(k, t), k) = Prefix(k, t)
         /\ k > 0 => Cut(Prefix(k, t), k - 1) = Prefix(k - 1, t)
<1>1. Prefix(k, t) \in Seq(Chunk) /\ Len(Prefix(k, t)) = k /\ Prefix(k, t) # None
  BY PrefixType
<1>2. ASSUME k > 0
      PROVE  SubSeq(Prefix(k, t), 1, k - 1) = Prefix(k - 1, t)
  BY <1>1, <1>2 DEF Prefix
<1>3. k \in Nat
  BY BoundsAssumption
<1>4. ASSUME k > 0
      PROVE  Cut(Prefix(k, t), k - 1) = Prefix(k - 1, t)
  <2>1. Len(Prefix(k, t)) > k - 1
    BY <1>1, <1>3
  <2> QED
    BY <1>1, <1>2, <1>4, <2>1 DEF Cut
<1>5. Cut(Prefix(k, t), k) = Prefix(k, t)
  <2>1. ~(Len(Prefix(k, t)) > k)
    BY <1>1, <1>3
  <2> QED
    BY <2>1 DEF Cut
<1> QED
  BY <1>4, <1>5

\* What truncating and appending make of a part file.
LEMMA PartType ==
  ASSUME NEW s \in Seq(Chunk) \cup {None}, NEW c \in Chunk, NEW k \in Nat
  PROVE  /\ Cut(s, k) \in Seq(Chunk) \cup {None}
         /\ Extended(s, c) \in Seq(Chunk)
<1>1. Extended(s, c) \in Seq(Chunk)
  BY NoneAssumption DEF Extended
<1>2. ASSUME s # None, Len(s) > k
      PROVE  SubSeq(s, 1, k) \in Seq(Chunk)
  BY <1>2
<1> QED
  BY <1>1, <1>2 DEF Cut

\* The request in the slot is one, and it has an upload.
LEMMA RequestType ==
  ASSUME TypeOK, UpInv, now.at # "idle"
  PROVE  /\ now \in [at : {"checked", "appended"}, name : Name,
                     chunk : Chunk, replacing : BOOLEAN]
         /\ up[now.name] \in Upload
         /\ up[now.name].part \in Parts
         /\ up[now.name].next \in Nat
         /\ part[up[now.name].part] \in Seq(Chunk) \cup {None}
<1>1. now \in [at : {"checked", "appended"}, name : Name,
                     chunk : Chunk, replacing : BOOLEAN]
  BY DEF TypeOK, Idle
<1>2. up[now.name] \in Upload
  BY <1>1 DEF TypeOK, UpInv
<1>3. up[now.name].part \in Parts /\ up[now.name].next \in Nat
  BY <1>2, BoundsAssumption DEF Upload
<1> QED
  BY <1>1, <1>2, <1>3 DEF TypeOK

\* Discarding an upload leaves every other part file as it is.
LEMMA DiscardType ==
  ASSUME TypeOK, NEW n \in Name
  PROVE  WithoutPart(n) \in [Parts -> Seq(Chunk) \cup {None}]
BY DEF TypeOK, WithoutPart

-----------------------------------------------------------------------------
(***************************************************************************)
(* Every variable keeps its type.                                          *)
(***************************************************************************)
LEMMA TypeKept ==
  ASSUME TypeOK, UpInv, Next
  PROVE  TypeOK'
<1> USE BoundsAssumption
<1>1. ASSUME NEW n \in Name, NEW i \in 0 .. MaxChunks - 1, NEW t \in 1 .. MaxChunks,
             Begin(n, i, t)
      PROVE  TypeOK'
  <2>1. <<i, t>> \in Chunk
    BY DEF Chunk
  <2>2. CASE i = 0 /\ StartOver(n, t)
    BY <1>1, <2>1, <2>2, DiscardType DEF Begin, StartOver, TypeOK, Parts, Upload
  <2>3. CASE UNCHANGED <<up, part, starts>>
    BY <1>1, <2>1, <2>3 DEF Begin, TypeOK
  <2> QED
    BY <1>1, <2>2, <2>3 DEF Begin
<1>2. ASSUME NEW n \in Name, CancelStart(n)
      PROVE  TypeOK'
  BY <1>2, DiscardType DEF CancelStart, Cancelled, TypeOK, Parts
<1>3. CASE GiveUp
  BY <1>3 DEF GiveUp, TypeOK
<1>4. ASSUME NEW n \in Name, now.at # "idle", now.name = n
      PROVE  /\ up[n] \in Upload
             /\ now.chunk = <<up[n].next, up[n].total>> /\ now.chunk \in Chunk
             /\ Extended(part[up[n].part], now.chunk) \in Seq(Chunk)
             /\ Cut(part[up[n].part], up[n].next) \in Seq(Chunk) \cup {None}
  <2>1. up[n] \in Upload /\ now.chunk \in Chunk /\ up[n].next \in Nat
        /\ part[up[n].part] \in Seq(Chunk) \cup {None}
    BY <1>4, RequestType
  <2>2. now.chunk = <<up[n].next, up[n].total>>
    BY <1>4 DEF UpInv
  <2>3. Extended(part[up[n].part], now.chunk) \in Seq(Chunk)
        /\ Cut(part[up[n].part], up[n].next) \in Seq(Chunk) \cup {None}
    BY <2>1, PartType
  <2> QED
    BY <2>1, <2>2, <2>3
<1>5. ASSUME NEW n \in Name, AppendOK(n)
      PROVE  TypeOK'
  <2>1. now.at = "checked" /\ now.name = n
    BY <1>5 DEF AppendOK, Accepted
  <2>2. CASE IsLast
    <3>1. /\ part' = [part EXCEPT ![up[n].part] = Extended(@, now.chunk)]
          /\ now' = [now EXCEPT !.at = "appended"]
          /\ UNCHANGED <<up, file, starts, threads, cancels, crashes>>
      BY <1>5, <2>2 DEF AppendOK
    <3>2. now' \in [at : {"checked", "appended"}, name : Name,
                    chunk : Chunk, replacing : BOOLEAN]
      BY <2>1, <3>1, RequestType
    <3>3. part' \in [Parts -> Seq(Chunk) \cup {None}]
      BY <1>4, <2>1, <3>1 DEF TypeOK
    <3> QED BY <3>1, <3>2, <3>3 DEF TypeOK
  <2>3. CASE ~IsLast
    <3>1. up[n].next + 1 \in 0 .. MaxChunks - 1
      BY <1>4, <2>1, <2>3 DEF IsLast, UpInv, Upload
    <3>2. [up[n] EXCEPT !.next = @ + 1] \in Upload
      BY <1>4, <2>1, <3>1 DEF Upload
    <3>3. up' = [up EXCEPT ![n] = [up[n] EXCEPT !.next = @ + 1]]
      BY <1>5, <2>3 DEF AppendOK
    <3>4. up' \in [Name -> Upload \cup {None}]
      BY <3>2, <3>3 DEF TypeOK
    <3> QED
      BY <1>4, <1>5, <2>1, <2>3, <3>4 DEF AppendOK, TypeOK
  <2> QED
    BY <2>2, <2>3
<1>6. ASSUME NEW n \in Name, AppendFails(n)
      PROVE  TypeOK'
  BY <1>4, <1>6 DEF AppendFails, Accepted, TypeOK, Upload
<1>7. ASSUME NEW n \in Name, CancelAppend(n)
      PROVE  TypeOK'
  BY <1>4, <1>7, RequestType DEF CancelAppend, Accepted, Cancelled, TypeOK, Thread
<1>8. ASSUME NEW n \in Name, Commit(n) \/ RenameFails(n)
      PROVE  TypeOK'
  <2>1. now.at # "idle" /\ now.name = n
    BY <1>8 DEF Commit, RenameFails, Completing
  <2>2. up[n].part \in Parts
    BY <2>1, RequestType
  <2>3. CASE Commit(n)
    BY <2>2, <2>3 DEF Commit, TypeOK
  <2>4. CASE RenameFails(n)
    BY <1>4, <2>1, <2>4 DEF RenameFails, TypeOK
  <2> QED
    BY <1>8, <2>3, <2>4
<1>9. ASSUME NEW n \in Name, CancelRename(n)
       PROVE  TypeOK'
  <2>1. now.at # "idle" /\ now.name = n
    BY <1>9 DEF CancelRename, Completing
  <2>2. up[n].part \in Parts
    BY <2>1, RequestType
  <2>3. [does |-> "rename", part |-> up[n].part, name |-> n] \in Thread
    BY <2>2 DEF Thread
  <2> QED
    BY <1>4, <1>9, <2>1, <2>2, <2>3 DEF CancelRename, Cancelled, TypeOK
<1>10. ASSUME NEW n \in Name, ReplaceFails(n)
       PROVE  TypeOK'
  BY <1>10, DiscardType DEF ReplaceFails, Discard, Cancelled, TypeOK
<1>11. ASSUME NEW n \in Name, WholeUpload(n)
       PROVE  TypeOK'
  <2>1. \A t \in 1 .. MaxChunks : Prefix(t, t) \in Seq(Chunk)
    BY PrefixType
  <2> QED
    BY <1>11, <2>1, DiscardType DEF WholeUpload, Discard, TypeOK
<1>12. ASSUME NEW n \in Name, DeleteEvidence(n)
       PROVE  TypeOK'
  BY <1>12, DiscardType DEF DeleteEvidence, Discard, TypeOK
<1>13. ASSUME NEW z \in threads, LateAppend(z)
       PROVE  TypeOK'
  <2>1. /\ z.part \in Parts /\ z.chunk \in Chunk /\ z.size \in Nat
        /\ part[z.part] \in Seq(Chunk) \cup {None}
    BY <1>13 DEF LateAppend, TypeOK, Thread
  <2>2. /\ Extended(part[z.part], z.chunk) \in Seq(Chunk)
        /\ Cut(part[z.part], z.size) \in Seq(Chunk) \cup {None}
    BY <2>1, PartType
  <2> QED
    BY <1>13, <2>1, <2>2 DEF LateAppend, TypeOK
<1>14. ASSUME NEW z \in threads, LateRename(z)
       PROVE  TypeOK'
  <2>1. z.part \in Parts /\ z.name \in Name
    BY <1>14 DEF LateRename, TypeOK, Thread
  <2> QED
    BY <1>14, <2>1 DEF LateRename, TypeOK
<1>15. CASE CrashAndRestart
  BY <1>15 DEF CrashAndRestart, TypeOK
<1> QED
  BY <1>1, <1>2, <1>3, <1>5, <1>6, <1>7, <1>8, <1>9, <1>10, <1>11, <1>12,
     <1>13, <1>14, <1>15 DEF Next

-----------------------------------------------------------------------------
(***************************************************************************)
(* The request in the slot keeps sending the next chunk of its upload.     *)
(***************************************************************************)
LEMMA UpKept ==
  ASSUME TypeOK, UpInv, Next
  PROVE  UpInv'
<1> USE BoundsAssumption, NoneAssumption DEF UpInv, IsLast, Idle
<1>1. ASSUME NEW n \in Name, NEW i \in 0 .. MaxChunks - 1, NEW t \in 1 .. MaxChunks,
             Begin(n, i, t)
      PROVE  UpInv'
  <2>1. CASE i = 0 /\ StartOver(n, t)
    <3>1. /\ starts' = starts + 1 /\ starts \in Nat
          /\ up' = [up EXCEPT ![n] = [part |-> starts', total |-> t, next |-> 0]]
          /\ now' = [at |-> "checked", name |-> n, chunk |-> <<0, t>>,
                     replacing |-> file[n] # None]
      BY <1>1, <2>1 DEF Begin, StartOver, TypeOK
    <3>2. up'[n] = [part |-> starts', total |-> t, next |-> 0] /\ up'[n] \in Upload
      BY <1>1, <2>1, <3>1 DEF StartOver, TypeOK, Upload, Parts
    <3>3. \A m \in Name \ {n} : up'[m] = up[m] /\ (up[m] # None => up[m].part \in Nat)
      BY <3>1 DEF TypeOK, Upload, Parts
    <3>4. up'[n] # None
      BY <3>2
    <3> QED
      BY <3>1, <3>2, <3>3, <3>4
  <2>2. CASE Continues(n, i, t) /\ UNCHANGED <<up, part, starts>>
    BY <1>1, <2>2 DEF Begin, Continues, TypeOK
  <2> QED
    BY <1>1, <2>1, <2>2 DEF Begin
<1>2. ASSUME NEW n \in Name, CancelStart(n)
      PROVE  UpInv'
  BY <1>2 DEF CancelStart, TypeOK, Upload, Parts
<1>3. ASSUME NEW n \in Name, AppendOK(n)
      PROVE  UpInv'
  <2>1. /\ now.at = "checked" /\ now.name = n
        /\ up[n] \in Upload /\ now.chunk = <<up[n].next, up[n].total>>
    BY <1>3, RequestType DEF AppendOK, Accepted
  <2>2. CASE IsLast
    <3>1. now' = [now EXCEPT !.at = "appended"] /\ UNCHANGED <<up, starts>>
      BY <1>3, <2>2 DEF AppendOK
    <3>2. now'.at = "appended" /\ now'.name = n /\ now'.chunk = now.chunk
      BY <2>1, <3>1, RequestType
    <3>3. IsLast'
      BY <2>2, <3>2 DEF IsLast
    <3> QED
      BY <2>1, <3>1, <3>2, <3>3
  <2>3. CASE ~IsLast
    <3>1. /\ up' = [up EXCEPT ![n].next = @ + 1]
          /\ now' = Idle /\ UNCHANGED starts
      BY <1>3, <2>3 DEF AppendOK
    <3>2. up[n].next + 1 < up[n].total
      BY <2>1, <2>3 DEF Upload
    <3>3. /\ up'[n] # None /\ up'[n].part = up[n].part /\ up'[n].total = up[n].total
          /\ up'[n].next = up[n].next + 1
          /\ \A m \in Name \ {n} : up'[m] = up[m]
      <4>1. up'[n] = [up[n] EXCEPT !.next = @ + 1] /\ \A m \in Name \ {n} : up'[m] = up[m]
        BY <3>1 DEF TypeOK
      <4>2. /\ up'[n].part = up[n].part /\ up'[n].total = up[n].total
            /\ up'[n].next = up[n].next + 1
        BY <2>1, <4>1 DEF Upload
      <4>3. up'[n] \in Upload
        BY <2>1, <3>2, <4>1 DEF Upload
      <4> QED BY <4>1, <4>2, <4>3
    <3>4. now'.at = "idle"
      BY <3>1
    <3> QED
      BY <2>1, <3>1, <3>2, <3>3, <3>4
  <2> QED
    BY <2>2, <2>3
<1>4. ASSUME NEW n \in Name,
             \/ AppendFails(n) \/ CancelAppend(n) \/ RenameFails(n) \/ CancelRename(n)
      PROVE  UpInv'
  <2>1. now' = Idle /\ UNCHANGED <<up, starts>>
    BY <1>4 DEF AppendFails, CancelAppend, RenameFails, CancelRename
  <2> QED
    BY <2>1
<1>5. ASSUME NEW n \in Name,
             \/ Commit(n) \/ ReplaceFails(n) \/ WholeUpload(n) \/ DeleteEvidence(n)
      PROVE  UpInv'
  <2>1. now' = Idle /\ up' = [up EXCEPT ![n] = None] /\ UNCHANGED starts
    BY <1>5 DEF Commit, ReplaceFails, WholeUpload, DeleteEvidence, Discard
  <2> QED
    BY <2>1 DEF TypeOK
<1>6. ASSUME NEW z \in threads, LateAppend(z) \/ LateRename(z)
      PROVE  UpInv'
  BY <1>6 DEF LateAppend, LateRename
<1>7. CASE GiveUp \/ CrashAndRestart
  BY <1>7 DEF GiveUp, CrashAndRestart
<1> QED
  BY <1>1, <1>2, <1>3, <1>4, <1>5, <1>6, <1>7 DEF Next

-----------------------------------------------------------------------------
(***************************************************************************)
(* What an upload holds while a request is sending its next chunk.         *)
(***************************************************************************)
LEMMA HeldByRequest ==
  ASSUME TypeOK, UpInv, ContentInv, NEW n \in Name, now.at # "idle", now.name = n
  PROVE  /\ up[n].total \in 1 .. MaxChunks
         /\ up[n].next \in 0 .. (up[n].total - 1)
         /\ up[n].part \in Parts
         /\ now.chunk = <<up[n].next, up[n].total>>
         /\ now.at = "checked" => part[up[n].part] = Prefix(up[n].next, up[n].total)
         /\ now.at = "appended" => /\ part[up[n].part] = Prefix(up[n].total, up[n].total)
                                   /\ up[n].next + 1 = up[n].total
<1>1. up[n] \in Upload /\ up[n].part \in Parts
  BY RequestType
<1>2. /\ up[n] # None
      /\ up[n].next < up[n].total
      /\ now.chunk = <<up[n].next, up[n].total>>
  BY DEF UpInv
<1>3. up[n].total \in 1 .. MaxChunks /\ up[n].next \in 0 .. (up[n].total - 1)
  BY <1>1, <1>2, BoundsAssumption DEF Upload
<1>4. now.at = "appended" => up[n].next + 1 = up[n].total
  BY <1>2, <1>3 DEF UpInv, IsLast
<1>5. Held(n)
  BY DEF ContentInv
<1> QED
  BY <1>1, <1>2, <1>3, <1>4, <1>5 DEF Held

\* Ending the upload of one name keeps those of the others, with their files.
LEMMA DiscardKeeps ==
  ASSUME TypeOK, UpInv, ContentInv, NEW n \in Name, Discard(n), now' = Idle,
         now = Idle \/ now.name = n
  PROVE  (\A m \in Name : Held(m)') /\ Owned'
<1>1. ASSUME NEW m \in Name, up'[m] # None
      PROVE  /\ m # n /\ up'[m] = up[m] /\ up[m].part \in Parts
             /\ part'[up[m].part] = part[up[m].part]
  BY <1>1, BoundsAssumption DEF Discard, WithoutPart, TypeOK, UpInv, Upload
<1>2. ASSUME NEW m \in Name
      PROVE  Held(m)'
  BY <1>1, <1>2 DEF ContentInv, Held, Idle
<1>3. Owned'
  BY DEF ContentInv, Owned, Discard, WithoutPart, TypeOK
<1> QED
  BY <1>2, <1>3

\* Writing to the part file of one upload keeps those of the others.
LEMMA WriteKeeps ==
  ASSUME TypeOK, UpInv, ContentInv, NEW n \in Name, now.at # "idle", now.name = n,
         NEW s, part' = [part EXCEPT ![up[n].part] = s],
         up'[n] # None, up'[n].part = up[n].part,
         \A m \in Name \ {n} : up'[m] = up[m],
         now'.at = "appended" => now'.name = n
  PROVE  /\ \A m \in Name \ {n} : Held(m)'
         /\ part'[up'[n].part] = s
         /\ Owned'
<1>1. up[n] # None /\ up[n].part \in Parts
  BY HeldByRequest DEF UpInv
<1>2. part'[up'[n].part] = s
  BY <1>1 DEF TypeOK
<1>3. ASSUME NEW m \in Name \ {n}
      PROVE  Held(m)'
  <2>1. up[m] # None => up[m].part \in Parts /\ up[m].part # up[n].part
    BY <1>1 DEF TypeOK, UpInv, Upload
  <2>2. up[m] # None => part'[up[m].part] = part[up[m].part]
    BY <2>1 DEF TypeOK
  <2> QED
    BY <2>2 DEF ContentInv, Held
<1>4. Owned'
  BY <1>1 DEF ContentInv, Owned, TypeOK
<1> QED
  BY <1>2, <1>3, <1>4

(***************************************************************************)
(* As long as nothing is cancelled, the files hold what they should.       *)
(***************************************************************************)
LEMMA ContentKept ==
  ASSUME TypeOK, UpInv, ContentInv, Uncancelled, Uncancelled', Next
  PROVE  ContentInv'
<1> USE BoundsAssumption
<1>1. \A point : ~Cancelled(point)
  BY DEF Cancelled, Uncancelled
<1>2. threads = {}
  BY DEF ContentInv
<1>3. ASSUME UNCHANGED file
      PROVE  CommittedFileComplete'
  BY <1>3 DEF ContentInv, CommittedFileComplete
<1>4. ASSUME NEW n \in Name, NEW i \in 0 .. MaxChunks - 1, NEW t \in 1 .. MaxChunks,
             Begin(n, i, t)
      PROVE  ContentInv'
  <2>1. now = Idle /\ now'.at = "checked" /\ UNCHANGED <<file, threads>>
    BY <1>4 DEF Begin
  <2>2. CASE StartOver(n, t)
    <3>1. /\ starts' = starts + 1 /\ starts' \in Parts
          /\ part' = [WithoutPart(n) EXCEPT ![starts'] = << >>]
          /\ up' = [up EXCEPT ![n] = [part |-> starts', total |-> t, next |-> 0]]
      BY <2>2 DEF StartOver, TypeOK, Parts
    <3>2. Held(n)'
      <4>1. up'[n] = [part |-> starts', total |-> t, next |-> 0] /\ part'[starts'] = << >>
        BY <3>1 DEF TypeOK, WithoutPart
      <4> QED
        BY <2>1, <4>1, PrefixEmpty DEF Held
    <3>3. ASSUME NEW m \in Name, m # n
          PROVE  Held(m)'
      <4>1. up'[m] = up[m]
        BY <3>1, <3>3 DEF TypeOK
      <4>2. up[m] # None => /\ up[m].part \in Parts
                            /\ up[m].part # starts'
                            /\ up[n] # None => up[m].part # up[n].part
        BY <3>1, <3>3 DEF TypeOK, UpInv, Upload, Parts
      <4>3. up[m] # None => part'[up[m].part] = part[up[m].part]
        BY <3>1, <4>2 DEF WithoutPart
      <4> QED
        BY <2>1, <4>1, <4>3 DEF ContentInv, Held, Idle
    <3>4. Owned'
      <4>1. ASSUME NEW p \in Parts, part'[p] # None
            PROVE  \E m \in Name : up'[m] # None /\ up'[m].part = p
        <5>1. CASE p = starts'
          <6>1. up'[n] = [part |-> starts', total |-> t, next |-> 0]
            BY <3>1 DEF TypeOK
          <6>2. up'[n] \in Upload
            BY <3>1, <6>1 DEF Upload
          <6> QED
            BY <5>1, <6>1, <6>2, NoneAssumption
        <5>2. CASE p # starts'
          <6>1. part[p] # None /\ ~(up[n] # None /\ p = up[n].part)
            BY <3>1, <4>1, <5>2 DEF WithoutPart
          <6>2. PICK m \in Name : up[m] # None /\ up[m].part = p
            BY <6>1 DEF ContentInv, Owned
          <6> QED
            BY <3>1, <6>1, <6>2 DEF TypeOK
        <5> QED
          BY <5>1, <5>2
      <4> QED
        BY <4>1 DEF Owned
    <3> QED
      BY <1>2, <1>3, <2>1, <3>2, <3>3, <3>4 DEF ContentInv
  <2>3. CASE UNCHANGED <<up, part, starts>>
    BY <1>2, <1>3, <2>1, <2>3 DEF ContentInv, Held, Owned, Idle
  <2> QED
    BY <1>4, <2>2, <2>3 DEF Begin
<1>5. ASSUME NEW n \in Name, AppendOK(n)
      PROVE  ContentInv'
  <2>1. /\ now.at = "checked" /\ now.name = n
        /\ part' = [part EXCEPT ![up[n].part] = Extended(@, now.chunk)]
        /\ UNCHANGED <<file, threads>>
    BY <1>5 DEF AppendOK, Accepted
  <2>2. part' = [part EXCEPT ![up[n].part] = Prefix(up[n].next + 1, up[n].total)]
    <3>1. /\ up[n].total \in 1 .. MaxChunks /\ up[n].next \in 0 .. (up[n].total - 1)
          /\ now.chunk = <<up[n].next, up[n].total>>
          /\ part[up[n].part] = Prefix(up[n].next, up[n].total)
      BY <2>1, HeldByRequest
    <3>2. Extended(part[up[n].part], now.chunk) = Prefix(up[n].next + 1, up[n].total)
      BY <3>1, PrefixExtended
    <3> QED
      BY <2>1, <3>2
  <2>3. /\ up'[n] # None /\ up'[n].part = up[n].part /\ up'[n].total = up[n].total
        /\ \A m \in Name \ {n} : up'[m] = up[m]
        /\ now'.at = "appended" => now'.name = n
        /\ now'.at = "appended" => up'[n].total = up[n].next + 1
        /\ now'.at # "appended" => up'[n].next = up[n].next + 1
    <3>1. up[n] \in Upload
      BY <2>1, RequestType
    <3>2. CASE IsLast
      <4>1. now' = [now EXCEPT !.at = "appended"] /\ up' = up
        BY <1>5, <3>2 DEF AppendOK
      <4>2. now'.at = "appended" /\ now'.name = n
        BY <2>1, <4>1, RequestType
      <4>3. up[n].total = up[n].next + 1
        BY <2>1, <3>2, HeldByRequest DEF IsLast
      <4> QED
        BY <3>1, <4>1, <4>2, <4>3, NoneAssumption
    <3>3. CASE ~IsLast
      <4>1. now' = Idle /\ up' = [up EXCEPT ![n].next = @ + 1]
        BY <1>5, <3>3 DEF AppendOK
      <4>2. up'[n] = [up[n] EXCEPT !.next = @ + 1]
        BY <4>1 DEF TypeOK
      <4>3. up[n].next + 1 \in 0 .. MaxChunks - 1
        BY <2>1, <3>3, HeldByRequest DEF IsLast
      <4>4. up'[n] # None
        BY <3>1, <4>2, <4>3, NoneAssumption DEF Upload
      <4> QED
        BY <3>1, <4>1, <4>2, <4>4 DEF Idle, Upload, TypeOK
    <3> QED
      BY <3>2, <3>3
  <2>4. (\A m \in Name \ {n} : Held(m)') /\ Owned'
        /\ part'[up'[n].part] = Prefix(up[n].next + 1, up[n].total)
    <3>1. now.at # "idle" /\ now.name = n
      BY <2>1
    <3> QED
      BY <2>2, <2>3, <3>1, WriteKeeps
  <2>5. Held(n)'
    BY <2>3, <2>4 DEF Held
  <2> QED
    BY <1>2, <1>3, <2>1, <2>4, <2>5 DEF ContentInv
<1>6. ASSUME NEW n \in Name, AppendFails(n) \/ RenameFails(n)
      PROVE  ContentInv'
  <2>1. /\ now.at # "idle" /\ now.name = n /\ now' = Idle
        /\ part' = [part EXCEPT ![up[n].part] = Cut(@, up[n].next)]
        /\ UNCHANGED <<up, file, threads>>
    BY <1>6 DEF AppendFails, RenameFails, Accepted, Completing
  <2>2. part' = [part EXCEPT ![up[n].part] = Prefix(up[n].next, up[n].total)]
    <3>1. now.at \in {"checked", "appended"}
      BY <2>1, RequestType
    <3>2. Cut(part[up[n].part], up[n].next) = Prefix(up[n].next, up[n].total)
      BY <2>1, <3>1, HeldByRequest, PrefixCut
    <3> QED
      BY <2>1, <3>2
  <2>3. up[n] # None
    BY <2>1 DEF UpInv
  <2>4. (\A m \in Name \ {n} : Held(m)') /\ Owned'
        /\ part'[up'[n].part] = Prefix(up[n].next, up[n].total)
    <3>1. /\ up'[n] # None /\ up'[n].part = up[n].part
          /\ \A m \in Name \ {n} : up'[m] = up[m]
          /\ now'.at # "appended"
      BY <2>1, <2>3 DEF Idle
    <3> DEFINE s == Prefix(up[n].next, up[n].total)
    <3>2. part' = [part EXCEPT ![up[n].part] = s]
      BY <2>2
    <3>3. TypeOK /\ UpInv /\ ContentInv /\ now.at # "idle" /\ now.name = n
      BY <1>2, <2>1
    <3> HIDE DEF s
    <3>4. (\A m \in Name \ {n} : Held(m)') /\ Owned' /\ part'[up'[n].part] = s
      BY <3>1, <3>2, <3>3, WriteKeeps
    <3> QED BY <3>4 DEF s
  <2>5. Held(n)'
    BY <2>1, <2>4 DEF Held, Idle
  <2> QED
    BY <1>2, <1>3, <2>1, <2>4, <2>5 DEF ContentInv
<1>7. ASSUME NEW n \in Name, Commit(n)
      PROVE  ContentInv'
  <2>1. /\ now.at = "appended" /\ now.name = n /\ now' = Idle
        /\ file' = [file EXCEPT ![n] = part[up[n].part]]
        /\ part' = [part EXCEPT ![up[n].part] = None]
        /\ up' = [up EXCEPT ![n] = None]
        /\ UNCHANGED threads
    BY <1>7 DEF Commit, Completing
  <2>2. Discard(n)
    BY <2>1 DEF Discard, WithoutPart, TypeOK, UpInv
  <2>3. part[up[n].part] = Prefix(up[n].total, up[n].total) /\ up[n].total \in 1 .. MaxChunks
    BY <2>1, HeldByRequest
  <2>4. CommittedFileComplete'
    BY <2>1, <2>3 DEF ContentInv, CommittedFileComplete, TypeOK
  <2> QED
    BY <1>2, <2>1, <2>2, <2>4, DiscardKeeps DEF ContentInv
<1>8. ASSUME NEW n \in Name, ReplaceFails(n)
      PROVE  ContentInv'
  <2>1. now.name = n /\ now' = Idle /\ Discard(n) /\ UNCHANGED <<file, threads>>
    BY <1>1, <1>8 DEF ReplaceFails, Completing
  <2> QED
    BY <1>2, <1>3, <2>1, DiscardKeeps DEF ContentInv
<1>9. ASSUME NEW n \in Name, WholeUpload(n) \/ DeleteEvidence(n)
      PROVE  ContentInv'
  <2>1. now = Idle /\ now' = Idle /\ Discard(n) /\ UNCHANGED threads
    BY <1>9 DEF WholeUpload, DeleteEvidence
  <2>2. CommittedFileComplete'
    BY <1>9 DEF WholeUpload, DeleteEvidence, ContentInv, CommittedFileComplete, TypeOK
  <2> QED
    BY <1>2, <2>1, <2>2, DiscardKeeps DEF ContentInv
<1>10. CASE GiveUp
  BY <1>10 DEF GiveUp, ContentInv, Held, Owned, CommittedFileComplete, Idle
<1>11. CASE CrashAndRestart
  BY <1>11 DEF CrashAndRestart, ContentInv, Held, Owned, CommittedFileComplete
<1>12. ASSUME NEW n \in Name, CancelStart(n) \/ CancelAppend(n) \/ CancelRename(n)
       PROVE  FALSE
  BY <1>1, <1>12 DEF CancelStart, CancelAppend, CancelRename
<1> QED
  BY <1>2, <1>4, <1>5, <1>6, <1>7, <1>8, <1>9, <1>10, <1>11, <1>12 DEF Next

-----------------------------------------------------------------------------
\* A cancellation is never taken back.
LEMMA CancelsMove ==
  ASSUME TypeOK, Next
  PROVE  /\ cancels \in Nat
         /\ \/ cancels' = cancels
            \/ /\ cancels' = cancels + 1
               /\ \E n \in Name : CancelStart(n) \/ CancelAppend(n) \/ CancelRename(n) \/ ReplaceFails(n)
<1> DEFINE Goal == \/ cancels' = cancels
                   \/ /\ cancels' = cancels + 1
                      /\ \E n \in Name :
                           CancelStart(n) \/ CancelAppend(n) \/ CancelRename(n) \/ ReplaceFails(n)
<1>1. cancels \in Nat
  BY BoundsAssumption DEF TypeOK
<1>2. ASSUME NEW n \in Name, CancelStart(n) \/ CancelAppend(n) \/ CancelRename(n)
      PROVE  Goal
  <2>1. cancels' = cancels + 1
    BY <1>2 DEF CancelStart, CancelAppend, CancelRename, Cancelled
  <2> QED BY <1>2, <2>1
<1>3. ASSUME NEW n \in Name, AppendOK(n) \/ AppendFails(n) \/ Commit(n) \/ RenameFails(n)
                            \/ WholeUpload(n) \/ DeleteEvidence(n)
      PROVE  Goal
  <2>1. cancels' = cancels
    BY <1>3 DEF AppendOK, AppendFails, Commit, RenameFails, WholeUpload, DeleteEvidence
  <2> QED BY <2>1
<1>4. ASSUME NEW n \in Name, ReplaceFails(n)
      PROVE  Goal
  <2>1. cancels' = cancels \/ cancels' = cancels + 1
    BY <1>4 DEF ReplaceFails, Cancelled
  <2> QED BY <1>4, <2>1
<1>5. ASSUME NEW n \in Name, NEW i \in 0 .. MaxChunks - 1, NEW t \in 1 .. MaxChunks,
             Begin(n, i, t)
      PROVE  Goal
  <2>1. cancels' = cancels
    BY <1>5 DEF Begin
  <2> QED BY <2>1
<1>6. ASSUME NEW z \in threads, LateAppend(z) \/ LateRename(z)
      PROVE  Goal
  <2>1. cancels' = cancels
    BY <1>6 DEF LateAppend, LateRename
  <2> QED BY <2>1
<1>7. ASSUME GiveUp \/ CrashAndRestart
      PROVE  Goal
  <2>1. cancels' = cancels
    BY <1>7 DEF GiveUp, CrashAndRestart
  <2> QED BY <2>1
<1> HIDE DEF Goal
<1>8. Goal
  BY <1>2, <1>3, <1>4, <1>5, <1>6, <1>7 DEF Next
<1> QED BY <1>1, <1>8 DEF Goal

LEMMA CancelsGrow ==
  ASSUME TypeOK, Next, Uncancelled'
  PROVE  Uncancelled
BY CancelsMove DEF Uncancelled

LEMMA IInvInit == Init => IInv
<1> SUFFICES ASSUME Init PROVE IInv
  OBVIOUS
<1>1. TypeOK
  BY BoundsAssumption DEF Init, TypeOK
<1>2. UpInv
  BY DEF Init, UpInv, Idle
<1>3. ContentInv
  BY DEF Init, ContentInv, Held, Owned, CommittedFileComplete
<1> QED
  BY <1>1, <1>2, <1>3 DEF IInv

LEMMA IInvStep == IInv /\ [Next]_vars => IInv'
<1> SUFFICES ASSUME IInv, [Next]_vars PROVE IInv'
  OBVIOUS
<1>1. CASE UNCHANGED vars
  BY <1>1 DEF vars, IInv, TypeOK, UpInv, IsLast, Uncancelled, ContentInv, Held, Owned,
     CommittedFileComplete
<1>2. CASE Next
  <2>1. TypeOK' /\ UpInv'
    BY <1>2, TypeKept, UpKept DEF IInv
  <2>2. Uncancelled' => Uncancelled
    BY <1>2, CancelsGrow DEF IInv
  <2>3. Uncancelled' => ContentInv'
    BY <1>2, <2>2, ContentKept DEF IInv
  <2> QED
    BY <2>1, <2>3 DEF IInv
<1> QED
  BY <1>1, <1>2

LEMMA SpecInv == Spec => []IInv
<1> QED
  BY IInvInit, IInvStep, PTL DEF Spec

(***************************************************************************)
(* The upload table, the part files and the left-behind threads keep their *)
(* types, after cancellations and crashes too: next_index never reaches    *)
(* the declared number of chunks.                                          *)
(***************************************************************************)
THEOREM UploadTypeCorrect == Spec => []TypeOK
<1> QED
  BY SpecInv, PTL DEF IInv

(***************************************************************************)
(* Between requests the part file of an upload is the prefix upload_chunk  *)
(* accepted: failed writes, failed renames, restarted and interleaved      *)
(* uploads leave nothing else in it.                                       *)
(***************************************************************************)
THEOREM PrefixIntact == Spec => []AcceptedPrefixIntact
<1>1. IInv => AcceptedPrefixIntact
  BY DEF IInv, AcceptedPrefixIntact, ContentInv, Held
<1> QED
  BY <1>1, SpecInv, PTL

(***************************************************************************)
(* A file in the evidence list is all the chunks of one upload, whatever   *)
(* failed and however often the backend stopped, unless a request was      *)
(* cancelled while its thread ran.                                         *)
(***************************************************************************)
THEOREM FileComplete == Spec => []UncancelledFileComplete
<1>1. IInv => UncancelledFileComplete
  BY DEF IInv, UncancelledFileComplete, ContentInv
<1> QED
  BY <1>1, SpecInv, PTL

(***************************************************************************)
(* Every part file belongs to the upload that will remove it.              *)
(***************************************************************************)
THEOREM NoPartLeaks == Spec => []NoLeakedPart
<1>1. IInv => NoLeakedPart
  BY DEF IInv, NoLeakedPart, ContentInv, Owned
<1> QED
  BY <1>1, SpecInv, PTL

-----------------------------------------------------------------------------
(***************************************************************************)
(* One cancelled request leaves one thread.  A rename it waits for creates *)
(* the file, unless the upload it belongs to went another way meanwhile.   *)
(***************************************************************************)

\* The file that is to appear is not there as long as its upload is.
RenameWaits(z) ==
  /\ z.part <= starts
  /\ \/ up[z.name] # None /\ up[z.name].part = z.part /\ file[z.name] = None
     \/ part[z.part] = None /\ \A n \in Name : up[n] # None => up[n].part # z.part

LateInv ==
  /\ cancels = 0 => threads = {}
  /\ cancels <= 1 => \A y, z \in threads : y = z
  /\ cancels = 0 /\ now.at # "idle" /\ ~now.replacing => file[now.name] = None
  /\ cancels <= 1 => \A z \in threads : z.does = "rename" => RenameWaits(z)

\* Writing to the part file of an upload ends no wait.
LEMMA WriteWaits ==
  ASSUME TypeOK, UpInv, NEW z, z.part \in Parts, z.name \in Name, RenameWaits(z),
         NEW n \in Name, up[n] # None, NEW s, part' = [part EXCEPT ![up[n].part] = s],
         up' = up \/ (up' = [up EXCEPT ![n].next = @ + 1] /\ up'[n] # None),
         UNCHANGED <<file, starts>>
  PROVE  RenameWaits(z)'
<1>1. \A m \in Name : /\ up'[m] # None => up[m] # None
                      /\ up[m] # None => up'[m] # None /\ up'[m].part = up[m].part
  <2>1. CASE up' = up
    BY <2>1
  <2>2. CASE up' = [up EXCEPT ![n].next = @ + 1] /\ up'[n] # None
    <3>1. up[n] \in Upload
      BY DEF TypeOK
    <3>2. up'[n] = [up[n] EXCEPT !.next = @ + 1] /\ \A m \in Name \ {n} : up'[m] = up[m]
      BY <2>2 DEF TypeOK
    <3>3. up'[n].part = up[n].part
      BY <3>1, <3>2 DEF Upload
    <3> QED BY <2>2, <3>2, <3>3
  <2> QED BY <2>1, <2>2
<1>2. up[n].part \in Parts
  BY DEF TypeOK, Upload
<1>3. \A p \in Parts \ {up[n].part} : part'[p] = part[p]
  BY <1>2 DEF TypeOK
<1>4. CASE up[z.name] # None /\ up[z.name].part = z.part /\ file[z.name] = None
  BY <1>1, <1>4 DEF RenameWaits
<1>5. CASE part[z.part] = None /\ \A m \in Name : up[m] # None => up[m].part # z.part
  BY <1>1, <1>2, <1>3, <1>5 DEF RenameWaits
<1> QED BY <1>4, <1>5 DEF RenameWaits

\* An upload that ends, or begins anew, takes its part file along; so nothing
\* is left to be renamed.
LEMMA DiscardWaits ==
  ASSUME TypeOK, UpInv, NEW z, z.part \in Parts, z.name \in Name, RenameWaits(z),
         NEW n \in Name, part'[z.part] = WithoutPart(n)[z.part],
         starts <= starts', starts' \in Nat,
         up'[n] # None => up'[n].part # z.part,
         \A m \in Name \ {n} : up'[m] = up[m] /\ file'[m] = file[m]
  PROVE  RenameWaits(z)'
<1>1. part'[z.part] = IF up[n] # None /\ z.part = up[n].part THEN None ELSE part[z.part]
  BY DEF WithoutPart
<1>2. z.part <= starts'
  BY BoundsAssumption DEF RenameWaits, TypeOK, Parts
<1>3. CASE up[z.name] # None /\ up[z.name].part = z.part /\ file[z.name] = None
  <2>1. CASE z.name # n
    BY <1>2, <1>3, <2>1 DEF RenameWaits
  <2>2. CASE z.name = n
    <3>1. part'[z.part] = None
      BY <1>1, <1>3, <2>2
    <3>2. \A m \in Name \ {n} : up[m] # None => up[m].part # z.part
      BY <1>3, <2>2 DEF UpInv
    <3> QED BY <1>2, <3>1, <3>2 DEF RenameWaits
  <2> QED BY <2>1, <2>2
<1>4. CASE part[z.part] = None /\ \A m \in Name : up[m] # None => up[m].part # z.part
  BY <1>1, <1>2, <1>4 DEF RenameWaits
<1> QED BY <1>3, <1>4 DEF RenameWaits

\* The first request that is cancelled leaves at most its own thread.
LEMMA FirstCancelKept ==
  ASSUME TypeOK, UpInv, LateInv, NEW n \in Name, cancels = 0, cancels' = 1,
         CancelStart(n) \/ CancelAppend(n) \/ CancelRename(n) \/ ReplaceFails(n)
  PROVE  LateInv'
<1>1. threads = {}
  BY DEF LateInv
<1>2. ASSUME threads' = {} PROVE LateInv'
  BY <1>2 DEF LateInv
<1>3. CASE CancelStart(n) \/ ReplaceFails(n)
  BY <1>1, <1>2, <1>3 DEF CancelStart, ReplaceFails
<1>4. CASE CancelAppend(n)
  <2>1. threads' = {[does |-> "append", part |-> up[n].part,
                     chunk |-> now.chunk, size |-> up[n].next]}
    BY <1>1, <1>4 DEF CancelAppend
  <2> QED BY <2>1 DEF LateInv
<1>5. CASE CancelRename(n)
  <2>0. PICK z : z = [does |-> "rename", part |-> up[n].part, name |-> n]
    OBVIOUS
  <2>1. now.at = "appended" /\ now.name = n /\ now.replacing = FALSE
    BY <1>5 DEF CancelRename, Completing
  <2>2. threads' = {} \/ (threads' = {z} /\ UNCHANGED <<up, file, starts>>)
    BY <1>1, <1>5, <2>0 DEF CancelRename
  <2>3. CASE threads' = {z} /\ UNCHANGED <<up, file, starts>>
    <3>1. up[n] # None /\ up[n].part <= starts /\ file[n] = None
      BY <2>1 DEF UpInv, LateInv
    <3>2. z.part = up[n].part /\ z.name = n
      BY <2>0
    <3>3. RenameWaits(z)'
      BY <2>3, <3>1, <3>2 DEF RenameWaits
    <3> QED BY <2>3, <3>3 DEF LateInv
  <2> QED BY <1>2, <2>2, <2>3
<1> QED BY <1>3, <1>4, <1>5

\* Without a new cancellation there are no new threads.
LEMMA ThreadsShrink ==
  ASSUME TypeOK, Next, cancels' = cancels
  PROVE  /\ threads' \subseteq threads
         /\ \A n \in Name : ~CancelStart(n) /\ ~CancelAppend(n) /\ ~CancelRename(n)
<1>1. cancels' # cancels + 1
  BY BoundsAssumption DEF TypeOK
<1>2. \A n \in Name : ~CancelStart(n) /\ ~CancelAppend(n) /\ ~CancelRename(n)
  BY <1>1 DEF CancelStart, CancelAppend, CancelRename, Cancelled
<1>3. ASSUME NEW n \in Name, \/ AppendOK(n) \/ AppendFails(n) \/ Commit(n) \/ RenameFails(n)
                             \/ ReplaceFails(n) \/ WholeUpload(n) \/ DeleteEvidence(n)
      PROVE  threads' = threads
  BY <1>3 DEF AppendOK, AppendFails, Commit, RenameFails, ReplaceFails, WholeUpload, DeleteEvidence
<1>4. ASSUME NEW n \in Name, NEW i \in 0 .. MaxChunks - 1, NEW t \in 1 .. MaxChunks,
             Begin(n, i, t)
      PROVE  threads' = threads
  BY <1>4 DEF Begin
<1>5. ASSUME NEW y \in threads, LateAppend(y) \/ LateRename(y)
      PROVE  threads' = threads \ {y}
  BY <1>5 DEF LateAppend, LateRename
<1>6. ASSUME GiveUp PROVE threads' = threads
  BY <1>6 DEF GiveUp
<1>7. ASSUME CrashAndRestart PROVE threads' = {}
  BY <1>7 DEF CrashAndRestart
<1>8. threads' \subseteq threads
  BY <1>2, <1>3, <1>4, <1>5, <1>6, <1>7 DEF Next
<1> QED BY <1>2, <1>8

\* The state of an upload that goes on is one.
LEMMA NextUpload ==
  ASSUME TypeOK, UpInv, NEW n \in Name, AppendOK(n), ~IsLast
  PROVE  up' = [up EXCEPT ![n].next = @ + 1] /\ up'[n] # None
<1>1. now.at # "idle" /\ now.name = n /\ up' = [up EXCEPT ![n].next = @ + 1]
  BY DEF AppendOK, Accepted
<1>2. up[n] \in Upload /\ up'[n] = [up[n] EXCEPT !.next = @ + 1]
  BY <1>1, RequestType DEF TypeOK
<1>3. up[n].next < up[n].total /\ up[n].next + 1 # up[n].total
  BY <1>1 DEF UpInv, IsLast
<1>4. up'[n] \in Upload
  BY <1>2, <1>3, BoundsAssumption DEF Upload
<1> QED BY <1>1, <1>4, NoneAssumption

\* While one request at most was cancelled, a thread that waits goes on waiting.
LEMMA WaitsKept ==
  ASSUME TypeOK, UpInv, LateInv, Next, cancels' = cancels, cancels <= 1,
         NEW z \in threads', z.does = "rename"
  PROVE  z \in threads /\ RenameWaits(z)'
<1> USE BoundsAssumption
<1>1. \A m \in Name : ~CancelStart(m) /\ ~CancelAppend(m) /\ ~CancelRename(m)
  BY ThreadsShrink
<1>2. threads' \subseteq threads
  BY ThreadsShrink
<1>3. /\ z \in threads /\ RenameWaits(z) /\ z.part \in Parts /\ z.name \in Name
  <2>1. z \in threads
    BY <1>2
  <2>2. z \in Thread
    BY <2>1 DEF TypeOK
  <2> QED BY <2>1, <2>2 DEF LateInv, Thread
<1>4. ASSUME NEW n \in Name, NEW i \in 0 .. MaxChunks - 1, NEW t \in 1 .. MaxChunks,
             Begin(n, i, t)
      PROVE  RenameWaits(z)'
  <2>1. CASE StartOver(n, t)
    <3>1. /\ starts' = starts + 1 /\ starts' \in Parts /\ starts \in Nat
          /\ part' = [WithoutPart(n) EXCEPT ![starts'] = << >>]
          /\ up' = [up EXCEPT ![n] = [part |-> starts', total |-> t, next |-> 0]]
          /\ file' = file
      BY <1>4, <2>1 DEF Begin, StartOver, TypeOK, Parts
    <3>2. z.part # starts'
      BY <1>3, <3>1 DEF RenameWaits, Parts
    <3>3. part'[z.part] = WithoutPart(n)[z.part]
      BY <1>3, <3>1, <3>2 DEF WithoutPart
    <3>4. up'[n].part = starts' /\ \A m \in Name \ {n} : up'[m] = up[m] /\ file'[m] = file[m]
      BY <3>1 DEF TypeOK
    <3>5. starts <= starts' /\ starts' \in Nat
      BY <3>1
    <3> QED BY <1>3, <3>2, <3>3, <3>4, <3>5, DiscardWaits
  <2>2. CASE UNCHANGED <<up, part, starts>>
    BY <1>3, <1>4, <2>2 DEF Begin, RenameWaits
  <2> QED BY <1>4, <2>1, <2>2 DEF Begin
<1>5. ASSUME NEW n \in Name, AppendOK(n) \/ AppendFails(n) \/ RenameFails(n)
      PROVE  RenameWaits(z)'
  <2>1. now.at # "idle" /\ now.name = n
    BY <1>5 DEF AppendOK, AppendFails, RenameFails, Accepted, Completing
  <2>2. up[n] # None
    BY <2>1 DEF UpInv
  <2>3. /\ UNCHANGED <<file, starts>>
        /\ \E s : part' = [part EXCEPT ![up[n].part] = s]
    BY <1>5 DEF AppendOK, AppendFails, RenameFails
  <2>4. up' = up \/ (up' = [up EXCEPT ![n].next = @ + 1] /\ up'[n] # None)
    <3>1. CASE AppendOK(n) /\ ~IsLast
      BY <3>1, NextUpload
    <3>2. CASE AppendOK(n) /\ IsLast
      BY <3>2 DEF AppendOK
    <3>3. CASE AppendFails(n) \/ RenameFails(n)
      BY <3>3 DEF AppendFails, RenameFails
    <3> QED BY <1>5, <3>1, <3>2, <3>3
  <2>5. PICK s : part' = [part EXCEPT ![up[n].part] = s]
    BY <2>3
  <2> QED BY <1>3, <2>2, <2>3, <2>4, <2>5, WriteWaits
<1>6. ASSUME NEW n \in Name, Discard(n), UNCHANGED starts,
             \A m \in Name \ {n} : file'[m] = file[m]
      PROVE  RenameWaits(z)'
  <2>1. /\ part'[z.part] = WithoutPart(n)[z.part] /\ up'[n] = None
        /\ \A m \in Name \ {n} : up'[m] = up[m]
    BY <1>6 DEF Discard, TypeOK
  <2>2. starts <= starts' /\ starts' \in Nat
    BY <1>6 DEF TypeOK
  <2> QED BY <1>3, <1>6, <2>1, <2>2, DiscardWaits
<1>7. ASSUME NEW n \in Name, Commit(n)
      PROVE  RenameWaits(z)'
  <2>1. /\ now.at # "idle" /\ now.name = n
        /\ file' = [file EXCEPT ![n] = part[up[n].part]]
        /\ part' = [part EXCEPT ![up[n].part] = None]
        /\ up' = [up EXCEPT ![n] = None]
        /\ UNCHANGED starts
    BY <1>7 DEF Commit, Completing
  <2>2. up[n] # None
    BY <2>1 DEF UpInv
  <2>3. Discard(n)
    BY <2>1, <2>2 DEF Discard, WithoutPart, TypeOK
  <2>4. \A m \in Name \ {n} : file'[m] = file[m]
    BY <2>1 DEF TypeOK
  <2> QED BY <1>6, <2>1, <2>3, <2>4
<1>8. ASSUME NEW n \in Name, ReplaceFails(n) \/ WholeUpload(n) \/ DeleteEvidence(n)
      PROVE  RenameWaits(z)'
  <2>0. cancels' # cancels + 1
    BY DEF TypeOK
  <2>1. Discard(n) /\ UNCHANGED starts
    BY <1>8, <2>0 DEF ReplaceFails, WholeUpload, DeleteEvidence, Cancelled
  <2>2. \A m \in Name \ {n} : file'[m] = file[m]
    BY <1>8 DEF ReplaceFails, WholeUpload, DeleteEvidence, TypeOK
  <2> QED BY <1>6, <2>1, <2>2
<1>9. ASSUME NEW y \in threads, LateAppend(y) \/ LateRename(y)
      PROVE  FALSE
  <2>1. threads' = threads \ {y}
    BY <1>9 DEF LateAppend, LateRename
  <2>2. y = z
    BY <1>3 DEF LateInv
  <2> QED BY <2>1, <2>2
<1>10. CASE GiveUp
  BY <1>3, <1>10 DEF GiveUp, RenameWaits
<1>11. CASE CrashAndRestart
  BY <1>11 DEF CrashAndRestart
<1> QED BY <1>1, <1>3, <1>4, <1>5, <1>7, <1>8, <1>9, <1>10, <1>11 DEF Next

\* A request for a new name finds no file until it commits, unless a thread is left.
LEMMA NewNameKept ==
  ASSUME TypeOK, UpInv, LateInv, Next, cancels = 0, cancels' = 0,
         now'.at # "idle", ~now'.replacing
  PROVE  file'[now'.name] = None
<1>1. threads = {}
  BY DEF LateInv
<1>2. \A m \in Name : ~CancelStart(m) /\ ~CancelAppend(m) /\ ~CancelRename(m)
  BY DEF CancelStart, CancelAppend, CancelRename, Cancelled
<1>3. ASSUME NEW n \in Name, NEW i \in 0 .. MaxChunks - 1, NEW t \in 1 .. MaxChunks,
             Begin(n, i, t)
      PROVE  file'[now'.name] = None
  BY <1>3 DEF Begin
<1>4. ASSUME NEW n \in Name, AppendOK(n)
      PROVE  file'[now'.name] = None
  <2>1. now.at # "idle" /\ file' = file
    BY <1>4 DEF AppendOK, Accepted
  <2>2. now' # Idle
    BY DEF Idle
  <2>3. now' = [now EXCEPT !.at = "appended"]
    BY <1>4, <2>2 DEF AppendOK
  <2>4. now'.name = now.name /\ now'.replacing = now.replacing
    BY <2>1, <2>3, RequestType
  <2> QED BY <2>1, <2>4 DEF LateInv
<1>5. ASSUME NEW n \in Name, \/ AppendFails(n) \/ Commit(n) \/ RenameFails(n)
                             \/ ReplaceFails(n) \/ WholeUpload(n) \/ DeleteEvidence(n)
      PROVE  now' = Idle
  BY <1>5 DEF AppendFails, Commit, RenameFails, ReplaceFails, WholeUpload, DeleteEvidence
<1>6. CASE GiveUp \/ CrashAndRestart
  BY <1>6 DEF GiveUp, CrashAndRestart, Idle
<1> QED BY <1>1, <1>2, <1>3, <1>4, <1>5, <1>6 DEF Next, Idle

LEMMA LateKept ==
  ASSUME TypeOK, UpInv, LateInv, Next
  PROVE  LateInv'
<1>1. /\ cancels \in Nat
      /\ \/ cancels' = cancels
         \/ /\ cancels' = cancels + 1
            /\ \E n \in Name : CancelStart(n) \/ CancelAppend(n) \/ CancelRename(n) \/ ReplaceFails(n)
  BY CancelsMove
<1>2. CASE ~(cancels' <= 1)
  <2>1. cancels' # 0
    BY <1>1, <1>2
  <2> QED BY <1>2, <2>1 DEF LateInv
<1>3. CASE cancels' <= 1 /\ cancels' # cancels
  <2>1. cancels = 0 /\ cancels' = 1
    BY <1>1, <1>3
  <2> QED BY <1>1, <2>1, FirstCancelKept
<1>4. CASE cancels <= 1 /\ cancels' = cancels
  <2>1. \A z \in threads' : z.does = "rename" => RenameWaits(z)'
    BY <1>4, WaitsKept
  <2>2. threads' \subseteq threads
    BY <1>4, ThreadsShrink
  <2>3. cancels' = 0 /\ now'.at # "idle" /\ ~now'.replacing => file'[now'.name] = None
    BY <1>4, NewNameKept
  <2> QED BY <1>4, <2>1, <2>2, <2>3 DEF LateInv
<1> QED BY <1>1, <1>2, <1>3, <1>4

LEMMA SpecLate == Spec => [](TypeOK /\ UpInv /\ LateInv)
<1>1. Init => LateInv
  BY DEF Init, LateInv, Idle
<1>2. IInv /\ LateInv /\ [Next]_vars => LateInv'
  <2> SUFFICES ASSUME IInv, LateInv, [Next]_vars PROVE LateInv'
    OBVIOUS
  <2>1. CASE UNCHANGED vars
    BY <2>1 DEF vars, LateInv, RenameWaits
  <2>2. CASE Next
    BY <2>2, LateKept DEF IInv
  <2> QED BY <2>1, <2>2
<1>3. IInv => TypeOK /\ UpInv
  BY DEF IInv
<1> QED BY <1>1, <1>2, <1>3, SpecInv, PTL DEF Spec

(***************************************************************************)
(* While at most one request was cancelled, its thread overwrites no file: *)
(* what it was about to rename is gone as soon as another request has made *)
(* the file.                                                               *)
(***************************************************************************)
THEOREM LateThreadsHarmless == Spec => LateThreadsNeverOverwrite
<1> DEFINE Harmless ==
      \A n \in Name :
        cancels <= 1 /\ file[n] # None /\ file'[n] # file[n] => threads' = threads
<1>1. TypeOK /\ UpInv /\ LateInv /\ [Next]_vars => Harmless
  <2> SUFFICES ASSUME TypeOK, UpInv, LateInv, [Next]_vars, NEW n \in Name,
                      cancels <= 1, file[n] # None, file'[n] # file[n]
               PROVE  threads' = threads
    OBVIOUS
  <2>1. CASE UNCHANGED vars
    BY <2>1 DEF vars
  <2>2. ASSUME NEW m \in Name, NEW i \in 0 .. MaxChunks - 1, NEW t \in 1 .. MaxChunks,
               Begin(m, i, t)
        PROVE  threads' = threads
    BY <2>2 DEF Begin
  <2>3. ASSUME NEW m \in Name, \/ CancelStart(m) \/ CancelAppend(m) \/ AppendOK(m)
                               \/ AppendFails(m) \/ Commit(m) \/ RenameFails(m)
                               \/ ReplaceFails(m) \/ WholeUpload(m) \/ DeleteEvidence(m)
        PROVE  threads' = threads
    BY <2>3 DEF CancelStart, CancelAppend, AppendOK, AppendFails, Commit, RenameFails,
                ReplaceFails, WholeUpload, DeleteEvidence
  <2>4. ASSUME NEW m \in Name, CancelRename(m)
        PROVE  threads' = threads
    BY <2>4 DEF CancelRename
  <2>5. ASSUME NEW z \in threads, LateAppend(z)
        PROVE  threads' = threads
    BY <2>5 DEF LateAppend
  <2>6. ASSUME NEW z \in threads, LateRename(z)
        PROVE  FALSE
    <3>1. part[z.part] # None /\ file' = [file EXCEPT ![z.name] = part[z.part]] /\ z.does = "rename"
      BY <2>6 DEF LateRename
    <3>2. file[z.name] = None
      BY <3>1 DEF LateInv, RenameWaits
    <3>3. n # z.name /\ file'[n] = file[n]
      BY <3>1, <3>2 DEF TypeOK
    <3> QED BY <3>3
  <2>7. CASE GiveUp
    BY <2>7 DEF GiveUp
  <2>8. CASE CrashAndRestart
    BY <2>8 DEF CrashAndRestart
  <2> QED BY <2>1, <2>2, <2>3, <2>4, <2>5, <2>6, <2>7, <2>8 DEF Next
<1>2. (TypeOK /\ UpInv /\ LateInv) /\ [Next]_vars => [Harmless]_vars
  BY <1>1
<1> QED BY <1>2, SpecLate, PTL DEF Spec, LateThreadsNeverOverwrite

-----------------------------------------------------------------------------
(***************************************************************************)
(* The sum of the sizes, which the library computes by taking one element  *)
(* after the other, is what a sum should be.  Each fact about it is proved *)
(* from the smallest set of names that would refute it.                    *)
(***************************************************************************)
SizeIn(f, n) == IF f[n] = None THEN 0 ELSE Len(f[n])

Picked(s) == CHOOSE x \in s : TRUE

\* The function the library's recursive definition stands for.
IsSum(h, f, S) ==
  h = [s \in SUBSET S |-> IF s = {} THEN 0 ELSE SizeIn(f, Picked(s)) + h[s \ {Picked(s)}]]

SumIn(f, S) == (CHOOSE h : IsSum(h, f, S))[S]

LEMMA SumIsSum ==
  ASSUME NEW S
  PROVE  MapThenSumSet(Size, S) = SumIn(file, S)
BY DEF MapThenSumSet, MapThenFoldSet, SumIn, IsSum, Size, SizeIn, Picked

\* A set of numbers that is not empty has a least one.
LEMMA LeastExists ==
  ASSUME NEW B \in SUBSET Nat, B # {}
  PROVE  \E b \in B : \A c \in B : ~(c < b)
<1>1. IsWellFoundedOn(OpToRel(<, Nat), Nat)
  BY NatLessThanWellFounded
<1>2. \E b \in B : \A c \in B : ~(<<c, b>> \in OpToRel(<, Nat))
  BY <1>1, WFMin
<1> QED BY <1>2 DEF OpToRel

\* Taking the picked name away leaves a smaller set.
LEMMA WithoutPicked ==
  ASSUME NEW S \in SUBSET Name, S # {}
  PROVE  /\ Picked(S) \in S /\ S \ {Picked(S)} \in SUBSET Name
         /\ Cardinality(S) \in Nat /\ Cardinality(S \ {Picked(S)}) \in Nat
         /\ Cardinality(S \ {Picked(S)}) < Cardinality(S)
<1>1. Picked(S) \in S
  BY DEF Picked
<1>2. IsFiniteSet(S)
  BY NameAssumption, FS_Subset
<1>3. Cardinality(S) \in Nat
  BY <1>2, FS_CardinalityType
<1>4. IsFiniteSet(S \ {Picked(S)}) /\ Cardinality(S \ {Picked(S)}) = Cardinality(S) - 1
  BY <1>1, <1>2, FS_RemoveElement
<1>5. Cardinality(S \ {Picked(S)}) \in Nat
  BY <1>4, FS_CardinalityType
<1> QED BY <1>1, <1>3, <1>4, <1>5

\* Where two such functions are defined, they are the same.
LEMMA SumUnique ==
  ASSUME NEW f, NEW S \in SUBSET Name, NEW T \in SUBSET Name, NEW h, NEW k,
         IsSum(h, f, S), IsSum(k, f, T), NEW u \in SUBSET (S \cap T)
  PROVE  h[u] = k[u]
<1> DEFINE Bad == {v \in SUBSET (S \cap T) : h[v] # k[v]}
<1> DEFINE B == {Cardinality(v) : v \in Bad}
<1>1. \A v \in SUBSET (S \cap T) : Cardinality(v) \in Nat
  BY NameAssumption, FS_Subset, FS_CardinalityType
<1>2. SUFFICES ASSUME Bad # {} PROVE FALSE
  OBVIOUS
<1>3. B \in SUBSET Nat /\ B # {}
  BY <1>1, <1>2
<1>4. PICK b \in B : \A c \in B : ~(c < b)
  <2> HIDE DEF B
  <2> QED BY <1>3, LeastExists
<1>5. PICK v \in Bad : b = Cardinality(v)
  OBVIOUS
<1>6. /\ h[v] = IF v = {} THEN 0 ELSE SizeIn(f, Picked(v)) + h[v \ {Picked(v)}]
      /\ k[v] = IF v = {} THEN 0 ELSE SizeIn(f, Picked(v)) + k[v \ {Picked(v)}]
  BY DEF IsSum
<1>7. v # {}
  BY <1>6
<1>8. v \ {Picked(v)} \in SUBSET (S \cap T) /\ Cardinality(v \ {Picked(v)}) < Cardinality(v)
  BY <1>7, WithoutPicked
<1>9. v \ {Picked(v)} \notin Bad
  BY <1>4, <1>5, <1>8
<1>10. h[v \ {Picked(v)}] = k[v \ {Picked(v)}]
  BY <1>8, <1>9
<1> QED BY <1>6, <1>10

\* There is such a function for every set of names.
LEMMA SumExists ==
  ASSUME NEW f, NEW S \in SUBSET Name
  PROVE  \E h : IsSum(h, f, S)
<1> DEFINE Bad == {T \in SUBSET Name : ~ \E h : IsSum(h, f, T)}
<1> DEFINE B == {Cardinality(T) : T \in Bad}
<1>1. \A T \in SUBSET Name : Cardinality(T) \in Nat
  BY NameAssumption, FS_Subset, FS_CardinalityType
<1>2. SUFFICES ASSUME Bad # {} PROVE FALSE
  OBVIOUS
<1>3. B \in SUBSET Nat /\ B # {}
  BY <1>1, <1>2
<1>4. PICK b \in B : \A c \in B : ~(c < b)
  <2> HIDE DEF B
  <2> QED BY <1>3, LeastExists
<1>5. PICK T \in Bad : b = Cardinality(T)
  OBVIOUS
<1>6. ASSUME NEW U \in SUBSET T, U # T
      PROVE  LET j == CHOOSE j : IsSum(j, f, U) IN IsSum(j, f, U) /\ SumIn(f, U) = j[U]
  <2>1. U \in SUBSET Name /\ Cardinality(U) < Cardinality(T)
    <3>1. IsFiniteSet(T)
      BY NameAssumption, FS_Subset
    <3>2. Cardinality(U) <= Cardinality(T) /\ Cardinality(U) # Cardinality(T)
      BY <1>6, <3>1, FS_Subset
    <3> QED BY <1>1, <3>2
  <2>2. U \notin Bad
    BY <1>4, <1>5, <2>1
  <2>3. \E j : IsSum(j, f, U)
    BY <2>1, <2>2
  <2> QED BY <2>3 DEF SumIn
<1> DEFINE h == [s \in SUBSET T |-> IF s = {} THEN 0
                                    ELSE SizeIn(f, Picked(s)) + SumIn(f, s \ {Picked(s)})]
<1>7. ASSUME NEW v \in SUBSET T, v # T
      PROVE  h[v] = SumIn(f, v)
  <2> DEFINE j == CHOOSE j : IsSum(j, f, v)
  <2>1. IsSum(j, f, v) /\ SumIn(f, v) = j[v]
    BY <1>6, <1>7
  <2> HIDE DEF j
  <2>2. j[v] = IF v = {} THEN 0 ELSE SizeIn(f, Picked(v)) + j[v \ {Picked(v)}]
    BY <2>1 DEF IsSum
  <2>3. CASE v = {}
    BY <2>1, <2>2, <2>3
  <2>4. CASE v # {}
    <3> DEFINE w == v \ {Picked(v)}
    <3>1. w \in SUBSET T /\ w # T /\ w \in SUBSET v /\ v \in SUBSET Name /\ w \in SUBSET Name
      <4>1. Picked(v) \in v
        BY <2>4 DEF Picked
      <4> QED BY <4>1
    <3> DEFINE i == CHOOSE i : IsSum(i, f, w)
    <3>2. IsSum(i, f, w) /\ SumIn(f, w) = i[w]
      <4> HIDE DEF w
      <4> QED BY <1>6, <3>1
    <3> HIDE DEF i, w
    <3>3. w \in SUBSET (v \cap w)
      BY <3>1
    <3>4. j[w] = i[w]
      BY <2>1, <3>1, <3>2, <3>3, SumUnique
    <3>5. h[v] = SizeIn(f, Picked(v)) + SumIn(f, w)
      BY <2>4 DEF w
    <3> QED BY <2>1, <2>2, <2>4, <3>2, <3>4, <3>5 DEF w
  <2> QED BY <2>3, <2>4
<1>8. ASSUME NEW s \in SUBSET T, s # {}
      PROVE  h[s \ {Picked(s)}] = SumIn(f, s \ {Picked(s)})
  <2>1. Picked(s) \in s
    BY <1>8 DEF Picked
  <2>2. s \ {Picked(s)} \in SUBSET T /\ s \ {Picked(s)} # T
    BY <2>1
  <2> HIDE DEF h
  <2> QED BY <1>7, <2>2
<1>9. \A s \in SUBSET T :
        h[s] = IF s = {} THEN 0 ELSE SizeIn(f, Picked(s)) + h[s \ {Picked(s)}]
  <2>1. \A s \in SUBSET T :
          h[s] = IF s = {} THEN 0 ELSE SizeIn(f, Picked(s)) + SumIn(f, s \ {Picked(s)})
    OBVIOUS
  <2> HIDE DEF h
  <2> QED BY <1>8, <2>1
<1>10. DOMAIN h = SUBSET T /\ h = [s \in SUBSET T |-> h[s]]
  OBVIOUS
<1> HIDE DEF h
<1>11. IsSum(h, f, T)
  BY <1>9, <1>10 DEF IsSum
<1> QED BY <1>11

\* What is summed up is the picked size and the sum of the others.
LEMMA SumPicked ==
  ASSUME NEW f, NEW S \in SUBSET Name
  PROVE  SumIn(f, S) = IF S = {} THEN 0 ELSE SizeIn(f, Picked(S)) + SumIn(f, S \ {Picked(S)})
<1> DEFINE h == CHOOSE h : IsSum(h, f, S)
<1>1. IsSum(h, f, S) /\ SumIn(f, S) = h[S]
  BY SumExists DEF SumIn
<1> HIDE DEF h
<1>2. h[S] = IF S = {} THEN 0 ELSE SizeIn(f, Picked(S)) + h[S \ {Picked(S)}]
  BY <1>1 DEF IsSum
<1> DEFINE T == S \ {Picked(S)}
<1> DEFINE k == CHOOSE k : IsSum(k, f, T)
<1>3. IsSum(k, f, T) /\ SumIn(f, T) = k[T]
  <2>1. T \in SUBSET Name
    OBVIOUS
  <2> HIDE DEF T
  <2> QED BY <2>1, SumExists DEF SumIn
<1>4. T \in SUBSET Name /\ T \in SUBSET (S \cap T)
  OBVIOUS
<1> HIDE DEF k, T
<1>5. h[T] = k[T]
  <2>1. S \in SUBSET Name /\ IsSum(h, f, S)
    BY <1>1
  <2>2. IsSum(k, f, T)
    BY <1>3
  <2>3. \A u \in SUBSET (S \cap T) : h[u] = k[u]
    BY <1>4, <2>1, <2>2, SumUnique
  <2> QED BY <1>4, <2>3
<1> QED BY <1>1, <1>2, <1>3, <1>5 DEF T

\* A sum of sizes is a number.
LEMMA SumType ==
  ASSUME NEW f \in [Name -> Seq(Chunk) \cup {None}], NEW S \in SUBSET Name
  PROVE  SumIn(f, S) \in Nat
<1> DEFINE Bad == {T \in SUBSET Name : SumIn(f, T) \notin Nat}
<1> DEFINE B == {Cardinality(T) : T \in Bad}
<1>1. \A T \in SUBSET Name : Cardinality(T) \in Nat
  BY NameAssumption, FS_Subset, FS_CardinalityType
<1>2. SUFFICES ASSUME Bad # {} PROVE FALSE
  OBVIOUS
<1>3. B \in SUBSET Nat /\ B # {}
  BY <1>1, <1>2
<1>4. PICK b \in B : \A c \in B : ~(c < b)
  <2> HIDE DEF B
  <2> QED BY <1>3, LeastExists
<1>5. PICK T \in Bad : b = Cardinality(T)
  OBVIOUS
<1>6. SumIn(f, T) = IF T = {} THEN 0 ELSE SizeIn(f, Picked(T)) + SumIn(f, T \ {Picked(T)})
  BY SumPicked
<1>7. T # {}
  BY <1>6
<1>8. Picked(T) \in T /\ T \ {Picked(T)} \in SUBSET Name
      /\ Cardinality(T \ {Picked(T)}) < Cardinality(T)
  BY <1>7, WithoutPicked
<1>9. SumIn(f, T \ {Picked(T)}) \in Nat
  BY <1>4, <1>5, <1>8
<1>10. SizeIn(f, Picked(T)) \in Nat
  <2>1. f[Picked(T)] \in Seq(Chunk) \cup {None}
    BY <1>8
  <2> QED BY <2>1, LenProperties DEF SizeIn
<1> QED BY <1>6, <1>7, <1>9, <1>10

\* Any name may be taken out of a sum.
LEMMA SumWithout ==
  ASSUME NEW f \in [Name -> Seq(Chunk) \cup {None}], NEW S \in SUBSET Name, NEW n \in S
  PROVE  SumIn(f, S) = SizeIn(f, n) + SumIn(f, S \ {n})
<1> DEFINE Holds(T, x) == SumIn(f, T) = SizeIn(f, x) + SumIn(f, T \ {x})
<1> DEFINE Bad == {T \in SUBSET Name : \E x \in T : ~Holds(T, x)}
<1> DEFINE B == {Cardinality(T) : T \in Bad}
<1>1. \A T \in SUBSET Name : Cardinality(T) \in Nat
  BY NameAssumption, FS_Subset, FS_CardinalityType
<1>2. SUFFICES ASSUME Bad # {} PROVE FALSE
  OBVIOUS
<1>3. B \in SUBSET Nat /\ B # {}
  BY <1>1, <1>2
<1>4. PICK b \in B : \A c \in B : ~(c < b)
  <2> HIDE DEF B
  <2> QED BY <1>3, LeastExists
<1>5. PICK T \in Bad : b = Cardinality(T)
  OBVIOUS
<1>6. PICK x \in T : ~Holds(T, x)
  OBVIOUS
<1>7. T \in SUBSET Name /\ T # {} /\ x \in Name
  BY <1>6
<1> DEFINE c == Picked(T)
<1>8. c \in T /\ T \ {c} \in SUBSET Name /\ Cardinality(T \ {c}) < Cardinality(T)
  BY <1>7, WithoutPicked
<1>9. Holds(T, c)
  BY <1>7, SumPicked
<1> HIDE DEF c
<1>10. c # x
  BY <1>6, <1>9
<1>11. \A U \in SUBSET Name : Cardinality(U) < Cardinality(T) => \A y \in U : Holds(U, y)
  BY <1>4, <1>5
<1> HIDE DEF Bad, B
<1> DEFINE U == T \ {c}
<1> DEFINE V == T \ {x}
<1> DEFINE R == U \ {x}
<1>12. /\ U \in SUBSET Name /\ V \in SUBSET Name /\ R \in SUBSET Name
       /\ x \in U /\ c \in V /\ V \ {c} = R
  BY <1>7, <1>8, <1>10
<1>13. Cardinality(V) < Cardinality(T)
  <2>1. IsFiniteSet(T)
    BY <1>7, NameAssumption, FS_Subset
  <2>2. Cardinality(V) = Cardinality(T) - 1
    BY <1>6, <2>1, FS_RemoveElement
  <2> QED BY <1>1, <1>7, <2>2
<1>14. SumIn(f, T) = SizeIn(f, c) + SumIn(f, U)
  BY <1>9
<1>15. SumIn(f, U) = SizeIn(f, x) + SumIn(f, R)
  <2>1. Holds(U, x)
    <3> HIDE DEF Holds
    <3> QED BY <1>8, <1>11, <1>12
  <2> QED BY <2>1
<1>16. SumIn(f, V) = SizeIn(f, c) + SumIn(f, R)
  <2>1. Holds(V, c)
    <3> HIDE DEF Holds, V
    <3> QED BY <1>11, <1>12, <1>13
  <2> QED BY <1>12, <2>1
<1>17. SumIn(f, T) # SizeIn(f, x) + SumIn(f, V)
  BY <1>6
<1>18. /\ SizeIn(f, x) \in Nat /\ SizeIn(f, c) \in Nat /\ SumIn(f, R) \in Nat
  <2> HIDE DEF R
  <2>1. f[x] \in Seq(Chunk) \cup {None} /\ f[c] \in Seq(Chunk) \cup {None}
    BY <1>7, <1>8
  <2> QED BY <1>12, <2>1, SumType, LenProperties DEF SizeIn
<1> HIDE DEF U, V, R, Holds
<1> QED BY <1>14, <1>15, <1>16, <1>17, <1>18

\* A sum depends on the sizes of its names alone.
LEMMA SumSame ==
  ASSUME NEW f, NEW g, NEW S \in SUBSET Name, \A n \in S : SizeIn(f, n) = SizeIn(g, n)
  PROVE  SumIn(f, S) = SumIn(g, S)
<1> DEFINE Bad == {T \in SUBSET S : SumIn(f, T) # SumIn(g, T)}
<1> DEFINE B == {Cardinality(T) : T \in Bad}
<1>1. \A T \in SUBSET S : Cardinality(T) \in Nat
  BY NameAssumption, FS_Subset, FS_CardinalityType
<1>2. SUFFICES ASSUME Bad # {} PROVE FALSE
  OBVIOUS
<1>3. B \in SUBSET Nat /\ B # {}
  BY <1>1, <1>2
<1>4. PICK b \in B : \A c \in B : ~(c < b)
  <2> HIDE DEF B
  <2> QED BY <1>3, LeastExists
<1>5. PICK T \in Bad : b = Cardinality(T)
  OBVIOUS
<1>6. T \in SUBSET Name
  OBVIOUS
<1>7. /\ SumIn(f, T) = IF T = {} THEN 0 ELSE SizeIn(f, Picked(T)) + SumIn(f, T \ {Picked(T)})
      /\ SumIn(g, T) = IF T = {} THEN 0 ELSE SizeIn(g, Picked(T)) + SumIn(g, T \ {Picked(T)})
  BY <1>6, SumPicked
<1>8. T # {}
  BY <1>7
<1>9. Picked(T) \in T /\ T \ {Picked(T)} \in SUBSET S
      /\ Cardinality(T \ {Picked(T)}) < Cardinality(T)
  BY <1>6, <1>8, WithoutPicked
<1>10. SumIn(f, T \ {Picked(T)}) = SumIn(g, T \ {Picked(T)})
  BY <1>4, <1>5, <1>9
<1>11. SizeIn(f, Picked(T)) = SizeIn(g, Picked(T))
  BY <1>9
<1> QED BY <1>7, <1>10, <1>11

-----------------------------------------------------------------------------
(***************************************************************************)
(* The quotas hold because nobody else writes between the check of a last  *)
(* chunk and its commit.                                                   *)
(***************************************************************************)
QuotaInv ==
  /\ \A n \in Name : SizeIn(file, n) <= MaxFile
  /\ SumIn(file, Name) <= MaxCase
  /\ now.at = "appended" =>
       /\ up[now.name].total <= MaxFile
       /\ SumIn(file, Name \ {now.name}) + up[now.name].total <= MaxCase

\* One file is replaced by one that fits.
LEMMA QuotaReplaced ==
  ASSUME TypeOK, TypeOK', NEW n \in Name, \A m \in Name \ {n} : file'[m] = file[m],
         NEW k \in Nat, SizeIn(file', n) = k, k <= MaxFile,
         SumIn(file, Name \ {n}) + k <= MaxCase, now'.at # "appended", QuotaInv
  PROVE  QuotaInv'
<1>1. \A m \in Name \ {n} : SizeIn(file', m) = SizeIn(file, m)
  BY DEF SizeIn
<1>2. /\ file \in [Name -> Seq(Chunk) \cup {None}] /\ file' \in [Name -> Seq(Chunk) \cup {None}]
  BY DEF TypeOK
<1>3. SumIn(file', Name \ {n}) = SumIn(file, Name \ {n}) /\ SumIn(file, Name \ {n}) \in Nat
  <2>1. Name \ {n} \in SUBSET Name
    OBVIOUS
  <2> QED BY <1>1, <1>2, <2>1, SumSame, SumType
<1>4. SumIn(file', Name) = k + SumIn(file', Name \ {n})
  BY <1>2, SumWithout
<1>5. SumIn(file', Name) <= MaxCase
  BY <1>3, <1>4
<1>6. \A m \in Name : SizeIn(file', m) <= MaxFile
  BY <1>1 DEF QuotaInv
<1> QED BY <1>5, <1>6 DEF QuotaInv

\* What is left when one file is taken away still fits.
LEMMA QuotaLeft ==
  ASSUME TypeOK, QuotaInv, NEW n \in Name
  PROVE  SumIn(file, Name \ {n}) \in Nat /\ SumIn(file, Name \ {n}) <= MaxCase
<1>1. file \in [Name -> Seq(Chunk) \cup {None}]
  BY DEF TypeOK
<1>2. Name \ {n} \in SUBSET Name
  OBVIOUS
<1>3. SumIn(file, Name \ {n}) \in Nat
  BY <1>1, <1>2, SumType
<1>4. SizeIn(file, n) \in Nat
  <2>1. file[n] \in Seq(Chunk) \cup {None}
    BY <1>1
  <2> QED BY <2>1, LenProperties DEF SizeIn
<1>5. SumIn(file, Name) = SizeIn(file, n) + SumIn(file, Name \ {n})
  BY <1>1, SumWithout
<1> QED BY <1>3, <1>4, <1>5, BoundsAssumption DEF QuotaInv

LEMMA QuotaKept ==
  ASSUME IInv, TypeOK', QuotaInv, Uncancelled, Uncancelled', Next
  PROVE  QuotaInv'
<1>1. TypeOK /\ UpInv /\ ContentInv
  BY DEF IInv
<1>2. \A m \in Name : ~CancelStart(m) /\ ~CancelAppend(m) /\ ~CancelRename(m)
  <2>1. cancels' = cancels
    BY DEF Uncancelled
  <2> QED BY <1>1, <2>1, ThreadsShrink
<1>3. threads = {}
  BY <1>1 DEF ContentInv
<1>4. ASSUME file' = file, now'.at # "appended"
      PROVE  QuotaInv'
  BY <1>4 DEF QuotaInv
<1>5. ASSUME NEW n \in Name, NEW i \in 0 .. MaxChunks - 1, NEW t \in 1 .. MaxChunks,
             Begin(n, i, t)
      PROVE  QuotaInv'
  <2>1. file' = file /\ now'.at = "checked"
    BY <1>5 DEF Begin
  <2> QED BY <1>4, <2>1
<1>6. ASSUME NEW n \in Name, AppendOK(n)
      PROVE  QuotaInv'
  <2>1. now.at = "checked" /\ now.name = n /\ file' = file /\ Fits(n, up[n].next + 1)
    BY <1>6 DEF AppendOK, Accepted
  <2>2. CASE ~IsLast
    BY <1>4, <1>6, <2>1, <2>2 DEF AppendOK, Idle
  <2>3. CASE IsLast
    <3>1. now' = [now EXCEPT !.at = "appended"] /\ up' = up
      BY <1>6, <2>3 DEF AppendOK
    <3>2. now'.name = n
      BY <1>1, <2>1, <3>1, RequestType
    <3>3. up[n].total = up[n].next + 1
      BY <1>1, <2>1, <2>3, HeldByRequest DEF IsLast
    <3>4. up[n].total <= MaxFile /\ SumIn(file, Name \ {n}) + up[n].total <= MaxCase
      BY <2>1, <3>3, SumIsSum DEF Fits, OtherBytes
    <3> QED BY <2>1, <3>1, <3>2, <3>4 DEF QuotaInv
  <2> QED BY <2>2, <2>3
<1>7. ASSUME NEW n \in Name, AppendFails(n) \/ RenameFails(n) \/ ReplaceFails(n)
      PROVE  QuotaInv'
  <2>1. file' = file /\ now' = Idle
    BY <1>7 DEF AppendFails, RenameFails, ReplaceFails
  <2> QED BY <1>4, <2>1 DEF Idle
<1>8. ASSUME NEW n \in Name, Commit(n)
      PROVE  QuotaInv'
  <2>1. /\ now.at = "appended" /\ now.name = n /\ now' = Idle
        /\ file' = [file EXCEPT ![n] = part[up[n].part]]
    BY <1>8 DEF Commit, Completing
  <2>2. /\ part[up[n].part] = Prefix(up[n].total, up[n].total)
        /\ up[n].total \in 1 .. MaxChunks
    BY <1>1, <2>1, HeldByRequest
  <2>3. /\ file'[n] = Prefix(up[n].total, up[n].total)
        /\ \A m \in Name \ {n} : file'[m] = file[m]
    BY <1>1, <2>1, <2>2 DEF TypeOK
  <2>4. SizeIn(file', n) = up[n].total /\ up[n].total \in Nat
    BY <2>2, <2>3, PrefixType, BoundsAssumption DEF SizeIn
  <2>5. up[n].total <= MaxFile /\ SumIn(file, Name \ {n}) + up[n].total <= MaxCase
    BY <2>1 DEF QuotaInv
  <2>6. now'.at # "appended"
    BY <2>1 DEF Idle
  <2> QED BY <1>1, <2>3, <2>4, <2>5, <2>6, QuotaReplaced
<1>9. ASSUME NEW n \in Name, WholeUpload(n) \/ DeleteEvidence(n)
      PROVE  QuotaInv'
  <2>1. now'.at # "appended"
    BY <1>9 DEF WholeUpload, DeleteEvidence, Idle
  <2>2. \A m \in Name \ {n} : file'[m] = file[m]
    BY <1>1, <1>9 DEF WholeUpload, DeleteEvidence, TypeOK
  <2>3. CASE file' = file
    BY <1>4, <2>1, <2>3
  <2>4. ASSUME NEW t \in 1 .. MaxChunks, Fits(n, t), file' = [file EXCEPT ![n] = Prefix(t, t)]
        PROVE  QuotaInv'
    <3>1. file'[n] = Prefix(t, t)
      BY <1>1, <2>4 DEF TypeOK
    <3>2. SizeIn(file', n) = t /\ t \in Nat
      BY <3>1, PrefixType, BoundsAssumption DEF SizeIn
    <3>3. t <= MaxFile /\ SumIn(file, Name \ {n}) + t <= MaxCase
      BY <2>4, SumIsSum DEF Fits, OtherBytes
    <3> QED BY <1>1, <2>1, <2>2, <3>2, <3>3, QuotaReplaced
  <2>5. CASE file' = [file EXCEPT ![n] = None]
    <3>1. SizeIn(file', n) = 0
      BY <1>1, <2>5 DEF TypeOK, SizeIn
    <3>2. SumIn(file, Name \ {n}) + 0 <= MaxCase /\ 0 <= MaxFile /\ 0 \in Nat
      BY <1>1, QuotaLeft, BoundsAssumption
    <3> QED BY <1>1, <2>1, <2>2, <3>1, <3>2, QuotaReplaced
  <2> QED BY <1>9, <2>3, <2>4, <2>5 DEF WholeUpload, DeleteEvidence
<1>10. ASSUME GiveUp \/ CrashAndRestart
       PROVE  QuotaInv'
  <2>1. file' = file /\ now' = Idle
    BY <1>10 DEF GiveUp, CrashAndRestart
  <2> QED BY <1>4, <2>1 DEF Idle
<1> QED BY <1>2, <1>3, <1>5, <1>6, <1>7, <1>8, <1>9, <1>10 DEF Next

\* A case without files weighs nothing: its smallest set of names that did not
\* would, without the picked one, be a smaller such set.
LEMMA SumOfNothing ==
  ASSUME NEW f, NEW S \in SUBSET Name, \A n \in S : SizeIn(f, n) = 0
  PROVE  SumIn(f, S) = 0
<1> DEFINE Bad == {T \in SUBSET S : SumIn(f, T) # 0}
<1> DEFINE B == {Cardinality(T) : T \in Bad}
<1>1. \A T \in SUBSET S : Cardinality(T) \in Nat
  BY NameAssumption, FS_Subset, FS_CardinalityType
<1>2. SUFFICES ASSUME Bad # {} PROVE FALSE
  OBVIOUS
<1>3. B \in SUBSET Nat /\ B # {}
  BY <1>1, <1>2
<1>4. PICK b \in B : \A c \in B : ~(c < b)
  <2> HIDE DEF B
  <2> QED BY <1>3, LeastExists
<1>5. PICK T \in Bad : b = Cardinality(T)
  OBVIOUS
<1>6. T \in SUBSET Name
  OBVIOUS
<1>7. SumIn(f, T) = IF T = {} THEN 0 ELSE SizeIn(f, Picked(T)) + SumIn(f, T \ {Picked(T)})
  BY <1>6, SumPicked
<1>8. T # {}
  BY <1>7
<1>9. Picked(T) \in T /\ T \ {Picked(T)} \in SUBSET S
      /\ Cardinality(T \ {Picked(T)}) < Cardinality(T)
  BY <1>6, <1>8, WithoutPicked
<1>10. SumIn(f, T \ {Picked(T)}) = 0
  BY <1>4, <1>5, <1>9
<1>11. SizeIn(f, Picked(T)) = 0
  BY <1>9
<1> QED BY <1>7, <1>8, <1>10, <1>11

LEMMA SpecQuota == Spec => [](Uncancelled => QuotaInv)
<1>1. Init => (Uncancelled => QuotaInv)
  <2> SUFFICES ASSUME Init PROVE QuotaInv
    OBVIOUS
  <2>1. \A n \in Name : SizeIn(file, n) = 0
    BY DEF Init, SizeIn
  <2>2. SumIn(file, Name) = 0
    BY <2>1, SumOfNothing
  <2>3. now.at # "appended"
    BY DEF Init, Idle
  <2> QED BY <2>1, <2>2, <2>3, BoundsAssumption DEF QuotaInv
<1>2. IInv /\ IInv' /\ (Uncancelled => QuotaInv) /\ [Next]_vars => (Uncancelled => QuotaInv)'
  <2> SUFFICES ASSUME IInv, TypeOK', Uncancelled => QuotaInv, [Next]_vars, Uncancelled'
               PROVE  QuotaInv'
    BY DEF IInv
  <2>1. CASE UNCHANGED vars
    <3>1. Uncancelled /\ now' = now /\ up' = up /\ file' = file
      BY <2>1 DEF vars, Uncancelled
    <3> QED BY <3>1 DEF QuotaInv
  <2>2. CASE Next
    <3>1. Uncancelled
      BY <2>2, CancelsGrow DEF IInv
    <3> QED BY <2>2, <3>1, QuotaKept
  <2> QED BY <2>1, <2>2
<1> QED BY <1>1, <1>2, SpecInv, PTL DEF Spec

(***************************************************************************)
(* No file and no case exceeds its limit, although the chunks of a large   *)
(* file are measured one by one while others upload to the case, unless a  *)
(* request was cancelled.                                                  *)
(***************************************************************************)
THEOREM QuotaHolds == Spec => []CaseQuota
<1>1. QuotaInv => (\A n \in Name : Size(n) <= MaxFile) /\ MapThenSumSet(Size, Name) <= MaxCase
  BY SumIsSum DEF QuotaInv, Size, SizeIn
<1>2. (Uncancelled => QuotaInv) => CaseQuota
  BY <1>1 DEF CaseQuota
<1> QED BY <1>2, SpecQuota, PTL
===============================================================================

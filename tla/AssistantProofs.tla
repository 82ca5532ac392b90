---------------------------- MODULE AssistantProofs ----------------------------
(***************************************************************************)
(* Proofs about the two loops that talk to a model: CaseAssistant, for     *)
(* every set of findings, relation of similar ones, number of tools and    *)
(* bound on ids, messages and sockets, and ReverseTurns, for every set of  *)
(* requests, methods and evidence and every bound on the turns.            *)
(*                                                                         *)
(* Analysis and chat write from what they loaded before an await.  The     *)
(* invariant says what such a view still has in common with the tables:    *)
(* the view of the analysis names the finding each row has now, unless the *)
(* row is the analyst's (ViewInv), and every turn of a chat that exists    *)
(* carries a memo that is about a whole beginning of the messages stored   *)
(* by now (TurnsInv), in a prompt or cut off from one.                     *)
(*                                                                         *)
(* A request of a reverse run runs once because what was executed is in    *)
(* the stored messages and the loop knows whatever they hold (RunsInv);    *)
(* what a first task publishes is its draft, and the draft comes from a    *)
(* report or from the notice of a denial (DraftInv).                       *)
(***************************************************************************)
EXTENDS CaseAssistant, ReverseTurns, FiniteSetTheorems, WellFoundedInduction, TLAPS

(* The assistant of a case. *)

W == Detected \cup Written \cup Proposed
Row == [what : W, evidence : W, suppressed : BOOLEAN, verdict : W \cup {NoVerdict}]

IsTable(rows, n) == rows \in [DOMAIN rows -> Row] /\ DOMAIN rows \subseteq 1 .. n

\* What the analysis holds, by how far it is.
IsJob(j) ==
  \/ j \in [at : {"none", "queued"}]
  \/ /\ j.at \in {"correlating", "extracting"}
     /\ j = [at |-> j.at, view |-> j.view]
     /\ IsTable(j.view, limit.ids)
  \/ /\ j.at \in {"reporting", "storing"}
     /\ j = [at |-> j.at, view |-> j.view, active |-> j.active]
     /\ IsTable(j.view, limit.ids) /\ j.active \subseteq DOMAIN j.view

\* What a turn of the chat holds, by how far it is.
IsTurn(t) ==
  \/ t = Idle
  \/ /\ t.at \in {"gathering", "orphaned"}
     /\ t = [at |-> t.at, explicit |-> t.explicit, left |-> t.left, view |-> t.view,
             memo |-> t.memo, upto |-> t.upto]
     /\ t.explicit \in BOOLEAN /\ t.left \in 0 .. MaxTools /\ IsTable(t.view, limit.ids)
  \/ /\ t.at = "answering"
     /\ t = [at |-> t.at, memo |-> t.memo, upto |-> t.upto]
  \/ /\ t.at = "folding"
     /\ t = [at |-> t.at, memo |-> t.memo, rest |-> t.rest]

FindingTypes ==
  /\ IsTable(finding, limit.ids)
  /\ items \in Seq(Written) /\ marks \subseteq W \X W /\ fed \in BOOLEAN

AnalysisTypes ==
  /\ IsJob(job) /\ running \in BOOLEAN /\ status \in {"ready", "analyzing", "error"}
  /\ report \in [exists : BOOLEAN, current : BOOLEAN]

ChatTypes ==
  /\ chat = [exists |-> chat.exists, memo |-> chat.memo, upto |-> chat.upto]
  /\ chat.exists \in BOOLEAN /\ history \subseteq 1 .. limit.messages
  /\ DOMAIN turn = limit.clients /\ \A c \in limit.clients : IsTurn(turn[c])

TypeOK == limit \in Limits /\ FindingTypes /\ AnalysisTypes /\ ChatTypes

\* The analysis runs exactly while the case is in the set of running ones.
RunningInv == running <=> job.at # "none"

\* A row the analysis loaded is about the finding it was, or the analyst's.
ViewInv ==
  job.at \in {"correlating", "extracting", "reporting"} =>
    \A i \in DOMAIN job.view \cap DOMAIN finding :
      finding[i].what \notin Written => job.view[i].what = finding[i].what

\* The memo is about the messages up to the cursor, which is one of them, and
\* what was cut off was not given as well.
Apart(memo) == memo.given \cap memo.cut = {}

Matches(memo, upto, h) ==
  upto \in h \cup {0} /\ About(memo) = {i \in h : i <= upto} /\ Apart(memo)

ChatInv ==
  IF chat.exists THEN Matches(chat.memo, chat.upto, history)
                 ELSE chat.memo = NoMemo /\ history = {}

\* What a turn is about to store is about a whole beginning of the messages,
\* and the messages that are due are none the memo is about.
TurnHolds(t, h) ==
  /\ t.at \in {"gathering", "answering"} => Matches(t.memo, t.upto, h)
  /\ t.at = "folding" =>
       /\ t.rest # {} /\ t.rest \subseteq h
       /\ About(t.memo) \cup t.rest = {i \in h : i <= Max(t.rest)}
       /\ About(t.memo) \cap t.rest = {} /\ Apart(t.memo)

TurnsInv == chat.exists => \A c \in limit.clients : TurnHolds(turn[c], history)

IInv == TypeOK /\ RunningInv /\ ViewInv /\ VerdictsOnTheirFindings /\ ChatInv /\ TurnsInv

-----------------------------------------------------------------------------
(* Operators. *)

\* A bounded set of numbers that is not empty has a greatest one.
LEMMA MaxIs ==
  ASSUME NEW n \in Nat, NEW S \in SUBSET (0 .. n), S # {}
  PROVE  Max(S) \in S /\ Max(S) \in 0 .. n /\ \A x \in S : x <= Max(S)
<1> DEFINE B == {b \in Nat : \A x \in S : x <= b}
<1>1. n \in B
  OBVIOUS
<1>2. IsWellFoundedOn(OpToRel(<, Nat), Nat)
  BY NatLessThanWellFounded
<1>3. \E b \in B : \A c \in B : ~(<<c, b>> \in OpToRel(<, Nat))
  <2>1. B \subseteq Nat /\ B # {}
    BY <1>1
  <2> HIDE DEF B
  <2> QED BY <1>2, <2>1, WFMin
<1>4. PICK b \in B : \A c \in B : ~(c < b)
  BY <1>3 DEF OpToRel
<1>5. b \in S
  <2>1. SUFFICES ASSUME b \notin S PROVE FALSE
    OBVIOUS
  <2>2. PICK x \in S : x \in Nat /\ x <= b
    <3>1. PICK x \in S : TRUE
      OBVIOUS
    <3> QED BY <1>4, <3>1
  <2>3. b # 0 /\ b - 1 \in Nat
    BY <2>1, <2>2
  <2>4. \A y \in S : y <= b - 1
    BY <2>1, <2>3
  <2>5. b - 1 \in B
    BY <2>3, <2>4
  <2> QED BY <1>4, <2>3, <2>5
<1>6. \E x \in S : \A y \in S : x >= y
  BY <1>5
<1>7. Max(S) \in S /\ \A y \in S : Max(S) >= y
  BY <1>6 DEF Max
<1> QED BY <1>7

\* The next id is above every id in use.
LEMMA NextIdIs ==
  ASSUME NEW n \in Nat, NEW h, h \subseteq 1 .. n
  PROVE  /\ NextId(h) \in Nat \ {0} /\ NextId(h) \notin h
         /\ \A i \in h : i < NextId(h)
<1>1. h \cup {0} \in SUBSET (0 .. n) /\ h \cup {0} # {}
  OBVIOUS
<1>2. /\ Max(h \cup {0}) \in 0 .. n
      /\ \A x \in h \cup {0} : x <= Max(h \cup {0})
  BY <1>1, MaxIs
<1>3. NextId(h) = 1 + Max(h \cup {0})
  BY DEF NextId
<1>4. \A i \in h : i \in Nat /\ i <= Max(h \cup {0})
  BY <1>2
<1> QED BY <1>2, <1>3, <1>4

\* A table with rows inserted keeps the ones it had; the others are new.
LEMMA InsertedIs ==
  ASSUME NEW n \in Nat, NEW rows, IsTable(rows, n), NEW new \in Seq(W)
  PROVE  LET r == Inserted(rows, new) IN
         /\ \E m \in Nat : IsTable(r, m)
         /\ DOMAIN rows \subseteq DOMAIN r
         /\ \A i \in DOMAIN rows : r[i] = rows[i]
         /\ \A i \in DOMAIN r \ DOMAIN rows : \E k \in DOMAIN new : r[i] = NewRow(new[k])
         /\ new = << >> => DOMAIN r = DOMAIN rows
<1> DEFINE top == Max(DOMAIN rows \cup {0})
<1> DEFINE all == DOMAIN rows \cup (top + 1 .. top + Len(new))
<1> DEFINE r == [i \in all |-> IF i \in DOMAIN rows THEN rows[i] ELSE NewRow(new[i - top])]
<1>1. Inserted(rows, new) = r
  BY DEF Inserted
<1>2. top \in 0 .. n
  <2>1. DOMAIN rows \cup {0} \in SUBSET (0 .. n) /\ DOMAIN rows \cup {0} # {}
    BY DEF IsTable
  <2> QED BY <2>1, MaxIs
<1>3. Len(new) \in Nat /\ DOMAIN new = 1 .. Len(new)
  OBVIOUS
<1> HIDE DEF top
<1>4. all \subseteq 1 .. n + top + Len(new)
  BY <1>2, <1>3 DEF IsTable
<1>5. ASSUME NEW i \in all, i \notin DOMAIN rows
      PROVE  \E k \in DOMAIN new : r[i] = NewRow(new[k])
  <2>1. i \in top + 1 .. top + Len(new)
    BY <1>5
  <2>2. i - top \in DOMAIN new
    BY <1>2, <1>3, <2>1
  <2> QED BY <1>5, <2>2
<1>6. \A i \in DOMAIN rows : r[i] = rows[i]
  OBVIOUS
<1>7. \A k \in DOMAIN new : NewRow(new[k]) \in Row
  BY DEF NewRow, Row
<1>8. \A i \in all : r[i] \in Row
  BY <1>5, <1>6, <1>7 DEF IsTable
<1>9. DOMAIN r = all
  OBVIOUS
<1>10. ASSUME new = << >>
       PROVE  all = DOMAIN rows
  <2>1. Len(new) = 0
    BY <1>10
  <2>2. top + 1 .. top + Len(new) = {}
    BY <1>2, <2>1
  <2> QED BY <2>2
<1>11. r \in [DOMAIN r -> Row]
  BY <1>8, <1>9
<1>12. DOMAIN rows \subseteq all
  OBVIOUS
<1> HIDE DEF r, all
<1>13. IsTable(r, n + top + Len(new))
  BY <1>4, <1>9, <1>11 DEF IsTable
<1>14. n + top + Len(new) \in Nat
  BY <1>2, <1>3
<1> QED BY <1>1, <1>5, <1>6, <1>9, <1>10, <1>12, <1>13, <1>14

\* Of the rows that are not the analyst's, the second table has no others than
\* the first, and they are about the same findings with the same verdicts.
KeepsOthers(old, rows) ==
  \A i \in DOMAIN rows : rows[i].what \notin Written =>
    i \in DOMAIN old /\ rows[i].what = old[i].what /\ rows[i].verdict = old[i].verdict

\* The rows of the analyst are written again, all others stay.
LEMMA ApplyManualIs ==
  ASSUME NEW n \in Nat, NEW rows, IsTable(rows, n), NEW written \in Seq(Written)
  PROVE  /\ \E m \in Nat : IsTable(ApplyManual(rows, written), m)
         /\ KeepsOthers(rows, ApplyManual(rows, written))
<1> DEFINE kept == Restrict(rows, {i \in DOMAIN rows : rows[i].what \notin Written})
<1>1. /\ DOMAIN kept \subseteq DOMAIN rows
      /\ \A i \in DOMAIN kept : kept[i] = rows[i]
  BY DEF Restrict
<1>2. kept = [i \in DOMAIN kept |-> kept[i]]
  BY DEF Restrict
<1>3. ApplyManual(rows, written) = Inserted(kept, written)
  BY DEF ApplyManual
<1> HIDE DEF kept
<1>4. IsTable(kept, n)
  BY <1>1, <1>2 DEF IsTable
<1>5. written \in Seq(W)
  BY DEF W
<1> DEFINE r == Inserted(kept, written)
<1>6. /\ \E m \in Nat : IsTable(r, m)
      /\ \A i \in DOMAIN kept : r[i] = kept[i]
      /\ \A i \in DOMAIN r \ DOMAIN kept : \E k \in DOMAIN written : r[i] = NewRow(written[k])
  BY <1>4, <1>5, InsertedIs
<1>7. \A k \in DOMAIN written : NewRow(written[k]).what \in Written
  BY DEF NewRow
<1> HIDE DEF r
<1>8. KeepsOthers(rows, r)
  BY <1>1, <1>6, <1>7 DEF KeepsOthers
<1> QED BY <1>3, <1>6, <1>8 DEF r

\* The overrides change no title and no verdict.
LEMMA ApplyOverridesIs ==
  ASSUME NEW n, NEW rows, IsTable(rows, n), NEW m, NEW view, IsTable(view, m), NEW suppress
  PROVE  LET r == ApplyOverrides(rows, view, suppress) IN
         /\ IsTable(r, n) /\ DOMAIN r = DOMAIN rows
         /\ \A i \in DOMAIN rows : r[i].what = rows[i].what /\ r[i].verdict = rows[i].verdict
         /\ KeepsOthers(rows, r)
<1> DEFINE r == ApplyOverrides(rows, view, suppress)
<1>1. DOMAIN r = DOMAIN rows /\ r = [i \in DOMAIN r |-> r[i]]
  BY DEF ApplyOverrides
<1>2. ASSUME NEW i \in DOMAIN rows
      PROVE  r[i] \in Row /\ r[i].what = rows[i].what /\ r[i].verdict = rows[i].verdict
  <2> DEFINE seen == IF i \in DOMAIN view THEN view[i] ELSE rows[i]
  <2>1. rows[i] \in Row /\ seen \in Row
    BY DEF IsTable
  <2>2. r[i] = IF (MarkOf(seen) \in suppress) # seen.suppressed
               THEN [rows[i] EXCEPT !.evidence = seen.evidence, !.suppressed = ~seen.suppressed]
               ELSE rows[i]
    BY DEF ApplyOverrides
  <2> HIDE DEF seen, r
  <2> QED BY <2>1, <2>2 DEF Row
<1> HIDE DEF r
<1>3. IsTable(r, n)
  BY <1>1, <1>2 DEF IsTable
<1> QED BY <1>1, <1>2, <1>3 DEF r, KeepsOthers

\* An empty table.
LEMMA NothingIs ==
  ASSUME NEW n
  PROVE  IsTable(Nothing, n) /\ DOMAIN Nothing = {}
BY DEF IsTable, Nothing

\* What a session loads is a table of the same titles.
LEMMA LoadedIs ==
  ASSUME NEW n, NEW rows, IsTable(rows, n)
  PROVE  /\ IsTable(Loaded(rows), n) /\ DOMAIN Loaded(rows) = DOMAIN rows
         /\ \A i \in DOMAIN rows : Loaded(rows)[i].what = rows[i].what
<1>1. \A i \in DOMAIN rows : rows[i] \in Row
  BY DEF IsTable
<1>2. \A i \in DOMAIN rows :
        /\ [rows[i] EXCEPT !.verdict = NoVerdict] \in Row
        /\ [rows[i] EXCEPT !.verdict = NoVerdict].what = rows[i].what
  BY <1>1 DEF Row
<1> QED BY <1>2 DEF Loaded, IsTable

\* What a session sees is its own rows as it loaded them and the others as they are.
LEMMA SeenIs ==
  ASSUME NEW n, IsTable(finding, n), NEW m, NEW view, IsTable(view, m)
  PROVE  /\ IsTable(Seen(view), n) /\ DOMAIN Seen(view) = DOMAIN finding
         /\ \A i \in DOMAIN finding :
              Seen(view)[i].what = IF i \in DOMAIN view THEN view[i].what ELSE finding[i].what
<1>1. /\ IsTable(Loaded(finding), n) /\ DOMAIN Loaded(finding) = DOMAIN finding
      /\ \A i \in DOMAIN finding : Loaded(finding)[i].what = finding[i].what
  BY LoadedIs
<1>2. /\ DOMAIN Seen(view) = DOMAIN finding
      /\ Seen(view) = [i \in DOMAIN Seen(view) |-> Seen(view)[i]]
      /\ \A i \in DOMAIN finding :
           Seen(view)[i] = IF i \in DOMAIN view THEN view[i] ELSE Loaded(finding)[i]
  BY DEF Seen
<1>3. \A i \in DOMAIN finding : Seen(view)[i] \in Row
  BY <1>1, <1>2 DEF IsTable
<1> QED BY <1>1, <1>2, <1>3 DEF IsTable

\* Messages later than the cursor are left out from some message on.
LEMMA UnfoldedIs ==
  ASSUME NEW n \in Nat, NEW h, h \subseteq 1 .. n, NEW upto \in Nat,
         Unfolded(upto, h) # {}
  PROVE  LET rest == Unfolded(upto, h) IN
         /\ rest \subseteq h /\ Max(rest) \in rest
         /\ {i \in h : i <= upto} \cup rest = {i \in h : i <= Max(rest)}
         /\ {i \in h : i <= upto} \cap rest = {}
<1> DEFINE later == {i \in h : i > upto}
<1> DEFINE above(i) == {k \in later : k > i}
<1> DEFINE rest == Unfolded(upto, h)
<1>1. rest = {i \in later : Cardinality(above(i)) >= Keep}
  BY DEF Unfolded
<1>2. IsFiniteSet(h) /\ h \subseteq Nat
  <2>1. IsFiniteSet(1 .. n)
    BY FS_Interval
  <2>2. 1 .. n \subseteq Nat
    OBVIOUS
  <2> QED BY <2>1, <2>2, FS_Subset
<1>3. ASSUME NEW i \in rest, NEW j \in later, j <= i
      PROVE  j \in rest
  <2>1. i \in Nat /\ j \in Nat
    BY <1>1, <1>2
  <2>2. above(i) \subseteq above(j) /\ above(j) \subseteq h
    <3>1. \A k \in later : k \in h /\ k \in Nat
      BY <1>2
    <3>2. \A k \in later : k > i => k > j
      BY <1>3, <2>1, <3>1
    <3> HIDE DEF later
    <3> QED BY <3>1, <3>2
  <2>3. IsFiniteSet(above(j))
    BY <1>2, <2>2, FS_Subset
  <2>4. /\ Cardinality(above(i)) <= Cardinality(above(j))
        /\ Cardinality(above(i)) \in Nat /\ Cardinality(above(j)) \in Nat
    <3> HIDE DEF above
    <3> QED BY <2>2, <2>3, FS_Subset, FS_CardinalityType
  <2>5. Cardinality(above(i)) >= Keep
    BY <1>1
  <2>6. Cardinality(above(j)) >= Keep
    <3> HIDE DEF above
    <3> QED BY <2>4, <2>5, AssistantConstants
  <2> QED BY <1>1, <2>6
<1>4. rest \subseteq later /\ later \subseteq h
  BY <1>1
<1>5. rest \in SUBSET (0 .. n) /\ rest # {}
  <2>1. h \subseteq 0 .. n
    OBVIOUS
  <2> HIDE DEF later, rest
  <2>2. rest \subseteq 0 .. n
    BY <1>4, <2>1
  <2> QED BY <2>2 DEF rest
<1> HIDE DEF rest
<1>6. Max(rest) \in rest /\ \A x \in rest : x <= Max(rest)
  BY <1>5, MaxIs
<1>7. Max(rest) \in Nat /\ Max(rest) > upto
  BY <1>2, <1>4, <1>6
<1>8. ASSUME NEW i \in h, i <= Max(rest), ~(i <= upto)
      PROVE  i \in rest
  <2>1. i \in later
    BY <1>2, <1>8
  <2> QED BY <1>3, <1>6, <1>8, <2>1
<1>9. \A i \in h : i <= upto => i <= Max(rest)
  BY <1>2, <1>7
<1>10. {i \in h : i <= upto} \cup rest = {i \in h : i <= Max(rest)}
  BY <1>4, <1>6, <1>8, <1>9
<1>11. {i \in h : i <= upto} \cap rest = {}
  <2>1. \A i \in later : i \in Nat /\ i > upto
    BY <1>2
  <2>2. \A i \in later : ~(i <= upto)
    BY <2>1
  <2> HIDE DEF later
  <2> QED BY <1>4, <2>2
<1> QED BY <1>4, <1>6, <1>10, <1>11 DEF rest

-----------------------------------------------------------------------------
(* What the steps have in common. *)

\* The bounds of a behaviour are numbers.
LEMMA LimitIs ==
  ASSUME limit \in Limits
  PROVE  limit.ids \in Nat /\ limit.messages \in Nat
BY AssistantConstants

LEMMA InitIInv == Init => IInv
<1> SUFFICES ASSUME Init PROVE IInv
  OBVIOUS
<1>1. FindingTypes
  <2>1. IsTable(finding, limit.ids)
    BY NothingIs DEF Init
  <2>2. << >> \in Seq(Written)
    OBVIOUS
  <2> QED BY <2>1, <2>2 DEF Init, FindingTypes
<1>2. AnalysisTypes
  BY DEF Init, AnalysisTypes, IsJob, NoJob, NoReport
<1>3. ChatTypes
  BY DEF Init, ChatTypes, IsTurn
<1>4. RunningInv /\ ViewInv
  BY DEF Init, RunningInv, ViewInv, NoJob
<1>5. VerdictsOnTheirFindings
  BY NothingIs DEF Init, VerdictsOnTheirFindings
<1>6. ChatInv
  BY DEF Init, ChatInv, Matches, Apart, About, NoMemo
<1>7. TurnsInv
  BY DEF Init, TurnsInv, TurnHolds, Idle
<1> QED BY <1>1, <1>2, <1>3, <1>4, <1>5, <1>6, <1>7 DEF IInv, TypeOK, Init

\* A step that leaves the chat alone.
LEMMA ChatStill ==
  ASSUME IInv, UNCHANGED chatVars
  PROVE  limit' \in Limits /\ ChatTypes' /\ ChatInv' /\ TurnsInv'
BY DEF IInv, TypeOK, chatVars, ChatTypes, ChatInv, TurnsInv, IsTurn

\* A step that leaves the findings alone.
LEMMA FindingsStill ==
  ASSUME IInv, UNCHANGED findingVars
  PROVE  limit' \in Limits /\ FindingTypes' /\ VerdictsOnTheirFindings'
BY DEF IInv, TypeOK, findingVars, FindingTypes, VerdictsOnTheirFindings

\* A step that leaves the analysis alone.
LEMMA AnalysisStill ==
  ASSUME IInv, UNCHANGED analysisVars, limit' = limit
  PROVE  AnalysisTypes' /\ RunningInv'
BY DEF IInv, TypeOK, analysisVars, AnalysisTypes, RunningInv, IsJob

\* A view holds as long as neither it nor the findings change.
LEMMA ViewStill ==
  ASSUME IInv, UNCHANGED findingVars, job' = job
  PROVE  ViewInv'
BY DEF IInv, ViewInv, findingVars

LEMMA KeepsOthersTransitive ==
  ASSUME NEW a, NEW b, NEW c, KeepsOthers(a, b), KeepsOthers(b, c)
  PROVE  KeepsOthers(a, c)
BY DEF KeepsOthers

\* A step that writes none but the analyst's rows anew.
LEMMA KeepsOthersKeeps ==
  ASSUME IInv, KeepsOthers(finding, finding')
  PROVE  VerdictsOnTheirFindings' /\ (job' = job => ViewInv')
<1>1. VerdictsOnTheirFindings'
  BY DEF IInv, VerdictsOnTheirFindings, KeepsOthers
<1>2. ASSUME job' = job PROVE ViewInv'
  BY <1>2 DEF IInv, ViewInv, KeepsOthers
<1> QED BY <1>1, <1>2

\* What an analyst's route makes of the findings.
LEMMA RewrittenIs ==
  ASSUME NEW n \in Nat, NEW rows, IsTable(rows, n), NEW written \in Seq(Written), NEW suppress
  PROVE  LET r == ApplyOverrides(ApplyManual(rows, written), Nothing, suppress) IN
         /\ \E m \in Nat : IsTable(r, m)
         /\ KeepsOthers(rows, r)
<1> DEFINE a == ApplyManual(rows, written)
<1>1. (\E m \in Nat : IsTable(a, m)) /\ KeepsOthers(rows, a)
  BY ApplyManualIs
<1>2. PICK m \in Nat : IsTable(a, m)
  BY <1>1
<1> HIDE DEF a
<1>3. IsTable(Nothing, 0)
  BY NothingIs
<1> DEFINE r == ApplyOverrides(a, Nothing, suppress)
<1>4. IsTable(r, m) /\ KeepsOthers(a, r)
  BY <1>2, <1>3, ApplyOverridesIs
<1> HIDE DEF r
<1>5. KeepsOthers(rows, r)
  BY <1>1, <1>4, KeepsOthersTransitive
<1> QED BY <1>4, <1>5 DEF r, a

\* A table that fits is one of the table's ids.
LEMMA FitsIs ==
  ASSUME limit' = limit, \E m \in Nat : IsTable(finding', m), Fits
  PROVE  IsTable(finding, limit.ids)'
BY DEF Fits, IsTable

\* A row is marked with its title and its evidence.
LEMMA MarkOfIs ==
  ASSUME NEW n, NEW rows, IsTable(rows, n), NEW i \in DOMAIN rows
  PROVE  MarkOf(rows[i]) \in W \X W
<1>1. rows[i] \in Row
  BY DEF IsTable
<1> QED BY <1>1 DEF MarkOf, Row

\* What a number of distinct members is taken from is a sequence of them.
LEMMA ChosenIs ==
  ASSUME NEW S, IsFiniteSet(S), NEW T, S \subseteq T,
         NEW new \in UNION {[1 .. n -> S] : n \in 0 .. Cardinality(S)}
  PROVE  new \in Seq(T)
<1>1. Cardinality(S) \in Nat
  BY FS_CardinalityType
<1>2. PICK n \in 0 .. Cardinality(S) : new \in [1 .. n -> S]
  OBVIOUS
<1>3. n \in Nat /\ new \in [1 .. n -> T]
  BY <1>1, <1>2
<1> QED BY <1>3

-----------------------------------------------------------------------------
(* Detection and the analyst's routes. *)

LEMMA DetectKeeps ==
  ASSUME IInv,
         NEW new \in UNION {[1 .. n -> Detected] : n \in 0 .. Cardinality(Detected)},
         NEW rebuild \in BOOLEAN, Detect(new, rebuild)
  PROVE  IInv'
<1> DEFINE before == IF rebuild THEN Nothing ELSE finding
<1> DEFINE added == Inserted(before, new)
<1>1. limit' = limit /\ UNCHANGED analysisVars /\ UNCHANGED chatVars /\ UNCHANGED <<items, marks>>
  BY DEF Detect, chatVars
<1>2. new \in Seq(W)
  <2>1. Detected \subseteq W /\ IsFiniteSet(Detected)
    BY AssistantConstants DEF W
  <2> QED BY <2>1, ChosenIs
<1>3. limit.ids \in Nat /\ IsTable(before, limit.ids)
  BY LimitIs, NothingIs DEF IInv, TypeOK, FindingTypes
<1>4. \A i \in DOMAIN before :
        before[i].what \notin Written => before[i].verdict \in {NoVerdict, before[i].what}
  BY NothingIs DEF IInv, VerdictsOnTheirFindings
<1>5. finding' = ApplyOverrides(ApplyManual(added, items), Nothing, marks)
  BY DEF Detect
<1>6. job.at \in {"none", "queued"} /\ fed' = TRUE /\ Fits
  BY DEF Detect
<1> HIDE DEF before
<1>7. /\ \E m \in Nat : IsTable(added, m)
      /\ \A i \in DOMAIN added :
           added[i].what \notin Written => added[i].verdict \in {NoVerdict, added[i].what}
  <2>1. /\ \E m \in Nat : IsTable(added, m)
        /\ \A i \in DOMAIN before : added[i] = before[i]
        /\ \A i \in DOMAIN added \ DOMAIN before : \E k \in DOMAIN new : added[i] = NewRow(new[k])
    BY <1>2, <1>3, InsertedIs
  <2>2. \A k \in DOMAIN new : NewRow(new[k]).verdict = NoVerdict
    BY DEF NewRow
  <2> HIDE DEF added
  <2> QED BY <1>4, <2>1, <2>2
<1> HIDE DEF added
<1>8. PICK m \in Nat : IsTable(added, m)
  BY <1>7
<1>9. items \in Seq(Written)
  BY DEF IInv, TypeOK, FindingTypes
<1>10. (\E k \in Nat : IsTable(finding', k)) /\ KeepsOthers(added, finding')
  BY <1>5, <1>8, <1>9, RewrittenIs
<1>11. IsTable(finding, limit.ids)'
  BY <1>1, <1>6, <1>10, FitsIs
<1>12. FindingTypes'
  BY <1>1, <1>6, <1>11 DEF IInv, TypeOK, FindingTypes
<1>13. VerdictsOnTheirFindings'
  BY <1>7, <1>10 DEF KeepsOthers, VerdictsOnTheirFindings
<1>14. ViewInv'
  BY <1>1, <1>6 DEF ViewInv, analysisVars
<1>15. limit' \in Limits /\ ChatTypes' /\ ChatInv' /\ TurnsInv'
  BY <1>1, ChatStill
<1>16. AnalysisTypes' /\ RunningInv'
  BY <1>1, AnalysisStill
<1> QED BY <1>12, <1>13, <1>14, <1>15, <1>16 DEF IInv, TypeOK

LEMMA SetBenignKeeps ==
  ASSUME IInv, NEW i, NEW benign \in BOOLEAN, SetBenign(i, benign)
  PROVE  IInv'
<1> DEFINE row == finding[i]
<1> DEFINE rows == IF row.what \in Written THEN ApplyManual(finding, items) ELSE finding
<1>1. /\ UNCHANGED chatVars /\ limit' = limit /\ UNCHANGED <<items, fed, running, status, job>>
      /\ report' = [report EXCEPT !.current = FALSE]
  BY DEF SetBenign, Outdate, chatVars
<1>2. /\ limit.ids \in Nat /\ IsTable(finding, limit.ids) /\ items \in Seq(Written)
      /\ marks \subseteq W \X W /\ fed \in BOOLEAN
  BY LimitIs DEF IInv, TypeOK, FindingTypes
<1>3. marks' \subseteq W \X W
  <2>1. i \in DOMAIN finding /\ marks' \subseteq marks \cup {MarkOf(finding[i])}
    BY DEF SetBenign
  <2>2. MarkOf(finding[i]) \in W \X W
    BY <1>2, <2>1, MarkOfIs
  <2> QED BY <1>2, <2>1, <2>2
<1>4. finding' = ApplyOverrides(rows, Nothing, marks') /\ Fits
  BY DEF SetBenign
<1>5. (\E m \in Nat : IsTable(finding', m)) /\ KeepsOthers(finding, finding')
  <2>1. CASE row.what \in Written
    <3>1. finding' = ApplyOverrides(ApplyManual(finding, items), Nothing, marks')
      BY <1>4, <2>1
    <3> QED BY <1>2, <3>1, RewrittenIs
  <2>2. CASE row.what \notin Written
    <3>1. finding' = ApplyOverrides(finding, Nothing, marks')
      BY <1>4, <2>2
    <3>2. IsTable(Nothing, 0)
      BY NothingIs
    <3> QED BY <1>2, <3>1, <3>2, ApplyOverridesIs
  <2> QED BY <2>1, <2>2
<1>6. IsTable(finding, limit.ids)'
  BY <1>1, <1>4, <1>5, FitsIs
<1>7. FindingTypes'
  BY <1>1, <1>2, <1>3, <1>6 DEF FindingTypes
<1>8. VerdictsOnTheirFindings' /\ ViewInv'
  BY <1>1, <1>5, KeepsOthersKeeps
<1>9. AnalysisTypes' /\ RunningInv'
  BY <1>1 DEF IInv, TypeOK, AnalysisTypes, RunningInv, IsJob
<1>10. limit' \in Limits /\ ChatTypes' /\ ChatInv' /\ TurnsInv'
  BY <1>1, ChatStill
<1> QED BY <1>7, <1>8, <1>9, <1>10 DEF IInv, TypeOK

LEMMA SetItemsKeeps ==
  ASSUME IInv, NEW written \in Seq(Written), SetItems(written)
  PROVE  IInv'
<1>1. /\ UNCHANGED chatVars /\ limit' = limit /\ UNCHANGED <<marks, fed>> /\ UNCHANGED analysisVars
      /\ items' = written
  BY DEF SetItems, chatVars
<1>2. limit.ids \in Nat /\ IsTable(finding, limit.ids)
  BY LimitIs DEF IInv, TypeOK, FindingTypes
<1>3. /\ finding' = ApplyOverrides(ApplyManual(finding, written), Nothing, marks)
      /\ Fits
  BY DEF SetItems
<1>4. (\E m \in Nat : IsTable(finding', m)) /\ KeepsOthers(finding, finding')
  BY <1>2, <1>3, RewrittenIs
<1>5. IsTable(finding, limit.ids)'
  BY <1>1, <1>3, <1>4, FitsIs
<1>6. FindingTypes'
  BY <1>1, <1>5 DEF IInv, TypeOK, FindingTypes
<1>7. VerdictsOnTheirFindings' /\ ViewInv'
  BY <1>1, <1>4, KeepsOthersKeeps DEF analysisVars
<1>8. limit' \in Limits /\ ChatTypes' /\ ChatInv' /\ TurnsInv'
  BY <1>1, ChatStill
<1>9. AnalysisTypes' /\ RunningInv'
  BY <1>1, AnalysisStill
<1> QED BY <1>6, <1>7, <1>8, <1>9 DEF IInv, TypeOK

LEMMA ManualKeeps ==
  ASSUME IInv, NEW m \in Written, AddManual(m) \/ RemoveManual(m)
  PROVE  IInv'
<1>1. items \in Seq(Written)
  BY DEF IInv, TypeOK, FindingTypes
<1>2. CASE AddManual(m)
  <2>1. Append(items, m) \in Seq(Written)
    BY <1>1
  <2> QED BY <1>2, <2>1, SetItemsKeeps DEF AddManual
<1>3. CASE RemoveManual(m)
  <2>1. PICK k \in DOMAIN items :
          SetItems(SubSeq(items, 1, k - 1) \o SubSeq(items, k + 1, Len(items)))
    BY <1>3 DEF RemoveManual
  <2>2. k \in 1 .. Len(items)
    BY <1>1
  <2>3. SubSeq(items, 1, k - 1) \in Seq(Written) /\ SubSeq(items, k + 1, Len(items)) \in Seq(Written)
    BY <1>1, <2>2
  <2>4. SubSeq(items, 1, k - 1) \o SubSeq(items, k + 1, Len(items)) \in Seq(Written)
    BY <2>3
  <2> QED BY <2>1, <2>4, SetItemsKeeps
<1> QED BY <1>2, <1>3

-----------------------------------------------------------------------------
(* The analysis. *)

\* A step of the analysis that leaves the findings and the chat alone.
LEMMA AnalysisAlone ==
  ASSUME IInv, UNCHANGED findingVars, UNCHANGED chatVars,
         AnalysisTypes', RunningInv', ViewInv'
  PROVE  IInv'
BY FindingsStill, ChatStill DEF IInv, TypeOK

\* The analysis ends, whatever it ends with.
LEMMA EndIs ==
  ASSUME IInv, NEW newStatus \in {"ready", "error"}, End(newStatus),
         report' \in [exists : BOOLEAN, current : BOOLEAN]
  PROVE  AnalysisTypes' /\ RunningInv' /\ ViewInv'
BY DEF End, AnalysisTypes, IsJob, NoJob, RunningInv, ViewInv

LEMMA StartKeeps == IInv /\ start_analysis => IInv'
<1> SUFFICES ASSUME IInv, start_analysis PROVE IInv'
  OBVIOUS
<1>1. UNCHANGED findingVars /\ UNCHANGED chatVars
  BY DEF start_analysis
<1>2. AnalysisTypes' /\ RunningInv' /\ ViewInv'
  BY DEF start_analysis, IInv, TypeOK, AnalysisTypes, IsJob, RunningInv, ViewInv
<1> QED BY <1>1, <1>2, AnalysisAlone

LEMMA NotAssessedKeeps == IInv /\ NotAssessed => IInv'
<1> SUFFICES ASSUME IInv, NotAssessed PROVE IInv'
  OBVIOUS
<1>1. UNCHANGED findingVars /\ UNCHANGED chatVars /\ End("ready")
  BY DEF NotAssessed
<1>2. report' \in [exists : BOOLEAN, current : BOOLEAN]
  BY DEF NotAssessed
<1>3. AnalysisTypes' /\ RunningInv' /\ ViewInv'
  BY <1>1, <1>2, EndIs
<1> QED BY <1>1, <1>3, AnalysisAlone

LEMMA AnalysisBeginsKeeps == IInv /\ AnalysisBegins => IInv'
<1> SUFFICES ASSUME IInv, AnalysisBegins PROVE IInv'
  OBVIOUS
<1>1. /\ UNCHANGED findingVars /\ UNCHANGED chatVars /\ UNCHANGED <<running, report>>
      /\ job' = [at |-> "correlating", view |-> Loaded(finding)] /\ status' = "analyzing"
      /\ job.at = "queued"
  BY DEF AnalysisBegins
<1>2. /\ IsTable(Loaded(finding), limit.ids) /\ DOMAIN Loaded(finding) = DOMAIN finding
      /\ \A i \in DOMAIN finding : Loaded(finding)[i].what = finding[i].what
  BY LoadedIs DEF IInv, TypeOK, FindingTypes
<1>3. /\ finding' = finding /\ limit' = limit
      /\ job'.at = "correlating" /\ job'.view = Loaded(finding)
  BY <1>1 DEF findingVars
<1>4. IsJob(job)'
  BY <1>1, <1>2, <1>3 DEF IsJob
<1>5. AnalysisTypes' /\ RunningInv'
  BY <1>1, <1>3, <1>4 DEF IInv, TypeOK, AnalysisTypes, RunningInv
<1>6. ViewInv'
  BY <1>2, <1>3 DEF ViewInv
<1> QED BY <1>1, <1>5, <1>6, AnalysisAlone

LEMMA CorrelatedKeeps == IInv /\ Correlated => IInv'
<1> SUFFICES ASSUME IInv, Correlated PROVE IInv'
  OBVIOUS
<1>1. /\ UNCHANGED findingVars /\ UNCHANGED chatVars /\ UNCHANGED <<running, status, report>>
      /\ job' = [at |-> "extracting", view |-> Seen(job.view)] /\ job.at = "correlating"
  BY DEF Correlated
<1>2. IsTable(job.view, limit.ids)
  BY <1>1 DEF IInv, TypeOK, AnalysisTypes, IsJob
<1>3. /\ IsTable(Seen(job.view), limit.ids) /\ DOMAIN Seen(job.view) = DOMAIN finding
      /\ \A i \in DOMAIN finding :
           Seen(job.view)[i].what =
             IF i \in DOMAIN job.view THEN job.view[i].what ELSE finding[i].what
  BY <1>2, SeenIs DEF IInv, TypeOK, FindingTypes
<1>4. /\ finding' = finding /\ limit' = limit
      /\ job'.at = "extracting" /\ job'.view = Seen(job.view)
  BY <1>1 DEF findingVars
<1>5. IsJob(job)'
  BY <1>1, <1>3, <1>4 DEF IsJob
<1>6. AnalysisTypes' /\ RunningInv'
  BY <1>1, <1>4, <1>5 DEF IInv, TypeOK, AnalysisTypes, RunningInv
<1>7. ViewInv'
  BY <1>1, <1>3, <1>4 DEF IInv, ViewInv
<1> QED BY <1>1, <1>6, <1>7, AnalysisAlone

\* The findings of the model come as new rows beside those that are there, and
\* the view takes them over from what was just written.
LEMMA ExtractedKeeps ==
  ASSUME IInv, NEW answer \in SUBSET Proposed, Extracted(answer)
  PROVE  IInv'
<1>1. PICK new \in UNION {[1 .. n -> answer] : n \in 0 .. Cardinality(answer)} :
        LET rows == Inserted(finding, new)
            added == Restrict(rows, DOMAIN rows \ DOMAIN finding)
            view == IF new = << >> THEN job.view
                    ELSE [i \in DOMAIN rows |-> IF i \in DOMAIN added THEN added[i]
                            ELSE Seen(job.view)[i]]
        IN  /\ finding' = rows
            /\ job' = [at |-> "reporting", view |-> view,
                       active |-> {i \in DOMAIN view : MarkOf(view[i]) \notin marks}]
  BY DEF Extracted
<1> DEFINE rows == Inserted(finding, new)
<1> DEFINE added == Restrict(rows, DOMAIN rows \ DOMAIN finding)
<1> DEFINE view == IF new = << >> THEN job.view
                   ELSE [i \in DOMAIN rows |-> IF i \in DOMAIN added THEN added[i]
                           ELSE Seen(job.view)[i]]
<1>2. /\ finding' = rows
      /\ job' = [at |-> "reporting", view |-> view,
                 active |-> {i \in DOMAIN view : MarkOf(view[i]) \notin marks}]
  BY <1>1
<1>3. /\ job.at = "extracting" /\ Fits
      /\ UNCHANGED <<items, marks, fed, running, status, report>> /\ UNCHANGED chatVars
      /\ limit' = limit
  BY DEF Extracted, chatVars
<1>4. new \in Seq(W)
  <2>1. IsFiniteSet(answer)
    BY AssistantConstants, FS_Subset
  <2>2. answer \subseteq W
    BY DEF W
  <2> QED BY <2>1, <2>2, ChosenIs
<1>5. /\ limit.ids \in Nat /\ IsTable(finding, limit.ids) /\ IsTable(job.view, limit.ids)
      /\ \A i \in DOMAIN job.view \cap DOMAIN finding :
           finding[i].what \notin Written => job.view[i].what = finding[i].what
  BY <1>3, LimitIs DEF IInv, TypeOK, FindingTypes, AnalysisTypes, IsJob, ViewInv
<1>6. /\ \E m \in Nat : IsTable(rows, m)
      /\ DOMAIN finding \subseteq DOMAIN rows
      /\ \A i \in DOMAIN finding : rows[i] = finding[i]
      /\ \A i \in DOMAIN rows \ DOMAIN finding : \E k \in DOMAIN new : rows[i] = NewRow(new[k])
      /\ new = << >> => DOMAIN rows = DOMAIN finding
  BY <1>4, <1>5, InsertedIs
<1>7. /\ DOMAIN added = DOMAIN rows \ DOMAIN finding
      /\ \A i \in DOMAIN added : added[i] = rows[i]
  BY DEF Restrict
<1> HIDE DEF rows, added
<1>8. IsTable(rows, limit.ids)
  BY <1>2, <1>3, <1>6, FitsIs
<1>9. /\ IsTable(Seen(job.view), limit.ids) /\ DOMAIN Seen(job.view) = DOMAIN finding
      /\ \A i \in DOMAIN finding :
           Seen(job.view)[i].what =
             IF i \in DOMAIN job.view THEN job.view[i].what ELSE finding[i].what
  BY <1>5, SeenIs
<1>10. /\ IsTable(view, limit.ids)
       /\ \A i \in DOMAIN view \cap DOMAIN rows :
            rows[i].what \notin Written => view[i].what = rows[i].what
  <2>1. CASE new = << >>
    BY <1>5, <1>6, <2>1
  <2>2. CASE new # << >>
    <3>1. /\ DOMAIN view = DOMAIN rows /\ view = [i \in DOMAIN view |-> view[i]]
          /\ \A i \in DOMAIN rows : view[i] = IF i \in DOMAIN added THEN added[i]
                                              ELSE Seen(job.view)[i]
      BY <2>2
    <3> HIDE DEF view
    <3>2. ASSUME NEW i \in DOMAIN rows, i \in DOMAIN added
          PROVE  view[i] \in Row /\ view[i].what = rows[i].what
      BY <1>7, <1>8, <3>1, <3>2 DEF IsTable
    <3>3. ASSUME NEW i \in DOMAIN rows, i \notin DOMAIN added
          PROVE  view[i] \in Row /\ (rows[i].what \notin Written => view[i].what = rows[i].what)
      <4>1. i \in DOMAIN finding /\ view[i] = Seen(job.view)[i] /\ rows[i] = finding[i]
        BY <1>6, <1>7, <3>1, <3>3
      <4>2. view[i] \in Row
        BY <1>9, <4>1 DEF IsTable
      <4> QED BY <1>5, <1>9, <4>1, <4>2
    <3>4. IsTable(view, limit.ids)
      BY <1>8, <3>1, <3>2, <3>3 DEF IsTable
    <3> QED BY <3>1, <3>2, <3>3, <3>4
  <2> QED BY <2>1, <2>2
<1> HIDE DEF view
<1>11. /\ job'.at = "reporting" /\ job'.view = view /\ job'.active \subseteq DOMAIN job'.view
       /\ job' = [at |-> job'.at, view |-> job'.view, active |-> job'.active]
  BY <1>2
<1>12. IsJob(job)'
  BY <1>3, <1>10, <1>11 DEF IsJob
<1>13. AnalysisTypes' /\ RunningInv'
  BY <1>3, <1>11, <1>12 DEF IInv, TypeOK, AnalysisTypes, RunningInv
<1>14. ViewInv'
  BY <1>2, <1>10, <1>11 DEF ViewInv
<1>15. FindingTypes'
  BY <1>2, <1>3, <1>8 DEF IInv, TypeOK, FindingTypes
<1>16. VerdictsOnTheirFindings'
  <2>1. \A k \in DOMAIN new : NewRow(new[k]).verdict = NoVerdict
    BY DEF NewRow
  <2>2. \A i \in DOMAIN rows : rows[i].what \notin Written => rows[i].verdict \in {NoVerdict, rows[i].what}
    BY <1>6, <2>1 DEF IInv, VerdictsOnTheirFindings
  <2> QED BY <1>2, <2>2 DEF VerdictsOnTheirFindings
<1>17. limit' \in Limits /\ ChatTypes' /\ ChatInv' /\ TurnsInv'
  BY <1>3, ChatStill
<1> QED BY <1>13, <1>14, <1>15, <1>16, <1>17 DEF IInv, TypeOK

\* A verdict goes to the row the view knows by the id, which is about what the
\* model was asked about or is the analyst's.
LEMMA ReportedKeeps ==
  ASSUME IInv, NEW verdict, Reported(verdict)
  PROVE  IInv'
<1>1. /\ job.at = "reporting" /\ verdict \subseteq job.active
      /\ UNCHANGED <<items, marks, fed, report>> /\ UNCHANGED chatVars /\ limit' = limit
  BY DEF Reported, chatVars
<1>2. /\ job = [at |-> job.at, view |-> job.view, active |-> job.active]
      /\ IsTable(job.view, limit.ids) /\ job.active \subseteq DOMAIN job.view
  BY <1>1 DEF IInv, TypeOK, AnalysisTypes, IsJob
<1>3. IsTable(finding, limit.ids) /\ report \in [exists : BOOLEAN, current : BOOLEAN]
  BY DEF IInv, TypeOK, FindingTypes, AnalysisTypes
<1>4. limit' \in Limits /\ ChatTypes' /\ ChatInv' /\ TurnsInv'
  BY <1>1, ChatStill
<1>5. CASE ~(verdict \subseteq DOMAIN finding)
  <2>1. End("error") /\ UNCHANGED findingVars
    BY <1>1, <1>5 DEF Reported, findingVars
  <2>2. AnalysisTypes' /\ RunningInv' /\ ViewInv'
    BY <1>1, <1>3, <2>1, EndIs
  <2> QED BY <1>1, <2>1, <2>2, AnalysisAlone
<1>6. CASE verdict \subseteq DOMAIN finding
  <2>1. /\ finding' = StoreVerdicts(finding, verdict)
        /\ job' = [job EXCEPT !.at = "storing"] /\ UNCHANGED <<running, status>>
    BY <1>6 DEF Reported
  <2>2. /\ job'.at = "storing" /\ job'.view = job.view /\ job'.active = job.active
        /\ job' = [at |-> job'.at, view |-> job'.view, active |-> job'.active]
    BY <1>2, <2>1
  <2>3. IsJob(job)'
    BY <1>1, <1>2, <2>2 DEF IsJob
  <2>4. AnalysisTypes' /\ RunningInv'
    BY <1>1, <2>1, <2>2, <2>3 DEF IInv, TypeOK, AnalysisTypes, RunningInv
  <2>5. ViewInv'
    BY <2>2 DEF ViewInv
  <2>6. /\ DOMAIN finding' = DOMAIN finding /\ finding' = [i \in DOMAIN finding' |-> finding'[i]]
        /\ \A i \in DOMAIN finding :
             finding'[i] = IF i \in verdict THEN [finding[i] EXCEPT !.verdict = job.view[i].what]
                                            ELSE finding[i]
    BY <2>1 DEF StoreVerdicts
  <2>7. ASSUME NEW i \in DOMAIN finding
        PROVE  /\ finding'[i] \in Row
               /\ finding'[i].what \notin Written => finding'[i].verdict \in {NoVerdict, finding'[i].what}
    <3>1. finding[i] \in Row
      BY <1>3 DEF IsTable
    <3>2. CASE i \in verdict
      <4>1. finding'[i] = [finding[i] EXCEPT !.verdict = job.view[i].what]
        BY <2>6, <3>2
      <4>2. i \in DOMAIN job.view /\ job.view[i] \in Row
        BY <1>1, <1>2, <3>2 DEF IsTable
      <4>3. job.view[i].what \in W
        BY <4>2 DEF Row
      <4>4. /\ finding'[i] \in Row /\ finding'[i].what = finding[i].what
            /\ finding'[i].verdict = job.view[i].what
        BY <3>1, <4>1, <4>3 DEF Row
      <4>5. finding[i].what \notin Written => job.view[i].what = finding[i].what
        BY <1>1, <4>2 DEF IInv, ViewInv
      <4> QED BY <4>4, <4>5
    <3>3. CASE i \notin verdict
      BY <2>6, <3>1, <3>3 DEF IInv, VerdictsOnTheirFindings
    <3> QED BY <3>2, <3>3
  <2>8. FindingTypes' /\ VerdictsOnTheirFindings'
    BY <1>1, <1>3, <2>6, <2>7
       DEF IInv, TypeOK, FindingTypes, IsTable, VerdictsOnTheirFindings
  <2> QED BY <1>4, <2>4, <2>5, <2>8 DEF IInv, TypeOK
<1> QED BY <1>5, <1>6

LEMMA StoredKeeps == IInv /\ Stored => IInv'
<1> SUFFICES ASSUME IInv, Stored PROVE IInv'
  OBVIOUS
<1>1. UNCHANGED findingVars /\ UNCHANGED chatVars /\ End("ready")
  BY DEF Stored
<1>2. report' \in [exists : BOOLEAN, current : BOOLEAN]
  BY DEF Stored
<1>3. AnalysisTypes' /\ RunningInv' /\ ViewInv'
  BY <1>1, <1>2, EndIs
<1> QED BY <1>1, <1>3, AnalysisAlone

LEMMA ProviderFailsKeeps == IInv /\ ProviderFails => IInv'
<1> SUFFICES ASSUME IInv, ProviderFails PROVE IInv'
  OBVIOUS
<1>1. UNCHANGED findingVars /\ UNCHANGED chatVars /\ End("error") /\ report' = report
  BY DEF ProviderFails
<1>2. report' \in [exists : BOOLEAN, current : BOOLEAN]
  BY <1>1 DEF IInv, TypeOK, AnalysisTypes
<1>3. AnalysisTypes' /\ RunningInv' /\ ViewInv'
  BY <1>1, <1>2, EndIs
<1> QED BY <1>1, <1>3, AnalysisAlone

-----------------------------------------------------------------------------
(* The chat. *)

\* A message that is stored is behind every cursor.
LEMMA MessageIs ==
  ASSUME NEW n \in Nat, NEW h, h \subseteq 1 .. n, NextId(h) <= n
  PROVE  LET k == h \cup {NextId(h)} IN
         /\ k \subseteq 1 .. n
         /\ \A upto \in h \cup {0} : {i \in k : i <= upto} = {i \in h : i <= upto}
         /\ \A t : TurnHolds(t, h) => TurnHolds(t, k)
<1> DEFINE k == h \cup {NextId(h)}
<1>1. /\ NextId(h) \in Nat \ {0} /\ \A i \in h : i < NextId(h)
  BY NextIdIs
<1>2. k \subseteq 1 .. n
  <2>1. NextId(h) \in 1 .. n
    BY <1>1
  <2> QED BY <2>1
<1>3. ASSUME NEW upto \in h \cup {0}
      PROVE  {i \in k : i <= upto} = {i \in h : i <= upto}
  <2>1. upto \in Nat /\ ~(NextId(h) <= upto)
    BY <1>1
  <2> QED BY <2>1
<1>4. ASSUME NEW t, TurnHolds(t, h)
      PROVE  TurnHolds(t, k)
  <2>1. ASSUME t.at \in {"gathering", "answering"}
        PROVE  Matches(t.memo, t.upto, k)
    <3>1. t.upto \in h \cup {0} /\ About(t.memo) = {i \in h : i <= t.upto} /\ Apart(t.memo)
      BY <1>4, <2>1 DEF TurnHolds, Matches
    <3> QED BY <1>3, <3>1 DEF Matches
  <2>2. ASSUME t.at = "folding"
        PROVE  /\ t.rest # {} /\ t.rest \subseteq k
               /\ About(t.memo) \cup t.rest = {i \in k : i <= Max(t.rest)}
               /\ About(t.memo) \cap t.rest = {} /\ Apart(t.memo)
    <3>1. /\ t.rest # {} /\ t.rest \subseteq h
          /\ About(t.memo) \cup t.rest = {i \in h : i <= Max(t.rest)}
          /\ About(t.memo) \cap t.rest = {} /\ Apart(t.memo)
      BY <1>4, <2>2 DEF TurnHolds
    <3>2. t.rest \in SUBSET (0 .. n)
      <4>1. 1 .. n \subseteq 0 .. n
        OBVIOUS
      <4> QED BY <3>1, <4>1
    <3>3. Max(t.rest) \in h \cup {0}
      BY <3>1, <3>2, MaxIs
    <3>4. {i \in k : i <= Max(t.rest)} = {i \in h : i <= Max(t.rest)}
      BY <1>3, <3>3
    <3> QED BY <3>1, <3>4
  <2> QED BY <2>1, <2>2 DEF TurnHolds
<1> QED BY <1>2, <1>3, <1>4

\* A turn moves on; the messages grow, and the other turns hold as before.
LEMMA TurnMoves ==
  ASSUME IInv, NEW c \in limit.clients, NEW t, Step(c, t), IsTurn(t),
         limit' = limit, chat' = chat, history' \subseteq 1 .. limit.messages,
         chat.exists => TurnHolds(t, history'),
         \A u : chat.exists /\ TurnHolds(u, history) => TurnHolds(u, history')
  PROVE  ChatTypes' /\ TurnsInv'
<1>1. turn' = [turn EXCEPT ![c] = t] /\ DOMAIN turn = limit.clients
  BY DEF Step, IInv, TypeOK, ChatTypes
<1>2. /\ DOMAIN turn' = limit.clients /\ turn'[c] = t
      /\ \A d \in limit.clients \ {c} : turn'[d] = turn[d]
  BY <1>1
<1>3. \A d \in limit.clients : IsTurn(turn'[d])
  BY <1>2 DEF IInv, TypeOK, ChatTypes
<1>4. \A d \in limit.clients : IsTurn(turn[d])'
  BY <1>3 DEF IsTurn
<1>5. ChatTypes'
  BY <1>2, <1>4 DEF IInv, TypeOK, ChatTypes
<1>6. ASSUME chat.exists, NEW d \in limit.clients
      PROVE  TurnHolds(turn'[d], history')
  BY <1>2, <1>6 DEF IInv, TurnsInv
<1>7. TurnsInv'
  BY <1>6 DEF TurnsInv
<1> QED BY <1>5, <1>7

\* A step of the chat that leaves the findings and the analysis alone.
LEMMA ChatAlone ==
  ASSUME IInv, UNCHANGED findingVars, UNCHANGED analysisVars,
         ChatTypes', ChatInv', TurnsInv'
  PROVE  IInv'
<1>1. limit' = limit /\ job' = job
  BY DEF findingVars, analysisVars
<1> QED BY <1>1, FindingsStill, AnalysisStill, ViewStill DEF IInv, TypeOK

\* What a turn is by its place.
LEMMA TurnIs ==
  ASSUME IInv, NEW c \in limit.clients
  PROVE  /\ IsTurn(turn[c])
         /\ chat.exists => TurnHolds(turn[c], history)
         /\ turn[c].at \in {"gathering", "orphaned"} =>
              /\ turn[c] = [at |-> turn[c].at, explicit |-> turn[c].explicit,
                            left |-> turn[c].left, view |-> turn[c].view,
                            memo |-> turn[c].memo, upto |-> turn[c].upto]
              /\ turn[c].explicit \in BOOLEAN /\ turn[c].left \in 0 .. MaxTools
              /\ IsTable(turn[c].view, limit.ids)
BY DEF IInv, TypeOK, ChatTypes, TurnsInv, IsTurn, Idle

\* The messages stay as they are.
LEMMA HistoryStill ==
  ASSUME IInv, history' = history
  PROVE  /\ history' \subseteq 1 .. limit.messages
         /\ \A u : chat.exists /\ TurnHolds(u, history) => TurnHolds(u, history')
BY DEF IInv, TypeOK, ChatTypes

\* An idle turn holds anything.
LEMMA IdleHolds ==
  ASSUME NEW h
  PROVE  IsTurn(Idle) /\ TurnHolds(Idle, h)
BY DEF IsTurn, TurnHolds, Idle

LEMMA TurnBeginsKeeps ==
  ASSUME IInv, NEW c \in limit.clients, NEW explicit \in BOOLEAN, TurnBegins(c, explicit)
  PROVE  IInv'
<1> DEFINE view == IF explicit THEN Loaded(finding) ELSE Nothing
<1> DEFINE t == [at |-> "gathering", explicit |-> explicit, left |-> MaxTools,
                 view |-> view, memo |-> chat.memo, upto |-> chat.upto]
<1>1. /\ chat.exists /\ Step(c, t) /\ UNCHANGED findingVars /\ UNCHANGED analysisVars
      /\ chat' = chat /\ history' = history /\ limit' = limit
  BY DEF TurnBegins, findingVars
<1>2. IsTable(view, limit.ids)
  BY LoadedIs, NothingIs DEF IInv, TypeOK, FindingTypes
<1> HIDE DEF view
<1>3. /\ t.at = "gathering" /\ t.explicit = explicit /\ t.left = MaxTools /\ t.view = view
      /\ t.memo = chat.memo /\ t.upto = chat.upto
      /\ t = [at |-> t.at, explicit |-> t.explicit, left |-> t.left, view |-> t.view,
              memo |-> t.memo, upto |-> t.upto]
  OBVIOUS
<1> HIDE DEF t
<1>4. IsTurn(t)
  BY <1>2, <1>3, AssistantConstants DEF IsTurn
<1>5. TurnHolds(t, history')
  BY <1>1, <1>3 DEF IInv, ChatInv, TurnHolds
<1>6. ChatTypes' /\ TurnsInv'
  BY <1>1, <1>4, <1>5, HistoryStill, TurnMoves
<1>7. ChatInv'
  BY <1>1 DEF IInv, ChatInv
<1> QED BY <1>1, <1>6, <1>7, ChatAlone

\* A turn goes back to idle and stores nothing.
LEMMA TurnEnds ==
  ASSUME IInv, NEW c \in limit.clients, Step(c, Idle), UNCHANGED findingVars,
         UNCHANGED analysisVars, chat' = chat, history' = history
  PROVE  IInv'
<1>1. limit' = limit
  BY DEF findingVars
<1>2. ChatTypes' /\ TurnsInv'
  BY <1>1, IdleHolds, HistoryStill, TurnMoves
<1>3. ChatInv'
  BY DEF IInv, ChatInv
<1> QED BY <1>2, <1>3, ChatAlone

LEMMA ReadToolKeeps ==
  ASSUME IInv, NEW c \in limit.clients, ReadTool(c)
  PROVE  IInv'
<1> DEFINE t == [turn[c] EXCEPT !.left = @ - 1]
<1>1. /\ turn[c].at \in {"gathering", "orphaned"} /\ turn[c].left > 0 /\ Step(c, t)
      /\ UNCHANGED findingVars /\ UNCHANGED analysisVars
      /\ chat' = chat /\ history' = history /\ limit' = limit
  BY DEF ReadTool, MayCall, findingVars
<1>2. /\ turn[c] = [at |-> turn[c].at, explicit |-> turn[c].explicit, left |-> turn[c].left,
                    view |-> turn[c].view, memo |-> turn[c].memo, upto |-> turn[c].upto]
      /\ turn[c].explicit \in BOOLEAN /\ turn[c].left \in 0 .. MaxTools
      /\ IsTable(turn[c].view, limit.ids)
      /\ chat.exists => TurnHolds(turn[c], history)
  BY <1>1, TurnIs
<1>3. /\ t.at = turn[c].at /\ t.explicit = turn[c].explicit /\ t.left = turn[c].left - 1
      /\ t.view = turn[c].view /\ t.memo = turn[c].memo /\ t.upto = turn[c].upto
      /\ t = [at |-> t.at, explicit |-> t.explicit, left |-> t.left, view |-> t.view,
              memo |-> t.memo, upto |-> t.upto]
  BY <1>2
<1> HIDE DEF t
<1>4. turn[c].left - 1 \in 0 .. MaxTools
  BY <1>1, <1>2, AssistantConstants
<1>5. IsTurn(t)
  BY <1>1, <1>2, <1>3, <1>4 DEF IsTurn
<1>6. chat.exists => TurnHolds(t, history')
  BY <1>1, <1>2, <1>3 DEF TurnHolds
<1>7. ChatTypes' /\ TurnsInv'
  BY <1>1, <1>5, <1>6, HistoryStill, TurnMoves
<1>8. ChatInv'
  BY <1>1 DEF IInv, ChatInv
<1> QED BY <1>1, <1>7, <1>8, ChatAlone

\* A suppression out of a turn writes the overrides of rows as the turn loaded
\* them, and so neither a title nor a verdict.
LEMMA SuppressToolKeeps ==
  ASSUME IInv, NEW c \in limit.clients, NEW i, SuppressTool(c, i)
  PROVE  IInv'
<1> DEFINE view == turn[c].view
<1> DEFINE row == IF i \in DOMAIN view THEN view[i] ELSE finding[i]
<1> DEFINE seen == [k \in DOMAIN view |-> IF k \in DOMAIN finding
                     THEN [view[k] EXCEPT !.suppressed = MarkOf(view[k]) \in marks']
                     ELSE view[k]]
<1> DEFINE t == [turn[c] EXCEPT !.left = @ - 1, !.view = seen]
<1>1. /\ turn[c].at \in {"gathering", "orphaned"} /\ turn[c].left > 0 /\ i \in DOMAIN view \cup DOMAIN finding
      /\ marks' = marks \cup {MarkOf(row)} /\ Fits
      /\ UNCHANGED <<limit, items, fed, running, status, chat, history>> /\ UNCHANGED job
  BY DEF SuppressTool, MayCall, Outdate
<1>2. finding' = ApplyOverrides(finding, view, marks')
  BY DEF SuppressTool
<1>3. Step(c, t)
  BY DEF SuppressTool
<1>4. report' = report \/ report' = [report EXCEPT !.current = FALSE]
  BY DEF SuppressTool, Outdate
<1>5. /\ turn[c] = [at |-> turn[c].at, explicit |-> turn[c].explicit, left |-> turn[c].left,
                    view |-> turn[c].view, memo |-> turn[c].memo, upto |-> turn[c].upto]
      /\ turn[c].explicit \in BOOLEAN /\ turn[c].left \in 0 .. MaxTools
      /\ IsTable(view, limit.ids)
      /\ chat.exists => TurnHolds(turn[c], history)
  BY <1>1, TurnIs
<1>6. IsTable(finding, limit.ids) /\ marks \subseteq W \X W
  BY DEF IInv, TypeOK, FindingTypes
<1>7. marks' \subseteq W \X W
  <2>1. MarkOf(row) \in W \X W
    <3> HIDE DEF view
    <3> QED BY <1>1, <1>5, <1>6, MarkOfIs
  <2> QED BY <1>1, <1>6, <2>1
<1>8. IsTable(finding', limit.ids) /\ KeepsOthers(finding, finding')
  <2> HIDE DEF view
  <2> QED BY <1>2, <1>5, <1>6, ApplyOverridesIs
<1>9. FindingTypes'
  BY <1>1, <1>7, <1>8 DEF IInv, TypeOK, FindingTypes
<1>10. VerdictsOnTheirFindings' /\ ViewInv'
  BY <1>1, <1>8, KeepsOthersKeeps
<1>11. AnalysisTypes' /\ RunningInv'
  BY <1>1, <1>4 DEF IInv, TypeOK, AnalysisTypes, RunningInv, IsJob
<1>12. IsTable(seen, limit.ids)
  <2>1. \A k \in DOMAIN view : view[k] \in Row
    BY <1>5 DEF IsTable
  <2>2. ASSUME NEW r \in Row, NEW b \in BOOLEAN
        PROVE  [r EXCEPT !.suppressed = b] \in Row
    BY DEF Row
  <2>3. ASSUME NEW k \in DOMAIN view
        PROVE  [view[k] EXCEPT !.suppressed = MarkOf(view[k]) \in marks'] \in Row
    <3> DEFINE b == MarkOf(view[k]) \in marks'
    <3>1. b \in BOOLEAN
      OBVIOUS
    <3> HIDE DEF b
    <3>2. [view[k] EXCEPT !.suppressed = b] \in Row
      BY <2>1, <2>2, <3>1
    <3> QED BY <3>2 DEF b
  <2>4. \A k \in DOMAIN view : seen[k] \in Row
    BY <2>1, <2>3
  <2> QED BY <1>5, <2>4 DEF IsTable
<1> HIDE DEF seen
<1>13. /\ t.at = turn[c].at /\ t.explicit = turn[c].explicit /\ t.left = turn[c].left - 1
       /\ t.view = seen /\ t.memo = turn[c].memo /\ t.upto = turn[c].upto
       /\ t = [at |-> t.at, explicit |-> t.explicit, left |-> t.left, view |-> t.view,
               memo |-> t.memo, upto |-> t.upto]
  <2>1. turn[c] = [at |-> turn[c].at, explicit |-> turn[c].explicit, left |-> turn[c].left,
                   view |-> turn[c].view, memo |-> turn[c].memo, upto |-> turn[c].upto]
    BY <1>5
  <2>2. t = [at |-> turn[c].at, explicit |-> turn[c].explicit, left |-> turn[c].left - 1,
             view |-> seen, memo |-> turn[c].memo, upto |-> turn[c].upto]
    <3> DEFINE a == [turn[c] EXCEPT !.left = @ - 1]
    <3>1. a = [at |-> turn[c].at, explicit |-> turn[c].explicit, left |-> turn[c].left - 1,
               view |-> turn[c].view, memo |-> turn[c].memo, upto |-> turn[c].upto]
      BY <2>1
    <3>2. t = [a EXCEPT !.view = seen]
      OBVIOUS
    <3> HIDE DEF a, t, view
    <3> QED BY <3>1, <3>2
  <2> HIDE DEF t
  <2> QED BY <2>2
<1> HIDE DEF t
<1>14. turn[c].left - 1 \in 0 .. MaxTools
  BY <1>1, <1>5, AssistantConstants
<1>15. IsTurn(t)
  BY <1>1, <1>5, <1>12, <1>13, <1>14 DEF IsTurn
<1>16. chat.exists => TurnHolds(t, history')
  BY <1>1, <1>5, <1>13 DEF TurnHolds
<1>17. ChatTypes' /\ TurnsInv'
  BY <1>1, <1>3, <1>15, <1>16, HistoryStill, TurnMoves
<1>18. ChatInv'
  BY <1>1 DEF IInv, ChatInv
<1> QED BY <1>1, <1>9, <1>10, <1>11, <1>17, <1>18 DEF IInv, TypeOK

\* A message is stored and the turn moves on, while the chat is there.
LEMMA MessageStored ==
  ASSUME IInv, NEW c \in limit.clients, NEW t, chat.exists, Step(c, t), IsTurn(t),
         NextId(history) <= limit.messages,
         history' = history \cup {NextId(history)}, TurnHolds(t, history'),
         UNCHANGED findingVars, UNCHANGED analysisVars, chat' = chat
  PROVE  IInv'
<1>1. /\ limit.messages \in Nat /\ history \subseteq 1 .. limit.messages /\ limit' = limit
      /\ Matches(chat.memo, chat.upto, history)
  BY LimitIs DEF IInv, TypeOK, ChatTypes, ChatInv, findingVars
<1>2. /\ history' \subseteq 1 .. limit.messages
      /\ \A upto \in history \cup {0} : {i \in history' : i <= upto} = {i \in history : i <= upto}
      /\ \A u : TurnHolds(u, history) => TurnHolds(u, history')
  BY <1>1, MessageIs
<1>3. ChatTypes' /\ TurnsInv'
  BY <1>1, <1>2, TurnMoves
<1>4. ChatInv'
  BY <1>1, <1>2 DEF ChatInv, Matches
<1> QED BY <1>3, <1>4, ChatAlone

LEMMA AsksKeeps ==
  ASSUME IInv, NEW c \in limit.clients, Asks(c)
  PROVE  IInv'
<1> DEFINE t == [at |-> "answering", memo |-> turn[c].memo, upto |-> turn[c].upto]
<1>1. /\ turn[c].at = "gathering" /\ NextId(history) <= limit.messages
      /\ SaveChat(c, Step(c, t))
      /\ UNCHANGED findingVars /\ UNCHANGED analysisVars /\ chat' = chat
  BY DEF Asks
<1>2. CASE ~chat.exists
  BY <1>1, <1>2, TurnEnds DEF SaveChat
<1>3. CASE chat.exists
  <2>1. history' = history \cup {NextId(history)} /\ Step(c, t)
    BY <1>1, <1>3 DEF SaveChat
  <2>2. TurnHolds(turn[c], history')
    <3>1. TurnHolds(turn[c], history)
      BY <1>3, TurnIs
    <3>2. limit.messages \in Nat /\ history \subseteq 1 .. limit.messages
      BY LimitIs DEF IInv, TypeOK, ChatTypes
    <3> QED BY <1>1, <2>1, <3>1, <3>2, MessageIs
  <2>3. TurnHolds(t, history')
    BY <1>1, <2>2 DEF TurnHolds
  <2>4. IsTurn(t)
    BY DEF IsTurn
  <2> HIDE DEF t
  <2> QED BY <1>1, <1>3, <2>1, <2>3, <2>4, MessageStored
<1> QED BY <1>2, <1>3

\* An answer may leave messages to be summarised: all after the cursor of the
\* turn up to one of them.
LEMMA AnsweredKeeps ==
  ASSUME IInv, NEW c \in limit.clients, Answered(c)
  PROVE  IInv'
<1> DEFINE h == history \cup {NextId(history)}
<1> DEFINE rest == Unfolded(turn[c].upto, h)
<1> DEFINE t == [at |-> "folding", memo |-> turn[c].memo, rest |-> rest]
<1>1. /\ turn[c].at = "answering" /\ NextId(history) <= limit.messages
      /\ SaveChat(c, Step(c, Idle)) \/ (rest # {} /\ SaveChat(c, Step(c, t)))
      /\ UNCHANGED findingVars /\ UNCHANGED analysisVars /\ chat' = chat
  BY DEF Answered
<1>2. CASE ~chat.exists
  BY <1>1, <1>2, TurnEnds DEF SaveChat
<1>3. CASE chat.exists /\ history' = h /\ Step(c, Idle)
  BY <1>1, <1>3, IdleHolds, MessageStored
<1>4. CASE chat.exists /\ history' = h /\ Step(c, t) /\ rest # {}
  <2>1. limit.messages \in Nat /\ history \subseteq 1 .. limit.messages
    BY LimitIs DEF IInv, TypeOK, ChatTypes
  <2>2. TurnHolds(turn[c], history)
    BY <1>4, TurnIs
  <2>3. h \subseteq 1 .. limit.messages /\ TurnHolds(turn[c], h)
    BY <1>1, <2>1, <2>2, MessageIs
  <2> HIDE DEF h
  <2>4. /\ turn[c].upto \in h \cup {0} /\ About(turn[c].memo) = {i \in h : i <= turn[c].upto}
        /\ Apart(turn[c].memo)
    BY <1>1, <2>3 DEF TurnHolds, Matches
  <2>5. turn[c].upto \in Nat
    <3>1. \A i \in h : i \in Nat
      BY <2>1, <2>3
    <3> QED BY <2>4, <3>1
  <2>6. /\ rest \subseteq h
        /\ {i \in h : i <= turn[c].upto} \cup rest = {i \in h : i <= Max(rest)}
        /\ {i \in h : i <= turn[c].upto} \cap rest = {}
    BY <1>4, <2>1, <2>3, <2>5, UnfoldedIs
  <2> HIDE DEF rest
  <2>7. TurnHolds(t, h)
    BY <1>4, <2>4, <2>6 DEF TurnHolds
  <2>8. IsTurn(t)
    BY DEF IsTurn
  <2> HIDE DEF t
  <2> QED BY <1>1, <1>4, <2>7, <2>8, MessageStored DEF h
<1> QED BY <1>1, <1>2, <1>3, <1>4 DEF SaveChat

\* What a turn stores is about the messages up to its new cursor, whatever
\* another turn has stored before it.
LEMMA MemoUpdatedKeeps ==
  ASSUME IInv, NEW c \in limit.clients, MemoUpdated(c)
  PROVE  IInv'
<1>1. /\ turn[c].at = "folding"
      /\ Step(c, Idle) /\ UNCHANGED findingVars /\ UNCHANGED analysisVars /\ history' = history
      /\ limit' = limit
  BY DEF MemoUpdated, findingVars
<1>2. CASE ~chat.exists
  <2>1. chat' = chat
    BY <1>2 DEF MemoUpdated
  <2> QED BY <1>1, <2>1, TurnEnds
<1>3. CASE chat.exists
  <2> DEFINE rest == turn[c].rest
  <2> DEFINE old == turn[c].memo
  <2>0. PICK given \in Prompts(rest) : chat' = Folded(c, given)
    BY <1>3 DEF MemoUpdated
  <2> DEFINE memo == MemoWith(old, given, rest \ given)
  <2>1. /\ chat = [exists |-> chat.exists, memo |-> chat.memo, upto |-> chat.upto]
        /\ limit.messages \in Nat /\ history \subseteq 1 .. limit.messages
    BY LimitIs DEF IInv, TypeOK, ChatTypes
  <2>2. /\ rest # {} /\ rest \subseteq history
        /\ About(old) \cup rest = {i \in history : i <= Max(rest)}
        /\ About(old) \cap rest = {} /\ Apart(old)
    BY <1>1, <1>3, TurnIs DEF TurnHolds
  <2>3. Max(rest) \in rest
    <3>1. rest \in SUBSET (0 .. limit.messages)
      BY <2>1, <2>2
    <3> QED BY <2>1, <2>2, <3>1, MaxIs
  <2>4. /\ chat'.exists = chat.exists /\ chat'.memo = memo /\ chat'.upto = Max(rest)
        /\ chat' = [exists |-> chat'.exists, memo |-> chat'.memo, upto |-> chat'.upto]
    <3> HIDE DEF memo
    <3>1. chat' = [chat EXCEPT !.memo = memo, !.upto = Max(rest)]
      BY <2>0 DEF Folded, memo
    <3> HIDE DEF rest
    <3> QED BY <2>1, <3>1
  <2>4a. About(memo) = About(old) \cup rest /\ Apart(memo)
    <3>1. given \subseteq rest
      BY <2>0 DEF Prompts
    <3>2. memo.given = old.given \cup given /\ memo.cut = old.cut \cup (rest \ given)
      BY DEF MemoWith
    <3> HIDE DEF memo, old, rest
    <3> QED BY <2>2, <3>1, <3>2 DEF About, Apart
  <2> HIDE DEF memo, old
  <2>5. ChatInv'
    BY <1>1, <1>3, <2>2, <2>3, <2>4, <2>4a DEF ChatInv, Matches
  <2>6. /\ DOMAIN turn' = limit.clients /\ turn'[c] = Idle
        /\ \A d \in limit.clients \ {c} : turn'[d] = turn[d]
    BY <1>1 DEF Step, IInv, TypeOK, ChatTypes
  <2>7. \A d \in limit.clients : IsTurn(turn'[d]) /\ TurnHolds(turn'[d], history)
    BY <1>3, <2>6, IdleHolds, TurnIs
  <2>8. \A d \in limit.clients : IsTurn(turn[d])'
    BY <1>1, <2>7 DEF IsTurn
  <2>9. ChatTypes'
    BY <1>1, <2>1, <2>4, <2>6, <2>8 DEF IInv, TypeOK, ChatTypes
  <2>10. TurnsInv'
    BY <1>1, <2>7 DEF TurnsInv
  <2> QED BY <1>1, <2>5, <2>9, <2>10, ChatAlone
<1> QED BY <1>2, <1>3

LEMMA TurnLostKeeps ==
  ASSUME IInv, NEW c \in limit.clients, TurnLost(c)
  PROVE  IInv'
<1> DEFINE t == [turn[c] EXCEPT !.at = "orphaned", !.view = Nothing]
<1>1. /\ UNCHANGED findingVars /\ UNCHANGED analysisVars /\ chat' = chat /\ history' = history
      /\ limit' = limit
      /\ Step(c, Idle) \/ (turn[c].at = "gathering" /\ Step(c, t))
  BY DEF TurnLost, findingVars
<1>2. CASE Step(c, Idle)
  BY <1>1, <1>2, TurnEnds
<1>3. CASE turn[c].at = "gathering" /\ Step(c, t)
  <2>1. /\ turn[c] = [at |-> turn[c].at, explicit |-> turn[c].explicit, left |-> turn[c].left,
                      view |-> turn[c].view, memo |-> turn[c].memo, upto |-> turn[c].upto]
        /\ turn[c].explicit \in BOOLEAN /\ turn[c].left \in 0 .. MaxTools
    BY <1>3, TurnIs
  <2>2. /\ t.at = "orphaned" /\ t.explicit = turn[c].explicit /\ t.left = turn[c].left
        /\ t.view = Nothing
        /\ t = [at |-> t.at, explicit |-> t.explicit, left |-> t.left, view |-> t.view,
                memo |-> t.memo, upto |-> t.upto]
    <3> DEFINE a == [turn[c] EXCEPT !.at = "orphaned"]
    <3>1. a = [at |-> "orphaned", explicit |-> turn[c].explicit, left |-> turn[c].left,
               view |-> turn[c].view, memo |-> turn[c].memo, upto |-> turn[c].upto]
      BY <2>1
    <3>2. t = [a EXCEPT !.view = Nothing]
      OBVIOUS
    <3> HIDE DEF a, t
    <3>3. t = [at |-> "orphaned", explicit |-> turn[c].explicit, left |-> turn[c].left,
               view |-> Nothing, memo |-> turn[c].memo, upto |-> turn[c].upto]
      BY <3>1, <3>2
    <3> QED BY <3>3
  <2> HIDE DEF t
  <2>3. IsTable(Nothing, limit.ids)
    BY NothingIs, LimitIs DEF IInv, TypeOK
  <2>4. IsTurn(t) /\ TurnHolds(t, history')
    BY <2>1, <2>2, <2>3 DEF IsTurn, TurnHolds
  <2>5. ChatTypes' /\ TurnsInv'
    BY <1>1, <1>3, <2>4, HistoryStill, TurnMoves
  <2>6. ChatInv'
    BY <1>1 DEF IInv, ChatInv
  <2> QED BY <1>1, <2>5, <2>6, ChatAlone
<1> QED BY <1>1, <1>2, <1>3

\* A deleted chat takes its messages along; the turns that still hold its memo
\* store nothing any more.
LEMMA DeleteChatKeeps == IInv /\ delete_chat => IInv'
<1> SUFFICES ASSUME IInv, delete_chat PROVE IInv'
  OBVIOUS
<1>1. /\ chat' = [exists |-> FALSE, memo |-> NoMemo, upto |-> 0] /\ history' = {}
      /\ UNCHANGED findingVars /\ UNCHANGED analysisVars /\ turn' = turn /\ limit' = limit
  BY DEF delete_chat, findingVars
<1>2. ChatTypes'
  BY <1>1 DEF IInv, TypeOK, ChatTypes, IsTurn
<1>3. ChatInv' /\ TurnsInv'
  BY <1>1 DEF ChatInv, TurnsInv
<1> QED BY <1>1, <1>2, <1>3, ChatAlone

-----------------------------------------------------------------------------
(* The theorems. *)

LEMMA NextKeeps == IInv /\ [Next]_vars => IInv'
<1> SUFFICES ASSUME IInv, [Next]_vars PROVE IInv'
  OBVIOUS
<1>1. ASSUME NEW new \in UNION {[1 .. n -> Detected] : n \in 0 .. Cardinality(Detected)},
             NEW rebuild \in BOOLEAN, Detect(new, rebuild)
      PROVE  IInv'
  BY <1>1, DetectKeeps
<1>2. ASSUME NEW i \in 1 .. limit.ids, NEW b \in BOOLEAN, SetBenign(i, b)
      PROVE  IInv'
  BY <1>2, SetBenignKeeps
<1>3. ASSUME NEW m \in Written \cap limit.marked, AddManual(m) \/ RemoveManual(m)
      PROVE  IInv'
  BY <1>3, ManualKeeps
<1>4. CASE start_analysis
  BY <1>4, StartKeeps
<1>5. CASE AnalysisStep
  <2>1. ASSUME NEW answer \in SUBSET Proposed, Extracted(answer)
        PROVE  IInv'
    BY <2>1, ExtractedKeeps
  <2>2. ASSUME NEW verdict \in SUBSET (1 .. limit.ids), Reported(verdict)
        PROVE  IInv'
    BY <2>2, ReportedKeeps
  <2> QED BY <1>5, <2>1, <2>2, NotAssessedKeeps, AnalysisBeginsKeeps, CorrelatedKeeps,
             StoredKeeps, ProviderFailsKeeps DEF AnalysisStep
<1>6. ASSUME NEW c \in limit.clients, TurnStep(c)
      PROVE  IInv'
  <2>1. ASSUME NEW i \in 1 .. limit.ids, SuppressTool(c, i)
        PROVE  IInv'
    BY <2>1, SuppressToolKeeps
  <2> QED BY <1>6, <2>1, ReadToolKeeps, AsksKeeps, AnsweredKeeps, MemoUpdatedKeeps,
             TurnLostKeeps DEF TurnStep
<1>7. ASSUME NEW c \in limit.clients, NEW explicit \in BOOLEAN, TurnBegins(c, explicit)
      PROVE  IInv'
  BY <1>7, TurnBeginsKeeps
<1>8. CASE delete_chat
  BY <1>8, DeleteChatKeeps
<1>9. CASE UNCHANGED vars
  <2>1. /\ UNCHANGED findingVars /\ UNCHANGED analysisVars /\ UNCHANGED chatVars
    BY <1>9 DEF vars
  <2>2. ChatTypes' /\ ChatInv' /\ TurnsInv'
    BY <2>1, ChatStill
  <2> QED BY <2>1, <2>2, ChatAlone
<1> QED BY <1>1, <1>2, <1>3, <1>4, <1>5, <1>6, <1>7, <1>8, <1>9 DEF Next

LEMMA Invariant == Spec => []IInv
<1>1. Init => IInv
  BY InitIInv
<1>2. IInv /\ [Next]_vars => IInv'
  BY NextKeeps
<1> QED BY <1>1, <1>2, PTL DEF Spec

\* Every table, view and turn keeps its form, and the case is in the set of
\* running analyses exactly while there is one (analysis_router.py:76).
THEOREM CaseAssistantTypes == Spec => [](TypeOK /\ RunningInv)
<1>1. IInv => TypeOK /\ RunningInv
  BY DEF IInv
<1> QED BY <1>1, Invariant, PTL

\* A verdict of the model stands in the row of the finding it was given for,
\* though the rows it is written by were loaded before the model was asked
\* (orchestrator.py:598).
THEOREM CaseAssistantVerdicts == Spec => []VerdictsOnTheirFindings
<1>1. IInv => VerdictsOnTheirFindings
  BY DEF IInv
<1> QED BY <1>1, Invariant, PTL

\* The memo of the chat is about the messages up to its cursor, however many
\* turns write both from what they read before: each was given to the model or
\* was cut off in the compaction it was due in (orchestrator.py:881).
THEOREM CaseAssistantMemo == Spec => []MemoMatchesCursor
<1>1. IInv => MemoMatchesCursor
  BY DEF IInv, ChatInv, Matches, Apart, About, NoMemo, MemoMatchesCursor
<1> QED BY <1>1, Invariant, PTL

-----------------------------------------------------------------------------
(* The turns of a reverse run. *)

Task == [at : {"idle", "provider", "tool", "denial", "review", "revise", "reverify"},
         op : Op \cup {None}, executed : SUBSET Op, candidate : Text \cup {None},
         pass : {1, 2}, forced : BOOLEAN]

Statuses == {"queued", "running", "awaiting", "verifying", "stopped", "failed", "completed"}

Attempts == {Key[o] : o \in Op} \X (Failure \cup HostFailure)

Controller == [seen : SUBSET Evidence, streak : Nat,
               stalled : {Family[o] : o \in Op} \cup {None}, failures : [Attempts -> 0 .. 2]]

\* The program state is typed, and a tool at work has its request.
TurnsTypeOK ==
  /\ runStatus \in Statuses
  /\ used \in Nat /\ max \in Nat /\ task \in Task
  /\ last \in Text \cup {None} /\ substantial \in Text \cup {None} /\ asked \subseteq Op
  /\ controller \in Controller
  /\ draft \in Text \cup {None} /\ markdown \in Text \cup {None} /\ open \in BOOLEAN
  /\ runs \in [Op -> Nat] /\ resumed \in BOOLEAN /\ overwritten \in BOOLEAN
  /\ task.at = "tool" => task.op \in Op

Known == IF task.at = "tool" THEN task.executed \cup {task.op} ELSE task.executed

\* A request that was executed is in a stored message and, while the loop is at
\* work, among those it knows.
RunsInv ==
  \A o \in Op :
    /\ runs[o] <= 1
    /\ runs[o] > 0 => o \in asked
    /\ runs[o] > 0 /\ task.at \in {"provider", "tool"} => o \in Known

Published == Candidate \cup {None, "blocked"}

DraftInv ==
  /\ markdown # None => draft # None
  /\ task.at \in {"review", "revise"} => draft # None
  /\ task.at = "reverify" => markdown # None
  /\ ~resumed /\ ~overwritten =>
       /\ draft \in Published /\ markdown \in Published /\ task.candidate \in Published
       /\ runStatus = "queued" /\ draft = None => substantial = None /\ task.at = "idle"

Inv == TurnsTypeOK /\ RunsInv /\ DraftInv

-----------------------------------------------------------------------------
(* What the shared pieces of the actions leave behind. *)

\* No task at work is a task.
LEMMA IdleTaskFields ==
  /\ IdleTask \in Task /\ IdleTask.at = "idle" /\ IdleTask.candidate = None
  /\ IdleTask.executed = {} /\ IdleTask.pass = 1 /\ IdleTask.forced = FALSE
BY DEF IdleTask, Task

\* A round of the loop keeps what the task knows, or ends it.
LEMMA LoopHeadEffect ==
  ASSUME NEW u, NEW locals \in Task, LoopHead(u, locals)
  PROVE  /\ task' \in Task /\ task'.at \in {"idle", "provider"}
         /\ runStatus' \in {"awaiting", "running"}
         /\ task'.at = "provider" => /\ task'.executed = locals.executed
                                     /\ runStatus' = "running"
         /\ task'.candidate \in {None, locals.candidate}
<1>1. CASE u >= max
  BY <1>1, IdleTaskFields DEF LoopHead
<1>2. CASE ~(u >= max)
  <2>1. task' = [locals EXCEPT !.at = "provider"] /\ runStatus' = "running"
    BY <1>2 DEF LoopHead
  <2> QED BY <2>1 DEF Task
<1> QED BY <1>1, <1>2

\* What _run reads back from the messages.
LEMMA RebuiltFields ==
  ASSUME TurnsTypeOK
  PROVE  /\ Rebuilt \in Task /\ Rebuilt.executed = asked
         /\ Rebuilt.candidate = IF draft # None THEN draft ELSE substantial
BY IdleTaskFields DEF Rebuilt, TurnsTypeOK, Task

\* The review of a text begins.
LEMMA FinalizeEffect ==
  ASSUME NEW text \in Text, NEW forced \in BOOLEAN, Finalize(text, forced)
  PROVE  /\ task' \in Task /\ task'.at = "review" /\ task'.candidate = None
         /\ task'.pass = 1 /\ runStatus' = "verifying" /\ draft' = text
BY IdleTaskFields DEF Finalize, Task

\* The progress controller keeps its type through every kind of attempt.
LEMMA AttemptType ==
  ASSUME TurnsTypeOK, NEW o \in Op, NEW r, r.evidence \in Evidence \cup {None},
         r.failure \in Failure \cup HostFailure \cup {None}, r.broken \in BOOLEAN
  PROVE  Attempt(o, r) \in Controller
<1> DEFINE novel == r.evidence # None /\ r.evidence \notin controller.seen
           streak == IF novel THEN 0 ELSE controller.streak + 1
           failures == IF r.failure = None THEN controller.failures
                ELSE [controller.failures EXCEPT ![<<Key[o], r.failure>>] = Least(@ + 1, 2)]
<1>1. /\ controller.seen \subseteq Evidence /\ controller.streak \in Nat
      /\ controller.stalled \in {Family[q] : q \in Op} \cup {None}
      /\ controller.failures \in [Attempts -> 0 .. 2]
  BY DEF TurnsTypeOK, Controller
<1>2. failures \in [Attempts -> 0 .. 2]
  <2>1. CASE r.failure = None
    BY <1>1, <2>1
  <2>2. CASE r.failure # None
    <3>1. <<Key[o], r.failure>> \in Attempts
      BY <2>2 DEF Attempts
    <3>2. Least(controller.failures[<<Key[o], r.failure>>] + 1, 2) \in 0 .. 2
      BY <1>1, <3>1 DEF Least
    <3> QED BY <1>1, <2>2, <3>1, <3>2
  <2> QED BY <2>1, <2>2
<1>3. streak \in Nat
  BY <1>1
<1>4. controller.seen \cup ({r.evidence} \ {None}) \subseteq Evidence
  BY <1>1
<1>5. Family[o] \in {Family[q] : q \in Op} \cup {None}
  OBVIOUS
<1>6. Attempt(o, r) =
        [seen |-> controller.seen \cup ({r.evidence} \ {None}), streak |-> streak,
         failures |-> failures, stalled |-> Attempt(o, r).stalled]
  BY DEF Attempt
<1>7. Attempt(o, r).stalled \in {Family[q] : q \in Op} \cup {None}
  BY <1>1, <1>5 DEF Attempt
<1> HIDE DEF novel, streak, failures
<1> QED BY <1>2, <1>3, <1>4, <1>6, <1>7 DEF Controller

\* A refusal counts as a failure of the host.
LEMMA RefusalType ==
  ASSUME TurnsTypeOK, NEW o \in Op, NEW f \in HostFailure
  PROVE  Attempt(o, Refusal(f)) \in Controller
<1>1. /\ Refusal(f).evidence = None /\ Refusal(f).failure = f /\ Refusal(f).broken = FALSE
  BY DEF Refusal
<1> QED BY <1>1, AttemptType

-----------------------------------------------------------------------------
(* Types. *)

\* A new run is typed.
LEMMA InitType == TurnsInit => TurnsTypeOK
<1> SUFFICES ASSUME TurnsInit PROVE TurnsTypeOK
  OBVIOUS
<1>1. controller \in Controller
  BY DEF TurnsInit, Controller, Attempts
<1>2. max \in Nat
  BY TurnsAssumption DEF TurnsInit
<1> QED BY <1>1, <1>2, IdleTaskFields DEF TurnsInit, TurnsTypeOK, Statuses

\* Every step of the tool loop keeps the types.
LEMMA LoopType ==
  ASSUME TurnsTypeOK,
         \/ RunBegins \/ NothingToRun \/ RejectedRequest \/ Completed
         \/ \E o \in Op : Refused(o) \/ Execute(o)
         \/ Executed \/ DenialAnswered
  PROVE  TurnsTypeOK'
<1>0. /\ task \in Task /\ used \in Nat /\ max \in Nat /\ controller \in Controller
      /\ asked \subseteq Op /\ runs \in [Op -> Nat] /\ runStatus \in Statuses
      /\ last \in Text \cup {None} /\ substantial \in Text \cup {None}
      /\ draft \in Text \cup {None} /\ markdown \in Text \cup {None} /\ open \in BOOLEAN
      /\ resumed \in BOOLEAN /\ overwritten \in BOOLEAN
      /\ task.at = "tool" => task.op \in Op
  BY DEF TurnsTypeOK
<1> DEFINE Texts == {"report", "denied", "rejected", "checkpoint", "short", "blocked", "call"}
<1>t. Text = Texts
  BY DEF Text
<1>d. Candidate = {"report", "denied"}
  BY DEF Candidate
<1>1. CASE RunBegins
  <2>1. LoopHead(used, Rebuilt) /\ UNCHANGED <<used, max, messageVars, controller, draft, published, historyVars>>
    BY <1>1 DEF RunBegins
  <2>2. task' \in Task /\ task'.at # "tool" /\ runStatus' \in Statuses
    BY <2>1, RebuiltFields, LoopHeadEffect DEF Statuses
  <2> QED BY <1>0, <2>1, <2>2 DEF TurnsTypeOK, messageVars, published, historyVars
<1>2. CASE NothingToRun
  <2>1. PICK text \in {"rejected", "checkpoint", "short"} : Said(text)
    BY <1>2 DEF NothingToRun
  <2>2. /\ LoopHead(used + 1, task) /\ used' = used + 1
        /\ UNCHANGED <<max, asked, controller, draft, published, historyVars>>
    BY <1>2 DEF NothingToRun, ModelAnswered
  <2>3. task' \in Task /\ task'.at # "tool" /\ runStatus' \in Statuses
    BY <1>0, <2>2, LoopHeadEffect DEF Statuses
  <2>4. last' \in Text /\ substantial' \in Text \cup {None}
    BY <1>0, <2>1, <1>t DEF Said
  <2> QED BY <1>0, <2>2, <2>3, <2>4 DEF TurnsTypeOK, published, historyVars
<1>3. CASE RejectedRequest
  <2>1. PICK o \in Op : asked' = asked \cup {o}
    BY <1>3 DEF RejectedRequest
  <2>2. /\ LoopHead(used + 1, task) /\ used' = used + 1 /\ last' = "rejected"
        /\ UNCHANGED <<max, substantial, controller, draft, published, historyVars>>
    BY <1>3 DEF RejectedRequest, ModelAnswered
  <2>3. task' \in Task /\ task'.at # "tool" /\ runStatus' \in Statuses
    BY <1>0, <2>2, LoopHeadEffect DEF Statuses
  <2>4. last' \in Text
    BY <2>2, <1>t
  <2> QED BY <1>0, <2>1, <2>2, <2>3, <2>4 DEF TurnsTypeOK, published, historyVars
<1>4. CASE Completed
  <2>1. /\ used' = used + 1
        /\ UNCHANGED <<max, asked, controller, published, runs, resumed, overwritten>>
    BY <1>4 DEF Completed, ModelAnswered
  <2>2. PICK said \in {"report", "denied", "short"}, text \in Text : Said(said) /\ Finalize(text, FALSE)
    <3>1. ASSUME NEW text \in Candidate, Said(text), Finalize(text, FALSE)
          PROVE  \E said \in {"report", "denied", "short"}, t \in Text : Said(said) /\ Finalize(t, FALSE)
      <4>1. text \in Text /\ text \in {"report", "denied", "short"}
        BY <1>t, <1>d
      <4> QED BY <3>1, <4>1
    <3>2. CASE task.candidate # None /\ Said("short") /\ Finalize(task.candidate, FALSE)
      <4>1. task.candidate \in Text
        BY <1>0, <3>2 DEF Task
      <4> QED BY <3>2, <4>1
    <3> QED BY <1>4, <3>1, <3>2 DEF Completed
  <2>3. /\ task' \in Task /\ task'.at = "review" /\ runStatus' \in Statuses /\ draft' \in Text
    BY <2>2, FinalizeEffect DEF Statuses
  <2>4. last' \in Text /\ substantial' \in Text \cup {None}
    BY <1>0, <2>2, <1>t DEF Said
  <2> QED BY <1>0, <2>1, <2>3, <2>4 DEF TurnsTypeOK, published
<1>5. ASSUME NEW o \in Op, Refused(o)
      PROVE  TurnsTypeOK'
  <2>1. /\ used' = used + 1 /\ last' = "call" /\ asked' = asked \cup {o}
        /\ LoopHead(used + 1, task)
        /\ UNCHANGED <<max, substantial, draft, published, historyVars>>
    BY <1>5 DEF Refused, Requested, ModelAnswered
  <2>2. PICK f \in HostFailure : controller' = Attempt(o, Refusal(f))
    BY <1>5 DEF Refused, HostFailure
  <2>3. controller' \in Controller
    BY <2>2, RefusalType
  <2>4. task' \in Task /\ task'.at # "tool" /\ runStatus' \in Statuses
    BY <1>0, <2>1, LoopHeadEffect DEF Statuses
  <2>5. last' \in Text
    BY <2>1, <1>t
  <2> QED BY <1>0, <2>1, <2>3, <2>4, <2>5 DEF TurnsTypeOK, published, historyVars
<1>6. ASSUME NEW o \in Op, Execute(o)
      PROVE  TurnsTypeOK'
  <2>1. /\ used' = used + 1 /\ last' = "call" /\ asked' = asked \cup {o}
        /\ task' = [task EXCEPT !.at = "tool", !.op = o]
        /\ runs' = [runs EXCEPT ![o] = @ + 1]
        /\ UNCHANGED <<runStatus, max, substantial, controller, draft, published, resumed, overwritten>>
    BY <1>6 DEF Execute, Requested, ModelAnswered
  <2>2. task' \in Task /\ task'.op \in Op
    BY <1>0, <2>1 DEF Task
  <2>3. last' \in Text
    BY <2>1, <1>t
  <2>4. runs' \in [Op -> Nat]
    BY <1>0, <2>1
  <2> QED BY <1>0, <2>1, <2>2, <2>3, <2>4 DEF TurnsTypeOK, published
<1>7. CASE Executed
  <2>1. PICK r \in Result : controller' = Attempt(task.op, r)
    BY <1>7 DEF Executed
  <2>2. /\ task.at = "tool"
        /\ LoopHead(used, [task EXCEPT !.executed = @ \cup {task.op}, !.op = None])
        /\ UNCHANGED <<used, max, messageVars, draft, published, historyVars>>
    BY <1>7 DEF Executed
  <2>3. controller' \in Controller
    <3>1. /\ r.evidence \in Evidence \cup {None} /\ r.broken \in BOOLEAN
          /\ r.failure \in Failure \cup {None}
      BY <2>1 DEF Result
    <3> QED BY <1>0, <2>1, <2>2, <3>1, AttemptType
  <2>4. [task EXCEPT !.executed = @ \cup {task.op}, !.op = None] \in Task
    BY <1>0, <2>2 DEF Task
  <2>5. task' \in Task /\ task'.at # "tool" /\ runStatus' \in Statuses
    BY <2>2, <2>4, LoopHeadEffect DEF Statuses
  <2> QED BY <1>0, <2>2, <2>3, <2>5 DEF TurnsTypeOK, messageVars, published, historyVars
<1>8. CASE DenialAnswered
  <2>1. PICK said \in Text \ {"blocked"} :
          /\ Said(said)
          /\ LET text == IF said \in Long THEN said ELSE draft IN
             Finalize(IF text \in Long THEN text ELSE "blocked", TRUE)
          /\ overwritten' = (overwritten \/ said \in {"rejected", "checkpoint"})
          /\ \E o \in Op : asked' = IF said = "call" THEN asked \cup {o} ELSE asked
    BY <1>8 DEF DenialAnswered
  <2>2. UNCHANGED <<used, max, controller, published, runs, resumed>>
    BY <1>8 DEF DenialAnswered
  <2>3. PICK text \in Text : Finalize(text, TRUE)
    <3>1. Long \subseteq Text /\ "blocked" \in Text
      BY <1>t, <1>d DEF Long
    <3> QED BY <2>1, <3>1
  <2>4. task' \in Task /\ task'.at = "review" /\ runStatus' \in Statuses /\ draft' \in Text
    BY <2>3, FinalizeEffect DEF Statuses
  <2>5. last' \in Text /\ substantial' \in Text \cup {None} /\ asked' \subseteq Op
    BY <1>0, <2>1, <1>t DEF Said
  <2>6. overwritten' \in BOOLEAN
    BY <2>1
  <2> QED BY <1>0, <2>2, <2>4, <2>5, <2>6 DEF TurnsTypeOK, published
<1> QED BY <1>1, <1>2, <1>3, <1>4, <1>5, <1>6, <1>7, <1>8

\* So does the review of a report, whatever it decides.
LEMMA ReviewType ==
  ASSUME TurnsTypeOK,
         \/ ReviewPublishes \/ ReviewRevises \/ ReviewContinues \/ Revised \/ Reverified
  PROVE  TurnsTypeOK'
<1>0. /\ task \in Task /\ used \in Nat /\ max \in Nat /\ controller \in Controller
      /\ asked \subseteq Op /\ runs \in [Op -> Nat] /\ runStatus \in Statuses
      /\ last \in Text \cup {None} /\ substantial \in Text \cup {None}
      /\ draft \in Text \cup {None} /\ markdown \in Text \cup {None} /\ open \in BOOLEAN
      /\ resumed \in BOOLEAN /\ overwritten \in BOOLEAN
  BY DEF TurnsTypeOK
<1>t. Candidate \subseteq Text
  BY DEF Text, Candidate
<1>f. task.forced \in BOOLEAN
  BY <1>0 DEF Task
<1>p. ASSUME NEW clean \in BOOLEAN, Publish(clean)
      PROVE  /\ task' \in Task /\ task'.at = "idle" /\ runStatus' \in Statuses
             /\ markdown' \in Text \cup {None} /\ open' \in BOOLEAN
  BY <1>0, <1>f, <1>p, IdleTaskFields DEF Publish, published, Statuses
<1>1. CASE ReviewPublishes
  <2>1. UNCHANGED <<used, max, messageVars, controller, draft, historyVars>>
    BY <1>1 DEF ReviewPublishes
  <2>2. PICK clean \in BOOLEAN : Publish(clean)
    BY <1>1 DEF ReviewPublishes
  <2> QED BY <1>0, <1>p, <2>1, <2>2 DEF TurnsTypeOK, messageVars, historyVars
<1>2. CASE ReviewRevises
  <2>1. /\ task' = [task EXCEPT !.at = "revise"]
        /\ UNCHANGED <<runStatus, used, max, messageVars, controller, draft, published, historyVars>>
    BY <1>2 DEF ReviewRevises
  <2>2. task' \in Task /\ task'.at = "revise"
    BY <1>0, <2>1 DEF Task
  <2> QED BY <1>0, <2>1, <2>2 DEF TurnsTypeOK, messageVars, published, historyVars
<1>3. CASE ReviewContinues
  <2>1. /\ LoopHead(used, Rebuilt)
        /\ UNCHANGED <<used, max, messageVars, controller, draft, published, historyVars>>
    BY <1>3 DEF ReviewContinues
  <2>2. task' \in Task /\ task'.at # "tool" /\ runStatus' \in Statuses
    BY <2>1, RebuiltFields, LoopHeadEffect DEF Statuses
  <2> QED BY <1>0, <2>1, <2>2 DEF TurnsTypeOK, messageVars, published, historyVars
<1>4. CASE Revised
  <2>1. UNCHANGED <<used, max, messageVars, controller, runs, resumed, overwritten>>
    BY <1>4 DEF Revised
  <2>2. CASE /\ draft' \in Candidate /\ task' = [task EXCEPT !.at = "review", !.pass = 2]
             /\ UNCHANGED <<published, runStatus>>
    <3>1. task' \in Task /\ task'.at = "review"
      BY <1>0, <2>2 DEF Task
    <3> QED BY <1>0, <1>t, <2>1, <2>2, <3>1 DEF TurnsTypeOK, messageVars, published
  <2>3. CASE Publish(FALSE) /\ UNCHANGED draft
    BY <1>0, <1>p, <2>1, <2>3 DEF TurnsTypeOK, messageVars
  <2> QED BY <1>4, <2>2, <2>3 DEF Revised
<1>5. CASE Reverified
  <2>1. task' = IdleTask /\ UNCHANGED <<used, max, messageVars, controller, runs, resumed>>
    BY <1>5 DEF Reverified
  <2>2. /\ open' \in BOOLEAN /\ draft' \in Text \cup {None} /\ markdown' \in Text \cup {None}
        /\ runStatus' \in Statuses /\ overwritten' \in BOOLEAN
    BY <1>0, <1>t, <1>5 DEF Reverified, published, Statuses
  <2> QED BY <1>0, <2>1, <2>2, IdleTaskFields DEF TurnsTypeOK, messageVars
<1> QED BY <1>1, <1>2, <1>3, <1>4, <1>5

\* So do the requests, and whatever ends a task early.
LEMMA RequestType ==
  ASSUME TurnsTypeOK,
         \/ Interrupted \/ resume \/ approve_extension \/ continue_investigation
         \/ deny_extension \/ retry_report_verification \/ recover_completed_report
  PROVE  TurnsTypeOK'
<1>0. /\ task \in Task /\ used \in Nat /\ max \in Nat /\ controller \in Controller
      /\ asked \subseteq Op /\ runs \in [Op -> Nat] /\ runStatus \in Statuses
      /\ last \in Text \cup {None} /\ substantial \in Text \cup {None}
      /\ draft \in Text \cup {None} /\ markdown \in Text \cup {None} /\ open \in BOOLEAN
      /\ resumed \in BOOLEAN /\ overwritten \in BOOLEAN
      /\ task.at = "tool" => task.op \in Op
  BY DEF TurnsTypeOK
<1>1. CASE Interrupted
  <2>1. task' = IdleTask /\ UNCHANGED <<used, max, messageVars, controller, draft, published, historyVars>>
    BY <1>1 DEF Interrupted
  <2>2. runStatus' \in Statuses
    BY <1>0, <1>1 DEF Interrupted, Statuses
  <2> QED BY <1>0, <2>1, <2>2, IdleTaskFields DEF TurnsTypeOK, messageVars, published, historyVars
<1>2. CASE resume \/ approve_extension \/ continue_investigation
  <2>1. PICK m \in {max, max + Extension} : Requeue(m)
    BY <1>2 DEF resume, approve_extension, continue_investigation
  <2>2. m \in Nat
    BY <1>0, TurnsAssumption
  <2> QED BY <1>0, <2>1, <2>2 DEF Requeue, TurnsTypeOK, messageVars, published, Statuses
<1>3. CASE deny_extension \/ retry_report_verification
  <2>1. PICK at \in {"denial", "reverify"} : task' = [IdleTask EXCEPT !.at = at]
    BY <1>3 DEF deny_extension, retry_report_verification, Begin
  <2>2. runStatus' \in Statuses /\ UNCHANGED <<used, max, messageVars, controller, draft, published, historyVars>>
    BY <1>0, <1>3 DEF deny_extension, retry_report_verification, Statuses
  <2>3. task' \in Task /\ task'.at # "tool"
    BY <2>1, IdleTaskFields DEF Task
  <2> QED BY <1>0, <2>2, <2>3 DEF TurnsTypeOK, messageVars, published, historyVars
<1>4. CASE recover_completed_report
  <2>1. /\ last \in Text /\ Finalize(last, FALSE) /\ overwritten' = TRUE
        /\ UNCHANGED <<used, max, messageVars, controller, published, runs, resumed>>
    BY <1>0, <1>4 DEF recover_completed_report
  <2>2. task' \in Task /\ task'.at = "review" /\ runStatus' \in Statuses /\ draft' \in Text
    BY <2>1, FinalizeEffect DEF Statuses
  <2> QED BY <1>0, <2>1, <2>2 DEF TurnsTypeOK, messageVars, published
<1> QED BY <1>1, <1>2, <1>3, <1>4

\* Every step keeps the types.
LEMMA TypeStep == TurnsTypeOK /\ [TurnsNext]_turnsVars => TurnsTypeOK'
<1> SUFFICES ASSUME TurnsTypeOK, [TurnsNext]_turnsVars PROVE TurnsTypeOK'
  OBVIOUS
<1>1. CASE Turn
  BY <1>1, LoopType, ReviewType DEF Turn
<1>2. CASE UNCHANGED turnsVars
  BY <1>2 DEF turnsVars, messageVars, published, historyVars, TurnsTypeOK
<1> QED BY <1>1, <1>2, RequestType DEF TurnsNext

\* The run, its task, its controller and its texts keep their types in every step of
\* the tool loop, the review and the requests.
THEOREM ReverseTurnsTypes == TurnsSpec => []TurnsTypeOK
BY InitType, TypeStep, PTL DEF TurnsSpec

-----------------------------------------------------------------------------
(* A request is executed at most once. *)

\* Nothing was executed at first.
LEMMA InitRuns == TurnsInit => RunsInv
BY IdleTaskFields DEF TurnsInit, RunsInv

\* What a step must keep for RunsInv to hold afterwards.
LEMMA RunsKept ==
  ASSUME RunsInv, runs' = runs, asked \subseteq asked',
         task'.at \in {"provider", "tool"} =>
           \A o \in Op : runs[o] > 0 => o \in Known'
  PROVE  RunsInv'
BY DEF RunsInv

\* A task that is rebuilt knows every request of the messages.
LEMMA RunsRebuilt ==
  ASSUME TurnsTypeOK, RunsInv, NEW u, LoopHead(u, Rebuilt), runs' = runs, asked' = asked
  PROVE  RunsInv'
<1>1. /\ task'.at \in {"idle", "provider"}
      /\ task'.at = "provider" => task'.executed = asked
  BY RebuiltFields, LoopHeadEffect
<1> QED BY <1>1 DEF RunsInv, Known

\* A round of the loop forgets nothing.
LEMMA RunsRound ==
  ASSUME RunsInv, NEW u, NEW locals \in Task, LoopHead(u, locals),
         task.at \in {"provider", "tool"}, Known \subseteq locals.executed,
         runs' = runs, asked \subseteq asked'
  PROVE  RunsInv'
<1>1. /\ task'.at \in {"idle", "provider"}
      /\ task'.at = "provider" => task'.executed = locals.executed
  BY LoopHeadEffect
<1>2. \A o \in Op : runs[o] > 0 => o \in Known
  BY DEF RunsInv
<1>3. task'.at = "provider" => Known' = locals.executed
  BY <1>1 DEF Known
<1> QED BY <1>1, <1>2, <1>3, RunsKept

\* Every step keeps RunsInv: Execute runs only what the loop does not know, and
\* what a later task rebuilds is what the messages hold.
LEMMA RunsStep == TurnsTypeOK /\ RunsInv /\ [TurnsNext]_turnsVars => RunsInv'
<1> SUFFICES ASSUME TurnsTypeOK, RunsInv, [TurnsNext]_turnsVars PROVE RunsInv'
  OBVIOUS
<1>0. task \in Task /\ asked \subseteq Op /\ runs \in [Op -> Nat]
  BY DEF TurnsTypeOK
<1>1. CASE RunBegins \/ ReviewContinues
  BY <1>1, RunsRebuilt DEF RunBegins, ReviewContinues, messageVars, historyVars
<1>2. CASE NothingToRun \/ RejectedRequest \/ \E o \in Op : Refused(o)
  <2>1. /\ task.at = "provider" /\ LoopHead(used + 1, task)
        /\ runs' = runs /\ asked \subseteq asked'
    BY <1>2 DEF NothingToRun, RejectedRequest, Refused, Requested, ModelAnswered, historyVars
  <2>2. Known \subseteq task.executed
    BY <2>1 DEF Known
  <2> QED BY <1>0, <2>1, <2>2, RunsRound
<1>3. CASE Executed
  <2> DEFINE locals == [task EXCEPT !.executed = @ \cup {task.op}, !.op = None]
  <2>1. /\ task.at = "tool" /\ LoopHead(used, locals)
        /\ runs' = runs /\ asked' = asked
    BY <1>3 DEF Executed, messageVars, historyVars
  <2>2. locals \in Task /\ locals.executed = Known
    BY <1>0, <2>1 DEF TurnsTypeOK, Task, Known
  <2> HIDE DEF locals
  <2> QED BY <2>1, <2>2, RunsRound
<1>4. ASSUME NEW o \in Op, Execute(o)
      PROVE  RunsInv'
  <2>1. /\ task.at = "provider" /\ o \notin task.executed /\ asked' = asked \cup {o}
        /\ task' = [task EXCEPT !.at = "tool", !.op = o]
        /\ runs' = [runs EXCEPT ![o] = @ + 1]
    BY <1>4 DEF Execute, Requested, ModelAnswered
  <2>2. task'.at = "tool" /\ task'.op = o /\ task'.executed = task.executed
    BY <1>0, <2>1 DEF Task
  <2>3. Known = task.executed /\ Known' = task.executed \cup {o}
    BY <2>1, <2>2 DEF Known
  <2>4. runs[o] = 0
    BY <1>0, <2>1, <2>3 DEF RunsInv
  <2>5. \A q \in Op : runs'[q] = IF q = o THEN 1 ELSE runs[q]
    BY <1>0, <2>1, <2>4
  <2> QED BY <2>1, <2>3, <2>5 DEF RunsInv
<1>5. CASE Completed \/ DenialAnswered \/ ReviewPublishes \/ ReviewRevises \/ Revised
           \/ Reverified \/ Interrupted \/ deny_extension \/ retry_report_verification
           \/ recover_completed_report
  <2>1. task'.at \notin {"provider", "tool"}
    <3>1. CASE Completed \/ DenialAnswered \/ recover_completed_report
      <4>1. PICK text, forced : Finalize(text, forced)
        BY <3>1 DEF Completed, DenialAnswered, recover_completed_report
      <4> QED BY <4>1 DEF Finalize, IdleTask
    <3>2. CASE ReviewPublishes \/ Reverified \/ Interrupted
      BY <3>2, IdleTaskFields DEF ReviewPublishes, Reverified, Interrupted, Publish
    <3>3. CASE ReviewRevises \/ Revised
      BY <1>0, <3>3, IdleTaskFields DEF ReviewRevises, Revised, Publish, Task
    <3>4. CASE deny_extension \/ retry_report_verification
      BY <3>4 DEF deny_extension, retry_report_verification, Begin, IdleTask
    <3> QED BY <1>5, <3>1, <3>2, <3>3, <3>4
  <2>2. runs' = runs /\ asked \subseteq asked'
    BY <1>5 DEF Completed, DenialAnswered, ReviewPublishes, ReviewRevises, Revised, Reverified,
         Interrupted, deny_extension, retry_report_verification, recover_completed_report,
         messageVars, historyVars
  <2> QED BY <2>1, <2>2, RunsKept
<1>6. CASE resume \/ approve_extension \/ continue_investigation
  BY <1>6 DEF resume, approve_extension, continue_investigation, Requeue, messageVars, RunsInv, Known
<1>7. CASE UNCHANGED turnsVars
  BY <1>7 DEF turnsVars, messageVars, historyVars, RunsInv, Known
<1> QED BY <1>1, <1>2, <1>3, <1>4, <1>5, <1>6, <1>7 DEF TurnsNext, Turn

\* The duplicate suppression of _run is complete: no request is executed twice in the
\* life of a run, through every stop, error, extension, review and resumption.
THEOREM ReverseTurnsExecutedAtMostOnce == TurnsSpec => []ExecutedAtMostOnce
<1>1. RunsInv => ExecutedAtMostOnce
  BY DEF RunsInv, ExecutedAtMostOnce
<1> QED BY <1>1, InitType, TypeStep, InitRuns, RunsStep, PTL DEF TurnsSpec

-----------------------------------------------------------------------------
(* What a run publishes is a report. *)

\* What may be published is told apart from everything else.
LEMMA PublishedTexts ==
  /\ Published = {None, "report", "denied", "blocked"} /\ Candidate = {"report", "denied"}
  /\ None \notin {"report", "denied", "blocked"} /\ {"report", "denied", "blocked"} \subseteq Text
  /\ None # "call"
BY NoneAssumption DEF Published, Text, Candidate

\* There is no draft at first.
LEMMA InitDraft == TurnsInit => DraftInv
BY IdleTaskFields DEF TurnsInit, DraftInv, Published

\* Every step keeps DraftInv: a draft is given up only for a report.
LEMMA DraftStep == TurnsTypeOK /\ DraftInv /\ [TurnsNext]_turnsVars => DraftInv'
<1> SUFFICES ASSUME TurnsTypeOK, DraftInv, [TurnsNext]_turnsVars PROVE DraftInv'
  OBVIOUS
<1>0. /\ task \in Task /\ resumed \in BOOLEAN /\ overwritten \in BOOLEAN
      /\ draft \in Text \cup {None} /\ last \in Text \cup {None}
  BY DEF TurnsTypeOK
<1>i. /\ markdown # None => draft # None
      /\ task.at \in {"review", "revise"} => draft # None
      /\ task.at = "reverify" => markdown # None
      /\ ~resumed /\ ~overwritten =>
           /\ draft \in Published /\ markdown \in Published /\ task.candidate \in Published
           /\ (runStatus = "queued" /\ draft = None) => (substantial = None /\ task.at = "idle")
  BY DEF DraftInv
<1>c. None \in Published
  BY DEF Published
<1>1. CASE RunBegins \/ ReviewContinues
  <2>1. /\ LoopHead(used, Rebuilt)
        /\ UNCHANGED <<draft, markdown, resumed, overwritten, substantial>>
        /\ (runStatus = "queued" \/ draft # None)
    BY <1>1, <1>i DEF RunBegins, ReviewContinues, messageVars, published, historyVars
  <2>2. /\ task'.at \in {"idle", "provider"} /\ runStatus' # "queued"
        /\ task'.candidate \in {None, Rebuilt.candidate}
    BY <2>1, RebuiltFields, LoopHeadEffect
  <2>3. ~resumed /\ ~overwritten => task'.candidate \in Published
    BY <1>i, <1>c, <2>1, <2>2, RebuiltFields
  <2> QED BY <1>i, <2>1, <2>2, <2>3 DEF DraftInv
<1>2. CASE NothingToRun \/ RejectedRequest \/ Executed \/ \E o \in Op : Refused(o)
  <2>1. PICK locals \in Task : (\E u : LoopHead(u, locals)) /\ locals.candidate = task.candidate
    <3>1. CASE Executed
      <4> DEFINE locals == [task EXCEPT !.executed = @ \cup {task.op}, !.op = None]
      <4>1. LoopHead(used, locals) /\ task.op \in Op
        BY <3>1 DEF Executed, TurnsTypeOK
      <4>2. locals \in Task /\ locals.candidate = task.candidate
        BY <1>0, <4>1 DEF Task
      <4> QED BY <4>1, <4>2
    <3> QED BY <1>0, <1>2, <3>1 DEF NothingToRun, RejectedRequest, Refused
  <2>2. /\ task'.at \in {"idle", "provider"} /\ runStatus' # "queued"
        /\ task'.candidate \in {None, task.candidate}
    BY <2>1, LoopHeadEffect
  <2>3. UNCHANGED <<draft, markdown, resumed, overwritten>>
    BY <1>2 DEF NothingToRun, RejectedRequest, Executed, Refused, published, historyVars
  <2> QED BY <1>i, <1>c, <2>2, <2>3 DEF DraftInv
<1>3. CASE \E o \in Op : Execute(o)
  <2>1. PICK o \in Op : Execute(o)
    BY <1>3
  <2>2. /\ task' = [task EXCEPT !.at = "tool", !.op = o] /\ task.at = "provider"
        /\ UNCHANGED <<runStatus, substantial, draft, markdown, resumed, overwritten>>
    BY <2>1 DEF Execute, Requested, ModelAnswered, published
  <2>3. task'.at = "tool" /\ task'.candidate = task.candidate
    BY <1>0, <2>2 DEF Task
  <2> QED BY <1>i, <2>2, <2>3 DEF DraftInv
<1>4. CASE Completed
  <2>1. PICK text \in {"report", "denied", task.candidate} : Finalize(text, FALSE) /\ text # None
    BY <1>4, PublishedTexts DEF Completed
  <2>2. text \in Text
    BY <1>0, <2>1, PublishedTexts DEF Task
  <2>3. UNCHANGED <<markdown, resumed, overwritten>>
    BY <1>4 DEF Completed, published
  <2>4. /\ task'.at = "review" /\ task'.candidate = None /\ runStatus' # "queued" /\ draft' = text
    BY <2>1, <2>2, FinalizeEffect
  <2>5. ~resumed /\ ~overwritten => text \in Published
    BY <1>i, <2>1, PublishedTexts
  <2> QED BY <1>i, <1>c, <2>1, <2>3, <2>4, <2>5 DEF DraftInv
<1>5. CASE DenialAnswered
  <2>1. PICK said \in Text \ {"blocked"} :
          /\ LET text == IF said \in Long THEN said ELSE draft IN
             Finalize(IF text \in Long THEN text ELSE "blocked", TRUE)
          /\ overwritten' = (overwritten \/ said \in {"rejected", "checkpoint"})
    BY <1>5 DEF DenialAnswered
  <2>2. markdown' = markdown /\ resumed' = resumed
    BY <1>5 DEF DenialAnswered, published
  <2>3. PICK text \in Long \cup {"blocked"} :
          /\ Finalize(text, TRUE)
          /\ text \in {said, draft, "blocked"} /\ (text = said => said \in Long \/ text \in {draft, "blocked"})
    BY <2>1
  <2>4. text \in Text /\ text # None
    BY <2>3, PublishedTexts, NoneAssumption DEF Long, Text
  <2>5. /\ task'.at = "review" /\ task'.candidate = None /\ runStatus' # "queued" /\ draft' = text
    BY <2>3, <2>4, FinalizeEffect
  <2>6. ~resumed' /\ ~overwritten' => text \in Published /\ ~resumed /\ ~overwritten
    BY <1>i, <2>1, <2>2, <2>3, PublishedTexts DEF Long
  <2> QED BY <1>i, <1>c, <2>2, <2>4, <2>5, <2>6 DEF DraftInv
<1>6. CASE ReviewRevises
  <2>1. /\ task' = [task EXCEPT !.at = "revise"] /\ task.at = "review"
        /\ UNCHANGED <<runStatus, substantial, draft, markdown, resumed, overwritten>>
    BY <1>6 DEF ReviewRevises, messageVars, published, historyVars
  <2>2. task'.at = "revise" /\ task'.candidate = task.candidate
    BY <1>0, <2>1 DEF Task
  <2> QED BY <1>i, <2>1, <2>2 DEF DraftInv
<1>7. CASE ReviewPublishes \/ Revised
  <2>1. CASE /\ draft' \in Candidate /\ task' = [task EXCEPT !.at = "review", !.pass = 2]
             /\ UNCHANGED <<published, runStatus>> /\ task.at = "revise"
             /\ UNCHANGED <<substantial, resumed, overwritten>>
    <3>1. task'.at = "review" /\ task'.candidate = task.candidate
      BY <1>0, <2>1 DEF Task
    <3> QED BY <1>i, <2>1, <3>1, PublishedTexts DEF DraftInv, published
  <2>2. CASE /\ \E clean : Publish(clean)
             /\ draft' = draft /\ task.at \in {"review", "revise"}
             /\ UNCHANGED <<substantial, resumed, overwritten>>
    <3>1. task' = IdleTask /\ runStatus' # "queued" /\ markdown' \in {markdown, draft}
      BY <2>2 DEF Publish, published
    <3> QED BY <1>i, <1>c, <2>2, <3>1, IdleTaskFields DEF DraftInv
  <2> QED BY <1>7, <2>1, <2>2 DEF ReviewPublishes, Revised, messageVars, historyVars
<1>8. CASE Reverified
  <2>1. /\ task' = IdleTask /\ markdown # None /\ draft # None
        /\ UNCHANGED <<substantial, resumed>>
    BY <1>8, <1>i DEF Reverified, messageVars
  <2>o. overwritten => overwritten'
    BY <1>8 DEF Reverified, Candidate
  <2>2. \/ draft' = markdown /\ markdown' = markdown
        \/ draft' \in Candidate /\ markdown' = draft'
        \/ draft' = draft /\ markdown' = markdown
    BY <1>8 DEF Reverified, published
  <2> QED BY <1>i, <1>c, <2>1, <2>o, <2>2, PublishedTexts, IdleTaskFields DEF DraftInv
<1>9. CASE Interrupted
  <2>1. /\ task' = IdleTask /\ UNCHANGED <<draft, markdown, substantial, resumed, overwritten>>
        /\ (runStatus' # "queued" \/ task.at = "reverify")
    BY <1>9 DEF Interrupted, messageVars, published, historyVars
  <2> QED BY <1>i, <1>c, <2>1, IdleTaskFields DEF DraftInv
<1>10. CASE resume \/ approve_extension \/ continue_investigation
  BY <1>10, <1>i DEF resume, approve_extension, continue_investigation, Requeue, published, DraftInv
<1>11. CASE deny_extension \/ retry_report_verification
  <2>1. PICK at \in {"denial", "reverify"} :
          /\ task' = [IdleTask EXCEPT !.at = at] /\ (at = "reverify" => markdown # None)
          /\ runStatus' # "queued"
    BY <1>11 DEF deny_extension, retry_report_verification, Begin
  <2>2. UNCHANGED <<draft, markdown, resumed, overwritten>>
    BY <1>11 DEF deny_extension, retry_report_verification, published, historyVars
  <2>3. task'.at = at /\ task'.candidate = None
    BY <2>1, IdleTaskFields DEF Task
  <2> QED BY <1>i, <1>c, <2>1, <2>2, <2>3 DEF DraftInv
<1>12. CASE recover_completed_report
  <2>1. /\ last \in Text /\ Finalize(last, FALSE) /\ overwritten' = TRUE /\ last # None
        /\ markdown' = markdown
    BY <1>0, <1>12 DEF recover_completed_report, published
  <2>2. task'.at = "review" /\ draft' = last
    BY <2>1, FinalizeEffect
  <2> QED BY <2>1, <2>2 DEF DraftInv
<1>13. CASE UNCHANGED turnsVars
  BY <1>13, <1>i DEF turnsVars, messageVars, published, historyVars, DraftInv
<1> QED
  BY <1>1, <1>2, <1>3, <1>4, <1>5, <1>6, <1>7, <1>8, <1>9, <1>10, <1>11, <1>12, <1>13
  DEF TurnsNext, Turn

\* A run that was never resumed and whose draft the loop or the review judged
\* publishes a long text that is no request the policy allows, or the notice of a
\* denial, never a checkpoint or a bare marker (_finalize).
THEOREM ReverseTurnsOnlyReportsPublished == TurnsSpec => []OnlyReportsPublished
<1>1. TurnsTypeOK /\ DraftInv => OnlyReportsPublished
  BY DEF DraftInv, OnlyReportsPublished, Published, TurnsTypeOK
<1> QED BY <1>1, InitType, TypeStep, InitDraft, DraftStep, PTL DEF TurnsSpec

-----------------------------------------------------------------------------
(* A task comes to its end. *)

\* A turn weighs more than what is left to do in it.
LEMMA RankArithmetic ==
  ASSUME NEW u \in Nat, NEW m \in Nat, NEW v \in Nat, NEW l \in 0 .. 5, NEW k \in 0 .. 5,
         v = u + 1 \/ (v = u /\ k < l)
  PROVE  8 * (m - v) + k < 8 * (m - u) + l
OBVIOUS

\* Whatever a task at work does, it is nearer to its end.
LEMMA RankStep ==
  ASSUME TurnsTypeOK, TurnsTypeOK', TurnsNext, Working, Working'
  PROVE  Rank' < Rank
<1>0. task \in Task /\ used \in Nat /\ max \in Nat /\ used' \in Nat /\ max' \in Nat
  BY DEF TurnsTypeOK
<1>w. task.at # "idle" /\ task'.at # "idle"
  BY DEF Working
<1> DEFINE Left == IF task.at = "tool" \/ task.at = "denial" THEN 5
          ELSE IF task.at = "review" THEN IF task.pass = 1 THEN 4 ELSE 2
          ELSE IF task.at = "revise" THEN 3 ELSE 0
<1>r. Rank = 8 * (max - used) + Left /\ Rank' = 8 * (max' - used') + Left'
  BY DEF Rank
<1>l. Left \in 0 .. 5 /\ Left' \in 0 .. 5
  OBVIOUS
<1>a. ASSUME max' = max, used' = used + 1
      PROVE  Rank' < Rank
  <2> HIDE DEF Left
  <2> QED BY <1>0, <1>a, <1>r, <1>l, RankArithmetic
<1>b. ASSUME max' = max, used' = used, Left' < Left
      PROVE  Rank' < Rank
  <2> HIDE DEF Left
  <2> QED BY <1>0, <1>b, <1>r, <1>l, RankArithmetic
<1>1. CASE NothingToRun \/ RejectedRequest \/ Completed \/ \E o \in Op : Refused(o) \/ Execute(o)
  BY <1>1, <1>a DEF NothingToRun, RejectedRequest, Completed, Refused, Execute, Requested, ModelAnswered
<1>2. CASE Executed
  <2> DEFINE locals == [task EXCEPT !.executed = @ \cup {task.op}, !.op = None]
  <2>1. task.at = "tool" /\ LoopHead(used, locals) /\ UNCHANGED <<used, max>>
    BY <1>2 DEF Executed
  <2>2. locals \in Task
    BY <1>0, <2>1 DEF TurnsTypeOK, Task
  <2> HIDE DEF locals
  <2>3. task'.at = "provider"
    BY <1>w, <2>1, <2>2, LoopHeadEffect
  <2> QED BY <1>b, <2>1, <2>3
<1>3. CASE DenialAnswered
  <2>1. PICK text, forced : Finalize(text, forced)
    BY <1>3 DEF DenialAnswered
  <2>2. task'.at = "review" /\ task'.pass = 1
    BY <2>1 DEF Finalize, IdleTask
  <2>3. task.at = "denial" /\ UNCHANGED <<used, max>>
    BY <1>3 DEF DenialAnswered
  <2> QED BY <1>b, <2>2, <2>3
<1>4. CASE ReviewContinues
  <2>1. task.at = "review" /\ LoopHead(used, Rebuilt) /\ UNCHANGED <<used, max>>
    BY <1>4 DEF ReviewContinues
  <2>2. task'.at = "provider"
    BY <1>w, <2>1, RebuiltFields, LoopHeadEffect
  <2> QED BY <1>b, <2>1, <2>2
<1>5. CASE ReviewRevises
  <2>1. /\ task.at = "review" /\ task.pass = 1 /\ task' = [task EXCEPT !.at = "revise"]
        /\ UNCHANGED <<used, max>>
    BY <1>5 DEF ReviewRevises
  <2>2. task'.at = "revise"
    BY <1>0, <2>1 DEF Task
  <2> QED BY <1>b, <2>1, <2>2
<1>6. CASE Revised
  <2>1. /\ task.at = "revise" /\ task' = [task EXCEPT !.at = "review", !.pass = 2]
        /\ UNCHANGED <<used, max>>
    BY <1>6, <1>w, IdleTaskFields DEF Revised, Publish
  <2>2. task'.at = "review" /\ task'.pass = 2
    BY <1>0, <2>1 DEF Task
  <2> QED BY <1>b, <2>1, <2>2
<1>7. CASE ReviewPublishes \/ Reverified \/ Interrupted
  BY <1>7, <1>w, IdleTaskFields DEF ReviewPublishes, Reverified, Interrupted, Publish
<1>8. CASE RunBegins \/ resume \/ approve_extension \/ continue_investigation \/ deny_extension
           \/ retry_report_verification \/ recover_completed_report
  BY <1>8 DEF RunBegins, resume, approve_extension, continue_investigation, deny_extension,
       retry_report_verification, recover_completed_report, Begin
<1> QED
  BY <1>1, <1>2, <1>3, <1>4, <1>5, <1>6, <1>7, <1>8 DEF TurnsNext, Turn

\* No task of a run works for ever: every await of _run and _finalize is paid by a turn
\* or by one of the two passes of the review.
THEOREM ReverseTurnsTaskRunsDown == TurnsSpec => TaskRunsDown
<1>1. TurnsTypeOK /\ TurnsTypeOK' /\ [TurnsNext]_turnsVars => [Working /\ Working' => Rank' < Rank]_turnsVars
  BY RankStep
<1> QED BY <1>1, InitType, TypeStep, PTL DEF TurnsSpec, TaskRunsDown

================================================================================

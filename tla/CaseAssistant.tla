---------------------------- MODULE CaseAssistant ----------------------------
(***************************************************************************)
(* The assistant of one case: the AI analysis (llm/orchestrator.py,        *)
(* started by api/analysis_router.py), the chat with its tools             *)
(* (llm/tools.py) and its running memo, beside the routes that change the  *)
(* findings meanwhile.                                                     *)
(*                                                                         *)
(* Analysis and chat await a language model again and again while they     *)
(* hold a database session.  The session gives the same object for a row   *)
(* as long as the object is referenced and does not read it again, so each *)
(* of them carries a view: the rows it loaded, as they were then.  Other   *)
(* sessions commit between any two awaits.  The analysis runs in the slot  *)
(* of the case and so beside no detection; chat takes no slot.  The model  *)
(* is the environment: its answers are arbitrary.                          *)
(***************************************************************************)
EXTENDS Integers, FiniteSets, FiniteSetsExt, Functions, Sequences

CONSTANTS
  Detected,   \* the findings detectors may add
  Written,    \* the findings the analyst may write
  Proposed,   \* the findings the model may propose
  Same,       \* the pairs _semantically_matches relates
  Keep,       \* MEMO_KEEP_RAW: the newest messages that are never summarised
  Fit,        \* how many messages a prompt of _update_chat_memo surely holds:
              \* each is cut to 800 characters and all of them to 12000
  MaxTools,   \* BOUND: chat_max_tool_calls
  Limits      \* BOUND: what a behaviour is limited to: the sockets that chat,
              \* the ids of findings, the messages of the chat, the findings an
              \* analyst writes or marks, the benign marks at a time

ASSUME AssistantConstants ==
  /\ IsFiniteSet(Detected) /\ IsFiniteSet(Proposed)
  /\ Detected \cap Written = {} /\ Proposed \cap (Detected \cup Written) = {}
  /\ Same \subseteq (Detected \cup Written \cup Proposed) \X Proposed
  /\ Keep \in Nat \ {0} /\ Fit \in Nat \ {0} /\ MaxTools \in Nat
  /\ \A limit \in Limits : limit.ids \in Nat /\ limit.messages \in Nat

VARIABLES
  limit,    \* BOUND: the member of Limits this behaviour keeps to
  finding,  \* the findings table: row id -> record
  items,    \* case_meta manual_findings, in the order they were written
  marks,    \* case_meta benign_findings and disabled_rules
  fed,      \* evidence was ingested
  job,      \* the analysis task
  running,  \* _analysis_running
  status,   \* of the case in the registry
  report,   \* the latest report
  chat,     \* the chat session: [exists, memo, upto]
  history,  \* the ids of the messages stored for the chat
  turn      \* what each socket is doing

findingVars == <<limit, finding, items, marks, fed>>
analysisVars == <<job, running, status, report>>
chatVars == <<limit, chat, history, turn>>
vars == <<findingVars, analysisVars, chatVars>>

NoVerdict == "none"
Nothing == [i \in {} |-> i]
NoJob == [at |-> "none"]
Idle == [at |-> "idle"]
NoReport == [exists |-> FALSE, current |-> FALSE]

\* What a memo is about: the messages the model was given when it was written,
\* and those that were cut off, of which it never saw anything.
NoMemo == [given |-> {}, cut |-> {}]
About(memo) == memo.given \cup memo.cut

Init ==
  /\ limit \in Limits
  /\ finding = Nothing /\ items = << >> /\ marks = {} /\ fed = FALSE
  /\ job = NoJob /\ running = FALSE /\ status = "ready" /\ report = NoReport
  /\ chat = [exists |-> TRUE, memo |-> NoMemo, upto |-> 0]
  /\ history = {} /\ turn = [c \in limit.clients |-> Idle]

-----------------------------------------------------------------------------
Fits ==
  DOMAIN finding' \subseteq 1 .. limit.ids /\ Cardinality(marks') <= limit.marks  \* BOUND

(* Rows: the finding a row was written for (its title), the evidence it      *)
(* carries now, whether it is suppressed, and the verdict of the model.      *)

NewRow(w) == [what |-> w, evidence |-> w, suppressed |-> FALSE, verdict |-> NoVerdict]

(* SQLite gives the ids after the largest in use. *)
Inserted(rows, new) ==
  LET top == Max(DOMAIN rows \cup {0})
  IN [i \in DOMAIN rows \cup (top + 1 .. top + Len(new)) |->
        IF i \in DOMAIN rows THEN rows[i] ELSE NewRow(new[i - top])]

(* What a session keeps of the rows it loads: verdicts are of no concern. *)
Loaded(rows) == [i \in DOMAIN rows |-> [rows[i] EXCEPT !.verdict = NoVerdict]]

(* What a session sees of the table when it holds the objects of view. *)
Seen(view) == [i \in DOMAIN finding |-> IF i \in DOMAIN view THEN view[i] ELSE Loaded(finding)[i]]

(* finding_key: title and entity *)
MarkOf(row) == <<row.what, row.evidence>>

(* apply_overrides in a session that holds view: a changed object is written
   to the row of its id, severity and evidence both. *)
ApplyOverrides(rows, view, suppress) ==
  [i \in DOMAIN rows |->
     LET seen == IF i \in DOMAIN view THEN view[i] ELSE rows[i]
     IN IF (MarkOf(seen) \in suppress) # seen.suppressed
        THEN [rows[i] EXCEPT !.evidence = seen.evidence, !.suppressed = ~seen.suppressed]
        ELSE rows[i]]

(* apply_manual_findings: the rows of the analyst are deleted and written again. *)
ApplyManual(rows, written) ==
  Inserted(Restrict(rows, {i \in DOMAIN rows : rows[i].what \notin Written}), written)

(* An override changed (_bump_suppression_revision): a report stored before is
   shown as stale. *)
Outdate == report' = [report EXCEPT !.current = FALSE] /\ UNCHANGED job

-----------------------------------------------------------------------------
(* Detection, in the slot of the case. *)

(* Mutant: Detection runs beside an analysis. *)
DetectBeside(new, rebuild) ==
  LET rows == ApplyManual(Inserted(IF rebuild THEN Nothing ELSE finding, new), items)
  IN  /\ \A k \in DOMAIN new : rebuild \/ \A i \in DOMAIN finding : finding[i].what # new[k]
      /\ finding' = ApplyOverrides(rows, Nothing, marks)
      /\ fed' = TRUE
      /\ UNCHANGED <<items, marks, analysisVars, chatVars>>
      /\ Fits

(* A rebuild writes the table anew, AI findings go; a plain run adds to it. *)
Detect(new, rebuild) ==
  LET before == IF rebuild THEN Nothing ELSE finding
      known == {before[i].what : i \in DOMAIN before}
      rows == ApplyManual(Inserted(before, new), items)
  IN  /\ job.at \in {"none", "queued"}
      /\ \A k \in DOMAIN new : new[k] \notin known
      /\ finding' = ApplyOverrides(rows, Nothing, marks)
      /\ fed' = TRUE
      /\ UNCHANGED <<items, marks, analysisVars, chatVars>>
      /\ Fits

(* The analyst's routes, at any time. *)
SetBenign(i, benign) ==
  /\ i \in DOMAIN finding /\ finding[i].what \in limit.marked
  /\ LET row == finding[i]
         rows == IF row.what \in Written THEN ApplyManual(finding, items) ELSE finding
     IN  /\ (MarkOf(row) \in marks) # benign
         /\ marks' = IF benign THEN marks \cup {MarkOf(row)} ELSE marks \ {MarkOf(row)}
         /\ finding' = ApplyOverrides(rows, Nothing, marks')
  /\ Outdate /\ Fits
  /\ UNCHANGED <<items, fed, running, status, chatVars>>

SetItems(written) ==
  /\ items' = written
  /\ finding' = ApplyOverrides(ApplyManual(finding, written), Nothing, marks)
  /\ UNCHANGED <<marks, fed, analysisVars, chatVars>>
  /\ Fits

AddManual(m) == fed /\ m \notin Range(items) /\ SetItems(Append(items, m))
RemoveManual(m) ==
  \E k \in DOMAIN items :
    items[k] = m /\ SetItems(SubSeq(items, 1, k - 1) \o SubSeq(items, k + 1, Len(items)))

-----------------------------------------------------------------------------
(* The AI analysis.  Its view of a row lasts from the first load to the end. *)

start_analysis ==
  /\ ~running
  /\ running' = TRUE /\ job' = [at |-> "queued"]
  /\ UNCHANGED <<findingVars, status, report, chatVars>>

(* Mutant: only a successful analysis leaves the set of running ones. *)
EndKeepingRunning(newStatus) == job' = NoJob /\ status' = newStatus /\ running' = (running /\ newStatus = "error")

(* The task of start_analysis ends; its finally clause runs on every path. *)
End(newStatus) == job' = NoJob /\ status' = newStatus /\ running' = FALSE

(* No evidence: the model is not asked. *)
NotAssessed ==
  /\ job.at = "queued" /\ ~fed
  /\ report' = [exists |-> TRUE, current |-> TRUE]
  /\ End("ready")
  /\ UNCHANGED <<findingVars, chatVars>>

AnalysisBegins ==
  /\ job.at = "queued" /\ fed
  /\ status' = "analyzing"
  /\ job' = [at |-> "correlating", view |-> Loaded(finding)]
  /\ UNCHANGED <<findingVars, running, report, chatVars>>

(* The tools of the correlation only read; then the findings are read again. *)
Correlated ==
  /\ job.at = "correlating"
  /\ job' = [at |-> "extracting", view |-> Seen(job.view)]
  /\ UNCHANGED <<findingVars, running, status, report, chatVars>>

Repeats(w, known) == w \in known \/ \E k \in known : <<k, w>> \in Same

(* Of an answer, in whatever order, each finding that repeats none before it. *)
Distinct(kept, answer, known) ==
  /\ kept \subseteq answer
  /\ \A w \in kept : ~Repeats(w, known \cup (kept \ {w}))
  /\ \A w \in answer \ kept : Repeats(w, known \cup kept)

(* _extract_ai_findings; a useless answer or an error gives no findings. *)
Extracted(answer) ==
  /\ job.at = "extracting"
  /\ \E new \in {s \in UNION {[1 .. n -> answer] : n \in 0 .. Cardinality(answer)} :
                   /\ Cardinality(Range(s)) = Len(s)
                   /\ Distinct(Range(s), answer, {job.view[i].what : i \in DOMAIN job.view})} :
       LET rows == Inserted(finding, new)
           added == Restrict(rows, DOMAIN rows \ DOMAIN finding)
           \* read again only when something was added
           view == IF new = << >> THEN job.view
                   ELSE [i \in DOMAIN rows |-> IF i \in DOMAIN added THEN added[i]
                           ELSE Seen(job.view)[i]]
       IN  /\ finding' = rows
           /\ job' = [at |-> "reporting", view |-> view,
                      active |-> {i \in DOMAIN view : MarkOf(view[i]) \notin marks}]
  /\ UNCHANGED <<items, marks, fed, running, status, report, chatVars>>
  /\ Fits

(* The verdicts of the report package, one UPDATE by id each. *)
StoreVerdicts(rows, verdict) ==
  [i \in DOMAIN rows |-> IF i \in verdict THEN [rows[i] EXCEPT !.verdict = job.view[i].what] ELSE rows[i]]

(* A row that is gone makes the flush fail, and with it the analysis. *)
Reported(verdict) ==
  /\ job.at = "reporting" /\ verdict \subseteq job.active
  /\ IF verdict \subseteq DOMAIN finding
     THEN /\ finding' = StoreVerdicts(finding, verdict)
          /\ job' = [job EXCEPT !.at = "storing"]
          /\ UNCHANGED <<running, status>>
     ELSE End("error") /\ UNCHANGED finding
  /\ UNCHANGED <<items, marks, fed, report, chatVars>>

(* The revision the report is stored with is read now. *)
Stored ==
  /\ job.at = "storing"
  /\ report' = [exists |-> TRUE, current |-> TRUE]
  /\ End("ready")
  /\ UNCHANGED <<findingVars, chatVars>>

ProviderFails ==
  /\ job.at \in {"correlating", "reporting"}
  /\ End("error")
  /\ UNCHANGED <<findingVars, report, chatVars>>

AnalysisStep ==
  \/ NotAssessed \/ AnalysisBegins \/ Correlated \/ Stored \/ ProviderFails
  \/ \E answer \in SUBSET Proposed : Extracted(answer)
  \/ \E verdict \in SUBSET (1 .. limit.ids) : Reported(verdict)

-----------------------------------------------------------------------------
(* The chat.  A turn holds the session row and all findings as it loaded them,
   of which only a turn that may suppress makes use. *)

Step(c, record) == turn' = [turn EXCEPT ![c] = record]

TurnBegins(c, explicit) ==
  /\ turn[c].at = "idle" /\ chat.exists
  /\ Step(c, [at |-> "gathering", explicit |-> explicit, left |-> MaxTools,
              view |-> IF explicit THEN Loaded(finding) ELSE Nothing, memo |-> chat.memo, upto |-> chat.upto])
  /\ UNCHANGED <<findingVars, analysisVars, chat, history>>

(* run_tool_loop, a task of its own: the model names a tool until it answers or
   has named enough, also when the socket that asked is gone. *)
MayCall(c) == turn[c].at \in {"gathering", "orphaned"} /\ turn[c].left > 0

(* A tool that reads; unknown tools and failing ones answer with an error. *)
ReadTool(c) ==
  /\ MayCall(c)
  /\ Step(c, [turn[c] EXCEPT !.left = @ - 1])
  /\ UNCHANGED <<findingVars, analysisVars, chat, history>>

(* _suppress_finding, only when the question asked for it: not for a finding
   the analyst wrote, and with a record of the case to refer to. *)
SuppressTool(c, i) ==
  LET view == turn[c].view
      row == IF i \in DOMAIN view THEN view[i] ELSE finding[i]
  IN  /\ MayCall(c) /\ turn[c].explicit
      /\ i \in DOMAIN view \cup DOMAIN finding
      /\ row.what \notin Written /\ fed
      /\ marks' = marks \cup {MarkOf(row)}
      /\ finding' = ApplyOverrides(finding, view, marks')
      /\ Step(c, [turn[c] EXCEPT !.left = @ - 1,
                    !.view = [k \in DOMAIN @ |-> IF k \in DOMAIN finding
                                THEN [@[k] EXCEPT !.suppressed = MarkOf(view[k]) \in marks'] ELSE @[k]]])
      /\ Fits
      /\ IF marks' = marks THEN UNCHANGED <<job, report>> ELSE Outdate
      /\ UNCHANGED <<limit, items, fed, running, status, chat, history>>

NextId(h) == 1 + Max(h \cup {0})

(* save_chat: the session row is updated with the message, so that the flush
   fails when the chat is gone by now. *)
SaveChat(c, goOn) ==
  IF chat.exists THEN history' = history \cup {NextId(history)} /\ goOn
                 ELSE UNCHANGED history /\ Step(c, Idle)

(* The tool loop is over; the question is stored before it is answered. *)
Asks(c) ==
  /\ turn[c].at = "gathering" /\ NextId(history) <= limit.messages
  /\ SaveChat(c, Step(c, [at |-> "answering", memo |-> turn[c].memo, upto |-> turn[c].upto]))
  /\ UNCHANGED <<findingVars, analysisVars, chat>>

(* Messages that a memo lacks, without the newest. *)
Unfolded(upto, h) ==
  LET later == {i \in h : i > upto}
  IN {i \in later : Cardinality({k \in later : k > i}) >= Keep}

(* The answer is stored; _update_chat_memo asks the model for a new memo when
   the messages are long enough. *)
Answered(c) ==
  LET h == history \cup {NextId(history)}
      rest == Unfolded(turn[c].upto, h)
  IN  /\ turn[c].at = "answering" /\ NextId(history) <= limit.messages
      /\ \/ SaveChat(c, Step(c, Idle))
         \/ /\ rest # {}
            /\ SaveChat(c, Step(c, [at |-> "folding", memo |-> turn[c].memo, rest |-> rest]))
      /\ UNCHANGED <<findingVars, analysisVars, chat>>

(* What a prompt holds of the messages that are due: the oldest of them, all
   when they are few. *)
Prompts(rest) ==
  {given \in SUBSET rest \ {{}} :
     /\ \A i \in given, k \in rest : k < i => k \in given
     /\ given = rest \/ Cardinality(given) >= Fit}

MemoWith(memo, given, cut) == [given |-> memo.given \cup given, cut |-> memo.cut \cup cut]

(* Mutant: The memo is joined with what another turn stored meanwhile. *)
FoldedInto(c, given) ==
  [chat EXCEPT !.memo = MemoWith(@, given, turn[c].rest \ given), !.upto = Max(turn[c].rest)]

(* Memo and cursor as this turn knew them, with the messages it read: the
   cursor moves behind them all, those that were cut off included. *)
Folded(c, given) ==
  [chat EXCEPT !.memo = MemoWith(turn[c].memo, given, turn[c].rest \ given), !.upto = Max(turn[c].rest)]

MemoUpdated(c) ==
  /\ turn[c].at = "folding"
  /\ IF chat.exists THEN \E given \in Prompts(turn[c].rest) : chat' = Folded(c, given)
                    ELSE chat' = chat
  /\ Step(c, Idle)
  /\ UNCHANGED <<findingVars, analysisVars, history>>

(* The provider fails or the client is gone: the session is closed and lets go
   of its objects, but the task that calls the tools goes on with it, which
   matters when it may suppress. *)
TurnLost(c) ==
  /\ turn[c].at # "idle"
  /\ \/ Step(c, Idle)
     \/ /\ turn[c].at = "gathering" /\ turn[c].explicit /\ turn[c].left > 0
        /\ Step(c, [turn[c] EXCEPT !.at = "orphaned", !.view = Nothing])
  /\ UNCHANGED <<findingVars, analysisVars, chat, history>>

delete_chat ==
  /\ chat.exists
  /\ chat' = [exists |-> FALSE, memo |-> NoMemo, upto |-> 0]
  /\ history' = {}
  /\ UNCHANGED <<findingVars, analysisVars, turn>>

TurnStep(c) ==
  \/ ReadTool(c) \/ Asks(c) \/ Answered(c) \/ MemoUpdated(c) \/ TurnLost(c)
  \/ \E i \in 1 .. limit.ids : SuppressTool(c, i)

-----------------------------------------------------------------------------
Next ==
  \/ \E new \in UNION {[1 .. n -> Detected] : n \in 0 .. Cardinality(Detected)}, rebuild \in BOOLEAN :
       Cardinality(Range(new)) = Len(new) /\ Detect(new, rebuild)
  \/ \E i \in 1 .. limit.ids, b \in BOOLEAN : SetBenign(i, b)
  \/ \E m \in Written \cap limit.marked : AddManual(m) \/ RemoveManual(m)
  \/ start_analysis \/ AnalysisStep
  \/ \E c \in limit.clients : TurnStep(c) \/ \E explicit \in BOOLEAN : TurnBegins(c, explicit)
  \/ delete_chat

Spec == Init /\ [][Next]_vars

(* The model answers, or the call to it fails; the event loop goes on. *)
Fairness == WF_vars(AnalysisStep)
FairSpec == Spec /\ Fairness

-----------------------------------------------------------------------------
(* A verdict of the model stands in the row of the finding it was given for,
   whatever was added or rewritten while the model was asked, unless that row
   is the analyst's, whose rows change their ids (orchestrator.py:598). *)
VerdictsOnTheirFindings ==
  \A i \in DOMAIN finding : finding[i].what \notin Written => finding[i].verdict \in {NoVerdict, finding[i].what}

(* The memo is about the messages up to its cursor and about no others, though
   turns of two sockets write both from what they read earlier: each of them
   was given to the model or fell to the cut of the one compaction it was due
   in, and none is passed over otherwise or comes back (orchestrator.py:881). *)
MemoMatchesCursor ==
  /\ About(chat.memo) = {i \in history : i <= chat.upto}
  /\ chat.memo.given \cap chat.memo.cut = {}

(* An analysis that was asked for ends and can be asked for again, whatever
   the model, the analyst and the chat do meanwhile (analysis_router.py:76). *)
AnalysisEnds == running ~> ~running

=============================================================================

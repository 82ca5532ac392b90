----------------------- MODULE EvidencePipelineProofs ------------------------
(***************************************************************************)
(* Two levels.  First the coordinator, for any set of operations: the      *)
(* inductive invariant CoordInv, the properties that follow from it, and   *)
(* that the coordinator implements CaseMutex.                              *)
(*                                                                         *)
(* Then the pipeline that runs in its slot, for any number of requests and *)
(* files: the slot is exclusive, owed rebuilds are not dropped, a deleted  *)
(* case stays empty, and, as long as the backend does not crash, rows,     *)
(* findings and files stay consistent through every failure.  At the end   *)
(* what a case at rest is: assessed if it is ready, and not busy.          *)
(*                                                                         *)
(* PipelineInv is inductive.  Its CoordInv part comes from the first level *)
(* (CoordKept); the other parts are preserved because the body that moves  *)
(* is the only one inside the slot (SlotIsExclusive), so each part has to  *)
(* be looked at only for the actions its frame lemma names.                *)
(***************************************************************************)
EXTENDS EvidencePipeline, TLAPS

-----------------------------------------------------------------------------
(* The coordinator. *)

(***************************************************************************)
(* Removing a waiter from a queue without repetitions closes the gap it    *)
(* leaves and keeps the order of the others.                               *)
(***************************************************************************)
LEMMA WithoutFacts ==
  ASSUME NEW s \in Seq(Task), NEW k \in 1 .. Len(s),
         \A i, j \in 1 .. Len(s) : s[i] = s[j] => i = j
  PROVE  /\ Without(s, s[k]) \in Seq(Task)
         /\ Len(Without(s, s[k])) = Len(s) - 1
         /\ \A j \in 1 .. Len(s) - 1 :
              Without(s, s[k])[j] = IF j < k THEN s[j] ELSE s[j + 1]
<1> DEFINE i == CHOOSE j \in 1 .. Len(s) : s[j] = s[k]
           w == [j \in 1 .. Len(s) - 1 |-> IF j < i THEN s[j] ELSE s[j + 1]]
<1>1. i = k
  <2>1. \E j \in 1 .. Len(s) : s[j] = s[k]
    OBVIOUS
  <2>2. i \in 1 .. Len(s) /\ s[i] = s[k]
    BY <2>1
  <2> QED
    BY <2>2
<1>2. Without(s, s[k]) = w
  BY DEF Without
<1>3. Len(s) \in Nat /\ Len(s) - 1 \in Nat
  OBVIOUS
<1>4. \A j \in 1 .. Len(s) - 1 : s[j] \in Task /\ s[j + 1] \in Task
  BY <1>3
<1>5. w \in [1 .. Len(s) - 1 -> Task]
  BY <1>4
<1>6. w \in Seq(Task) /\ Len(w) = Len(s) - 1
  BY <1>3, <1>5
<1> QED
  BY <1>1, <1>2, <1>6

(***************************************************************************)
(* Passing the wake-up on changes at most the future of the first waiter,  *)
(* and that one is done afterwards.                                        *)
(***************************************************************************)
LEMMA WakeFirstFacts ==
  ASSUME NEW ws \in Seq(Task), NEW f \in [Task -> FutureState]
  PROVE  /\ WakeFirst(ws, f) \in [Task -> FutureState]
         /\ \A t \in Task : /\ WakeFirst(ws, f)[t] = "none" <=> f[t] = "none"
                            /\ WakeFirst(ws, f)[t] \in {f[t], "woken"}
                            /\ WakeFirst(ws, f)[t] # f[t] => Len(ws) > 0 /\ t = ws[1]
         /\ Len(ws) > 0 => WakeFirst(ws, f)[ws[1]] # "pending"
<1>1. Len(ws) > 0 => ws[1] \in Task
  OBVIOUS
<1> QED
  BY <1>1 DEF WakeFirst, FutureState

LEMMA InitEstablishesInv == CoordInit => CoordInv
<1> SUFFICES ASSUME CoordInit
             PROVE  CoordInv
  OBVIOUS
<1> USE DEF CoordInit
<1>1. CoordTypeOK
  <2>1. waiters \in Seq(Task)
    OBVIOUS
  <2>2. fut \in [Task -> FutureState]
    BY DEF FutureState
  <2>3. pc \in [Task -> {"idle", "waiting", "holding"}]
    OBVIOUS
  <2> QED
    BY <2>1, <2>2, <2>3 DEF CoordTypeOK
<1>2. OneOperation
  BY NoTaskAssumption DEF OneOperation, Holders
<1>3. Len(waiters) = 0
  OBVIOUS
<1>4. NoLostWakeup /\ QueuedNeverOverCounts
  BY <1>3 DEF NoLostWakeup, QueuedNeverOverCounts
<1>5. QueueShape
  BY <1>3 DEF QueueShape
<1> QED
  BY <1>1, <1>2, <1>4, <1>5 DEF CoordInv

LEMMA AcquireNowKeepsInv ==
  ASSUME CoordInv, NEW t \in Task, AcquireNow(t)
  PROVE  CoordInv'
<1> USE DEF CoordInv, CoordTypeOK, AcquireNow, Enter, Uncount
<1>1. CoordTypeOK'
  OBVIOUS
<1>2. OneOperation'
  BY NoTaskAssumption DEF OneOperation, Holders, FastPath
<1>3. NoLostWakeup'
  BY DEF NoLostWakeup
<1>4. QueuedNeverOverCounts'
  BY DEF QueuedNeverOverCounts
<1>5. QueueShape'
  BY DEF QueueShape, FastPath, FutureState
<1> QED
  BY <1>1, <1>2, <1>3, <1>4, <1>5

LEMMA JoinQueueKeepsInv ==
  ASSUME CoordInv, NEW t \in Task, JoinQueue(t)
  PROVE  CoordInv'
<1> USE DEF CoordInv, CoordTypeOK, JoinQueue
<1>1. /\ Len(waiters') = Len(waiters) + 1
      /\ \A i \in 1 .. Len(waiters) : waiters'[i] = waiters[i] /\ waiters[i] \in Task
      /\ waiters'[Len(waiters) + 1] = t
      /\ Len(waiters) \in Nat
  OBVIOUS
<1>2. \A i \in 1 .. Len(waiters) : waiters[i] # t
  BY DEF QueueShape
<1>3. CoordTypeOK'
  BY DEF FutureState
<1>4. OneOperation'
  BY DEF OneOperation, Holders
<1>5. NoLostWakeup'
  <2> SUFFICES ASSUME ~locked
               PROVE  fut'[waiters'[1]] # "pending"
    BY DEF NoLostWakeup
  <2>1. Len(waiters) > 0
    BY DEF FastPath
  <2> QED
    BY <1>1, <1>2, <2>1 DEF NoLostWakeup
<1>6. QueuedNeverOverCounts'
  BY <1>1 DEF QueuedNeverOverCounts
<1>7. QueueShape'
  <2>1. \A i, j \in 1 .. Len(waiters') : waiters'[i] = waiters'[j] => i = j
    BY <1>1, <1>2 DEF QueueShape
  <2>2. \A s \in Task :
          pc'[s] = "waiting" <=> \E i \in 1 .. Len(waiters') : waiters'[i] = s
    <3> SUFFICES ASSUME NEW s \in Task
                 PROVE  pc'[s] = "waiting" <=> \E i \in 1 .. Len(waiters') : waiters'[i] = s
      OBVIOUS
    <3>1. CASE s = t
      BY <1>1, <3>1
    <3>2. CASE s # t
      BY <1>1, <3>2 DEF QueueShape
    <3> QED
      BY <3>1, <3>2
  <2>3. \A s \in Task : pc'[s] = "waiting" <=> fut'[s] # "none"
    BY DEF QueueShape
  <2>4. \A i \in 1 .. Len(waiters') :
          fut'[waiters'[i]] \in {"woken", "doomed"} => i = 1 /\ ~locked'
    BY <1>1, <1>2 DEF QueueShape
  <2> QED
    BY <2>1, <2>2, <2>3, <2>4 DEF QueueShape
<1> QED
  BY <1>3, <1>4, <1>5, <1>6, <1>7

LEMMA ResumeKeepsInv ==
  ASSUME CoordInv, NEW t \in Task, Resume(t)
  PROVE  CoordInv'
<1> USE DEF CoordInv, CoordTypeOK, Resume, Enter
<1>1. /\ Len(waiters) > 0
      /\ waiters[1] = t
      /\ ~locked
  BY DEF QueueShape
<1>2. /\ waiters' \in Seq(Task)
      /\ Len(waiters') = Len(waiters) - 1
      /\ \A j \in 1 .. Len(waiters) - 1 : waiters'[j] = waiters[j + 1]
  <2>1. 1 \in 1 .. Len(waiters)
    BY <1>1
  <2> QED
    BY <1>1, <2>1, WithoutFacts DEF QueueShape
<1>3. CoordTypeOK'
  BY <1>2 DEF Uncount, FutureState
<1>4. OneOperation'
  BY <1>1, NoTaskAssumption DEF OneOperation, Holders
<1>5. NoLostWakeup'
  BY DEF NoLostWakeup
<1>6. QueuedNeverOverCounts'
  BY <1>1, <1>2 DEF QueuedNeverOverCounts, Uncount
<1>7. QueueShape'
  <2>1. \A i, j \in 1 .. Len(waiters') : waiters'[i] = waiters'[j] => i = j
    BY <1>2 DEF QueueShape
  <2>2. \A s \in Task :
          pc'[s] = "waiting" <=> \E i \in 1 .. Len(waiters') : waiters'[i] = s
    <3> SUFFICES ASSUME NEW s \in Task
                 PROVE  pc'[s] = "waiting" <=> \E i \in 1 .. Len(waiters') : waiters'[i] = s
      OBVIOUS
    <3>1. CASE s = t
      BY <1>1, <1>2, <3>1 DEF QueueShape
    <3>2. CASE s # t
      <4>1. ASSUME pc'[s] = "waiting"
            PROVE  \E i \in 1 .. Len(waiters') : waiters'[i] = s
        <5>1. PICK i \in 1 .. Len(waiters) : waiters[i] = s
          BY <3>2, <4>1 DEF QueueShape
        <5>2. i - 1 \in 1 .. Len(waiters') /\ waiters'[i - 1] = s
          BY <1>1, <1>2, <3>2, <5>1
        <5> QED
          BY <5>2
      <4>2. ASSUME NEW i \in 1 .. Len(waiters'), waiters'[i] = s
            PROVE  pc'[s] = "waiting"
        BY <1>2, <3>2, <4>2 DEF QueueShape
      <4> QED
        BY <4>1, <4>2
    <3> QED
      BY <3>1, <3>2
  <2>3. \A s \in Task : pc'[s] = "waiting" <=> fut'[s] # "none"
    BY DEF QueueShape
  <2>4. \A i \in 1 .. Len(waiters') :
          fut'[waiters'[i]] \in {"woken", "doomed"} => i = 1 /\ ~locked'
    BY <1>1, <1>2 DEF QueueShape
  <2> QED
    BY <2>1, <2>2, <2>3, <2>4 DEF QueueShape
<1> QED
  BY <1>3, <1>4, <1>5, <1>6, <1>7

LEMMA RequestCancelKeepsInv ==
  ASSUME CoordInv, NEW t \in Task, RequestCancel(t)
  PROVE  CoordInv'
<1> USE DEF CoordInv, CoordTypeOK, RequestCancel
<1>1. CoordTypeOK'
  BY DEF FutureState
<1>2. OneOperation'
  BY DEF OneOperation, Holders
<1>3. NoLostWakeup'
  BY DEF NoLostWakeup
<1>4. QueuedNeverOverCounts'
  BY DEF QueuedNeverOverCounts
<1>5. QueueShape'
  BY DEF QueueShape
<1> QED
  BY <1>1, <1>2, <1>3, <1>4, <1>5

LEMMA UnwindCancelledKeepsInv ==
  ASSUME CoordInv, NEW t \in Task, UnwindCancelled(t)
  PROVE  CoordInv'
<1> DEFINE left == [fut EXCEPT ![t] = "none"]
<1>1. /\ waiters \in Seq(Task)
      /\ fut \in [Task -> FutureState]
      /\ pc \in [Task -> {"idle", "waiting", "holding"}]
      /\ \A i, j \in 1 .. Len(waiters) : waiters[i] = waiters[j] => i = j
  BY DEF CoordInv, CoordTypeOK, QueueShape
<1>2. /\ pc[t] = "waiting"
      /\ waiters' = Without(waiters, t)
      /\ fut' = IF locked THEN left ELSE WakeFirst(waiters', left)
      /\ pc' = [pc EXCEPT ![t] = "idle"]
      /\ locked' = locked /\ active' = active
  BY DEF UnwindCancelled, Unwind, WithoutFuture, PassedOn
<1>3. PICK k \in 1 .. Len(waiters) : waiters[k] = t
  BY <1>2 DEF CoordInv, QueueShape
<1>4. /\ waiters' \in Seq(Task)
      /\ Len(waiters') = Len(waiters) - 1
      /\ \A j \in 1 .. Len(waiters) - 1 :
           waiters'[j] = IF j < k THEN waiters[j] ELSE waiters[j + 1]
  <2>1. waiters' = Without(waiters, waiters[k])
    BY <1>2, <1>3
  <2> QED
    BY <1>1, <2>1, WithoutFacts
<1>5. left \in [Task -> FutureState]
  BY <1>1 DEF FutureState
<1>6. /\ fut' \in [Task -> FutureState]
      /\ \A s \in Task : /\ fut'[s] = "none" <=> left[s] = "none"
                         /\ fut'[s] \in {left[s], "woken"}
                         /\ fut'[s] # left[s] =>
                              ~locked /\ Len(waiters') > 0 /\ s = waiters'[1]
      /\ ~locked /\ Len(waiters') > 0 => fut'[waiters'[1]] # "pending"
  <2> HIDE DEF left
  <2>1. CASE locked
    BY <1>2, <1>5, <2>1
  <2>2. CASE ~locked
    <3>1. fut' = WakeFirst(waiters', left)
      BY <1>2, <2>2
    <3> QED
      BY <1>4, <1>5, <2>2, <3>1, WakeFirstFacts
  <2> QED
    BY <2>1, <2>2
<1>7. CoordTypeOK'
  <2>1. queued \in Nat /\ Uncount /\ locked \in BOOLEAN /\ active \in Task \cup {NoTask}
    BY DEF UnwindCancelled, Unwind, WithoutFuture, PassedOn, CoordInv, CoordTypeOK
  <2>2. queued' \in Nat
    BY <2>1 DEF Uncount
  <2>3. pc' \in [Task -> {"idle", "waiting", "holding"}]
    BY <1>1, <1>2
  <2>4. locked' \in BOOLEAN /\ active' \in Task \cup {NoTask}
    BY <1>2, <2>1
  <2> QED
    BY <1>4, <1>6, <2>2, <2>3, <2>4 DEF CoordTypeOK
<1>8. OneOperation'
  BY <1>1, <1>2 DEF CoordInv, OneOperation, Holders
<1>9. NoLostWakeup'
  BY <1>2, <1>6 DEF NoLostWakeup
<1>10. QueuedNeverOverCounts'
  BY <1>3, <1>4
     DEF UnwindCancelled, Unwind, WithoutFuture, PassedOn, CoordInv, CoordTypeOK,
         QueuedNeverOverCounts, Uncount
<1>11. QueueShape'
  <2>1. \A i, j \in 1 .. Len(waiters') : waiters'[i] = waiters'[j] => i = j
    <3> DEFINE from(i) == IF i < k THEN i ELSE i + 1
    <3>1. \A i \in 1 .. Len(waiters') :
            from(i) \in 1 .. Len(waiters) /\ waiters'[i] = waiters[from(i)]
      BY <1>1, <1>4
    <3>2. \A i, j \in 1 .. Len(waiters') : from(i) = from(j) => i = j
      BY <1>4
    <3> HIDE DEF from
    <3> QED
      BY <1>1, <3>1, <3>2
  <2>2. ASSUME NEW i \in 1 .. Len(waiters')
        PROVE  waiters'[i] # t
    <3>1. PICK j \in 1 .. Len(waiters) : waiters'[i] = waiters[j] /\ j # k
      <4> DEFINE j == IF i < k THEN i ELSE i + 1
      <4>1. j \in 1 .. Len(waiters) /\ j # k /\ waiters'[i] = waiters[j]
        BY <1>1, <1>4
      <4> QED
        BY <4>1
    <3> QED
      BY <1>1, <1>3, <3>1
  <2>3. \A s \in Task :
          pc'[s] = "waiting" <=> \E i \in 1 .. Len(waiters') : waiters'[i] = s
    <3> SUFFICES ASSUME NEW s \in Task
                 PROVE  pc'[s] = "waiting" <=> \E i \in 1 .. Len(waiters') : waiters'[i] = s
      OBVIOUS
    <3>1. CASE s = t
      BY <1>1, <1>2, <2>2, <3>1
    <3>2. CASE s # t
      <4>1. ASSUME pc'[s] = "waiting"
            PROVE  \E i \in 1 .. Len(waiters') : waiters'[i] = s
        <5>1. PICK i \in 1 .. Len(waiters) : waiters[i] = s
          BY <1>1, <1>2, <3>2, <4>1 DEF CoordInv, QueueShape
        <5>2. i # k
          BY <1>3, <3>2, <5>1
        <5>3. CASE i < k
          <6>1. i \in 1 .. Len(waiters') /\ waiters'[i] = s
            BY <1>1, <1>4, <5>1, <5>3
          <6> QED
            BY <6>1
        <5>4. CASE i > k
          <6>1. i - 1 \in 1 .. Len(waiters') /\ waiters'[i - 1] = s
            BY <1>1, <1>4, <5>1, <5>4
          <6> QED
            BY <6>1
        <5> QED
          BY <5>2, <5>3, <5>4
      <4>2. ASSUME NEW i \in 1 .. Len(waiters'), waiters'[i] = s
            PROVE  pc'[s] = "waiting"
        <5>1. \E j \in 1 .. Len(waiters) : waiters[j] = s
          <6>1. i \in 1 .. Len(waiters) /\ i + 1 \in 1 .. Len(waiters)
            BY <1>1, <1>4
          <6>2. waiters'[i] = IF i < k THEN waiters[i] ELSE waiters[i + 1]
            BY <1>4, <4>2
          <6> QED
            BY <4>2, <6>1, <6>2
        <5> QED
          BY <1>1, <1>2, <3>2, <5>1 DEF CoordInv, QueueShape
      <4> QED
        BY <4>1, <4>2
    <3> QED
      BY <3>1, <3>2
  <2>4. \A s \in Task : pc'[s] = "waiting" <=> fut'[s] # "none"
    <3>1. \A s \in Task : pc[s] = "waiting" <=> fut[s] # "none"
      BY DEF CoordInv, QueueShape
    <3>2. \A s \in Task : fut'[s] = "none" <=> s = t \/ fut[s] = "none"
      BY <1>1, <1>6
    <3>3. \A s \in Task : pc'[s] = "waiting" <=> s # t /\ pc[s] = "waiting"
      BY <1>1, <1>2
    <3> QED
      BY <3>1, <3>2, <3>3
  <2>5. \A i \in 1 .. Len(waiters') :
          fut'[waiters'[i]] \in {"woken", "doomed"} => i = 1 /\ ~locked'
    <3> SUFFICES ASSUME NEW i \in 1 .. Len(waiters'),
                        fut'[waiters'[i]] \in {"woken", "doomed"}
                 PROVE  i = 1 /\ ~locked'
      OBVIOUS
    <3>1. waiters'[i] \in Task
      BY <1>4
    <3>2. CASE fut'[waiters'[i]] = left[waiters'[i]]
      <4>1. fut[waiters'[i]] \in {"woken", "doomed"}
        BY <1>1, <2>2, <3>1, <3>2
      <4>2. PICK j \in 1 .. Len(waiters) : waiters[j] = waiters'[i] /\ j >= i /\ (j = i \/ j = i + 1)
        BY <1>1, <1>3, <1>4
      <4>3. j = 1 /\ ~locked
        BY <4>1, <4>2 DEF CoordInv, QueueShape
      <4> QED
        BY <1>2, <1>4, <4>2, <4>3
    <3>3. CASE fut'[waiters'[i]] # left[waiters'[i]]
      <4> HIDE DEF left
      <4>1. ~locked /\ waiters'[i] = waiters'[1] /\ Len(waiters') > 0
        BY <1>6, <3>1, <3>3
      <4>2. 1 \in 1 .. Len(waiters')
        BY <1>4, <4>1
      <4> QED
        BY <1>2, <2>1, <4>1, <4>2
    <3> QED
      BY <3>2, <3>3
  <2> QED
    BY <2>1, <2>3, <2>4, <2>5 DEF QueueShape
<1> QED
  BY <1>7, <1>8, <1>9, <1>10, <1>11 DEF CoordInv

LEMMA LeaveKeepsInv ==
  ASSUME CoordInv, NEW t \in Task, Leave(t)
  PROVE  CoordInv'
<1>1. /\ waiters \in Seq(Task)
      /\ fut \in [Task -> FutureState]
      /\ pc \in [Task -> {"idle", "waiting", "holding"}]
  BY DEF CoordInv, CoordTypeOK
<1>2. /\ pc[t] = "holding"
      /\ active' = NoTask
      /\ locked' = FALSE
      /\ fut' = WakeFirst(waiters, fut)
      /\ pc' = [pc EXCEPT ![t] = "idle"]
      /\ waiters' = waiters /\ queued' = queued
  BY DEF Leave
<1>3. /\ fut' \in [Task -> FutureState]
      /\ \A s \in Task : /\ fut'[s] = "none" <=> fut[s] = "none"
                         /\ fut'[s] \in {fut[s], "woken"}
                         /\ fut'[s] # fut[s] => Len(waiters) > 0 /\ s = waiters[1]
      /\ Len(waiters) > 0 => fut'[waiters[1]] # "pending"
  BY <1>1, <1>2, WakeFirstFacts
<1>4. locked /\ Holders = {t}
  BY <1>2 DEF CoordInv, OneOperation, Holders
<1>5. CoordTypeOK'
  BY <1>1, <1>2, <1>3 DEF CoordInv, CoordTypeOK
<1>6. OneOperation'
  BY <1>1, <1>2, <1>4, NoTaskAssumption DEF OneOperation, Holders
<1>7. NoLostWakeup'
  BY <1>2, <1>3 DEF NoLostWakeup
<1>8. QueuedNeverOverCounts'
  BY <1>2 DEF CoordInv, QueuedNeverOverCounts
<1>9. QueueShape'
  <2>1. \A s \in Task : pc'[s] = "waiting" <=> pc[s] = "waiting"
    BY <1>1, <1>2
  <2>2. \A s \in Task : pc'[s] = "waiting" <=> fut'[s] # "none"
    BY <1>3, <2>1 DEF CoordInv, QueueShape
  <2>3. \A i \in 1 .. Len(waiters) :
          fut'[waiters[i]] \in {"woken", "doomed"} => i = 1 /\ ~locked'
    <3> SUFFICES ASSUME NEW i \in 1 .. Len(waiters),
                        fut'[waiters[i]] \in {"woken", "doomed"}
                 PROVE  i = 1
      BY <1>2
    <3>1. fut[waiters[i]] \notin {"woken", "doomed"}
      BY <1>4 DEF CoordInv, QueueShape
    <3>2. waiters[i] \in Task
      BY <1>1
    <3>3. waiters[i] = waiters[1] /\ Len(waiters) > 0
      BY <1>3, <3>1, <3>2
    <3>4. 1 \in 1 .. Len(waiters)
      BY <1>1, <3>3
    <3> QED
      BY <3>3, <3>4 DEF CoordInv, QueueShape
  <2> QED
    BY <1>2, <2>1, <2>2, <2>3 DEF CoordInv, QueueShape
<1> QED
  BY <1>5, <1>6, <1>7, <1>8, <1>9 DEF CoordInv

(***************************************************************************)
(* CoordInv is preserved by every step of run() and of the asyncio lock.   *)
(***************************************************************************)
LEMMA StepKeepsInv == CoordInv /\ [CoordNext]_coordVars => CoordInv'
<1> SUFFICES ASSUME CoordInv, [CoordNext]_coordVars
             PROVE  CoordInv'
  OBVIOUS
<1>1. ASSUME NEW t \in Task, CoordStep(t)
      PROVE  CoordInv'
  BY <1>1, AcquireNowKeepsInv, JoinQueueKeepsInv, ResumeKeepsInv,
     RequestCancelKeepsInv, UnwindCancelledKeepsInv, LeaveKeepsInv
     DEF CoordStep
<1>2. CASE UNCHANGED coordVars
  BY <1>2 DEF CoordInv, CoordTypeOK, OneOperation, Holders, NoLostWakeup,
              QueuedNeverOverCounts, QueueShape, coordVars
<1> QED
  BY <1>1, <1>2 DEF CoordNext

THEOREM CoordInvariant == CoordSpec => []CoordInv
BY InitEstablishesInv, StepKeepsInv, PTL DEF CoordSpec

(***************************************************************************)
(* The slot of a case is exclusive, and the lock flag and the _active      *)
(* entry always tell the truth about it: for any number of operations and  *)
(* any interleaving of arrivals, cancellations and releases.               *)
(***************************************************************************)
THEOREM OneOperationAlways == CoordSpec => []OneOperation
<1>1. CoordInv => OneOperation
  BY DEF CoordInv
<1> QED
  BY <1>1, CoordInvariant, PTL

(***************************************************************************)
(* No cancellation strands the queue: a free lock with waiters always has  *)
(* a first waiter that is about to run.                                    *)
(***************************************************************************)
THEOREM NoLostWakeupAlways == CoordSpec => []NoLostWakeup
<1>1. CoordInv => NoLostWakeup
  BY DEF CoordInv
<1> QED
  BY <1>1, CoordInvariant, PTL

(***************************************************************************)
(* The queued count that decides whether ingestion defers detection never  *)
(* exceeds the number of operations that wait.                             *)
(***************************************************************************)
THEOREM QueuedNeverOverCountsAlways == CoordSpec => []QueuedNeverOverCounts
<1>1. CoordInv => QueuedNeverOverCounts
  BY DEF CoordInv
<1> QED
  BY <1>1, CoordInvariant, PTL

(***************************************************************************)
(* First come, first served: no operation gets the case while an older     *)
(* request that was not cancelled is still in the queue.                   *)
(***************************************************************************)
THEOREM NoOvertakingAlways == CoordSpec => NoOvertaking
<1> DEFINE Fair == \A t \in Task : pc[t] # "holding" /\ pc'[t] = "holding" =>
                     \A i \in 1 .. Len(waiters) :
                       /\ fut[waiters[i]] \in {"pending", "woken"}
                       /\ waiters[i] # t
                       => \E j \in 1 .. i : waiters[j] = t
<1>1. CoordInv /\ [CoordNext]_coordVars => [Fair]_coordVars
  <2> SUFFICES ASSUME CoordInv, CoordNext
               PROVE  Fair
    OBVIOUS
  <2> SUFFICES ASSUME NEW t \in Task, pc[t] # "holding", pc'[t] = "holding",
                      NEW i \in 1 .. Len(waiters),
                      fut[waiters[i]] \in {"pending", "woken"}
               PROVE  \E j \in 1 .. i : waiters[j] = t
    OBVIOUS
  <2>1. PICK s \in Task : CoordStep(s)
    BY DEF CoordNext
  <2>2. pc \in [Task -> {"idle", "waiting", "holding"}]
    BY DEF CoordInv, CoordTypeOK
  <2>3. CASE AcquireNow(s)
    BY <2>3 DEF AcquireNow, FastPath
  <2>4. CASE Resume(s)
    <3>1. s = t
      BY <2>2, <2>4 DEF Resume, Enter
    <3>2. waiters[1] = t
      BY <2>4, <3>1 DEF Resume, CoordInv, CoordTypeOK, QueueShape
    <3> QED
      BY <3>2 DEF CoordInv, CoordTypeOK
  <2>5. CASE JoinQueue(s) \/ RequestCancel(s) \/ UnwindCancelled(s) \/ Leave(s)
    BY <2>2, <2>5 DEF JoinQueue, RequestCancel, UnwindCancelled, Unwind, Leave
  <2> QED
    BY <2>1, <2>3, <2>4, <2>5 DEF CoordStep
<1> QED
  BY <1>1, CoordInvariant, PTL DEF CoordSpec, NoOvertaking

(***************************************************************************)
(* The coordinator implements the mutual exclusion of CaseMutex: entering  *)
(* run(), by the fast path or from the queue, is Acquire, leaving it is    *)
(* Release, and every other step leaves the slot alone.                    *)
(***************************************************************************)
THEOREM CoordinatorImplementsMutex == CoordSpec => ImplementsMutex
<1>1. CoordInit => Mutex!Init
  BY DEF CoordInit, Mutex!Init
<1>2. CoordInv /\ [CoordNext]_coordVars => [Mutex!Next]_active
  <2> SUFFICES ASSUME CoordInv, [CoordNext]_coordVars
               PROVE  [Mutex!Next]_active
    OBVIOUS
  <2> USE DEF Mutex!Next, Mutex!Acquire, Mutex!Release
  <2>1. ASSUME NEW t \in Task, AcquireNow(t)
        PROVE  Mutex!Next
    BY <2>1, NoTaskAssumption
       DEF AcquireNow, FastPath, Enter, CoordInv, CoordTypeOK, OneOperation
  <2>2. ASSUME NEW t \in Task, Resume(t)
        PROVE  Mutex!Next
    <3>1. ~locked
      BY <2>2 DEF Resume, CoordInv, QueueShape
    <3> QED
      BY <2>2, <3>1, NoTaskAssumption
         DEF Resume, Enter, CoordInv, CoordTypeOK, OneOperation
  <2>3. ASSUME NEW t \in Task, Leave(t)
        PROVE  Mutex!Next
    BY <2>3 DEF Leave, CoordInv, OneOperation, Holders
  <2>4. ASSUME NEW t \in Task, JoinQueue(t) \/ RequestCancel(t) \/ UnwindCancelled(t)
        PROVE  UNCHANGED active
    BY <2>4 DEF JoinQueue, RequestCancel, UnwindCancelled, Unwind
  <2>5. CASE UNCHANGED coordVars
    BY <2>5 DEF coordVars
  <2> QED
    BY <2>1, <2>2, <2>3, <2>4, <2>5 DEF CoordNext, CoordStep
<1> QED
  BY <1>1, <1>2, CoordInvariant, PTL DEF CoordSpec, ImplementsMutex, Mutex!Spec

-----------------------------------------------------------------------------
(* The pipeline. *)

(***************************************************************************)
(* Routes and jobs are different tasks, and there are no others.           *)
(***************************************************************************)
LEMMA TaskFacts ==
  /\ \A r \in Request : Route(r) \in Task /\ Job(r) \in Task
  /\ \A r, q \in Request : /\ Route(r) # Job(q)
                           /\ Route(r) = Route(q) => r = q
                           /\ Job(r) = Job(q) => r = q
BY TaskAssumption DEF Route, Job, Role

(***************************************************************************)
(* While one task holds the slot no other body has begun and not ended.    *)
(***************************************************************************)
LEMMA SlotIsExclusive ==
  ASSUME CoordInv, BodiesInSlot, NEW t \in Task, pc[t] = "holding"
  PROVE  \A u \in Task : u # t => pc[u] # "holding" /\ step[u] \in Outside
BY DEF CoordInv, OneOperation, Holders, BodiesInSlot

-----------------------------------------------------------------------------
(***************************************************************************)
(* Every step of the pipeline is a step of the coordinator, leaves it      *)
(* alone, or restarts it; so its invariant carries over.                   *)
(***************************************************************************)
LEMMA CoordKept ==
  ASSUME CoordInv, Next
  PROVE  CoordInv'
<1>1. CASE CrashAndRestart
  <2>1. CoordInit'
    BY <1>1 DEF CrashAndRestart, Restart, CoordInit
  <2> QED
    BY <2>1, InitEstablishesInv, PTL
<1>2. ASSUME NEW t \in Task, TaskStep(t)
      PROVE  [CoordNext]_coordVars
  BY <1>2 DEF TaskStep, AskSlot, WakeInSlot, CancelledInQueue, CoordNext, CoordStep
<1>3. ASSUME NEW r \in Request, Ask(r) \/ RequestStep(r) \/ Ingest(r)
      PROVE  [CoordNext]_coordVars
  <2>1. ASSUME NEW t \in Task, Leave(t) \/ RequestCancel(t)
        PROVE  CoordNext
    BY <2>1 DEF CoordNext, CoordStep
  <2> USE <2>1, TaskFacts DEF Finish, FinishAndSchedule, Continue
  <2>2. CASE Ask(r)
    BY <2>2 DEF Ask
  <2>3. CASE RequestStep(r)
    BY <2>3 DEF RequestStep, RouteFindsNoCase, Upload, UploadRejected,
       UploadNewFile, StoreNewFile, ScheduleReplacement, SwapMoveAway, SwapMoveIn,
       SwapCommit, CommitSwap, SwapFail, AbandonSwap, CancelJob, ReplacementFails,
       Purge, NothingToPurge, PurgeRefused, PurgeCommit, PurgeDetect,
       PurgeDetectFails, AnalysisStart, AnalysisEnd, RunDetections, DeleteCase
  <2>4. CASE Ingest(r)
    BY <2>4 DEF Ingest, JobFindsNoCase, IngestStart, IngestRows, IngestEmpty,
       IngestArtifact, IngestMemory, IngestFails, DetectOwed, DetectOwedFails,
       Recover, Settle
  <2> QED
    BY <1>3, <2>2, <2>3, <2>4
<1> QED
  BY <1>1, <1>2, <1>3, StepKeepsInv DEF Next

(***************************************************************************)
(* Every variable keeps its type.                                          *)
(***************************************************************************)
LEMMA BodyTypeKept ==
  ASSUME BodyTypeOK, Next
  PROVE  BodyTypeOK'
<1> USE TaskFacts, KindsAssumption, FileAssumption
    DEF BodyTypeOK, Steps, NoRows, At, Goto, Continue, Finish, FinishAndSchedule,
        Detect, Ingested, Settle, Purging, reqVars, fileVars, dbVars, owedVars,
        caseVars, bodyVars
<1>1. ASSUME NEW r \in Request, Ask(r)
      PROVE  BodyTypeOK'
  BY <1>1 DEF Ask
<1>2. ASSUME NEW r \in Request, RouteFindsNoCase(r)
      PROVE  BodyTypeOK'
  BY <1>2 DEF RouteFindsNoCase
<1>3. ASSUME NEW r \in Request, UploadRejected(r)
      PROVE  BodyTypeOK'
  BY <1>3 DEF UploadRejected
<1>4. ASSUME NEW r \in Request, UploadNewFile(r)
      PROVE  BodyTypeOK'
  BY <1>4 DEF UploadNewFile, StoreNewFile
<1>5. ASSUME NEW r \in Request, ScheduleReplacement(r)
      PROVE  BodyTypeOK'
  BY <1>5 DEF ScheduleReplacement
<1>6. ASSUME NEW r \in Request, SwapMoveAway(r)
      PROVE  BodyTypeOK'
  BY <1>6 DEF SwapMoveAway
<1>7. ASSUME NEW r \in Request, SwapMoveIn(r)
      PROVE  BodyTypeOK'
  BY <1>7 DEF SwapMoveIn
<1>8. ASSUME NEW r \in Request, SwapCommit(r)
      PROVE  BodyTypeOK'
  BY <1>8 DEF SwapCommit, CommitSwap
<1>9. ASSUME NEW r \in Request, SwapFail(r)
      PROVE  BodyTypeOK'
  BY <1>9 DEF SwapFail, AbandonSwap
<1>10. ASSUME NEW r \in Request, CancelJob(r)
      PROVE  BodyTypeOK'
  BY <1>10 DEF CancelJob
<1>11. ASSUME NEW r \in Request, ReplacementFails(r)
      PROVE  BodyTypeOK'
  BY <1>11 DEF ReplacementFails
<1>12. ASSUME NEW r \in Request, NothingToPurge(r)
      PROVE  BodyTypeOK'
  BY <1>12 DEF NothingToPurge
<1>13. ASSUME NEW r \in Request, PurgeRefused(r)
      PROVE  BodyTypeOK'
  BY <1>13 DEF PurgeRefused
<1>14. ASSUME NEW r \in Request, PurgeCommit(r)
      PROVE  BodyTypeOK'
  BY <1>14 DEF PurgeCommit
<1>15. ASSUME NEW r \in Request, PurgeDetect(r)
      PROVE  BodyTypeOK'
  BY <1>15 DEF PurgeDetect
<1>16. ASSUME NEW r \in Request, PurgeDetectFails(r)
      PROVE  BodyTypeOK'
  BY <1>16 DEF PurgeDetectFails
<1>17. ASSUME NEW r \in Request, AnalysisStart(r)
      PROVE  BodyTypeOK'
  BY <1>17 DEF AnalysisStart
<1>18. ASSUME NEW r \in Request, AnalysisEnd(r)
      PROVE  BodyTypeOK'
  BY <1>18 DEF AnalysisEnd
<1>19. ASSUME NEW r \in Request, RunDetections(r)
      PROVE  BodyTypeOK'
  BY <1>19 DEF RunDetections
<1>20. ASSUME NEW r \in Request, DeleteCase(r)
      PROVE  BodyTypeOK'
  BY <1>20 DEF DeleteCase
<1>21. ASSUME NEW r \in Request, JobFindsNoCase(r)
      PROVE  BodyTypeOK'
  BY <1>21 DEF JobFindsNoCase
<1>22. ASSUME NEW r \in Request, IngestStart(r)
      PROVE  BodyTypeOK'
  BY <1>22 DEF IngestStart
<1>23. ASSUME NEW r \in Request, IngestRows(r)
      PROVE  BodyTypeOK'
  BY <1>23 DEF IngestRows
<1>24. ASSUME NEW r \in Request, IngestEmpty(r)
      PROVE  BodyTypeOK'
  BY <1>24 DEF IngestEmpty
<1>25. ASSUME NEW r \in Request, IngestArtifact(r)
      PROVE  BodyTypeOK'
  BY <1>25 DEF IngestArtifact
<1>26. ASSUME NEW r \in Request, IngestMemory(r)
      PROVE  BodyTypeOK'
  BY <1>26 DEF IngestMemory
<1>27. ASSUME NEW r \in Request, IngestFails(r)
      PROVE  BodyTypeOK'
  BY <1>27 DEF IngestFails
<1>28. ASSUME NEW r \in Request, DetectOwed(r)
      PROVE  BodyTypeOK'
  BY <1>28 DEF DetectOwed
<1>29. ASSUME NEW r \in Request, DetectOwedFails(r)
      PROVE  BodyTypeOK'
  BY <1>29 DEF DetectOwedFails
<1>30. ASSUME NEW r \in Request, Recover(r)
      PROVE  BodyTypeOK'
  BY <1>30 DEF Recover
<1>31. ASSUME NEW t \in Task, AskSlot(t)
      PROVE  BodyTypeOK'
  BY <1>31 DEF AskSlot
<1>32. ASSUME NEW t \in Task, WakeInSlot(t)
      PROVE  BodyTypeOK'
  BY <1>32 DEF WakeInSlot
<1>33. ASSUME NEW t \in Task, CancelledInQueue(t)
      PROVE  BodyTypeOK'
  BY <1>33 DEF CancelledInQueue
<1>34. CASE CrashAndRestart
  <2>1. crashes' \in 0 .. MaxCrashes
    BY <1>34, CrashAssumption DEF CrashAndRestart, Restart
  <2>2. /\ kind' = kind /\ file' = file /\ disk' = disk /\ exists' = exists
        /\ rows' = rows /\ findings' = findings
        /\ backup' = [f \in File |-> NoGen]
        /\ step' = [t \in Task |-> IF step[t] = "unborn" THEN "unborn" ELSE "done"]
        /\ pending' = FALSE /\ fullPending' = FALSE /\ dir' = exists
        /\ status' \in {status, "ready"}
    BY <1>34 DEF CrashAndRestart, Restart
  <2> QED
    BY <2>1, <2>2
<1> QED
  BY <1>1, <1>2, <1>3, <1>4, <1>5, <1>6, <1>7, <1>8, <1>9, <1>10, <1>11,
     <1>12, <1>13, <1>14, <1>15, <1>16, <1>17, <1>18, <1>19, <1>20, <1>21,
     <1>22, <1>23, <1>24, <1>25, <1>26, <1>27, <1>28, <1>29, <1>30, <1>31,
     <1>32, <1>33, <1>34
     DEF Next, RequestStep, Upload, Purge, Ingest, TaskStep

(***************************************************************************)
(* A body that goes on stays in the slot, one that ends leaves it with the *)
(* task, and queueing does not begin a body.                               *)
(***************************************************************************)
LEMMA BodiesThroughSlot ==
  ASSUME BodyTypeOK, CoordTypeOK, BodiesInSlot, NEW t \in Task
  PROVE  /\ \A s \in Steps \ {"unborn", "done"} :
              pc[t] = "holding" /\ Continue(t, s) => BodiesInSlot'
         /\ Finish(t) => BodiesInSlot'
         /\ \A r \in Request : t = Route(r) /\ FinishAndSchedule(r) => BodiesInSlot'
         /\ step' = step /\ step[t] = "asking" /\ (AcquireNow(t) \/ JoinQueue(t))
              => BodiesInSlot'
         /\ step' = step /\ Resume(t) => BodiesInSlot'
<1> USE DEF BodiesInSlot, Outside, Goto, BodyTypeOK, CoordTypeOK
<1>1. \A s \in Steps \ {"unborn", "done"} :
        pc[t] = "holding" /\ Continue(t, s) => BodiesInSlot'
  BY DEF Continue, coordVars
<1>2. Finish(t) => BodiesInSlot'
  BY DEF Finish, Leave
<1>3. \A r \in Request : t = Route(r) /\ FinishAndSchedule(r) => BodiesInSlot'
  BY TaskFacts DEF FinishAndSchedule, Leave
<1>4. step' = step /\ step[t] = "asking" /\ (AcquireNow(t) \/ JoinQueue(t))
        => BodiesInSlot'
  BY DEF AcquireNow, JoinQueue, Enter
<1>5. step' = step /\ Resume(t) => BodiesInSlot'
  BY DEF Resume, Enter
<1> QED
  BY <1>1, <1>2, <1>3, <1>4, <1>5

\* A failed replacement cancels its job, which at most never begins.
LEMMA CancelJobMoves ==
  ASSUME TypeOK, NEW r \in Request, CancelJob(r)
  PROVE  /\ pc' = pc /\ pc[Route(r)] = "holding"
         /\ step[Route(r)] = "swapFailed" /\ UNCHANGED <<file, backup>>
         /\ \A t \in Task :
              \/ step'[t] = step[t]
              \/ t = Route(r) /\ step'[t] = "cancelling"
              \/ t = Job(r) /\ step'[t] = "done" /\ pc[t] = "idle"
         /\ \A q \in Request : q # r => step'[Route(q)] = step[Route(q)]
<1>1. /\ pc' = pc /\ pc[Route(r)] = "holding"
      /\ step[Route(r)] = "swapFailed" /\ UNCHANGED <<file, backup>>
  BY DEF CancelJob, At, RequestCancel, coordVars, bodyVars, reqVars, fileVars
<1>2. \/ /\ pc[Job(r)] = "idle"
         /\ step' = [step EXCEPT ![Route(r)] = "cancelling", ![Job(r)] = "done"]
      \/ step' = [step EXCEPT ![Route(r)] = "cancelling"]
  BY DEF CancelJob, Goto
<1>3. DOMAIN step = Task
  BY DEF TypeOK, BodyTypeOK
<1>4. Route(r) \in Task /\ Job(r) \in Task /\ Route(r) # Job(r)
  BY TaskFacts
<1>5. \A t \in Task :
        \/ step'[t] = step[t]
        \/ t = Route(r) /\ step'[t] = "cancelling"
        \/ t = Job(r) /\ step'[t] = "done" /\ pc[t] = "idle"
  BY <1>2, <1>3, <1>4
<1>6. ASSUME NEW q \in Request, q # r
      PROVE  step'[Route(q)] = step[Route(q)]
  <2>1. Route(q) \in Task /\ Route(q) # Route(r) /\ Route(q) # Job(r)
    BY <1>6, TaskFacts
  <2> QED
    BY <1>5, <2>1
<1> QED
  BY <1>1, <1>5, <1>6

(***************************************************************************)
(* The bodies under way are in the slot, after every step.                 *)
(***************************************************************************)
LEMMA BodiesKept ==
  ASSUME TypeOK, BodiesInSlot, Next
  PROVE  BodiesInSlot'
<1> USE BodiesThroughSlot, TaskFacts DEF At, Settle, Purging, Steps, TypeOK
<1>1. ASSUME NEW r \in Request, Ask(r)
      PROVE  BodiesInSlot'
  BY <1>1 DEF Ask, BodiesInSlot, Outside, Goto,
     BodyTypeOK, CoordTypeOK, coordVars
<1>2. ASSUME NEW r \in Request, RouteFindsNoCase(r)
      PROVE  BodiesInSlot'
  BY <1>2 DEF RouteFindsNoCase
<1>3. ASSUME NEW r \in Request, UploadRejected(r)
      PROVE  BodiesInSlot'
  BY <1>3 DEF UploadRejected
<1>4. ASSUME NEW r \in Request, UploadNewFile(r)
      PROVE  BodiesInSlot'
  BY <1>4 DEF UploadNewFile, StoreNewFile
<1>5. ASSUME NEW r \in Request, ScheduleReplacement(r)
      PROVE  BodiesInSlot'
  BY <1>5 DEF ScheduleReplacement, BodiesInSlot,
     Outside, BodyTypeOK, CoordTypeOK, coordVars
<1>6. ASSUME NEW r \in Request, SwapMoveAway(r)
      PROVE  BodiesInSlot'
  BY <1>6 DEF SwapMoveAway
<1>7. ASSUME NEW r \in Request, SwapMoveIn(r)
      PROVE  BodiesInSlot'
  BY <1>7 DEF SwapMoveIn
<1>8. ASSUME NEW r \in Request, SwapCommit(r)
      PROVE  BodiesInSlot'
  BY <1>8 DEF SwapCommit, CommitSwap
<1>9. ASSUME NEW r \in Request, SwapFail(r)
      PROVE  BodiesInSlot'
  BY <1>9 DEF SwapFail, AbandonSwap
<1>10. ASSUME NEW r \in Request, CancelJob(r)
      PROVE  BodiesInSlot'
  BY <1>10, CancelJobMoves DEF BodiesInSlot, Outside
<1>11. ASSUME NEW r \in Request, ReplacementFails(r)
      PROVE  BodiesInSlot'
  BY <1>11 DEF ReplacementFails
<1>12. ASSUME NEW r \in Request, NothingToPurge(r)
      PROVE  BodiesInSlot'
  BY <1>12 DEF NothingToPurge
<1>13. ASSUME NEW r \in Request, PurgeRefused(r)
      PROVE  BodiesInSlot'
  BY <1>13 DEF PurgeRefused
<1>14. ASSUME NEW r \in Request, PurgeCommit(r)
      PROVE  BodiesInSlot'
  BY <1>14 DEF PurgeCommit
<1>15. ASSUME NEW r \in Request, PurgeDetect(r)
      PROVE  BodiesInSlot'
  BY <1>15 DEF PurgeDetect
<1>16. ASSUME NEW r \in Request, PurgeDetectFails(r)
      PROVE  BodiesInSlot'
  BY <1>16 DEF PurgeDetectFails
<1>17. ASSUME NEW r \in Request, AnalysisStart(r)
      PROVE  BodiesInSlot'
  BY <1>17 DEF AnalysisStart
<1>18. ASSUME NEW r \in Request, AnalysisEnd(r)
      PROVE  BodiesInSlot'
  BY <1>18 DEF AnalysisEnd
<1>19. ASSUME NEW r \in Request, RunDetections(r)
      PROVE  BodiesInSlot'
  BY <1>19 DEF RunDetections
<1>20. ASSUME NEW r \in Request, DeleteCase(r)
      PROVE  BodiesInSlot'
  BY <1>20 DEF DeleteCase
<1>21. ASSUME NEW r \in Request, JobFindsNoCase(r)
      PROVE  BodiesInSlot'
  BY <1>21 DEF JobFindsNoCase
<1>22. ASSUME NEW r \in Request, IngestStart(r)
      PROVE  BodiesInSlot'
  BY <1>22 DEF IngestStart
<1>23. ASSUME NEW r \in Request, IngestRows(r)
      PROVE  BodiesInSlot'
  BY <1>23 DEF IngestRows
<1>24. ASSUME NEW r \in Request, IngestEmpty(r)
      PROVE  BodiesInSlot'
  BY <1>24 DEF IngestEmpty
<1>25. ASSUME NEW r \in Request, IngestArtifact(r)
      PROVE  BodiesInSlot'
  BY <1>25 DEF IngestArtifact
<1>26. ASSUME NEW r \in Request, IngestMemory(r)
      PROVE  BodiesInSlot'
  BY <1>26 DEF IngestMemory
<1>27. ASSUME NEW r \in Request, IngestFails(r)
      PROVE  BodiesInSlot'
  BY <1>27 DEF IngestFails
<1>28. ASSUME NEW r \in Request, DetectOwed(r)
      PROVE  BodiesInSlot'
  BY <1>28 DEF DetectOwed
<1>29. ASSUME NEW r \in Request, DetectOwedFails(r)
      PROVE  BodiesInSlot'
  BY <1>29 DEF DetectOwedFails
<1>30. ASSUME NEW r \in Request, Recover(r)
      PROVE  BodiesInSlot'
  BY <1>30 DEF Recover
<1>31. ASSUME NEW t \in Task, AskSlot(t)
      PROVE  BodiesInSlot'
  BY <1>31 DEF AskSlot, bodyVars
<1>32. ASSUME NEW t \in Task, WakeInSlot(t)
      PROVE  BodiesInSlot'
  BY <1>32 DEF WakeInSlot, bodyVars
<1>33. ASSUME NEW t \in Task, CancelledInQueue(t)
      PROVE  BodiesInSlot'
  BY <1>33 DEF CancelledInQueue, UnwindCancelled, Unwind, Goto,
     BodiesInSlot, Outside, BodyTypeOK, CoordTypeOK
<1>34. CASE CrashAndRestart
  BY <1>34 DEF CrashAndRestart, Restart, BodiesInSlot, Outside
<1> QED
  BY <1>1, <1>2, <1>3, <1>4, <1>5, <1>6, <1>7, <1>8, <1>9, <1>10, <1>11,
     <1>12, <1>13, <1>14, <1>15, <1>16, <1>17, <1>18, <1>19, <1>20, <1>21,
     <1>22, <1>23, <1>24, <1>25, <1>26, <1>27, <1>28, <1>29, <1>30, <1>31,
     <1>32, <1>33, <1>34
     DEF Next, RequestStep, Upload, Purge, Ingest, TaskStep

-----------------------------------------------------------------------------
(***************************************************************************)
(* Which steps can change what: the obligations, the uploads directory,    *)
(* the rows, the findings and the registry.                                *)
(***************************************************************************)
LEMMA Frames ==
  ASSUME Next
  PROVE  /\ \/ UNCHANGED owedVars
            \/ CrashAndRestart
            \/ \E r \in Request : \/ SwapCommit(r) \/ DetectOwed(r) \/ Recover(r)
                                  \/ IngestEmpty(r) \/ IngestArtifact(r) \/ IngestMemory(r)
         /\ \/ UNCHANGED fileVars
            \/ CrashAndRestart
            \/ \E r \in Request : \/ UploadNewFile(r) \/ SwapMoveAway(r) \/ SwapMoveIn(r)
                                  \/ SwapCommit(r) \/ SwapFail(r) \/ PurgeDetect(r)
                                  \/ DeleteCase(r)
         /\ \/ UNCHANGED rows
            \/ \E r \in Request : \/ SwapCommit(r) \/ PurgeCommit(r) \/ DeleteCase(r)
                                  \/ IngestRows(r)
         /\ \/ UNCHANGED findings
            \/ \E r \in Request : \/ PurgeCommit(r) \/ PurgeDetect(r) \/ RunDetections(r)
                                  \/ DeleteCase(r) \/ IngestMemory(r) \/ DetectOwed(r)
                                  \/ Recover(r)
         /\ UNCHANGED exists \/ \E r \in Request : DeleteCase(r)
<1> USE DEF bodyVars, reqVars, fileVars, dbVars, owedVars, caseVars
<1>1. CASE CrashAndRestart
  BY <1>1 DEF CrashAndRestart, Restart
<1>2. ASSUME NEW t \in Task, TaskStep(t)
      PROVE  UNCHANGED bodyVars
  BY <1>2 DEF TaskStep, AskSlot, WakeInSlot, CancelledInQueue
<1>3. ASSUME NEW r \in Request, Ask(r)
      PROVE  UNCHANGED <<fileVars, dbVars, owedVars, caseVars>>
  BY <1>3 DEF Ask
<1>4. ASSUME NEW r \in Request, RequestStep(r)
      PROVE  /\ UNCHANGED owedVars \/ SwapCommit(r)
             /\ \/ UNCHANGED fileVars
                \/ UploadNewFile(r) \/ SwapMoveAway(r) \/ SwapMoveIn(r)
                \/ SwapCommit(r) \/ SwapFail(r) \/ PurgeDetect(r) \/ DeleteCase(r)
             /\ UNCHANGED rows \/ SwapCommit(r) \/ PurgeCommit(r) \/ DeleteCase(r)
             /\ \/ UNCHANGED findings
                \/ PurgeCommit(r) \/ PurgeDetect(r) \/ RunDetections(r) \/ DeleteCase(r)
             /\ UNCHANGED exists \/ DeleteCase(r)
  BY <1>4 DEF RequestStep, RouteFindsNoCase, Upload, UploadRejected,
     UploadNewFile, StoreNewFile, ScheduleReplacement, SwapMoveAway, SwapMoveIn,
     SwapCommit, CommitSwap, SwapFail, AbandonSwap, CancelJob, ReplacementFails,
     Purge, NothingToPurge, PurgeRefused, PurgeCommit, PurgeDetect,
     PurgeDetectFails, AnalysisStart, AnalysisEnd, RunDetections, DeleteCase
<1>5. ASSUME NEW r \in Request, Ingest(r)
      PROVE  /\ \/ UNCHANGED owedVars
                \/ DetectOwed(r) \/ Recover(r)
                \/ IngestEmpty(r) \/ IngestArtifact(r) \/ IngestMemory(r)
             /\ UNCHANGED <<fileVars, exists>>
             /\ UNCHANGED rows \/ IngestRows(r)
             /\ UNCHANGED findings \/ IngestMemory(r) \/ DetectOwed(r) \/ Recover(r)
  BY <1>5 DEF Ingest, JobFindsNoCase, IngestStart, IngestRows, IngestEmpty,
     IngestArtifact, IngestMemory, IngestFails, DetectOwed, DetectOwedFails, Recover
<1>6. CASE \E t \in Task : TaskStep(t)
  BY <1>2, <1>6
<1>7. CASE \E r \in Request : Ask(r)
  BY <1>3, <1>7
<1>8. CASE \E r \in Request : RequestStep(r)
  BY <1>4, <1>8
<1>9. CASE \E r \in Request : Ingest(r)
  BY <1>5, <1>9
<1> QED
  BY <1>1, <1>6, <1>7, <1>8, <1>9 DEF Next

(***************************************************************************)
(* The marker of a full rebuild never outlives the pending marker.         *)
(***************************************************************************)
LEMMA FullRebuildKept ==
  ASSUME TypeOK, FullRebuildIsPending, Next
  PROVE  FullRebuildIsPending'
<1> USE DEF FullRebuildIsPending, owedVars
<1>1. CASE UNCHANGED owedVars
  BY <1>1
<1>2. CASE CrashAndRestart
  BY <1>2 DEF CrashAndRestart, Restart
<1>3. ASSUME NEW r \in Request, SwapCommit(r)
      PROVE  FullRebuildIsPending'
  BY <1>3 DEF SwapCommit, CommitSwap
<1>4. ASSUME NEW r \in Request, DetectOwed(r)
      PROVE  FullRebuildIsPending'
  BY <1>4 DEF DetectOwed
<1>5. ASSUME NEW r \in Request, Recover(r)
      PROVE  FullRebuildIsPending'
  <2>1. UNCHANGED owedVars \/ (pending' = FALSE /\ fullPending' = FALSE)
    BY <1>5 DEF Recover
  <2> QED
    BY <2>1
<1>6. ASSUME NEW r \in Request, IngestEmpty(r) \/ IngestArtifact(r) \/ IngestMemory(r)
      PROVE  FullRebuildIsPending'
  <2>1. (pending' = pending \/ pending' = TRUE) /\ fullPending' = fullPending
    BY <1>6 DEF IngestEmpty, IngestArtifact, IngestMemory, Settle
  <2> QED
    BY <2>1
<1> QED
  BY <1>1, <1>2, <1>3, <1>4, <1>5, <1>6, Frames

(***************************************************************************)
(* The shape of a replacement under way: one lemma per actor, then all.    *)
(***************************************************************************)
LEMMA AskKeepsShape ==
  ASSUME TypeOK, SwapShape, NEW r \in Request, Ask(r)
  PROVE  SwapShape'
<1>1. /\ step[Route(r)] = "unborn"
      /\ step' = [step EXCEPT ![Route(r)] = "asking"]
      /\ UNCHANGED <<disk, backup, rows, exists>>
  BY DEF Ask, SwapShape, Goto, fileVars, dbVars, caseVars
<1>2. PICK k \in Kinds, f \in File : /\ kind' = [kind EXCEPT ![r] = k]
                                     /\ file' = [file EXCEPT ![r] = f]
  BY DEF Ask
<1>3. k # "none"
  BY KindsAssumption DEF AllKinds, FileKinds
<1> QED
  BY <1>1, <1>2, <1>3, TaskFacts DEF SwapShape, SwapSteps, TypeOK, BodyTypeOK

LEMMA SwapFailKeepsShape ==
  ASSUME TypeOK, CoordInv, BodiesInSlot, SwapShape, NEW r \in Request, SwapFail(r)
  PROVE  SwapShape'
<1>1. /\ \A q \in Request \ {r} : step[Route(q)] \in Outside
      /\ step' = [step EXCEPT ![Route(r)] = "swapFailed"]
  BY TaskFacts, SlotIsExclusive DEF SwapFail, AbandonSwap, At, Continue, Goto
<1>2. UNCHANGED <<kind, file, rows, exists>> /\ kind[r] # "none"
  BY DEF SwapFail, AbandonSwap, At, SwapShape, SwapSteps, reqVars, dbVars, caseVars
<1>3. /\ \A q \in Request \ {r} : step'[Route(q)] = step[Route(q)]
      /\ step'[Route(r)] = "swapFailed"
  BY <1>1, TaskFacts DEF TypeOK, BodyTypeOK
<1> QED
  BY <1>1, <1>2, <1>3 DEF SwapShape, SwapSteps, Outside

LEMMA CancellationKeepsShape ==
  ASSUME TypeOK, BodiesInSlot, SwapShape, BackupOwned, NEW t \in Task, CancelledInQueue(t)
  PROVE  SwapShape' /\ BackupOwned'
<1>1. step[t] \in {"asking", "done"} /\ step' = [step EXCEPT ![t] = "done"]
  BY DEF BodiesInSlot, Outside, CancelledInQueue, UnwindCancelled, Unwind, Goto
<1>2. UNCHANGED <<kind, file, disk, backup, rows, exists>>
  BY DEF CancelledInQueue, bodyVars, reqVars, fileVars, dbVars, caseVars
<1>3. SwapShape'
  BY <1>1, <1>2, TaskFacts DEF SwapShape, SwapSteps, TypeOK, BodyTypeOK
<1>4. BackupOwned'
  <2>1. \A r \in Request : step[Route(r)] \in {"movedAway", "movedIn"} => Route(r) # t
    BY <1>1
  <2>2. \A u \in Task : u # t => step'[u] = step[u]
    BY <1>1 DEF TypeOK, BodyTypeOK
  <2>3. \A r \in Request : step[Route(r)] \in {"movedAway", "movedIn"} =>
                            step'[Route(r)] \in {"movedAway", "movedIn"}
    BY <2>1, <2>2, TaskFacts
  <2> QED
    BY <1>2, <2>3 DEF BackupOwned
<1> QED
  BY <1>3, <1>4

\* The body that moves is the only one that is neither before nor after its slot.
LEMMA BodyMoves ==
  ASSUME TypeOK, CoordInv, BodiesInSlot, NEW t \in Task, pc[t] = "holding", NEW s, Goto(t, s)
  PROVE  /\ step'[t] = s
         /\ \A u \in Task : u # t => step'[u] = step[u] /\ step[u] \in Outside
<1>1. DOMAIN step = Task
  BY DEF TypeOK, BodyTypeOK
<1> QED
  BY <1>1, SlotIsExclusive DEF Goto

\* The destination was set aside: the others wait or are done.
LEMMA MoveAwayKeepsShape ==
  ASSUME TypeOK, CoordInv, BodiesInSlot, SwapShape, NEW r \in Request, SwapMoveAway(r)
  PROVE  SwapShape'
<1>1. /\ step'[Route(r)] = "movedAway"
      /\ \A q \in Request : q # r => /\ step'[Route(q)] = step[Route(q)]
                                     /\ step[Route(q)] \in Outside
  BY BodyMoves, TaskFacts DEF SwapMoveAway, At, Continue
<1>2. UNCHANGED <<kind, file, rows, exists>> /\ step[Route(r)] = "staged"
  BY DEF SwapMoveAway, At, reqVars, dbVars, caseVars
<1>3. /\ file[r] \in File /\ disk \in [File -> Request \cup {NoGen}]
      /\ backup \in [File -> Request \cup {NoGen}]
  BY DEF TypeOK, BodyTypeOK
<1>4. disk'[file[r]] = NoGen /\ backup'[file[r]] = disk[file[r]]
  BY <1>3 DEF SwapMoveAway
<1>5. /\ kind[r] = "upload" /\ exists /\ disk[file[r]] # NoGen
  BY <1>2 DEF SwapShape, SwapSteps
<1> QED
  BY <1>1, <1>2, <1>4, <1>5 DEF SwapShape, SwapSteps, Outside

\* Rows are only stored while no replacement is between its steps.
LEMMA IngestRowsKeepsShape ==
  ASSUME TypeOK, CoordInv, BodiesInSlot, SwapShape, NEW r \in Request, IngestRows(r)
  PROVE  SwapShape'
<1>1. \A q \in Request : step'[Route(q)] = step[Route(q)] /\ step[Route(q)] \in Outside
  BY BodyMoves, TaskFacts DEF IngestRows, At, Continue
<1>2. UNCHANGED <<kind, file, exists>>
  BY DEF IngestRows, reqVars, caseVars
<1> QED
  BY <1>1, <1>2 DEF SwapShape, SwapSteps, Outside

LEMMA HolderKeepsShape ==
  ASSUME TypeOK, CoordInv, BodiesInSlot, SwapShape, NEW r \in Request
  PROVE  /\ SwapMoveIn(r) => SwapShape'
         /\ DeleteCase(r) => SwapShape'
<1> USE TaskFacts, NoGenAssumption
    DEF SwapShape, SwapSteps, Outside, Steps, TypeOK, BodyTypeOK, At, Continue,
        Finish, Goto, reqVars, fileVars, dbVars, owedVars, caseVars
<1>1. ASSUME pc[Route(r)] = "holding", NEW q \in Request, q # r
      PROVE  step[Route(q)] \in {"unborn", "asking", "done"}
  BY <1>1, SlotIsExclusive
<1>2. SwapMoveIn(r) => SwapShape'
  BY <1>1 DEF SwapMoveIn
<1>3. DeleteCase(r) => SwapShape'
  BY <1>1 DEF DeleteCase
<1> QED
  BY <1>2, <1>3

(***************************************************************************)
(* Every step keeps the shape of a replacement.                            *)
(***************************************************************************)
LEMMA SwapShapeKept ==
  ASSUME TypeOK, CoordInv, BodiesInSlot, SwapShape, BackupOwned, Next
  PROVE  SwapShape'
<1> USE TaskFacts, SlotIsExclusive, NoGenAssumption
    DEF BodiesInSlot, SwapShape, SwapSteps, Outside, TypeOK, BodyTypeOK,
        Steps, NoRows, At, Goto, Continue, Finish, FinishAndSchedule, Settle,
        Purging, reqVars, fileVars, dbVars, owedVars, caseVars, bodyVars
<1>1. ASSUME NEW r \in Request, Ask(r)
      PROVE  SwapShape'
  BY <1>1, AskKeepsShape
<1>2. ASSUME NEW r \in Request, RouteFindsNoCase(r)
      PROVE  SwapShape'
  BY <1>2 DEF RouteFindsNoCase
<1>3. ASSUME NEW r \in Request, UploadRejected(r)
      PROVE  SwapShape'
  BY <1>3 DEF UploadRejected
<1>4. ASSUME NEW r \in Request, UploadNewFile(r)
      PROVE  SwapShape'
  BY <1>4 DEF UploadNewFile, StoreNewFile
<1>5. ASSUME NEW r \in Request, ScheduleReplacement(r)
      PROVE  SwapShape'
  BY <1>5 DEF ScheduleReplacement
<1>6. ASSUME NEW r \in Request, SwapMoveAway(r)
      PROVE  SwapShape'
  BY <1>6, MoveAwayKeepsShape
<1>7. ASSUME NEW r \in Request, SwapMoveIn(r)
      PROVE  SwapShape'
  BY <1>7, HolderKeepsShape
<1>8. ASSUME NEW r \in Request, SwapCommit(r)
      PROVE  SwapShape'
  BY <1>8 DEF SwapCommit, CommitSwap
<1>9. ASSUME NEW r \in Request, SwapFail(r)
      PROVE  SwapShape'
  BY <1>9, SwapFailKeepsShape
<1>10. ASSUME NEW r \in Request, CancelJob(r)
      PROVE  SwapShape'
  BY <1>10 DEF CancelJob
<1>11. ASSUME NEW r \in Request, ReplacementFails(r)
      PROVE  SwapShape'
  BY <1>11 DEF ReplacementFails
<1>12. ASSUME NEW r \in Request, NothingToPurge(r)
      PROVE  SwapShape'
  BY <1>12 DEF NothingToPurge
<1>13. ASSUME NEW r \in Request, PurgeRefused(r)
      PROVE  SwapShape'
  BY <1>13 DEF PurgeRefused
<1>14. ASSUME NEW r \in Request, PurgeCommit(r)
      PROVE  SwapShape'
  BY <1>14 DEF PurgeCommit
<1>15. ASSUME NEW r \in Request, PurgeDetect(r)
      PROVE  SwapShape'
  BY <1>15 DEF PurgeDetect
<1>16. ASSUME NEW r \in Request, PurgeDetectFails(r)
      PROVE  SwapShape'
  BY <1>16 DEF PurgeDetectFails
<1>17. ASSUME NEW r \in Request, AnalysisStart(r)
      PROVE  SwapShape'
  BY <1>17 DEF AnalysisStart
<1>18. ASSUME NEW r \in Request, AnalysisEnd(r)
      PROVE  SwapShape'
  BY <1>18 DEF AnalysisEnd
<1>19. ASSUME NEW r \in Request, RunDetections(r)
      PROVE  SwapShape'
  BY <1>19 DEF RunDetections
<1>20. ASSUME NEW r \in Request, DeleteCase(r)
      PROVE  SwapShape'
  BY <1>20, HolderKeepsShape
<1>21. ASSUME NEW r \in Request, JobFindsNoCase(r)
      PROVE  SwapShape'
  BY <1>21 DEF JobFindsNoCase
<1>22. ASSUME NEW r \in Request, IngestStart(r)
      PROVE  SwapShape'
  BY <1>22 DEF IngestStart
<1>23. ASSUME NEW r \in Request, IngestRows(r)
      PROVE  SwapShape'
  BY <1>23, IngestRowsKeepsShape
<1>24. ASSUME NEW r \in Request, IngestEmpty(r)
      PROVE  SwapShape'
  BY <1>24 DEF IngestEmpty
<1>25. ASSUME NEW r \in Request, IngestArtifact(r)
      PROVE  SwapShape'
  BY <1>25 DEF IngestArtifact
<1>26. ASSUME NEW r \in Request, IngestMemory(r)
      PROVE  SwapShape'
  BY <1>26 DEF IngestMemory
<1>27. ASSUME NEW r \in Request, IngestFails(r)
      PROVE  SwapShape'
  BY <1>27 DEF IngestFails
<1>28. ASSUME NEW r \in Request, DetectOwed(r)
      PROVE  SwapShape'
  BY <1>28 DEF DetectOwed
<1>29. ASSUME NEW r \in Request, DetectOwedFails(r)
      PROVE  SwapShape'
  BY <1>29 DEF DetectOwedFails
<1>30. ASSUME NEW r \in Request, Recover(r)
      PROVE  SwapShape'
  BY <1>30 DEF Recover
<1>31. ASSUME NEW t \in Task, AskSlot(t)
      PROVE  SwapShape'
  BY <1>31 DEF AskSlot
<1>32. ASSUME NEW t \in Task, WakeInSlot(t)
      PROVE  SwapShape'
  BY <1>32 DEF WakeInSlot
<1>33. ASSUME NEW t \in Task, CancelledInQueue(t)
      PROVE  SwapShape'
  BY <1>33, CancellationKeepsShape
<1>34. CASE CrashAndRestart
  BY <1>34 DEF CrashAndRestart, Restart
<1> QED
  BY <1>1, <1>2, <1>3, <1>4, <1>5, <1>6, <1>7, <1>8, <1>9, <1>10, <1>11,
     <1>12, <1>13, <1>14, <1>15, <1>16, <1>17, <1>18, <1>19, <1>20, <1>21,
     <1>22, <1>23, <1>24, <1>25, <1>26, <1>27, <1>28, <1>29, <1>30, <1>31,
     <1>32, <1>33, <1>34
     DEF Next, RequestStep, Upload, Purge, Ingest, TaskStep

\* Who cancels its job is past the renames, so its backup is not its to lose.
LEMMA CancelJobKeepsBackup ==
  ASSUME TypeOK, BackupOwned, NEW r \in Request, CancelJob(r)
  PROVE  BackupOwned'
BY CancelJobMoves DEF BackupOwned

\* Nor does a request that has no backup take that of another.
LEMMA BystanderKeepsBackup ==
  ASSUME BackupOwned, NEW r \in Request, backup' = backup,
         step[Route(r)] \notin {"movedAway", "movedIn"},
         \A q \in Request : q # r => file'[q] = file[q] /\ step'[Route(q)] = step[Route(q)]
  PROVE  BackupOwned'
BY DEF BackupOwned

(***************************************************************************)
(* A backup file belongs to the replacement that made it.                  *)
(***************************************************************************)
LEMMA BackupKept ==
  ASSUME TypeOK, CoordInv, BodiesInSlot, SwapShape, BackupOwned, Next
  PROVE  BackupOwned'
<1> USE TaskFacts, SlotIsExclusive, NoGenAssumption
    DEF BackupOwned, SwapShape, SwapSteps, Outside, TypeOK, BodyTypeOK,
        Steps, NoRows, At, Goto, Continue, Finish, FinishAndSchedule, Settle,
        Purging, reqVars, fileVars, dbVars, owedVars, caseVars, bodyVars
<1>1. ASSUME NEW r \in Request, Ask(r)
      PROVE  BackupOwned'
  <2>1. /\ step[Route(r)] = "unborn" /\ backup' = backup
        /\ \A q \in Request : q # r => file'[q] = file[q] /\ step'[Route(q)] = step[Route(q)]
    BY <1>1 DEF Ask
  <2>2. step[Route(r)] \notin {"movedAway", "movedIn"}
    BY <2>1
  <2> HIDE DEF BackupOwned, SwapShape, TypeOK, BodyTypeOK
  <2> QED
    BY <2>1, <2>2, BystanderKeepsBackup
<1>2. ASSUME NEW r \in Request, RouteFindsNoCase(r)
      PROVE  BackupOwned'
  BY <1>2 DEF RouteFindsNoCase
<1>3. ASSUME NEW r \in Request, UploadRejected(r)
      PROVE  BackupOwned'
  BY <1>3 DEF UploadRejected
<1>4. ASSUME NEW r \in Request, UploadNewFile(r)
      PROVE  BackupOwned'
  BY <1>4 DEF UploadNewFile, StoreNewFile
<1>5. ASSUME NEW r \in Request, ScheduleReplacement(r)
      PROVE  BackupOwned'
  BY <1>5 DEF ScheduleReplacement
<1>6. ASSUME NEW r \in Request, SwapMoveAway(r)
      PROVE  BackupOwned'
  BY <1>6 DEF SwapMoveAway
<1>7. ASSUME NEW r \in Request, SwapMoveIn(r)
      PROVE  BackupOwned'
  BY <1>7 DEF SwapMoveIn
<1>8. ASSUME NEW r \in Request, SwapCommit(r)
      PROVE  BackupOwned'
  BY <1>8 DEF SwapCommit, CommitSwap
<1>9. ASSUME NEW r \in Request, SwapFail(r)
      PROVE  BackupOwned'
  BY <1>9 DEF SwapFail, AbandonSwap
<1>10. ASSUME NEW r \in Request, CancelJob(r)
      PROVE  BackupOwned'
  BY <1>10, CancelJobKeepsBackup
<1>11. ASSUME NEW r \in Request, ReplacementFails(r)
      PROVE  BackupOwned'
  BY <1>11 DEF ReplacementFails
<1>12. ASSUME NEW r \in Request, NothingToPurge(r)
      PROVE  BackupOwned'
  BY <1>12 DEF NothingToPurge
<1>13. ASSUME NEW r \in Request, PurgeRefused(r)
      PROVE  BackupOwned'
  BY <1>13 DEF PurgeRefused
<1>14. ASSUME NEW r \in Request, PurgeCommit(r)
      PROVE  BackupOwned'
  BY <1>14 DEF PurgeCommit
<1>15. ASSUME NEW r \in Request, PurgeDetect(r)
      PROVE  BackupOwned'
  BY <1>15 DEF PurgeDetect
<1>16. ASSUME NEW r \in Request, PurgeDetectFails(r)
      PROVE  BackupOwned'
  BY <1>16 DEF PurgeDetectFails
<1>17. ASSUME NEW r \in Request, AnalysisStart(r)
      PROVE  BackupOwned'
  BY <1>17 DEF AnalysisStart
<1>18. ASSUME NEW r \in Request, AnalysisEnd(r)
      PROVE  BackupOwned'
  BY <1>18 DEF AnalysisEnd
<1>19. ASSUME NEW r \in Request, RunDetections(r)
      PROVE  BackupOwned'
  BY <1>19 DEF RunDetections
<1>20. ASSUME NEW r \in Request, DeleteCase(r)
      PROVE  BackupOwned'
  <2>1. /\ step[Route(r)] = "asking" /\ backup' = backup /\ file' = file
        /\ \A q \in Request : q # r => step'[Route(q)] = step[Route(q)]
    BY <1>20 DEF DeleteCase
  <2>2. step[Route(r)] \notin {"movedAway", "movedIn"}
    BY <2>1
  <2> HIDE DEF BackupOwned, SwapShape, TypeOK, BodyTypeOK
  <2> QED
    BY <2>1, <2>2, BystanderKeepsBackup
<1>21. ASSUME NEW r \in Request, JobFindsNoCase(r)
      PROVE  BackupOwned'
  BY <1>21 DEF JobFindsNoCase
<1>22. ASSUME NEW r \in Request, IngestStart(r)
      PROVE  BackupOwned'
  BY <1>22 DEF IngestStart
<1>23. ASSUME NEW r \in Request, IngestRows(r)
      PROVE  BackupOwned'
  BY <1>23 DEF IngestRows
<1>24. ASSUME NEW r \in Request, IngestEmpty(r)
      PROVE  BackupOwned'
  BY <1>24 DEF IngestEmpty
<1>25. ASSUME NEW r \in Request, IngestArtifact(r)
      PROVE  BackupOwned'
  BY <1>25 DEF IngestArtifact
<1>26. ASSUME NEW r \in Request, IngestMemory(r)
      PROVE  BackupOwned'
  BY <1>26 DEF IngestMemory
<1>27. ASSUME NEW r \in Request, IngestFails(r)
      PROVE  BackupOwned'
  BY <1>27 DEF IngestFails
<1>28. ASSUME NEW r \in Request, DetectOwed(r)
      PROVE  BackupOwned'
  BY <1>28 DEF DetectOwed
<1>29. ASSUME NEW r \in Request, DetectOwedFails(r)
      PROVE  BackupOwned'
  BY <1>29 DEF DetectOwedFails
<1>30. ASSUME NEW r \in Request, Recover(r)
      PROVE  BackupOwned'
  BY <1>30 DEF Recover
<1>31. ASSUME NEW t \in Task, AskSlot(t)
      PROVE  BackupOwned'
  BY <1>31 DEF AskSlot
<1>32. ASSUME NEW t \in Task, WakeInSlot(t)
      PROVE  BackupOwned'
  BY <1>32 DEF WakeInSlot
<1>33. ASSUME NEW t \in Task, CancelledInQueue(t)
      PROVE  BackupOwned'
  BY <1>33, CancellationKeepsShape
<1>34. CASE CrashAndRestart
  BY <1>34 DEF CrashAndRestart, Restart
<1> QED
  BY <1>1, <1>2, <1>3, <1>4, <1>5, <1>6, <1>7, <1>8, <1>9, <1>10, <1>11,
     <1>12, <1>13, <1>14, <1>15, <1>16, <1>17, <1>18, <1>19, <1>20, <1>21,
     <1>22, <1>23, <1>24, <1>25, <1>26, <1>27, <1>28, <1>29, <1>30, <1>31,
     <1>32, <1>33, <1>34
     DEF Next, RequestStep, Upload, Purge, Ingest, TaskStep

(***************************************************************************)
(* Nothing puts evidence, rows or findings into a deleted case.            *)
(***************************************************************************)
LEMMA DeletedKept ==
  ASSUME TypeOK, CoordInv, BodiesInSlot, SwapShape, DeletedCaseStaysEmpty, Next
  PROVE  DeletedCaseStaysEmpty'
<1> SUFFICES ASSUME ~exists' PROVE DeletedCaseStaysEmpty'
  BY DEF DeletedCaseStaysEmpty
<1> USE NoGenAssumption
    DEF DeletedCaseStaysEmpty, Detect, Ingested, TypeOK, BodyTypeOK, NoRows, At, Purging
<1>1. ASSUME NEW r \in Request, DeleteCase(r)
      PROVE  DeletedCaseStaysEmpty'
  BY <1>1 DEF DeleteCase
<1>2. ASSUME UNCHANGED exists
      PROVE  /\ UNCHANGED <<disk, rows>>
             /\ findings' = {}
  <2> USE <1>2
  <2>1. ~exists /\ findings = {} /\ \A f \in File : disk[f] = NoGen /\ rows[f] = NoRows
    OBVIOUS
  <2>2. Ingested = {}
    BY <2>1
  <2>3. ASSUME NEW r \in Request
        PROVE  /\ ~UploadNewFile(r) /\ ~DeleteCase(r) /\ ~IngestRows(r) /\ ~PurgeCommit(r)
               /\ ~SwapMoveAway(r) /\ ~SwapMoveIn(r) /\ ~SwapCommit(r) /\ ~SwapFail(r)
    BY <2>1 DEF UploadNewFile, DeleteCase, IngestRows, PurgeCommit, SwapMoveAway,
       SwapMoveIn, SwapCommit, CommitSwap, SwapFail, AbandonSwap, SwapShape, SwapSteps
  <2>4. UNCHANGED disk
    <3>1. ASSUME NEW r \in Request, PurgeDetect(r)
          PROVE  UNCHANGED disk
      BY <2>1, <3>1 DEF PurgeDetect
    <3>2. CASE CrashAndRestart
      BY <3>2 DEF CrashAndRestart, Restart
    <3> QED
      BY <2>3, <3>1, <3>2, Frames DEF fileVars
  <2>5. UNCHANGED rows
    BY <2>3, Frames
  <2>6. findings' = {}
    <3>1. ASSUME NEW r \in Request,
                 \/ PurgeDetect(r) \/ RunDetections(r) \/ IngestMemory(r)
                 \/ DetectOwed(r) \/ Recover(r)
          PROVE  findings' = {}
      BY <2>1, <2>2, <3>1
         DEF PurgeDetect, RunDetections, IngestMemory, DetectOwed, Recover
    <3> QED
      BY <2>1, <2>3, <3>1, Frames
  <2> QED
    BY <2>4, <2>5, <2>6
<1> QED
  BY <1>1, <1>2, Frames

-----------------------------------------------------------------------------
LEMMA InitEstablishesPipelineInv == Init => PipelineInv
<1> SUFFICES ASSUME Init
             PROVE  PipelineInv
  OBVIOUS
<1> USE DEF Init
<1>1. CoordInv
  BY InitEstablishesInv
<1>2. BodyTypeOK
  <2>1. AnyFile \in File
    BY FileAssumption DEF AnyFile
  <2>2. crashes \in 0 .. MaxCrashes
    BY CrashAssumption
  <2>3. NoRows \in [Request -> Nat]
    BY DEF NoRows
  <2> QED
    BY <2>1, <2>2, <2>3 DEF BodyTypeOK, Steps
<1>3. SwapShape /\ BodiesInSlot
  BY TaskFacts DEF SwapShape, SwapSteps, BodiesInSlot, Outside, CoordInit
<1>4. BackupOwned /\ FullRebuildIsPending /\ DeletedCaseStaysEmpty
  BY DEF BackupOwned, FullRebuildIsPending, DeletedCaseStaysEmpty
<1> QED
  BY <1>1, <1>2, <1>3, <1>4 DEF PipelineInv, TypeOK, CoordInv

LEMMA StepKeepsPipelineInv == PipelineInv /\ [Next]_vars => PipelineInv'
<1> SUFFICES ASSUME PipelineInv, [Next]_vars
             PROVE  PipelineInv'
  OBVIOUS
<1>1. CASE Next
  <2>1. CoordInv'
    BY <1>1, CoordKept DEF PipelineInv
  <2>2. TypeOK'
    BY <1>1, <2>1, BodyTypeKept DEF PipelineInv, TypeOK, CoordInv
  <2> QED
    BY <1>1, <2>1, <2>2, BodiesKept, SwapShapeKept, BackupKept, FullRebuildKept,
       DeletedKept DEF PipelineInv
<1>2. CASE UNCHANGED vars
  <2>1. CoordInv'
    BY <1>2, StepKeepsInv DEF PipelineInv, vars
  <2>2. /\ UNCHANGED <<kind, file, step, disk, backup, rows, findings, pending>>
        /\ UNCHANGED <<fullPending, status, exists, dir, crashes, pc>>
    BY <1>2 DEF vars, bodyVars, coordVars, reqVars, fileVars, dbVars, owedVars, caseVars
  <2>3. BodyTypeOK'
    BY <2>2 DEF PipelineInv, TypeOK, BodyTypeOK
  <2>4. BodiesInSlot'
    BY <2>2 DEF PipelineInv, BodiesInSlot
  <2>5. SwapShape' /\ BackupOwned' /\ FullRebuildIsPending' /\ DeletedCaseStaysEmpty'
    BY <2>2 DEF PipelineInv, SwapShape, BackupOwned, FullRebuildIsPending,
       DeletedCaseStaysEmpty
  <2> QED
    BY <2>1, <2>3, <2>4, <2>5 DEF PipelineInv, TypeOK, CoordInv
<1> QED
  BY <1>1, <1>2

(***************************************************************************)
(* The inductive invariant holds for any number of requests, files and     *)
(* crashes.                                                                *)
(***************************************************************************)
THEOREM PipelineInvariant == Spec => []PipelineInv
BY InitEstablishesPipelineInv, StepKeepsPipelineInv, PTL DEF Spec

(***************************************************************************)
(* Every variable of the pipeline keeps its type.                          *)
(***************************************************************************)
THEOREM PipelineTypeCorrect == Spec => []TypeOK
<1>1. PipelineInv => TypeOK
  BY DEF PipelineInv
<1> QED
  BY <1>1, PipelineInvariant, PTL

(***************************************************************************)
(* One operation at a time works on the case, whatever requests arrive,    *)
(* fail, are cancelled or are cut off by a crash.                          *)
(***************************************************************************)
THEOREM PipelineOneOperation == Spec => []OneOperation
<1>1. PipelineInv => OneOperation
  BY DEF PipelineInv, CoordInv
<1> QED
  BY <1>1, PipelineInvariant, PTL

(***************************************************************************)
(* IngestionManager never remembers that a rebuild must be full without    *)
(* remembering that one must be made.                                      *)
(***************************************************************************)
THEOREM FullRebuildAlwaysPending == Spec => []FullRebuildIsPending
<1>1. PipelineInv => FullRebuildIsPending
  BY DEF PipelineInv
<1> QED
  BY <1>1, PipelineInvariant, PTL

(***************************************************************************)
(* No route or job that waited for the slot, and no restart, brings        *)
(* evidence, rows or findings of a deleted case back.                      *)
(***************************************************************************)
THEOREM DeletedCaseAlwaysEmpty == Spec => []DeletedCaseStaysEmpty
<1>1. PipelineInv => DeletedCaseStaysEmpty
  BY DEF PipelineInv
<1> QED
  BY <1>1, PipelineInvariant, PTL

-----------------------------------------------------------------------------
(* What holds as long as the backend does not crash: MaxCrashes = 0.       *)

LEMMA NoCrash ==
  ASSUME TypeOK, MaxCrashes = 0
  PROVE  ~CrashAndRestart
<1>1. crashes \in Nat /\ ~(crashes < 0)
  BY DEF TypeOK, BodyTypeOK
<1> QED
  BY <1>1 DEF CrashAndRestart, Restart

(***************************************************************************)
(* Findings lose their rows only in a step that leaves a full rebuild owed *)
(* or no findings, and the obligation ends only with a full rebuild.       *)
(***************************************************************************)
LEMMA StaleKept ==
  ASSUME TypeOK, StaleFindingsOwed, MaxCrashes = 0, Next
  PROVE  StaleFindingsOwed'
<1> USE DEF StaleFindingsOwed, Detect, Ingested, TypeOK, BodyTypeOK, dbVars, owedVars
<1>1. ASSUME NEW r \in Request, SwapCommit(r)
      PROVE  StaleFindingsOwed'
  BY <1>1 DEF SwapCommit, CommitSwap
<1>2. ASSUME NEW r \in Request, PurgeCommit(r) \/ DeleteCase(r)
      PROVE  StaleFindingsOwed'
  BY <1>2 DEF PurgeCommit, DeleteCase
<1>3. ASSUME NEW r \in Request, IngestRows(r)
      PROVE  StaleFindingsOwed'
  <2>1. \A f \in File, g \in Request : rows[f][g] > 0 => rows'[f][g] > 0
    <3> DEFINE d == disk[file[r]]
    <3>1. file[r] \in File /\ d \in Request
      BY <1>3 DEF IngestRows
    <3>2. rows' = [rows EXCEPT ![file[r]] = [rows[file[r]] EXCEPT ![d] = rows[file[r]][d] + 1]]
      BY <1>3 DEF IngestRows
    <3>3. ASSUME NEW f \in File, NEW g \in Request, rows[f][g] > 0
          PROVE  rows'[f][g] > 0
      <4>1. CASE f = file[r] /\ g = d
        <5>1. rows'[f][g] = rows[f][g] + 1 /\ rows[f][g] \in Nat
          BY <3>1, <3>2, <4>1
        <5> QED
          BY <5>1
      <4>2. CASE ~(f = file[r] /\ g = d)
        <5>1. rows'[f][g] = rows[f][g]
          BY <3>1, <3>2, <4>2
        <5> QED
          BY <3>3, <5>1
      <4> QED
        BY <4>1, <4>2
    <3> QED
      BY <3>3
  <2>2. Ingested \subseteq Ingested'
    BY <2>1
  <2> QED
    BY <1>3, <2>2 DEF IngestRows
<1>4. ASSUME NEW r \in Request, PurgeDetect(r) \/ RunDetections(r)
      PROVE  StaleFindingsOwed'
  BY <1>4 DEF PurgeDetect, RunDetections
<1>5. ASSUME NEW r \in Request, DetectOwed(r) \/ Recover(r)
      PROVE  StaleFindingsOwed'
  BY <1>5 DEF DetectOwed, Recover
<1>6. ASSUME NEW r \in Request, IngestMemory(r)
      PROVE  StaleFindingsOwed'
  BY <1>6 DEF IngestMemory
<1>7. ASSUME NEW r \in Request, IngestEmpty(r) \/ IngestArtifact(r)
      PROVE  StaleFindingsOwed'
  BY <1>7 DEF IngestEmpty, IngestArtifact
<1>8. CASE UNCHANGED <<rows, findings, owedVars>>
  BY <1>8
<1> QED
  BY <1>1, <1>2, <1>3, <1>4, <1>5, <1>6, <1>7, <1>8, NoCrash, Frames

(***************************************************************************)
(* A step moves file and rows together: the bytes a name stands for change *)
(* only where its rows are gone, and rows come only from those bytes.      *)
(***************************************************************************)
LEMMA RowsKept ==
  ASSUME TypeOK, CoordInv, BodiesInSlot, SwapShape, BackupOwned, RowsMatchEvidence,
         MaxCrashes = 0, Next
  PROVE  RowsMatchEvidence'
<1> USE DEF TypeOK, BodyTypeOK, At, fileVars, dbVars
<1>1. ASSUME NEW f \in File, NEW t \in Task, pc[t] = "holding",
             step[t] \notin {"movedAway", "movedIn"}
      PROVE  backup[f] = NoGen
  BY <1>1, TaskFacts, SlotIsExclusive DEF BackupOwned, Outside
<1>2. ASSUME NEW r \in Request, UploadNewFile(r)
      PROVE  RowsMatchEvidence'
  BY <1>2, <1>1, TaskFacts, NoGenAssumption
     DEF UploadNewFile, StoreNewFile, RowsMatchEvidence, Evidence
<1>3. ASSUME NEW r \in Request, SwapMoveAway(r)
      PROVE  RowsMatchEvidence'
  <2>1. backup[file[r]] = NoGen /\ disk[file[r]] # NoGen /\ UNCHANGED rows
    BY <1>1, <1>3, TaskFacts DEF SwapMoveAway, SwapShape
  <2> QED
    BY <1>3, <2>1 DEF SwapMoveAway, RowsMatchEvidence, Evidence
<1>4. ASSUME NEW r \in Request, SwapMoveIn(r)
      PROVE  RowsMatchEvidence'
  BY <1>4, TaskFacts DEF SwapMoveIn, SwapShape, RowsMatchEvidence, Evidence
<1>5. ASSUME NEW r \in Request, SwapCommit(r)
      PROVE  RowsMatchEvidence'
  BY <1>5 DEF SwapCommit, CommitSwap, RowsMatchEvidence, Evidence, NoRows
<1>6. ASSUME NEW r \in Request, SwapFail(r)
      PROVE  RowsMatchEvidence'
  BY <1>6 DEF SwapFail, AbandonSwap, RowsMatchEvidence, Evidence
<1>7. ASSUME NEW r \in Request, PurgeCommit(r)
      PROVE  RowsMatchEvidence'
  BY <1>7 DEF PurgeCommit, RowsMatchEvidence, Evidence, NoRows
<1>8. ASSUME NEW r \in Request, PurgeDetect(r)
      PROVE  RowsMatchEvidence'
  BY <1>8 DEF PurgeDetect, SwapShape, RowsMatchEvidence, Evidence, NoRows
<1>9. ASSUME NEW r \in Request, DeleteCase(r)
      PROVE  RowsMatchEvidence'
  BY <1>9 DEF DeleteCase, RowsMatchEvidence, NoRows
<1>10. ASSUME NEW r \in Request, IngestRows(r)
       PROVE  RowsMatchEvidence'
  <2> DEFINE d == disk[file[r]]
  <2>1. UNCHANGED <<disk, backup>> /\ d \in Request /\ Evidence(file[r]) = d
    BY <1>1, <1>10, TaskFacts DEF IngestRows, Evidence
  <2>2. rows' = [rows EXCEPT ![file[r]] = [rows[file[r]] EXCEPT ![d] = rows[file[r]][d] + 1]]
    BY <1>10 DEF IngestRows
  <2>3. ASSUME NEW f \in File, NEW g \in Request, rows'[f][g] > 0
        PROVE  Evidence(f) = g
    <3>1. CASE f = file[r] /\ g = d
      BY <2>1, <3>1
    <3>2. CASE ~(f = file[r] /\ g = d)
      <4>1. rows'[f][g] = rows[f][g]
        BY <2>2, <3>2
      <4> QED
        BY <2>3, <4>1 DEF RowsMatchEvidence
    <3> QED
      BY <3>1, <3>2
  <2> QED
    BY <2>1, <2>3 DEF RowsMatchEvidence, Evidence
<1>11. CASE UNCHANGED <<fileVars, rows>>
  BY <1>11 DEF RowsMatchEvidence, Evidence
<1> QED
  BY <1>2, <1>3, <1>4, <1>5, <1>6, <1>7, <1>8, <1>9, <1>10, <1>11, NoCrash, Frames

(***************************************************************************)
(* Without a crash, findings whose rows are gone are always owed a full    *)
(* rebuild: no interleaving and no failure drops the obligation.           *)
(***************************************************************************)
THEOREM StaleFindingsAlwaysOwed ==
  ASSUME MaxCrashes = 0
  PROVE  Spec => []StaleFindingsOwed
<1>1. Init => StaleFindingsOwed
  BY DEF Init, StaleFindingsOwed
<1>2. PipelineInv /\ StaleFindingsOwed /\ [Next]_vars => StaleFindingsOwed'
  <2>1. CASE UNCHANGED vars
    BY <2>1 DEF StaleFindingsOwed, Ingested, vars, bodyVars, dbVars, owedVars
  <2> QED
    BY <2>1, StaleKept DEF PipelineInv
<1> QED
  BY <1>1, <1>2, PipelineInvariant, PTL DEF Spec

(***************************************************************************)
(* Without a crash, the rows attributed to a file were read from the bytes *)
(* the file holds: replacement and rollback keep the two together.         *)
(***************************************************************************)
THEOREM RowsAlwaysMatchEvidence ==
  ASSUME MaxCrashes = 0
  PROVE  Spec => []RowsMatchEvidence
<1>1. Init => RowsMatchEvidence
  BY DEF Init, RowsMatchEvidence, NoRows
<1>2. PipelineInv /\ RowsMatchEvidence /\ [Next]_vars => RowsMatchEvidence'
  <2>1. CASE UNCHANGED vars
    BY <2>1 DEF RowsMatchEvidence, Evidence, vars, bodyVars, fileVars, dbVars
  <2> QED
    BY <2>1, RowsKept DEF PipelineInv
<1> QED
  BY <1>1, <1>2, PipelineInvariant, PTL DEF Spec

(***************************************************************************)
(* Without a crash, an accepted file disappears only in the last step of a *)
(* deletion or of the replacement that puts another file in its place.     *)
(***************************************************************************)
THEOREM EvidenceAlwaysSurvives ==
  ASSUME MaxCrashes = 0
  PROVE  Spec => EvidenceSurvives
<1> DEFINE Kept(f) ==
      Evidence(f) # NoGen /\ Evidence(f)' # Evidence(f) =>
        \E r \in Request :
          /\ kind[r] \in {"upload", "delete", "deleteCase"}
          /\ pc[Route(r)] = "holding" /\ step'[Route(r)] = "done"
          /\ kind[r] = "upload" => Evidence(f)' = r /\ rows'[f] = NoRows
<1>1. ASSUME PipelineInv, Next, NEW f \in File
      PROVE  Kept(f)
  <2> USE <1>1 DEF PipelineInv, TypeOK, BodyTypeOK, At, Evidence
  <2>1. ASSUME NEW g \in File, NEW t \in Task, pc[t] = "holding",
               step[t] \notin {"movedAway", "movedIn"}
        PROVE  backup[g] = NoGen
    BY <2>1, TaskFacts, SlotIsExclusive DEF BackupOwned, Outside
  <2>2. ASSUME NEW r \in Request, UploadNewFile(r)
        PROVE  Kept(f)
    BY <2>1, <2>2, TaskFacts DEF UploadNewFile, StoreNewFile
  <2>3. ASSUME NEW r \in Request, SwapMoveAway(r)
        PROVE  Kept(f)
    BY <2>1, <2>3, TaskFacts DEF SwapMoveAway, SwapShape
  <2>4. ASSUME NEW r \in Request, SwapMoveIn(r)
        PROVE  Kept(f)
    BY <2>4, TaskFacts DEF SwapMoveIn, SwapShape
  <2>5. ASSUME NEW r \in Request, SwapCommit(r)
        PROVE  Kept(f)
    BY <2>5, TaskFacts
       DEF SwapCommit, CommitSwap, SwapShape, SwapSteps, Finish, Goto
  <2>6. ASSUME NEW r \in Request, SwapFail(r)
        PROVE  Kept(f)
    BY <2>6 DEF SwapFail, AbandonSwap
  <2>7. ASSUME NEW r \in Request, PurgeDetect(r)
        PROVE  Kept(f)
    BY <2>7, TaskFacts DEF PurgeDetect, Finish, Goto
  <2>8. ASSUME NEW r \in Request, DeleteCase(r)
        PROVE  Kept(f)
    BY <2>8, TaskFacts DEF DeleteCase, Finish, Goto
  <2>9. CASE UNCHANGED fileVars
    BY <2>9 DEF fileVars
  <2> QED
    BY <2>2, <2>3, <2>4, <2>5, <2>6, <2>7, <2>8, <2>9, NoCrash, Frames
<1>2. PipelineInv /\ [Next]_vars => [\A f \in File : Kept(f)]_vars
  BY <1>1
<1> QED
  BY <1>2, PipelineInvariant, PTL DEF Spec, EvidenceSurvives
-----------------------------------------------------------------------------
(* A batch comes to rest assessed and released.                            *)

\* A job that works shows it.
StatusShown ==
  \A r \in Request :
    step[Job(r)] \in {"parsing", "stored", "detecting", "failed"} => status = "ingesting"

\* The ingestion of a replacement was scheduled before its swap.
JobScheduled ==
  \A r \in Request : step[Route(r)] \in SwapSteps => step[Job(r)] = "asking"

\* Nobody is cancelled but the job of a replacement that failed.
OnlyFailedCancel ==
  \A t \in Task : fut[t] \in {"cancelled", "doomed"} =>
    \E r \in Request : t = Job(r) /\ step[Route(r)] = "cancelling"

\* A detection that a ready case is owed has a job that will see it.
PendingCarried ==
  exists /\ status = "ready" /\ pending =>
    \E r \in Request : Live(Job(r)) /\ step[Route(r)] = "done"

\* What was ingested is in the findings, unless its detection is still to come.
Assessed ==
  crashes = 0 /\ ~pending
  /\ (\A r \in Request : step[Route(r)] # "purged" /\ step[Job(r)] # "stored")
    => Ingested \subseteq findings

NoAnalysis == \A r \in Request : step[Route(r)] # "analyzing"

(***************************************************************************)
(* Who moves: a route by its own steps, a job by its own or by those of    *)
(* its route.                                                              *)
(***************************************************************************)
LEMMA RouteMoves ==
  ASSUME TypeOK, Next, NEW q \in Request
  PROVE  \/ step'[Route(q)] = step[Route(q)]
         \/ CrashAndRestart \/ Ask(q) \/ RequestStep(q) \/ CancelledInQueue(Route(q))
<1> USE TaskFacts DEF TypeOK, BodyTypeOK, Goto
<1>1. ASSUME NEW r \in Request, Ask(r), r # q
      PROVE  step'[Route(q)] = step[Route(q)]
  BY <1>1 DEF Ask
<1>2. ASSUME NEW r \in Request, RequestStep(r), r # q
      PROVE  step'[Route(q)] = step[Route(q)]
  <2>1. ASSUME NEW s, Continue(Route(r), s) \/ Finish(Route(r)) \/ FinishAndSchedule(r)
        PROVE  step'[Route(q)] = step[Route(q)]
    BY <1>2, <2>1 DEF Continue, Finish, FinishAndSchedule
  <2>2. CASE CancelJob(r)
    BY <1>2, <2>2, CancelJobMoves DEF TypeOK
  <2>3. CASE ScheduleReplacement(r)
    BY <1>2, <2>3 DEF ScheduleReplacement
  <2> QED
    BY <1>2, <2>1, <2>2, <2>3
       DEF RequestStep, RouteFindsNoCase, Upload, UploadRejected, UploadNewFile,
           StoreNewFile, SwapMoveAway, SwapMoveIn, SwapCommit, CommitSwap, SwapFail,
           AbandonSwap, ReplacementFails, Purge, NothingToPurge, PurgeRefused,
           PurgeCommit, PurgeDetect, PurgeDetectFails, AnalysisStart, AnalysisEnd,
           RunDetections, DeleteCase
<1>3. ASSUME NEW r \in Request, Ingest(r)
      PROVE  step'[Route(q)] = step[Route(q)]
  <2>1. ASSUME NEW s, Continue(Job(r), s) \/ Finish(Job(r))
        PROVE  step'[Route(q)] = step[Route(q)]
    BY <2>1 DEF Continue, Finish
  <2> QED
    BY <1>3, <2>1
       DEF Ingest, JobFindsNoCase, IngestStart, IngestRows, IngestEmpty,
           IngestArtifact, IngestMemory, IngestFails, DetectOwed, DetectOwedFails,
           Recover, Settle
<1>4. ASSUME NEW t \in Task, TaskStep(t), ~(t = Route(q) /\ CancelledInQueue(t))
      PROVE  step'[Route(q)] = step[Route(q)]
  BY <1>4 DEF TaskStep, AskSlot, WakeInSlot, CancelledInQueue
<1> QED
  BY <1>1, <1>2, <1>3, <1>4 DEF Next

\* The steps of route r that schedule its job.
Schedules(r) == UploadNewFile(r) \/ ScheduleReplacement(r) \/ PurgeDetect(r)

LEMMA JobMoves ==
  ASSUME TypeOK, Next, NEW q \in Request
  PROVE  \/ step'[Job(q)] = step[Job(q)]
         \/ CrashAndRestart \/ Ingest(q) \/ CancelJob(q) \/ CancelledInQueue(Job(q))
         \/ Schedules(q) /\ step'[Job(q)] = "asking"
<1> USE TaskFacts DEF TypeOK, BodyTypeOK, Goto
<1>1. ASSUME NEW r \in Request, Ask(r)
      PROVE  step'[Job(q)] = step[Job(q)]
  BY <1>1 DEF Ask
<1>2. ASSUME NEW r \in Request, RequestStep(r), ~CancelJob(q)
      PROVE  \/ step'[Job(q)] = step[Job(q)]
             \/ Schedules(q) /\ step'[Job(q)] = "asking"
  <2>1. ASSUME NEW s, Continue(Route(r), s) \/ Finish(Route(r))
        PROVE  step'[Job(q)] = step[Job(q)]
    BY <2>1 DEF Continue, Finish
  <2>2. CASE CancelJob(r)
    <3>1. Job(q) # Job(r) /\ Job(q) # Route(r) /\ Job(q) \in Task
      BY <1>2, <2>2
    <3> QED
      BY <2>2, <3>1, CancelJobMoves
  <2>3. ASSUME FinishAndSchedule(r)
        PROVE  step'[Job(q)] = IF q = r THEN "asking" ELSE step[Job(q)]
    BY <2>3 DEF FinishAndSchedule
  <2>4. CASE UploadNewFile(r)
    BY <2>3, <2>4 DEF UploadNewFile, StoreNewFile, Schedules
  <2>5. CASE ScheduleReplacement(r)
    BY <2>5 DEF ScheduleReplacement, Schedules
  <2>6. CASE PurgeDetect(r)
    BY <2>1, <2>3, <2>6 DEF PurgeDetect, Schedules
  <2> QED
    BY <1>2, <2>1, <2>2, <2>4, <2>5, <2>6
       DEF RequestStep, RouteFindsNoCase, Upload, UploadRejected,
           SwapMoveAway, SwapMoveIn, SwapCommit, CommitSwap, SwapFail,
           AbandonSwap, ReplacementFails, Purge, NothingToPurge, PurgeRefused,
           PurgeCommit, PurgeDetectFails, AnalysisStart, AnalysisEnd,
           RunDetections, DeleteCase
<1>3. ASSUME NEW r \in Request, Ingest(r), r # q
      PROVE  step'[Job(q)] = step[Job(q)]
  <2>1. ASSUME NEW s, Continue(Job(r), s) \/ Finish(Job(r))
        PROVE  step'[Job(q)] = step[Job(q)]
    BY <1>3, <2>1 DEF Continue, Finish
  <2> QED
    BY <1>3, <2>1
       DEF Ingest, JobFindsNoCase, IngestStart, IngestRows, IngestEmpty,
           IngestArtifact, IngestMemory, IngestFails, DetectOwed, DetectOwedFails,
           Recover, Settle
<1>4. ASSUME NEW t \in Task, TaskStep(t), ~(t = Job(q) /\ CancelledInQueue(t))
      PROVE  step'[Job(q)] = step[Job(q)]
  BY <1>4 DEF TaskStep, AskSlot, WakeInSlot, CancelledInQueue
<1> QED
  BY <1>1, <1>2, <1>3, <1>4 DEF Next

LEMMA BodiesHold ==
  ASSUME NEW r \in Request
  PROVE  /\ RequestStep(r) => pc[Route(r)] = "holding"
         /\ Ingest(r) => pc[Job(r)] = "holding"
<1>1. ASSUME RequestStep(r)
      PROVE  pc[Route(r)] = "holding"
  BY <1>1
     DEF At, Purging, RequestStep, RouteFindsNoCase, Upload, UploadRejected, UploadNewFile,
         StoreNewFile, ScheduleReplacement, SwapMoveAway, SwapMoveIn, SwapCommit,
         CommitSwap, SwapFail, AbandonSwap, CancelJob, ReplacementFails, Purge,
         NothingToPurge, PurgeRefused, PurgeCommit, PurgeDetect, PurgeDetectFails,
         AnalysisStart, AnalysisEnd, RunDetections, DeleteCase
<1>2. ASSUME Ingest(r)
      PROVE  pc[Job(r)] = "holding"
  BY <1>2
     DEF At, Ingest, JobFindsNoCase, IngestStart, IngestRows, IngestEmpty,
         IngestArtifact, IngestMemory, IngestFails, DetectOwed, DetectOwedFails, Recover
<1> QED
  BY <1>1, <1>2

\* Which steps change the status and which the obligations.
LEMMA StatusFrames ==
  ASSUME Next
  PROVE  /\ \/ UNCHANGED status
            \/ CrashAndRestart
            \/ \E r \in Request : \/ AnalysisStart(r) \/ AnalysisEnd(r) \/ Ingest(r)
         /\ \/ UNCHANGED pending
            \/ CrashAndRestart
            \/ \E r \in Request : SwapCommit(r) \/ Ingest(r)
         /\ exists' => exists
<1>1. ASSUME NEW r \in Request, Ask(r)
      PROVE  UNCHANGED <<status, pending, exists>>
  BY <1>1 DEF Ask, owedVars, caseVars
<1>2. ASSUME NEW r \in Request, RequestStep(r)
      PROVE  /\ UNCHANGED status \/ AnalysisStart(r) \/ AnalysisEnd(r)
             /\ UNCHANGED pending \/ SwapCommit(r)
             /\ exists' => exists
  <2>1. UNCHANGED status \/ AnalysisStart(r) \/ AnalysisEnd(r)
    BY <1>2
       DEF RequestStep, RouteFindsNoCase, Upload, UploadRejected, UploadNewFile,
           StoreNewFile, ScheduleReplacement, SwapMoveAway, SwapMoveIn, SwapCommit,
           CommitSwap, SwapFail, AbandonSwap, CancelJob, ReplacementFails, Purge,
           NothingToPurge, PurgeRefused, PurgeCommit, PurgeDetect, PurgeDetectFails,
           AnalysisStart, AnalysisEnd, RunDetections, DeleteCase, bodyVars, owedVars, caseVars
  <2>2. UNCHANGED pending \/ SwapCommit(r)
    BY <1>2
       DEF RequestStep, RouteFindsNoCase, Upload, UploadRejected, UploadNewFile,
           StoreNewFile, ScheduleReplacement, SwapMoveAway, SwapMoveIn, SwapCommit,
           CommitSwap, SwapFail, AbandonSwap, CancelJob, ReplacementFails, Purge,
           NothingToPurge, PurgeRefused, PurgeCommit, PurgeDetect, PurgeDetectFails,
           AnalysisStart, AnalysisEnd, RunDetections, DeleteCase, bodyVars, owedVars, caseVars
  <2>3. exists' => exists
    BY <1>2
       DEF RequestStep, RouteFindsNoCase, Upload, UploadRejected, UploadNewFile,
           StoreNewFile, ScheduleReplacement, SwapMoveAway, SwapMoveIn, SwapCommit,
           CommitSwap, SwapFail, AbandonSwap, CancelJob, ReplacementFails, Purge,
           NothingToPurge, PurgeRefused, PurgeCommit, PurgeDetect, PurgeDetectFails,
           AnalysisStart, AnalysisEnd, RunDetections, DeleteCase, bodyVars, owedVars, caseVars
  <2> QED
    BY <2>1, <2>2, <2>3
<1>3. ASSUME NEW r \in Request, Ingest(r)
      PROVE  UNCHANGED exists
  BY <1>3
     DEF Ingest, JobFindsNoCase, IngestStart, IngestRows, IngestEmpty,
         IngestArtifact, IngestMemory, IngestFails, DetectOwed, DetectOwedFails,
         Recover, bodyVars, caseVars
<1>4. ASSUME NEW t \in Task, TaskStep(t)
      PROVE  UNCHANGED <<status, pending, exists>>
  BY <1>4 DEF TaskStep, AskSlot, WakeInSlot, CancelledInQueue, bodyVars, owedVars, caseVars
<1>5. CrashAndRestart => exists' = exists
  BY DEF CrashAndRestart, Restart
<1> QED
  BY <1>1, <1>2, <1>3, <1>4, <1>5 DEF Next

\* A job that goes on shows it, and one that ends while others wait leaves it so.
LEMMA IngestShows ==
  ASSUME TypeOK, StatusShown, NEW r \in Request, Ingest(r)
  PROVE  /\ step'[Job(r)] \in {"parsing", "stored", "detecting", "failed"} => status' = "ingesting"
         /\ status' = "ready" => \/ ~pending'
                                 \/ ~exists /\ UNCHANGED <<status, pending>>
         /\ status' \in {"ingesting", "analyzing"} =>
              \/ step'[Job(r)] \in {"parsing", "stored", "detecting", "failed"}
              \/ queued > 0 \/ ~exists
<1> USE TaskFacts
    DEF TypeOK, BodyTypeOK, At, Goto, Continue, Finish, StatusShown, bodyVars, owedVars, caseVars
<1>1. CASE JobFindsNoCase(r)
  <2>1. step'[Job(r)] = "done" /\ ~exists /\ UNCHANGED <<status, pending>>
    BY <1>1 DEF JobFindsNoCase
  <2> QED
    BY <2>1
<1>2. CASE IngestStart(r)
  BY <1>2 DEF IngestStart
<1>3. CASE IngestRows(r) \/ IngestFails(r) \/ DetectOwedFails(r)
  <2>1. status = "ingesting" /\ UNCHANGED status
    BY <1>3 DEF IngestRows, IngestFails, DetectOwedFails
  <2>2. step'[Job(r)] \in {"stored", "failed"}
    BY <1>3 DEF IngestRows, IngestFails, DetectOwedFails
  <2> QED
    BY <2>1, <2>2
<1>4. CASE IngestEmpty(r) \/ IngestArtifact(r) \/ IngestMemory(r)
  <2>1. status = "ingesting"
    BY <1>4 DEF IngestEmpty, IngestArtifact, IngestMemory
  <2>2. PICK owed \in BOOLEAN : Settle(r, owed)
    BY <1>4 DEF IngestEmpty, IngestArtifact, IngestMemory
  <2>3. \/ queued > 0 /\ step'[Job(r)] = "done" /\ UNCHANGED status
        \/ step'[Job(r)] = "detecting" /\ UNCHANGED status
        \/ ~owed /\ pending' = owed /\ step'[Job(r)] = "done" /\ status' = "ready"
    BY <2>2 DEF Settle
  <2> QED
    BY <2>1, <2>3
<1>5. CASE DetectOwed(r)
  <2>1. step'[Job(r)] = "done" /\ ~pending' /\ status' = "ready"
    BY <1>5 DEF DetectOwed
  <2> QED
    BY <2>1
<1>6. CASE Recover(r)
  <2>1. step'[Job(r)] = "done" /\ status' = "error"
    BY <1>6 DEF Recover
  <2> QED
    BY <2>1
<1> QED
  BY <1>1, <1>2, <1>3, <1>4, <1>5, <1>6 DEF Ingest

LEMMA CrashEnds ==
  ASSUME CrashAndRestart
  PROVE  /\ \A t \in Task : step'[t] \in {"unborn", "done"} /\ fut'[t] = "none"
         /\ status' \notin {"ingesting", "analyzing"} /\ ~pending'
BY DEF CrashAndRestart, Restart

(***************************************************************************)
(* A job that works shows it: the status changes only in the slot.         *)
(***************************************************************************)
LEMMA StatusShownKept ==
  ASSUME TypeOK, CoordInv, BodiesInSlot, StatusShown, Next
  PROVE  StatusShown'
<1> SUFFICES ASSUME NEW q \in Request,
                    step'[Job(q)] \in {"parsing", "stored", "detecting", "failed"}
             PROVE  status' = "ingesting"
  BY DEF StatusShown
<1>1. CASE CrashAndRestart
  BY <1>1, CrashEnds, TaskFacts
<1>2. CASE Ingest(q)
  BY <1>2, IngestShows
<1>3. CASE step'[Job(q)] = step[Job(q)] /\ ~Ingest(q) /\ ~CrashAndRestart
  <2>1. status = "ingesting"
    BY <1>3 DEF StatusShown
  <2>2. ASSUME NEW r \in Request, AnalysisStart(r) \/ AnalysisEnd(r) \/ Ingest(r)
        PROVE  FALSE
    <3>1. PICK t \in Task : t # Job(q) /\ pc[t] = "holding"
      BY <1>3, <2>2, BodiesHold, TaskFacts DEF RequestStep
    <3>2. step[Job(q)] \in Outside
      BY <3>1, SlotIsExclusive, TaskFacts
    <3> QED
      BY <1>3, <3>2 DEF Outside
  <2> QED
    BY <1>3, <2>1, <2>2, StatusFrames
<1>4. CASE CancelJob(q)
  <2>1. step'[Job(q)] = step[Job(q)]
    BY <1>4, CancelJobMoves, TaskFacts
  <2>2. status' = status
    BY <1>4 DEF CancelJob, bodyVars, caseVars
  <2> QED
    BY <2>1, <2>2 DEF StatusShown
<1>5. CASE CancelledInQueue(Job(q))
  BY <1>5, TaskFacts DEF CancelledInQueue, Goto, TypeOK, BodyTypeOK
<1> QED
  BY <1>1, <1>2, <1>3, <1>4, <1>5, JobMoves

(***************************************************************************)
(* Only the job of a replacement that failed is cancelled, and its route   *)
(* waits until it has unwound.                                             *)
(***************************************************************************)
LEMMA CancelKept ==
  ASSUME TypeOK, CoordInv, BodiesInSlot, SwapShape, OnlyFailedCancel, Next
  PROVE  OnlyFailedCancel'
<1> USE DEF TypeOK, CoordTypeOK
<1> SUFFICES ASSUME NEW t \in Task, fut'[t] \in {"cancelled", "doomed"}
             PROVE  \E r \in Request : t = Job(r) /\ step'[Route(r)] = "cancelling"
  BY DEF OnlyFailedCancel
<1>1. CASE CrashAndRestart
  BY <1>1, CrashEnds
<1>2. ASSUME NEW r \in Request, CancelJob(r), fut'[t] # fut[t]
      PROVE  t = Job(r) /\ step'[Route(r)] = "cancelling"
  BY <1>2, TaskFacts DEF CancelJob, RequestCancel, Goto, BodyTypeOK, coordVars
<1>3. fut[t] \in {"cancelled", "doomed"} \/ \E r \in Request : CancelJob(r) /\ fut'[t] # fut[t]
  <2>1. ASSUME NEW u \in Task,
               AcquireNow(u) \/ JoinQueue(u) \/ Resume(u) \/ UnwindCancelled(u) \/ Leave(u)
        PROVE  fut[t] \in {"cancelled", "doomed"}
    BY <2>1 DEF AcquireNow, JoinQueue, Resume, UnwindCancelled, Unwind, Leave, WakeFirst,
       PassedOn, WithoutFuture
  <2>2. ASSUME UNCHANGED coordVars
        PROVE  fut[t] \in {"cancelled", "doomed"}
    BY <2>2 DEF coordVars
  <2>3. ASSUME NEW u \in Task, TaskStep(u)
        PROVE  fut[t] \in {"cancelled", "doomed"}
    BY <2>1, <2>3 DEF TaskStep, AskSlot, WakeInSlot, CancelledInQueue
  <2>4. ASSUME NEW r \in Request, Ask(r)
        PROVE  fut[t] \in {"cancelled", "doomed"}
    BY <2>2, <2>4 DEF Ask
  <2>5. ASSUME NEW r \in Request, RequestStep(r), ~CancelJob(r)
        PROVE  fut[t] \in {"cancelled", "doomed"}
    BY <2>1, <2>2, <2>5, TaskFacts
       DEF Continue, Finish, FinishAndSchedule, RequestStep, RouteFindsNoCase, Upload,
           UploadRejected, UploadNewFile, StoreNewFile, ScheduleReplacement, SwapMoveAway,
           SwapMoveIn, SwapCommit, CommitSwap, SwapFail, AbandonSwap, ReplacementFails,
           Purge, NothingToPurge, PurgeRefused, PurgeCommit, PurgeDetect, PurgeDetectFails,
           AnalysisStart, AnalysisEnd, RunDetections, DeleteCase
  <2>6. ASSUME NEW r \in Request, Ingest(r)
        PROVE  fut[t] \in {"cancelled", "doomed"}
    BY <2>1, <2>2, <2>6, TaskFacts
       DEF Continue, Finish, Ingest, JobFindsNoCase, IngestStart, IngestRows, IngestEmpty,
           IngestArtifact, IngestMemory, IngestFails, DetectOwed, DetectOwedFails,
           Recover, Settle
  <2> QED
    BY <1>1, <1>2, <2>3, <2>4, <2>5, <2>6, CrashEnds DEF Next
<1>4. ASSUME fut[t] \in {"cancelled", "doomed"}, ~CrashAndRestart
      PROVE  \E r \in Request : t = Job(r) /\ step'[Route(r)] = "cancelling"
  <2>1. PICK r \in Request : t = Job(r) /\ step[Route(r)] = "cancelling"
    BY <1>4 DEF OnlyFailedCancel
  <2>2. pc[t] = "waiting" /\ step[t] # "done"
    BY <1>4 DEF CoordInv, QueueShape, BodiesInSlot
  <2>3. pc[Route(r)] = "holding"
    BY <2>1, TaskFacts DEF BodiesInSlot, Outside
  <2>4. ~Ask(r) /\ ~CancelledInQueue(Route(r))
    BY <2>1, <2>3 DEF Ask, SwapShape, CancelledInQueue, UnwindCancelled, Unwind
  <2>5. step'[Route(r)] = step[Route(r)]
    <3>1. step[Job(r)] # "done"
      BY <2>1, <2>2
    <3>2. ASSUME RequestStep(r)
          PROVE  step'[Route(r)] = step[Route(r)]
      BY <2>1, <3>1, <3>2
         DEF At, Purging, RequestStep, RouteFindsNoCase, Upload, UploadRejected, UploadNewFile,
             StoreNewFile, ScheduleReplacement, SwapMoveAway, SwapMoveIn, SwapCommit,
             CommitSwap, SwapFail, AbandonSwap, CancelJob, ReplacementFails, Purge,
             NothingToPurge, PurgeRefused, PurgeCommit, PurgeDetect, PurgeDetectFails,
             AnalysisStart, AnalysisEnd, RunDetections, DeleteCase
    <3> QED
      BY <1>4, <2>4, <3>2, RouteMoves
  <2> QED
    BY <2>1, <2>5
<1> QED
  BY <1>1, <1>2, <1>3, <1>4

\* A cancelled job is the job of a route that failed.
LEMMA CancelledWhere ==
  ASSUME OnlyFailedCancel, NEW t \in Task, CancelledInQueue(t)
  PROVE  \E r \in Request : t = Job(r) /\ step[Route(r)] = "cancelling"
BY DEF OnlyFailedCancel, CancelledInQueue, UnwindCancelled, Unwind

LEMMA JobScheduledKept ==
  ASSUME TypeOK, CoordInv, BodiesInSlot, OnlyFailedCancel, JobScheduled, Next
  PROVE  JobScheduled'
<1> USE DEF SwapSteps
<1> SUFFICES ASSUME NEW q \in Request, step'[Route(q)] \in SwapSteps
             PROVE  step'[Job(q)] = "asking"
  BY DEF JobScheduled
<1>1. ~CrashAndRestart
  BY CrashEnds, TaskFacts
<1>2. CASE ScheduleReplacement(q)
  BY <1>2, TaskFacts DEF ScheduleReplacement, TypeOK, BodyTypeOK
<1>3. CASE ~ScheduleReplacement(q)
  <2>1. ASSUME Ask(q) \/ CancelledInQueue(Route(q))
        PROVE  FALSE
    BY <2>1, TaskFacts DEF Ask, CancelledInQueue, Goto, TypeOK, BodyTypeOK
  <2>2. ASSUME RequestStep(q)
        PROVE  step[Route(q)] \in SwapSteps
    <3>1. \A s : Goto(Route(q), s) => step'[Route(q)] = s
      BY TaskFacts DEF Goto, TypeOK, BodyTypeOK
    <3>2. FinishAndSchedule(q) => step'[Route(q)] = "done"
      BY TaskFacts DEF FinishAndSchedule, TypeOK, BodyTypeOK
    <3>3. CancelJob(q) => step'[Route(q)] \notin SwapSteps
      BY CancelJobMoves, TaskFacts
    <3> QED
      BY <1>3, <2>2, <3>1, <3>2, <3>3
         DEF At, Continue, Finish, RequestStep, RouteFindsNoCase, Upload, UploadRejected,
             UploadNewFile, StoreNewFile, SwapMoveAway, SwapMoveIn, SwapCommit,
             CommitSwap, SwapFail, AbandonSwap, ReplacementFails, Purge,
             NothingToPurge, PurgeRefused, PurgeCommit, PurgeDetect, PurgeDetectFails,
             AnalysisStart, AnalysisEnd, RunDetections, DeleteCase
  <2>3. step[Route(q)] \in SwapSteps
    BY <1>1, <2>1, <2>2, RouteMoves
  <2>4. step[Job(q)] = "asking" /\ pc[Route(q)] = "holding"
    BY <2>3, TaskFacts DEF JobScheduled, BodiesInSlot, Outside
  <2>5. ~Ingest(q)
    BY <2>4, BodiesHold, SlotIsExclusive, TaskFacts
  <2>6. ~CancelJob(q)
    BY <2>3, CancelJobMoves
  <2>7. ~CancelledInQueue(Job(q))
    BY <2>3, CancelledWhere, TaskFacts
  <2> QED
    BY <1>1, <2>4, <2>5, <2>6, <2>7, JobMoves
<1> QED
  BY <1>2, <1>3

(***************************************************************************)
(* A ready case that is owed a detection has a job that will see it.       *)
(***************************************************************************)
LEMMA PendingCarriedKept ==
  ASSUME TypeOK, CoordInv, BodiesInSlot, SwapShape, StatusShown, JobScheduled,
         OnlyFailedCancel, PendingCarried, NoAnalysis, "analysis" \notin Kinds, Next
  PROVE  PendingCarried'
<1> SUFFICES ASSUME exists', status' = "ready", pending'
             PROVE  \E r \in Request : Live(Job(r))' /\ step'[Route(r)] = "done"
  BY DEF PendingCarried
<1>1. ~CrashAndRestart /\ exists
  BY CrashEnds, StatusFrames
<1>2. ASSUME NEW r \in Request, SwapCommit(r)
      PROVE  Live(Job(r))' /\ step'[Route(r)] = "done"
  <2>1. step[Job(r)] = "asking"
    BY <1>2 DEF SwapCommit, CommitSwap, At, JobScheduled, SwapSteps
  <2>2. step' = [step EXCEPT ![Route(r)] = "done"]
    BY <1>2 DEF SwapCommit, CommitSwap, Finish, Goto
  <2> QED
    BY <2>1, <2>2, TaskFacts DEF Live, TypeOK, BodyTypeOK
<1>3. ASSUME NEW r \in Request, Ingest(r)
      PROVE  FALSE
  BY <1>1, <1>3, IngestShows
<1>4. ASSUME NEW r \in Request, AnalysisStart(r) \/ AnalysisEnd(r)
      PROVE  FALSE
  BY <1>4 DEF AnalysisStart, AnalysisEnd, At, NoAnalysis
<1>5. CASE UNCHANGED <<status, pending>> /\ \A r \in Request : ~Ingest(r)
  <2>1. PICK r \in Request : Live(Job(r)) /\ step[Route(r)] = "done"
    BY <1>1, <1>5 DEF PendingCarried
  <2>2. pc[Route(r)] = "idle"
    BY <2>1, TaskFacts DEF BodiesInSlot
  <2>3. ~RequestStep(r) /\ ~Ask(r) /\ ~CancelledInQueue(Route(r))
    BY <2>1, <2>2, BodiesHold DEF Ask, SwapShape, CancelledInQueue, UnwindCancelled, Unwind
  <2>4. step'[Route(r)] = "done"
    BY <1>1, <2>1, <2>3, RouteMoves
  <2>5. ~CancelJob(r)
    BY <2>2, CancelJobMoves
  <2>6. ~CancelledInQueue(Job(r))
    BY <2>1, CancelledWhere, TaskFacts
  <2>7. step'[Job(r)] = step[Job(r)] \/ step'[Job(r)] = "asking"
    BY <1>1, <1>5, <2>5, <2>6, JobMoves
  <2> QED
    BY <2>1, <2>4, <2>7 DEF Live
<1> QED
  BY <1>1, <1>2, <1>3, <1>4, <1>5, StatusFrames

LEMMA CrashesFrame == Next => CrashAndRestart \/ crashes' = crashes
<1> SUFFICES ASSUME Next
             PROVE  CrashAndRestart \/ crashes' = crashes
  OBVIOUS
<1>1. ASSUME NEW r \in Request, Ask(r) \/ RequestStep(r) \/ Ingest(r)
      PROVE  crashes' = crashes
  <2>1. CASE Ask(r)
    BY <2>1 DEF Ask
  <2>2. CASE RequestStep(r)
    BY <2>2
       DEF RequestStep, RouteFindsNoCase, Upload, UploadRejected, UploadNewFile,
           StoreNewFile, ScheduleReplacement, SwapMoveAway, SwapMoveIn, SwapCommit,
           CommitSwap, SwapFail, AbandonSwap, CancelJob, ReplacementFails, Purge,
           NothingToPurge, PurgeRefused, PurgeCommit, PurgeDetect, PurgeDetectFails,
           AnalysisStart, AnalysisEnd, RunDetections, DeleteCase, bodyVars
  <2>3. CASE Ingest(r)
    BY <2>3
       DEF Ingest, JobFindsNoCase, IngestStart, IngestRows, IngestEmpty,
           IngestArtifact, IngestMemory, IngestFails, DetectOwed, DetectOwedFails,
           Recover, bodyVars
  <2> QED
    BY <1>1, <2>1, <2>2, <2>3
<1>2. ASSUME NEW t \in Task, TaskStep(t)
      PROVE  crashes' = crashes
  BY <1>2 DEF TaskStep, AskSlot, WakeInSlot, CancelledInQueue, bodyVars
<1> QED
  BY <1>1, <1>2 DEF Next

(***************************************************************************)
(* What was ingested reaches the findings, or somebody has yet to bring it *)
(* there: a parser or a detection that fails breaks this chain.            *)
(***************************************************************************)
LEMMA AssessedKept ==
  ASSUME TypeOK, CoordInv, BodiesInSlot, SwapShape, OnlyFailedCancel, Assessed,
         {"parse", "detect"} \cap Faults = {}, Next
  PROVE  Assessed'
<1> USE TaskFacts
    DEF TypeOK, BodyTypeOK, At, Goto, Continue, Finish, Detect, Ingested, dbVars, owedVars
<1> SUFFICES ASSUME crashes' = 0, ~pending',
                    \A r \in Request : step'[Route(r)] # "purged" /\ step'[Job(r)] # "stored"
             PROVE  Ingested' \subseteq findings'
  BY DEF Assessed
<1>1. ~CrashAndRestart /\ crashes = 0
  <2>1. crashes \in Nat
    BY CrashAssumption
  <2>2. ASSUME CrashAndRestart
        PROVE  FALSE
    BY <2>1, <2>2 DEF CrashAndRestart, Restart
  <2> QED
    BY <2>2, CrashesFrame
<1>2. ASSUME NEW r \in Request,
             SwapCommit(r) \/ PurgeCommit(r) \/ IngestRows(r) \/ IngestArtifact(r)
      PROVE  FALSE
  BY <1>2 DEF SwapCommit, CommitSwap, PurgeCommit, IngestRows, IngestArtifact, Settle
<1>3. ASSUME NEW r \in Request, DeleteCase(r)
      PROVE  Ingested' = {}
  BY <1>3 DEF DeleteCase, NoRows
<1> DEFINE Finds(r) == \/ PurgeDetect(r) \/ RunDetections(r) \/ IngestMemory(r) \/ DetectOwed(r)
                       \/ Recover(r) /\ fullPending
<1>4. ASSUME NEW r \in Request, Finds(r)
      PROVE  Ingested' \subseteq findings'
  BY <1>4 DEF PurgeDetect, RunDetections, IngestMemory, DetectOwed, Recover
<1>5. ASSUME NEW r \in Request, IngestEmpty(r) \/ (Recover(r) /\ ~fullPending)
      PROVE  UNCHANGED <<rows, findings, pending>>
  BY <1>5 DEF IngestEmpty, Recover, Settle
<1>6. CASE \A r \in Request : ~Finds(r) /\ ~DeleteCase(r)
  <2>1. UNCHANGED <<rows, findings, pending>>
    BY <1>1, <1>2, <1>5, <1>6, Frames
  <2>2. ASSUME NEW q \in Request, step[Route(q)] = "purged"
        PROVE  FALSE
    <3>1. ~Ask(q) /\ ~CancelledInQueue(Route(q))
      BY <2>2 DEF Ask, SwapShape, BodiesInSlot, Outside, CancelledInQueue, UnwindCancelled, Unwind
    <3>2. RequestStep(q)
      BY <1>1, <2>2, <3>1, RouteMoves
    <3>3. PurgeDetect(q) \/ PurgeDetectFails(q)
      BY <2>2, <3>2
         DEF Purging, RequestStep, RouteFindsNoCase, Upload, UploadRejected, UploadNewFile,
             StoreNewFile, ScheduleReplacement, SwapMoveAway, SwapMoveIn, SwapCommit,
             CommitSwap, SwapFail, AbandonSwap, CancelJob, ReplacementFails, Purge,
             NothingToPurge, PurgeRefused, PurgeCommit,
             AnalysisStart, AnalysisEnd, RunDetections, DeleteCase
    <3> QED
      BY <1>6, <3>3 DEF PurgeDetectFails
  <2>3. ASSUME NEW q \in Request, step[Job(q)] = "stored"
        PROVE  FALSE
    <3>1. pc[Job(q)] = "holding"
      BY <2>3 DEF BodiesInSlot, Outside
    <3>2. ~CancelJob(q) /\ ~CancelledInQueue(Job(q))
      BY <2>3, <3>1, CancelJobMoves DEF CancelledInQueue, UnwindCancelled, Unwind
    <3>3. ASSUME Schedules(q)
          PROVE  FALSE
      BY <3>1, <3>3, SlotIsExclusive DEF Schedules, UploadNewFile, StoreNewFile,
         ScheduleReplacement, PurgeDetect
    <3>4. Ingest(q)
      BY <1>1, <2>3, <3>2, <3>3, JobMoves
    <3> QED
      BY <1>2, <1>6, <2>3, <3>4
         DEF Ingest, JobFindsNoCase, IngestStart, IngestRows, IngestEmpty, IngestFails,
             DetectOwed, DetectOwedFails, Recover, IngestMemory
  <2> QED
    BY <1>1, <2>1, <2>2, <2>3 DEF Assessed
<1> QED
  BY <1>3, <1>4, <1>6

\* Nobody analyses where no analysis was asked for.
LEMMA NoAnalysisKept ==
  ASSUME TypeOK, CoordInv, BodiesInSlot, NoAnalysis, "analysis" \notin Kinds, Next
  PROVE  NoAnalysis'
<1> SUFFICES ASSUME NEW q \in Request, step'[Route(q)] = "analyzing"
             PROVE  FALSE
  BY DEF NoAnalysis
<1>1. \A s : Goto(Route(q), s) => step'[Route(q)] = s
  BY TaskFacts DEF Goto, TypeOK, BodyTypeOK
<1>2. FinishAndSchedule(q) => step'[Route(q)] = "done"
  BY TaskFacts DEF FinishAndSchedule, TypeOK, BodyTypeOK
<1>3. CancelJob(q) => step'[Route(q)] \in {"swapFailed", "cancelling"}
  BY CancelJobMoves, TaskFacts
<1>4. ScheduleReplacement(q) => step'[Route(q)] = "staged"
  BY TaskFacts DEF ScheduleReplacement, TypeOK, BodyTypeOK
<1>5. ~AnalysisStart(q)
  BY DEF AnalysisStart, TypeOK, BodyTypeOK
<1>6. ~RequestStep(q)
  BY <1>1, <1>2, <1>3, <1>4, <1>5
     DEF Continue, Finish, RequestStep, RouteFindsNoCase, Upload, UploadRejected,
         UploadNewFile, StoreNewFile, SwapMoveAway, SwapMoveIn, SwapCommit, CommitSwap,
         SwapFail, AbandonSwap, ReplacementFails, Purge, NothingToPurge, PurgeRefused,
         PurgeCommit, PurgeDetect, PurgeDetectFails, AnalysisEnd, RunDetections, DeleteCase
<1>7. ~Ask(q) /\ ~CancelledInQueue(Route(q))
  BY <1>1 DEF Ask, CancelledInQueue
<1> QED
  BY <1>6, <1>7, CrashEnds, TaskFacts, RouteMoves DEF NoAnalysis

BatchInv ==
  /\ StatusShown /\ OnlyFailedCancel /\ JobScheduled
  /\ PendingCarried /\ Assessed /\ NoAnalysis

(***************************************************************************)
(* Whatever uploads, replacements, deletions, re-ingestions and rebuilds   *)
(* meet, a case that comes to rest and is reported ready was assessed with *)
(* every row it holds, as long as no parser and no detection fails and no  *)
(* analysis, which reports its own end as ready, comes in between.         *)
(***************************************************************************)
THEOREM ReadyCaseAlwaysAssessed ==
  ASSUME "analysis" \notin Kinds, {"parse", "detect"} \cap Faults = {}
  PROVE  Spec => []ReadyCaseIsAssessed
<1>1. Init => BatchInv
  <2> SUFFICES ASSUME Init
               PROVE  BatchInv
    OBVIOUS
  <2>1. /\ \A t \in Task : step[t] = "unborn" /\ fut[t] = "none"
        /\ ~pending
    BY DEF Init, CoordInit
  <2>2. Ingested = {}
    BY DEF Init, Ingested, NoRows
  <2> QED
    BY <2>1, <2>2, TaskFacts DEF BatchInv, StatusShown, OnlyFailedCancel, JobScheduled,
       PendingCarried, Assessed, NoAnalysis, SwapSteps
<1>2. PipelineInv /\ BatchInv /\ [Next]_vars => BatchInv'
  <2>1. CASE UNCHANGED vars
    <3>1. /\ UNCHANGED <<step, fut, pending, rows, findings, status, exists, crashes>>
      BY <2>1 DEF vars, bodyVars, coordVars, dbVars, owedVars, caseVars
    <3> QED
      BY <3>1 DEF BatchInv, StatusShown, OnlyFailedCancel, JobScheduled, PendingCarried,
         Assessed, NoAnalysis, Live, Ingested
  <2>2. ASSUME PipelineInv, BatchInv, Next
        PROVE  BatchInv'
    BY <2>2, StatusShownKept, CancelKept, JobScheduledKept, PendingCarriedKept, AssessedKept,
       NoAnalysisKept DEF BatchInv, PipelineInv
  <2> QED
    BY <2>1, <2>2
<1>3. PipelineInv /\ BatchInv => ReadyCaseIsAssessed
  <2> SUFFICES ASSUME PipelineInv, BatchInv, AtRest, status = "ready", crashes = 0
               PROVE  Ingested \subseteq findings
    BY DEF ReadyCaseIsAssessed
  <2>1. CASE exists
    BY <2>1, TaskFacts DEF BatchInv, PendingCarried, Assessed, AtRest, Live
  <2>2. CASE ~exists
    BY <2>2 DEF PipelineInv, DeletedCaseStaysEmpty, Ingested, NoRows
  <2> QED
    BY <2>1, <2>2
<1> QED
  BY <1>1, <1>2, <1>3, PipelineInvariant, PTL DEF Spec

-----------------------------------------------------------------------------
\* A status that says the case is worked on has a task behind it.
Working == status \in {"ingesting", "analyzing"} => \E t \in Task : Live(t)

\* The case exists, and no replacement fails and nothing is purged.
OnlyUploads ==
  /\ exists
  /\ \A r \in Request : step[Route(r)] \notin {"swapFailed", "cancelling", "purged"}

(***************************************************************************)
(* Uploads and analyses are all there is, and none is given up: then no    *)
(* route ends in the slot without a job or a status of its own.            *)
(***************************************************************************)
LEMMA OnlyUploadsKept ==
  ASSUME TypeOK, CoordInv, BodiesInSlot, OnlyUploads,
         Kinds \subseteq {"upload", "analysis"}, "swap" \notin Faults, Next
  PROVE  OnlyUploads'
<1> USE TaskFacts DEF TypeOK, BodyTypeOK
<1>1. \A r \in Request : kind[r] \in {"none", "upload", "analysis"}
  OBVIOUS
<1>2. exists'
  BY <1>1, Frames DEF DeleteCase, OnlyUploads
<1>3. ASSUME NEW q \in Request, step'[Route(q)] \in {"swapFailed", "cancelling", "purged"}
      PROVE  FALSE
  <2>1. \A s : Goto(Route(q), s) => step'[Route(q)] = s
    BY DEF Goto
  <2>2. FinishAndSchedule(q) => step'[Route(q)] = "done"
    BY DEF FinishAndSchedule
  <2>3. ScheduleReplacement(q) => step'[Route(q)] = "staged"
    BY DEF ScheduleReplacement
  <2>4. ~CancelJob(q) /\ ~SwapFail(q) /\ ~PurgeCommit(q)
    BY <1>1 DEF CancelJob, At, OnlyUploads, SwapFail, AbandonSwap, PurgeCommit, Purging
  <2>5. ~RequestStep(q)
    BY <1>3, <2>1, <2>2, <2>3, <2>4
       DEF Continue, Finish, RequestStep, RouteFindsNoCase, Upload, UploadRejected,
           UploadNewFile, StoreNewFile, SwapMoveAway, SwapMoveIn, SwapCommit, CommitSwap,
           ReplacementFails, Purge, NothingToPurge, PurgeRefused, PurgeDetect,
           PurgeDetectFails, AnalysisStart, AnalysisEnd, RunDetections, DeleteCase
  <2>6. ~Ask(q) /\ ~CancelledInQueue(Route(q))
    BY <1>3, <2>1 DEF Ask, CancelledInQueue
  <2> QED
    BY <1>3, <2>5, <2>6, CrashEnds, RouteMoves DEF OnlyUploads
<1> QED
  BY <1>2, <1>3 DEF OnlyUploads

\* Who is live stays so, unless it moves.
LEMMA LiveStays ==
  ASSUME NEW t \in Task, Live(t), step'[t] = step[t]
  PROVE  Live(t)'
BY DEF Live

(***************************************************************************)
(* The last task that ends leaves no busy status: an upload leaves its     *)
(* job, a job that leaves the status leaves a waiter, and an analysis      *)
(* reports its end.                                                        *)
(***************************************************************************)
LEMMA WorkingKept ==
  ASSUME TypeOK, CoordInv, BodiesInSlot, StatusShown, JobScheduled, OnlyFailedCancel,
         OnlyUploads, Working,
         Kinds \subseteq {"upload", "analysis"}, {"reject", "swap"} \cap Faults = {}, Next
  PROVE  Working'
<1> USE TaskFacts DEF TypeOK, BodyTypeOK
<1> SUFFICES ASSUME status' \in {"ingesting", "analyzing"}
             PROVE  \E t \in Task : Live(t)'
  BY DEF Working
<1>1. ~CrashAndRestart
  BY CrashEnds
<1>2. ASSUME NEW r \in Request, Ingest(r)
      PROVE  \E t \in Task : Live(t)'
  <2>1. CASE step'[Job(r)] \in {"parsing", "stored", "detecting", "failed"}
    BY <2>1 DEF Live
  <2>2. CASE queued > 0
    <3> DEFINE w == waiters[1]
    <3>1. Len(waiters) \in Nat /\ Len(waiters) > 0 /\ w \in Task
      BY <2>2 DEF CoordInv, CoordTypeOK, QueuedNeverOverCounts
    <3>2. pc[w] = "waiting"
      BY <3>1 DEF CoordInv, QueueShape
    <3>3. step[w] = "asking"
      BY <3>1, <3>2 DEF BodiesInSlot, Outside
    <3>4. w # Job(r)
      BY <1>2, <3>2, BodiesHold
    <3>5. step'[w] = step[w]
      <4>1. ASSUME NEW s, Continue(Job(r), s) \/ Finish(Job(r))
            PROVE  step'[w] = step[w]
        BY <3>1, <3>4, <4>1 DEF Continue, Finish, Goto
      <4> QED
        BY <1>2, <4>1
           DEF Ingest, JobFindsNoCase, IngestStart, IngestRows, IngestEmpty,
               IngestArtifact, IngestMemory, IngestFails, DetectOwed, DetectOwedFails,
               Recover, Settle
    <3> QED
      BY <3>1, <3>3, <3>5 DEF Live
  <2> QED
    BY <1>2, <2>1, <2>2, IngestShows DEF OnlyUploads
<1>3. CASE \A r \in Request : ~Ingest(r)
  <2>1. ASSUME NEW r \in Request, RequestStep(r)
        PROVE  Live(Route(r))' \/ Live(Job(r))'
    <3>1. \A s : Goto(Route(r), s) => step'[Route(r)] = s
      BY DEF Goto
    <3>2. FinishAndSchedule(r) => step'[Job(r)] = "asking"
      BY DEF FinishAndSchedule
    <3>3. kind[r] \in {"none", "upload", "analysis"} /\ exists
      BY DEF OnlyUploads
    <3>4. ~AnalysisEnd(r)
      BY DEF AnalysisEnd
    <3>5. SwapCommit(r) => step'[Job(r)] = "asking"
      <4>1. ASSUME SwapCommit(r)
            PROVE  step'[Job(r)] = "asking"
        <5>1. step[Job(r)] = "asking"
          BY <4>1 DEF SwapCommit, CommitSwap, At, JobScheduled, SwapSteps
        <5> QED
          BY <4>1, <5>1 DEF SwapCommit, CommitSwap, Finish, Goto
      <4> QED
        BY <4>1
    <3>6. ScheduleReplacement(r) => step'[Job(r)] = "asking"
      BY DEF ScheduleReplacement
    <3>7. /\ ~CancelJob(r) /\ ~ReplacementFails(r) /\ ~SwapFail(r) /\ ~UploadRejected(r)
          /\ ~RouteFindsNoCase(r) /\ ~Purge(r) /\ ~RunDetections(r) /\ ~DeleteCase(r)
      BY <3>3 DEF OnlyUploads, At, Purging, CancelJob, ReplacementFails, SwapFail, AbandonSwap,
         UploadRejected, RouteFindsNoCase, Purge, NothingToPurge, PurgeRefused, PurgeCommit,
         PurgeDetect, PurgeDetectFails, RunDetections, DeleteCase
    <3>8. AnalysisStart(r) => step'[Route(r)] = "analyzing"
      BY <3>1 DEF AnalysisStart, Continue
    <3>9. UploadNewFile(r) => step'[Job(r)] = "asking"
      BY <3>2 DEF UploadNewFile, StoreNewFile
    <3>10. SwapMoveAway(r) => step'[Route(r)] = "movedAway"
      BY <3>1 DEF SwapMoveAway, Continue
    <3>11. SwapMoveIn(r) => step'[Route(r)] = "movedIn"
      BY <3>1 DEF SwapMoveIn, Continue
    <3> QED
      BY <2>1, <3>4, <3>5, <3>6, <3>7, <3>8, <3>9, <3>10, <3>11 DEF RequestStep, Upload, Live
  <2>2. ASSUME NEW r \in Request, Ask(r)
        PROVE  Live(Route(r))'
    BY <2>2 DEF Ask, Goto, Live
  <2>3. ASSUME NEW u \in Task, TaskStep(u)
        PROVE  UNCHANGED <<step, status>>
    <3>1. ~CancelledInQueue(u)
      BY CancelledWhere DEF OnlyUploads
    <3> QED
      BY <2>3, <3>1 DEF TaskStep, AskSlot, WakeInSlot, bodyVars, caseVars
  <2>4. ASSUME UNCHANGED <<step, status>>
        PROVE  \E t \in Task : Live(t)'
    BY <2>4, LiveStays DEF Working
  <2> QED
    BY <1>1, <1>3, <2>1, <2>2, <2>3, <2>4 DEF Next
<1> QED
  BY <1>2, <1>3

ReleaseInv == StatusShown /\ OnlyFailedCancel /\ JobScheduled /\ OnlyUploads /\ Working

(***************************************************************************)
(* Where uploads and analyses are all that is asked for, and no upload is  *)
(* rejected or fails half way, a case at rest does not look busy, however  *)
(* many there are, whatever parsers, detections and analyses fail and      *)
(* however often the backend restarts.                                     *)
(***************************************************************************)
THEOREM NoBusyStatusEverAtRest ==
  ASSUME Kinds \subseteq {"upload", "analysis"}, {"reject", "swap"} \cap Faults = {}
  PROVE  Spec => []NoBusyStatusAtRest
<1>1. Init => ReleaseInv
  <2> SUFFICES ASSUME Init
               PROVE  ReleaseInv
    OBVIOUS
  <2>1. /\ \A t \in Task : step[t] = "unborn" /\ fut[t] = "none"
        /\ status = "created" /\ exists
    BY DEF Init, CoordInit
  <2> QED
    BY <2>1, TaskFacts DEF ReleaseInv, StatusShown, OnlyFailedCancel, JobScheduled,
       OnlyUploads, Working, SwapSteps
<1>2. PipelineInv /\ ReleaseInv /\ [Next]_vars => ReleaseInv'
  <2>1. CASE UNCHANGED vars
    <3>1. UNCHANGED <<step, fut, status, exists>>
      BY <2>1 DEF vars, bodyVars, coordVars, caseVars
    <3> QED
      BY <3>1 DEF ReleaseInv, StatusShown, OnlyFailedCancel, JobScheduled, OnlyUploads,
         Working, Live
  <2>2. ASSUME PipelineInv, ReleaseInv, Next
        PROVE  ReleaseInv'
    <3>1. "swap" \notin Faults
      OBVIOUS
    <3> QED
      BY <2>2, <3>1, StatusShownKept, CancelKept, JobScheduledKept, OnlyUploadsKept, WorkingKept
         DEF ReleaseInv, PipelineInv
  <2> QED
    BY <2>1, <2>2
<1>3. ReleaseInv => NoBusyStatusAtRest
  BY DEF ReleaseInv, Working, NoBusyStatusAtRest, AtRest
<1> QED
  BY <1>1, <1>2, <1>3, PipelineInvariant, PTL DEF Spec
==============================================================================

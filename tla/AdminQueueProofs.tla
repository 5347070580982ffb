-------------------------- MODULE AdminQueueProofs --------------------------
(***************************************************************************)
(* Machine-checked proofs about AdminQueue, for any number of tasks and    *)
(* any depth of the admin rings.                                           *)
(*                                                                         *)
(* AdminInv is inductive.  io_lock lets one task at a time into            *)
(* NVMe_AdminCmd (LockHeld); as long as no poll has given up, each leaves  *)
(* the rings empty and in step behind it, so the entry whose phase bit     *)
(* matches can only be the completion of the task's own command            *)
(* (OneOutstanding).                                                       *)
(***************************************************************************)
EXTENDS AdminQueueInv, TLAPS

\* The ring successor stays in the ring and wraps only at its last entry.
LEMMA SuccInIndex ==
  ASSUME NEW i \in AIndex
  PROVE  /\ Succ(i) \in AIndex
         /\ i = ADepth - 1 => Succ(i) = 0
         /\ i # ADepth - 1 => Succ(i) = i + 1
         /\ Succ(i) # i
  BY AdminAssumption DEF Succ, AIndex

\* Going past the test changes the place and the history only.
LEMMA EnterType ==
  ASSUME TypeOK, NEW c \in Calls, Enter(c)
  PROVE  /\ pc' = [pc EXCEPT ![c] = "obtain"]
         /\ pc' \in [Calls -> Pc]
         /\ overlapped' \in SUBSET {"smart", "select"}
  BY DEF TypeOK, Enter, Goto, KindOf, Pc

\* What the steps of a call leave to the types of the rings: nothing but its
\* own entry and the consumption of one completion.
LEMMA CallType ==
  ASSUME TypeOK, NEW c \in Calls, Call(c)
  PROVE  TypeOK'
<1> USE AdminAssumption
<1>1. CASE Fresh(c)
  BY <1>1 DEF Fresh, TypeOK, Goto, Pc, ringVars, cacheVars, devVars
<1>2. CASE Refresh(c)
  BY <1>2, EnterType DEF Refresh, TypeOK, Data, ringVars, cacheVars, devVars
<1>3. CASE ModeSelect(c)
  <2>1. pc' \in [Calls -> Pc] /\ overlapped' \in SUBSET {"smart", "select"}
    BY <1>3, EnterType DEF ModeSelect, TypeOK, Goto, Pc
  <2> QED
    BY <1>3, <2>1 DEF ModeSelect, TypeOK, ringVars, cacheVars, devVars
<1>4. CASE Obtain(c)
  BY <1>4 DEF Obtain, TypeOK, Goto, Pc, ringVars, cacheVars, devVars
<1>5. CASE Issue(c)
  <2>1. Succ(admin_sq_tail) \in AIndex
    BY SuccInIndex DEF TypeOK
  <2> QED
    BY <1>5, <2>1 DEF Issue, TypeOK, Goto, Pc, cacheVars, devVars
<1>6. CASE Consume(c)
  <2>1. Succ(admin_cq_head) \in AIndex
    BY SuccInIndex DEF TypeOK
  <2>2. admin_cq[admin_cq_head].call \in Calls \cup {NULL}
    BY DEF TypeOK, AdminCQE
  <2> QED
    BY <1>6, <2>1, <2>2 DEF Consume, TypeOK, Goto, Pc, cacheVars, devVars
<1>7. CASE GiveUp(c)
  BY <1>7 DEF GiveUp, TypeOK, Goto, Pc, ringVars, cacheVars, devVars
<1>8. CASE Release(c)
  BY <1>8 DEF Release, TypeOK, Goto, Pc, ringVars, cacheVars, devVars
<1>9. CASE Apply(c)
  BY <1>9 DEF Apply, TypeOK, Goto, Pc, Wce, ringVars, devVars
<1> QED
  BY <1>1, <1>2, <1>3, <1>4, <1>5, <1>6, <1>7, <1>8, <1>9 DEF Call

\* The controller fetches only calls, because the ring is written up to its
\* tail, and every type is kept.
LEMMA TypeStep ==
  ASSUME TypeOK, RingWritten, [Next]_vars
  PROVE  TypeOK'
<1>1. ASSUME NEW c \in Calls, Call(c)
      PROVE  TypeOK'
  BY <1>1, CallType
<1>2. ASSUME NEW c \in Calls, NEW ok \in BOOLEAN, Complete(c, ok)
      PROVE  TypeOK'
  <2>1. Succ(dev_cq_tail) \in AIndex
    BY SuccInIndex DEF TypeOK
  <2>2. [call |-> c, phase |-> dev_cq_phase, ok |-> ok] \in AdminCQE
    BY DEF TypeOK, AdminCQE
  <2>3. Wce(c) \in BOOLEAN
    BY DEF Wce
  <2>4. identify_buf' \in Data /\ dev_wce' \in BOOLEAN
    BY <1>2, <2>3 DEF Complete, TypeOK, Data
  <2>5. dev_cq_phase' \in {0, 1} /\ working' \in SUBSET Calls
    BY <1>2 DEF Complete, TypeOK
  <2>6. admin_cq' \in [AIndex -> AdminCQE] /\ dev_cq_tail' \in AIndex
    BY <1>2, <2>1, <2>2 DEF Complete, TypeOK
  <2> QED
    BY <1>2, <2>4, <2>5, <2>6 DEF Complete, TypeOK, callVars, ringVars,
                                  cacheVars
<1>3. CASE MaskIrq \/ UnmaskIrq
  BY <1>3 DEF MaskIrq, UnmaskIrq, TypeOK, callVars, ringVars, cacheVars, devVars
<1>4. CASE Fetch
  <2>1. Succ(dev_sq_head) \in AIndex
    BY SuccInIndex DEF TypeOK
  <2>2. admin_sq[dev_sq_head] \in Calls
    BY <1>4 DEF Fetch, RingWritten, Between, TypeOK, AIndex
  <2> QED
    BY <1>4, <2>1, <2>2 DEF Fetch, TypeOK, callVars, ringVars, cacheVars
<1>5. CASE UNCHANGED vars
  BY <1>5 DEF vars, TypeOK, callVars, ringVars, cacheVars, devVars
<1> QED
  BY <1>1, <1>2, <1>3, <1>4, <1>5 DEF Next

\* An entry is written before the doorbell shows it, and fetching only shortens
\* the part of the ring that matters.
LEMMA WrittenStep ==
  ASSUME TypeOK, RingWritten, [Next]_vars
  PROVE  RingWritten'
<1>1. CASE UNCHANGED <<dev_sq_head, admin_sq, admin_sq_tail>>
  BY <1>1 DEF RingWritten, Between
<1>2. ASSUME NEW c \in Calls, Issue(c)
      PROVE  RingWritten'
  <2>1. /\ dev_sq_head \in AIndex /\ admin_sq_tail \in AIndex
        /\ dev_sq_head' = dev_sq_head
        /\ admin_sq_tail' = Succ(admin_sq_tail)
        /\ admin_sq \in [AIndex -> Calls \cup {NULL}]
        /\ admin_sq' = [admin_sq EXCEPT ![admin_sq_tail] = c]
        /\ admin_sq_tail = ADepth - 1 => Succ(admin_sq_tail) = 0
        /\ admin_sq_tail # ADepth - 1 => Succ(admin_sq_tail) = admin_sq_tail + 1
    BY <1>2, SuccInIndex DEF Issue, TypeOK, devVars
  <2>2. ASSUME NEW i \in Between(dev_sq_head, Succ(admin_sq_tail))
        PROVE  i = admin_sq_tail \/ i \in Between(dev_sq_head, admin_sq_tail)
    BY <2>1, AdminAssumption DEF Between, AIndex
  <2>3. \A i \in Between(dev_sq_head, Succ(admin_sq_tail)) : i \in AIndex
    BY DEF Between
  <2> QED
    BY <2>1, <2>2, <2>3 DEF RingWritten
<1>3. CASE Fetch
  <2>1. /\ dev_sq_head \in AIndex /\ admin_sq_tail \in AIndex
        /\ dev_sq_head # admin_sq_tail
        /\ dev_sq_head' = Succ(dev_sq_head)
        /\ UNCHANGED <<admin_sq, admin_sq_tail>>
    BY <1>3 DEF Fetch, TypeOK, ringVars
  <2>2. Between(Succ(dev_sq_head), admin_sq_tail)
          \subseteq Between(dev_sq_head, admin_sq_tail)
    BY <2>1, SuccInIndex, AdminAssumption DEF Between, AIndex
  <2> QED
    BY <2>1, <2>2 DEF RingWritten
<1>4. \/ \E c \in Calls : Issue(c)
      \/ Fetch
      \/ UNCHANGED <<dev_sq_head, admin_sq, admin_sq_tail>>
  BY DEF Next, Call, Fresh, Refresh, ModeSelect, Obtain, Consume, GiveUp,
         Release, Apply, Complete, MaskIrq, UnmaskIrq, vars, ringVars, devVars
<1> QED
  BY <1>1, <1>2, <1>3, <1>4

\* Only Obtain takes the semaphore, when nobody has it, and its owner keeps it
\* until it leaves NVMe_AdminCmd.
LEMMA LockStep ==
  ASSUME TypeOK, LockHeld, [Next]_vars
  PROVE  LockHeld'
<1> USE DEF LockHeld, TypeOK, Goto
<1>1. ASSUME NEW c \in Calls, Call(c)
      PROVE  LockHeld'
  <2>1. CASE Fresh(c)
    BY <2>1 DEF Fresh
  <2>2. CASE Refresh(c)
    BY <2>2 DEF Refresh, Enter
  <2>3. CASE ModeSelect(c)
    BY <2>3 DEF ModeSelect, Enter
  <2>4. CASE Obtain(c)
    BY <2>4, AdminAssumption DEF Obtain
  <2>5. CASE Issue(c)
    BY <2>5 DEF Issue
  <2>6. CASE Consume(c)
    BY <2>6 DEF Consume
  <2>7. CASE GiveUp(c)
    BY <2>7 DEF GiveUp
  <2>8. CASE Release(c)
    BY <2>8, AdminAssumption DEF Release
  <2>9. CASE Apply(c)
    BY <2>9 DEF Apply
  <2> QED
    BY <1>1, <2>1, <2>2, <2>3, <2>4, <2>5, <2>6, <2>7, <2>8, <2>9 DEF Call
<1>2. CASE UNCHANGED <<pc, io_lock>>
  BY <1>2
<1> QED
  BY <1>1, <1>2 DEF Next, Complete, MaskIrq, UnmaskIrq, Fetch, vars, callVars

\* A status is written where a poll ends and nowhere else.
LEMMA StatusStep ==
  ASSUME TypeOK, NoStatusYet, [Next]_vars
  PROVE  NoStatusYet'
<1> USE DEF NoStatusYet, TypeOK, Goto
<1>1. ASSUME NEW c \in Calls, Call(c)
      PROVE  NoStatusYet'
  <2>1. CASE Fresh(c)
    BY <2>1 DEF Fresh
  <2>2. CASE Refresh(c)
    BY <2>2 DEF Refresh, Enter
  <2>3. CASE ModeSelect(c)
    BY <2>3 DEF ModeSelect, Enter
  <2>4. CASE Obtain(c)
    BY <2>4 DEF Obtain
  <2>5. CASE Issue(c)
    BY <2>5 DEF Issue
  <2>6. CASE Consume(c)
    BY <2>6 DEF Consume
  <2>7. CASE GiveUp(c)
    BY <2>7 DEF GiveUp
  <2>8. CASE Release(c)
    BY <2>8 DEF Release
  <2>9. CASE Apply(c)
    BY <2>9 DEF Apply
  <2> QED
    BY <1>1, <2>1, <2>2, <2>3, <2>4, <2>5, <2>6, <2>7, <2>8, <2>9 DEF Call
<1>2. CASE UNCHANGED <<pc, status>>
  BY <1>2
<1> QED
  BY <1>1, <1>2 DEF Next, Complete, MaskIrq, UnmaskIrq, Fetch, vars, callVars

\* A call that has given up stays so, hence a step into a state without
\* timeouts comes from one.
LEMMA TimedOutGrows ==
  ASSUME TypeOK, NoStatusYet, [Next]_vars, TimedOut' = {}
  PROVE  TimedOut = {}
<1>1. CASE UNCHANGED status
  BY <1>1 DEF TimedOut
<1>2. ASSUME NEW c \in Calls, Consume(c) \/ GiveUp(c)
      PROVE  TimedOut = {}
  <2>1. status[c] = "none"
    BY <1>2 DEF Consume, GiveUp, NoStatusYet
  <2>2. \A d \in Calls \ {c} : status'[d] = status[d]
    BY <1>2 DEF Consume, GiveUp, TypeOK
  <2> QED
    BY <2>1, <2>2 DEF TimedOut
<1> QED
  BY <1>1, <1>2 DEF Next, Call, Fresh, Refresh, ModeSelect, Obtain, Issue,
     Release, Apply, Complete, MaskIrq, UnmaskIrq, Fetch, vars, callVars

\* No step that ends without a timeout is a GiveUp.
LEMMA NoGiveUp ==
  ASSUME TypeOK, NEW c \in Calls, GiveUp(c)
  PROVE  TimedOut' # {}
  BY DEF GiveUp, TimedOut, TypeOK


-----------------------------------------------------------------------------
(* One outstanding command.                                                *)

\* The variables Quiet and Outstanding speak of.
ringState == <<admin_sq, admin_sq_tail, admin_cq_head, admin_cq_phase,
               dev_sq_head, working, admin_cq, dev_cq_tail, dev_cq_phase>>

\* A call that enters NVMe_AdminCmd finds the rings quiet and leaves its own
\* entry to be fetched.
LEMMA IssueOutstanding ==
  ASSUME TypeOK, LockHeld, NEW c \in Calls, Issue(c),
         Quiet \/ \E d \in Calls : pc[d] = "poll" /\ Outstanding(d)
  PROVE  pc'[c] = "poll" /\ Outstanding(c)'
<1>1. \A d \in Calls : pc[d] # "poll"
  BY DEF LockHeld, Issue
<1>2. Quiet
  BY <1>1
<1>3. /\ admin_sq_tail' = Succ(dev_sq_head) /\ admin_sq'[dev_sq_head] = c
      /\ UNCHANGED <<dev_sq_head, working, admin_cq_head, admin_cq_phase,
                     admin_cq, dev_cq_tail, dev_cq_phase>>
  BY <1>2 DEF Issue, Quiet, TypeOK, devVars
<1>4. working' = {} /\ CqEmpty'
  BY <1>2, <1>3 DEF Quiet, CqEmpty, PhasesFrom
<1>5. Succ(dev_sq_head)' = Succ(dev_sq_head')
  BY DEF Succ
<1> QED
  BY <1>3, <1>4, <1>5 DEF Issue, Goto, TypeOK, Outstanding, Succ

\* The entry a poll finds ready is the completion of its own command, and
\* consuming it leaves the rings quiet.
LEMMA ConsumeQuiet ==
  ASSUME TypeOK, LockHeld, NEW c \in Calls, Consume(c),
         \/ Quiet /\ (\A d \in Calls : pc[d] # "poll")
         \/ \E d \in Calls : pc[d] = "poll" /\ Outstanding(d)
  PROVE  /\ admin_cq[admin_cq_head].call = c
         /\ Quiet'
         /\ \A d \in Calls : pc'[d] # "poll"
<1>1. \A d \in Calls : pc[d] = "poll" => d = c
  BY DEF LockHeld, Consume
<1>2. Outstanding(c)
  BY <1>1 DEF Consume
<1>3. /\ admin_cq_head \in AIndex /\ admin_cq_phase \in {0, 1}
      /\ admin_cq[admin_cq_head].phase = admin_cq_phase
  BY DEF Consume, CqeReady, TypeOK
<1>4. ~CqEmpty
  <2>1. CqEmpty => admin_cq[admin_cq_head].phase = 1 - admin_cq_phase
    BY <1>3 DEF CqEmpty, PhasesFrom, AIndex
  <2> QED
    BY <1>3, <2>1
<1>5. dev_sq_head = admin_sq_tail /\ working = {} /\ CqHolds(c)
  BY <1>2, <1>4 DEF Outstanding
<1>6. /\ UNCHANGED <<admin_sq_tail, dev_sq_head, working, admin_cq,
                     dev_cq_tail, dev_cq_phase>>
      /\ admin_cq_head' = Succ(admin_cq_head)
      /\ admin_cq_phase' = IF Succ(admin_cq_head) = 0 THEN 1 - admin_cq_phase
                                                      ELSE admin_cq_phase
  BY DEF Consume, devVars
<1>7. ASSUME NEW i \in AIndex
      PROVE  PhasesFrom(admin_cq_head, admin_cq_phase, i)'
  <2> DEFINE h == admin_cq_head
             p == admin_cq_phase
  <2>1. i # h => admin_cq[i].phase = IF i < h THEN p ELSE 1 - p
    BY <1>5 DEF CqHolds, PhasesFrom
  <2>2. admin_cq[h].phase = p
    BY <1>3
  <2>3. admin_cq'[i].phase = admin_cq[i].phase
    BY <1>6
  <2>4. /\ h = ADepth - 1 => Succ(h) = 0
        /\ h # ADepth - 1 => Succ(h) = h + 1
    BY <1>3, SuccInIndex
  <2>5. CASE h = ADepth - 1
    <3>1. admin_cq_head' = 0 /\ admin_cq_phase' = 1 - p
      BY <1>6, <2>4, <2>5
    <3>2. admin_cq[i].phase = p
      BY <2>1, <2>2, <2>5, AdminAssumption DEF AIndex
    <3> QED
      BY <1>3, <2>3, <3>1, <3>2 DEF PhasesFrom, AIndex
  <2>6. CASE h # ADepth - 1
    <3>1. admin_cq_head' = h + 1 /\ admin_cq_phase' = p
      BY <1>3, <1>6, <2>4, <2>6 DEF AIndex
    <3>2. admin_cq[i].phase = IF i < h + 1 THEN p ELSE 1 - p
      BY <1>3, <2>1, <2>2 DEF AIndex
    <3> QED
      BY <2>3, <3>1, <3>2 DEF PhasesFrom
  <2> QED
    BY <2>5, <2>6
<1>8. CqEmpty'
  BY <1>5, <1>6, <1>7 DEF CqEmpty, CqHolds
<1>9. \A d \in Calls : pc'[d] # "poll"
  BY <1>1 DEF Consume, Goto, TypeOK
<1> QED
  BY <1>5, <1>6, <1>8, <1>9 DEF CqHolds, Quiet

\* Fetching moves the outstanding command from the ring into execution.
LEMMA FetchOutstanding ==
  ASSUME TypeOK, NEW c \in Calls, Outstanding(c), Fetch
  PROVE  Outstanding(c)'
<1>1. /\ dev_sq_head # admin_sq_tail
      /\ working' = working \cup {admin_sq[dev_sq_head]}
      /\ dev_sq_head' = Succ(dev_sq_head)
      /\ UNCHANGED <<admin_sq_tail, admin_cq_head, admin_cq_phase, admin_cq,
                     dev_cq_tail, dev_cq_phase>>
  BY DEF Fetch, ringVars
<1>2. /\ admin_sq_tail = Succ(dev_sq_head) /\ admin_sq[dev_sq_head] = c
      /\ working = {} /\ CqEmpty
  BY <1>1 DEF Outstanding
<1>3. CqEmpty'
  BY <1>1, <1>2 DEF CqEmpty, PhasesFrom
<1> QED
  BY <1>1, <1>2, <1>3 DEF Outstanding

\* Completing it posts its completion into the empty ring.
LEMMA CompleteOutstanding ==
  ASSUME TypeOK, NEW c \in Calls, Outstanding(c), NEW d \in Calls,
         NEW ok \in BOOLEAN, Complete(d, ok)
  PROVE  d = c /\ Outstanding(c)'
<1>1. /\ d \in working
      /\ working' = working \ {d}
      /\ admin_cq' = [admin_cq EXCEPT ![dev_cq_tail] =
                        [call |-> d, phase |-> dev_cq_phase, ok |-> ok]]
      /\ dev_cq_tail' = Succ(dev_cq_tail)
      /\ dev_cq_phase' = IF Succ(dev_cq_tail) = 0 THEN 1 - dev_cq_phase
                                                  ELSE dev_cq_phase
      /\ UNCHANGED <<admin_sq_tail, admin_cq_head, admin_cq_phase, dev_sq_head>>
  BY DEF Complete, ringVars
<1>2. dev_sq_head = admin_sq_tail /\ working = {c} /\ CqEmpty
  BY <1>1 DEF Outstanding
<1>3. d = c /\ working' = {}
  BY <1>1, <1>2
<1>4. /\ dev_cq_tail = admin_cq_head /\ dev_cq_phase = admin_cq_phase
      /\ admin_cq_head \in AIndex
      /\ admin_cq \in [AIndex -> AdminCQE]
  BY <1>2 DEF CqEmpty, TypeOK
<1>5. /\ admin_cq'[admin_cq_head].phase = admin_cq_phase
      /\ admin_cq'[admin_cq_head].call = c
      /\ \A i \in AIndex \ {admin_cq_head} : admin_cq'[i] = admin_cq[i]
  BY <1>1, <1>3, <1>4
<1>6. CqeReady' /\ (admin_cq[admin_cq_head].call)' = c
  BY <1>1, <1>5 DEF CqeReady
<1>7. \A i \in AIndex \ {admin_cq_head'} :
        PhasesFrom(admin_cq_head, admin_cq_phase, i)'
  BY <1>1, <1>2, <1>5 DEF CqEmpty, PhasesFrom
<1>8. CqHolds(c)'
  BY <1>1, <1>4, <1>6, <1>7 DEF CqHolds, Succ
<1> QED
  BY <1>1, <1>2, <1>3, <1>8 DEF Outstanding

\* As long as no poll gives up, at most the polling call's command is
\* outstanding.
LEMMA OutstandingStep ==
  ASSUME TypeOK, LockHeld, NoStatusYet, OneOutstanding, [Next]_vars
  PROVE  OneOutstanding'
<1> SUFFICES ASSUME TimedOut' = {}
             PROVE  \/ Quiet' /\ \A c \in Calls : pc'[c] # "poll"
                    \/ \E c \in Calls : pc'[c] = "poll" /\ Outstanding(c)'
  BY DEF OneOutstanding
<1>1. \/ Quiet /\ \A c \in Calls : pc[c] # "poll"
      \/ \E c \in Calls : pc[c] = "poll" /\ Outstanding(c)
  BY TimedOutGrows DEF OneOutstanding
<1>2. CASE /\ UNCHANGED ringState
           /\ \A c \in Calls : pc'[c] = "poll" <=> pc[c] = "poll"
  <2>1. Quiet' <=> Quiet
    BY <1>2 DEF ringState, Quiet, CqEmpty, PhasesFrom
  <2>2. \A c \in Calls : Outstanding(c)' <=> Outstanding(c)
    BY <1>2 DEF ringState, Outstanding, CqEmpty, CqHolds, PhasesFrom, CqeReady,
                Succ
  <2> QED
    BY <1>1, <1>2, <2>1, <2>2
<1>3. ASSUME NEW c \in Calls, Issue(c)
      PROVE  \E d \in Calls : pc'[d] = "poll" /\ Outstanding(d)'
  BY <1>1, <1>3, IssueOutstanding
<1>4. ASSUME NEW c \in Calls, Consume(c)
      PROVE  Quiet' /\ \A d \in Calls : pc'[d] # "poll"
  BY <1>1, <1>4, ConsumeQuiet
<1>5. CASE Fetch
  <2>1. PICK c \in Calls : pc[c] = "poll" /\ Outstanding(c)
    BY <1>1, <1>5 DEF Fetch, Quiet
  <2>2. pc' = pc
    BY <1>5 DEF Fetch, callVars
  <2> QED
    BY <1>5, <2>1, <2>2, FetchOutstanding
<1>6. ASSUME NEW d \in Calls, NEW ok \in BOOLEAN, Complete(d, ok)
      PROVE  \E c \in Calls : pc'[c] = "poll" /\ Outstanding(c)'
  <2>1. PICK c \in Calls : pc[c] = "poll" /\ Outstanding(c)
    BY <1>1, <1>6 DEF Complete, Quiet
  <2>2. pc' = pc
    BY <1>6 DEF Complete, callVars
  <2> QED
    BY <1>6, <2>1, <2>2, CompleteOutstanding
<1>7. ASSUME NEW c \in Calls,
             \/ Fresh(c) \/ Refresh(c) \/ ModeSelect(c) \/ Obtain(c)
             \/ Release(c) \/ Apply(c)
      PROVE  /\ UNCHANGED ringState
             /\ \A d \in Calls : pc'[d] = "poll" <=> pc[d] = "poll"
  BY <1>7 DEF Fresh, Refresh, ModeSelect, Obtain, Release, Apply, Enter, Goto,
              TypeOK, ringState, ringVars, devVars
<1>8. CASE MaskIrq \/ UnmaskIrq \/ UNCHANGED vars
  BY <1>2, <1>8 DEF MaskIrq, UnmaskIrq, vars, callVars, ringVars, devVars,
                    ringState
<1>9. \A c \in Calls : ~GiveUp(c)
  BY NoGiveUp
<1> QED
  BY <1>2, <1>3, <1>4, <1>5, <1>6, <1>7, <1>8, <1>9 DEF Next, Call

\* The status of a call is that of its own command.
LEMMA AnswersStep ==
  ASSUME TypeOK, LockHeld, NoStatusYet, OneOutstanding, AnswersOwn, [Next]_vars
  PROVE  AnswersOwn'
<1> SUFFICES ASSUME TimedOut' = {}, NEW c \in Calls, status'[c] # "none"
             PROVE  answered'[c] = c
  BY DEF AnswersOwn
<1>1. TimedOut = {}
  BY TimedOutGrows
<1>2. status[c] # "none" => answered[c] = c
  BY <1>1 DEF AnswersOwn
<1>3. CASE UNCHANGED <<status, answered>>
  BY <1>2, <1>3
<1>4. ASSUME NEW d \in Calls, Consume(d)
      PROVE  answered'[c] = c
  <2>1. admin_cq[admin_cq_head].call = d
    BY <1>1, <1>4, ConsumeQuiet DEF OneOutstanding
  <2>2. answered' = [answered EXCEPT ![d] = d]
    BY <1>4, <2>1 DEF Consume
  <2>3. c # d => status'[c] = status[c]
    BY <1>4 DEF Consume, TypeOK
  <2> QED
    BY <1>2, <2>2, <2>3 DEF TypeOK
<1>5. \A d \in Calls : ~GiveUp(d)
  BY NoGiveUp
<1> QED
  BY <1>3, <1>4, <1>5 DEF Next, Call, Fresh, Refresh, ModeSelect, Obtain,
     Issue, Release, Apply, Complete, MaskIrq, UnmaskIrq, Fetch, vars, callVars

-----------------------------------------------------------------------------
(* What a successful command has done and its call has not yet applied.    *)

\* The part of the invariant proved so far.
RingInv == TypeOK /\ LockHeld /\ NoStatusYet /\ OneOutstanding

\* With nothing posted, no entry is ready.
LEMMA EmptyNotReady ==
  ASSUME TypeOK, CqEmpty
  PROVE  ~CqeReady
<1>1. admin_cq_head \in AIndex /\ admin_cq_phase \in {0, 1}
  BY DEF TypeOK
<1>2. admin_cq[admin_cq_head].phase = 1 - admin_cq_phase
  BY <1>1 DEF CqEmpty, PhasesFrom, AIndex
<1> QED
  BY <1>1, <1>2 DEF CqeReady

\* The history of overlaps only grows.
LEMMA OverlappedGrows ==
  ASSUME TypeOK, [Next]_vars
  PROVE  overlapped \subseteq overlapped'
<1>1. ASSUME NEW c \in Calls, Enter(c)
      PROVE  overlapped \subseteq overlapped'
  BY <1>1 DEF Enter
<1>2. overlapped' = overlapped \/ \E c \in Calls : Enter(c)
  BY DEF Next, Call, Fresh, Refresh, ModeSelect, Obtain, Issue, Consume,
     GiveUp, Release, Apply, Complete, MaskIrq, UnmaskIrq, Fetch, vars, callVars
<1> QED
  BY <1>1, <1>2

\* A call becomes busy by going past its test, which is recorded as an overlap
\* if another call of its kind is busy.
LEMMA BusyGrows ==
  ASSUME TypeOK, [Next]_vars, NEW kind \in {"smart", "select"},
         NEW c \in Busy(kind)', c \notin Busy(kind)
  PROVE  /\ Enter(c) /\ KindOf(c) = kind
         /\ IF kind = "smart" THEN Refresh(c) ELSE ModeSelect(c)
         /\ kind \notin overlapped' => Busy(kind) = {}
         /\ Busy(kind)' = Busy(kind) \cup {c}
<1>1. /\ c \in Calls /\ KindOf(c) = kind
      /\ pc'[c] \notin {"start", "done"}
      /\ pc[c] \in {"start", "done"}
  BY DEF Busy, KindOf
<1>2. ASSUME NEW d \in Calls, Call(d)
      PROVE  /\ d = c
             /\ Enter(c)
             /\ IF kind = "smart" THEN Refresh(c) ELSE ModeSelect(c)
  BY <1>1, <1>2 DEF Call, Fresh, Refresh, ModeSelect, Obtain, Issue, Consume,
     GiveUp, Release, Apply, Enter, Goto, TypeOK, KindOf
<1>3. Enter(c) /\ IF kind = "smart" THEN Refresh(c) ELSE ModeSelect(c)
  BY <1>1, <1>2 DEF Next, Complete, MaskIrq, UnmaskIrq, Fetch, vars, callVars
<1>4. kind \notin overlapped' => Busy(kind) = {}
  BY <1>1, <1>3 DEF Enter
<1>5. Busy(kind)' = Busy(kind) \cup {c}
  BY <1>1, <1>3 DEF Enter, Goto, TypeOK, Busy, KindOf
<1> QED
  BY <1>1, <1>3, <1>4, <1>5

\* Busy calls of a kind that has not overlapped stay alone.
LEMMA AloneStep ==
  ASSUME TypeOK, BusyAlone, [Next]_vars
  PROVE  BusyAlone'
<1> SUFFICES ASSUME NEW kind \in {"smart", "select"}, kind \notin overlapped',
                    NEW c \in Busy(kind)', NEW d \in Busy(kind)'
             PROVE  c = d
  BY DEF BusyAlone
<1>1. kind \notin overlapped
  BY OverlappedGrows
<1>2. CASE c \in Busy(kind) /\ d \in Busy(kind)
  BY <1>1, <1>2 DEF BusyAlone
<1>3. CASE c \notin Busy(kind)
  BY <1>3, BusyGrows
<1>4. CASE d \notin Busy(kind)
  BY <1>4, BusyGrows
<1> QED
  BY <1>2, <1>3, <1>4

\* A completion makes exactly its own call a successful one, or a failed one.
LEMMA CompleteSucceeding ==
  ASSUME RingInv, TimedOut = {}, NEW d \in Calls, NEW ok \in BOOLEAN,
         Complete(d, ok)
  PROVE  /\ pc[d] = "poll" /\ ~Succeeding(d)
         /\ Succeeding(d)' <=> ok
         /\ \A c \in Calls \ {d} : Succeeding(c)' <=> Succeeding(c)
<1>1. PICK e \in Calls : pc[e] = "poll" /\ Outstanding(e)
  BY DEF RingInv, OneOutstanding, Complete, Quiet
<1>2. d = e /\ Outstanding(d)'
  BY <1>1, CompleteOutstanding DEF RingInv
<1>3. pc' = pc /\ status' = status /\ d \in working
  BY DEF Complete, callVars
<1>4. CqEmpty
  BY <1>1, <1>3 DEF Outstanding
<1>5. ~CqeReady
  BY <1>4, EmptyNotReady DEF RingInv
<1>6. CqeReady' /\ (admin_cq[admin_cq_head].ok)' = ok
  <2>1. /\ dev_cq_tail = admin_cq_head /\ dev_cq_phase = admin_cq_phase
        /\ admin_cq_head \in AIndex /\ admin_cq \in [AIndex -> AdminCQE]
    BY <1>4 DEF CqEmpty, RingInv, TypeOK
  <2>2. /\ admin_cq' = [admin_cq EXCEPT ![dev_cq_tail] =
                          [call |-> d, phase |-> dev_cq_phase, ok |-> ok]]
        /\ UNCHANGED <<admin_cq_head, admin_cq_phase>>
    BY DEF Complete, ringVars
  <2> QED
    BY <2>1, <2>2 DEF CqeReady
<1>7. \A c \in Calls \ {d} : pc[c] # "poll"
  BY <1>1, <1>2 DEF RingInv, LockHeld
<1>8. ~Succeeding(d) /\ (Succeeding(d)' <=> ok)
  BY <1>1, <1>2, <1>3, <1>5, <1>6 DEF Succeeding
<1>9. \A c \in Calls \ {d} : Succeeding(c)' <=> Succeeding(c)
  BY <1>3, <1>7 DEF Succeeding, Succeeded
<1> QED
  BY <1>1, <1>2, <1>8, <1>9

\* No other step changes whether a busy call has succeeded.
LEMMA SucceedingStep ==
  ASSUME RingInv, [Next]_vars, TimedOut' = {}, NEW c \in Calls,
         pc[c] \notin {"start", "done"}, pc'[c] \notin {"start", "done"},
         \A d \in Calls, ok \in BOOLEAN : ~Complete(d, ok)
  PROVE  Succeeding(c)' <=> Succeeding(c)
<1> USE DEF RingInv, TypeOK
<1>1. CASE /\ UNCHANGED <<admin_cq, admin_cq_head, admin_cq_phase>>
           /\ status'[c] = status[c]
           /\ \/ pc'[c] = pc[c]
              \/ pc[c] = "obtain" /\ pc'[c] = "issue"
              \/ pc[c] = "release" /\ pc'[c] = "apply"
  BY <1>1 DEF Succeeding, Succeeded, CqeReady
<1>2. ASSUME NEW d \in Calls, Issue(d)
      PROVE  Succeeding(c)' <=> Succeeding(c)
  <2>1. CASE c = d
    <3>1. \A e \in Calls : pc[e] # "poll"
      BY <1>2 DEF LockHeld, Issue
    <3>2. ~CqeReady
      BY <3>1, EmptyNotReady, TimedOutGrows DEF OneOutstanding, Quiet
    <3>3. ~CqeReady'
      BY <1>2, <3>2 DEF Issue, devVars, CqeReady
    <3> QED
      BY <1>2, <2>1, <3>2, <3>3 DEF Issue, Goto, Succeeding
  <2>2. CASE c # d
    BY <1>1, <1>2, <2>2 DEF Issue, Goto, devVars
  <2> QED
    BY <2>1, <2>2
<1>3. ASSUME NEW d \in Calls, Consume(d)
      PROVE  Succeeding(c)' <=> Succeeding(c)
  <2>1. CASE c = d
    BY <1>3, <2>1 DEF Consume, Goto, Succeeding, Succeeded
  <2>2. CASE c # d
    <3>1. pc[c] # "poll" /\ pc'[c] = pc[c] /\ status'[c] = status[c]
      BY <1>3, <2>2 DEF Consume, Goto, LockHeld
    <3> QED
      BY <3>1 DEF Succeeding, Succeeded
  <2> QED
    BY <2>1, <2>2
<1>4. ASSUME NEW d \in Calls,
             \/ Fresh(d) \/ Refresh(d) \/ ModeSelect(d) \/ Obtain(d)
             \/ Release(d) \/ Apply(d)
      PROVE  Succeeding(c)' <=> Succeeding(c)
  BY <1>1, <1>4 DEF Fresh, Refresh, ModeSelect, Obtain, Release, Apply, Enter,
                    Goto, ringVars, devVars
<1>5. CASE MaskIrq \/ UnmaskIrq \/ Fetch \/ UNCHANGED vars
  BY <1>1, <1>5 DEF MaskIrq, UnmaskIrq, Fetch, vars, callVars, ringVars, devVars
<1>6. \A d \in Calls : ~GiveUp(d)
  BY NoGiveUp
<1> QED
  BY <1>2, <1>3, <1>4, <1>5, <1>6 DEF Next, Call

\* A kind that has gone one by one after a step has done so before it.
LEMMA OneByOneBefore ==
  ASSUME TypeOK, NoStatusYet, [Next]_vars, NEW kind, OneByOne(kind)'
  PROVE  OneByOne(kind) /\ TimedOut = {} /\ TimedOut' = {} /\ kind \notin overlapped'
  BY TimedOutGrows, OverlappedGrows DEF OneByOne

\* A refresh that goes to parse the buffer finds the log there.
LEMMA LogStep ==
  ASSUME RingInv, BusyAlone, LogInBuffer, [Next]_vars
  PROVE  LogInBuffer'
<1> SUFFICES ASSUME OneByOne("smart")', NEW c \in Busy("smart")', Succeeding(c)'
             PROVE  identify_buf' = "log"
  BY DEF LogInBuffer
<1>1. /\ OneByOne("smart") /\ TimedOut = {} /\ TimedOut' = {}
      /\ "smart" \notin overlapped /\ "smart" \notin overlapped'
  BY OneByOneBefore DEF RingInv, OneByOne
<1>2. c \in Calls /\ Op[c] = "smart" /\ pc'[c] \notin {"start", "done"}
  BY DEF Busy, KindOf
<1>3. c \in Busy("smart")
  <2>1. Enter(c) => ~Succeeding(c)'
    BY <1>2 DEF Enter, Goto, Succeeding, RingInv, TypeOK
  <2> QED
    BY <2>1, BusyGrows DEF RingInv
<1>4. \A d \in Busy("smart") : d = c
  BY <1>1, <1>3 DEF BusyAlone
<1>5. ASSUME NEW d \in Calls, NEW ok \in BOOLEAN, Complete(d, ok)
      PROVE  identify_buf' = "log"
  <2>1. CASE d = c
    BY <1>1, <1>2, <1>5, <2>1, CompleteSucceeding DEF Complete
  <2>2. CASE d # c
    <3>1. pc[d] = "poll" /\ Succeeding(c)
      BY <1>1, <1>2, <1>5, <2>2, CompleteSucceeding
    <3>2. Op[d] # "smart"
      BY <1>4, <2>2, <3>1 DEF Busy, KindOf
    <3> QED
      BY <1>1, <1>3, <1>5, <3>1, <3>2 DEF Complete, LogInBuffer
  <2> QED
    BY <2>1, <2>2
<1>6. CASE \A d \in Calls, ok \in BOOLEAN : ~Complete(d, ok)
  <2>1. Succeeding(c)
    BY <1>1, <1>2, <1>3, <1>6, SucceedingStep DEF Busy
  <2>2. identify_buf = "log"
    BY <1>1, <1>3, <2>1 DEF LogInBuffer
  <2>3. ASSUME NEW d \in Calls, Refresh(d)
        PROVE  FALSE
    <3>1. d # c
      BY <1>3, <2>3 DEF Refresh, Busy
    <3>2. d \in Busy("smart")'
      BY <2>3 DEF Refresh, Enter, Goto, Busy, KindOf, RingInv, TypeOK
    <3>3. d \notin Busy("smart")
      BY <1>4, <3>1
    <3> QED
      BY <1>1, <1>3, <3>2, <3>3, BusyGrows DEF RingInv
  <2> QED
    BY <1>6, <2>2, <2>3 DEF Next, Call, Fresh, ModeSelect, Obtain, Issue,
       Consume, GiveUp, Release, Apply, MaskIrq, UnmaskIrq, Fetch, vars
<1> QED
  BY <1>5, <1>6

\* The cache is filled by a refresh that parses the log.
LEMMA CacheStep ==
  ASSUME RingInv, LogInBuffer, CacheReal, [Next]_vars
  PROVE  CacheReal'
<1> SUFFICES ASSUME OneByOne("smart")'
             PROVE  smart_cache' \in {"none", "log"}
  BY DEF CacheReal, OneByOne
<1>1. OneByOne("smart") /\ smart_cache \in {"none", "log"}
  BY OneByOneBefore DEF RingInv, CacheReal, OneByOne
<1>2. ASSUME NEW c \in Calls, Apply(c), smart_cache' # smart_cache
      PROVE  smart_cache' = "log"
  <2>1. c \in Busy("smart") /\ Succeeding(c) /\ smart_cache' = identify_buf
    BY <1>2 DEF Apply, Busy, KindOf, Succeeding
  <2> QED
    BY <1>1, <2>1 DEF LogInBuffer
<1> QED
  BY <1>1, <1>2 DEF Next, Call, Fresh, Refresh, ModeSelect, Obtain, Issue,
     Consume, GiveUp, Release, Complete, MaskIrq, UnmaskIrq, Fetch, vars,
     cacheVars

\* The steps that write the setting of the controller or the record of it.
LEMMA WceWritten ==
  ASSUME [Next]_vars
  PROVE  \/ UNCHANGED <<dev_wce, vwc_enabled>>
         \/ \E c \in Calls : Op[c] # "smart" /\ Apply(c)
         \/ \E c \in Calls, ok \in BOOLEAN : Op[c] # "smart" /\ Complete(c, ok)
  BY DEF Next, Call, Fresh, Refresh, ModeSelect, Obtain, Issue, Consume, GiveUp,
     Release, Apply, Complete, MaskIrq, UnmaskIrq, Fetch, vars, cacheVars, devVars

\* A MODE SELECT under way accounts for the difference.
LEMMA LagStep ==
  ASSUME RingInv, BusyAlone, SelectLags, VwcTracks, [Next]_vars
  PROVE  SelectLags'
<1> SUFFICES ASSUME OneByOne("select")', NEW c \in Busy("select")'
             PROVE  dev_wce' = IF Succeeding(c)' THEN Wce(c) ELSE vwc_enabled'
  BY DEF SelectLags, Wce
<1>1. /\ OneByOne("select") /\ TimedOut = {} /\ TimedOut' = {}
      /\ "select" \notin overlapped /\ "select" \notin overlapped'
  BY OneByOneBefore DEF RingInv, OneByOne
<1>2. c \in Calls /\ Op[c] # "smart" /\ pc'[c] \notin {"start", "done"}
  BY DEF Busy, KindOf
<1>3. CASE c \notin Busy("select")
  <2>1. ModeSelect(c) /\ Enter(c) /\ Busy("select") = {}
    BY <1>1, <1>3, BusyGrows DEF RingInv
  <2>2. vwc_enabled = dev_wce
    BY <1>1, <2>1 DEF VwcTracks
  <2>3. ~Succeeding(c)'
    BY <1>2, <2>1 DEF Enter, Goto, Succeeding, RingInv, TypeOK
  <2>4. UNCHANGED <<vwc_enabled, dev_wce>>
    BY <2>1 DEF ModeSelect, cacheVars, devVars
  <2> QED
    BY <2>2, <2>3, <2>4
<1>4. CASE c \in Busy("select")
  <2>1. dev_wce = IF Succeeding(c) THEN Wce(c) ELSE vwc_enabled
    BY <1>1, <1>4 DEF SelectLags
  <2>2. \A d \in Busy("select") : d = c
    BY <1>1, <1>4 DEF BusyAlone
  <2>3. ASSUME NEW d \in Calls, NEW ok \in BOOLEAN, Complete(d, ok)
        PROVE  dev_wce' = IF Succeeding(c)' THEN Wce(c) ELSE vwc_enabled'
    <3>1. vwc_enabled' = vwc_enabled
      BY <2>3 DEF Complete, cacheVars
    <3>2. CASE d = c
      <4>1. ~Succeeding(c) /\ (Succeeding(c)' <=> ok)
        BY <1>1, <2>3, <3>2, CompleteSucceeding
      <4>2. dev_wce' = IF ok THEN Wce(c) ELSE dev_wce
        BY <1>2, <2>3, <3>2 DEF Complete
      <4> QED
        BY <2>1, <3>1, <4>1, <4>2
    <3>3. CASE d # c
      <4>1. pc[d] = "poll" /\ (Succeeding(c)' <=> Succeeding(c))
        BY <1>1, <1>2, <2>3, <3>3, CompleteSucceeding
      <4>2. Op[d] = "smart"
        BY <2>2, <3>3, <4>1 DEF Busy, KindOf
      <4>3. dev_wce' = dev_wce
        BY <2>3, <4>2 DEF Complete
      <4> QED
        BY <2>1, <3>1, <4>1, <4>3
    <3> QED
      BY <3>2, <3>3
  <2>4. CASE \A d \in Calls, ok \in BOOLEAN : ~Complete(d, ok)
    <3>1. Succeeding(c)' <=> Succeeding(c)
      BY <1>1, <1>2, <1>4, <2>4, SucceedingStep DEF Busy
    <3>2. ASSUME NEW d \in Calls, Op[d] # "smart", Apply(d)
          PROVE  FALSE
      <4>1. d \in Busy("select")
        BY <3>2 DEF Apply, Busy, KindOf
      <4> QED
        BY <1>2, <2>2, <3>2, <4>1 DEF Apply, Goto, RingInv, TypeOK
    <3>3. UNCHANGED <<dev_wce, vwc_enabled>>
      BY <2>4, <3>2, WceWritten
    <3> QED
      BY <2>1, <3>1, <3>3
  <2> QED
    BY <2>3, <2>4
<1> QED
  BY <1>3, <1>4

\* With no MODE SELECT under way the record is right.
LEMMA VwcStep ==
  ASSUME RingInv, BusyAlone, SelectLags, VwcTracks, [Next]_vars
  PROVE  VwcTracks'
<1> SUFFICES ASSUME OneByOne("select")', Busy("select")' = {}
             PROVE  vwc_enabled' = dev_wce'
  BY DEF VwcTracks, OneByOne
<1>1. OneByOne("select") /\ TimedOut = {} /\ "select" \notin overlapped
  BY OneByOneBefore DEF RingInv, OneByOne
<1>2. \A c \in Calls, ok \in BOOLEAN : Op[c] # "smart" => ~Complete(c, ok)
  <2>1. ASSUME NEW c \in Calls, NEW ok \in BOOLEAN, Op[c] # "smart",
               Complete(c, ok)
        PROVE  c \in Busy("select")'
    BY <1>1, <2>1, CompleteSucceeding DEF Complete, callVars, Busy, KindOf
  <2> QED
    BY <2>1
<1>3. CASE Busy("select") = {}
  <2>1. vwc_enabled = dev_wce
    BY <1>1, <1>3 DEF VwcTracks
  <2>2. \A c \in Calls : Op[c] # "smart" => ~Apply(c)
    BY <1>3 DEF Apply, Busy, KindOf
  <2> QED
    BY <1>2, <2>1, <2>2, WceWritten
<1>4. CASE Busy("select") # {}
  <2>1. PICK c \in Busy("select") : TRUE
    BY <1>4
  <2>2. /\ c \in Calls /\ Op[c] # "smart"
        /\ pc[c] \notin {"start", "done"} /\ pc'[c] \in {"start", "done"}
    BY <2>1 DEF Busy, KindOf
  <2>3. dev_wce = IF Succeeding(c) THEN Wce(c) ELSE vwc_enabled
    BY <1>1, <2>1 DEF SelectLags
  <2>4. \E d \in Calls : Call(d)
    BY <2>2 DEF Next, Complete, MaskIrq, UnmaskIrq, Fetch, vars, callVars
  <2>5. Apply(c)
    BY <2>2, <2>4 DEF Call, Fresh, Refresh, ModeSelect, Obtain, Issue, Consume,
       GiveUp, Release, Apply, Enter, Goto, RingInv, TypeOK
  <2>6. Succeeding(c) <=> Succeeded(c)
    BY <2>5 DEF Apply, Succeeding
  <2>7. dev_wce' = dev_wce
    BY <2>5 DEF Apply, devVars
  <2>8. vwc_enabled' = IF Succeeded(c) THEN Wce(c) ELSE vwc_enabled
    BY <2>2, <2>5 DEF Apply
  <2> QED
    BY <2>3, <2>6, <2>7, <2>8
<1> QED
  BY <1>3, <1>4

-----------------------------------------------------------------------------
\* Device initialisation leaves the invariant true.
LEMMA InitInv == Init => AdminInv
<1> SUFFICES ASSUME Init
             PROVE  AdminInv
  OBVIOUS
<1> USE AdminAssumption
<1>1. TypeOK
  BY DEF Init, TypeOK, AIndex, AdminCQE, Pc, Data
<1>2. RingWritten
  BY DEF Init, RingWritten, Between, AIndex
<1>3. LockHeld /\ NoStatusYet /\ AnswersOwn
  BY DEF Init, LockHeld, NoStatusYet, AnswersOwn
<1>4. Quiet
  BY DEF Init, Quiet, CqEmpty, PhasesFrom, AIndex
<1>5. \A c \in Calls : pc[c] # "poll"
  BY DEF Init
<1>6. \A kind : Busy(kind) = {}
  BY DEF Init, Busy
<1>7. BusyAlone /\ LogInBuffer /\ CacheReal /\ SelectLags /\ VwcTracks
  BY <1>6 DEF Init, BusyAlone, LogInBuffer, CacheReal, SelectLags, VwcTracks
<1> QED
  BY <1>1, <1>2, <1>3, <1>4, <1>5, <1>7 DEF AdminInv, OneOutstanding

\* Every step keeps it.
LEMMA NextInv == AdminInv /\ [Next]_vars => AdminInv'
  BY TypeStep, WrittenStep, LockStep, StatusStep, OutstandingStep, AnswersStep,
     AloneStep, LogStep, CacheStep, LagStep, VwcStep DEF AdminInv, RingInv

(* The invariant of the admin queue holds in every state: io_lock keeps    *)
(* tasks out of one another's NVMe_AdminCmd, and as long as no poll has    *)
(* given up at most one command is outstanding (nvme_admin.c:47-122).      *)
THEOREM AdminInvariant == Spec => []AdminInv
  BY InitInv, NextInv, PTL DEF Spec

(* Every variable keeps its type; the controller only fetches entries a    *)
(* call has written, with and without timeouts (nvme_admin.c:73-83).       *)
THEOREM AdminTypeCorrect == Spec => []TypeOK
<1>1. AdminInv => TypeOK
  BY DEF AdminInv
<1> QED
  BY <1>1, AdminInvariant, PTL

(* Until a poll gives up every task gets the status of its own command,    *)
(* for any number of tasks and any ring depth, although the poll compares  *)
(* nothing but the phase bit (nvme_admin.c:88-104).                        *)
THEOREM OwnAnswers == Spec => []AnswersOwn
<1>1. AdminInv => AnswersOwn
  BY DEF AdminInv
<1> QED
  BY <1>1, AdminInvariant, PTL

(* Refreshes of the SMART cache that do not overlap never leave anything   *)
(* but a health log in it, whatever MODE SELECTs come between the clearing *)
(* of the buffer, the command and the parse (nvme_admin.c:429-468).        *)
THEOREM CacheHoldsLog == Spec => []CacheReal
<1>1. AdminInv => CacheReal
  BY DEF AdminInv
<1> QED
  BY <1>1, AdminInvariant, PTL

(* MODE SELECTs that do not overlap leave vwc_enabled equal to the setting *)
(* the controller uses, refused commands included (scsi_mode.c:250-259).   *)
THEOREM VwcFollows == Spec => []VwcTracks
<1>1. AdminInv => VwcTracks
  BY DEF AdminInv
<1> QED
  BY <1>1, AdminInvariant, PTL

-----------------------------------------------------------------------------
(* Every completion answers one call, timeouts included.                   *)

\* A ring grows by the entry at its tail, unless that overruns it, and
\* shrinks by the entry at its head.
LEMMA RingGrows ==
  ASSUME NEW h \in AIndex, NEW t \in AIndex
  PROVE  /\ Between(h, Succ(t)) \subseteq Between(h, t) \cup {t}
         /\ Succ(t) # h => Between(h, Succ(t)) = Between(h, t) \cup {t}
         /\ t \notin Between(h, t)
  BY SuccInIndex, AdminAssumption DEF Between, AIndex

LEMMA RingShrinks ==
  ASSUME NEW h \in AIndex, NEW t \in AIndex, h # t
  PROVE  /\ Between(Succ(h), t) = Between(h, t) \ {h}
         /\ h \in Between(h, t)
  BY SuccInIndex, AdminAssumption DEF Between, AIndex

\* The entry at the head is of this pass exactly if the controller is ahead.
LEMMA ReadyPosted ==
  ASSUME TypeOK, PhasesInv
  PROVE  CqeReady <=> admin_cq_head # dev_cq_tail
  BY DEF TypeOK, PhasesInv, PhasesFrom, CqeReady, AIndex

LEMMA PhasesKeep ==
  ASSUME TypeOK, PhasesInv, [Next]_vars
  PROVE  PhasesInv'
<1>1. CASE UNCHANGED <<admin_cq_head, admin_cq_phase, admin_cq, dev_cq_tail,
                       dev_cq_phase>>
  BY <1>1 DEF PhasesInv, PhasesFrom
<1>2. ASSUME NEW c \in Calls, Consume(c)
      PROVE  PhasesInv'
  <2>1. /\ admin_cq_head \in AIndex /\ dev_cq_tail \in AIndex
        /\ admin_cq_phase \in {0, 1}
        /\ admin_cq_head # dev_cq_tail
        /\ admin_cq_head' = Succ(admin_cq_head)
        /\ admin_cq_phase' = IF Succ(admin_cq_head) = 0
                             THEN 1 - admin_cq_phase ELSE admin_cq_phase
        /\ UNCHANGED <<admin_cq, dev_cq_tail, dev_cq_phase>>
    BY <1>2, ReadyPosted DEF Consume, TypeOK, devVars
  <2>2. dev_cq_phase = IF Succ(admin_cq_head) <= dev_cq_tail
                       THEN admin_cq_phase' ELSE 1 - admin_cq_phase'
    BY <2>1, SuccInIndex, AdminAssumption DEF PhasesInv, AIndex
  <2> QED
    BY <2>1, <2>2 DEF PhasesInv, PhasesFrom
<1>3. ASSUME NEW c \in Calls, NEW ok \in BOOLEAN, Complete(c, ok)
      PROVE  PhasesInv'
  <2> DEFINE t == dev_cq_tail
             p == dev_cq_phase
  <2>1. /\ admin_cq_head \in AIndex /\ t \in AIndex
        /\ admin_cq_phase \in {0, 1} /\ p \in {0, 1}
        /\ Succ(t) # admin_cq_head
        /\ dev_cq_tail' = Succ(t)
        /\ dev_cq_phase' = IF Succ(t) = 0 THEN 1 - p ELSE p
        /\ UNCHANGED <<admin_cq_head, admin_cq_phase>>
    BY <1>3 DEF Complete, TypeOK, ringVars
  <2>2. /\ admin_cq'[t].phase = p
        /\ \A i \in AIndex \ {t} : admin_cq'[i].phase = admin_cq[i].phase
    BY <1>3 DEF Complete, TypeOK
  <2>3. \A i \in AIndex : admin_cq[i].phase = IF i < t THEN p ELSE 1 - p
    BY DEF PhasesInv, PhasesFrom
  <2>4. /\ t = ADepth - 1 => Succ(t) = 0
        /\ t # ADepth - 1 => Succ(t) = t + 1
    BY <2>1, SuccInIndex
  <2>5. dev_cq_phase' = IF admin_cq_head <= Succ(t) THEN admin_cq_phase
                                                   ELSE 1 - admin_cq_phase
    BY <2>1, <2>4, AdminAssumption DEF PhasesInv, AIndex
  <2>6. ASSUME NEW i \in AIndex
        PROVE  PhasesFrom(dev_cq_tail, dev_cq_phase, i)'
    <3>1. admin_cq'[i].phase = IF i <= t THEN p ELSE 1 - p
      BY <2>1, <2>2, <2>3 DEF AIndex
    <3>2. admin_cq'[i].phase =
            IF i < Succ(t) THEN dev_cq_phase' ELSE 1 - dev_cq_phase'
      BY <2>1, <2>4, <3>1, AdminAssumption DEF AIndex
    <3> QED
      BY <2>1, <3>2 DEF PhasesFrom
  <2> QED
    BY <2>1, <2>5, <2>6 DEF PhasesInv
<1> QED
  BY <1>1, <1>2, <1>3
     DEF Next, Call, Fresh, Refresh, ModeSelect, Obtain, Issue, GiveUp,
         Release, Apply, MaskIrq, UnmaskIrq, Fetch, vars, ringVars, devVars

\* The variables OnePlace speaks of, but for pc.
placeVars == <<dev_sq_head, admin_sq, admin_sq_tail, working, admin_cq,
               admin_cq_head, dev_cq_tail, answered>>

LEMMA PlaceKeeps ==
  ASSUME TypeOK, PhasesInv, OnePlace, [Next]_vars, RingWritten
  PROVE  OnePlace'
\* A call that does not touch the rings does not go back before its issue.
<1>1. ASSUME UNCHANGED placeVars,
             \A c \in Calls : pc'[c] \in {"start", "obtain", "issue"} =>
               pc[c] \in {"start", "obtain", "issue"}
      PROVE  OnePlace'
  <2>1. /\ Submitted' = Submitted /\ Posted' = Posted
        /\ UNCHANGED <<admin_sq, admin_cq, working, answered>>
    BY <1>1 DEF Submitted, Posted, Between, placeVars
  <2>2. \A c \in Calls :
          /\ InRing(c)' <=> InRing(c)
          /\ InPosted(c)' <=> InPosted(c)
          /\ Answered(c)' <=> Answered(c)
    BY <2>1 DEF InRing, InPosted, Answered
  <2> QED
    BY <1>1, <2>1, <2>2 DEF OnePlace
<1>2. ASSUME NEW c \in Calls, Issue(c)
      PROVE  OnePlace'
  <2>1. /\ pc[c] = "issue" /\ pc'[c] = "poll"
        /\ \A d \in Calls \ {c} : pc'[d] = pc[d]
        /\ admin_sq' = [admin_sq EXCEPT ![admin_sq_tail] = c]
        /\ admin_sq_tail' = Succ(admin_sq_tail)
        /\ UNCHANGED <<dev_sq_head, working, admin_cq, admin_cq_head,
                       dev_cq_tail, answered>>
    BY <1>2 DEF Issue, Goto, TypeOK, devVars
  <2>2. /\ Submitted' \subseteq Submitted \cup {admin_sq_tail}
        /\ admin_sq_tail \notin Submitted /\ Posted' = Posted
        /\ Submitted \subseteq AIndex
    BY <2>1, RingGrows DEF Submitted, Posted, Between, TypeOK
  <2>3. /\ admin_sq'[admin_sq_tail] = c
        /\ \A i \in Submitted : admin_sq'[i] = admin_sq[i]
    BY <2>1, <2>2 DEF TypeOK
  <2>4. ~InRing(c) /\ c \notin working /\ ~InPosted(c) /\ ~Answered(c)
    BY <2>1 DEF OnePlace
  <2>5. \A i \in Submitted : admin_sq[i] # c
    BY <2>4 DEF InRing
  <2>6. \A d \in Calls :
          /\ InRing(d)' => InRing(d) \/ d = c
          /\ InPosted(d)' <=> InPosted(d)
          /\ Answered(d)' <=> Answered(d)
    BY <2>1, <2>2, <2>3 DEF InRing, InPosted, Answered
  <2>7. \A i, j \in Submitted' : admin_sq'[i] = admin_sq'[j] => i = j
    BY <2>2, <2>3, <2>5 DEF OnePlace
  <2> QED
    BY <2>1, <2>2, <2>4, <2>6, <2>7 DEF OnePlace
<1>3. CASE Fetch
  <2> DEFINE x == admin_sq[dev_sq_head]
  <2>1. /\ dev_sq_head # admin_sq_tail
        /\ working' = working \cup {x}
        /\ dev_sq_head' = Succ(dev_sq_head)
        /\ UNCHANGED <<pc, admin_sq, admin_sq_tail, admin_cq, admin_cq_head,
                       dev_cq_tail, answered>>
    BY <1>3 DEF Fetch, callVars, ringVars
  <2>2. /\ Submitted' = Submitted \ {dev_sq_head} /\ Posted' = Posted
        /\ dev_sq_head \in Submitted
    BY <2>1, RingShrinks DEF Submitted, Posted, TypeOK
  <2>3. x \in Calls /\ InRing(x)
    BY <2>2 DEF RingWritten, InRing, Submitted
  <2>4. \A i \in Submitted' : admin_sq[i] # x
    BY <2>2 DEF OnePlace
  <2> HIDE DEF x
  <2>5. \A d \in Calls :
          /\ InRing(d)' => InRing(d) /\ d # x
          /\ InPosted(d)' <=> InPosted(d)
          /\ Answered(d)' <=> Answered(d)
    BY <2>1, <2>2, <2>4 DEF InRing, InPosted, Answered
  <2>6. \A i, j \in Submitted' : admin_sq'[i] = admin_sq'[j] => i = j
    BY <2>1, <2>2 DEF OnePlace
  <2> QED
    BY <2>1, <2>2, <2>3, <2>5, <2>6 DEF OnePlace
<1>4. ASSUME NEW c \in Calls, NEW ok \in BOOLEAN, Complete(c, ok)
      PROVE  OnePlace'
  <2>1. /\ c \in working /\ working' = working \ {c}
        /\ Succ(dev_cq_tail) # admin_cq_head
        /\ admin_cq' = [admin_cq EXCEPT ![dev_cq_tail] =
                          [call |-> c, phase |-> dev_cq_phase, ok |-> ok]]
        /\ dev_cq_tail' = Succ(dev_cq_tail)
        /\ UNCHANGED <<pc, dev_sq_head, admin_sq, admin_sq_tail,
                       admin_cq_head, answered>>
    BY <1>4 DEF Complete, callVars, ringVars
  <2>2. /\ Posted' = Posted \cup {dev_cq_tail} /\ Submitted' = Submitted
        /\ dev_cq_tail \notin Posted /\ Posted \subseteq AIndex
    BY <2>1, RingGrows DEF Submitted, Posted, Between, TypeOK
  <2>3. /\ admin_cq'[dev_cq_tail].call = c
        /\ \A i \in Posted : admin_cq'[i].call = admin_cq[i].call
    BY <2>1, <2>2 DEF TypeOK
  <2>4. ~InRing(c) /\ ~InPosted(c) /\ ~Answered(c)
        /\ pc[c] \notin {"start", "obtain", "issue"}
    BY <2>1 DEF OnePlace
  <2>5. \A i \in Posted : admin_cq[i].call # c
    BY <2>4 DEF InPosted
  <2>6. \A d \in Calls :
          /\ InRing(d)' <=> InRing(d)
          /\ InPosted(d)' => InPosted(d) \/ d = c
          /\ Answered(d)' <=> Answered(d)
    BY <2>1, <2>2, <2>3 DEF InRing, InPosted, Answered
  <2>7. /\ \A i, j \in Posted' : admin_cq'[i].call = admin_cq'[j].call => i = j
        /\ \A i \in Posted' : admin_cq'[i].call \in Calls
    BY <2>2, <2>3, <2>5 DEF OnePlace
  <2> QED
    BY <2>1, <2>2, <2>4, <2>6, <2>7 DEF OnePlace
<1>5. ASSUME NEW c \in Calls, Consume(c)
      PROVE  OnePlace'
  <2> DEFINE x == admin_cq[admin_cq_head].call
  <2>1. /\ admin_cq_head # dev_cq_tail
        /\ answered' = [answered EXCEPT ![c] = x]
        /\ admin_cq_head' = Succ(admin_cq_head)
        /\ pc[c] = "poll" /\ pc'[c] = "release"
        /\ \A d \in Calls \ {c} : pc'[d] = pc[d]
        /\ UNCHANGED <<dev_sq_head, admin_sq, admin_sq_tail, working, admin_cq,
                       dev_cq_tail>>
    BY <1>5, ReadyPosted DEF Consume, Goto, TypeOK, devVars
  <2>2. /\ Posted' = Posted \ {admin_cq_head} /\ Submitted' = Submitted
        /\ admin_cq_head \in Posted
    BY <2>1, RingShrinks DEF Submitted, Posted, TypeOK
  <2>3. x \in Calls /\ InPosted(x)
    BY <2>2 DEF OnePlace, InPosted
  <2>4. \A i \in Posted' : admin_cq[i].call # x
    BY <2>2 DEF OnePlace
  <2> HIDE DEF x
  <2>5. ~InRing(x) /\ x \notin working /\ ~Answered(x)
        /\ pc[x] \notin {"start", "obtain", "issue"}
    BY <2>3 DEF OnePlace
  <2>6. \A d \in Calls : answered[d] # x
    BY <2>5 DEF Answered
  <2>7. /\ answered'[c] = x
        /\ \A d \in Calls \ {c} : answered'[d] = answered[d]
    BY <2>1 DEF TypeOK
  <2>8. \A d \in Calls :
          /\ InRing(d)' <=> InRing(d)
          /\ InPosted(d)' => InPosted(d) /\ d # x
          /\ Answered(d)' => Answered(d) \/ d = x
    BY <2>1, <2>2, <2>4, <2>7 DEF InRing, InPosted, Answered
  <2>9. \A d, e \in Calls :
          answered'[d] = answered'[e] /\ answered'[d] # NULL => d = e
    BY <2>6, <2>7 DEF OnePlace
  <2>10. \A i, j \in Posted' :
           admin_cq'[i].call = admin_cq'[j].call => i = j
    BY <2>1, <2>2 DEF OnePlace
  <2> QED
    BY <2>1, <2>2, <2>5, <2>8, <2>9, <2>10 DEF OnePlace
<1>6. ASSUME NEW c \in Calls, Call(c), ~Issue(c), ~Consume(c)
      PROVE  /\ UNCHANGED placeVars
             /\ \A d \in Calls : pc'[d] \in {"start", "obtain", "issue"} =>
                  pc[d] \in {"start", "obtain", "issue"}
  BY <1>6 DEF Call, Fresh, Refresh, ModeSelect, Obtain, GiveUp, Release, Apply,
     Enter, Goto, TypeOK, placeVars, ringVars, devVars
<1>7. CASE MaskIrq \/ UnmaskIrq \/ UNCHANGED vars
  BY <1>1, <1>7 DEF MaskIrq, UnmaskIrq, vars, callVars, ringVars, devVars,
     placeVars
<1> QED
  BY <1>1, <1>2, <1>3, <1>4, <1>5, <1>6, <1>7 DEF Next

LEMMA OnceStep ==
  ASSUME TypeOK, RingWritten, AnswersInv, [Next]_vars
  PROVE  AnswersInv'
<1>1. PhasesInv' /\ OnePlace'
  BY PhasesKeep, PlaceKeeps DEF AnswersInv
<1>2. ASSUME NEW c \in Calls, Consume(c)
      PROVE  \A d \in Calls : status'[d] \in {"ok", "error"} => answered'[d] # NULL
  <2>1. admin_cq[admin_cq_head].call \in Calls
    BY <1>2, ReadyPosted, RingShrinks
       DEF AnswersInv, OnePlace, Posted, Consume, TypeOK
  <2> QED
    BY <1>2, <2>1, AdminAssumption DEF Consume, AnswersInv, TypeOK
<1>3. ASSUME NEW c \in Calls, GiveUp(c)
      PROVE  \A d \in Calls : status'[d] \in {"ok", "error"} => answered'[d] # NULL
  BY <1>3 DEF GiveUp, AnswersInv, TypeOK
<1>4. \/ \E c \in Calls : Consume(c) \/ GiveUp(c)
      \/ UNCHANGED <<status, answered>>
  BY DEF Next, Call, Fresh, Refresh, ModeSelect, Obtain, Issue, Release, Apply,
     Complete, MaskIrq, UnmaskIrq, Fetch, vars, callVars
<1> QED
  BY <1>1, <1>2, <1>3, <1>4 DEF AnswersInv

(* Wherever polls give up, and even if that overruns the submission ring,  *)
(* every completion is posted for one call and taken by one call, once     *)
(* (nvme_admin.c:88-121).                                                  *)
THEOREM CompletionsAnswerOnce == Spec => []EachCompletionOnce
<1>1. Init => AnswersInv
  <2> SUFFICES ASSUME Init PROVE AnswersInv
    OBVIOUS
  <2>1. Submitted = {} /\ Posted = {}
    BY AdminAssumption DEF Init, Submitted, Posted, Between, AIndex
  <2>2. PhasesInv
    BY AdminAssumption DEF Init, PhasesInv, PhasesFrom, AIndex
  <2>3. \A c \in Calls : ~InRing(c) /\ ~InPosted(c) /\ ~Answered(c)
    BY <2>1, AdminAssumption DEF Init, InRing, InPosted, Answered
  <2>4. OnePlace
    BY <2>1, <2>3 DEF Init, OnePlace
  <2> QED
    BY <2>2, <2>4 DEF Init, AnswersInv
<1>2. AdminInv /\ AnswersInv /\ [Next]_vars => AnswersInv'
  BY OnceStep DEF AdminInv
<1>3. AnswersInv => EachCompletionOnce
  BY DEF AnswersInv, OnePlace, EachCompletionOnce
<1> QED
  BY <1>1, <1>2, <1>3, AdminInvariant, PTL DEF Spec

=============================================================================

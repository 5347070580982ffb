-------------------------- MODULE TaskLivesProofs ---------------------------
(***************************************************************************)
(* Machine-checked proofs about TaskLives, for any number of lives and of  *)
(* everything that UnitTaskProofs leaves open.  What a task leaves in the  *)
(* in-flight table and the rings is taken over by the next one: LivesInv   *)
(* is TaskInv without the interrupt mask, with its wakeups where there is  *)
(* a task to wake, and with all that CommandsProofs says of the commands   *)
(* in flight, which outlive the task.                                      *)
(***************************************************************************)
EXTENDS TaskLives, CommandsProofs

\* Nobody is inside the loop unless the unit is up.
TaskOutside == life # "up" => pc = "top"

LifeTypeOK == life \in {"up", "drain", "down", "closed"}

\* Where the wakeups of TaskInv hold: a task at work has them, one that is gone
\* has left no message.
Awake == /\ SleepsIdle
         /\ life = "up" => PortWakeup
         /\ life \in {"down", "closed"} => port = <<>>

LivesInv ==
  /\ TypeOK
  /\ RingWritten
  /\ CurWhileBusy
  /\ PortDistinct
  /\ Owners
  /\ CountersAgree
  /\ CommandsInv
  /\ ResultsInv
  /\ TaskOutside
  /\ LifeTypeOK
  /\ Awake

\* The part of LivesInv that a step of the unit task keeps.
Kept == TypeOK /\ RingWritten /\ CurWhileBusy /\ PortDistinct /\ Owners
          /\ CountersAgree /\ CommandsInv /\ ResultsInv

-----------------------------------------------------------------------------
\* A step of UnitTask keeps it, whoever is up.
LEMMA UnitStep ==
  ASSUME Kept, [Next]_vars
  PROVE  Kept'
<1>1. TypeOK' /\ RingWritten'
  BY TypeStep DEF Kept
<1>2. CurWhileBusy'
  BY BusyStep DEF Kept
<1>3. PortDistinct'
  BY PortStep DEF Kept, Owners
<1>4. Owners'
  BY OwnersStep DEF Kept
<1>5. CountersAgree'
  BY CountersStep DEF Kept, Owners
<1>6. CommandsInv'
  BY CommandsStep DEF Kept, Owners
<1>7. ResultsInv'
  BY ResultsStep DEF Kept, Owners
<1> QED
  BY <1>1, <1>2, <1>3, <1>4, <1>5, <1>6, <1>7 DEF Kept

\* A step that changes only signals, the mask and, outside a dispatch, the
\* place of the task keeps it.
LEMMA QuietStep ==
  ASSUME Kept,
         UNCHANGED <<queueVars, clientVars, cur, done, slot, tail_before, batch>>,
         sigs' \in SUBSET {"port", "isr", "ctrl_c"},
         signals' \in SUBSET {"port", "isr", "ctrl_c"},
         intms' \in SUBSET {"handler", "admin"},
         \/ UNCHANGED pc
         \/ pc \in {"top", "wake"} /\ pc' = "top"
  PROVE  Kept'
<1>1. TypeOK /\ RingWritten /\ Owners /\ CurWhileBusy
  BY DEF Kept
<1>2. TaskTypeOK'
  BY <1>1 DEF TypeOK, TaskTypeOK, clientVars, Pc
<1>3. QueueTypeOK' /\ RingWritten'
  BY <1>1, QueueUnchanged DEF TypeOK
<1>4. CurWhileBusy'
  BY <1>1 DEF CurWhileBusy, BusyPc
<1>5. PortDistinct'
  BY DEF Kept, PortDistinct, clientVars
<1>6. Owners'
  BY <1>1, OwnersMove
<1>7. CountersAgree'
  BY CountersSame DEF Kept, queueVars, hostVars
<1>8. CommandsInv'
  BY CommandsQuiet DEF Kept, TypeOK, queueVars, hostVars, devVars
<1>9. ResultsInv'
  <2> SUFFICES ASSUME timeouts' = 0
               PROVE  Results'
    BY DEF ResultsInv
  <2>1. Calm
    BY CalmState DEF Kept, Owners, queueVars, hostVars
  <2> QED
    BY <2>1, ResultsMove DEF queueVars, hostVars, devVars
<1> QED
  BY <1>2, <1>3, <1>4, <1>5, <1>6, <1>7, <1>8, <1>9 DEF Kept, TypeOK

\* The exit replies a message as AbortIO does: it takes the first one off.
LEMMA DrainIsAbort ==
  ASSUME TypeOK, DrainPort
  PROVE  \E r \in Req : AbortIO(r)
<1>1. port \in Seq(Req) /\ port # <<>>
  BY DEF TypeOK, TaskTypeOK, DrainPort
<1>2. /\ Head(port) \in Req /\ Head(port) = port[1]
      /\ Len(port) \in Nat /\ 1 \in 1 .. Len(port)
  BY <1>1, HeadTailProperties
<1>3. Tail(port) = SubSeq(port, 2, Len(port)) /\ Tail(port) \in Seq(Req)
  BY <1>1, TailIsSubSeq, HeadTailProperties
<1>4. SubSeq(port, 1, 0) = <<>>
  BY SubSeqEmpty
<1>5. <<>> \o Tail(port) = Tail(port)
  BY <1>3, ConcatEmptySeq
<1>6. RemoveAt(port, 1) = Tail(port)
  BY <1>3, <1>4, <1>5 DEF RemoveAt
<1>7. AbortIO(Head(port))
  BY <1>2, <1>6 DEF DrainPort, AbortIO
<1> QED
  BY <1>2, <1>7

-----------------------------------------------------------------------------
LEMMA LivesInvInit == LivesInit => LivesInv
<1> SUFFICES ASSUME LivesInit
             PROVE  LivesInv
  OBVIOUS
<1>1. Init /\ life = "up"
  BY DEF LivesInit
<1>2. TaskInv
  BY <1>1, TaskInvInit
<1>3. CountersAgree /\ CommandsInv /\ ResultsInv
  BY <1>1, CountersInit, CommandsInit, ResultsInit
<1> QED
  BY <1>1, <1>2, <1>3 DEF LivesInv, TaskInv, Owners, TaskOutside, LifeTypeOK, Awake

LEMMA AwakeStep ==
  ASSUME LivesInv, [LivesNext]_allVars
  PROVE  LifeTypeOK' /\ Awake'
<1>1. TypeOK /\ SleepsIdle /\ TaskOutside /\ LifeTypeOK /\ Awake
  BY DEF LivesInv, Awake
<1>2. ASSUME [Next]_vars
      PROVE  SleepsIdle' /\ (PortWakeup => PortWakeup')
  BY <1>1, <1>2, SleepStep, WakeupStep
<1>3. CASE LiveTask \/ LiveClient
  <2>1. Next /\ life = "up" /\ life' = "up"
    BY <1>3 DEF LiveTask, LiveClient, Next, lifeVars
  <2> QED
    BY <1>1, <1>2, <2>1 DEF Awake, LifeTypeOK
<1>4. CASE LiveInterrupt \/ OtherMask \/ (Device /\ UNCHANGED lifeVars)
  <2>1. Next /\ UNCHANGED <<life, port>>
    BY <1>4 DEF LiveInterrupt, OtherMask, MaskWriters, Interrupt, AdminMask,
                OtherUnmask, Device, Next, lifeVars, clientVars
  <2> QED
    BY <1>1, <1>2, <2>1 DEF Awake, LifeTypeOK
<1>5. CASE DrainPort \/ Gone \/ DeafInterrupt
  <2>1. life # "up" /\ life' # "up" /\ UNCHANGED pc /\ pc = "top"
    BY <1>1, <1>5 DEF DrainPort, Gone, DeafInterrupt, lifeVars, loopVars, TaskOutside
  <2>2. /\ life' \in {"drain", "down", "closed"}
        /\ life' \in {"down", "closed"} => port' = <<>>
    BY <1>1, <1>5 DEF DrainPort, Gone, DeafInterrupt, lifeVars, clientVars, Awake
  <2> QED
    BY <2>1, <2>2 DEF Awake, LifeTypeOK, SleepsIdle
<1>6. CASE Leave
  BY <1>6 DEF Leave, Awake, LifeTypeOK, SleepsIdle
<1>7. CASE Shutdown
  <2>1. /\ UNCHANGED <<life, port, pc, signals, inflight>>
        /\ sigs \subseteq sigs'
    BY <1>7 DEF Shutdown, clientVars, loopVars, queueVars, hostVars
  <2> QED
    BY <1>1, <2>1 DEF Awake, LifeTypeOK, SleepsIdle, PortWakeup, Occupied
<1>8. CASE Free \/ Start \/ UNCHANGED allVars
  <2>1. UNCHANGED vars
    BY <1>8 DEF Free, Start, allVars
  <2>2. UNCHANGED port
    BY <2>1 DEF vars, clientVars
  <2>3. \/ life = "down" /\ life' = "closed"
        \/ life = "closed" /\ life' = "up"
        \/ UNCHANGED life
    BY <1>8 DEF Free, Start, allVars, lifeVars
  <2> QED
    BY <1>1, <1>2, <2>1, <2>2, <2>3 DEF Awake, LifeTypeOK, PortWakeup
<1> QED
  BY <1>3, <1>4, <1>5, <1>6, <1>7, <1>8 DEF LivesNext, Exit

LEMMA LivesInvStep ==
  ASSUME LivesInv, [LivesNext]_allVars
  PROVE  LivesInv'
<1>1. Kept /\ TypeOK
  BY DEF LivesInv, Kept
<1> SUFFICES Kept' /\ TaskOutside'
  BY AwakeStep DEF LivesInv, Kept
<1>2. CASE LiveTask \/ LiveClient
  <2>1. Next /\ life' = "up"
    BY <1>2 DEF LiveTask, LiveClient, Next, lifeVars
  <2> QED
    BY <1>1, <2>1, UnitStep DEF TaskOutside
<1>3. CASE LiveInterrupt \/ OtherMask \/ (Device /\ UNCHANGED lifeVars)
  <2>1. Next /\ UNCHANGED <<life, pc>>
    BY <1>3 DEF LiveInterrupt, OtherMask, MaskWriters, Interrupt, AdminMask,
                OtherUnmask, Device, Next, lifeVars, loopVars
  <2> QED
    BY <1>1, <2>1, UnitStep DEF LivesInv, TaskOutside
<1>4. CASE DrainPort
  <2>1. Next /\ UNCHANGED <<life, pc>>
    BY <1>1, <1>4, DrainIsAbort DEF DrainPort, Next, Client, lifeVars, loopVars
  <2> QED
    BY <1>1, <2>1, UnitStep DEF LivesInv, TaskOutside
<1>5. CASE Leave
  <2>1. pc \in {"top", "wake"} /\ pc' = "top" /\ signals' = {}
    BY <1>5 DEF Leave, LoopEnds
  <2>2. UNCHANGED <<queueVars, clientVars, sigs, cur, done, slot, tail_before,
                    batch, intms>>
    BY <1>5 DEF Leave
  <2> QED
    BY <1>1, <2>1, <2>2, QuietStep DEF TaskOutside, TypeOK, TaskTypeOK
<1>6. CASE Shutdown \/ Gone \/ DeafInterrupt
  <2>1. /\ UNCHANGED <<queueVars, clientVars, loopVars>>
        /\ sigs' \in SUBSET {"port", "isr", "ctrl_c"}
        /\ intms' \in SUBSET {"handler", "admin"}
    BY <1>1, <1>6 DEF Shutdown, Gone, DeafInterrupt, TypeOK, TaskTypeOK
  <2>2. Kept'
    BY <1>1, <2>1, QuietStep DEF loopVars, TypeOK, TaskTypeOK
  <2>3. life' # "up" => life # "up"
    BY <1>6 DEF Shutdown, Gone, DeafInterrupt, lifeVars
  <2> QED
    BY <2>1, <2>2, <2>3 DEF LivesInv, TaskOutside, loopVars
<1>7. CASE Free \/ Start \/ UNCHANGED allVars
  <2>1. UNCHANGED vars
    BY <1>7 DEF Free, Start, allVars
  <2>2. life' # "up" => life # "up"
    BY <1>7 DEF Free, Start, allVars, lifeVars
  <2> QED
    BY <1>1, <2>1, <2>2, UnitStep DEF LivesInv, TaskOutside, vars, loopVars
<1> QED
  BY <1>2, <1>3, <1>4, <1>5, <1>6, <1>7 DEF LivesNext, Exit

(* Whatever a task leaves behind, in every state of every life the types,  *)
(* the owner of each request and the gauges are right (unit_task.c:866-901 *)
(* and 907-1126, which reset none of them).                                *)
THEOREM LivesInvariant == LivesSpec => []LivesInv
<1>1. LivesInit => LivesInv
  BY LivesInvInit
<1>2. LivesInv /\ [LivesNext]_allVars => LivesInv'
  BY LivesInvStep
<1> QED
  BY <1>1, <1>2, PTL DEF LivesSpec

(* No request is lost and none is replied twice although the unit task may *)
(* end and be started again at any time with commands in flight.           *)
THEOREM RepliedOnceEver == LivesSpec => []ExactlyOnce
<1>1. LivesInv => ExactlyOnce
  BY DEF LivesInv, Owners
<1> QED
  BY <1>1, LivesInvariant, PTL

(* A task started over commands that an earlier one has left never sleeps  *)
(* on them, and no message outlives the port (unit_task.c:758-796, 868).   *)
THEOREM WakesUpEver == LivesSpec => []NoLostWakeup
<1>1. ASSUME LivesInv, pc = "wait", sigs = {}
      PROVE  port = <<>> /\ Occupied = {}
  <2>1. life = "up" /\ SleepsIdle /\ PortWakeup
    BY <1>1 DEF LivesInv, TaskOutside, Awake
  <2> QED
    BY <1>1, <2>1 DEF SleepsIdle, PortWakeup, DrainPc, BusyPc
<1>2. LivesInv => NoLostWakeup
  BY <1>1 DEF NoLostWakeup
<1> QED
  BY <1>2, LivesInvariant, PTL

(* The in-flight gauge and the DMA pin counter outlive the task with the   *)
(* table they count (unit_task.c:866-901).                                 *)
THEOREM CountersOutlive == LivesSpec => []CountersAgree
<1>1. LivesInv => CountersAgree
  BY DEF LivesInv
<1> QED
  BY <1>1, LivesInvariant, PTL

(* When the last CloseDevice has freed the task's buffers with every       *)
(* request replied and no poll given up, the controller has no command     *)
(* left that could use them (unit_task.c:1222-1252).                       *)
THEOREM NothingOwedWhenFreed == LivesSpec => []FreedQuiet
<1>1. ASSUME LivesInv, timeouts = 0, \A r \in sent : replies[r] > 0
      PROVE  Occupied = {} /\ LiveCids = {}
  <2>1. ASSUME NEW s \in Occupied
        PROVE  FALSE
    <3> DEFINE r == inflight[s].ioreq
    <3>1. r \in Req /\ Held(r)
      BY <1>1 DEF Occupied, Held, LivesInv, TypeOK, QueueTypeOK
    <3> HIDE DEF r
    <3>2. r \in sent /\ replies[r] = 0
      BY <1>1, <3>1, OwnedPending DEF LivesInv, Owners
    <3> QED
      BY <1>1, <3>2
  <2>2. LiveCids = Occupied
    BY <1>1 DEF LivesInv, CommandsInv, CommandsMatch
  <2> QED
    BY <2>1, <2>2
<1>2. LivesInv => FreedQuiet
  BY <1>1 DEF FreedQuiet
<1> QED
  BY <1>2, LivesInvariant, PTL

\* A step of a life is a step of the unit or none that a caller or the
\* controller could tell.
LEMMA LivesStepIsUnitStep ==
  ASSUME LivesInv, [LivesNext]_allVars
  PROVE  [Next]_vars \/ UNCHANGED <<queueVars, clientVars>>
<1>1. CASE LiveTask \/ LiveClient \/ LiveInterrupt \/ OtherMask \/ Device
  BY <1>1 DEF LiveTask, LiveClient, LiveInterrupt, OtherMask, MaskWriters, Next
<1>2. CASE DrainPort
  BY <1>2, DrainIsAbort DEF LivesInv, Next, Client
<1>3. CASE Leave \/ Gone \/ Shutdown \/ DeafInterrupt
  BY <1>3 DEF Leave, Gone, Shutdown, DeafInterrupt
<1>4. CASE Free \/ Start \/ UNCHANGED allVars
  BY <1>4 DEF Free, Start, allVars
<1> QED
  BY <1>1, <1>2, <1>3, <1>4 DEF LivesNext, Exit

(* The submission ring never fills although no start of the task resets it *)
(* or its doorbell (include/nvme.h:311-315), if it has room for every slot *)
(* and every poll that may give up.                                        *)
THEOREM SqNeverFillsEver ==
  ASSUME MaxInflight + MaxTimeouts < QDepth
  PROVE  LivesSpec => SqNeverFills
<1>1. ASSUME LivesInv, [LivesNext]_allVars
      PROVE  [io_sq_tail' # io_sq_tail => io_sq_tail' # dev_sq_head]_vars
  <2>1. RoomLeft
    BY <1>1, QueueAssumption DEF LivesInv, TypeOK, QueueTypeOK, RoomLeft
  <2>2. CASE [Next]_vars
    BY <1>1, <2>1, <2>2, TailKeepsOff DEF LivesInv
  <2>3. CASE UNCHANGED <<queueVars, clientVars>>
    BY <2>3 DEF queueVars, hostVars
  <2> QED
    BY <1>1, <2>2, <2>3, LivesStepIsUnitStep
<1>2. LivesInv /\ [LivesNext]_allVars
        => [io_sq_tail' # io_sq_tail => io_sq_tail' # dev_sq_head]_vars
  BY <1>1
<1> QED
  BY <1>2, LivesInvariant, PTL DEF LivesSpec, SqNeverFills

(* The unit keeps its promise over all its lives: until a poll gives up,   *)
(* a task that takes over commands replies them as IORequests allows.      *)
THEOREM RefinementEver == LivesSpec => ImplementsPromise
<1>1. LivesInit => Promise!Init
  BY PromiseInit DEF LivesInit
<1>2. ASSUME LivesInv, [LivesNext]_allVars, timeouts' = 0
      PROVE  [Promise!Next]_(Promise!reqvars)
  <2>1. TypeOK'
    BY <1>2, LivesInvStep DEF LivesInv
  <2>2. CASE [Next]_vars
    BY <1>2, <2>1, <2>2, PromiseStep DEF LivesInv, Owners
  <2>3. CASE UNCHANGED <<queueVars, clientVars>>
    BY <2>3, PromiseQuiet DEF queueVars, devVars, clientVars
  <2> QED
    BY <1>2, <2>2, <2>3, LivesStepIsUnitStep
<1>3. LivesInv /\ [LivesNext]_allVars
        => [timeouts' = 0 => [Promise!Next]_(Promise!reqvars)]_vars
  BY <1>2
<1> QED
  BY <1>1, <1>3, LivesInvariant, PTL DEF LivesSpec, ImplementsPromise

=============================================================================

--------------------------- MODULE UnitTaskProofs ---------------------------
(***************************************************************************)
(* Machine-checked proofs about UnitTask, for any number of requests,      *)
(* slots, ring entries, chunks and timeouts.                               *)
(*                                                                         *)
(* The inductive invariant TaskInv of UnitTaskInv splits into four groups, *)
(* each with its own lemma about one step: the types and the written ring  *)
(* (TypeStep), the owner of every request (OwnersStep), the port and the   *)
(* place of the task (BusyStep, PortStep, WakeupStep), and sleeping        *)
(* (SleepStep, MaskStep).  The gauges are proved on top of it              *)
(* (CountersStep).                                                         *)
(***************************************************************************)
EXTENDS UnitTaskInv, SequenceTheorems, FiniteSetTheorems,
        WellFoundedInduction, TLAPS

\* The ring successor stays in the ring and wraps only at its last entry.
LEMMA SuccInIndex ==
  ASSUME NEW i \in Index
  PROVE  /\ Succ(i) \in Index
         /\ i = QDepth - 1 => Succ(i) = 0
         /\ i # QDepth - 1 => Succ(i) = i + 1
  BY QueueAssumption DEF Succ, Index

\* Membership in a sequence, by position.
LEMMA InRange ==
  ASSUME NEW S, NEW s \in Seq(S), NEW q
  PROVE  q \in Range(s) <=> \E i \in 1 .. Len(s) : s[i] = q
  BY DEF Range

\* PutMsg adds one message to the port and loses none.
LEMMA AppendPort ==
  ASSUME NEW s \in Seq(Req), NEW r \in Req
  PROVE  /\ Append(s, r) \in Seq(Req)
         /\ Append(s, r) # <<>>
         /\ \A q : q \in Range(Append(s, r)) <=> q \in Range(s) \/ q = r
<1>1. /\ Append(s, r) \in Seq(Req)
      /\ Len(Append(s, r)) = Len(s) + 1
      /\ \A i \in 1 .. Len(s) : Append(s, r)[i] = s[i]
      /\ Append(s, r)[Len(s) + 1] = r
  OBVIOUS
<1>2. Append(s, r) # <<>>
  BY <1>1
<1>3. ASSUME NEW q
      PROVE  q \in Range(Append(s, r)) <=> q \in Range(s) \/ q = r
  <2>1. Len(s) \in Nat
    OBVIOUS
  <2>2. q \in Range(s) <=> \E i \in 1 .. Len(s) : s[i] = q
    BY InRange
  <2>3. q \in Range(Append(s, r))
          <=> \E i \in 1 .. Len(Append(s, r)) : Append(s, r)[i] = q
    BY <1>1, InRange
  <2> QED
    BY <1>1, <2>1, <2>2, <2>3
<1> QED
  BY <1>1, <1>2, <1>3

\* GetMsg takes the first message and leaves every other one, once.
LEMMA TailPort ==
  ASSUME NEW s \in Seq(Req), s # <<>>,
         \A i, j \in 1 .. Len(s) : s[i] = s[j] => i = j
  PROVE  /\ Head(s) \in Req /\ Head(s) \in Range(s)
         /\ Tail(s) \in Seq(Req)
         /\ \A i, j \in 1 .. Len(Tail(s)) : Tail(s)[i] = Tail(s)[j] => i = j
         /\ \A q : q \in Range(Tail(s)) <=> q \in Range(s) /\ q # Head(s)
<1> DEFINE t == Tail(s)
<1>1. /\ Head(s) \in Req
      /\ Head(s) = s[1]
      /\ Len(s) \in Nat \ {0}
      /\ t \in Seq(Req)
      /\ Len(t) = Len(s) - 1
      /\ \A i \in 1 .. Len(s) - 1 : t[i] = s[i + 1]
  OBVIOUS
<1> HIDE DEF t
<1>2. \A i, j \in 1 .. Len(t) : t[i] = t[j] => i = j
  BY <1>1
<1>3. ASSUME NEW q
      PROVE  q \in Range(t) <=> q \in Range(s) /\ q # Head(s)
  <2>1. q \in Range(s) <=> \E i \in 1 .. Len(s) : s[i] = q
    BY InRange
  <2>2. q \in Range(t) <=> \E i \in 1 .. Len(t) : t[i] = q
    BY <1>1, InRange
  <2>3. ASSUME NEW i \in 1 .. Len(s), i # 1
        PROVE  i - 1 \in 1 .. Len(t) /\ t[i - 1] = s[i]
    BY <1>1, <2>3
  <2>4. ASSUME q \in Range(t)
        PROVE  q \in Range(s) /\ q # Head(s)
    <3>1. PICK i \in 1 .. Len(s) - 1 : s[i + 1] = q
      BY <1>1, <2>2, <2>4
    <3>2. i + 1 \in 1 .. Len(s) /\ i + 1 # 1
      BY <1>1
    <3> QED
      BY <1>1, <2>1, <3>1, <3>2
  <2>5. ASSUME q \in Range(s), q # Head(s)
        PROVE  q \in Range(t)
    BY <1>1, <2>1, <2>2, <2>3, <2>5
  <2> QED
    BY <2>4, <2>5
<1>4. Head(s) \in Range(s)
  BY <1>1, InRange
<1> QED
  BY <1>1, <1>2, <1>3, <1>4 DEF t

\* Remove takes the message at its place and leaves every other one, once.
LEMMA RemovePort ==
  ASSUME NEW s \in Seq(Req), NEW i \in 1 .. Len(s),
         \A k, j \in 1 .. Len(s) : s[k] = s[j] => k = j
  PROVE  /\ RemoveAt(s, i) \in Seq(Req)
         /\ \A k, j \in 1 .. Len(RemoveAt(s, i)) :
              RemoveAt(s, i)[k] = RemoveAt(s, i)[j] => k = j
         /\ \A q : q \in Range(RemoveAt(s, i)) <=> q \in Range(s) /\ q # s[i]
<1> DEFINE t == RemoveAt(s, i)
<1>1. /\ t \in Seq(Req)
      /\ Len(s) \in Nat \ {0}
      /\ Len(t) = Len(s) - 1
      /\ \A j \in 1 .. Len(t) : t[j] = IF j < i THEN s[j] ELSE s[j + 1]
  <2> DEFINE a == SubSeq(s, 1, i - 1)
             b == SubSeq(s, i + 1, Len(s))
  <2>1. Len(s) \in Nat \ {0} /\ \A j \in 1 .. Len(s) : s[j] \in Req
    OBVIOUS
  <2>2. /\ a \in Seq(Req)
        /\ Len(a) = i - 1
        /\ \A j \in 1 .. i - 1 : a[j] = s[j]
    BY <2>1, SubSeqProperties
  <2>3. /\ b \in Seq(Req)
        /\ Len(b) = Len(s) - i
        /\ \A j \in 1 .. Len(s) - i : b[j] = s[i + j]
    BY <2>1, SubSeqProperties
  <2> HIDE DEF a, b
  <2>4. /\ a \o b \in Seq(Req)
        /\ Len(a \o b) = Len(s) - 1
        /\ \A j \in 1 .. Len(s) - 1 :
             (a \o b)[j] = IF j <= Len(a) THEN a[j] ELSE b[j - Len(a)]
    <3>1. Len(a) + Len(b) = Len(s) - 1
      BY <2>1, <2>2, <2>3
    <3> QED
      BY <2>2, <2>3, <3>1, ConcatProperties
  <2>5. ASSUME NEW j \in 1 .. Len(s) - 1
        PROVE  (a \o b)[j] = IF j < i THEN s[j] ELSE s[j + 1]
    <3>1. CASE j < i
      BY <2>1, <2>2, <2>4, <3>1
    <3>2. CASE ~(j < i)
      <4>1. /\ j - Len(a) \in 1 .. Len(s) - i
            /\ i + (j - Len(a)) = j + 1
            /\ ~(j <= Len(a))
        BY <2>1, <2>2, <3>2
      <4>2. (a \o b)[j] = b[j - Len(a)]
        BY <2>4, <4>1
      <4>3. b[j - Len(a)] = s[i + (j - Len(a))]
        BY <2>3, <4>1
      <4> QED
        BY <3>2, <4>1, <4>2, <4>3
    <3> QED
      BY <3>1, <3>2
  <2>6. t = a \o b
    BY DEF RemoveAt, a, b
  <2> QED
    BY <2>1, <2>4, <2>5, <2>6
<1> HIDE DEF t
<1>2. \A k, j \in 1 .. Len(t) : t[k] = t[j] => k = j
  BY <1>1
<1>3. ASSUME NEW q
      PROVE  q \in Range(t) <=> q \in Range(s) /\ q # s[i]
  <2>1. q \in Range(s) <=> \E j \in 1 .. Len(s) : s[j] = q
    BY InRange
  <2>2. q \in Range(t) <=> \E j \in 1 .. Len(t) : t[j] = q
    BY <1>1, InRange
  <2>3. ASSUME NEW j \in 1 .. Len(s), j < i
        PROVE  j \in 1 .. Len(t) /\ t[j] = s[j]
    BY <1>1, <2>3
  <2>4. ASSUME NEW j \in 1 .. Len(s), i < j
        PROVE  j - 1 \in 1 .. Len(t) /\ t[j - 1] = s[j]
    BY <1>1, <2>4
  <2>5. ASSUME q \in Range(t)
        PROVE  q \in Range(s) /\ q # s[i]
    BY <1>1, <2>1, <2>2, <2>5
  <2>6. ASSUME q \in Range(s), q # s[i]
        PROVE  q \in Range(t)
    BY <2>1, <2>2, <2>3, <2>4, <2>6
  <2> QED
    BY <2>5, <2>6
<1> QED
  BY <1>1, <1>2, <1>3 DEF t

\* find_free_slot returns a free slot whenever there is one.
LEMMA FirstFreeIsFree ==
  ASSUME FreeSlot # {}
  PROVE  FirstFree \in FreeSlot
<1> DEFINE R == OpToRel(<, Nat)
<1>1. R = {p \in Nat \X Nat : p[1] < p[2]}
  BY DEF OpToRel
<1>2. FreeSlot \subseteq Nat
  BY QueueAssumption DEF FreeSlot, Slot
<1>3. IsWellFoundedOn(R, Nat)
  BY NatLessThanWellFounded
<1> HIDE DEF R
<1>4. PICK s \in FreeSlot : \A t \in FreeSlot : ~(<<t, s>> \in R)
  BY <1>2, <1>3, WFMin
<1>5. ASSUME NEW t \in FreeSlot
      PROVE  s <= t
  <2>1. s \in Nat /\ t \in Nat
    BY <1>2
  <2>2. t < s => <<t, s>> \in R
    BY <1>1, <2>1
  <2> QED
    BY <1>4, <2>1, <2>2
<1> QED
  BY <1>5 DEF FirstFree

\* Claiming a slot and writing an entry keeps the types and the written ring.
LEMMA SubmitType ==
  ASSUME QueueTypeOK, RingWritten, NEW r \in Req, NEW k \in Chunk,
         NEW suppress \in BOOLEAN, NEW dma \in BOOLEAN, NEW ring \in BOOLEAN,
         Submit(r, k, suppress, dma, ring)
  PROVE  QueueTypeOK' /\ RingWritten'
<1>1. FirstFree \in Slot
  BY FirstFreeIsFree DEF Submit, FreeSlot
<1>2. /\ Succ(io_sq_tail) \in Index
      /\ io_sq_tail = QDepth - 1 => Succ(io_sq_tail) = 0
      /\ io_sq_tail # QDepth - 1 => Succ(io_sq_tail) = io_sq_tail + 1
  BY SuccInIndex DEF QueueTypeOK
<1>3. [cid |-> FirstFree, ioreq |-> r, chunk |-> k] \in SQE
  BY <1>1 DEF SQE
<1> HIDE DEF FirstFree
<1>4. QueueTypeOK'
  BY <1>1, <1>2, <1>3 DEF QueueTypeOK, Submit, reqVars, devVars
<1>5. RingWritten'
  <2>1. /\ io_sq_tail \in Index /\ sq_doorbell \in Index
        /\ dev_sq_head \in Index /\ dev_sq_head' = dev_sq_head
        /\ io_sq \in [Index -> SQE \cup {NoSQE}]
        /\ io_sq' \in [Index -> SQE \cup {NoSQE}]
    BY <1>4 DEF QueueTypeOK, Submit, devVars
  <2>2. \A i \in Index : io_sq[i] \in SQE => io_sq'[i] \in SQE
    BY <1>3, <2>1 DEF Submit
  <2>3. io_sq'[io_sq_tail] \in SQE
    BY <1>3, <2>1 DEF Submit
  <2>4. CASE io_sq_tail = QDepth - 1 /\ \A i \in Index : i < io_sq_tail => io_sq[i] \in SQE
    BY <2>1, <2>2, <2>3, <2>4, QueueAssumption DEF RingWritten, Index
  <2>5. CASE \A i \in Index : io_sq[i] \in SQE
    BY <2>2, <2>5 DEF RingWritten
  <2>6. CASE /\ io_sq_tail # QDepth - 1
             /\ dev_sq_head <= sq_doorbell /\ sq_doorbell <= io_sq_tail
             /\ \A i \in Index : i < io_sq_tail => io_sq[i] \in SQE
    BY <1>2, <2>1, <2>2, <2>3, <2>6, QueueAssumption DEF RingWritten, Index, Submit
  <2> QED
    BY <2>4, <2>5, <2>6 DEF RingWritten
<1> QED
  BY <1>4, <1>5

\* Consuming a completion keeps the types and the written ring.
LEMMA HarvestType ==
  ASSUME QueueTypeOK, RingWritten, HarvestOne
  PROVE  QueueTypeOK' /\ RingWritten'
<1>1. Succ(io_cq_head) \in Index
  BY SuccInIndex DEF QueueTypeOK
<1>2. QueueTypeOK'
  <2>1. CASE ~Matched
    BY <1>1, <2>1 DEF QueueTypeOK, HarvestOne, reqVars, devVars
  <2>2. CASE Matched
    <3> DEFINE s == io_cq[io_cq_head].cid
               r == inflight[s].ioreq
    <3>1. s \in Slot /\ r \in Req
      BY <2>2 DEF Matched, Occupied, QueueTypeOK
    <3>2. /\ inflight' = [inflight EXCEPT ![s] = FreeInflight]
          /\ leak_dma' = IF inflight[s].dma THEN leak_dma - 1 ELSE leak_dma
          /\ io_Error' = [io_Error EXCEPT ![r] = ~io_cq[io_cq_head].ok]
          /\ replies' = IF WasSuppressed(s) THEN replies
                                           ELSE [replies EXCEPT ![r] = @ + 1]
          /\ inflight_current' = Dec(inflight_current)
      BY <2>2 DEF HarvestOne
    <3> HIDE DEF s, r
    <3>3. /\ inflight' \in [Slot -> [ioreq : Req \cup {NULL},
                                    suppress : BOOLEAN, dma : BOOLEAN]]
          /\ inflight_current' \in Nat /\ leak_dma' \in Int
      BY <3>1, <3>2 DEF QueueTypeOK, FreeInflight, Dec
    <3>4. io_Error' \in [Req -> BOOLEAN] /\ replies' \in [Req -> Nat]
      BY <3>1, <3>2 DEF QueueTypeOK, WasSuppressed
    <3> QED
      BY <1>1, <3>3, <3>4 DEF QueueTypeOK, HarvestOne, devVars
  <2> QED
    BY <2>1, <2>2
<1>3. RingWritten'
  BY DEF RingWritten, HarvestOne, devVars
<1> QED
  BY <1>2, <1>3

\* A reply keeps the types of what it writes to the request.
LEMMA ReplyType ==
  ASSUME io_Error \in [Req -> BOOLEAN], replies \in [Req -> Nat],
         NEW r, NEW err \in BOOLEAN, Reply(r, err)
  PROVE  io_Error' \in [Req -> BOOLEAN] /\ replies' \in [Req -> Nat]
<1>1. CASE r \in Req
  BY <1>1 DEF Reply
<1>2. CASE r \notin Req
  BY <1>2 DEF Reply
<1> QED
  BY <1>1, <1>2

\* A poll that gives up keeps the types and the written ring.
LEMMA GiveUpType ==
  ASSUME QueueTypeOK, RingWritten, NEW s \in Slot, GiveUp(s)
  PROVE  QueueTypeOK' /\ RingWritten'
<1>1. io_Error' \in [Req -> BOOLEAN] /\ replies' \in [Req -> Nat]
  BY ReplyType DEF GiveUp, QueueTypeOK
<1>2. QueueTypeOK'
  BY <1>1, QueueAssumption DEF QueueTypeOK, GiveUp, devVars, FreeInflight, Dec
<1>3. RingWritten'
  BY DEF RingWritten, GiveUp, devVars
<1> QED
  BY <1>2, <1>3

\* The controller fetches only written entries and posts only their cids.
LEMMA ControllerType ==
  ASSUME QueueTypeOK, RingWritten, Controller
  PROVE  QueueTypeOK' /\ RingWritten'
<1>1. CASE Fetch
  <2>1. /\ Succ(dev_sq_head) \in Index
        /\ dev_sq_head = QDepth - 1 => Succ(dev_sq_head) = 0
        /\ dev_sq_head # QDepth - 1 => Succ(dev_sq_head) = dev_sq_head + 1
    BY SuccInIndex DEF QueueTypeOK
  <2>2. io_sq[dev_sq_head] \in SQE
    BY <1>1 DEF RingWritten, Fetch, QueueTypeOK, Index
  <2>3. QueueTypeOK'
    BY <1>1, <2>1, <2>2 DEF QueueTypeOK, Fetch, hostVars, reqVars
  <2>4. RingWritten'
    BY <1>1, <2>1 DEF RingWritten, Fetch, hostVars, QueueTypeOK, Index
  <2> QED
    BY <2>3, <2>4
<1>2. ASSUME NEW c \in executing, NEW ok \in BOOLEAN, Complete(c, ok)
      PROVE  QueueTypeOK' /\ RingWritten'
  <2>1. Succ(dev_cq_tail) \in Index
    BY SuccInIndex DEF QueueTypeOK
  <2>2. c \in SQE
    BY DEF QueueTypeOK
  <2>3. [cid |-> c.cid, phase |-> dev_cq_phase, ok |-> ok] \in CQE
    BY <2>2, QueueAssumption DEF SQE, CQE, QueueTypeOK, Slot
  <2>4. QueueTypeOK'
    BY <1>2, <2>1, <2>2, <2>3 DEF QueueTypeOK, Complete, hostVars, reqVars, SQE
  <2>5. RingWritten'
    BY <1>2 DEF RingWritten, Complete, hostVars, devVars
  <2> QED
    BY <2>4, <2>5
<1> QED
  BY <1>1, <1>2 DEF Controller

-----------------------------------------------------------------------------
(* Type correctness, one step per action of the task.                      *)

\* A step that leaves the queue pair alone.
LEMMA QueueUnchanged ==
  ASSUME QueueTypeOK, RingWritten, UNCHANGED queueVars
  PROVE  QueueTypeOK' /\ RingWritten'
  BY DEF QueueTypeOK, RingWritten, queueVars, hostVars, reqVars, devVars

\* A step that touches the doorbell only, to publish the tail.
LEMMA RingType ==
  ASSUME QueueTypeOK, RingWritten, sq_doorbell' \in {sq_doorbell, io_sq_tail},
         UNCHANGED <<inflight, inflight_current, leak_dma, io_sq, io_sq_tail,
                     io_cq_head, io_cq_phase, timeouts, reqVars, devVars>>
  PROVE  QueueTypeOK' /\ RingWritten'
  BY DEF QueueTypeOK, RingWritten, reqVars, devVars, Index

\* A step that only answers a request.
LEMMA AnswerType ==
  ASSUME QueueTypeOK, RingWritten, NEW r, NEW err \in BOOLEAN, Reply(r, err),
         timeouts' \in 0 .. MaxTimeouts,
         UNCHANGED <<inflight, inflight_current, leak_dma, io_sq, io_sq_tail,
                     sq_doorbell, io_cq_head, io_cq_phase, devVars>>
  PROVE  QueueTypeOK' /\ RingWritten'
<1>1. io_Error' \in [Req -> BOOLEAN] /\ replies' \in [Req -> Nat]
  BY ReplyType DEF QueueTypeOK
<1> QED
  BY <1>1 DEF QueueTypeOK, RingWritten, devVars

\* The event loop outside the drain keeps the types.
LEMMA LoopType ==
  ASSUME TypeOK, RingWritten,
         Top \/ Wait \/ Peek \/ Clear \/ Harvest \/ EndYield \/ EndWake \/ Unmask
  PROVE  TypeOK' /\ RingWritten'
<1> USE DEF TypeOK
<1>1. CASE Top
  <2>1. UNCHANGED queueVars /\ TaskTypeOK'
    BY <1>1 DEF Top, TaskTypeOK, clientVars, Pc, HarvestPc
  <2> QED
    BY <2>1, QueueUnchanged
<1>2. CASE Wait
  <2>1. UNCHANGED queueVars /\ TaskTypeOK'
    BY <1>2 DEF Wait, TaskTypeOK, clientVars, Pc, HarvestPc
  <2> QED
    BY <2>1, QueueUnchanged
<1>3. CASE Peek
  <2>1. UNCHANGED queueVars /\ TaskTypeOK'
    BY <1>3 DEF Peek, TaskTypeOK, clientVars, Pc, HarvestPc
  <2> QED
    BY <2>1, QueueUnchanged
<1>4. CASE Clear
  <2>1. UNCHANGED queueVars /\ TaskTypeOK'
    BY <1>4 DEF Clear, Goto, TaskTypeOK, clientVars, Pc, HarvestPc
  <2> QED
    BY <2>1, QueueUnchanged
<1>5. CASE Harvest
  <2>1. TaskTypeOK'
    BY <1>5 DEF Harvest, TaskTypeOK, clientVars, loopVars
  <2> QED
    BY <1>5, <2>1, HarvestType DEF Harvest
<1>6. CASE EndYield
  <2>1. UNCHANGED queueVars /\ TaskTypeOK'
    BY <1>6 DEF EndYield, Goto, TaskTypeOK, clientVars, Pc, HarvestPc
  <2> QED
    BY <2>1, QueueUnchanged
<1>7. CASE EndWake
  <2>1. io_sq_tail \in Index
    BY DEF QueueTypeOK
  <2>2. CASE "port" \in signals
    <3>1. batch' \in Nat
      BY <1>7, <2>2 DEF EndWake, TaskTypeOK
    <3>2. UNCHANGED queueVars /\ TaskTypeOK'
      BY <1>7, <2>1, <2>2, <3>1 DEF EndWake, TaskTypeOK, clientVars, Pc
    <3> QED
      BY <3>2, QueueUnchanged
  <2>3. CASE "port" \notin signals
    BY <1>7, <2>3, QueueUnchanged DEF EndWake, Goto, TaskTypeOK, clientVars, Pc
  <2> QED
    BY <2>2, <2>3
<1>8. CASE Unmask
  <2>1. UNCHANGED queueVars /\ TaskTypeOK'
    BY <1>8, TaskAssumption DEF Unmask, UnmaskIrq, Goto, TaskTypeOK, clientVars,
                                Pc, HarvestPc
  <2> QED
    BY <2>1, QueueUnchanged
<1> QED
  BY <1>1, <1>2, <1>3, <1>4, <1>5, <1>6, <1>7, <1>8

\* The GetMsg loop keeps the types.
LEMMA DrainType ==
  ASSUME TypeOK, RingWritten, PortDistinct, GetMsg \/ EndDrain
  PROVE  TypeOK' /\ RingWritten'
<1> USE DEF TypeOK
<1>1. CASE GetMsg
  <2>1. Head(port) \in Req /\ Tail(port) \in Seq(Req)
    BY <1>1, TailPort DEF GetMsg, TaskTypeOK, PortDistinct
  <2>2. UNCHANGED queueVars /\ TaskTypeOK'
    BY <1>1, <2>1, QueueAssumption DEF GetMsg, TaskTypeOK, Pc
  <2> QED
    BY <2>2, QueueUnchanged
<1>2. CASE EndDrain
  <2>1. QueueTypeOK' /\ RingWritten'
    BY <1>2, RingType DEF EndDrain, RingSQ
  <2>2. TaskTypeOK'
    BY <1>2, QueueAssumption DEF EndDrain, TaskTypeOK, clientVars, Pc, HarvestPc,
                                 Index
  <2> QED
    BY <2>1, <2>2
<1> QED
  BY <1>1, <1>2

\* dispatch_ioreq keeps the types.
LEMMA DispatchType ==
  ASSUME TypeOK, RingWritten, CurWhileBusy, Dispatch
  PROVE  TypeOK' /\ RingWritten'
<1> USE DEF TypeOK
<1> cur \in Req
  BY DEF Dispatch, CurWhileBusy, BusyPc, TaskTypeOK, DispatchInline, Refuse,
         DispatchOne, DispatchPolled, Full, EndFull, FullUnmask, FullTimeout,
         PollDone, PollAgain, PollUnmask, PollTimeout
<1>1. ASSUME NEW err \in BOOLEAN, DispatchInline(err)
      PROVE  TypeOK' /\ RingWritten'
  <2>1. QueueTypeOK' /\ RingWritten'
    BY <1>1, AnswerType DEF DispatchInline, Answer, hostVars, QueueTypeOK
  <2>2. TaskTypeOK'
    BY <1>1, QueueAssumption DEF DispatchInline, Answer, Dispatched, TaskTypeOK,
                                 clientVars, Pc, Slot
  <2> QED
    BY <2>1, <2>2
<1>2. CASE Refuse
  <2>1. QueueTypeOK' /\ RingWritten'
    BY <1>2, AnswerType DEF Refuse, Answer, hostVars, QueueTypeOK
  <2>2. TaskTypeOK'
    BY <1>2, QueueAssumption DEF Refuse, Answer, Dispatched, TaskTypeOK,
                                 clientVars, Pc, Slot
  <2> QED
    BY <2>1, <2>2
<1>3. CASE DispatchOne
  <2>1. QueueTypeOK' /\ RingWritten'
    <3> DEFINE dma == Kind[cur] = "rw" /\ cur \in Direct
               ring == Kind[cur] = "flush"
    <3>1. /\ Submit(cur, 1, FALSE, dma, ring)
          /\ dma \in BOOLEAN /\ ring \in BOOLEAN /\ FALSE \in BOOLEAN
      BY <1>3 DEF DispatchOne
    <3>2. 1 \in Chunk
      BY QueueAssumption DEF Chunk
    <3> HIDE DEF dma, ring
    <3> QED
      BY <3>1, <3>2, SubmitType
  <2>2. TaskTypeOK'
    BY <1>3, QueueAssumption DEF DispatchOne, Dispatched, TaskTypeOK,
                                 clientVars, Pc, Slot
  <2> QED
    BY <2>1, <2>2
<1>4. CASE DispatchPolled
  <2>1. QueueTypeOK' /\ RingWritten'
    <3> DEFINE dma == Kind[cur] = "split" /\ cur \in Direct
               k == done + 1
    <3>1. /\ Submit(cur, k, TRUE, dma, TRUE)
          /\ dma \in BOOLEAN /\ TRUE \in BOOLEAN
      BY <1>4 DEF DispatchPolled
    <3>2. k \in Chunk
      BY QueueAssumption DEF Chunk, TaskTypeOK
    <3> HIDE DEF dma, k
    <3> QED
      BY <3>1, <3>2, SubmitType
  <2>2. FirstFree \in Slot
    BY <1>4, FirstFreeIsFree DEF DispatchPolled, Submit, FreeSlot
  <2>3. TaskTypeOK'
    BY <1>4, <2>2 DEF DispatchPolled, TaskTypeOK, clientVars, Pc, HarvestPc
  <2> QED
    BY <2>1, <2>3
<1>5. CASE Full
  <2>1. QueueTypeOK' /\ RingWritten'
    BY <1>5, RingType DEF Full, RingSQ
  <2>2. TaskTypeOK'
    BY <1>5 DEF Full, Goto, TaskTypeOK, clientVars, Pc, HarvestPc
  <2> QED
    BY <2>1, <2>2
<1>6. CASE EndFull
  <2>1. UNCHANGED queueVars /\ TaskTypeOK'
    BY <1>6 DEF EndFull, Goto, TaskTypeOK, clientVars, Pc
  <2> QED
    BY <2>1, QueueUnchanged
<1>7. CASE FullUnmask
  <2>1. UNCHANGED queueVars /\ TaskTypeOK'
    BY <1>7, TaskAssumption DEF FullUnmask, UnmaskIrq, Goto, TaskTypeOK,
                                clientVars, Pc, HarvestPc
  <2> QED
    BY <2>1, QueueUnchanged
<1>8. CASE FullTimeout
  <2>1. QueueTypeOK' /\ RingWritten'
    <3>1. timeouts' \in 0 .. MaxTimeouts
      BY <1>8, QueueAssumption DEF FullTimeout, QueueTypeOK
    <3> QED
      BY <1>8, <3>1, AnswerType DEF FullTimeout, Answer
  <2>2. TaskTypeOK'
    BY <1>8, QueueAssumption, TaskAssumption
       DEF FullTimeout, UnmaskIrq, Answer, Dispatched, TaskTypeOK, clientVars,
           Pc, Slot
  <2> QED
    BY <2>1, <2>2
<1>9. CASE PollDone
  <2>1. CASE io_Error[cur] \/ LastCommand
    <3>1. io_Error[cur] \in BOOLEAN
      BY DEF QueueTypeOK
    <3>2. QueueTypeOK' /\ RingWritten'
      <4> DEFINE err == io_Error[cur]
      <4>1. /\ Reply(cur, err) /\ err \in BOOLEAN
            /\ UNCHANGED <<hostVars, devVars>>
        BY <1>9, <2>1, <3>1 DEF PollDone, Answer
      <4>2. timeouts' \in 0 .. MaxTimeouts
        BY <4>1 DEF hostVars, QueueTypeOK
      <4> HIDE DEF err
      <4> QED
        BY <4>1, <4>2, AnswerType DEF hostVars
    <3>3. TaskTypeOK'
      <4>1. Dispatched /\ UNCHANGED <<clientVars, sigs, batch, intms>>
        BY <1>9, <2>1 DEF PollDone, Answer
      <4> QED
        BY <4>1, QueueAssumption DEF Dispatched, TaskTypeOK, clientVars, Pc, Slot
    <3> QED
      BY <3>2, <3>3
  <2>2. CASE ~(io_Error[cur] \/ LastCommand)
    <3>1. UNCHANGED queueVars
      BY <1>9, <2>2 DEF PollDone, queueVars
    <3>2. TaskTypeOK'
      <4>1. done' \in 0 .. MaxChunk - 1
        BY <1>9, <2>2, QueueAssumption DEF PollDone, LastCommand, TaskTypeOK
      <4> QED
        BY <1>9, <2>2, <4>1 DEF PollDone, TaskTypeOK, clientVars, Pc
    <3> QED
      BY <3>1, <3>2, QueueUnchanged
  <2> QED
    BY <2>1, <2>2
<1>10. CASE PollAgain
  <2>1. UNCHANGED queueVars /\ TaskTypeOK'
    BY <1>10 DEF PollAgain, Goto, TaskTypeOK, clientVars, Pc
  <2> QED
    BY <2>1, QueueUnchanged
<1>11. CASE PollUnmask
  <2>1. UNCHANGED queueVars /\ TaskTypeOK'
    BY <1>11, TaskAssumption DEF PollUnmask, UnmaskIrq, Goto, TaskTypeOK,
                                 clientVars, Pc, HarvestPc
  <2> QED
    BY <2>1, QueueUnchanged
<1>12. CASE PollTimeout
  <2>1. QueueTypeOK' /\ RingWritten'
    BY <1>12, GiveUpType DEF PollTimeout, TaskTypeOK
  <2>2. TaskTypeOK'
    BY <1>12, QueueAssumption, TaskAssumption
       DEF PollTimeout, UnmaskIrq, Dispatched, TaskTypeOK, clientVars, Pc, Slot
  <2> QED
    BY <2>1, <2>2
<1> QED
  BY <1>1, <1>2, <1>3, <1>4, <1>5, <1>6, <1>7, <1>8, <1>9, <1>10, <1>11, <1>12
     DEF Dispatch

\* Who writes the interrupt mask changes nothing else but signals.
LEMMA WritersQuiet ==
  MaskWriters => UNCHANGED <<queueVars, clientVars, loopVars>> /\ sigs \subseteq sigs'
BY DEF MaskWriters, Interrupt, AdminMask, OtherUnmask

\* Every step keeps the types and the written ring.
LEMMA TypeStep ==
  ASSUME TypeOK, RingWritten, CurWhileBusy, PortDistinct, [Next]_vars
  PROVE  TypeOK' /\ RingWritten'
<1> USE DEF TypeOK
<1>1. ASSUME NEW r \in Req, BeginIO(r)
      PROVE  TypeOK' /\ RingWritten'
  <2>1. UNCHANGED queueVars /\ TaskTypeOK'
    BY <1>1, AppendPort DEF BeginIO, TaskTypeOK, loopVars
  <2> QED
    BY <2>1, QueueUnchanged
<1>2. ASSUME NEW r \in Req, AbortIO(r)
      PROVE  TypeOK' /\ RingWritten'
  <2>1. PICK i \in 1 .. Len(port) : port' = RemoveAt(port, i)
    BY <1>2 DEF AbortIO
  <2>2. port' \in Seq(Req)
    BY <2>1, RemovePort DEF TaskTypeOK, PortDistinct
  <2>3. QueueTypeOK' /\ RingWritten'
    BY <1>2, AnswerType DEF AbortIO, hostVars, QueueTypeOK
  <2>4. TaskTypeOK'
    BY <1>2, <2>2 DEF AbortIO, TaskTypeOK, loopVars
  <2> QED
    BY <2>3, <2>4
<1>3. CASE Device
  <2>1. TaskTypeOK'
    BY <1>3 DEF Device, TaskTypeOK, clientVars, loopVars
  <2> QED
    BY <1>3, <2>1, ControllerType DEF Device
<1>4. CASE MaskWriters
  <2>1. UNCHANGED queueVars /\ TaskTypeOK'
    BY <1>4 DEF MaskWriters, Interrupt, AdminMask, OtherUnmask, UnmaskIrq,
                TaskTypeOK, clientVars, loopVars
  <2> QED
    BY <2>1, QueueUnchanged
<1>5. CASE UNCHANGED vars
  <2>1. UNCHANGED queueVars /\ TaskTypeOK'
    BY <1>5 DEF vars, TaskTypeOK, clientVars, loopVars
  <2> QED
    BY <2>1, QueueUnchanged
<1> QED
  BY <1>1, <1>2, <1>3, <1>4, <1>5, LoopType, DrainType, DispatchType
     DEF Next, Client, Task

-----------------------------------------------------------------------------
(* Who owns a request: the port, dispatch, a slot or, once replied, nobody. *)

Owners == SlotsDistinct /\ PolledSlot /\ ExactlyOnce

\* A step that moves the task without moving a request.
LEMMA OwnersUnchanged ==
  ASSUME TypeOK, Owners,
         UNCHANGED <<sent, port, cur, inflight, replies, slot>>,
         pc' \in {"poll", "pollU"} => pc \in {"poll", "pollU"},
         pc \in {"poll", "pollU"} /\ slot \in Occupied => pc' \in {"poll", "pollU"},
         pc' = "pollU" => slot \in Occupied
  PROVE  Owners'
<1>1. SlotsDistinct'
  BY DEF Owners, SlotsDistinct
<1>2. PolledSlot'
  BY DEF Owners, PolledSlot, Occupied
<1>3. ExactlyOnce'
  <2> SUFFICES ASSUME NEW r \in Req, cur = r, Held(r)
               PROVE  pc' \in {"poll", "pollU"} /\ inflight[slot].suppress
    BY DEF Owners, ExactlyOnce, OnPort, Held
  <2>1. PICK s \in Slot : inflight[s].ioreq = r
    BY DEF Held
  <2>2. s \in Occupied
    BY <2>1, QueueAssumption DEF Occupied
  <2> QED
    BY <2>1, <2>2 DEF Owners, PolledSlot
<1> QED
  BY <1>1, <1>2, <1>3 DEF Owners

\* A request that is sent is owned by the port alone.
LEMMA OwnersBeginIO ==
  ASSUME TypeOK, Owners, NEW q \in Req, BeginIO(q)
  PROVE  Owners'
<1>1. \A p : p \in Range(port') <=> p \in Range(port) \/ p = q
  BY AppendPort DEF BeginIO, TypeOK, TaskTypeOK
<1>2. UNCHANGED <<cur, inflight, replies, slot, pc>> /\ sent' = sent \cup {q}
  BY DEF BeginIO, queueVars, hostVars, reqVars, loopVars
<1>3. SlotsDistinct' /\ PolledSlot'
  BY <1>2 DEF Owners, SlotsDistinct, PolledSlot, Occupied
<1>4. ~OnPort(q) /\ cur # q /\ ~Held(q) /\ q \notin sent
  BY DEF BeginIO, Owners, ExactlyOnce
<1>5. \A r : (Held(r))' <=> Held(r)
  BY <1>2 DEF Held
<1>6. \A r : (OnPort(r))' <=> OnPort(r) \/ r = q
  BY <1>1 DEF OnPort
<1>7. replies[q] = 0
  BY <1>4 DEF Owners, ExactlyOnce, TypeOK, QueueTypeOK
<1>8. ExactlyOnce'
  BY <1>2, <1>4, <1>5, <1>6, <1>7 DEF Owners, ExactlyOnce
<1> QED
  BY <1>3, <1>8 DEF Owners

\* An aborted request leaves the port and is replied.
LEMMA OwnersAbortIO ==
  ASSUME TypeOK, Owners, PortDistinct, NEW q \in Req, AbortIO(q)
  PROVE  Owners'
<1>1. PICK i \in 1 .. Len(port) : port[i] = q /\ port' = RemoveAt(port, i)
  BY DEF AbortIO
<1>2. \A p : p \in Range(port') <=> p \in Range(port) /\ p # q
  BY <1>1, RemovePort DEF PortDistinct, TypeOK, TaskTypeOK
<1>3. /\ UNCHANGED <<cur, inflight, slot, pc, sent>>
      /\ replies' = [replies EXCEPT ![q] = @ + 1]
  BY DEF AbortIO, hostVars, loopVars, Reply
<1>4. SlotsDistinct' /\ PolledSlot'
  BY <1>3 DEF Owners, SlotsDistinct, PolledSlot, Occupied
<1>5. OnPort(q)
  BY <1>1, InRange DEF OnPort, TypeOK, TaskTypeOK
<1>6. q \in sent /\ cur # q /\ ~Held(q) /\ replies[q] # 1 /\ replies[q] <= 1
  BY <1>5 DEF Owners, ExactlyOnce
<1>7. replies'[q] = 1 /\ \A p \in Req : p # q => replies'[p] = replies[p]
  BY <1>3, <1>6 DEF TypeOK, QueueTypeOK
<1>8. \A r : (Held(r))' <=> Held(r)
  BY <1>3 DEF Held
<1>9. \A r : (OnPort(r))' <=> OnPort(r) /\ r # q
  BY <1>2 DEF OnPort
<1>10. ExactlyOnce'
  BY <1>3, <1>6, <1>7, <1>8, <1>9 DEF Owners, ExactlyOnce
<1> QED
  BY <1>4, <1>10 DEF Owners

\* A request taken off the port is owned by dispatch alone.
LEMMA OwnersGetMsg ==
  ASSUME TypeOK, Owners, PortDistinct, CurWhileBusy, GetMsg
  PROVE  Owners'
<1> DEFINE q == Head(port)
<1>1. /\ q \in Req
      /\ \A p : p \in Range(port') <=> p \in Range(port) /\ p # q
      /\ q \in Range(port)
  BY TailPort DEF GetMsg, PortDistinct, TypeOK, TaskTypeOK
<1> HIDE DEF q
<1>2. /\ UNCHANGED <<inflight, slot, sent, replies>>
      /\ cur' = q /\ pc' = "dispatch" /\ cur = NULL
  BY DEF GetMsg, queueVars, hostVars, reqVars, q, CurWhileBusy, BusyPc
<1>3. OnPort(q)
  BY <1>1 DEF OnPort
<1>4. q \in sent /\ ~Held(q) /\ replies[q] # 1
  BY <1>1, <1>3 DEF Owners, ExactlyOnce
<1>5. SlotsDistinct'
  BY <1>2 DEF Owners, SlotsDistinct
<1>6. \A s \in Occupied : ~inflight[s].suppress
  BY DEF Owners, PolledSlot, GetMsg
<1>7. PolledSlot'
  BY <1>2, <1>4, <1>6 DEF PolledSlot, Occupied, Held
<1>8. \A r : (Held(r))' <=> Held(r)
  BY <1>2 DEF Held
<1>9. \A r : (OnPort(r))' <=> OnPort(r) /\ r # q
  BY <1>1 DEF OnPort
<1>10. ExactlyOnce'
  BY <1>1, <1>2, <1>3, <1>4, <1>8, <1>9, QueueAssumption DEF Owners, ExactlyOnce
<1> QED
  BY <1>5, <1>7, <1>10 DEF Owners

\* Dispatch replies the request it holds, which no slot does.
LEMMA OwnersAnswer ==
  ASSUME TypeOK, Owners, NEW err, Reply(cur, err),
         cur \in Req, cur' = NULL, ~Held(cur), pc' \notin {"poll", "pollU"},
         UNCHANGED <<inflight, sent, port>>
  PROVE  Owners'
<1>1. \A s \in Occupied : ~inflight[s].suppress
  BY DEF Owners, PolledSlot, Held, Occupied
<1>2. SlotsDistinct' /\ PolledSlot'
  BY <1>1 DEF Owners, SlotsDistinct, PolledSlot, Occupied
<1>3. replies[cur] = 0 /\ cur \in sent /\ ~OnPort(cur)
  BY DEF Owners, ExactlyOnce, TypeOK, QueueTypeOK
<1>4. replies'[cur] = 1 /\ \A p \in Req : p # cur => replies'[p] = replies[p]
  BY <1>3 DEF Reply, TypeOK, QueueTypeOK
<1>5. \A r : /\ (Held(r))' <=> Held(r)
             /\ (OnPort(r))' <=> OnPort(r)
  BY DEF Held, OnPort
<1>6. ExactlyOnce'
  BY <1>3, <1>4, <1>5, QueueAssumption DEF Owners, ExactlyOnce
<1> QED
  BY <1>2, <1>6 DEF Owners

\* Dispatch hands its request to a slot, and keeps it only to poll that slot.
LEMMA OwnersSubmit ==
  ASSUME TypeOK, Owners, CurWhileBusy, pc = "dispatch", cur \in Req,
         NEW k, NEW suppress \in BOOLEAN, NEW dma, NEW ring,
         Submit(cur, k, suppress, dma, ring), UNCHANGED <<sent, port>>,
         \/ ~suppress /\ cur' = NULL /\ pc' = "getmsg"
         \/ suppress /\ cur' = cur /\ pc' = "poll" /\ slot' = FirstFree
  PROVE  Owners'
<1> DEFINE f == FirstFree
<1>1. f \in Slot /\ inflight[f].ioreq = NULL
  BY FirstFreeIsFree DEF Submit, FreeSlot, Occupied
<1>2. /\ inflight' = [inflight EXCEPT ![f] =
                       [ioreq |-> cur, suppress |-> suppress, dma |-> dma]]
      /\ UNCHANGED replies
  BY DEF Submit, reqVars
<1>3. suppress => slot' = f
  OBVIOUS
<1> HIDE DEF f
<1>4. /\ inflight'[f].ioreq = cur /\ inflight'[f].suppress = suppress
      /\ \A s \in Slot : s # f => inflight'[s] = inflight[s]
  BY <1>1, <1>2 DEF TypeOK, QueueTypeOK
<1>5. \A s \in Occupied : ~inflight[s].suppress /\ inflight[s].ioreq # cur
  BY DEF Owners, PolledSlot
<1>6. cur # NULL /\ ~Held(cur) /\ ~OnPort(cur) /\ replies[cur] # 1 /\ cur \in sent
  BY <1>5, QueueAssumption DEF Owners, ExactlyOnce, Held, Occupied
<1>7. SlotsDistinct'
  BY <1>4, <1>6 DEF Owners, SlotsDistinct, Held
<1>8. PolledSlot'
  BY <1>1, <1>3, <1>4, <1>5, <1>6 DEF PolledSlot, Occupied
<1>9. \A r \in Req : (Held(r))' <=> Held(r) \/ r = cur
  BY <1>1, <1>4, QueueAssumption DEF Held
<1>10. \A r : (OnPort(r))' <=> OnPort(r)
  BY DEF OnPort
<1>11. ExactlyOnce'
  BY <1>2, <1>3, <1>4, <1>6, <1>9, <1>10, QueueAssumption
     DEF Owners, ExactlyOnce
<1> QED
  BY <1>7, <1>8, <1>11 DEF Owners

\* Harvest and a poll that gives up free a slot: its request is replied, or
\* left to the poll in dispatch.
LEMMA OwnersRelease ==
  ASSUME TypeOK, Owners, CurWhileBusy, NEW s \in Occupied,
         inflight' = [inflight EXCEPT ![s] = FreeInflight],
         UNCHANGED <<sent, port>>,
         \/ /\ inflight[s].suppress /\ UNCHANGED <<replies, cur, pc, slot>>
            /\ pc # "pollU"
         \/ /\ ~inflight[s].suppress /\ UNCHANGED <<cur, pc, slot>>
            /\ replies' = [replies EXCEPT ![inflight[s].ioreq] = @ + 1]
         \/ /\ inflight[s].suppress /\ cur' = NULL /\ pc' = "getmsg"
            /\ replies' = [replies EXCEPT ![inflight[s].ioreq] = @ + 1]
  PROVE  Owners'
<1> DEFINE q == inflight[s].ioreq
<1>1. s \in Slot /\ q \in Req /\ q # NULL /\ Held(q)
  BY DEF Occupied, TypeOK, QueueTypeOK, Held
<1>2. /\ inflight'[s].ioreq = NULL /\ ~inflight'[s].suppress
      /\ \A t \in Slot : t # s => inflight'[t] = inflight[t]
  BY <1>1 DEF FreeInflight, TypeOK, QueueTypeOK
<1>3. q \in sent /\ ~OnPort(q) /\ replies[q] = 0
  <2>1. q \in sent /\ ~OnPort(q) /\ replies[q] # 1 /\ replies[q] <= 1
    BY <1>1 DEF Owners, ExactlyOnce
  <2>2. replies[q] \in Nat
    BY <1>1 DEF TypeOK, QueueTypeOK
  <2> QED
    BY <2>1, <2>2
<1>4. inflight[s].suppress <=> cur = q
  BY <1>1 DEF Owners, PolledSlot
<1>5. \A r \in Req : (Held(r))' <=> Held(r) /\ r # q
  BY <1>1, <1>2, QueueAssumption DEF Owners, SlotsDistinct, Held
<1>6. \A r : (OnPort(r))' <=> OnPort(r)
  BY DEF OnPort
<1>7. SlotsDistinct'
  BY <1>2 DEF Owners, SlotsDistinct
<1>8. PolledSlot'
  BY <1>1, <1>2, <1>4 DEF Owners, PolledSlot, Occupied, SlotsDistinct
<1>9. \/ UNCHANGED replies
      \/ replies'[q] = 1 /\ \A p \in Req : p # q => replies'[p] = replies[p]
  <2>1. replies \in [Req -> Nat]
    BY DEF TypeOK, QueueTypeOK
  <2>2. CASE replies' = [replies EXCEPT ![q] = @ + 1]
    BY <1>1, <1>3, <2>1, <2>2
  <2> QED
    BY <2>2
<1>10. ExactlyOnce'
  BY <1>1, <1>2, <1>3, <1>4, <1>5, <1>6, <1>9, QueueAssumption
     DEF Owners, ExactlyOnce, PolledSlot, TypeOK, QueueTypeOK
<1> QED
  BY <1>7, <1>8, <1>10 DEF Owners

\* The places of the task that no request depends on, but for the unmask
\* between two polls.
LEMMA OwnersMove ==
  ASSUME TypeOK, Owners, UNCHANGED <<queueVars, clientVars, cur, slot>>,
         \/ pc \notin {"poll", "pollU"} /\ pc' \notin {"poll", "pollU"}
         \/ pc = "poll" /\ pc' = "pollU" /\ slot \in Occupied
         \/ pc = "pollU" /\ pc' = "poll"
         \/ pc = "poll" /\ pc' = "dispatch" /\ slot \notin Occupied
         \/ UNCHANGED pc
  PROVE  Owners'
<1>1. UNCHANGED <<sent, port, inflight, replies>>
  BY DEF queueVars, hostVars, reqVars, clientVars
<1>2. pc = "pollU" => slot \in Occupied
  BY DEF Owners, PolledSlot
<1> QED
  BY <1>1, <1>2, OwnersUnchanged

\* A step of the controller or of the ring moves no request.
LEMMA OwnersRing ==
  ASSUME TypeOK, Owners,
         UNCHANGED <<inflight, reqVars, clientVars, cur, slot>>,
         \/ pc \notin {"poll", "pollU"} /\ pc' \notin {"poll", "pollU"}
         \/ UNCHANGED pc
  PROVE  Owners'
<1>1. UNCHANGED <<sent, port, inflight, replies>>
  BY DEF reqVars, clientVars
<1>2. pc = "pollU" => slot \in Occupied
  BY DEF Owners, PolledSlot
<1> QED
  BY <1>1, <1>2, OwnersUnchanged

\* The event loop keeps one owner per request.
LEMMA OwnersLoop ==
  ASSUME TypeOK, Owners, PortDistinct, CurWhileBusy,
         \/ Top \/ Wait \/ Peek \/ Clear \/ Harvest \/ EndYield \/ EndWake
         \/ Unmask \/ GetMsg \/ EndDrain
  PROVE  Owners'
<1>1. CASE Top \/ Wait \/ Peek \/ Clear \/ EndYield \/ EndWake \/ Unmask
  BY <1>1, OwnersMove DEF Top, Wait, Peek, Clear, EndYield, EndWake, Unmask, Goto
<1>2. CASE Harvest
  <2>1. CASE Matched
    <3> DEFINE s == io_cq[io_cq_head].cid
    <3>1. s \in Occupied
      BY <2>1 DEF Matched
    <3>2. /\ inflight' = [inflight EXCEPT ![s] = FreeInflight]
          /\ replies' = IF WasSuppressed(s) THEN replies
                        ELSE [replies EXCEPT ![inflight[s].ioreq] = @ + 1]
      BY <1>2, <2>1 DEF Harvest, HarvestOne
    <3> HIDE DEF s
    <3>3. UNCHANGED <<sent, port, cur, pc, slot>> /\ pc # "pollU"
      BY <1>2 DEF Harvest, HarvestPc, clientVars, loopVars
    <3>4. CASE inflight[s].suppress
      BY <3>1, <3>2, <3>3, <3>4, OwnersRelease DEF WasSuppressed
    <3>5. CASE ~inflight[s].suppress
      BY <3>1, <3>2, <3>3, <3>5, OwnersRelease DEF WasSuppressed
    <3> QED
      BY <3>4, <3>5
  <2>2. CASE ~Matched
    BY <1>2, <2>2, OwnersRing DEF Harvest, HarvestOne, loopVars
  <2> QED
    BY <2>1, <2>2
<1>3. CASE GetMsg
  BY <1>3, OwnersGetMsg
<1>4. CASE EndDrain
  BY <1>4, OwnersRing DEF EndDrain
<1> QED
  BY <1>1, <1>2, <1>3, <1>4

\* dispatch_ioreq keeps one owner per request.
LEMMA OwnersDispatch ==
  ASSUME TypeOK, Owners, CurWhileBusy, Dispatch
  PROVE  Owners'
<1>1. cur \in Req
  BY DEF Dispatch, CurWhileBusy, BusyPc, TypeOK, TaskTypeOK, DispatchInline,
         Refuse, DispatchOne, DispatchPolled, Full, EndFull, FullUnmask,
         FullTimeout, PollDone, PollAgain, PollUnmask, PollTimeout
<1>2. pc \notin {"poll", "pollU"} => ~Held(cur)
  BY <1>1, QueueAssumption DEF Owners, ExactlyOnce
<1>3. ASSUME NEW err \in BOOLEAN, DispatchInline(err)
      PROVE  Owners'
  BY <1>1, <1>2, <1>3, OwnersAnswer
     DEF DispatchInline, Answer, Dispatched, hostVars, clientVars
<1>4. CASE Refuse
  BY <1>1, <1>2, <1>4, OwnersAnswer
     DEF Refuse, Answer, Dispatched, hostVars, clientVars
<1>5. CASE DispatchOne
  <2> DEFINE dma == Kind[cur] = "rw" /\ cur \in Direct
             ring == Kind[cur] = "flush"
  <2>1. /\ Submit(cur, 1, FALSE, dma, ring) /\ FALSE \in BOOLEAN
        /\ pc = "dispatch" /\ cur' = NULL /\ pc' = "getmsg"
        /\ UNCHANGED <<sent, port>>
    BY <1>5 DEF DispatchOne, Dispatched, clientVars
  <2> HIDE DEF dma, ring
  <2> QED
    BY <1>1, <2>1, OwnersSubmit
<1>6. CASE DispatchPolled
  <2> DEFINE dma == Kind[cur] = "split" /\ cur \in Direct
             k == done + 1
  <2>1. /\ Submit(cur, k, TRUE, dma, TRUE) /\ TRUE \in BOOLEAN
        /\ pc = "dispatch" /\ cur' = cur /\ pc' = "poll" /\ slot' = FirstFree
        /\ UNCHANGED <<sent, port>>
    BY <1>6 DEF DispatchPolled, clientVars
  <2> HIDE DEF dma, k
  <2> QED
    BY <1>1, <2>1, OwnersSubmit
<1>7. CASE Full
  BY <1>7, OwnersRing DEF Full, Goto
<1>8. CASE EndFull \/ FullUnmask
  BY <1>8, OwnersMove DEF EndFull, FullUnmask, Goto
<1>9. CASE FullTimeout
  BY <1>1, <1>2, <1>9, OwnersAnswer
     DEF FullTimeout, Answer, Dispatched, clientVars
<1>10. CASE PollDone
  <2>1. slot \notin Occupied /\ pc = "poll"
    BY <1>10 DEF PollDone, Occupied
  <2>2. CASE io_Error[cur] \/ LastCommand
    <3>1. ~Held(cur)
      BY <1>1, <2>1, QueueAssumption DEF Owners, PolledSlot, Held, Occupied
    <3>2. Reply(cur, io_Error[cur]) /\ Dispatched /\ UNCHANGED <<clientVars, hostVars>>
      BY <1>10, <2>2 DEF PollDone, Answer
    <3> QED
      BY <1>1, <3>1, <3>2, OwnersAnswer DEF Dispatched, hostVars, clientVars
  <2>3. CASE ~(io_Error[cur] \/ LastCommand)
    BY <1>10, <2>1, <2>3, OwnersMove DEF PollDone, queueVars
  <2> QED
    BY <2>2, <2>3
<1>11. CASE PollAgain
  <2>1. slot \in Occupied
    BY <1>11 DEF PollAgain, Occupied, TypeOK, TaskTypeOK
  <2> QED
    BY <1>11, <2>1, OwnersMove DEF PollAgain, Goto
<1>12. CASE PollUnmask
  BY <1>12, OwnersMove DEF PollUnmask, Goto
<1>13. CASE PollTimeout
  <2>1. slot \in Occupied /\ inflight[slot].suppress
    BY <1>13 DEF PollTimeout, Owners, PolledSlot
  <2> QED
    BY <1>13, <2>1, OwnersRelease DEF PollTimeout, GiveUp, Reply, Dispatched, clientVars
<1> QED
  BY <1>3, <1>4, <1>5, <1>6, <1>7, <1>8, <1>9, <1>10, <1>11, <1>12, <1>13
     DEF Dispatch

\* Every step keeps one owner per request.
LEMMA OwnersStep ==
  ASSUME TypeOK, Owners, PortDistinct, CurWhileBusy, [Next]_vars
  PROVE  Owners'
<1>1. CASE Device
  BY <1>1, OwnersRing DEF Device, Controller, Fetch, Complete, hostVars, loopVars
<1>2. CASE MaskWriters
  BY <1>2, OwnersMove, WritersQuiet DEF loopVars
<1>3. CASE UNCHANGED vars
  BY <1>3, OwnersMove DEF vars, loopVars
<1> QED
  BY <1>1, <1>2, <1>3, OwnersBeginIO, OwnersAbortIO, OwnersLoop, OwnersDispatch
     DEF Next, Client, Task

-----------------------------------------------------------------------------
(* The port and the loop.                                                  *)

\* Every step keeps a request in dispatch exactly while the task is in it.
LEMMA BusyStep ==
  ASSUME TypeOK, CurWhileBusy, [Next]_vars
  PROVE  CurWhileBusy'
<1> USE DEF CurWhileBusy, BusyPc, Goto
<1>1. CASE Client \/ Device \/ MaskWriters \/ UNCHANGED vars
  BY <1>1, WritersQuiet DEF Client, BeginIO, AbortIO, Device, vars, loopVars
<1>2. CASE Top \/ Wait \/ Peek \/ Clear \/ Harvest \/ EndYield \/ Unmask
  BY <1>2 DEF Top, Wait, Peek, Clear, Harvest, EndYield, Unmask, loopVars
<1>3. CASE EndWake
  BY <1>3 DEF EndWake
<1>4. CASE GetMsg
  BY <1>4, QueueAssumption, HeadTailProperties DEF GetMsg, TypeOK, TaskTypeOK
<1>5. CASE EndDrain
  BY <1>5 DEF EndDrain
<1>6. CASE Dispatch
  <2>1. CASE \/ \E err \in BOOLEAN : DispatchInline(err)
             \/ Refuse \/ DispatchOne \/ FullTimeout \/ PollTimeout
    BY <2>1 DEF DispatchInline, Refuse, DispatchOne, FullTimeout, PollTimeout,
                Answer, Dispatched
  <2>2. CASE DispatchPolled \/ Full \/ EndFull \/ FullUnmask \/ PollAgain \/ PollUnmask
    BY <2>2 DEF DispatchPolled, Full, EndFull, FullUnmask, PollAgain, PollUnmask
  <2>3. CASE PollDone
    BY <2>3 DEF PollDone, Answer, Dispatched
  <2> QED
    BY <1>6, <2>1, <2>2, <2>3 DEF Dispatch
<1> QED
  BY <1>1, <1>2, <1>3, <1>4, <1>5, <1>6 DEF Next, Task

\* Every step keeps the messages on the port distinct.
LEMMA PortStep ==
  ASSUME TypeOK, PortDistinct, ExactlyOnce, [Next]_vars
  PROVE  PortDistinct'
<1>1. CASE UNCHANGED port
  BY <1>1 DEF PortDistinct
<1>2. ASSUME NEW r \in Req, BeginIO(r)
      PROVE  PortDistinct'
  <2>1. r \notin Range(port)
    BY <1>2 DEF BeginIO, ExactlyOnce, OnPort
  <2>2. \A i \in 1 .. Len(port) : port[i] # r
    BY <2>1, InRange DEF TypeOK, TaskTypeOK
  <2> QED
    BY <1>2, <2>2 DEF BeginIO, PortDistinct, TypeOK, TaskTypeOK
<1>3. ASSUME NEW r \in Req, AbortIO(r)
      PROVE  PortDistinct'
  BY <1>3, RemovePort DEF AbortIO, PortDistinct, TypeOK, TaskTypeOK
<1>4. CASE GetMsg
  BY <1>4, TailPort DEF GetMsg, PortDistinct, TypeOK, TaskTypeOK
<1>5. CASE Device \/ MaskWriters \/ UNCHANGED vars
  BY <1>1, <1>5, WritersQuiet DEF Device, vars, clientVars
<1>6. CASE \/ Top \/ Wait \/ Peek \/ Clear \/ Harvest \/ EndYield \/ EndWake
           \/ Unmask \/ EndDrain
  BY <1>1, <1>6 DEF Top, Wait, Peek, Clear, Harvest, EndYield, EndWake, Unmask,
                    EndDrain, clientVars
<1>7. CASE Dispatch
  BY <1>1, <1>7 DEF Dispatch, DispatchInline, Refuse, DispatchOne,
     DispatchPolled, Full, EndFull, FullUnmask, FullTimeout, PollDone,
     PollAgain, PollUnmask, PollTimeout, Answer, clientVars
<1> QED
  BY <1>2, <1>3, <1>4, <1>5, <1>6, <1>7 DEF Next, Client, Task

\* Every step keeps a wakeup, or the task itself, on its way to the port.
LEMMA WakeupStep ==
  ASSUME TypeOK, PortWakeup, [Next]_vars
  PROVE  PortWakeup'
<1> USE DEF PortWakeup, DrainPc, BusyPc, Goto
<1>1. CASE Client
  <2>1. ASSUME NEW r \in Req, BeginIO(r)
        PROVE  PortWakeup'
    BY <2>1 DEF BeginIO
  <2>2. ASSUME NEW r \in Req, AbortIO(r)
        PROVE  PortWakeup'
    <3>1. port # <<>>
      BY <2>2 DEF AbortIO, TypeOK, TaskTypeOK
    <3> QED
      BY <2>2, <3>1 DEF AbortIO, loopVars
  <2> QED
    BY <1>1, <2>1, <2>2 DEF Client
<1>2. CASE Device \/ MaskWriters \/ UNCHANGED vars
  BY <1>2, WritersQuiet DEF Device, vars, loopVars, clientVars
<1>3. CASE Top \/ Wait \/ Peek
  BY <1>3 DEF Top, Wait, Peek, clientVars
<1>4. CASE Clear
  BY <1>4 DEF Clear, clientVars
<1>5. CASE Harvest \/ EndYield \/ Unmask
  BY <1>5 DEF Harvest, EndYield, Unmask, loopVars, clientVars, HarvestPc
<1>6. CASE EndWake
  BY <1>6 DEF EndWake, clientVars
<1>7. CASE GetMsg \/ EndDrain
  BY <1>7 DEF GetMsg, EndDrain, clientVars
<1>8. CASE Dispatch
  BY <1>8 DEF Dispatch, DispatchInline, Refuse, DispatchOne,
     DispatchPolled, Full, EndFull, FullUnmask, FullTimeout, PollDone,
     PollAgain, PollUnmask, PollTimeout, Answer, Dispatched, clientVars
<1> QED
  BY <1>1, <1>2, <1>3, <1>4, <1>5, <1>6, <1>7, <1>8 DEF Next, Task

\* The task only goes to sleep with nothing in flight.
LEMMA SleepStep ==
  ASSUME TypeOK, SleepsIdle, [Next]_vars
  PROVE  SleepsIdle'
<1> USE DEF SleepsIdle, Goto, Occupied
<1>1. CASE Client \/ Device \/ MaskWriters \/ UNCHANGED vars
  BY <1>1, WritersQuiet DEF Client, BeginIO, AbortIO, Device, Controller, Fetch,
     Complete, vars, queueVars, hostVars, loopVars
<1>2. CASE Top
  BY <1>2 DEF Top, queueVars, hostVars
<1>3. CASE Wait \/ Peek \/ Clear \/ EndYield \/ EndWake \/ Unmask \/ GetMsg
           \/ EndDrain
  BY <1>3 DEF Wait, Peek, Clear, EndYield, EndWake, Unmask, GetMsg, EndDrain
<1>4. CASE Harvest
  BY <1>4 DEF Harvest, HarvestPc, loopVars
<1>5. CASE Dispatch
  BY <1>5 DEF Dispatch, DispatchInline, Refuse, DispatchOne,
     DispatchPolled, Full, EndFull, FullUnmask, FullTimeout, PollDone,
     PollAgain, PollUnmask, PollTimeout, Answer, Dispatched
<1> QED
  BY <1>1, <1>2, <1>3, <1>4, <1>5 DEF Next, Task

\* The handler's mask comes with a signal between an unmask and the next
\* harvest.
LEMMA MaskStep ==
  ASSUME TypeOK, MaskSignalled, [Next]_vars
  PROVE  MaskSignalled'
<1> USE DEF MaskSignalled, Goto, UnmaskIrq
<1>1. CASE Client
  <2>1. UNCHANGED <<pc, intms>> /\ sigs \subseteq sigs'
    BY <1>1 DEF Client, BeginIO, AbortIO, loopVars
  <2> QED
    BY <2>1
<1>2. CASE Device \/ UNCHANGED vars
  BY <1>2 DEF Device, Controller, Fetch, Complete, vars, queueVars, hostVars,
              loopVars, clientVars
<1>3. CASE MaskWriters
  BY <1>3, TaskAssumption DEF MaskWriters, Interrupt, AdminMask, OtherUnmask, loopVars
<1>4. CASE Top \/ Wait
  BY <1>4 DEF Top, Wait, queueVars, hostVars, clientVars
<1>5. CASE Peek \/ Clear \/ EndYield \/ EndWake \/ GetMsg \/ EndDrain
  BY <1>5 DEF Peek, Clear, EndYield, EndWake, GetMsg, EndDrain
<1>6. CASE Harvest
  BY <1>6 DEF Harvest, HarvestPc, loopVars
<1>7. CASE Unmask
  BY <1>7, TaskAssumption DEF Unmask
<1>8. CASE Dispatch
  <2>1. pc' \notin {"top", "wait", "peek"}
    BY <1>8 DEF Dispatch, DispatchInline, Refuse, DispatchOne,
       DispatchPolled, Full, EndFull, FullUnmask, FullTimeout, PollDone,
       PollAgain, PollUnmask, PollTimeout, Answer, Dispatched
  <2>2. intms' \subseteq intms
    BY <1>8 DEF Dispatch, DispatchInline, Refuse, DispatchOne,
       DispatchPolled, Full, EndFull, FullUnmask, FullTimeout, PollDone,
       PollAgain, PollUnmask, PollTimeout
  <2> QED
    BY <2>1, <2>2
<1> QED
  BY <1>1, <1>2, <1>3, <1>4, <1>5, <1>6, <1>7, <1>8 DEF Next, Task

-----------------------------------------------------------------------------
(* The theorems.                                                           *)

\* The inductive invariant holds when the unit task starts its loop.
LEMMA TaskInvInit == Init => TaskInv
<1> SUFFICES ASSUME Init
             PROVE  TaskInv
  OBVIOUS
<1> USE DEF Init, QueueInit, Index
<1>1. TypeOK
  <2>1. 0 \in Index /\ 1 \in Slot /\ 0 \in 0 .. MaxChunk - 1 /\ 0 \in 0 .. MaxInflight
    BY QueueAssumption DEF Slot
  <2>2. [cid |-> 0, phase |-> 0, ok |-> TRUE] \in CQE
    BY <2>1 DEF CQE
  <2>3. QueueTypeOK
    BY <2>1, <2>2, QueueAssumption DEF QueueTypeOK, FreeInflight
  <2>4. TaskTypeOK
    <3>1. sent \in SUBSET Req /\ port \in Seq(Req) /\ sigs \in SUBSET {"port", "isr", "ctrl_c"}
      OBVIOUS
    <3>2. pc \in Pc /\ signals \in SUBSET {"port", "isr", "ctrl_c"} /\ cur \in Req \cup {NULL}
      BY DEF Pc
    <3>3. done \in 0 .. MaxChunk - 1 /\ slot \in Slot /\ tail_before \in Index
      BY <2>1
    <3> QED
      BY <3>1, <3>2, <3>3 DEF TaskTypeOK
  <2> QED
    BY <2>3, <2>4 DEF TypeOK
<1>2. RingWritten
  BY DEF RingWritten
<1>3. CurWhileBusy /\ PortDistinct
  BY DEF CurWhileBusy, BusyPc, PortDistinct
<1>4. Occupied = {}
  BY DEF Occupied, FreeInflight
<1>5. SlotsDistinct /\ PolledSlot
  BY <1>4 DEF SlotsDistinct, PolledSlot, FreeInflight
<1>6. ExactlyOnce
  BY QueueAssumption DEF ExactlyOnce, OnPort, Held, FreeInflight, Range
<1>7. PortWakeup /\ SleepsIdle /\ MaskSignalled
  BY DEF PortWakeup, SleepsIdle, MaskSignalled
<1> QED
  BY <1>1, <1>2, <1>3, <1>5, <1>6, <1>7 DEF TaskInv

\* Every step keeps the inductive invariant.
LEMMA TaskInvStep == TaskInv /\ [Next]_vars => TaskInv'
  BY TypeStep, OwnersStep, BusyStep, PortStep, WakeupStep, SleepStep,
     MaskStep
     DEF TaskInv, Owners

(* In every reachable state of the unit task, whatever the number of       *)
(* requests, slots, ring entries and timeouts, all parts of the inductive  *)
(* invariant hold (unit_task.c:753-864, nvme_io.c:142-830).                *)
THEOREM TaskInvariant == Spec => []TaskInv
<1>1. Init => TaskInv
  BY TaskInvInit
<1>2. TaskInv /\ [Next]_vars => TaskInv'
  BY TaskInvStep
<1> QED
  BY <1>1, <1>2, PTL DEF Spec

(* Types; in particular the controller only executes entries the driver    *)
(* has written, and cids and indices stay in range.                        *)
THEOREM TypeCorrect == Spec => []TypeOK
<1>1. TaskInv => TypeOK
  BY DEF TaskInv
<1> QED
  BY <1>1, TaskInvariant, PTL

(* No request is lost and none is replied twice, late completions included.*)
THEOREM RepliedOnce == Spec => []ExactlyOnce
<1>1. TaskInv => ExactlyOnce
  BY DEF TaskInv
<1> QED
  BY <1>1, TaskInvariant, PTL

(* The unit task never sleeps on a queued message or a command in flight.  *)
THEOREM WakesUp == Spec => []NoLostWakeup
<1>1. TaskInv => NoLostWakeup
  BY DEF TaskInv, NoLostWakeup, PortWakeup, SleepsIdle, DrainPc, BusyPc
<1> QED
  BY <1>1, TaskInvariant, PTL

(* The mask by which the handler claims an interrupt has been lifted when  *)
(* the unit task sleeps without a signal (nvme_io.c:823-829), whoever else *)
(* masks and unmasks meanwhile.                                            *)
THEOREM Unmasks == Spec => []HandlerMaskLifted
<1>1. TaskInv => HandlerMaskLifted
  BY DEF TaskInv, HandlerMaskLifted, MaskSignalled
<1> QED
  BY <1>1, TaskInvariant, PTL

-----------------------------------------------------------------------------
(* The gauges.                                                             *)

\* The occupied and the pinned slots can be counted.
LEMMA SlotsFinite ==
  /\ IsFiniteSet(Occupied) /\ Cardinality(Occupied) \in Nat
  /\ IsFiniteSet(Pinned) /\ Cardinality(Pinned) \in Nat
<1>1. IsFiniteSet(Slot)
  BY QueueAssumption, FS_Interval DEF Slot
<1>2. Occupied \in SUBSET Slot /\ Pinned \in SUBSET Slot
  BY DEF Occupied, Pinned
<1> QED
  BY <1>1, <1>2, FS_Subset, FS_CardinalityType

\* A step that touches neither the table nor the gauges.
LEMMA CountersSame ==
  ASSUME CountersAgree, UNCHANGED <<inflight, inflight_current, leak_dma>>
  PROVE  CountersAgree'
<1>1. Occupied' = Occupied /\ Pinned' = Pinned
  BY DEF Occupied, Pinned
<1> QED
  BY <1>1 DEF CountersAgree

\* Claiming a slot counts it, and its pin, once.
LEMMA CountersSubmit ==
  ASSUME TypeOK, CountersAgree, NEW r \in Req, NEW k, NEW suppress,
         NEW dma \in BOOLEAN, NEW ring, Submit(r, k, suppress, dma, ring)
  PROVE  CountersAgree'
<1> DEFINE f == FirstFree
<1>1. f \in Slot /\ f \notin Occupied /\ f \notin Pinned
  BY FirstFreeIsFree DEF Submit, FreeSlot, CountersAgree
<1>2. /\ inflight' = [inflight EXCEPT ![f] =
                       [ioreq |-> r, suppress |-> suppress, dma |-> dma]]
      /\ inflight_current' = inflight_current + 1
      /\ leak_dma' = IF dma THEN leak_dma + 1 ELSE leak_dma
  BY DEF Submit
<1> HIDE DEF f
<1>3. /\ inflight'[f].ioreq = r /\ inflight'[f].dma = dma
      /\ \A s \in Slot : s # f => inflight'[s] = inflight[s]
  BY <1>1, <1>2 DEF TypeOK, QueueTypeOK
<1>4. Occupied' = Occupied \cup {f}
  BY <1>1, <1>3, QueueAssumption DEF Occupied
<1>5. Pinned' = IF dma THEN Pinned \cup {f} ELSE Pinned
  BY <1>1, <1>3 DEF Pinned
<1>6. Cardinality(Occupied') = Cardinality(Occupied) + 1
  BY <1>1, <1>4, SlotsFinite, FS_AddElement
<1>7. Cardinality(Pinned') = IF dma THEN Cardinality(Pinned) + 1
                                    ELSE Cardinality(Pinned)
  BY <1>1, <1>5, SlotsFinite, FS_AddElement
<1> QED
  BY <1>2, <1>4, <1>5, <1>6, <1>7 DEF CountersAgree

\* Releasing a slot uncounts it, and its pin, once.
LEMMA CountersRelease ==
  ASSUME TypeOK, CountersAgree, NEW s \in Occupied,
         inflight' = [inflight EXCEPT ![s] = FreeInflight],
         inflight_current' = Dec(inflight_current),
         leak_dma' = IF inflight[s].dma THEN leak_dma - 1 ELSE leak_dma
  PROVE  CountersAgree'
<1>1. s \in Slot
  BY DEF Occupied
<1>2. /\ inflight'[s].ioreq = NULL /\ ~inflight'[s].dma
      /\ \A t \in Slot : t # s => inflight'[t] = inflight[t]
  BY <1>1 DEF TypeOK, QueueTypeOK, FreeInflight
<1>3. Occupied' = Occupied \ {s} /\ Pinned' = Pinned \ {s}
  BY <1>2 DEF Occupied, Pinned
<1>4. Cardinality(Occupied') = Cardinality(Occupied) - 1
  BY <1>3, SlotsFinite, FS_RemoveElement
<1>5. Cardinality(Pinned') = IF s \in Pinned THEN Cardinality(Pinned) - 1
                                             ELSE Cardinality(Pinned)
  BY <1>3, SlotsFinite, FS_RemoveElement
<1>6. Cardinality(Occupied) # 0
  BY SlotsFinite, FS_EmptySet
<1>7. inflight[s].dma <=> s \in Pinned
  BY <1>1 DEF Pinned
<1> QED
  BY <1>3, <1>4, <1>5, <1>6, <1>7, SlotsFinite DEF CountersAgree, Dec

\* Every step keeps the gauges equal to the table.
LEMMA CountersStep ==
  ASSUME TypeOK, PolledSlot, CurWhileBusy, CountersAgree, [Next]_vars
  PROVE  CountersAgree'
<1>1. TypeOK /\ PolledSlot /\ CurWhileBusy
  OBVIOUS
<1>2. CASE Client \/ Device \/ MaskWriters \/ UNCHANGED vars
  BY <1>2, CountersSame, WritersQuiet DEF Client, BeginIO, AbortIO, Device,
     Controller, Fetch, Complete, vars, queueVars, hostVars
<1>3. CASE Top \/ Wait \/ Peek \/ Clear \/ EndYield \/ EndWake \/ Unmask \/ GetMsg
           \/ EndDrain
  BY <1>3, CountersSame DEF Top, Wait, Peek, Clear, EndYield, EndWake, Unmask,
     GetMsg, EndDrain, queueVars, hostVars
<1>4. CASE Harvest
  <2>1. CASE Matched
    BY <1>1, <1>4, <2>1, CountersRelease DEF Harvest, HarvestOne, Matched
  <2>2. CASE ~Matched
    BY <1>4, <2>2, CountersSame DEF Harvest, HarvestOne
  <2> QED
    BY <2>1, <2>2
<1>5. CASE Dispatch
  <2>1. CASE \/ \E err \in BOOLEAN : DispatchInline(err)
             \/ Refuse \/ Full \/ EndFull \/ FullUnmask \/ FullTimeout
             \/ PollDone \/ PollAgain \/ PollUnmask
    BY <2>1, CountersSame DEF DispatchInline, Refuse, Full, EndFull, FullUnmask,
       FullTimeout, PollDone, PollAgain, PollUnmask, queueVars, hostVars
  <2>2. pc = "dispatch" => cur \in Req
    BY <1>1 DEF CurWhileBusy, BusyPc, TypeOK, TaskTypeOK
  <2>3. CASE DispatchOne
    <3> DEFINE dma == Kind[cur] = "rw" /\ cur \in Direct
               ring == Kind[cur] = "flush"
    <3>1. Submit(cur, 1, FALSE, dma, ring) /\ dma \in BOOLEAN /\ pc = "dispatch"
      BY <2>3 DEF DispatchOne
    <3> HIDE DEF dma, ring
    <3> QED
      BY <1>1, <2>2, <3>1, CountersSubmit
  <2>4. CASE DispatchPolled
    <3> DEFINE dma == Kind[cur] = "split" /\ cur \in Direct
               k == done + 1
    <3>1. Submit(cur, k, TRUE, dma, TRUE) /\ dma \in BOOLEAN /\ pc = "dispatch"
      BY <2>4 DEF DispatchPolled
    <3> HIDE DEF dma, k
    <3> QED
      BY <1>1, <2>2, <3>1, CountersSubmit
  <2>5. CASE PollTimeout
    BY <1>1, <2>5, CountersRelease DEF PollTimeout, GiveUp, PolledSlot
  <2> QED
    BY <1>5, <2>1, <2>3, <2>4, <2>5 DEF Dispatch
<1> QED
  BY <1>2, <1>3, <1>4, <1>5 DEF Next, Task

\* Before the first step nothing is in flight.
LEMMA CountersInit == Init => CountersAgree
<1> SUFFICES ASSUME Init
             PROVE  CountersAgree
  OBVIOUS
<1>1. Occupied = {} /\ Pinned = {} /\ inflight_current = 0 /\ leak_dma = 0
  BY DEF Init, QueueInit, Occupied, Pinned, FreeInflight
<1> QED
  BY <1>1, FS_EmptySet DEF CountersAgree

(* The in-flight gauge and the DMA pin counter always agree with the       *)
(* table: no path leaks a pin or a slot (nvme_io.c:774-815).               *)
THEOREM CountersCorrect == Spec => []CountersAgree
<1>1. Init => CountersAgree
  BY CountersInit
<1>2. TaskInv /\ CountersAgree /\ [Next]_vars => CountersAgree'
  BY CountersStep DEF TaskInv
<1> QED
  BY <1>1, <1>2, TaskInvariant, PTL DEF Spec

=============================================================================

---------------------------- MODULE CommandsProofs ----------------------------
(***************************************************************************)
(* Machine-checked proofs about the commands of UnitTask and what its      *)
(* requests achieve, for any number of requests, slots, ring entries and   *)
(* chunks.                                                                 *)
(*                                                                         *)
(* First how a ring's positions change when its producer or its consumer   *)
(* advances; then one lemma for each primitive of the queue pair (Submit,  *)
(* HarvestOne, GiveUp, Fetch, Complete) and each part of CommandsInv, and  *)
(* their theorems; then the same for ResultsInv and the refinement.        *)
(***************************************************************************)
EXTENDS CommandsInv, UnitTaskProofs

\* The consumer takes the entry at h and no other.
LEMMA RingTake ==
  ASSUME NEW h \in Index, NEW t \in Index, h # t
  PROVE  /\ h \in Between(h, t)
         /\ Between(Succ(h), t) = Between(h, t) \ {h}
<1>1. CASE h = QDepth - 1
  BY <1>1, SuccInIndex, QueueAssumption DEF Between, Index
<1>2. CASE h # QDepth - 1
  BY <1>2, SuccInIndex, QueueAssumption DEF Between, Index
<1> QED
  BY <1>1, <1>2

\* The producer adds the entry at t and no other, unless the ring is full.
LEMMA RingPut ==
  ASSUME NEW h \in Index, NEW t \in Index, Succ(t) # h
  PROVE  /\ t \notin Between(h, t)
         /\ Between(h, Succ(t)) = Between(h, t) \cup {t}
<1>1. CASE t = QDepth - 1
  BY <1>1, SuccInIndex, QueueAssumption DEF Between, Index
<1>2. CASE t # QDepth - 1
  BY <1>2, SuccInIndex, QueueAssumption DEF Between, Index
<1> QED
  BY <1>1, <1>2

\* A full ring holds every entry but one.
LEMMA RingFull ==
  ASSUME NEW h \in Index, NEW t \in Index, Succ(t) = h
  PROVE  Between(h, t) = Index \ {t}
<1>1. CASE t = QDepth - 1
  BY <1>1, SuccInIndex, QueueAssumption DEF Between, Index
<1>2. CASE t # QDepth - 1
  BY <1>2, SuccInIndex, QueueAssumption DEF Between, Index
<1> QED
  BY <1>1, <1>2

\* An empty ring holds none.
LEMMA RingEmpty ==
  ASSUME NEW h \in Index
  PROVE  Between(h, h) = {}
  BY DEF Between, Index

\* What is between two positions of a ring can be counted.
LEMMA RingFinite ==
  ASSUME NEW h, NEW t
  PROVE  /\ IsFiniteSet(Between(h, t))
         /\ Cardinality(Between(h, t)) \in Nat
<1>1. IsFiniteSet(Index)
  BY QueueAssumption, FS_Interval DEF Index
<1>2. Between(h, t) \in SUBSET Index
  BY DEF Between
<1> QED
  BY <1>1, <1>2, FS_Subset, FS_CardinalityType

\* Taking an entry leaves one less.
LEMMA RingTakeCount ==
  ASSUME NEW h \in Index, NEW t \in Index, h # t
  PROVE  Cardinality(Between(Succ(h), t)) = Cardinality(Between(h, t)) - 1
  BY RingTake, RingFinite, FS_RemoveElement

\* Adding an entry leaves one more, or none: the full ring reads as empty.
LEMMA RingPutCount ==
  ASSUME NEW h \in Index, NEW t \in Index
  PROVE  /\ Succ(t) # h => Cardinality(Between(h, Succ(t)))
                             = Cardinality(Between(h, t)) + 1
         /\ Succ(t) = h => /\ Cardinality(Between(h, Succ(t))) = 0
                           /\ Cardinality(Between(h, t)) = QDepth - 1
<1>1. CASE Succ(t) # h
  BY <1>1, RingPut, RingFinite, FS_AddElement
<1>2. CASE Succ(t) = h
  <2>1. IsFiniteSet(Index) /\ Cardinality(Index) = QDepth
    <3>1. /\ 0 \in Int /\ QDepth - 1 \in Int
          /\ 0 .. QDepth - 1 = Index
          /\ ~(0 > QDepth - 1) /\ QDepth - 1 - 0 + 1 = QDepth
      BY QueueAssumption DEF Index
    <3> QED
      BY <3>1, FS_Interval
  <2>2. Cardinality(Between(h, t)) = QDepth - 1
    BY <1>2, <2>1, RingFull, FS_RemoveElement
  <2>3. Cardinality(Between(h, Succ(t))) = 0
    BY <1>2, RingEmpty, FS_EmptySet
  <2> QED
    BY <1>2, <2>2, <2>3
<1> QED
  BY <1>1, <1>2

-----------------------------------------------------------------------------
(* The phase bits.                                                         *)

\* Harvest sees an entry exactly when there is one to be read.
LEMMA ReadyMeansPosted ==
  ASSUME QueueTypeOK, RingPhases
  PROVE  CqeReady <=> io_cq_head # dev_cq_tail
  BY DEF QueueTypeOK, RingPhases, CqeReady, Index

\* A step that leaves the completion ring alone.
LEMMA PhasesUnchanged ==
  ASSUME RingPhases,
         UNCHANGED <<io_cq, io_cq_head, io_cq_phase, dev_cq_tail, dev_cq_phase>>
  PROVE  RingPhases'
  BY DEF RingPhases

\* The host flips its phase when it wraps, and not before the controller has.
LEMMA PhasesHarvest ==
  ASSUME QueueTypeOK, RingPhases, HarvestOne
  PROVE  RingPhases'
<1>1. io_cq_head # dev_cq_tail
  BY ReadyMeansPosted DEF HarvestOne
<1>2. /\ UNCHANGED <<io_cq, dev_cq_tail, dev_cq_phase>>
      /\ io_cq_head' = Succ(io_cq_head)
      /\ io_cq_phase' = IF Succ(io_cq_head) = 0 THEN 1 - io_cq_phase
                                                ELSE io_cq_phase
  BY DEF HarvestOne, devVars
<1>3. /\ io_cq_head \in Index /\ dev_cq_tail \in Index
      /\ io_cq_phase \in {0, 1} /\ dev_cq_phase \in {0, 1}
  BY DEF QueueTypeOK
<1>4. CASE io_cq_head = QDepth - 1
  BY <1>1, <1>2, <1>3, <1>4, SuccInIndex, QueueAssumption DEF RingPhases, Index
<1>5. CASE io_cq_head # QDepth - 1
  BY <1>1, <1>2, <1>3, <1>5, SuccInIndex, QueueAssumption DEF RingPhases, Index
<1> QED
  BY <1>4, <1>5

\* The controller writes its phase and flips it when it wraps.
LEMMA PhasesComplete ==
  ASSUME QueueTypeOK, RingPhases, NEW c \in executing, NEW ok \in BOOLEAN,
         Complete(c, ok)
  PROVE  RingPhases'
<1>1. /\ UNCHANGED <<io_cq_head, io_cq_phase>>
      /\ dev_cq_tail' = Succ(dev_cq_tail)
      /\ Succ(dev_cq_tail) # io_cq_head
      /\ dev_cq_phase' = IF Succ(dev_cq_tail) = 0 THEN 1 - dev_cq_phase
                                                  ELSE dev_cq_phase
  BY DEF Complete, hostVars
<1>2. /\ io_cq_head \in Index /\ dev_cq_tail \in Index
      /\ io_cq_phase \in {0, 1} /\ dev_cq_phase \in {0, 1}
  BY DEF QueueTypeOK
<1>3. \A i \in Index : io_cq'[i].phase = IF i = dev_cq_tail THEN dev_cq_phase
                                                          ELSE io_cq[i].phase
  BY DEF QueueTypeOK, Complete
<1>4. CASE dev_cq_tail = QDepth - 1
  BY <1>1, <1>2, <1>3, <1>4, SuccInIndex, QueueAssumption DEF RingPhases, Index
<1>5. CASE dev_cq_tail # QDepth - 1
  BY <1>1, <1>2, <1>3, <1>5, SuccInIndex, QueueAssumption DEF RingPhases, Index
<1> QED
  BY <1>4, <1>5

-----------------------------------------------------------------------------
(* The number of commands.                                                 *)

\* Claiming a slot occupies it and no other.
LEMMA OccupiedSubmit ==
  ASSUME QueueTypeOK, NEW r \in Req, NEW k, NEW suppress, NEW dma, NEW ring,
         Submit(r, k, suppress, dma, ring)
  PROVE  /\ FirstFree \in Slot \ Occupied
         /\ inflight'[FirstFree] = [ioreq |-> r, suppress |-> suppress,
                                    dma |-> dma]
         /\ \A s \in Slot : s # FirstFree => inflight'[s] = inflight[s]
         /\ Occupied' = Occupied \cup {FirstFree}
         /\ Cardinality(Occupied') = Cardinality(Occupied) + 1
         /\ Cardinality(Occupied') <= MaxInflight
<1> DEFINE f == FirstFree
           e == [ioreq |-> r, suppress |-> suppress, dma |-> dma]
<1>1. f \in Slot \ Occupied
  BY FirstFreeIsFree DEF Submit, FreeSlot
<1>2. inflight' = [inflight EXCEPT ![f] = e]
  BY DEF Submit
<1>3. e.ioreq = r
  OBVIOUS
<1> HIDE DEF f, e
<1>4. inflight'[f] = e /\ \A s \in Slot : s # f => inflight'[s] = inflight[s]
  BY <1>1, <1>2 DEF QueueTypeOK
<1>5. Occupied' = Occupied \cup {f}
  BY <1>1, <1>3, <1>4, QueueAssumption DEF Occupied
<1>6. Cardinality(Occupied') = Cardinality(Occupied) + 1
  BY <1>1, <1>5, SlotsFinite, FS_AddElement
<1>7. Cardinality(Occupied') <= MaxInflight
  <2>1. IsFiniteSet(Slot) /\ Cardinality(Slot) = MaxInflight
    <3>1. /\ 1 \in Int /\ MaxInflight \in Int
          /\ ~(1 > MaxInflight) /\ MaxInflight - 1 + 1 = MaxInflight
      BY QueueAssumption
    <3> QED
      BY <3>1, FS_Interval DEF Slot
  <2>2. Occupied' \in SUBSET Slot
    BY DEF Occupied
  <2> QED
    BY <2>1, <2>2, FS_Subset
<1> QED
  BY <1>1, <1>4, <1>5, <1>6, <1>7 DEF f, e

\* Releasing a slot frees it and no other.
LEMMA OccupiedRelease ==
  ASSUME QueueTypeOK, NEW s \in Occupied,
         inflight' = [inflight EXCEPT ![s] = FreeInflight]
  PROVE  /\ Occupied' = Occupied \ {s}
         /\ Cardinality(Occupied') = Cardinality(Occupied) - 1
         /\ \A t \in Slot : t # s => inflight'[t] = inflight[t]
<1>1. /\ inflight'[s].ioreq = NULL
      /\ \A t \in Slot : t # s => inflight'[t] = inflight[t]
  BY DEF QueueTypeOK, FreeInflight, Occupied
<1>2. Occupied' = Occupied \ {s}
  BY <1>1 DEF Occupied
<1>3. Cardinality(Occupied') = Cardinality(Occupied) - 1
  BY <1>2, SlotsFinite, FS_RemoveElement
<1> QED
  BY <1>1, <1>2, <1>3

\* Neither ring nor the controller's set has an odd count.
LEMMA OwedType ==
  ASSUME IsFiniteSet(executing)
  PROVE  /\ Cardinality(Unfetched) \in Nat
         /\ Cardinality(Unharvested) \in Nat
         /\ Cardinality(executing) \in Nat
         /\ Owed \in Nat
  BY RingFinite, FS_CardinalityType DEF Unfetched, Unharvested, Owed

\* As long as few enough polls have given up, Submit finds room in the ring.
LEMMA SqHasRoom ==
  ASSUME QueueTypeOK, IsFiniteSet(executing), RoomLeft, CommandsBounded,
         NEW r \in Req, NEW k, NEW suppress, NEW dma, NEW ring,
         Submit(r, k, suppress, dma, ring)
  PROVE  Succ(io_sq_tail) # dev_sq_head
<1>1. Cardinality(Occupied) + 1 <= MaxInflight
  BY OccupiedSubmit
<1>2. Owed <= Cardinality(Occupied) + timeouts
  BY DEF CommandsBounded
<1>3. Succ(io_sq_tail) = dev_sq_head => Cardinality(Unfetched) = QDepth - 1
  BY RingPutCount DEF QueueTypeOK, Unfetched
<1> QED
  BY <1>1, <1>2, <1>3, OwedType, SlotsFinite, QueueAssumption
     DEF RoomLeft, QueueTypeOK, Owed

\* A step that moves no command, and publishes the tail or not.
LEMMA BoundedUnchanged ==
  ASSUME QueueTypeOK, IsFiniteSet(executing), CommandsBounded,
         UNCHANGED <<inflight, io_sq_tail, dev_sq_head, executing, io_cq_head,
                     dev_cq_tail>>,
         timeouts' \in {timeouts, timeouts + 1},
         sq_doorbell' \in {sq_doorbell, io_sq_tail}
  PROVE  CommandsBounded'
<1>1. Occupied' = Occupied /\ Owed' = Owed
  BY DEF Occupied, Owed, Unfetched, Unharvested
<1>2. DoorbellInRing'
  BY DEF CommandsBounded, DoorbellInRing, Unfetched
<1> QED
  BY <1>1, <1>2, OwedType, SlotsFinite DEF CommandsBounded, QueueTypeOK

\* Submit adds a command and a slot.
LEMMA BoundedSubmit ==
  ASSUME QueueTypeOK, IsFiniteSet(executing), RoomLeft, CommandsBounded,
         NEW r \in Req, NEW k, NEW suppress, NEW dma, NEW ring,
         Submit(r, k, suppress, dma, ring)
  PROVE  CommandsBounded'
<1>1. Cardinality(Occupied') = Cardinality(Occupied) + 1
  BY OccupiedSubmit
<1>2. /\ UNCHANGED <<executing, io_cq_head, dev_cq_tail, timeouts, dev_sq_head>>
      /\ io_sq_tail' = Succ(io_sq_tail)
      /\ sq_doorbell' \in {sq_doorbell, Succ(io_sq_tail)}
  BY DEF Submit, devVars
<1>3. Succ(io_sq_tail) # dev_sq_head
  BY SqHasRoom
<1>4. /\ Unfetched' = Unfetched \cup {io_sq_tail}
      /\ Cardinality(Unfetched') = Cardinality(Unfetched) + 1
  BY <1>2, <1>3, RingPut, RingPutCount DEF QueueTypeOK, Unfetched
<1>5. Unharvested' = Unharvested
  BY <1>2 DEF Unharvested
<1>6. DoorbellInRing'
  BY <1>2, <1>4 DEF CommandsBounded, DoorbellInRing
<1>7. Owed' = Owed + 1
  BY <1>2, <1>4, <1>5, OwedType DEF Owed
<1> QED
  BY <1>1, <1>2, <1>6, <1>7, OwedType, SlotsFinite DEF CommandsBounded, QueueTypeOK

\* Harvest consumes a completion and frees at most one slot.
LEMMA BoundedHarvest ==
  ASSUME QueueTypeOK, RingPhases, IsFiniteSet(executing), CommandsBounded,
         HarvestOne
  PROVE  CommandsBounded' /\ Owed' = Owed - 1
<1>1. io_cq_head # dev_cq_tail
  BY ReadyMeansPosted DEF HarvestOne
<1>2. /\ UNCHANGED <<executing, io_sq_tail, dev_sq_head, timeouts, sq_doorbell,
                    dev_cq_tail>>
      /\ io_cq_head' = Succ(io_cq_head)
  BY DEF HarvestOne, devVars
<1>3. Cardinality(Unharvested') = Cardinality(Unharvested) - 1
  BY <1>1, <1>2, RingTakeCount DEF QueueTypeOK, Unharvested
<1>4. Unfetched' = Unfetched
  BY <1>2 DEF Unfetched
<1>5. Cardinality(Occupied') \in {Cardinality(Occupied), Cardinality(Occupied) - 1}
  <2>1. CASE Matched
    BY <2>1, OccupiedRelease DEF HarvestOne, Matched
  <2>2. CASE ~Matched
    <3>1. Occupied' = Occupied
      BY <2>2 DEF HarvestOne, Occupied
    <3> QED
      BY <3>1
  <2> QED
    BY <2>1, <2>2
<1>6. DoorbellInRing'
  BY <1>2, <1>4 DEF CommandsBounded, DoorbellInRing
<1>7. Owed' = Owed - 1
  BY <1>2, <1>3, <1>4, OwedType DEF Owed
<1> QED
  BY <1>2, <1>5, <1>6, <1>7, OwedType, SlotsFinite
     DEF CommandsBounded, QueueTypeOK

\* A poll that gives up abandons one command.
LEMMA BoundedGiveUp ==
  ASSUME QueueTypeOK, IsFiniteSet(executing), CommandsBounded,
         NEW s \in Occupied, GiveUp(s)
  PROVE  CommandsBounded'
<1>1. Cardinality(Occupied') = Cardinality(Occupied) - 1
  BY OccupiedRelease DEF GiveUp
<1>2. Owed' = Owed /\ executing' = executing /\ timeouts' = timeouts + 1
  BY DEF GiveUp, devVars, Owed, Unfetched, Unharvested
<1>3. DoorbellInRing'
  BY DEF GiveUp, devVars, CommandsBounded, DoorbellInRing, Unfetched
<1> QED
  BY <1>1, <1>2, <1>3, OwedType, SlotsFinite DEF CommandsBounded, QueueTypeOK

\* The controller fetches only what has been written.
LEMMA FetchFromRing ==
  ASSUME QueueTypeOK, DoorbellInRing, Fetch
  PROVE  dev_sq_head # io_sq_tail
  BY RingEmpty DEF QueueTypeOK, DoorbellInRing, Fetch, Unfetched

\* A fetched command stays owed, once.
LEMMA BoundedFetch ==
  ASSUME QueueTypeOK, IsFiniteSet(executing), CommandsBounded, Fetch
  PROVE  CommandsBounded'
<1>1. dev_sq_head # io_sq_tail
  BY FetchFromRing DEF CommandsBounded
<1>2. /\ UNCHANGED <<inflight, io_cq_head, dev_cq_tail, timeouts, sq_doorbell,
                    io_sq_tail>>
      /\ dev_sq_head' = Succ(dev_sq_head)
      /\ executing' = executing \cup {io_sq[dev_sq_head]}
  BY DEF Fetch, hostVars
<1>3. /\ Unfetched' = Unfetched \ {dev_sq_head}
      /\ Cardinality(Unfetched') = Cardinality(Unfetched) - 1
  BY <1>1, <1>2, RingTake, RingTakeCount DEF QueueTypeOK, Unfetched
<1>4. Cardinality(executing') \in {Cardinality(executing), Cardinality(executing) + 1}
  BY <1>2, FS_AddElement
<1>5. Unharvested' = Unharvested /\ Occupied' = Occupied
  BY <1>2 DEF Unharvested, Occupied
<1>6. DoorbellInRing'
  BY <1>2, <1>3 DEF CommandsBounded, DoorbellInRing, Fetch
<1>7. Owed' \in {Owed, Owed - 1}
  BY <1>3, <1>4, <1>5, OwedType DEF Owed
<1> QED
  BY <1>2, <1>5, <1>6, <1>7, OwedType, SlotsFinite
     DEF CommandsBounded, QueueTypeOK

\* A completed command stays owed until Harvest has read the completion.
LEMMA BoundedComplete ==
  ASSUME QueueTypeOK, IsFiniteSet(executing), CommandsBounded,
         NEW c \in executing, NEW ok \in BOOLEAN, Complete(c, ok)
  PROVE  CommandsBounded' /\ Owed' = Owed
<1>1. /\ UNCHANGED <<inflight, io_cq_head, timeouts, sq_doorbell, io_sq_tail,
                    dev_sq_head>>
      /\ dev_cq_tail' = Succ(dev_cq_tail)
      /\ Succ(dev_cq_tail) # io_cq_head
      /\ executing' = executing \ {c}
  BY DEF Complete, hostVars
<1>2. Cardinality(Unharvested') = Cardinality(Unharvested) + 1
  BY <1>1, RingPutCount DEF QueueTypeOK, Unharvested
<1>3. Cardinality(executing') = Cardinality(executing) - 1
  BY <1>1, FS_RemoveElement
<1>4. Unfetched' = Unfetched /\ Occupied' = Occupied
  BY <1>1 DEF Unfetched, Occupied
<1>5. Owed' = Owed
  BY <1>2, <1>3, <1>4, OwedType DEF Owed
<1>6. DoorbellInRing'
  BY <1>1, <1>4 DEF CommandsBounded, DoorbellInRing
<1> QED
  BY <1>1, <1>4, <1>5, <1>6 DEF CommandsBounded

\* The controller holds finitely many commands.
LEMMA ExecutingFinite ==
  ASSUME IsFiniteSet(executing), Controller
  PROVE  IsFiniteSet(executing')
  BY FS_AddElement, FS_RemoveElement DEF Controller, Fetch, Complete

-----------------------------------------------------------------------------
(* Which slot and which request every command belongs to.                  *)

\* What LiveCids collects.
LEMMA InLiveCids ==
  ASSUME NEW s
  PROVE  s \in LiveCids <=> \/ \E i \in Unfetched : s = io_sq[i].cid
                            \/ \E c \in executing : s = c.cid
                            \/ \E i \in Unharvested : s = io_cq[i].cid
  BY DEF LiveCids

\* A step that moves no command and no slot.
LEMMA MatchUnchanged ==
  ASSUME CommandsMatch,
         UNCHANGED <<inflight, io_sq, io_sq_tail, dev_sq_head, executing,
                     io_cq, io_cq_head, dev_cq_tail>>
  PROVE  CommandsMatch'
<1>1. /\ Unfetched' = Unfetched /\ Unharvested' = Unharvested
      /\ Occupied' = Occupied
  BY DEF Unfetched, Unharvested, Occupied
<1>2. LiveCids' = LiveCids /\ Owed' = Owed
  BY <1>1 DEF LiveCids, Owed
<1>3. CidsDistinct' /\ WorksForSlot'
  BY <1>1 DEF CommandsMatch, CidsDistinct, WorksForSlot
<1> QED
  BY <1>1, <1>2, <1>3 DEF CommandsMatch

\* A new command gets a cid no other command has.
LEMMA MatchSubmit ==
  ASSUME QueueTypeOK, IsFiniteSet(executing), RoomLeft, CommandsBounded,
         CommandsMatch, NEW r \in Req, NEW k, NEW suppress, NEW dma, NEW ring,
         Submit(r, k, suppress, dma, ring)
  PROVE  CommandsMatch'
<1> DEFINE f == FirstFree
           t == io_sq_tail
           e == [cid |-> f, ioreq |-> r, chunk |-> k]
<1>1. /\ f \in Slot \ Occupied
      /\ inflight'[f].ioreq = r
      /\ \A s \in Slot : s # f => inflight'[s] = inflight[s]
      /\ Occupied' = Occupied \cup {f}
      /\ Cardinality(Occupied') = Cardinality(Occupied) + 1
  <2> HIDE DEF f
  <2>1. inflight'[f] = [ioreq |-> r, suppress |-> suppress, dma |-> dma]
    BY OccupiedSubmit DEF f
  <2>2. inflight'[f].ioreq = r
    BY <2>1
  <2> QED
    BY <2>2, OccupiedSubmit DEF f
<1>2. /\ UNCHANGED <<executing, io_cq, io_cq_head, dev_cq_tail, dev_sq_head>>
      /\ io_sq_tail' = Succ(t)
      /\ io_sq' = [io_sq EXCEPT ![t] = e]
  BY DEF Submit, devVars
<1>3. e.cid = f /\ e.ioreq = r
  OBVIOUS
<1> HIDE DEF f, e
<1>4. Succ(t) # dev_sq_head
  BY SqHasRoom
<1>5. /\ Unfetched' = Unfetched \cup {t} /\ t \notin Unfetched
      /\ Unfetched \subseteq Index
      /\ Cardinality(Unfetched') = Cardinality(Unfetched) + 1
  BY <1>2, <1>4, RingPut, RingPutCount DEF QueueTypeOK, Unfetched, Between
<1>6. Unharvested' = Unharvested
  BY <1>2 DEF Unharvested
<1>7. io_sq'[t] = e /\ \A i \in Unfetched : io_sq'[i] = io_sq[i]
  BY <1>2, <1>5 DEF QueueTypeOK
<1>8. /\ \A i \in Unfetched : io_sq[i].cid # f /\ io_sq[i].cid \in Slot
      /\ \A c \in executing : c.cid # f /\ c.cid \in Slot
      /\ \A i \in Unharvested : io_cq[i].cid # f
  BY <1>1, InLiveCids DEF CommandsMatch, Occupied
<1>9. LiveCids' = Occupied'
  <2>1. ASSUME NEW s
        PROVE  s \in LiveCids' <=> s \in LiveCids \/ s = f
    <3>1. s \in LiveCids' <=> \/ \E i \in Unfetched' : s = io_sq'[i].cid
                              \/ \E c \in executing' : s = c.cid
                              \/ \E i \in Unharvested' : s = io_cq'[i].cid
      BY DEF LiveCids
    <3>2. (\E i \in Unfetched' : s = io_sq'[i].cid)
            <=> (\E i \in Unfetched : s = io_sq[i].cid) \/ s = f
      BY <1>3, <1>5, <1>7
    <3> QED
      BY <1>2, <1>6, <3>1, <3>2, InLiveCids
  <2> QED
    BY <1>1, <2>1 DEF CommandsMatch
<1>10. CidsDistinct'
  BY <1>2, <1>3, <1>5, <1>6, <1>7, <1>8 DEF CidsDistinct, CommandsMatch
<1>11. WorksForSlot'
  BY <1>1, <1>2, <1>3, <1>5, <1>7, <1>8 DEF WorksForSlot, CommandsMatch
<1>12. Owed' = Cardinality(Occupied')
  BY <1>1, <1>2, <1>5, <1>6, OwedType, SlotsFinite DEF CommandsMatch, Owed
<1> QED
  BY <1>9, <1>10, <1>11, <1>12 DEF CommandsMatch

\* Harvest always finds the slot of the command whose completion it reads.
LEMMA HarvestMatched ==
  ASSUME QueueTypeOK, RingPhases, CommandsMatch, HarvestOne
  PROVE  Matched /\ io_cq_head \in Unharvested
<1>1. io_cq_head # dev_cq_tail
  BY ReadyMeansPosted DEF HarvestOne
<1>2. io_cq_head \in Unharvested
  BY <1>1, RingTake DEF Unharvested, QueueTypeOK
<1> QED
  BY <1>2, InLiveCids DEF CommandsMatch, Matched

\* A harvested command leaves with its slot.
LEMMA MatchHarvest ==
  ASSUME QueueTypeOK, RingPhases, IsFiniteSet(executing), CommandsBounded,
         CommandsMatch, HarvestOne
  PROVE  CommandsMatch'
<1> DEFINE h == io_cq_head
           s == io_cq[h].cid
<1>1. /\ s \in Occupied /\ h \in Unharvested
      /\ inflight' = [inflight EXCEPT ![s] = FreeInflight]
  BY HarvestMatched DEF HarvestOne, Matched
<1>2. /\ Occupied' = Occupied \ {s}
      /\ Cardinality(Occupied') = Cardinality(Occupied) - 1
      /\ \A t \in Slot : t # s => inflight'[t] = inflight[t]
  BY <1>1, OccupiedRelease
<1>3. /\ UNCHANGED <<executing, io_sq, io_cq, io_sq_tail, dev_cq_tail,
                    dev_sq_head>>
      /\ io_cq_head' = Succ(h)
  BY DEF HarvestOne, devVars
<1>4. Unharvested' = Unharvested \ {h}
  BY <1>3, ReadyMeansPosted, RingTake DEF HarvestOne, QueueTypeOK, Unharvested
<1>5. Unfetched' = Unfetched
  BY <1>3 DEF Unfetched
<1>6. Owed' = Owed - 1
  BY BoundedHarvest
<1>7. /\ \A i \in Unfetched : io_sq[i].cid # s /\ io_sq[i].cid \in Slot
      /\ \A c \in executing : c.cid # s /\ c.cid \in Slot
      /\ \A i \in Unharvested : i # h => io_cq[i].cid # s
  BY <1>1, InLiveCids DEF CommandsMatch, CidsDistinct, Occupied
<1> HIDE DEF s, h
<1>8. LiveCids' = Occupied'
  <2>1. ASSUME NEW x
        PROVE  x \in LiveCids' <=> x \in LiveCids /\ x # s
    <3>1. x \in LiveCids' <=> \/ \E i \in Unfetched' : x = io_sq'[i].cid
                              \/ \E c \in executing' : x = c.cid
                              \/ \E i \in Unharvested' : x = io_cq'[i].cid
      BY DEF LiveCids
    <3>2. (\E i \in Unharvested' : x = io_cq'[i].cid)
            <=> (\E i \in Unharvested : x = io_cq[i].cid) /\ x # s
      BY <1>1, <1>3, <1>4, <1>7 DEF s
    <3> QED
      BY <1>3, <1>5, <1>7, <3>1, <3>2, InLiveCids
  <2> QED
    BY <1>2, <2>1 DEF CommandsMatch
<1>9. CidsDistinct'
  BY <1>3, <1>4, <1>5 DEF CidsDistinct, CommandsMatch
<1>10. WorksForSlot'
  BY <1>2, <1>3, <1>5, <1>7 DEF WorksForSlot, CommandsMatch
<1>11. Owed' = Cardinality(Occupied')
  BY <1>2, <1>6, OwedType, SlotsFinite DEF CommandsMatch
<1> QED
  BY <1>8, <1>9, <1>10, <1>11 DEF CommandsMatch

\* A fetched command keeps its cid and its request.
LEMMA MatchFetch ==
  ASSUME QueueTypeOK, IsFiniteSet(executing), CommandsBounded, CommandsMatch,
         Fetch
  PROVE  CommandsMatch'
<1> DEFINE h == dev_sq_head
           e == io_sq[h]
<1>1. h # io_sq_tail
  BY FetchFromRing DEF CommandsBounded
<1>2. /\ UNCHANGED <<inflight, io_sq, io_cq, io_sq_tail, io_cq_head, dev_cq_tail>>
      /\ dev_sq_head' = Succ(h)
      /\ executing' = executing \cup {e}
  BY DEF Fetch, hostVars
<1>3. /\ h \in Unfetched
      /\ Unfetched' = Unfetched \ {h}
      /\ Cardinality(Unfetched') = Cardinality(Unfetched) - 1
  BY <1>1, <1>2, RingTake, RingTakeCount DEF QueueTypeOK, Unfetched
<1>4. Unharvested' = Unharvested /\ Occupied' = Occupied
  BY <1>2 DEF Unharvested, Occupied
<1>5. \A c \in executing : c.cid # e.cid
  BY <1>3 DEF CommandsMatch, CidsDistinct
<1> HIDE DEF h
<1>6. Cardinality(executing') = Cardinality(executing) + 1
  BY <1>2, <1>5, FS_AddElement
<1>7. LiveCids' = LiveCids
  <2>1. ASSUME NEW x
        PROVE  x \in LiveCids' <=> x \in LiveCids
    <3>1. x \in LiveCids' <=> \/ \E i \in Unfetched' : x = io_sq'[i].cid
                              \/ \E c \in executing' : x = c.cid
                              \/ \E i \in Unharvested' : x = io_cq'[i].cid
      BY DEF LiveCids
    <3> QED
      BY <1>2, <1>3, <1>4, <3>1, InLiveCids
  <2> QED
    BY <2>1
<1>8. CidsDistinct'
  BY <1>2, <1>3, <1>4, <1>5 DEF CidsDistinct, CommandsMatch
<1>9. WorksForSlot'
  BY <1>2, <1>3 DEF WorksForSlot, CommandsMatch
<1>10. Owed' = Owed
  BY <1>3, <1>4, <1>6, OwedType DEF Owed
<1> QED
  BY <1>4, <1>7, <1>8, <1>9, <1>10 DEF CommandsMatch

\* A completion carries the cid of its command.
LEMMA MatchComplete ==
  ASSUME QueueTypeOK, IsFiniteSet(executing), CommandsBounded, CommandsMatch,
         NEW c \in executing, NEW ok \in BOOLEAN, Complete(c, ok)
  PROVE  CommandsMatch'
<1> DEFINE t == dev_cq_tail
           e == [cid |-> c.cid, phase |-> dev_cq_phase, ok |-> ok]
<1>1. /\ UNCHANGED <<inflight, io_sq, io_sq_tail, io_cq_head, dev_sq_head>>
      /\ dev_cq_tail' = Succ(t)
      /\ Succ(t) # io_cq_head
      /\ io_cq' = [io_cq EXCEPT ![t] = e]
      /\ executing' = executing \ {c}
  BY DEF Complete, hostVars
<1>2. e.cid = c.cid
  OBVIOUS
<1> HIDE DEF e
<1>3. /\ Unharvested' = Unharvested \cup {t} /\ t \notin Unharvested
      /\ Unharvested \subseteq Index
  BY <1>1, RingPut DEF QueueTypeOK, Unharvested, Between
<1>4. Unfetched' = Unfetched /\ Occupied' = Occupied
  BY <1>1 DEF Unfetched, Occupied
<1>5. io_cq'[t] = e /\ \A i \in Unharvested : io_cq'[i] = io_cq[i]
  BY <1>1, <1>3 DEF QueueTypeOK
<1>6. LiveCids' = LiveCids
  <2>1. ASSUME NEW x
        PROVE  x \in LiveCids' <=> x \in LiveCids
    <3>1. x \in LiveCids' <=> \/ \E i \in Unfetched' : x = io_sq'[i].cid
                              \/ \E d \in executing' : x = d.cid
                              \/ \E i \in Unharvested' : x = io_cq'[i].cid
      BY DEF LiveCids
    <3> QED
      BY <1>1, <1>2, <1>3, <1>4, <1>5, <3>1, InLiveCids
  <2> QED
    BY <2>1
<1>7. CidsDistinct'
  BY <1>1, <1>2, <1>3, <1>4, <1>5 DEF CidsDistinct, CommandsMatch
<1>8. WorksForSlot'
  BY <1>1, <1>4 DEF WorksForSlot, CommandsMatch
<1>9. Owed' = Owed
  BY BoundedComplete
<1> QED
  BY <1>4, <1>6, <1>7, <1>8, <1>9 DEF CommandsMatch

-----------------------------------------------------------------------------
(* CommandsInv is inductive, one lemma per primitive of the queue pair.    *)

\* Before the first poll gives up there is room for every command.
LEMMA RoomAtFirst ==
  ASSUME timeouts = 0
  PROVE  RoomLeft
  BY QueueAssumption DEF RoomLeft

\* Polls that give up only take room away.
LEMMA RoomBefore ==
  ASSUME timeouts \in 0 .. MaxTimeouts, timeouts' \in {timeouts, timeouts + 1},
         RoomLeft'
  PROVE  RoomLeft
<1>1. CASE timeouts' = timeouts
  BY <1>1 DEF RoomLeft
<1>2. CASE timeouts' = timeouts + 1
  BY <1>2, QueueAssumption DEF RoomLeft
<1> QED
  BY <1>1, <1>2

\* A step that at most publishes the tail or counts a poll that gave up.
LEMMA CommandsQuiet ==
  ASSUME QueueTypeOK, CommandsInv,
         UNCHANGED <<inflight, io_sq, io_sq_tail, dev_sq_head, executing, io_cq,
                     io_cq_head, io_cq_phase, dev_cq_tail, dev_cq_phase>>,
         timeouts' \in {timeouts, timeouts + 1},
         sq_doorbell' \in {sq_doorbell, io_sq_tail}
  PROVE  CommandsInv'
<1>1. RoomLeft' => RoomLeft
  BY RoomBefore DEF QueueTypeOK
<1>2. timeouts' = 0 => timeouts = 0
  BY DEF QueueTypeOK
<1> QED
  BY <1>1, <1>2, PhasesUnchanged, BoundedUnchanged, MatchUnchanged DEF CommandsInv

LEMMA CommandsSubmit ==
  ASSUME QueueTypeOK, CommandsInv, NEW r \in Req, NEW k, NEW suppress,
         NEW dma, NEW ring, Submit(r, k, suppress, dma, ring)
  PROVE  CommandsInv'
<1>1. /\ timeouts' = timeouts /\ executing' = executing
      /\ UNCHANGED <<io_cq, io_cq_head, io_cq_phase, dev_cq_tail, dev_cq_phase>>
  BY DEF Submit, devVars
<1>2. RoomLeft' = RoomLeft
  BY <1>1 DEF RoomLeft
<1>3. RingPhases'
  BY <1>1, PhasesUnchanged DEF CommandsInv
<1>4. RoomLeft => CommandsBounded'
  BY BoundedSubmit DEF CommandsInv
<1>5. timeouts = 0 => CommandsMatch'
  BY RoomAtFirst, MatchSubmit DEF CommandsInv
<1> QED
  BY <1>1, <1>2, <1>3, <1>4, <1>5 DEF CommandsInv

LEMMA CommandsHarvest ==
  ASSUME QueueTypeOK, CommandsInv, HarvestOne
  PROVE  CommandsInv'
<1>1. timeouts' = timeouts /\ executing' = executing
  BY DEF HarvestOne, devVars
<1>2. RoomLeft' = RoomLeft
  BY <1>1 DEF RoomLeft
<1> QED
  BY <1>1, <1>2, RoomAtFirst, PhasesHarvest, BoundedHarvest, MatchHarvest
     DEF CommandsInv

LEMMA CommandsGiveUp ==
  ASSUME QueueTypeOK, CommandsInv, NEW s \in Occupied, GiveUp(s)
  PROVE  CommandsInv'
<1>1. /\ timeouts' = timeouts + 1 /\ executing' = executing
      /\ UNCHANGED <<io_cq, io_cq_head, io_cq_phase, dev_cq_tail, dev_cq_phase>>
  BY DEF GiveUp, devVars
<1>2. (RoomLeft' => RoomLeft) /\ timeouts' # 0
  BY <1>1, QueueAssumption DEF RoomLeft, QueueTypeOK
<1> QED
  BY <1>1, <1>2, PhasesUnchanged, BoundedGiveUp DEF CommandsInv

LEMMA CommandsController ==
  ASSUME QueueTypeOK, CommandsInv, Controller
  PROVE  CommandsInv'
<1>1. IsFiniteSet(executing') /\ timeouts' = timeouts
  BY ExecutingFinite DEF CommandsInv, Controller, Fetch, Complete, hostVars
<1>2. RoomLeft' = RoomLeft
  BY <1>1 DEF RoomLeft
<1>3. CASE Fetch
  <2>1. RingPhases'
    BY <1>3, PhasesUnchanged DEF CommandsInv, Fetch, hostVars
  <2> QED
    BY <1>1, <1>2, <1>3, <2>1, RoomAtFirst, BoundedFetch, MatchFetch
       DEF CommandsInv
<1>4. ASSUME NEW c \in executing, NEW ok \in BOOLEAN, Complete(c, ok)
      PROVE  CommandsInv'
  BY <1>1, <1>2, <1>4, RoomAtFirst, PhasesComplete, BoundedComplete,
     MatchComplete DEF CommandsInv
<1> QED
  BY <1>3, <1>4 DEF Controller

\* Both rings are empty at first and the controller has nothing.
LEMMA CommandsInit == Init => CommandsInv
<1> SUFFICES ASSUME Init
             PROVE  CommandsInv
  OBVIOUS
<1>1. /\ dev_sq_head = 0 /\ io_sq_tail = 0 /\ sq_doorbell = 0
      /\ io_cq_head = 0 /\ dev_cq_tail = 0 /\ io_cq_phase = 1
      /\ dev_cq_phase = 1 /\ executing = {} /\ timeouts = 0
      /\ \A i \in Index : io_cq[i].phase = 0
      /\ 0 \in Index
  BY QueueAssumption DEF Init, QueueInit, Index
<1>2. Unfetched = {} /\ Unharvested = {}
  BY <1>1, RingEmpty DEF Unfetched, Unharvested
<1>3. Occupied = {}
  BY DEF Init, QueueInit, Occupied, FreeInflight
<1>4. Cardinality({}) = 0 /\ IsFiniteSet({})
  BY FS_EmptySet
<1>5. RingPhases
  BY <1>1 DEF RingPhases, Index
<1>6. LiveCids = {}
  BY <1>1, <1>2 DEF LiveCids
<1>7. CommandsMatch /\ CommandsBounded
  BY <1>1, <1>2, <1>3, <1>4, <1>6
     DEF CommandsMatch, CidsDistinct, WorksForSlot, Owed, CommandsBounded,
         DoorbellInRing
<1> QED
  BY <1>1, <1>4, <1>5, <1>7 DEF CommandsInv

\* Every step of the unit, one primitive at a time.
LEMMA CommandsStep ==
  ASSUME TypeOK, PolledSlot, CurWhileBusy, CommandsInv, [Next]_vars
  PROVE  CommandsInv'
<1>0. TypeOK /\ PolledSlot /\ CurWhileBusy /\ CommandsInv /\ QueueTypeOK
  BY DEF TypeOK
<1>1. CASE Client \/ MaskWriters \/ UNCHANGED vars
  BY <1>0, <1>1, CommandsQuiet, WritersQuiet DEF Client, BeginIO, AbortIO, vars,
     queueVars, hostVars, devVars
<1>2. CASE Device
  BY <1>0, <1>2, CommandsController DEF Device
<1>3. CASE Top \/ Wait \/ Peek \/ Clear \/ EndYield \/ EndWake \/ Unmask \/ GetMsg
  BY <1>0, <1>3, CommandsQuiet DEF Top, Wait, Peek, Clear, EndYield, EndWake,
     Unmask, GetMsg, queueVars, hostVars, devVars
<1>4. CASE EndDrain
  BY <1>0, <1>4, CommandsQuiet DEF EndDrain, RingSQ, devVars
<1>5. CASE Harvest
  BY <1>0, <1>5, CommandsHarvest DEF Harvest
<1>6. CASE Dispatch
  <2>1. CASE \/ \E err \in BOOLEAN : DispatchInline(err)
             \/ Refuse \/ EndFull \/ FullUnmask \/ PollDone \/ PollAgain
             \/ PollUnmask
    BY <1>0, <2>1, CommandsQuiet DEF DispatchInline, Refuse, EndFull, FullUnmask,
       PollDone, PollAgain, PollUnmask, queueVars, hostVars, devVars
  <2>2. CASE Full \/ FullTimeout
    BY <1>0, <2>2, CommandsQuiet DEF Full, RingSQ, FullTimeout, devVars
  <2>3. pc = "dispatch" => cur \in Req
    BY <1>0 DEF CurWhileBusy, BusyPc, TypeOK, TaskTypeOK
  <2>4. CASE DispatchOne
    <3> DEFINE dma == Kind[cur] = "rw" /\ cur \in Direct
               ring == Kind[cur] = "flush"
    <3>1. Submit(cur, 1, FALSE, dma, ring) /\ pc = "dispatch"
      BY <2>4 DEF DispatchOne
    <3> HIDE DEF dma, ring
    <3> QED
      BY <1>0, <2>3, <3>1, CommandsSubmit
  <2>5. CASE DispatchPolled
    <3> DEFINE dma == Kind[cur] = "split" /\ cur \in Direct
               k == done + 1
    <3>1. Submit(cur, k, TRUE, dma, TRUE) /\ pc = "dispatch"
      BY <2>5 DEF DispatchPolled
    <3> HIDE DEF dma, k
    <3> QED
      BY <1>0, <2>3, <3>1, CommandsSubmit
  <2>6. CASE PollTimeout
    BY <1>0, <2>6, CommandsGiveUp DEF PollTimeout, PolledSlot
  <2> QED
    BY <1>6, <2>1, <2>2, <2>4, <2>5, <2>6 DEF Dispatch
<1> QED
  BY <1>1, <1>2, <1>3, <1>4, <1>5, <1>6 DEF Next, Task

(* In every reachable state the commands on the rings and in the           *)
(* controller relate to the in-flight table as CommandsInv says.           *)
THEOREM CommandsInvariant == Spec => []CommandsInv
<1>1. Init => CommandsInv
  BY CommandsInit
<1>2. TaskInv /\ CommandsInv /\ [Next]_vars => CommandsInv'
  BY CommandsStep DEF TaskInv
<1> QED
  BY <1>1, <1>2, TaskInvariant, PTL DEF Spec

(* While no poll has given up, the commands the controller owes and the    *)
(* occupied slots are one to one, and each command in execution works for  *)
(* the request of its slot (nvme_io.c:730-738).                            *)
THEOREM OneToOne == Spec => []OneCommandPerSlot
<1>1. CommandsInv => OneCommandPerSlot
  BY DEF CommandsInv, CommandsMatch, WorksForSlot, Owed, OneCommandPerSlot
<1> QED
  BY <1>1, CommandsInvariant, PTL

\* A step that moves the tail does not move it onto the controller's head.
LEMMA TailKeepsOff ==
  ASSUME TypeOK, CurWhileBusy, CommandsInv, [Next]_vars, RoomLeft
  PROVE  io_sq_tail' # io_sq_tail => io_sq_tail' # dev_sq_head
<1>1. ASSUME NEW r \in Req, NEW k, NEW suppress, NEW dma, NEW ring,
             Submit(r, k, suppress, dma, ring)
      PROVE  io_sq_tail' # dev_sq_head
  <2>1. Succ(io_sq_tail) # dev_sq_head
    BY <1>1, SqHasRoom DEF CommandsInv, TypeOK
  <2> QED
    BY <1>1, <2>1 DEF Submit
<1>2. pc = "dispatch" => cur \in Req
  BY DEF CurWhileBusy, BusyPc, TypeOK, TaskTypeOK
<1>3. CASE DispatchOne
  <2> DEFINE dma == Kind[cur] = "rw" /\ cur \in Direct
             ring == Kind[cur] = "flush"
  <2>1. Submit(cur, 1, FALSE, dma, ring) /\ pc = "dispatch"
    BY <1>3 DEF DispatchOne
  <2> HIDE DEF dma, ring
  <2> QED
    BY <1>1, <1>2, <2>1
<1>4. CASE DispatchPolled
  <2> DEFINE dma == Kind[cur] = "split" /\ cur \in Direct
             k == done + 1
  <2>1. Submit(cur, k, TRUE, dma, TRUE) /\ pc = "dispatch"
    BY <1>4 DEF DispatchPolled
  <2> HIDE DEF dma, k
  <2> QED
    BY <1>1, <1>2, <2>1
<1>5. CASE Client \/ MaskWriters \/ Device \/ UNCHANGED vars
  BY <1>5, WritersQuiet DEF Client, BeginIO, AbortIO, Device, Controller, Fetch,
     Complete, vars, queueVars, hostVars
<1>6. CASE Task /\ ~DispatchOne /\ ~DispatchPolled
  BY <1>6 DEF Task, Top, Wait, Peek, Clear, EndYield, EndWake, Unmask, GetMsg,
     EndDrain, Harvest, HarvestOne, Dispatch, DispatchInline, Refuse, Full,
     EndFull, FullUnmask, FullTimeout, PollDone, PollAgain, PollUnmask,
     PollTimeout, GiveUp, queueVars, hostVars
<1> QED
  BY <1>3, <1>4, <1>5, <1>6 DEF Next

\* Neither does the completion ring fill while the controller has a command.
LEMMA CompletionRoom == TypeOK /\ CommandsInv => CqHasRoom
<1> SUFFICES ASSUME QueueTypeOK, CommandsInv, RoomLeft, executing # {},
                    Succ(dev_cq_tail) = io_cq_head
             PROVE  FALSE
  BY DEF CqHasRoom, TypeOK
<1>1. Owed <= Cardinality(Occupied) + timeouts /\ IsFiniteSet(executing)
  BY DEF CommandsInv, CommandsBounded
<1>2. Cardinality(Occupied) <= MaxInflight
  <2>1. IsFiniteSet(Slot) /\ Cardinality(Slot) = MaxInflight
    <3>1. /\ 1 \in Int /\ MaxInflight \in Int
          /\ ~(1 > MaxInflight) /\ MaxInflight - 1 + 1 = MaxInflight
      BY QueueAssumption
    <3> QED
      BY <3>1, FS_Interval DEF Slot
  <2>2. Occupied \in SUBSET Slot
    BY DEF Occupied
  <2> QED
    BY <2>1, <2>2, FS_Subset
<1>3. Cardinality(executing) # 0
  BY <1>1, FS_EmptySet
<1>4. Cardinality(Unharvested) = QDepth - 1
  BY RingPutCount DEF QueueTypeOK, Unharvested
<1>5. /\ Cardinality(Unfetched) \in Nat /\ Cardinality(executing) \in Nat
      /\ Owed = Cardinality(Unfetched) + Cardinality(executing)
                   + Cardinality(Unharvested)
  BY <1>1, OwedType DEF Owed
<1>6. timeouts \in Nat /\ Cardinality(Occupied) \in Nat
  BY SlotsFinite DEF QueueTypeOK
<1>7. MaxInflight + timeouts < QDepth
  BY DEF RoomLeft
<1> QED
  BY ONLY <1>1, <1>2, <1>3, <1>4, <1>5, <1>6, <1>7, QueueAssumption

(* As long as fewer than QDepth - MaxInflight polls have given up, no      *)
(* unfetched entry is overwritten, a full ring never reads as empty        *)
(* (include/nvme.h:311-315), and the completion ring has an entry for      *)
(* every command the controller has fetched.                               *)
THEOREM NoOverrun ==
  Spec => /\ [][RoomLeft => (io_sq_tail' # io_sq_tail
                               => io_sq_tail' # dev_sq_head)]_vars
          /\ []CqHasRoom
<1>1. TaskInv /\ CommandsInv /\ [Next]_vars
        => [RoomLeft => (io_sq_tail' # io_sq_tail
                           => io_sq_tail' # dev_sq_head)]_vars
  BY TailKeepsOff DEF TaskInv
<1>2. TaskInv /\ CommandsInv => CqHasRoom
  BY CompletionRoom DEF TaskInv
<1> QED
  BY <1>1, <1>2, TaskInvariant, CommandsInvariant, PTL DEF Spec

(* With a ring that holds every slot and every poll that may give up, the  *)
(* submission ring never fills.                                            *)
THEOREM SqNeverFillsIfRoom ==
  ASSUME MaxInflight + MaxTimeouts < QDepth
  PROVE  Spec => SqNeverFills
<1>1. TaskInv => RoomLeft
  BY QueueAssumption DEF TaskInv, TypeOK, QueueTypeOK, RoomLeft
<1>2. TaskInv /\ CommandsInv /\ [Next]_vars
        => [io_sq_tail' # io_sq_tail => io_sq_tail' # dev_sq_head]_vars
  BY <1>1, TailKeepsOff DEF TaskInv
<1> QED
  BY <1>2, TaskInvariant, CommandsInvariant, PTL DEF Spec, SqNeverFills

-----------------------------------------------------------------------------
(* The doorbell.                                                           *)

\* Division with remainder.
LEMMA DivMod ==
  ASSUME NEW d \in Int, d > 0, NEW a \in Int
  PROVE  /\ a \div d \in Int
         /\ a % d \in 0 .. d - 1
         /\ a = d * (a \div d) + (a % d)
<1>1. a \div d \in Int /\ a % d \in 0 .. d - 1
  OBVIOUS
<1>2. a = d * (a \div d) + (a % d)
  OBVIOUS
<1> QED
  BY <1>1, <1>2

\* There is only one remainder.
LEMMA ModUnique ==
  ASSUME NEW d \in Int, d > 0, NEW a \in Int, NEW q \in Int,
         NEW r \in 0 .. d - 1, a = d * q + r
  PROVE  a % d = r
  OBVIOUS

\* One more entry is one step further around the ring.
LEMMA ModAdd ==
  ASSUME NEW a \in Nat
  PROVE  Succ(a % QDepth) = (a + 1) % QDepth
<1> DEFINE q == a \div QDepth
           m == a % QDepth
<1>0. QDepth \in Int /\ QDepth > 0
  BY QueueAssumption
<1>1. q \in Int /\ m \in 0 .. QDepth - 1 /\ a = QDepth * q + m
  BY <1>0, DivMod
<1> HIDE DEF q, m
<1>2. CASE m = QDepth - 1
  <2>1. q + 1 \in Int /\ 0 \in 0 .. QDepth - 1 /\ a + 1 = QDepth * (q + 1) + 0
    BY <1>0, <1>1, <1>2
  <2>2. (a + 1) % QDepth = 0
    BY SMTT(30), <1>0, <2>1, ModUnique
  <2> QED
    BY <1>0, <1>2, <2>2 DEF Succ, m
<1>3. CASE m # QDepth - 1
  <2>1. m + 1 \in 0 .. QDepth - 1 /\ a + 1 = QDepth * q + (m + 1)
    BY <1>0, <1>1, <1>3
  <2>2. (a + 1) % QDepth = m + 1
    BY <1>0, <1>1, <2>1, ModUnique
  <2> QED
    BY <1>0, <1>1, <1>3, <2>2 DEF Succ, m
<1> QED
  BY <1>2, <1>3

\* Around the ring is a multiple of its length.
LEMMA ModMultiple ==
  ASSUME NEW i \in Index, NEW n \in Nat
  PROVE  (i + n) % QDepth = i <=> n % QDepth = 0
<1>0. QDepth \in Int /\ QDepth > 0 /\ i \in 0 .. QDepth - 1
  BY QueueAssumption DEF Index
<1>1. ASSUME n % QDepth = 0
      PROVE  (i + n) % QDepth = i
  <2> DEFINE p == n \div QDepth
  <2>1. p \in Int /\ n = QDepth * p + 0
    BY <1>0, <1>1, DivMod
  <2> HIDE DEF p
  <2>2. i + n = QDepth * p + i
    BY <1>0, <2>1
  <2> QED
    BY <1>0, <2>1, <2>2, ModUnique
<1>2. ASSUME (i + n) % QDepth = i
      PROVE  n % QDepth = 0
  <2> DEFINE p == (i + n) \div QDepth
  <2>1. p \in Int /\ i + n = QDepth * p + i
    BY <1>0, <1>2, DivMod
  <2> HIDE DEF p
  <2>2. n = QDepth * p + 0
    BY <1>0, <2>1
  <2> QED
    BY <1>0, <2>1, <2>2, ModUnique
<1> QED
  BY <1>1, <1>2

\* A step that touches neither doorbell nor drain.
LEMMA DoorbellUnchanged ==
  ASSUME DoorbellInv, UNCHANGED <<io_sq_tail, sq_doorbell, tail_before, batch>>,
         pc' \in DrainPc <=> pc \in DrainPc
  PROVE  DoorbellInv'
  BY DEF DoorbellInv, DoorbellMissed

\* An entry written in a drain.
LEMMA DoorbellSubmit ==
  ASSUME TypeOK, DoorbellInv, pc \in DrainPc, pc' \in DrainPc,
         io_sq_tail' = Succ(io_sq_tail), batch' = batch + 1,
         tail_before' = tail_before
  PROVE  DoorbellInv'
<1>1. batch \in Nat /\ tail_before \in Nat /\ io_sq_tail = (tail_before + batch) % QDepth
  BY QueueAssumption DEF TypeOK, TaskTypeOK, Index, DoorbellInv
<1>2. Succ(io_sq_tail) = (tail_before + batch + 1) % QDepth
  BY <1>1, ModAdd
<1>3. tail_before + batch + 1 = tail_before' + batch' /\ batch' # 0
  BY <1>1
<1> QED
  BY <1>2, <1>3 DEF DoorbellInv

\* Every step, one drain after the other.
LEMMA DoorbellStep ==
  ASSUME TypeOK, DoorbellInv, [Next]_vars
  PROVE  DoorbellInv'
<1> DoorbellInv /\ TypeOK
  OBVIOUS
<1>1. CASE Client \/ Device \/ MaskWriters \/ UNCHANGED vars \/ Harvest
  BY <1>1, DoorbellUnchanged, WritersQuiet DEF Client, BeginIO, AbortIO, Device,
     Controller, Fetch, Complete, vars, Harvest, HarvestOne, queueVars, hostVars,
     loopVars
<1>2. CASE Top \/ Wait \/ Peek \/ Clear \/ EndYield \/ Unmask
  BY <1>2, DoorbellUnchanged DEF Top, Wait, Peek, Clear, EndYield, Unmask, Goto,
     queueVars, hostVars, DrainPc, BusyPc
<1>3. CASE EndWake
  <2>1. CASE "port" \notin signals
    BY <1>3, <2>1, DoorbellUnchanged DEF EndWake, Goto, queueVars, hostVars,
       DrainPc, BusyPc
  <2>2. CASE "port" \in signals
    <3>1. /\ pc = "wake" /\ pc' = "getmsg"
          /\ tail_before' = io_sq_tail
          /\ batch' = IF sq_doorbell = io_sq_tail THEN 0 ELSE batch
          /\ UNCHANGED <<io_sq_tail, sq_doorbell>>
      BY <1>3, <2>2 DEF EndWake, queueVars, hostVars
    <3>2. sq_doorbell = io_sq_tail \/ (batch # 0 /\ batch % QDepth = 0)
      BY <3>1 DEF DoorbellInv, DoorbellMissed, DrainPc, BusyPc
    <3>3. io_sq_tail \in Index /\ batch \in Nat
      BY DEF TypeOK, QueueTypeOK, TaskTypeOK
    <3>4. 0 % QDepth = 0
      BY QueueAssumption
    <3>5. batch' \in Nat /\ batch' % QDepth = 0
      BY <3>1, <3>2, <3>3, <3>4
    <3>6. (io_sq_tail + batch') % QDepth = io_sq_tail
      BY <3>3, <3>5, ModMultiple
    <3> QED
      BY <3>1, <3>2, <3>6 DEF DoorbellInv, DrainPc
  <2> QED
    BY <2>1, <2>2
<1>4. CASE GetMsg
  BY <1>4, DoorbellUnchanged DEF GetMsg, queueVars, hostVars, DrainPc, BusyPc
<1>5. CASE EndDrain
  <2>1. /\ pc = "getmsg" /\ pc' = "drained"
        /\ sq_doorbell' = IF io_sq_tail # tail_before THEN io_sq_tail
                                                     ELSE sq_doorbell
        /\ UNCHANGED <<io_sq_tail, batch>>
    BY <1>5 DEF EndDrain, RingSQ
  <2>2. /\ io_sq_tail = (tail_before + batch) % QDepth
        /\ batch = 0 => sq_doorbell = io_sq_tail
    BY <2>1 DEF DoorbellInv, DrainPc
  <2>3. CASE io_sq_tail # tail_before
    BY <2>1, <2>3 DEF DoorbellInv, DrainPc, BusyPc
  <2>4. CASE io_sq_tail = tail_before
    <3>1. batch % QDepth = 0
      BY <2>2, <2>4, ModMultiple DEF TypeOK, TaskTypeOK
    <3> QED
      BY <2>1, <2>2, <2>4, <3>1 DEF DoorbellInv, DoorbellMissed, DrainPc, BusyPc
  <2> QED
    BY <2>3, <2>4
<1>6. CASE Dispatch
  <2>1. CASE DispatchOne
    BY <2>1, DoorbellSubmit DEF DispatchOne, Submit, Dispatched, DrainPc, BusyPc
  <2>2. CASE DispatchPolled
    BY <2>2, DoorbellSubmit DEF DispatchPolled, Submit, DrainPc, BusyPc
  <2>3. CASE Full
    BY <2>3 DEF Full, RingSQ, Goto, DoorbellInv, DrainPc, BusyPc
  <2>4. CASE \/ \E err \in BOOLEAN : DispatchInline(err)
             \/ Refuse \/ EndFull \/ FullUnmask \/ FullTimeout
             \/ PollAgain \/ PollUnmask \/ PollTimeout
    BY <2>4, DoorbellUnchanged DEF DispatchInline, Refuse, EndFull, FullUnmask,
       FullTimeout, PollAgain, PollUnmask, PollTimeout, GiveUp, Answer,
       Dispatched, Goto, queueVars, hostVars, DrainPc, BusyPc
  <2>5. CASE PollDone
    BY <2>5, DoorbellUnchanged DEF PollDone, Answer, Dispatched, hostVars,
       DrainPc, BusyPc
  <2> QED
    BY <1>6, <2>1, <2>2, <2>3, <2>4, <2>5 DEF Dispatch
<1> QED
  BY <1>1, <1>2, <1>3, <1>4, <1>5, <1>6 DEF Next, Task

(* Outside a drain every entry has been published, for a ring of any size, *)
(* except after a drain that wrote a multiple of QDepth entries            *)
(* (unit_task.c:838-845): the exception the doorbell run exhibits is the   *)
(* only one.                                                               *)
THEOREM RungOutsideDrains == Spec => []DoorbellRung
<1>1. Init => DoorbellInv
  BY DEF Init, QueueInit, DoorbellInv, DrainPc, BusyPc
<1>2. TaskInv /\ DoorbellInv /\ [Next]_vars => DoorbellInv'
  BY DoorbellStep DEF TaskInv
<1>3. DoorbellInv => DoorbellRung
  BY DEF DoorbellInv, DoorbellRung
<1> QED
  BY <1>1, <1>2, <1>3, TaskInvariant, PTL DEF Spec

-----------------------------------------------------------------------------
(***************************************************************************)
(* What the requests achieve: a reply without an error comes after all of  *)
(* the request's commands, and the unit implements IORequests, until a     *)
(* poll gives up.                                                          *)
(*                                                                         *)
(* ResultsInv of CommandsInv is shown part by part: what the commands      *)
(* carry (Carries...), which kind of request is in which slot (Kinds...),  *)
(* which chunks dispatch has counted (Chunks...) and what has been replied *)
(* (Replied...).                                                           *)
(***************************************************************************)

\* Where the commands of a request are.
LEMMA CidsLive ==
  ASSUME CommandsMatch
  PROVE  /\ \A i \in Unfetched : io_sq[i].cid \in Occupied
         /\ \A c \in executing : c.cid \in Occupied
         /\ \A i \in Unharvested : io_cq[i].cid \in Occupied
  BY InLiveCids DEF CommandsMatch

\* A step that moves no command and, while a slot is polled, no chunk.
LEMMA CarriesUnchanged ==
  ASSUME CommandsMatch, CarriesChunk,
         UNCHANGED <<inflight, io_sq, io_sq_tail, dev_sq_head, executing,
                     io_cq, io_cq_head, dev_cq_tail, media>>,
         \/ done' = done
         \/ \A s \in Occupied : ~inflight[s].suppress
  PROVE  CarriesChunk'
<1>1. /\ Unfetched' = Unfetched /\ Unharvested' = Unharvested
  BY DEF Unfetched, Unharvested
<1>2. \A s \in Occupied : ChunkOf(s)' = ChunkOf(s)
  BY DEF ChunkOf
<1> QED
  BY <1>1, <1>2, CidsLive DEF CarriesChunk

\* A new command carries what its slot says.
LEMMA CarriesSubmit ==
  ASSUME QueueTypeOK, IsFiniteSet(executing), RoomLeft, CommandsBounded,
         CommandsMatch, CarriesChunk,
         NEW r \in Req, NEW k, NEW suppress \in BOOLEAN, NEW dma, NEW ring,
         Submit(r, k, suppress, dma, ring),
         \A s \in Occupied : ~inflight[s].suppress,
         k = IF suppress THEN done' + 1 ELSE 1
  PROVE  CarriesChunk'
<1> DEFINE f == FirstFree
           t == io_sq_tail
           e == [cid |-> f, ioreq |-> r, chunk |-> k]
           x == [ioreq |-> r, suppress |-> suppress, dma |-> dma]
<1>1. /\ f \in Slot \ Occupied
      /\ inflight'[f] = x
      /\ \A s \in Slot : s # f => inflight'[s] = inflight[s]
  BY OccupiedSubmit
<1>2. /\ UNCHANGED <<executing, io_cq, io_cq_head, dev_cq_tail, dev_sq_head,
                    media>>
      /\ io_sq_tail' = Succ(t)
      /\ io_sq' = [io_sq EXCEPT ![t] = e]
  BY DEF Submit, devVars
<1>3. e.cid = f /\ e.chunk = k /\ x.suppress = suppress
  OBVIOUS
<1> HIDE DEF f, e, x
<1>4. Succ(t) # dev_sq_head
  BY SqHasRoom
<1>5. /\ Unfetched' = Unfetched \cup {t} /\ t \notin Unfetched
      /\ Unfetched \subseteq Index
  BY <1>2, <1>4, RingPut DEF QueueTypeOK, Unfetched, Between
<1>6. Unharvested' = Unharvested
  BY <1>2 DEF Unharvested
<1>7. io_sq'[t] = e /\ \A i \in Unfetched : io_sq'[i] = io_sq[i]
  BY <1>2, <1>5 DEF QueueTypeOK
<1>8. \A s \in Occupied : inflight'[s] = inflight[s] /\ ChunkOf(s) = 1
  BY <1>1 DEF ChunkOf, Occupied
<1>9. k = IF inflight'[f].suppress THEN done' + 1 ELSE 1
  BY <1>1, <1>3
<1>10. \A s \in Occupied : ~inflight'[s].suppress
  BY <1>8
<1>11. \A i \in Unfetched' : (io_sq[i].chunk = ChunkOf(io_sq[i].cid))'
  BY <1>3, <1>5, <1>7, <1>8, <1>9, <1>10, CidsLive DEF CarriesChunk, ChunkOf
<1>12. \A c \in executing' : (c.chunk = ChunkOf(c.cid))'
  BY <1>2, <1>8, <1>10, CidsLive DEF CarriesChunk, ChunkOf
<1>13. \A i \in Unharvested' : (io_cq[i].ok =>
         <<inflight[io_cq[i].cid].ioreq, ChunkOf(io_cq[i].cid)>> \in media)'
  BY <1>2, <1>6, <1>8, <1>10, CidsLive DEF CarriesChunk, ChunkOf
<1> QED
  BY <1>11, <1>12, <1>13 DEF CarriesChunk

\* Harvest disturbs no command but the one it consumes.
LEMMA CarriesHarvest ==
  ASSUME QueueTypeOK, RingPhases, CommandsMatch, CarriesChunk, HarvestOne,
         done' = done
  PROVE  CarriesChunk'
<1> DEFINE h == io_cq_head
           s == io_cq[h].cid
<1>1. /\ s \in Occupied /\ h \in Unharvested
      /\ inflight' = [inflight EXCEPT ![s] = FreeInflight]
  BY HarvestMatched DEF HarvestOne, Matched
<1>2. \A t \in Slot : t # s => inflight'[t] = inflight[t]
  BY <1>1, OccupiedRelease
<1>3. /\ UNCHANGED <<executing, io_sq, io_cq, io_sq_tail, dev_cq_tail,
                    dev_sq_head, media>>
      /\ io_cq_head' = Succ(h)
  BY DEF HarvestOne, devVars
<1>4. Unharvested' = Unharvested \ {h}
  BY <1>3, ReadyMeansPosted, RingTake DEF HarvestOne, QueueTypeOK, Unharvested
<1>5. Unfetched' = Unfetched
  BY <1>3 DEF Unfetched
<1>6. /\ \A i \in Unfetched : io_sq[i].cid # s
      /\ \A c \in executing : c.cid # s
      /\ \A i \in Unharvested : i # h => io_cq[i].cid # s
  BY <1>1 DEF CommandsMatch, CidsDistinct
<1> HIDE DEF s, h
<1>7. \A t \in Occupied : t # s => /\ ChunkOf(t)' = ChunkOf(t)
                                   /\ inflight'[t] = inflight[t]
  BY <1>2 DEF ChunkOf, Occupied
<1> QED
  BY <1>3, <1>4, <1>5, <1>6, <1>7, CidsLive DEF CarriesChunk

\* A command keeps its chunk when it is fetched.
LEMMA CarriesFetch ==
  ASSUME QueueTypeOK, CommandsBounded, CommandsMatch, CarriesChunk, Fetch,
         done' = done
  PROVE  CarriesChunk'
<1>1. dev_sq_head # io_sq_tail
  BY FetchFromRing DEF CommandsBounded
<1>2. /\ UNCHANGED <<inflight, io_sq, io_cq, io_sq_tail, io_cq_head,
                    dev_cq_tail, media>>
      /\ dev_sq_head' = Succ(dev_sq_head)
      /\ executing' = executing \cup {io_sq[dev_sq_head]}
  BY DEF Fetch, hostVars
<1>3. /\ dev_sq_head \in Unfetched
      /\ Unfetched' = Unfetched \ {dev_sq_head}
  BY <1>1, <1>2, RingTake DEF QueueTypeOK, Unfetched
<1>4. Unharvested' = Unharvested
  BY <1>2 DEF Unharvested
<1>5. \A s : ChunkOf(s)' = ChunkOf(s)
  BY <1>2 DEF ChunkOf
<1> QED
  BY <1>2, <1>3, <1>4, <1>5 DEF CarriesChunk

\* A completion without error follows the effect on the medium.
LEMMA CarriesComplete ==
  ASSUME QueueTypeOK, CommandsMatch, CarriesChunk,
         NEW c \in executing, NEW ok \in BOOLEAN, Complete(c, ok), done' = done
  PROVE  CarriesChunk'
<1> DEFINE t == dev_cq_tail
           e == [cid |-> c.cid, phase |-> dev_cq_phase, ok |-> ok]
<1>1. /\ UNCHANGED <<inflight, io_sq, io_sq_tail, io_cq_head, dev_sq_head>>
      /\ dev_cq_tail' = Succ(t)
      /\ Succ(t) # io_cq_head
      /\ io_cq' = [io_cq EXCEPT ![t] = e]
      /\ executing' = executing \ {c}
      /\ media \subseteq media'
      /\ ok => <<c.ioreq, c.chunk>> \in media'
  BY DEF Complete, hostVars
<1>2. e.cid = c.cid /\ e.ok = ok
  OBVIOUS
<1> HIDE DEF e
<1>3. /\ Unharvested' = Unharvested \cup {t} /\ t \notin Unharvested
      /\ Unharvested \subseteq Index
  BY <1>1, RingPut DEF QueueTypeOK, Unharvested, Between
<1>4. Unfetched' = Unfetched
  BY <1>1 DEF Unfetched
<1>5. io_cq'[t] = e /\ \A i \in Unharvested : io_cq'[i] = io_cq[i]
  BY <1>1, <1>3 DEF QueueTypeOK
<1>6. \A s : ChunkOf(s)' = ChunkOf(s)
  BY <1>1 DEF ChunkOf
<1>7. c.ioreq = inflight[c.cid].ioreq /\ c.chunk = ChunkOf(c.cid)
  BY DEF CommandsMatch, WorksForSlot, CarriesChunk
<1> QED
  BY <1>1, <1>2, <1>3, <1>4, <1>5, <1>6, <1>7 DEF CarriesChunk

-----------------------------------------------------------------------------
(* Which kind of request is in which slot.                                 *)

LEMMA KindsUnchanged ==
  ASSUME SlotKinds, inflight' = inflight
  PROVE  SlotKinds'
  BY DEF SlotKinds, Occupied

LEMMA KindsSubmit ==
  ASSUME QueueTypeOK, SlotKinds,
         NEW r \in Req, NEW k, NEW suppress \in BOOLEAN, NEW dma, NEW ring,
         Submit(r, k, suppress, dma, ring),
         Kind[r] \in IF suppress THEN {"split", "sync"} ELSE {"rw", "flush"}
  PROVE  SlotKinds'
<1> DEFINE f == FirstFree
           x == [ioreq |-> r, suppress |-> suppress, dma |-> dma]
<1>1. /\ f \in Slot \ Occupied
      /\ inflight'[f] = x
      /\ \A s \in Slot : s # f => inflight'[s] = inflight[s]
      /\ Occupied' = Occupied \cup {f}
  BY OccupiedSubmit
<1>2. x.ioreq = r /\ x.suppress = suppress
  OBVIOUS
<1> HIDE DEF f, x
<1> QED
  BY <1>1, <1>2 DEF SlotKinds, Occupied

LEMMA KindsHarvest ==
  ASSUME QueueTypeOK, SlotKinds, HarvestOne
  PROVE  SlotKinds'
<1>1. CASE Matched
  <2> DEFINE s == io_cq[io_cq_head].cid
  <2>1. s \in Occupied /\ inflight' = [inflight EXCEPT ![s] = FreeInflight]
    BY <1>1 DEF HarvestOne, Matched
  <2> HIDE DEF s
  <2>2. /\ Occupied' = Occupied \ {s}
        /\ \A t \in Slot : t # s => inflight'[t] = inflight[t]
    BY <2>1, OccupiedRelease
  <2> QED
    BY <2>2 DEF SlotKinds, Occupied
<1>2. CASE ~Matched
  BY <1>2, KindsUnchanged DEF HarvestOne
<1> QED
  BY <1>1, <1>2

-----------------------------------------------------------------------------
(* What a harvested command has achieved.                                  *)

\* The slot whose completion Harvest consumes, and what becomes of its
\* request.
LEMMA HarvestSlot ==
  ASSUME TypeOK, RingPhases, CommandsMatch, CarriesChunk, HarvestOne
  PROVE  \E s \in Occupied : \E ok \in BOOLEAN :
           /\ inflight[s].ioreq \in Req
           /\ inflight' = [inflight EXCEPT ![s] = FreeInflight]
           /\ io_Error' = [io_Error EXCEPT ![inflight[s].ioreq] = ~ok]
           /\ replies' = IF inflight[s].suppress THEN replies
                         ELSE [replies EXCEPT ![inflight[s].ioreq] = @ + 1]
           /\ ok => <<inflight[s].ioreq, ChunkOf(s)>> \in media
<1> DEFINE h == io_cq_head
           s == io_cq[h].cid
           ok == io_cq[h].ok
<1>1. /\ s \in Occupied /\ h \in Unharvested
      /\ inflight' = [inflight EXCEPT ![s] = FreeInflight]
      /\ io_Error' = [io_Error EXCEPT ![inflight[s].ioreq] = ~ok]
      /\ replies' = IF inflight[s].suppress THEN replies
                    ELSE [replies EXCEPT ![inflight[s].ioreq] = @ + 1]
  BY HarvestMatched DEF HarvestOne, Matched, WasSuppressed, TypeOK
<1>2. ok \in BOOLEAN /\ inflight[s].ioreq \in Req
  BY <1>1 DEF TypeOK, QueueTypeOK, CQE, Occupied
<1>3. ok => <<inflight[s].ioreq, ChunkOf(s)>> \in media
  BY <1>1 DEF CarriesChunk
<1> HIDE DEF s, ok
<1> QED
  BY <1>1, <1>2, <1>3

-----------------------------------------------------------------------------
(* The chunks dispatch has counted.                                        *)

LEMMA ChunksUnchanged ==
  ASSUME ChunksDone, UNCHANGED <<cur, done, inflight, slot>>,
         media \subseteq media',
         io_Error[cur] => io_Error'[cur],
         pc' \in {"poll", "pollU"} => pc \in {"poll", "pollU"},
         pc' = "poll" /\ slot \notin Occupied => pc = "poll"
  PROVE  ChunksDone'
  BY DEF ChunksDone, Occupied

LEMMA ChunksHarvest ==
  ASSUME TypeOK, PolledSlot, RingPhases, CommandsMatch, CarriesChunk, ChunksDone,
         HarvestOne, UNCHANGED <<pc, cur, done, slot, media>>
  PROVE  ChunksDone'
<1>1. PICK s \in Occupied, ok \in BOOLEAN :
           /\ inflight[s].ioreq \in Req
           /\ inflight' = [inflight EXCEPT ![s] = FreeInflight]
           /\ io_Error' = [io_Error EXCEPT ![inflight[s].ioreq] = ~ok]
           /\ ok => <<inflight[s].ioreq, ChunkOf(s)>> \in media
  BY HarvestSlot
<1>2. Occupied' = Occupied \ {s}
  BY <1>1, OccupiedRelease DEF TypeOK
<1> SUFFICES ASSUME cur # NULL, pc = "poll", slot \notin Occupied',
                    ~io_Error'[cur]
             PROVE  <<cur, done + 1>> \in media
  BY DEF ChunksDone
<1>3. cur \in Req
  BY DEF TypeOK, TaskTypeOK
<1>4. CASE inflight[s].ioreq = cur
  <2>1. inflight[s].suppress /\ ok
    BY <1>1, <1>3, <1>4 DEF PolledSlot, TypeOK, QueueTypeOK
  <2> QED
    BY <1>1, <1>4, <2>1 DEF ChunkOf
<1>5. CASE inflight[s].ioreq # cur
  <2>1. s # slot
    BY <1>5 DEF PolledSlot
  <2>2. slot \notin Occupied /\ ~io_Error[cur]
    BY <1>1, <1>2, <1>3, <1>5, <2>1 DEF TypeOK, QueueTypeOK
  <2> QED
    BY <2>2 DEF ChunksDone
<1> QED
  BY <1>4, <1>5

-----------------------------------------------------------------------------
(* What has been replied.                                                  *)

LEMMA RepliedUnchanged ==
  ASSUME SuccessMeansDone, UNCHANGED <<replies, io_Error>>,
         media \subseteq media'
  PROVE  SuccessMeansDone'
  BY DEF SuccessMeansDone

LEMMA RepliedReply ==
  ASSUME QueueTypeOK, SuccessMeansDone, NEW r \in Req, NEW err \in BOOLEAN,
         Reply(r, err), media' = media,
         err \/ \A k \in Commands(r) : <<r, k>> \in media
  PROVE  SuccessMeansDone'
<1>1. io_Error'[r] = err /\ \A q \in Req : q # r => /\ io_Error'[q] = io_Error[q]
                                                    /\ replies'[q] = replies[q]
  BY DEF Reply, QueueTypeOK
<1> QED
  BY <1>1 DEF SuccessMeansDone

LEMMA RepliedHarvest ==
  ASSUME TypeOK, ExactlyOnce, PolledSlot, RingPhases, CommandsMatch,
         CarriesChunk, SlotKinds, SuccessMeansDone, HarvestOne, media' = media
  PROVE  SuccessMeansDone'
<1>1. PICK s \in Occupied, ok \in BOOLEAN :
           /\ inflight[s].ioreq \in Req
           /\ io_Error' = [io_Error EXCEPT ![inflight[s].ioreq] = ~ok]
           /\ replies' = IF inflight[s].suppress THEN replies
                         ELSE [replies EXCEPT ![inflight[s].ioreq] = @ + 1]
           /\ ok => <<inflight[s].ioreq, ChunkOf(s)>> \in media
  BY HarvestSlot
<1> DEFINE r == inflight[s].ioreq
<1>2. /\ r \in Req /\ io_Error'[r] = ~ok
      /\ \A q \in Req : q # r => /\ io_Error'[q] = io_Error[q]
                                 /\ replies'[q] = replies[q]
  BY <1>1 DEF TypeOK, QueueTypeOK
<1>3. CASE inflight[s].suppress
  <2>1. Held(r)
    BY DEF Held, Occupied
  <2>2. replies[r] = 0
    <3> HIDE DEF r
    <3>1. replies[r] \in Nat /\ replies[r] <= 1
      BY <1>2 DEF ExactlyOnce, TypeOK, QueueTypeOK
    <3>2. replies[r] # 1
      BY <1>2, <2>1 DEF ExactlyOnce
    <3> QED
      BY <3>1, <3>2
  <2>3. replies'[r] = 0
    BY <1>1, <1>3, <2>2
  <2> QED
    BY <1>2, <2>3 DEF SuccessMeansDone
<1>4. CASE ~inflight[s].suppress
  <2>1. Kind[r] \in {"rw", "flush"}
    BY <1>4 DEF SlotKinds
  <2>2. Commands(r) = {1}
    BY <2>1 DEF Commands
  <2>3. ok => \A k \in Commands(r) : <<r, k>> \in media
    BY <1>1, <1>4, <2>2 DEF ChunkOf
  <2> HIDE DEF r
  <2> QED
    BY <1>2, <2>3 DEF SuccessMeansDone
<1> QED
  BY <1>3, <1>4

-----------------------------------------------------------------------------
(* ResultsInv is inductive.                                                *)

\* All that is known of a state before the first poll gives up.
Calm ==
  /\ TypeOK /\ PolledSlot /\ CurWhileBusy /\ ExactlyOnce
  /\ timeouts = 0
  /\ RingPhases /\ IsFiniteSet(executing)
  /\ RoomLeft /\ CommandsBounded /\ CommandsMatch
  /\ Results

LEMMA CalmState ==
  ASSUME TypeOK, PolledSlot, CurWhileBusy, ExactlyOnce, CommandsInv, ResultsInv,
         timeouts = 0
  PROVE  Calm
  BY RoomAtFirst DEF CommandsInv, ResultsInv, Calm

\* A step that moves no command.
LEMMA ResultsQuiet ==
  ASSUME Calm,
         UNCHANGED <<inflight, io_sq, io_sq_tail, dev_sq_head, executing,
                     io_cq, io_cq_head, dev_cq_tail, media>>,
         \/ done' = done
         \/ \A s \in Occupied : ~inflight[s].suppress,
         ChunksDone', SuccessMeansDone'
  PROVE  Results'
  BY CarriesUnchanged, KindsUnchanged DEF Calm, Results

\* A step of the task that leaves queue, requests and dispatch alone.
LEMMA ResultsMove ==
  ASSUME Calm,
         UNCHANGED <<inflight, io_sq, io_sq_tail, dev_sq_head, executing,
                     io_cq, io_cq_head, dev_cq_tail, media, reqVars, cur, done,
                     slot>>,
         pc' \in {"poll", "pollU"} => pc \in {"poll", "pollU"},
         pc' = "poll" /\ slot \notin Occupied => pc = "poll"
  PROVE  Results'
<1>1. ChunksDone' /\ SuccessMeansDone'
  BY ChunksUnchanged, RepliedUnchanged DEF Calm, Results, reqVars
<1> QED
  BY <1>1, ResultsQuiet

\* Outside a poll, and after it, Harvest replies every slot.
LEMMA NoneSuppressed ==
  ASSUME PolledSlot, pc \notin {"poll", "pollU"} \/ slot \notin Occupied
  PROVE  \A s \in Occupied : ~inflight[s].suppress
  BY DEF PolledSlot

\* Dispatch replies with an error or after the last command.
LEMMA ResultsAnswer ==
  ASSUME Calm, NEW err \in BOOLEAN, cur \in Req, Reply(cur, err), cur' = NULL,
         UNCHANGED <<inflight, io_sq, io_sq_tail, dev_sq_head, executing,
                     io_cq, io_cq_head, dev_cq_tail, media>>,
         pc \notin {"poll", "pollU"} \/ slot \notin Occupied,
         err \/ \A k \in Commands(cur) : <<cur, k>> \in media
  PROVE  Results'
<1>1. \A s \in Occupied : ~inflight[s].suppress
  BY NoneSuppressed DEF Calm
<1>2. SuccessMeansDone'
  BY RepliedReply DEF Calm, TypeOK, Results
<1>3. ChunksDone'
  BY DEF ChunksDone
<1> QED
  BY <1>1, <1>2, <1>3, ResultsQuiet

LEMMA ResultsClient ==
  ASSUME Calm, Client \/ MaskWriters \/ UNCHANGED vars
  PROVE  Results'
<1>1. ASSUME NEW r \in Req, BeginIO(r)
      PROVE  Results'
  BY <1>1, ResultsMove DEF BeginIO, queueVars, hostVars, devVars, loopVars
<1>2. ASSUME NEW r \in Req, AbortIO(r)
      PROVE  Results'
  <2>1. /\ Reply(r, TRUE)
        /\ UNCHANGED <<inflight, io_sq, io_sq_tail, dev_sq_head, executing,
                     io_cq, io_cq_head, dev_cq_tail, media, cur, done, slot, pc>>
    BY <1>2 DEF AbortIO, hostVars, devVars, loopVars
  <2>2. SuccessMeansDone'
    BY <2>1, RepliedReply DEF Calm, TypeOK, Results
  <2>3. io_Error[cur] => io_Error'[cur]
    <3>1. CASE cur \in Req
      BY <2>1, <3>1 DEF Reply, Calm, TypeOK, QueueTypeOK
    <3>2. CASE cur \notin Req
      BY <2>1, <3>2 DEF Reply, Calm, TypeOK, QueueTypeOK
    <3> QED
      BY <3>1, <3>2
  <2>4. ChunksDone'
    BY <2>1, <2>3, ChunksUnchanged DEF Calm, Results
  <2> QED
    BY <2>1, <2>2, <2>4, ResultsQuiet
<1>3. CASE MaskWriters \/ UNCHANGED vars
  BY <1>3, ResultsMove, WritersQuiet DEF vars, queueVars, hostVars, devVars,
     loopVars
<1> QED
  BY <1>1, <1>2, <1>3 DEF Client

LEMMA ResultsDevice ==
  ASSUME Calm, Device
  PROVE  Results'
<1>1. UNCHANGED <<pc, cur, done, slot, inflight, reqVars>>
  BY DEF Device, Controller, Fetch, Complete, loopVars, hostVars
<1>2. media \subseteq media'
  BY DEF Device, Controller, Fetch, Complete
<1>3. SlotKinds' /\ ChunksDone' /\ SuccessMeansDone'
  BY <1>1, <1>2, KindsUnchanged, ChunksUnchanged, RepliedUnchanged
     DEF Calm, Results, reqVars
<1>4. CarriesChunk'
  BY <1>1, CarriesFetch, CarriesComplete
     DEF Calm, TypeOK, Results, Device, Controller
<1> QED
  BY <1>3, <1>4 DEF Results

LEMMA ResultsHarvest ==
  ASSUME Calm, Harvest
  PROVE  Results'
<1>1. HarvestOne /\ UNCHANGED <<pc, cur, done, slot, media>>
  BY DEF Harvest, HarvestOne, devVars, loopVars
<1>2. CarriesChunk'
  BY <1>1, CarriesHarvest DEF Calm, TypeOK, Results
<1>3. SlotKinds'
  BY <1>1, KindsHarvest DEF Calm, TypeOK, Results
<1>4. ChunksDone'
  BY <1>1, ChunksHarvest DEF Calm, Results
<1>5. SuccessMeansDone'
  BY <1>1, RepliedHarvest DEF Calm, Results
<1> QED
  BY <1>2, <1>3, <1>4, <1>5 DEF Results

LEMMA ResultsLoop ==
  ASSUME Calm,
         \/ Top \/ Wait \/ Peek \/ Clear \/ EndYield \/ EndWake \/ Unmask
         \/ GetMsg \/ EndDrain
  PROVE  Results'
<1>1. CASE Top \/ Wait \/ Peek \/ Clear \/ EndYield \/ EndWake \/ Unmask
  BY <1>1, ResultsMove DEF Top, Wait, Peek, Clear, EndYield, EndWake, Unmask,
     Goto, queueVars, hostVars, devVars
<1>2. CASE EndDrain
  BY <1>2, ResultsMove DEF EndDrain, devVars
<1>3. CASE GetMsg
  <2>1. /\ done' = 0 /\ pc = "getmsg" /\ pc' = "dispatch"
        /\ UNCHANGED queueVars
    BY <1>3 DEF GetMsg
  <2>2. SuccessMeansDone'
    BY <2>1, RepliedUnchanged DEF Calm, Results, queueVars, reqVars, devVars
  <2>3. ChunksDone'
    BY <2>1 DEF ChunksDone
  <2>4. \A s \in Occupied : ~inflight[s].suppress
    BY <2>1, NoneSuppressed DEF Calm
  <2> QED
    BY <2>1, <2>2, <2>3, <2>4, ResultsQuiet DEF queueVars, hostVars, devVars
<1> QED
  BY <1>1, <1>2, <1>3

LEMMA ResultsSubmit ==
  ASSUME Calm, DispatchOne \/ DispatchPolled
  PROVE  Results'
<1>1. pc = "dispatch" /\ cur \in Req
  BY DEF Calm, CurWhileBusy, BusyPc, TypeOK, TaskTypeOK, DispatchOne,
         DispatchPolled
<1>2. \A s \in Occupied : ~inflight[s].suppress
  BY <1>1, NoneSuppressed DEF Calm
<1>3. SuccessMeansDone'
  BY RepliedUnchanged DEF Calm, Results, DispatchOne, DispatchPolled, Submit,
     reqVars, devVars
<1>4. CASE DispatchOne
  <2> DEFINE dma == Kind[cur] = "rw" /\ cur \in Direct
             ring == Kind[cur] = "flush"
  <2>1. /\ Submit(cur, 1, FALSE, dma, ring)
        /\ Kind[cur] \in {"rw", "flush"} /\ cur' = NULL
    BY <1>4 DEF DispatchOne, Dispatched
  <2> HIDE DEF dma, ring
  <2>2. CarriesChunk'
    BY <1>1, <1>2, <2>1, CarriesSubmit DEF Calm, TypeOK, Results
  <2>3. SlotKinds'
    BY <1>1, <2>1, KindsSubmit DEF Calm, TypeOK, Results
  <2>4. ChunksDone'
    BY <2>1 DEF ChunksDone
  <2> QED
    BY <1>3, <2>2, <2>3, <2>4 DEF Results
<1>5. CASE DispatchPolled
  <2> DEFINE dma == Kind[cur] = "split" /\ cur \in Direct
             k == done + 1
  <2>1. /\ Submit(cur, k, TRUE, dma, TRUE)
        /\ Kind[cur] \in {"split", "sync"}
        /\ slot' = FirstFree /\ pc' = "poll" /\ UNCHANGED <<cur, done>>
    BY <1>5 DEF DispatchPolled
  <2>2. k = done' + 1
    BY <2>1
  <2> HIDE DEF dma, k
  <2>3. CarriesChunk'
    BY <1>1, <1>2, <2>1, <2>2, CarriesSubmit DEF Calm, TypeOK, Results
  <2>4. SlotKinds'
    BY <1>1, <2>1, KindsSubmit DEF Calm, TypeOK, Results
  <2>5. slot' \in Occupied' /\ media' = media
    <3>1. media' = media
      BY <2>1 DEF Submit, devVars
    <3>2. QueueTypeOK
      BY DEF Calm, TypeOK
    <3>3. Occupied' = Occupied \cup {FirstFree}
      BY <1>1, <2>1, <3>2, OccupiedSubmit
    <3> QED
      BY <2>1, <3>1, <3>3
  <2>6. ChunksDone'
    BY <2>1, <2>5 DEF ChunksDone, Calm, Results
  <2> QED
    BY <1>3, <2>3, <2>4, <2>6 DEF Results
<1> QED
  BY <1>4, <1>5

\* When a poll has found its slot free, every chunk up to this one is done or
\* the request has failed.
LEMMA ChunksSoFar ==
  ASSUME Calm, cur \in Req, PollDone
  PROVE  /\ Kind[cur] \in {"split", "sync"}
         /\ Kind[cur] # "split" => done = 0
         /\ ~io_Error[cur] => \A k \in 1 .. done + 1 : <<cur, k>> \in media
<1>1. pc = "poll" /\ slot \notin Occupied
  BY DEF PollDone, Occupied
<1>2. /\ Kind[cur] \in {"split", "sync"}
      /\ Kind[cur] # "split" => done = 0
      /\ \A k \in 1 .. done : <<cur, k>> \in media
      /\ ~io_Error[cur] => <<cur, done + 1>> \in media
  BY <1>1, QueueAssumption DEF Calm, Results, ChunksDone
<1>3. done \in Nat
  BY QueueAssumption DEF Calm, TypeOK, TaskTypeOK
<1> QED
  BY <1>2, <1>3

\* So after the last chunk the request is done or has failed.
LEMMA PollDoneDone ==
  ASSUME Calm, cur \in Req, PollDone, io_Error[cur] \/ LastCommand
  PROVE  io_Error[cur] \/ \A k \in Commands(cur) : <<cur, k>> \in media
<1>1. done \in Nat
  BY QueueAssumption DEF Calm, TypeOK, TaskTypeOK
<1>2. ~io_Error[cur] => Commands(cur) \subseteq 1 .. done + 1
  <2>1. CASE Kind[cur] = "sync"
    BY <2>1, ChunksSoFar DEF Commands
  <2>2. CASE Kind[cur] = "split"
    BY <1>1, <2>2 DEF LastCommand, Commands, Chunk
  <2> QED
    BY <2>1, <2>2, ChunksSoFar
<1> QED
  BY <1>2, ChunksSoFar

LEMMA ResultsDispatch ==
  ASSUME Calm, Dispatch, timeouts' = 0
  PROVE  Results'
<1>1. cur \in Req
  BY DEF Dispatch, Calm, CurWhileBusy, BusyPc, TypeOK, TaskTypeOK,
         DispatchInline, Refuse, DispatchOne, DispatchPolled, Full, EndFull,
         FullUnmask, FullTimeout, PollDone, PollAgain, PollUnmask, PollTimeout
<1>2. ASSUME NEW err \in BOOLEAN, DispatchInline(err)
      PROVE  Results'
  <2>1. Commands(cur) = {}
    BY <1>2 DEF DispatchInline, Commands
  <2> QED
    BY <1>1, <1>2, <2>1, ResultsAnswer
       DEF DispatchInline, Answer, Dispatched, hostVars, devVars
<1>3. CASE Refuse
  <2>1. Kind[cur] = "empty" => Commands(cur) = {}
    BY DEF Commands
  <2>2. Answer(Kind[cur] # "empty") /\ pc = "dispatch"
        /\ UNCHANGED <<hostVars, devVars>>
    BY <1>3 DEF Refuse
  <2> DEFINE err == Kind[cur] # "empty"
  <2>3. err \in BOOLEAN /\ (err \/ Commands(cur) = {}) /\ Answer(err)
    BY <2>1, <2>2
  <2> HIDE DEF err
  <2> QED
    BY <1>1, <2>2, <2>3, ResultsAnswer DEF Answer, Dispatched, hostVars, devVars
<1>4. CASE Full
  BY <1>4, ResultsMove DEF Full, Goto, devVars
<1>5. CASE EndFull \/ FullUnmask
  BY <1>5, ResultsMove DEF EndFull, FullUnmask, Goto, queueVars, hostVars,
     devVars
<1>6. CASE PollAgain
  BY <1>6, ResultsMove DEF PollAgain, Goto, queueVars, hostVars, devVars
<1>7. CASE PollUnmask
  <2>1. slot \in Occupied
    BY <1>7 DEF PollUnmask, Calm, PolledSlot
  <2> QED
    BY <1>7, <2>1, ResultsMove DEF PollUnmask, Goto, queueVars, hostVars, devVars
<1>8. CASE FullTimeout \/ PollTimeout
  BY <1>8 DEF Calm, FullTimeout, PollTimeout, GiveUp
<1>9. CASE PollDone
  <2>1. /\ pc = "poll" /\ slot \notin Occupied
        /\ UNCHANGED <<hostVars, devVars>>
    BY <1>9 DEF PollDone, Occupied
  <2>2. /\ Kind[cur] \in {"split", "sync"}
        /\ ~io_Error[cur] => \A k \in 1 .. done + 1 : <<cur, k>> \in media
    BY <1>1, <1>9, ChunksSoFar
  <2>5. CASE io_Error[cur] \/ LastCommand
    <3> DEFINE err == io_Error[cur]
    <3>1. err \in BOOLEAN /\ Answer(err)
      BY <1>1, <1>9, <2>5 DEF PollDone, Calm, TypeOK, QueueTypeOK
    <3>2. err \/ \A k \in Commands(cur) : <<cur, k>> \in media
      BY <1>1, <1>9, <2>5, PollDoneDone
    <3> HIDE DEF err
    <3> QED
      BY <1>1, <2>1, <3>1, <3>2, ResultsAnswer
         DEF Answer, Dispatched, hostVars, devVars
  <2>6. CASE ~(io_Error[cur] \/ LastCommand)
    <3>1. /\ done' = done + 1 /\ pc' = "dispatch"
          /\ UNCHANGED <<reqVars, cur>>
      BY <1>9, <2>6 DEF PollDone
    <3>2. Kind[cur] = "split"
      BY <2>2, <2>6 DEF LastCommand
    <3>3. ChunksDone'
      BY <2>1, <2>2, <2>6, <3>1, <3>2 DEF ChunksDone, devVars
    <3>4. SuccessMeansDone'
      BY <2>1, <3>1, RepliedUnchanged DEF Calm, Results, reqVars, devVars
    <3>5. \A s \in Occupied : ~inflight[s].suppress
      BY <2>1, NoneSuppressed DEF Calm
    <3> QED
      BY <2>1, <3>3, <3>4, <3>5, ResultsQuiet DEF hostVars, devVars
  <2> QED
    BY <2>5, <2>6
<1> QED
  BY <1>2, <1>3, <1>4, <1>5, <1>6, <1>7, <1>8, <1>9, ResultsSubmit DEF Dispatch

\* A poll that has given up is never forgotten.
LEMMA TimeoutsGrow ==
  ASSUME [Next]_vars
  PROVE  timeouts' = timeouts \/ timeouts' = timeouts + 1
<1>1. CASE Client \/ Device \/ MaskWriters \/ UNCHANGED vars
  BY <1>1, WritersQuiet DEF Client, BeginIO, AbortIO, Device, Controller, Fetch,
     Complete, vars, queueVars, hostVars
<1>2. CASE Task /\ ~Dispatch
  BY <1>2 DEF Task, Top, Wait, Peek, Clear, EndYield, EndWake, Unmask, GetMsg,
     EndDrain, Harvest, HarvestOne, queueVars, hostVars
<1>3. CASE Dispatch
  BY <1>3 DEF Dispatch, DispatchInline, Refuse, DispatchOne, DispatchPolled,
     Submit, Full, EndFull, FullUnmask, FullTimeout, PollDone, PollAgain,
     PollUnmask, PollTimeout, GiveUp, queueVars, hostVars
<1> QED
  BY <1>1, <1>2, <1>3 DEF Next

LEMMA ResultsStep ==
  ASSUME TypeOK, PolledSlot, CurWhileBusy, ExactlyOnce, CommandsInv, ResultsInv,
         [Next]_vars
  PROVE  ResultsInv'
<1> SUFFICES ASSUME timeouts' = 0
             PROVE  Results'
  BY DEF ResultsInv
<1>1. timeouts = 0
  BY TimeoutsGrow, QueueAssumption DEF TypeOK, QueueTypeOK
<1>2. Calm
  BY <1>1, CalmState
<1> QED
  BY <1>2, ResultsClient, ResultsDevice, ResultsHarvest, ResultsLoop,
     ResultsDispatch DEF Next, Task

LEMMA ResultsInit == Init => ResultsInv
<1> SUFFICES ASSUME Init
             PROVE  Results
  BY DEF ResultsInv
<1>1. /\ dev_sq_head = 0 /\ io_sq_tail = 0 /\ io_cq_head = 0
      /\ dev_cq_tail = 0 /\ executing = {} /\ cur = NULL
      /\ replies = [r \in Req |-> 0]
      /\ 0 \in Index
  BY QueueAssumption DEF Init, QueueInit, Index
<1>2. Unfetched = {} /\ Unharvested = {}
  BY <1>1, RingEmpty DEF Unfetched, Unharvested
<1>3. Occupied = {}
  BY DEF Init, QueueInit, Occupied, FreeInflight
<1> QED
  BY <1>1, <1>2, <1>3
     DEF Results, CarriesChunk, SlotKinds, ChunksDone, SuccessMeansDone

(* Until a poll gives up, every command carries the chunk its slot stands  *)
(* for, and whatever dispatch_rw or NVMeIO_Harvest counts as done is on    *)
(* the medium (unit_task.c:428-578, nvme_io.c:730-815).                    *)
THEOREM ResultsInvariant == Spec => []ResultsInv
<1>1. Init => ResultsInv
  BY ResultsInit
<1>2. TaskInv /\ CommandsInv /\ ResultsInv /\ [Next]_vars => ResultsInv'
  BY ResultsStep DEF TaskInv
<1> QED
  BY <1>1, <1>2, TaskInvariant, CommandsInvariant, PTL DEF Spec

(* Until a poll gives up, a request replied without an error has had all   *)
(* its commands carried out; the stale run shows that the condition is     *)
(* needed (nvme_io.c:686-688).                                             *)
THEOREM SuccessIsTrue == Spec => [](timeouts = 0 => SuccessMeansDone)
<1>1. ResultsInv => (timeouts = 0 => SuccessMeansDone)
  BY DEF ResultsInv, Results
<1> QED
  BY <1>1, ResultsInvariant, PTL

-----------------------------------------------------------------------------
(* The unit implements IORequests.                                         *)

\* The status of a request, as the refinement mapping gives it.
StatusOf(r) == IF r \notin sent        THEN "unused"
               ELSE IF replies[r] = 0 THEN "pending"
               ELSE IF io_Error[r]    THEN "failed"
                                      ELSE "done"

LEMMA StatusValues ==
  ASSUME QueueTypeOK, NEW r \in Req
  PROVE  /\ r \notin sent => StatusOf(r) = "unused"
         /\ r \in sent /\ replies[r] = 0 => StatusOf(r) = "pending"
         /\ r \in sent /\ replies[r] # 0 /\ io_Error[r] => StatusOf(r) = "failed"
         /\ r \in sent /\ replies[r] # 0 /\ ~io_Error[r] => StatusOf(r) = "done"
<1>1. ASSUME r \notin sent
      PROVE  StatusOf(r) = "unused"
  BY <1>1 DEF StatusOf
<1>2. ASSUME r \in sent, replies[r] = 0
      PROVE  StatusOf(r) = "pending"
  BY <1>2 DEF StatusOf
<1>3. ASSUME r \in sent, replies[r] # 0, io_Error[r]
      PROVE  StatusOf(r) = "failed"
  BY <1>3 DEF StatusOf
<1>4. ASSUME r \in sent, replies[r] # 0, ~io_Error[r]
      PROVE  StatusOf(r) = "done"
  BY <1>4 DEF StatusOf
<1> QED
  BY <1>1, <1>2, <1>3, <1>4

LEMMA StatusValuesNext ==
  ASSUME QueueTypeOK', NEW r \in Req
  PROVE  /\ r \notin sent' => StatusOf(r)' = "unused"
         /\ r \in sent' /\ replies'[r] = 0 => StatusOf(r)' = "pending"
         /\ r \in sent' /\ replies'[r] # 0 /\ io_Error'[r]
              => StatusOf(r)' = "failed"
         /\ r \in sent' /\ replies'[r] # 0 /\ ~io_Error'[r]
              => StatusOf(r)' = "done"
<1>1. ASSUME r \notin sent'
      PROVE  StatusOf(r)' = "unused"
  BY <1>1 DEF StatusOf
<1>2. ASSUME r \in sent', replies'[r] = 0
      PROVE  StatusOf(r)' = "pending"
  BY <1>2 DEF StatusOf
<1>3. ASSUME r \in sent', replies'[r] # 0, io_Error'[r]
      PROVE  StatusOf(r)' = "failed"
  BY <1>3 DEF StatusOf
<1>4. ASSUME r \in sent', replies'[r] # 0, ~io_Error'[r]
      PROVE  StatusOf(r)' = "done"
  BY <1>4 DEF StatusOf
<1> QED
  BY <1>1, <1>2, <1>3, <1>4

\* A step that no caller can tell.
LEMMA PromiseStutter ==
  ASSUME UNCHANGED media, \A r \in Req : StatusOf(r)' = StatusOf(r)
  PROVE  UNCHANGED Promise!reqvars
<1>1. [r \in Req |-> StatusOf(r)]' = [r \in Req |-> StatusOf(r)]
  OBVIOUS
<1> QED
  BY <1>1 DEF Promise!reqvars, StatusOf

LEMMA PromiseAccept ==
  ASSUME NEW q \in Req, UNCHANGED media,
         StatusOf(q) = "unused", StatusOf(q)' = "pending",
         \A r \in Req : r # q => StatusOf(r)' = StatusOf(r)
  PROVE  Promise!Next
<1> DEFINE st == [r \in Req |-> StatusOf(r)]
<1>1. st[q] = "unused" /\ st' = [st EXCEPT ![q] = "pending"]
  OBVIOUS
<1>2. Promise!Accept(q)
  BY <1>1 DEF Promise!Accept, StatusOf
<1> QED
  BY <1>2 DEF Promise!Next

LEMMA PromiseReply ==
  ASSUME NEW q \in Req, UNCHANGED media, StatusOf(q) = "pending",
         \/ StatusOf(q)' = "failed"
         \/ StatusOf(q)' = "done" /\ \A k \in Commands(q) : <<q, k>> \in media,
         \A r \in Req : r # q => StatusOf(r)' = StatusOf(r)
  PROVE  Promise!Next
<1> DEFINE st == [r \in Req |-> StatusOf(r)]
<1>1. CASE StatusOf(q)' = "failed"
  <2>1. st[q] = "pending" /\ st' = [st EXCEPT ![q] = "failed"]
    BY <1>1
  <2>2. Promise!Fail(q)
    BY <2>1 DEF Promise!Fail, StatusOf
  <2> QED
    BY <2>2 DEF Promise!Next
<1>2. CASE StatusOf(q)' = "done" /\ \A k \in Commands(q) : <<q, k>> \in media
  <2>1. st[q] = "pending" /\ st' = [st EXCEPT ![q] = "done"]
    BY <1>2
  <2>2. Promise!Finish(q)
    BY <1>2, <2>1 DEF Promise!Finish, StatusOf
  <2> QED
    BY <2>2 DEF Promise!Next
<1> QED
  BY <1>1, <1>2

LEMMA PromiseCarryOut ==
  ASSUME NEW q \in Req, NEW k \in Commands(q), StatusOf(q) = "pending",
         media' = media \cup {<<q, k>>},
         \A r \in Req : StatusOf(r)' = StatusOf(r)
  PROVE  Promise!Next
<1> DEFINE st == [r \in Req |-> StatusOf(r)]
<1>1. st[q] = "pending" /\ st' = st
  OBVIOUS
<1>2. Promise!CarryOut(q, k)
  BY <1>1 DEF Promise!CarryOut, StatusOf
<1> QED
  BY <1>2 DEF Promise!Next

\* A step that touches neither requests nor medium.
LEMMA PromiseQuiet ==
  ASSUME UNCHANGED <<sent, reqVars, media>>
  PROVE  UNCHANGED Promise!reqvars
<1>1. \A r \in Req : StatusOf(r)' = StatusOf(r)
  BY DEF StatusOf, reqVars
<1> QED
  BY <1>1, PromiseStutter

\* A request in a slot or in dispatch has been accepted and not replied.
LEMMA OwnedPending ==
  ASSUME TypeOK, ExactlyOnce, NEW r \in Req, OnPort(r) \/ Held(r) \/ cur = r
  PROVE  r \in sent /\ replies[r] = 0
<1>1. replies[r] \in Nat /\ replies[r] <= 1 /\ replies[r] # 1 /\ r \in sent
  BY DEF TypeOK, QueueTypeOK, ExactlyOnce
<1> QED
  BY <1>1

\* A reply is a step of the promise.
LEMMA PromiseReplied ==
  ASSUME QueueTypeOK, QueueTypeOK', NEW q \in Req, NEW err \in BOOLEAN,
         q \in sent, replies[q] = 0, Reply(q, err), UNCHANGED <<sent, media>>,
         err \/ \A k \in Commands(q) : <<q, k>> \in media
  PROVE  Promise!Next
<1>1. /\ replies'[q] = 1 /\ io_Error'[q] = err
      /\ \A r \in Req : r # q => /\ replies'[r] = replies[r]
                                 /\ io_Error'[r] = io_Error[r]
  BY DEF Reply, QueueTypeOK
<1>2. StatusOf(q) = "pending"
  BY StatusValues
<1>3. StatusOf(q)' = IF err THEN "failed" ELSE "done"
  BY <1>1 DEF StatusOf
<1>4. \A r \in Req : r # q => StatusOf(r)' = StatusOf(r)
  BY <1>1 DEF StatusOf
<1> QED
  BY <1>2, <1>3, <1>4, PromiseReply

LEMMA PromiseClient ==
  ASSUME Calm, QueueTypeOK', Client
  PROVE  Promise!Next
<1>1. ASSUME NEW r \in Req, BeginIO(r)
      PROVE  Promise!Next
  <2>1. /\ r \notin sent /\ sent' = sent \cup {r}
        /\ UNCHANGED <<reqVars, media>>
    BY <1>1 DEF BeginIO, queueVars, devVars
  <2>2. replies[r] = 0
    <3>1. replies[r] \in Nat /\ replies[r] <= 1 /\ replies[r] # 1
      BY <2>1 DEF Calm, ExactlyOnce, TypeOK, QueueTypeOK
    <3> QED
      BY <3>1
  <2>3. StatusOf(r) = "unused" /\ StatusOf(r)' = "pending"
    BY <2>1, <2>2 DEF StatusOf, reqVars
  <2>4. \A q \in Req : q # r => StatusOf(q)' = StatusOf(q)
    BY <2>1 DEF StatusOf, reqVars
  <2> QED
    BY <2>1, <2>3, <2>4, PromiseAccept
<1>2. ASSUME NEW r \in Req, AbortIO(r)
      PROVE  Promise!Next
  <2>1. OnPort(r)
    BY <1>2, InRange DEF AbortIO, OnPort, Calm, TypeOK, TaskTypeOK
  <2>2. r \in sent /\ replies[r] = 0
    BY <2>1, OwnedPending DEF Calm
  <2>3. Reply(r, TRUE) /\ UNCHANGED <<sent, media>>
    BY <1>2 DEF AbortIO, devVars
  <2> QED
    BY <2>2, <2>3, PromiseReplied DEF Calm, TypeOK
<1> QED
  BY <1>1, <1>2 DEF Client

\* The controller carries out only commands of requests it still owes.
LEMMA PromiseDevice ==
  ASSUME Calm, Device
  PROVE  Promise!Next \/ UNCHANGED Promise!reqvars
<1>1. CASE Fetch
  BY <1>1, PromiseQuiet DEF Device, Fetch, clientVars
<1>2. ASSUME NEW c \in executing, NEW ok \in BOOLEAN, Complete(c, ok)
      PROVE  Promise!Next \/ UNCHANGED Promise!reqvars
  <2>1. UNCHANGED <<sent, reqVars>>
    BY <1>2 DEF Device, Complete, clientVars
  <2>2. CASE ~ok
    BY <1>2, <2>1, <2>2, PromiseQuiet DEF Complete
  <2>3. CASE ok
    <3> DEFINE r == c.ioreq
               k == c.chunk
               s == c.cid
    <3>1. /\ r \in Req /\ s \in Occupied
          /\ inflight[s].ioreq = r /\ k = ChunkOf(s)
      BY CidsLive DEF Calm, TypeOK, QueueTypeOK, SQE, CommandsMatch,
         WorksForSlot, Results, CarriesChunk
    <3> HIDE DEF r, k, s
    <3>2. r \in sent /\ replies[r] = 0
      BY <3>1, OwnedPending DEF Calm, Held, Occupied
    <3>3. k \in Commands(r)
      <4>1. CASE inflight[s].suppress
        <5>1. /\ cur = r /\ Kind[r] \in {"split", "sync"}
              /\ cur # NULL => (Kind[cur] # "split" => done = 0)
          BY <3>1, <4>1 DEF Calm, PolledSlot, Results, SlotKinds, ChunksDone
        <5>2. k = done + 1 /\ done \in 0 .. MaxChunk - 1 /\ r # NULL
          BY <3>1, <4>1, QueueAssumption DEF ChunkOf, Calm, TypeOK, TaskTypeOK
        <5> QED
          BY <5>1, <5>2, QueueAssumption DEF Commands, Chunk
      <4>2. CASE ~inflight[s].suppress
        BY <3>1, <4>2 DEF Calm, Results, SlotKinds, ChunkOf, Commands
      <4> QED
        BY <4>1, <4>2
    <3>4. media' = media \cup {<<r, k>>}
      BY <1>2, <2>3 DEF Complete, r, k
    <3>5. \A q \in Req : StatusOf(q)' = StatusOf(q)
      BY <2>1 DEF StatusOf, reqVars
    <3>6. StatusOf(r) = "pending"
      BY <3>1, <3>2, StatusValues DEF Calm, TypeOK
    <3> QED
      BY <3>1, <3>3, <3>4, <3>5, <3>6, PromiseCarryOut
  <2> QED
    BY <2>2, <2>3
<1> QED
  BY <1>1, <1>2 DEF Device, Controller

\* Harvest replies a request whose command is done, or leaves it pending.
LEMMA PromiseHarvest ==
  ASSUME Calm, QueueTypeOK', Harvest
  PROVE  Promise!Next \/ UNCHANGED Promise!reqvars
<1>1. PICK s \in Occupied, ok \in BOOLEAN :
           /\ inflight[s].ioreq \in Req
           /\ io_Error' = [io_Error EXCEPT ![inflight[s].ioreq] = ~ok]
           /\ replies' = IF inflight[s].suppress THEN replies
                         ELSE [replies EXCEPT ![inflight[s].ioreq] = @ + 1]
           /\ ok => <<inflight[s].ioreq, ChunkOf(s)>> \in media
  BY HarvestSlot DEF Harvest, Calm, Results
<1>2. UNCHANGED <<sent, media>>
  BY DEF Harvest, HarvestOne, clientVars, devVars
<1> DEFINE r == inflight[s].ioreq
<1>3. r \in sent /\ replies[r] = 0 /\ r \in Req
  BY <1>1, OwnedPending DEF Calm, Held, Occupied
<1>4. CASE inflight[s].suppress
  <2>1. \A q \in Req : q # r => io_Error'[q] = io_Error[q]
    BY <1>1 DEF Calm, TypeOK, QueueTypeOK
  <2>2. replies' = replies /\ sent' = sent
    BY <1>1, <1>2, <1>4
  <2> HIDE DEF r
  <2>3. \A q \in Req : StatusOf(q)' = StatusOf(q)
    BY <1>3, <2>1, <2>2 DEF StatusOf
  <2> QED
    BY <1>2, <2>3, PromiseStutter
<1>5. CASE ~inflight[s].suppress
  <2>1. Reply(r, ~ok)
    BY <1>1, <1>5 DEF Reply
  <2>2. Commands(r) = {1}
    BY <1>5 DEF Calm, Results, SlotKinds, Commands
  <2>3. ~ok \/ \A k \in Commands(r) : <<r, k>> \in media
    BY <1>1, <1>5, <2>2 DEF ChunkOf
  <2> DEFINE err == ~ok
  <2>4. err \in BOOLEAN /\ (err \/ \A k \in Commands(r) : <<r, k>> \in media)
        /\ Reply(r, err)
    BY <2>1, <2>3
  <2> HIDE DEF r, err
  <2> QED
    BY <1>2, <1>3, <2>4, PromiseReplied DEF Calm, TypeOK
<1> QED
  BY <1>4, <1>5

LEMMA PromiseLoop ==
  ASSUME Task, ~Dispatch, ~Harvest
  PROVE  UNCHANGED Promise!reqvars
<1>1. UNCHANGED <<sent, reqVars, media>>
  BY DEF Task, Top, Wait, Peek, Clear, EndYield, EndWake, Unmask, GetMsg,
     EndDrain, queueVars, devVars, clientVars
<1> QED
  BY <1>1, PromiseQuiet

\* Dispatch replies cur, or nobody can tell.
LEMMA PromiseDispatch ==
  ASSUME Calm, QueueTypeOK', Dispatch, timeouts' = 0
  PROVE  Promise!Next \/ UNCHANGED Promise!reqvars
<1>1. cur \in Req
  BY DEF Dispatch, Calm, CurWhileBusy, BusyPc, TypeOK, TaskTypeOK,
         DispatchInline, Refuse, DispatchOne, DispatchPolled, Full, EndFull,
         FullUnmask, FullTimeout, PollDone, PollAgain, PollUnmask, PollTimeout
<1>2. cur \in sent /\ replies[cur] = 0
  BY <1>1, OwnedPending DEF Calm
<1>3. ASSUME NEW err \in BOOLEAN, Answer(err), UNCHANGED <<hostVars, devVars>>,
             err \/ \A k \in Commands(cur) : <<cur, k>> \in media
      PROVE  Promise!Next
  <2>1. Reply(cur, err) /\ UNCHANGED <<sent, media>>
    BY <1>3 DEF Answer, clientVars, devVars
  <2> QED
    BY <1>1, <1>2, <1>3, <2>1, PromiseReplied DEF Calm, TypeOK
<1>4. ASSUME NEW err \in BOOLEAN, DispatchInline(err)
      PROVE  Promise!Next
  BY <1>3, <1>4 DEF DispatchInline, Commands
<1>5. CASE Refuse
  <2> DEFINE err == Kind[cur] # "empty"
  <2>1. /\ err \in BOOLEAN /\ Answer(err) /\ UNCHANGED <<hostVars, devVars>>
        /\ err \/ \A k \in Commands(cur) : <<cur, k>> \in media
    BY <1>5 DEF Refuse, Commands
  <2> HIDE DEF err
  <2> QED
    BY <1>3, <2>1
<1>6. CASE DispatchOne \/ DispatchPolled \/ Full \/ EndFull \/ FullUnmask
           \/ PollAgain \/ PollUnmask
  <2>1. UNCHANGED <<sent, reqVars, media>>
    BY <1>6 DEF DispatchOne, DispatchPolled, Submit, Full, EndFull, FullUnmask,
       PollAgain, PollUnmask, queueVars, devVars, clientVars
  <2> QED
    BY <2>1, PromiseQuiet
<1>7. CASE FullTimeout \/ PollTimeout
  BY <1>7 DEF Calm, FullTimeout, PollTimeout, GiveUp
<1>8. CASE PollDone
  <2>1. CASE io_Error[cur] \/ LastCommand
    <3> DEFINE err == io_Error[cur]
    <3>1. /\ err \in BOOLEAN /\ Answer(err)
          /\ UNCHANGED <<hostVars, devVars>>
      BY <1>1, <1>8, <2>1 DEF PollDone, Calm, TypeOK, QueueTypeOK
    <3>2. err \/ \A k \in Commands(cur) : <<cur, k>> \in media
      BY <1>1, <1>8, <2>1, PollDoneDone
    <3> HIDE DEF err
    <3> QED
      BY <1>3, <3>1, <3>2
  <2>2. CASE ~(io_Error[cur] \/ LastCommand)
    <3>1. UNCHANGED <<sent, reqVars, media>>
      BY <1>8, <2>2 DEF PollDone, devVars, clientVars
    <3> QED
      BY <3>1, PromiseQuiet
  <2> QED
    BY <2>1, <2>2
<1> QED
  BY <1>4, <1>5, <1>6, <1>7, <1>8 DEF Dispatch

LEMMA PromiseStep ==
  ASSUME TypeOK, PolledSlot, CurWhileBusy, ExactlyOnce, CommandsInv, ResultsInv,
         TypeOK', [Next]_vars, timeouts' = 0
  PROVE  [Promise!Next]_(Promise!reqvars)
<1>1. Calm
  BY TimeoutsGrow, CalmState, QueueAssumption DEF TypeOK, QueueTypeOK
<1>2. QueueTypeOK'
  BY DEF TypeOK
<1>3. CASE MaskWriters \/ UNCHANGED vars
  <2>1. UNCHANGED <<sent, reqVars, media>>
    BY <1>3, WritersQuiet DEF vars, queueVars, devVars, clientVars
  <2> QED
    BY <2>1, PromiseQuiet
<1> QED
  BY <1>1, <1>2, <1>3, PromiseClient, PromiseDevice, PromiseHarvest, PromiseLoop,
     PromiseDispatch DEF Next, Task

LEMMA PromiseInit == Init => Promise!Init
<1> SUFFICES ASSUME Init
             PROVE  Promise!Init
  OBVIOUS
<1>1. sent = {} /\ media = {}
  BY DEF Init, QueueInit
<1>2. \A r \in Req : StatusOf(r) = "unused"
  BY <1>1 DEF StatusOf
<1>3. [r \in Req |-> StatusOf(r)] = [r \in Req |-> "unused"]
  BY <1>2
<1> QED
  BY <1>1, <1>3 DEF Promise!Init, StatusOf

(* Until a poll gives up, the whole of the unit task, its queue pair, the  *)
(* interrupt handler and BeginIO and AbortIO implement IORequests, for any *)
(* number of requests of any kind (unit_task.c:753-864, nvme_io.c).        *)
THEOREM Refinement == Spec => ImplementsPromise
<1>1. Init => Promise!Init
  BY PromiseInit
<1>2. TaskInv /\ CommandsInv /\ ResultsInv /\ [Next]_vars
        => [timeouts' = 0 => [Promise!Next]_(Promise!reqvars)]_vars
  BY PromiseStep, TaskInvStep DEF TaskInv
<1> QED
  BY <1>1, <1>2, TaskInvariant, CommandsInvariant, ResultsInvariant, PTL
     DEF Spec, ImplementsPromise

=============================================================================

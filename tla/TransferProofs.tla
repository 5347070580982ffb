---------------------------- MODULE TransferProofs ----------------------------
(***************************************************************************)
(* Machine-checked proofs about Transfer, for any number of requests of    *)
(* any shape, any number of slots, all sizes, any placement of the         *)
(* callers' pages, any lists exec may return and any number of polls that  *)
(* give up.                                                                *)
(*                                                                         *)
(*   pins      whatever StartDMA pins is released once: a step leaves what *)
(*             is pinned alone (Quiet), begins a pin, or moves it into a   *)
(*             slot (Issued) or out of one (SlotReleased)                  *)
(*   sizes     every PRP entry is one page further on, at least, than the  *)
(*             one before, so that one list page has room (ScanFits)       *)
(*   fields    what a request in dispatch asks for, chunk by chunk         *)
(*   naming    entry k of a command leads to page k of its memory          *)
(*             (BounceNames, DirectNames), and the controller goes where   *)
(*             the entries lead (CellsNamed)                               *)
(*   commands  the entries of a command stay what they are until it is     *)
(*             harvested (HeldInvariant)                                   *)
(*   types                                                                 *)
(*   replies   who replies a request, and with which fields                *)
(*   chunks    where the chunk in hand is                                  *)
(*   answers   what is known of a request from its command to its reply    *)
(*   data      the cells a request moves: what each step leaves alone      *)
(*             (PlacedStays .. MovedLeft), what it moves (ReadIs ..        *)
(*             CopyInIs), and where that leaves every part under way       *)
(*             (DataStep); then each step is one of BlockDevice, or one    *)
(*             that it does not see (ServeIs, Unseen, BlockStep)           *)
(***************************************************************************)
EXTENDS TransferInv, FiniteSetTheorems, WellFoundedInduction, TLAPS

-----------------------------------------------------------------------------
(* Numbers.                                                                *)

\* A set of numbers that is not empty has a least element.
LEMMA LeastOf ==
  ASSUME NEW S \in SUBSET Nat, S # {}
  PROVE  \E s \in S : \A t \in S : s <= t
<1> DEFINE R == OpToRel(<, Nat)
<1>1. R = {p \in Nat \X Nat : p[1] < p[2]}
  BY DEF OpToRel
<1>2. IsWellFoundedOn(R, Nat)
  BY NatLessThanWellFounded
<1> HIDE DEF R
<1>3. PICK s \in S : \A t \in S : ~(<<t, s>> \in R)
  BY <1>2, WFMin
<1>4. \A t \in S : t < s => <<t, s>> \in R
  BY <1>1, <1>3
<1>5. \A t \in S : t \in Nat /\ ~(t < s)
  BY <1>3, <1>4
<1> QED
  BY <1>3, <1>5

\* What \div and % by a positive number give.
LEMMA Quotient ==
  ASSUME NEW a \in Int, NEW d \in Nat \ {0}
  PROVE  /\ a \div d \in Int /\ a % d \in 0 .. d - 1
         /\ (a \div d) * d = a - (a % d)
         /\ a >= 0 => a \div d >= 0
<1>0. d \in Int /\ d > 0
  OBVIOUS
<1>1. a \div d \in Int /\ a % d \in 0 .. d - 1
  BY <1>0
<1>2. (a \div d) * d = a - (a % d)
  BY <1>0
<1>3. a >= 0 => a \div d >= 0
  OBVIOUS
<1> QED
  BY <1>1, <1>2, <1>3

LEMMA Smaller ==
  ASSUME NEW a \in Int, NEW b \in Int, NEW d \in Nat \ {0}, a * d < b * d
  PROVE  a < b
<1>1. CASE a >= b
  <2>1. (a - b) * d >= 0
    BY <1>1
  <2> QED
    BY <2>1
<1> QED
  BY <1>1

\* Products of integers, for steps that must not expand them.
LEMMA Distribute ==
  ASSUME NEW a \in Int, NEW b \in Int, NEW d \in Int
  PROVE  /\ (a + b) * d = a * d + b * d /\ (a - b) * d = a * d - b * d
         /\ a * d \in Int
  OBVIOUS

LEMMA Remainder ==
  ASSUME NEW q \in Int, NEW d \in Nat \ {0}, NEW m \in 0 .. d - 1
  PROVE  (q * d + m) % d = m
<1> DEFINE a == q * d + m
<1>1. a \in Int
  BY Distribute
<1> HIDE DEF a
<1>2. a % d \in 0 .. d - 1 /\ (a \div d) * d = a - (a % d) /\ a \div d \in Int
  BY <1>1, Quotient
<1>3. (q - a \div d) * d = (a % d) - m
  BY <1>2, Distribute DEF a
<1>4. q = a \div d
  <2> DEFINE e == q - a \div d
  <2>1. e \in Int /\ e * d < 1 * d /\ (-1) * d < e * d
    BY <1>2, <1>3
  <2> HIDE DEF e
  <2>2. e < 1 /\ -1 < e
    BY <2>1, Smaller
  <2> QED
    BY <1>2, <2>1, <2>2 DEF e
<1> QED
  BY <1>2, <1>3, <1>4 DEF a

-----------------------------------------------------------------------------
(* Slots and pins.                                                         *)

\* The sizes that the constants give.
LEMMA Limits ==
  /\ MaxInflight \in Nat \ {0} /\ BlockSize \in Nat \ {0} /\ SanityCap \in Nat \ {0}
  /\ MaxNlb \in Nat \ {0} /\ DiskSize \in Nat \ {0}
<1>1. {MaxInflight, PageSize, HostPage, BlockSize, MaxPrp, SanityCap, MaxNlb,
       MaxRanges, Word, DiskSize} \subseteq Nat \ {0}
  BY Zenon, TransferAssumption
<1> QED
  BY <1>1

\* find_free_slot returns a free slot whenever there is one.
LEMMA FreeSlotIsFree ==
  ASSUME Occupied # Slot
  PROVE  FreeSlot \in Slot \ Occupied
<1>1. Slot \ Occupied \in SUBSET Nat /\ Slot \ Occupied # {}
  BY Limits DEF Occupied, Slot
<1>2. \E s \in Slot \ Occupied : \A t \in Slot \ Occupied : s <= t
  BY <1>1, LeastOf
<1> QED
  BY <1>2 DEF FreeSlot

LEMMA FirstSlot == 1 \in Slot
<1>1. MaxInflight \in Nat \ {0}
  BY TransferAssumption
<1> QED
  BY <1>1 DEF Slot

\* The slots that hold an array of their own.
Arrays == {s \in Direct : inflight[s].own}

\* There are finitely many slots.
LEMMA FiniteSlots ==
  /\ IsFiniteSet(Slot)
  /\ \A S \in SUBSET Slot : IsFiniteSet(S) /\ Cardinality(S) \in Nat
<1>1. IsFiniteSet(Slot)
  BY FS_Interval, TransferAssumption DEF Slot
<1> QED
  BY <1>1, FS_Subset, FS_CardinalityType

\* The counters when a pin begins and ends.
LEMMA PinBegins ==
  ASSUME IsFiniteSet(pinned), leak_dma = Cardinality(pinned), NEW p, p \notin pinned,
         pinned' = pinned \cup {p}, leak_dma' = leak_dma + 1
  PROVE  IsFiniteSet(pinned') /\ leak_dma' = Cardinality(pinned')
  BY FS_AddElement

LEMMA PinEnds ==
  ASSUME IsFiniteSet(pinned), leak_dma = Cardinality(pinned), NEW p \in pinned,
         EndDMA(p)
  PROVE  IsFiniteSet(pinned') /\ leak_dma' = Cardinality(pinned')
                              /\ pinned' = pinned \ {p}
  BY FS_RemoveElement DEF EndDMA

-----------------------------------------------------------------------------
(* Steps that neither begin nor end a command.                             *)

SameSlots == UNCHANGED pathVars

LEMMA Quiet ==
  ASSUME PinsInv, SameSlots, UNCHANGED pool,
         pc = "pinned" <=> pc' = "pinned",
         pc = "pinned" => Pin' = Pin
  PROVE  PinsBalanced' /\ IsFiniteSet(pinned')
<1>1. Direct' = Direct /\ \A s : PinOf(s)' = PinOf(s)
  BY DEF SameSlots, pathVars, Direct, Occupied, PinOf
<1>2. PinsBalanced /\ IsFiniteSet(pinned)
  BY DEF PinsInv, PathTypes
<1>3. {s \in Direct : inflight[s].own}' = {s \in Direct : inflight[s].own}
  BY <1>1 DEF SameSlots, pathVars
<1>4. UNCHANGED <<pinned, leak_dma, leak_dmaentry>>
  BY DEF SameSlots, pathVars
<1>5. (IF pc = "pinned" THEN {Pin} ELSE {})' = IF pc = "pinned" THEN {Pin} ELSE {}
  BY DEF SameSlots
<1> HIDE DEF SameSlots
<1> QED
  BY <1>1, <1>2, <1>3, <1>4, <1>5 DEF PinsBalanced

-----------------------------------------------------------------------------
(* A command leaves its slot, completed or given up.                       *)

LEMMA SlotReleased ==
  ASSUME PinsInv, NEW s \in Occupied, EndSlotDMA(s), UNCHANGED pool,
         inflight' = [inflight EXCEPT ![s] = FreeInflight],
         pc # "pinned", pc' # "pinned"
  PROVE  PinsBalanced' /\ IsFiniteSet(pinned')
<1>1. /\ PathTypes /\ OneOwner /\ PinsBalanced /\ s \in Slot
      /\ NULL \notin Req
  BY TransferAssumption DEF PinsInv, Occupied
<1>2. /\ inflight'[s] = FreeInflight
      /\ \A t \in Slot : t # s => inflight'[t] = inflight[t]
  BY <1>1 DEF PathTypes
<1>3. FreeInflight.ioreq = NULL
  BY DEF FreeInflight
<1>4. Direct' = Direct \ {s} /\ \A t \in Direct' : PinOf(t)' = PinOf(t)
  BY <1>2, <1>3 DEF Direct, Occupied, PinOf
<1>5. \A t \in Direct : t # s => PinOf(t) # PinOf(s)
  BY <1>1 DEF Direct, OneOwner, PinOf
<1>6. /\ pinned = {PinOf(t) : t \in Direct} /\ leak_dma = Cardinality(pinned)
      /\ IsFiniteSet(pinned) /\ leak_dmaentry = Cardinality(pool) + Cardinality(Arrays)
  BY <1>1 DEF PinsBalanced, PathTypes, Arrays
<1>7. Direct \subseteq Slot /\ Arrays \subseteq Slot
  BY DEF Direct, Occupied, Arrays
<1>8. Arrays' = Arrays \ {s}
  BY <1>2, <1>4, <1>7 DEF Arrays
<1> DEFINE Ok == /\ pinned' = {PinOf(t)' : t \in Direct'}
                 /\ leak_dma' = Cardinality(pinned') /\ IsFiniteSet(pinned')
<1>9. Ok
  <2>1. ASSUME s \in Direct PROVE Ok
    <3>1. EndDMA(PinOf(s)) /\ PinOf(s) \in pinned
      BY <1>6, <2>1 DEF EndSlotDMA, Direct
    <3>2. IsFiniteSet(pinned') /\ leak_dma' = Cardinality(pinned')
                               /\ pinned' = pinned \ {PinOf(s)}
      BY <1>6, <3>1, PinEnds
    <3> QED
      BY <1>4, <1>5, <1>6, <2>1, <3>2
  <2>2. ASSUME s \notin Direct PROVE Ok
    <3>1. UNCHANGED <<pinned, leak_dma>> /\ Direct' = Direct
      BY <1>4, <2>2 DEF EndSlotDMA, Direct
    <3> QED
      BY <1>4, <1>6, <3>1
  <2> HIDE DEF Ok
  <2> QED
    BY <2>1, <2>2
<1>10. leak_dmaentry' = Cardinality(pool) + Cardinality(Arrays')
  <2>1. Cardinality(Arrays) \in Nat /\ IsFiniteSet(Arrays)
    BY <1>7, FiniteSlots
  <2>2. Cardinality(pool) \in Nat
    BY <1>1, FiniteSlots DEF PathTypes
  <2>3. CASE s \in Arrays
    <3>1. Cardinality(Arrays') = Cardinality(Arrays) - 1
      BY <1>8, <2>1, <2>3, FS_RemoveElement
    <3>2. leak_dmaentry' = leak_dmaentry - 1
      BY <2>3 DEF EndSlotDMA, Arrays, Direct
    <3> QED
      BY <1>6, <2>1, <2>2, <3>1, <3>2
  <2>4. CASE s \notin Arrays
    <3>1. Arrays' = Arrays
      BY <1>8, <2>4
    <3>2. leak_dmaentry' = leak_dmaentry
      BY <2>4 DEF EndSlotDMA, Arrays, Direct
    <3> QED
      BY <1>6, <3>1, <3>2
  <2> QED
    BY <2>3, <2>4
<1> QED
  BY <1>9, <1>10 DEF PinsBalanced, Arrays

-----------------------------------------------------------------------------
(* A command enters its slot.                                              *)

LEMMA Issued ==
  ASSUME PinsInv, NEW s \in Slot \ Occupied, cur \in Req, UNCHANGED pool,
         NEW i, i.ioreq = cur, inflight' = [inflight EXCEPT ![s] = i],
         UNCHANGED <<pinned, leak_dma>>, pc' # "pinned",
         IF ~i.bounce /\ i.buf # NULL
         THEN /\ pc = "pinned"
              /\ <<i.ioreq, i.buf, i.len, i.write>> = Pin
              /\ leak_dmaentry' = IF i.own THEN leak_dmaentry + 1 ELSE leak_dmaentry
         ELSE pc # "pinned" /\ leak_dmaentry' = leak_dmaentry
  PROVE  PinsBalanced' /\ IsFiniteSet(pinned')
<1>1. PathTypes /\ OneOwner /\ PinsBalanced /\ NULL \notin Req
  BY TransferAssumption DEF PinsInv
<1>2. /\ inflight'[s] = i
      /\ \A t \in Slot : t # s => inflight'[t] = inflight[t]
  BY <1>1 DEF PathTypes
<1> DEFINE direct == ~i.bounce /\ i.buf # NULL
<1>3. /\ Direct' = IF direct THEN Direct \cup {s} ELSE Direct
      /\ \A t \in Direct : PinOf(t)' = PinOf(t)
      /\ s \notin Direct
  BY <1>1, <1>2 DEF Direct, Occupied, PinOf
<1>4. direct => PinOf(s)' = Pin
  BY <1>2 DEF PinOf
<1>5. /\ pinned = {PinOf(t) : t \in Direct} \cup (IF pc = "pinned" THEN {Pin} ELSE {})
      /\ leak_dma = Cardinality(pinned) /\ IsFiniteSet(pinned)
      /\ leak_dmaentry = Cardinality(pool) + Cardinality(Arrays)
  BY <1>1 DEF PinsBalanced, PathTypes, Arrays
<1>6. Direct \subseteq Slot /\ Arrays \subseteq Slot /\ s \notin Arrays
  BY <1>3 DEF Direct, Occupied, Arrays
<1>7. pinned' = {PinOf(t)' : t \in Direct'}
  <2>1. CASE direct
    BY <1>3, <1>4, <1>5, <2>1
  <2>2. CASE ~direct
    BY <1>3, <1>5, <2>2
  <2> QED
    BY <2>1, <2>2
<1>8. Arrays' = IF direct /\ i.own THEN Arrays \cup {s} ELSE Arrays
  BY <1>2, <1>3, <1>6 DEF Arrays
<1>9. leak_dmaentry' = Cardinality(pool) + Cardinality(Arrays')
  <2>1. Cardinality(Arrays) \in Nat /\ IsFiniteSet(Arrays)
    BY <1>6, FiniteSlots
  <2>2. Cardinality(pool) \in Nat
    BY <1>1, FiniteSlots DEF PathTypes
  <2>3. CASE direct /\ i.own
    <3>1. Cardinality(Arrays') = Cardinality(Arrays) + 1
      BY <1>6, <1>8, <2>1, <2>3, FS_AddElement
    <3> QED
      BY <1>5, <2>1, <2>2, <2>3, <3>1
  <2>4. CASE ~(direct /\ i.own)
    BY <1>5, <1>8, <2>4
  <2> QED
    BY <2>3, <2>4
<1> QED
  BY <1>5, <1>7, <1>9 DEF PinsBalanced, Arrays

-----------------------------------------------------------------------------
(* Who has each request.                                                   *)

\* No slot is taken, and dispatch has nothing in hand when the step is over.
LEMMA OwnersDone ==
  ASSUME PathTypes, OneOwner, UNCHANGED <<ask, port>>, cur' = NULL,
         \A s \in Slot : inflight'[s].ioreq \in {NULL, inflight[s].ioreq}
  PROVE  OneOwner'
  BY DEF OneOwner, Occupied

\* No slot is taken, and dispatch goes on with cur.
LEMMA OwnersGoOn ==
  ASSUME PathTypes, OneOwner, UNCHANGED <<ask, port, cur>>,
         \A s \in Slot : inflight'[s].ioreq \in {NULL, inflight[s].ioreq},
         \/ UNCHANGED <<pc, slot>>
         \/ pc # "poll"
         \/ inflight[slot].ioreq = NULL
  PROVE  OneOwner'
  BY DEF OneOwner, Occupied

\* cur gets slot k.
LEMMA OwnersTake ==
  ASSUME PathTypes, OneOwner, UNCHANGED <<ask, port>>, cur # NULL, pc # "poll",
         NEW k \in Slot, inflight'[k].ioreq = cur,
         \A t \in Slot : t # k => inflight'[t] = inflight[t],
         cur' = NULL \/ (cur' = cur /\ pc' = "poll" /\ slot' = k)
  PROVE  OneOwner'
<1>1. Occupied' = Occupied \cup {k}
  BY DEF Occupied
<1>2. \A t \in Occupied : inflight[t].ioreq # cur /\ inflight[t].ioreq # NULL
  BY DEF OneOwner, Occupied
<1>3. \A t \in Occupied' : t # k => t \in Occupied /\ inflight'[t] = inflight[t]
  BY <1>1 DEF Occupied
<1>4. ask[cur] # NULL /\ cur \notin port
  BY DEF OneOwner
<1>5. \A t, u \in Occupied' : inflight'[t].ioreq = inflight'[u].ioreq => t = u
  BY <1>2, <1>3 DEF OneOwner
<1>6. \A t \in Occupied' :
        /\ ask'[inflight'[t].ioreq] # NULL
        /\ inflight'[t].ioreq \notin port'
        /\ inflight'[t].ioreq = cur' => pc' = "poll" /\ t = slot'
  <2> SUFFICES ASSUME NEW t \in Occupied'
               PROVE  /\ ask'[inflight'[t].ioreq] # NULL
                      /\ inflight'[t].ioreq \notin port'
                      /\ inflight'[t].ioreq = cur' => pc' = "poll" /\ t = slot'
    OBVIOUS
  <2>1. CASE t = k
    BY <1>4, <2>1
  <2>2. CASE t # k
    BY <1>2, <1>3, <2>2 DEF OneOwner
  <2> QED
    BY <2>1, <2>2
<1>7. /\ \A r \in port' : ask'[r] # NULL
      /\ cur' # NULL => ask'[cur'] # NULL /\ cur' \notin port'
  BY <1>4 DEF OneOwner
<1> QED
  BY <1>5, <1>6, <1>7 DEF OneOwner

-----------------------------------------------------------------------------
(* Steps of clients, of the controller, and of dispatch on its way.        *)

\* A request that is sent belongs to the port only.
LEMMA ClientStep ==
  ASSUME PinsInv, NEW r \in Req, BeginIO(r)
  PROVE  PinsInv'
<1>1. PathTypes /\ OneOwner /\ Prepared /\ NULL \notin Req
  BY TransferAssumption DEF PinsInv
<1>2. /\ ask[r] = NULL /\ port' = port \cup {r}
      /\ UNCHANGED <<configVars, taskVars, pathVars, devVars>>
  BY DEF BeginIO
<1>3. PICK a \in Shapes[r] : /\ ask' = [ask EXCEPT ![r] = a]
                            /\ io' = [io EXCEPT ![r] = Fields(a)]
  BY DEF BeginIO
<1>4. a # NULL
  BY TransferAssumption
<1>5. /\ ask'[r] = a /\ DOMAIN ask' = Req /\ DOMAIN io' = Req
      /\ \A q \in Req : q # r => ask'[q] = ask[q] /\ io'[q] = io[q]
  BY <1>1, <1>3 DEF PathTypes
<1>6. PathTypes'
  BY <1>1, <1>2, <1>5 DEF PathTypes, configVars, taskVars, pathVars, devVars
<1>7. OneOwner'
  BY <1>1, <1>2, <1>4, <1>5
     DEF OneOwner, PathTypes, Occupied, taskVars, pathVars
<1>8. cur # NULL => cur \in Req /\ cur # r
  BY <1>1, <1>2 DEF OneOwner, PathTypes
<1>9. Prepared'
  BY <1>1, <1>2, <1>5, <1>8 DEF Prepared, PathTypes, Occupied, taskVars, pathVars
<1>10. PinsBalanced'
  <2>1. pc = "pinned" => Pin' = Pin
    BY <1>1, <1>2, <1>5, <1>8 DEF PathTypes, Pin, taskVars
  <2> QED
    BY <1>2, <2>1, Quiet DEF SameSlots, configVars, taskVars
<1> QED
  BY <1>6, <1>7, <1>9, <1>10 DEF PinsInv

\* The controller moves neither requests nor pins.
LEMMA ControllerStep ==
  ASSUME PinsInv, Controller
  PROVE  PinsInv'
<1>1. PICK c \in issued, ok \in BOOLEAN : Post(c, ok)
  BY DEF Controller, Read, Write, Discard, Fail
<1>2. /\ UNCHANGED <<configVars, reqVars, taskVars, pathVars>>
      /\ issued' = issued \ {c} /\ cq' = Append(cq, [cid |-> c.cid, ok |-> ok])
  BY <1>1 DEF Post
<1>3. PathTypes'
  BY <1>2 DEF PinsInv, PathTypes, configVars, reqVars, taskVars, pathVars
<1>4. OneOwner' /\ Prepared'
  BY <1>2 DEF PinsInv, OneOwner, Prepared, Occupied, reqVars, taskVars, pathVars
<1>5. PinsBalanced'
  BY <1>2, Quiet DEF SameSlots, Pin, configVars, reqVars, taskVars
<1> QED
  BY <1>3, <1>4, <1>5 DEF PinsInv

\* A reply that touches no slot.
LEMMA AnswerStep ==
  ASSUME PinsInv, cur # NULL, pc # "pinned", NEW err, NEW actual,
         Answer(err, actual), UNCHANGED <<configVars, pathVars, devVars>>
  PROVE  PinsInv'
<1>1. /\ cur' = NULL /\ pc' = "loop" /\ slot' = 1 /\ DOMAIN io' = DOMAIN io
      /\ UNCHANGED <<ask, port, inflight>>
  BY DEF Answer, ReplyMsg, Dispatched, pathVars
<1>2. PathTypes'
  BY <1>1, FirstSlot DEF PinsInv, PathTypes, configVars, pathVars, devVars
<1>3. OneOwner' /\ Prepared'
  BY <1>1, OwnersDone DEF PinsInv, Prepared
<1>4. PinsBalanced'
  BY <1>1, Quiet DEF SameSlots, configVars
<1> QED
  BY <1>2, <1>3, <1>4 DEF PinsInv

LEMMA WayStep ==
  ASSUME PinsInv, (\E r \in Req : GetMsg(r)) \/ Dispatch \/ NextChunk
  PROVE  PinsInv'
<1>0. PathTypes /\ OneOwner /\ Prepared /\ NULL \notin Req
  BY TransferAssumption DEF PinsInv
<1>1. CASE \E r \in Req : GetMsg(r)
  <2>1. PICK r \in Req : GetMsg(r)
    BY <1>1
  <2>2. /\ pc = "loop" /\ r \in port /\ port' = port \ {r} /\ cur' = r
        /\ pc' = "dispatch" /\ UNCHANGED <<ask, io, slot, configVars, pathVars, devVars>>
    BY <2>1 DEF GetMsg
  <2>3. PathTypes'
    BY <1>0, <2>2 DEF PathTypes, configVars, pathVars, devVars
  <2>4. OneOwner' /\ Prepared'
    BY <1>0, <2>2 DEF OneOwner, Prepared, Occupied, pathVars
  <2>5. PinsBalanced'
    BY <2>2, Quiet DEF SameSlots, configVars
  <2> QED
    BY <2>3, <2>4, <2>5 DEF PinsInv
<1>2. CASE Dispatch
  <2>1. /\ pc = "dispatch" /\ Occupied # Slot /\ slot' = FreeSlot /\ pc' = "submit"
        /\ DOMAIN io' = DOMAIN io
        /\ UNCHANGED <<ask, port, cur, configVars, pathVars, devVars>>
    BY <1>2 DEF Dispatch
  <2>2. FreeSlot \in Slot \ Occupied
    BY <2>1, FreeSlotIsFree
  <2>3. PathTypes'
    BY <1>0, <2>1, <2>2 DEF PathTypes, configVars, pathVars, devVars
  <2>4. OneOwner'
    BY <1>0, <2>1, OwnersGoOn DEF pathVars
  <2>5. Prepared'
    BY <2>1, <2>2 DEF Prepared, Occupied, pathVars
  <2>6. PinsBalanced'
    BY <2>1, Quiet DEF SameSlots, configVars
  <2> QED
    BY <2>3, <2>4, <2>5, <2>6 DEF PinsInv
<1>3. CASE NextChunk
  <2>1. /\ pc = "poll" /\ inflight[slot].ioreq = NULL /\ pc' = "dispatch"
        /\ UNCHANGED <<ask, io, port, cur, slot, configVars, pathVars, devVars>>
    BY <1>3 DEF NextChunk, reqVars
  <2>2. PathTypes'
    BY <1>0, <2>1 DEF PathTypes, configVars, pathVars, devVars
  <2>3. OneOwner'
    BY <1>0, <2>1, OwnersGoOn DEF pathVars
  <2>4. Prepared'
    BY <2>1 DEF Prepared
  <2>5. PinsBalanced'
    BY <2>1, Quiet DEF SameSlots, configVars
  <2> QED
    BY <2>2, <2>3, <2>4, <2>5 DEF PinsInv
<1> QED
  BY <1>1, <1>2, <1>3

-----------------------------------------------------------------------------
(* Steps that write a command, and steps that release one.                 *)

\* What Issue does with the slot, whichever path has called it.
LEMMA IssueStep ==
  ASSUME PinsInv, pc \in {"submit", "pinned"}, NEW prp1, NEW rest,
         NEW bounce \in BOOLEAN, NEW own, Issue(prp1, rest, bounce, own),
         UNCHANGED <<configVars, reqVars, pinned, leak_dma>>,
         pc = "pinned" <=> ~bounce,
         leak_dmaentry' = IF ~bounce /\ own THEN leak_dmaentry + 1 ELSE leak_dmaentry
  PROVE  PinsInv'
<1>1. PathTypes /\ OneOwner /\ Prepared /\ NULL \notin Req
  BY TransferAssumption DEF PinsInv
<1>2. slot \in Slot \ Occupied /\ cur \in Req /\ cur # NULL
  BY <1>1 DEF PathTypes, Prepared
<1> DEFINE i == [ioreq |-> cur, suppress |-> Split(cur), bounce |-> bounce,
                 write |-> ask[cur].cmd \in Writes, buf |-> io[cur].data,
                 len |-> io[cur].length, own |-> own]
           k == slot
<1>3. /\ inflight' = [inflight EXCEPT ![k] = i]
      /\ cq' = cq
      /\ IF Split(cur) THEN pc' = "poll" /\ UNCHANGED <<cur, slot>>
                       ELSE pc' = "loop" /\ cur' = NULL /\ slot' = 1
      /\ \A c \in issued' : c \in issued \/ c.cid = slot
  BY DEF Issue, Dispatched
<1>4. /\ i.ioreq = cur /\ i.bounce = bounce /\ i.own = own
      /\ <<i.ioreq, i.buf, i.len, i.write>> = Pin /\ i.buf = io[cur].data
  BY DEF Pin
<1> HIDE DEF i, k
<1>5. k = slot /\ k \in Slot \ Occupied
  BY <1>2 DEF k
<1>6. /\ inflight'[k] = i /\ DOMAIN inflight' = Slot
      /\ \A t \in Slot : t # k => inflight'[t] = inflight[t]
  BY <1>1, <1>3, <1>5 DEF PathTypes
<1>7. pc' \in {"poll", "loop"} /\ cur' \in {NULL, cur} /\ slot' \in Slot
  BY <1>2, <1>3, FirstSlot
<1>8. PinsBalanced' /\ IsFiniteSet(pinned')
  <2>1. ~i.bounce => i.buf # NULL /\ pc = "pinned"
    BY <1>1, <1>4 DEF Prepared
  <2>2. /\ pc' # "pinned" /\ UNCHANGED pool
        /\ IF ~i.bounce /\ i.buf # NULL
           THEN /\ pc = "pinned"
                /\ leak_dmaentry' = IF i.own THEN leak_dmaentry + 1 ELSE leak_dmaentry
           ELSE pc # "pinned" /\ leak_dmaentry' = leak_dmaentry
    BY <1>4, <1>7, <2>1 DEF configVars
  <2> QED
    BY <1>2, <1>3, <1>4, <1>5, <2>2, Issued
<1>9. OneOwner'
  <2>1. cur' = NULL \/ (cur' = cur /\ pc' = "poll" /\ slot' = k)
    BY <1>3, <1>5
  <2> QED
    BY <1>1, <1>2, <1>4, <1>5, <1>6, <2>1, OwnersTake DEF reqVars
<1>10. PathTypes'
  <2>1. \A c \in issued' : c.cid \in Slot
    BY <1>1, <1>2, <1>3 DEF PathTypes
  <2>2. \A t \in Slot : inflight'[t].ioreq \in Req \cup {NULL}
    BY <1>1, <1>2, <1>4, <1>6 DEF PathTypes
  <2>3. cur' \in Req \cup {NULL} /\ (pc' # "loop" => cur' # NULL)
    BY <1>2, <1>3, <1>7
  <2> QED
    BY <1>1, <1>3, <1>6, <1>7, <1>8, <2>1, <2>2, <2>3
       DEF PathTypes, configVars, reqVars
<1>11. Prepared'
  BY <1>7 DEF Prepared
<1> QED
  BY <1>8, <1>9, <1>10, <1>11 DEF PinsInv

LEMMA PinStep ==
  ASSUME PinsInv, StartDMA
  PROVE  PinsInv'
<1>1. /\ PathTypes /\ OneOwner /\ Prepared /\ PinsBalanced /\ NULL \notin Req
      /\ IsFiniteSet(pinned)
  BY TransferAssumption DEF PinsInv, PathTypes
<1>2. /\ pc = "submit" /\ pc' = "pinned" /\ pinned' = pinned \cup {Pin}
      /\ leak_dma' = leak_dma + 1
      /\ UNCHANGED <<configVars, reqVars, cur, slot, inflight, leak_dmaentry, issued, cq>>
  BY DEF StartDMA, Accepts, devVars
<1>3. io[cur].data # NULL
  <2>1. ~WrongLength(io[cur]) /\ io[cur].length # 0
    BY DEF StartDMA, Accepts
  <2> QED
    BY <2>1 DEF WrongLength
<1>4. Pin' = Pin /\ Direct' = Direct /\ \A s : PinOf(s)' = PinOf(s)
  BY <1>2 DEF Pin, Direct, Occupied, PinOf, reqVars
<1>5. pinned = {PinOf(s) : s \in Direct} /\ leak_dma = Cardinality(pinned)
  BY <1>1, <1>2 DEF PinsBalanced
<1>6. \A s \in Direct : PinOf(s) # Pin
  BY <1>1, <1>2 DEF Direct, OneOwner, PinOf, Pin
<1>7. IsFiniteSet(pinned') /\ leak_dma' = Cardinality(pinned')
  <2>1. Pin \notin pinned
    BY <1>5, <1>6
  <2> QED
    BY <1>1, <1>2, <1>5, <2>1, PinBegins
<1>8. PinsBalanced'
  <2>1. leak_dmaentry' = Cardinality(pool') + Cardinality(Arrays')
    BY <1>1, <1>2, <1>4 DEF PinsBalanced, Arrays, configVars
  <2>2. pinned' = {PinOf(s)' : s \in Direct'} \cup {Pin'}
    BY <1>2, <1>4, <1>5
  <2> QED
    BY <1>2, <1>7, <2>1, <2>2 DEF PinsBalanced, Arrays
<1>9. PathTypes'
  BY <1>1, <1>2, <1>7 DEF PathTypes, configVars, reqVars
<1>10. OneOwner'
  BY <1>1, <1>2, OwnersGoOn DEF reqVars
<1>11. Prepared'
  BY <1>1, <1>2, <1>3 DEF Prepared, Occupied, reqVars
<1> QED
  BY <1>8, <1>9, <1>10, <1>11 DEF PinsInv

\* A transfer is refused after its StartDMA: the pin goes, nothing else.
LEMMA UnpinStep ==
  ASSUME PinsInv, pc = "pinned", EndDMA(Pin), NEW err, NEW actual, Answer(err, actual),
         UNCHANGED <<configVars, inflight, leak_dmaentry, issued, cq>>
  PROVE  PinsInv'
<1>1. /\ PathTypes /\ OneOwner /\ Prepared /\ PinsBalanced /\ NULL \notin Req
      /\ IsFiniteSet(pinned)
  BY TransferAssumption DEF PinsInv, PathTypes
<1>2. /\ cur' = NULL /\ pc' = "loop" /\ slot' = 1 /\ DOMAIN io' = DOMAIN io
      /\ UNCHANGED <<ask, port>>
  BY DEF Answer, ReplyMsg, Dispatched
<1>3. Direct' = Direct /\ \A s : PinOf(s)' = PinOf(s)
  BY DEF Direct, Occupied, PinOf
<1>4. /\ pinned = {PinOf(s) : s \in Direct} \cup {Pin}
      /\ leak_dma = Cardinality(pinned)
  BY <1>1 DEF PinsBalanced
<1>5. \A s \in Direct : PinOf(s) # Pin
  BY <1>1 DEF Direct, OneOwner, PinOf, Pin
<1>6. /\ IsFiniteSet(pinned') /\ leak_dma' = Cardinality(pinned')
      /\ pinned' = pinned \ {Pin}
  <2>1. Pin \in pinned
    BY <1>4
  <2> QED
    BY <1>1, <1>4, <2>1, PinEnds
<1>7. PinsBalanced'
  <2>1. leak_dmaentry' = Cardinality(pool') + Cardinality(Arrays')
    BY <1>1, <1>3 DEF PinsBalanced, Arrays, configVars
  <2>2. pinned' = {PinOf(s)' : s \in Direct'}
    BY <1>3, <1>4, <1>5, <1>6
  <2> QED
    BY <1>2, <1>6, <2>1, <2>2 DEF PinsBalanced, Arrays
<1>8. PathTypes'
  BY <1>1, <1>2, <1>6, FirstSlot DEF PathTypes, configVars
<1>9. OneOwner' /\ Prepared'
  BY <1>1, <1>2, OwnersDone DEF Prepared, PathTypes
<1> QED
  BY <1>7, <1>8, <1>9 DEF PinsInv

LEMMA DirectStep ==
  ASSUME PinsInv, SubmitDirect
  PROVE  PinsInv'
<1>1. PICK list \in DmaLists(io[cur]) :
        LET rest == DirectRest(list, io[cur])
        IN  IF Len(rest) > MaxPrp
            THEN /\ EndDMA(Pin)
                 /\ Answer("badlength", io[cur].actual)
                 /\ UNCHANGED <<inflight, leak_dmaentry, issued, cq>>
            ELSE /\ leak_dmaentry' = IF Pooled(list) THEN leak_dmaentry
                                                     ELSE leak_dmaentry + 1
                 /\ Issue(Phys(io[cur].data), rest, FALSE, ~Pooled(list))
                 /\ UNCHANGED <<reqVars, pinned, leak_dma>>
  BY DEF SubmitDirect
<1>2. pc = "pinned" /\ UNCHANGED configVars
  BY DEF SubmitDirect
<1> DEFINE rest == DirectRest(list, io[cur])
           own == ~Pooled(list)
           prp1 == Phys(io[cur].data)
<1>3. CASE Len(rest) > MaxPrp
  BY <1>1, <1>2, <1>3, UnpinStep
<1>4. CASE ~(Len(rest) > MaxPrp)
  <2>1. /\ Issue(prp1, rest, FALSE, own)
        /\ UNCHANGED <<reqVars, pinned, leak_dma>>
        /\ leak_dmaentry' = IF own THEN leak_dmaentry + 1 ELSE leak_dmaentry
    BY <1>1, <1>4
  <2> HIDE DEF rest, own, prp1
  <2> QED
    BY <1>2, <2>1, IssueStep
<1> QED
  BY <1>3, <1>4

LEMMA UnmapStep ==
  ASSUME PinsInv, Unmap
  PROVE  PinsInv'
<1>1. PathTypes /\ OneOwner /\ Prepared /\ NULL \notin Req
  BY TransferAssumption DEF PinsInv
<1> DEFINE k == FreeSlot
           i == [FreeInflight EXCEPT !.ioreq = cur, !.suppress = TRUE]
<1>2. /\ pc = "dispatch" /\ pc' = "poll" /\ Occupied # Slot /\ slot' = k
      /\ inflight' = [inflight EXCEPT ![k] = i]
      /\ \A c \in issued' : c \in issued \/ c.cid = k
      /\ UNCHANGED <<configVars, reqVars, cur, pinned, leak_dma, leak_dmaentry, cq>>
  BY DEF Unmap
<1>3. i.ioreq = cur /\ i.buf = NULL
  BY DEF FreeInflight
<1>4. k \in Slot \ Occupied
  BY <1>2, FreeSlotIsFree
<1>5. cur \in Req /\ cur # NULL
  BY <1>1, <1>2 DEF PathTypes
<1> HIDE DEF i, k
<1>6. /\ inflight'[k] = i /\ DOMAIN inflight' = Slot
      /\ \A t \in Slot : t # k => inflight'[t] = inflight[t]
  BY <1>1, <1>2, <1>4 DEF PathTypes
<1>7. PinsBalanced' /\ IsFiniteSet(pinned')
  <2>1. pc' # "pinned" /\ pc # "pinned" /\ UNCHANGED pool
    BY <1>2 DEF configVars
  <2> QED
    BY <1>2, <1>3, <1>4, <1>5, <2>1, Issued
<1>8. OneOwner'
  BY <1>1, <1>2, <1>3, <1>4, <1>5, <1>6, OwnersTake DEF reqVars
<1>9. PathTypes'
  BY <1>1, <1>2, <1>3, <1>4, <1>5, <1>6, <1>7 DEF PathTypes, configVars, reqVars
<1>10. Prepared'
  BY <1>2 DEF Prepared
<1> QED
  BY <1>7, <1>8, <1>9, <1>10 DEF PinsInv

LEMMA HarvestStep ==
  ASSUME PinsInv, Harvest
  PROVE  PinsInv'
<1>1. PathTypes /\ OneOwner /\ Prepared /\ NULL \notin Req
  BY TransferAssumption DEF PinsInv
<1> DEFINE k == Head(cq).cid
<1>2. /\ pc \in {"loop", "poll", "dispatch"} /\ cq # <<>> /\ cq' = Tail(cq)
      /\ UNCHANGED <<configVars, ask, port, taskVars, issued>>
  BY Zenon DEF Harvest
<1>3. k \in Slot /\ cq' \in Seq([cid : Slot, ok : BOOLEAN])
  <2> DEFINE Entry == [cid : Slot, ok : BOOLEAN]
  <2>1. cq \in Seq(Entry) /\ \A e \in Entry : e.cid \in Slot
    BY <1>1 DEF PathTypes
  <2> HIDE DEF Entry
  <2>2. Head(cq) \in Entry /\ Tail(cq) \in Seq(Entry)
    BY <1>2, <2>1
  <2> QED
    BY <1>2, <2>1, <2>2 DEF Entry
<1>4. CASE inflight[k].ioreq = NULL
  <2>1. UNCHANGED <<io, pathVars>>
    BY <1>4 DEF Harvest
  <2>2. PathTypes'
    BY <1>1, <1>2, <1>3, <2>1 DEF PathTypes, configVars, taskVars, pathVars
  <2>3. OneOwner' /\ Prepared'
    BY <1>1, <1>2, <2>1 DEF OneOwner, Prepared, Occupied, taskVars, pathVars
  <2>4. PinsBalanced'
    BY <1>2, <2>1, Quiet DEF SameSlots, configVars, taskVars
  <2> QED
    BY <2>2, <2>3, <2>4 DEF PinsInv
<1>5. CASE inflight[k].ioreq # NULL
  <2>1. /\ inflight' = [inflight EXCEPT ![k] = FreeInflight]
        /\ EndSlotDMA(k) /\ DOMAIN io' = DOMAIN io
    BY <1>5 DEF Harvest
  <2> HIDE DEF k
  <2>2. k \in Occupied
    BY <1>3, <1>5 DEF Occupied
  <2>3. PinsBalanced' /\ IsFiniteSet(pinned')
    BY <1>2, <2>1, <2>2, SlotReleased DEF configVars, taskVars
  <2>4. /\ DOMAIN inflight' = Slot
        /\ \A s \in Slot : inflight'[s].ioreq \in {NULL, inflight[s].ioreq}
    BY <1>1, <1>3, <2>1 DEF PathTypes, FreeInflight
  <2>5. OneOwner'
    BY <1>1, <1>2, <2>4, OwnersGoOn DEF taskVars
  <2>6. PathTypes'
    BY <1>1, <1>2, <1>3, <2>1, <2>3, <2>4 DEF PathTypes, configVars, taskVars
  <2>7. Prepared'
    BY <1>2 DEF Prepared, taskVars
  <2> QED
    BY <2>3, <2>5, <2>6, <2>7 DEF PinsInv
<1> QED
  BY <1>4, <1>5

LEMMA GiveUpStep ==
  ASSUME PinsInv, PollTimeout
  PROVE  PinsInv'
<1>1. PathTypes /\ OneOwner /\ Prepared /\ NULL \notin Req
  BY TransferAssumption DEF PinsInv
<1> DEFINE k == slot
<1>2. /\ pc = "poll" /\ inflight[k].ioreq # NULL /\ EndSlotDMA(k)
      /\ inflight' = [inflight EXCEPT ![k] = FreeInflight]
      /\ pc' = "loop" /\ cur' = NULL /\ slot' = 1 /\ DOMAIN io' = DOMAIN io
      /\ UNCHANGED <<configVars, ask, port, issued, cq>>
  BY DEF PollTimeout, Answer, ReplyMsg, Dispatched, devVars
<1>3. k \in Occupied /\ k \in Slot
  BY <1>1, <1>2 DEF Occupied, PathTypes
<1> HIDE DEF k
<1>4. PinsBalanced' /\ IsFiniteSet(pinned')
  BY <1>2, <1>3, SlotReleased DEF configVars
<1>5. /\ DOMAIN inflight' = Slot
      /\ \A s \in Slot : inflight'[s].ioreq \in {NULL, inflight[s].ioreq}
  BY <1>1, <1>2, <1>3 DEF PathTypes, FreeInflight
<1>6. PathTypes'
  BY <1>1, <1>2, <1>4, <1>5, FirstSlot DEF PathTypes, configVars
<1>7. OneOwner' /\ Prepared'
  BY <1>1, <1>2, <1>5, OwnersDone DEF Prepared
<1> QED
  BY <1>4, <1>6, <1>7 DEF PinsInv

-----------------------------------------------------------------------------
LEMMA PinsStart ==
  ASSUME Init
  PROVE  PinsInv
<1>1. /\ pinned = {} /\ leak_dma = 0 /\ leak_dmaentry = Cardinality(pool)
      /\ pool \in {Slot, {}} /\ port = {} /\ pc = "loop" /\ cur = NULL /\ slot = 1
      /\ DOMAIN ask = Req /\ DOMAIN io = Req /\ DOMAIN inflight = Slot
      /\ issued = {} /\ cq = <<>>
      /\ \A s \in Slot : inflight[s].ioreq = NULL
  BY DEF Init, FreeInflight
<1>2. Occupied = {} /\ Direct = {} /\ Arrays = {}
  BY <1>1 DEF Occupied, Direct, Arrays
<1>3. PathTypes
  <2>1. IsFiniteSet({}) /\ 1 \in Slot
    BY FirstSlot, FS_EmptySet
  <2> QED
    BY <1>1, <2>1 DEF PathTypes
<1>4. OneOwner /\ Prepared
  BY <1>1, <1>2 DEF OneOwner, Prepared
<1>5. PinsBalanced
  <2>1. Cardinality(pool) \in Nat
    BY <1>3, FiniteSlots DEF PathTypes
  <2> QED
    BY <1>1, <1>2, <2>1, FS_EmptySet DEF PinsBalanced, Arrays
<1> QED
  BY <1>3, <1>4, <1>5 DEF PinsInv

LEMMA PinsStep ==
  ASSUME PinsInv, [Next]_vars
  PROVE  PinsInv'
<1>0. PathTypes
  BY DEF PinsInv
<1>1. CASE UNCHANGED vars
  <2>1. PinsBalanced'
    BY <1>1, Quiet DEF SameSlots, Pin, vars, configVars, reqVars, taskVars
  <2> QED
    BY <1>1, <2>1 DEF PinsInv, PathTypes, OneOwner, Prepared, Occupied, vars,
       configVars, reqVars, taskVars, pathVars, devVars
<1>2. CASE Controller \/ \E r \in Req : BeginIO(r)
  BY <1>2, ControllerStep, ClientStep
<1>3. CASE (\E r \in Req : GetMsg(r)) \/ Dispatch \/ NextChunk
  BY <1>3, WayStep
<1>4. CASE Busy \/ Reject \/ StartDMARefused \/ UnmapRefused \/ PollDone
  <2>1. /\ pc \in {"dispatch", "submit", "poll"}
        /\ UNCHANGED <<configVars, pathVars, devVars>>
        /\ \E err, actual : Answer(err, actual)
    BY <1>4 DEF Busy, Reject, StartDMARefused, Accepts, UnmapRefused, PollDone
  <2>2. cur # NULL
    BY <1>0, <2>1 DEF PathTypes
  <2> QED
    BY <2>1, <2>2, AnswerStep
<1>5. CASE SubmitBounce
  <2>1. /\ pc = "submit"
        /\ Issue(BouncePhys(slot), BounceRest(slot, io[cur].length), TRUE, FALSE)
        /\ UNCHANGED <<configVars, reqVars, pinned, leak_dma, leak_dmaentry>>
    BY <1>5 DEF SubmitBounce, Accepts
  <2> QED
    BY <2>1, IssueStep
<1>6. CASE StartDMA \/ SubmitDirect
  BY <1>6, PinStep, DirectStep
<1>7. CASE AllocFails
  <2>1. /\ pc = "pinned" /\ EndDMA(Pin) /\ Answer("aborted", io[cur].actual)
        /\ UNCHANGED <<configVars, inflight, leak_dmaentry, issued, cq>>
    BY <1>7 DEF AllocFails, devVars
  <2> QED
    BY <2>1, UnpinStep
<1>8. CASE Unmap \/ Harvest \/ PollTimeout
  BY <1>8, UnmapStep, HarvestStep, GiveUpStep
<1> QED
  BY <1>1, <1>2, <1>3, <1>4, <1>5, <1>6, <1>7, <1>8 DEF Next, Task

(* Whatever StartDMA pins is remembered by one slot, or by the transfer in *)
(* preparation, and by nothing else, at every step of the data path.       *)
THEOREM PinsInvariant == Spec => []PinsInv
<1>1. Init => PinsInv
  BY PinsStart
<1>2. PinsInv /\ [Next]_vars => PinsInv'
  BY PinsStep
<1> QED
  BY <1>1, <1>2, PTL DEF Spec

(* On every way out of a transfer its pin and its array are given back     *)
(* once, and the leak counters say so (nvme_io.c:311-341, 440-450,         *)
(* 790-804): refusals, arrays that cannot be allocated, completions in any *)
(* order, late ones included, and polls that give up.                      *)
THEOREM EveryPinReleased == Spec => []PinsBalanced
<1>1. PinsInv => PinsBalanced
  BY DEF PinsInv
<1> QED
  BY <1>1, PinsInvariant, PTL

-----------------------------------------------------------------------------
(* Pages and PRP entries.                                                  *)

\* The sizes of the instance as the lemmas below need them.
LEMMA Sizes ==
  /\ PageSize \in Nat \ {0} /\ HostPage \in Nat \ {0} /\ UserSize \in Nat
  /\ Cardinality(DOMAIN Frame) \in Nat
  /\ HostPage = (HostPage \div PageSize) * PageSize /\ HostPage \div PageSize \in Int
<1>1. PageSize \in Nat \ {0} /\ HostPage \in Nat \ {0}
  BY TransferAssumption
<1>2. Cardinality(DOMAIN Frame) \in Nat
  BY MemoryAssumption, FS_CardinalityType
<1>3. UserSize \in Nat
  BY <1>1, <1>2 DEF UserSize
<1>4. HostPage \div PageSize \in Int /\ HostPage = (HostPage \div PageSize) * PageSize
  BY <1>1, MemoryAssumption, Quotient
<1> QED
  BY <1>1, <1>2, <1>3, <1>4

\* Every cell of a buffer is in a frame.
LEMMA FrameIs ==
  ASSUME NEW v \in Nat, v < UserSize
  PROVE  /\ Frame[v \div HostPage] \in Nat
         /\ v \div HostPage \in Nat /\ v % HostPage \in 0 .. HostPage - 1
         /\ (v \div HostPage) * HostPage = v - (v % HostPage)
<1> DEFINE H == HostPage
           q == v \div H
           c == Cardinality(DOMAIN Frame)
<1>1. H \in Nat \ {0} /\ c \in Nat /\ v < c * H
  BY Sizes DEF UserSize
<1>2. q \in Nat /\ q * H = v - (v % H) /\ v % H \in 0 .. H - 1
  <2>1. v \in Int /\ v >= 0
    OBVIOUS
  <2>2. /\ q \in Int /\ v % H \in 0 .. H - 1
        /\ q * H = v - (v % H) /\ (v >= 0 => q >= 0)
    BY <1>1, <2>1, Quotient
  <2> HIDE DEF q, H
  <2> QED
    BY <1>1, <2>1, <2>2
<1> HIDE DEF q, H, c
<1>3. q < c
  <2>1. q * H < c * H
    BY <1>1, <1>2
  <2> QED
    BY <1>1, <1>2, <2>1, Smaller
<1>4. Frame[q] \in Nat
  BY <1>1, <1>2, <1>3, MemoryAssumption DEF c
<1> QED
  BY <1>2, <1>4 DEF q, H

\* A frame moves a cell by whole pages.
LEMMA PhysMovesPages ==
  ASSUME NEW v \in Nat, v < UserSize
  PROVE  \E n \in Int : Phys(v) = v + n * PageSize
<1> DEFINE H == HostPage
           m == H \div PageSize
           q == v \div H
           F == Frame[q]
<1>1. H \in Nat \ {0} /\ m \in Int /\ H = m * PageSize /\ PageSize \in Nat
  BY Sizes
<1>2. q \in Nat /\ q * H = v - (v % H) /\ v % H \in Nat
  BY FrameIs
<1>4. F \in Nat
  BY FrameIs
<1>5. Phys(v) = F * H + (v % H)
  BY DEF Phys
<1> HIDE DEF F, q, H, m
<1>6. Phys(v) = v + (F - q) * H
  BY <1>1, <1>2, <1>4, <1>5, Distribute
<1>7. (F - q) * H = ((F - q) * m) * PageSize /\ (F - q) * m \in Int
  BY <1>1, <1>2, <1>4
<1> QED
  BY <1>6, <1>7

\* PRP1 reaches to the end of the page that the buffer starts in.
LEMMA FirstIs ==
  ASSUME NEW v \in Nat, v < UserSize
  PROVE  /\ FirstBytes(Phys(v)) \in 1 .. PageSize
         /\ \E n \in Int : v + FirstBytes(Phys(v)) = n * PageSize
<1> DEFINE P == PageSize
           a == v \div P
           r == v % P
<1>1. P \in Nat \ {0}
  BY Sizes
<1>2. a \in Int /\ r \in 0 .. P - 1 /\ a * P = v - r
  BY <1>1, Quotient
<1>3. PICK n \in Int : Phys(v) = v + n * P
  BY PhysMovesPages
<1> HIDE DEF a, r, P
<1>4. Phys(v) = (a + n) * P + r /\ a + n \in Int
  BY <1>1, <1>2, <1>3, Distribute
<1>5. Phys(v) % P = r
  BY <1>1, <1>2, <1>4, Remainder
<1>6. FirstBytes(Phys(v)) = P - r
  BY <1>5 DEF FirstBytes, P
<1>7. v + FirstBytes(Phys(v)) = (a + 1) * P /\ a + 1 \in Int
  BY <1>1, <1>2, <1>6, Distribute
<1>8. FirstBytes(Phys(v)) \in 1 .. P
  BY <1>1, <1>2, <1>6
<1> QED
  BY <1>7, <1>8 DEF P

\* EntryOf is the last entry that starts at p or before it.
LEMMA EntryIs ==
  ASSUME NEW list \in SUBSET Nat, 0 \in list, NEW p \in Nat
  PROVE  /\ EntryOf(list, p) \in list /\ EntryOf(list, p) <= p
         /\ \A h \in list : h <= p => h <= EntryOf(list, p)
<1> DEFINE D == {p - g : g \in {g \in list : g <= p}}
<1>1. D \subseteq Nat /\ D # {}
  <2>1. p - 0 \in D
    OBVIOUS
  <2>2. \A g \in list : g <= p => p - g \in Nat
    OBVIOUS
  <2> QED
    BY <2>1, <2>2
<1>2. PICK d \in D : \A t \in D : d <= t
  BY <1>1, LeastOf
<1>3. PICK g \in list : g <= p /\ d = p - g
  BY <1>2
<1>4. \A h \in list : h <= p => h <= g
  BY <1>2, <1>3
<1> QED
  BY <1>3, <1>4 DEF EntryOf

\* exec begins an entry at the start of the buffer or of a page.
LEMMA ListStarts ==
  ASSUME NEW f, f.data \in Nat, f.length \in Nat, NEW list \in DmaLists(f)
  PROVE  /\ list \in SUBSET Nat /\ 0 \in list
         /\ \A g \in list : g = 0 \/ (f.data + g) % HostPage = 0
  BY DEF DmaLists

\* The walk starts each step at the start of a page.
LEMMA StartAligned ==
  ASSUME NEW f, f.data \in Nat, f.length \in Nat, f.data < UserSize,
         NEW list \in DmaLists(f),
         NEW p \in FirstBytes(Phys(f.data)) .. f.length - 1
  PROVE  /\ Start(list, p, FirstBytes(Phys(f.data))) <= p
         /\ \E b \in Nat : Start(list, p, FirstBytes(Phys(f.data)))
                             = FirstBytes(Phys(f.data)) + b * PageSize
<1> DEFINE first == FirstBytes(Phys(f.data))
           P == PageSize
           e == EntryOf(list, p)
           start == Start(list, p, first)
<1>1. P \in Nat \ {0} /\ first \in 1 .. P
  BY FirstIs, Sizes
<1>2. p \in first .. f.length - 1
  OBVIOUS
<1>3. e \in list /\ e \in Nat /\ e <= p
  BY <1>1, <1>2, ListStarts, EntryIs
<1>4. start = IF e < first THEN first ELSE e
  BY DEF Start
<1>5. \E b \in Nat : start = first + b * P
  <2>1. CASE e < first
    <3>1. start = first + 0 * P
      BY <1>1, <1>4, <2>1
    <3> QED
      BY <3>1
  <2>2. CASE e >= first
    <3>1. e # 0 /\ (f.data + e) % HostPage = 0
      BY <1>1, <1>3, <2>2, ListStarts
    <3>2. PICK n \in Int : f.data + first = n * P
      BY FirstIs
    <3> DEFINE h == (f.data + e) \div HostPage
               m == HostPage \div P
    <3>3. /\ h \in Int /\ h * HostPage = f.data + e
          /\ m \in Int /\ HostPage = m * P /\ HostPage \in Nat \ {0}
      <4>1. f.data + e \in Int /\ HostPage \in Nat \ {0}
        BY <1>3, Sizes
      <4>2. h \in Int /\ h * HostPage = (f.data + e) - ((f.data + e) % HostPage)
        BY <4>1, Quotient
      <4> QED
        BY <3>1, <4>1, <4>2, Sizes
    <3> HIDE DEF h, m, P, first, e, start
    <3>4. f.data + e = (h * m) * P /\ h * m \in Int
      BY <1>1, <3>3
    <3> DEFINE w == h * m
    <3>5. w \in Int /\ f.data + e = w * P
      BY <3>4
    <3> HIDE DEF w
    <3>6. e - first = (w - n) * P
      BY <1>1, <1>3, <3>2, <3>5, Distribute
    <3>7. w - n >= 0
      <4>1. (-1) * P < (w - n) * P
        BY <1>1, <1>3, <2>2, <3>6
      <4>2. -1 < w - n
        BY <1>1, <3>2, <3>5, <4>1, Smaller
      <4> QED
        BY <3>2, <3>5, <4>2
    <3> QED
      BY <1>1, <1>3, <1>4, <2>2, <3>2, <3>5, <3>6, <3>7
  <2> QED
    BY <1>1, <1>3, <2>1, <2>2
<1>6. start <= p
  <2> HIDE DEF first, e, start
  <2> QED
    BY <1>1, <1>2, <1>3, <1>4
<1> QED
  BY <1>5, <1>6

(* However exec cuts the buffer, the PRP entries after the first are at    *)
(* the starts of its pages, each once.                                     *)
LEMMA ScanIs ==
  ASSUME NEW f, f.data \in Nat, f.length \in Nat, f.data < UserSize,
         NEW list \in DmaLists(f)
  PROVE  Scan(list, f) = {p \in Nat : p < f.length /\
           \E k \in Nat : p = FirstBytes(Phys(f.data)) + k * PageSize}
<1> DEFINE first == FirstBytes(Phys(f.data))
           P == PageSize
<1>1. P \in Nat \ {0} /\ first \in 1 .. P
  BY FirstIs, Sizes
<1>2. \A k \in Nat : k * P \in Nat
  BY <1>1
<1>3. ASSUME NEW p \in first .. f.length - 1
      PROVE  (p - Start(list, p, first)) % P = 0 <=> \E k \in Nat : p = first + k * P
  <2> DEFINE start == Start(list, p, first)
             j == (p - start) \div P
  <2>1. PICK b \in Nat : start = first + b * P
    BY StartAligned
  <2>2. start <= p
    BY StartAligned
  <2> HIDE DEF first, start, P
  <2>3. start \in Int /\ p \in Int /\ p - start >= 0 /\ p - start \in Int
    BY <1>1, <1>2, <2>1, <2>2
  <2>4. ASSUME (p - start) % P = 0
        PROVE  \E k \in Nat : p = first + k * P
    <3>1. /\ j \in Int /\ j * P = (p - start) - ((p - start) % P)
          /\ (p - start >= 0 => j >= 0)
      BY <1>1, <2>3, Quotient
    <3> HIDE DEF j
    <3>2. p = first + (b + j) * P /\ b + j \in Nat
      BY <1>1, <2>1, <2>3, <2>4, <3>1, Distribute
    <3> QED
      BY <3>2
  <2>5. ASSUME NEW k \in Nat, p = first + k * P
        PROVE  (p - start) % P = 0
    <3> DEFINE z == k - b
               y == p - start
    <3>1. z \in Int /\ y \in Int /\ y = z * P + 0 /\ 0 \in 0 .. P - 1
      BY <1>1, <2>1, <2>3, <2>5, Distribute
    <3> HIDE DEF z, y
    <3>2. y % P = 0
      BY <1>1, <3>1, Remainder
    <3> QED
      BY <3>2 DEF y
  <2> QED
    BY <2>4, <2>5 DEF start
<1>4. \A p \in Nat : \A k \in Nat : p = first + k * P => p >= first
  <2> HIDE DEF first, P
  <2> QED
    BY <1>1, <1>2
<1>5. Scan(list, f) = {p \in first .. f.length - 1 : \E k \in Nat : p = first + k * P}
  BY <1>3 DEF Scan
<1> DEFINE At(p) == \E k \in Nat : p = first + k * P
<1>6. \A p : p \in first .. f.length - 1 /\ At(p) <=> p \in Nat /\ p < f.length /\ At(p)
  <2>1. \A p \in Nat : At(p) => p >= first
    BY <1>4
  <2> HIDE DEF At, first, P
  <2> QED
    BY <1>1, <2>1
<1>7. Scan(list, f) = {p \in first .. f.length - 1 : At(p)}
  BY <1>5
<1>8. Scan(list, f) = {p \in Nat : p < f.length /\ At(p)}
  <2> HIDE DEF At, first, P
  <2> QED
    BY <1>6, <1>7
<1> QED
  BY <1>8

LEMMA ScanAligned ==
  ASSUME NEW f, f.data \in Nat, f.length \in Nat, f.data < UserSize,
         NEW list \in DmaLists(f), NEW p \in Scan(list, f)
  PROVE  \E k \in Nat : p = FirstBytes(Phys(f.data)) + k * PageSize
  BY ScanIs

(* One list page names all of a transfer that is within the cap.           *)
LEMMA ScanFits ==
  ASSUME NEW f, f.data \in Nat, f.length \in Nat, f.data < UserSize,
         f.length <= SanityCap, NEW list \in DmaLists(f)
  PROVE  /\ Cardinality(Scan(list, f)) <= MaxPrp
         /\ Cardinality(Scan(list, f)) \in Nat
<1> DEFINE first == FirstBytes(Phys(f.data))
           S == Scan(list, f)
           at(k) == first + (k - 1) * PageSize
           K == {k \in 1 .. MaxPrp : at(k) \in S}
           g == [k \in K |-> at(k)]
<1>1. /\ PageSize \in Nat \ {0} /\ first \in 1 .. PageSize
      /\ MaxPrp \in Nat \ {0} /\ SanityCap \in Nat /\ SanityCap <= MaxPrp * PageSize
  BY FirstIs, Sizes, TransferAssumption, MemoryAssumption
<1>2. \A p \in S : \E k \in K : p = at(k)
  <2> SUFFICES ASSUME NEW p \in S
               PROVE  \E k \in K : p = at(k)
    OBVIOUS
  <2>1. PICK k \in Nat : p = first + k * PageSize
    BY ScanAligned
  <2>2. p < f.length /\ p \in Int
    <3>1. p \in first .. f.length - 1
      BY DEF Scan
    <3> HIDE DEF first
    <3> QED
      BY <1>1, <3>1
  <2> HIDE DEF first, S
  <2>3. k * PageSize < MaxPrp * PageSize
    <3>1. k * PageSize \in Int /\ MaxPrp * PageSize \in Int
      BY <1>1, Distribute
    <3> QED
      BY <1>1, <2>1, <2>2, <3>1
  <2>4. k < MaxPrp
    BY <1>1, <2>3, Smaller
  <2>5. k + 1 \in 1 .. MaxPrp /\ p = at(k + 1)
    BY <1>1, <2>1, <2>4
  <2> QED
    BY <2>5
<1>3. K \subseteq 1 .. MaxPrp /\ IsFiniteSet(1 .. MaxPrp)
      /\ Cardinality(1 .. MaxPrp) = MaxPrp
  <2>1. 1 \in Int /\ MaxPrp \in Int /\ ~(1 > MaxPrp) /\ MaxPrp - 1 + 1 = MaxPrp
    BY <1>1
  <2> QED
    BY <2>1, FS_Interval
<1> HIDE DEF first, S, at
<1>4. g \in Surjection(K, S)
  BY <1>2 DEF Surjection
<1>5. IsFiniteSet(K) /\ Cardinality(K) <= MaxPrp /\ Cardinality(K) \in Nat
  BY <1>3, FS_Subset, FS_CardinalityType
<1> HIDE DEF K, g
<1>6. IsFiniteSet(S) /\ Cardinality(S) <= Cardinality(K)
  BY <1>4, <1>5, FS_Surjection
<1>7. Cardinality(S) \in Nat
  BY <1>6, FS_CardinalityType
<1> QED
  BY <1>1, <1>5, <1>6, <1>7 DEF S

-----------------------------------------------------------------------------
(* The fields of a request on its way.                                     *)

\* What the owner of a request may have put in it.
LEMMA ShapeTypes ==
  ASSUME NEW r \in Req, NEW a \in Shapes[r]
  PROVE  /\ a.offset \in Nat /\ a.actual \in Nat /\ a.length \in Nat
         /\ InMemory(Fields(a)) /\ a # NULL
<1>1. /\ a \in [cmd : {"READ", "WRITE", "READ64", "WRITE64", "FORMAT64", "UNMAP"},
                offset : 0 .. Word - 1, actual : Nat, length : 0 .. Word - 1,
                data : Nat \cup {NULL}, ranges : Seq(Seq(Nat))]
      /\ Word \in Nat /\ a # NULL
  BY TransferAssumption
<1>2. /\ a.offset \in Nat /\ a.actual \in Nat /\ a.length \in Nat
      /\ a.data # NULL => a.data \in Nat
  BY <1>1
<1>3. a.data # NULL => a.data + a.length <= UserSize
  BY MemoryAssumption DEF UserSize
<1> QED
  BY <1>1, <1>2, <1>3 DEF InMemory, Fields

\* Dispatch has nothing in hand when the step is over.
LEMMA FieldsDone ==
  ASSUME PinsInv, FieldsInv, UNCHANGED <<max_transfer, ask, port>>, pc' = "loop",
         done' \in Nat, \A r \in port : io'[r] = io[r]
  PROVE  FieldsInv'
  BY DEF FieldsInv

\* Dispatch goes on, and the request in hand keeps its fields.
LEMMA FieldsGoOn ==
  ASSUME PinsInv, FieldsInv, UNCHANGED <<max_transfer, ask, port, pc, cur, done>>,
         \A r \in port : io'[r] = io[r],
         pc # "loop" => \/ io'[cur] = io[cur]
                        \/ /\ pc = "poll"
                           /\ io'[cur].length = io[cur].length
                           /\ io'[cur].data = io[cur].data
  PROVE  FieldsInv'
<1>1. Split(cur)' = Split(cur)
  BY DEF Split
<1> QED
  BY <1>1 DEF FieldsInv, InMemory, UserSize

\* A command has been made from the request in hand, or is under way.
LEMMA FieldsCommand ==
  ASSUME PinsInv, FieldsInv, UNCHANGED <<max_transfer, reqVars>>,
         pc \in {"dispatch", "submit", "pinned"},
         \/ pc' = "loop" /\ done' = 0
         \/ pc' = "poll" /\ UNCHANGED <<cur, done>>
         \/ /\ pc = "submit" /\ pc' = "pinned" /\ io[cur].length # 0
            /\ io[cur].length % BlockSize = 0 /\ UNCHANGED <<cur, done>>
  PROVE  FieldsInv'
  BY DEF FieldsInv, InMemory, UserSize, reqVars

LEMMA FieldsClient ==
  ASSUME PinsInv, FieldsInv, NEW r \in Req, BeginIO(r)
  PROVE  FieldsInv'
<1>1. PathTypes /\ OneOwner /\ NULL \notin Req
  BY TransferAssumption DEF PinsInv
<1>2. /\ ask[r] = NULL /\ port' = port \cup {r}
      /\ UNCHANGED <<max_transfer, pc, cur, done>>
  BY DEF BeginIO, configVars, taskVars
<1>3. PICK a \in Shapes[r] : /\ ask' = [ask EXCEPT ![r] = a]
                            /\ io' = [io EXCEPT ![r] = Fields(a)]
  BY DEF BeginIO
<1>4. /\ ask'[r] = a /\ io'[r] = Fields(a)
      /\ \A q \in Req : q # r => ask'[q] = ask[q] /\ io'[q] = io[q]
  BY <1>1, <1>3 DEF PathTypes
<1>5. pc # "loop" => cur \in Req /\ cur # r
  BY <1>1, <1>2 DEF OneOwner, PathTypes
<1>6. pc # "loop" => /\ ask'[cur] = ask[cur] /\ io'[cur] = io[cur]
                     /\ Split(cur)' = Split(cur)
  BY <1>2, <1>4, <1>5 DEF Split
<1>7. \A q \in port' : io'[q] = Fields(ask'[q])
  BY <1>1, <1>2, <1>4 DEF FieldsInv, PathTypes
<1>8. \A q \in Req : ask'[q] \in Shapes[q] \cup {NULL}
  BY <1>4 DEF FieldsInv
<1> QED
  BY <1>2, <1>6, <1>7, <1>8 DEF FieldsInv, InMemory, UserSize

LEMMA FieldsGetMsg ==
  ASSUME PinsInv, FieldsInv, NEW r \in Req, GetMsg(r)
  PROVE  FieldsInv'
<1>1. PathTypes /\ OneOwner /\ NULL \notin Req
  BY TransferAssumption DEF PinsInv
<1>2. /\ r \in port /\ port' = port \ {r} /\ cur' = r /\ done' = 0
      /\ pc' = "dispatch" /\ UNCHANGED <<max_transfer, ask, io>>
  BY DEF GetMsg, configVars
<1>3. ask[r] \in Shapes[r] /\ io[r] = Fields(ask[r])
  BY <1>1, <1>2 DEF OneOwner, FieldsInv
<1>4. InMemory(io[r]) /\ ask[r].length \in Nat
  BY <1>3, ShapeTypes
<1>5. Split(cur)' = Split(r) /\ InMemory(io[cur])' /\ (Split(r) => 0 < ask[r].length)
  BY <1>2, <1>4 DEF Split, InMemory, UserSize, FieldsInv
<1> QED
  BY <1>2, <1>3, <1>5 DEF FieldsInv

\* A chunk is within the limit and within the memory of its request.
LEMMA FieldsDispatch ==
  ASSUME PinsInv, FieldsInv, Dispatch
  PROVE  FieldsInv'
<1>1. PathTypes /\ OneOwner /\ NULL \notin Req
  BY TransferAssumption DEF PinsInv
<1>2. /\ pc = "dispatch" /\ pc' = "submit" /\ ask[cur].cmd # "UNMAP"
      /\ io' = [io EXCEPT ![cur] = Chunk(cur)]
      /\ UNCHANGED <<max_transfer, ask, port, cur, done>>
  BY DEF Dispatch, configVars
<1>3. /\ cur \in Req /\ cur \notin port /\ ask[cur] \in Shapes[cur]
      /\ max_transfer \in Nat /\ done \in Nat /\ UserSize \in Nat
  <2>1. cur \in Req /\ cur \notin port /\ ask[cur] \in Shapes[cur] /\ done \in Nat
    BY <1>1, <1>2 DEF PathTypes, OneOwner, FieldsInv
  <2>2. max_transfer \in Nat /\ UserSize \in Nat
    BY Sizes, TransferAssumption DEF FieldsInv
  <2> QED
    BY <2>1, <2>2
<1>4. io'[cur] = Chunk(cur) /\ \A r \in port : io'[r] = io[r]
  <2>1. DOMAIN io = Req /\ port \subseteq Req
    BY <1>1 DEF PathTypes
  <2> QED
    BY <1>2, <1>3, <2>1
<1> DEFINE a == ask[cur]
<1>5. /\ a.length \in Nat
      /\ a.data # NULL => a.data \in Nat /\ a.data + a.length <= UserSize
  BY <1>3, ShapeTypes DEF InMemory, Fields
<1>6. InMemory(Chunk(cur)) /\ Chunk(cur).length <= max_transfer
  <2>1. CASE Split(cur)
    <3>1. done < a.length
      BY <1>2, <2>1 DEF FieldsInv
    <3>2. /\ Chunk(cur).length = IF a.length - done > max_transfer
                                 THEN max_transfer ELSE a.length - done
          /\ Chunk(cur).data = IF a.data = NULL THEN NULL ELSE a.data + done
      BY <2>1 DEF Chunk
    <3> HIDE DEF a
    <3>3. Chunk(cur).length \in Nat /\ Chunk(cur).length <= max_transfer
          /\ Chunk(cur).length <= a.length - done
      BY <1>3, <1>5, <3>1, <3>2
    <3> QED
      BY <1>3, <1>5, <3>2, <3>3 DEF InMemory
  <2>2. CASE ~Split(cur)
    <3>1. Chunk(cur) = io[cur] /\ io[cur] = Fields(a) /\ InMemory(io[cur])
      BY <1>2, <2>2 DEF Chunk, FieldsInv
    <3>2. a.length <= max_transfer /\ Fields(a).length = a.length
      BY <1>2, <1>3, <1>5, <2>2 DEF Split, Fields
    <3> QED
      BY <3>1, <3>2
  <2> QED
    BY <2>1, <2>2
<1>7. InMemory(io[cur])' /\ io'[cur].length <= max_transfer
  BY <1>2, <1>4, <1>6 DEF InMemory, UserSize
<1> QED
  BY <1>2, <1>4, <1>7 DEF FieldsInv

\* The next chunk begins before the end of the request.
LEMMA FieldsNextChunk ==
  ASSUME PinsInv, FieldsInv, NextChunk
  PROVE  FieldsInv'
<1>1. /\ pc = "poll" /\ pc' = "dispatch" /\ Split(cur)
      /\ done + io[cur].length < ask[cur].length /\ done' = done + io[cur].length
      /\ UNCHANGED <<max_transfer, ask, io, port, cur>>
  BY DEF NextChunk, configVars, reqVars
<1>2. io[cur].length \in Nat /\ done \in Nat /\ InMemory(io[cur])
  BY <1>1 DEF FieldsInv, InMemory
<1>3. Split(cur)' = Split(cur) /\ InMemory(io[cur])' /\ done' \in Nat
  BY <1>1, <1>2 DEF Split, InMemory, UserSize
<1> QED
  BY <1>1, <1>3 DEF FieldsInv

\* A completion leaves length and data of the request in dispatch alone.
LEMMA FieldsHarvest ==
  ASSUME PinsInv, FieldsInv, Harvest
  PROVE  FieldsInv'
<1>1. PathTypes /\ OneOwner /\ NULL \notin Req
  BY TransferAssumption DEF PinsInv
<1>2. UNCHANGED <<max_transfer, ask, port, pc, cur, done>>
  BY DEF Harvest, configVars, taskVars
<1> DEFINE k == Head(cq).cid
           r == inflight[k].ioreq
<1>3. k \in Slot
  <2> DEFINE Entry == [cid : Slot, ok : BOOLEAN]
  <2>1. cq # <<>> /\ cq \in Seq(Entry) /\ \A e \in Entry : e.cid \in Slot
    BY <1>1 DEF Harvest, PathTypes
  <2> HIDE DEF Entry
  <2> QED
    BY <2>1
<1>4. CASE r = NULL
  BY <1>2, <1>4, FieldsGoOn DEF Harvest
<1>5. CASE r # NULL
  <2>1. io' = [io EXCEPT ![r].actual = IF Head(cq).ok THEN io[r].length ELSE 0]
    BY <1>5 DEF Harvest
  <2> HIDE DEF k
  <2>2. k \in Occupied
    BY <1>3, <1>5 DEF Occupied
  <2>3. r \notin port /\ (r = cur => pc = "poll") /\ r \in Req
    BY <1>1, <1>3, <1>5, <2>2 DEF OneOwner, PathTypes
  <2> HIDE DEF r
  <2>4. \A q \in Req : /\ q # r => io'[q] = io[q]
                       /\ io'[q].length = io[q].length /\ io'[q].data = io[q].data
    BY <1>1, <2>1 DEF PathTypes
  <2> QED
    BY <1>1, <1>2, <2>3, <2>4, FieldsGoOn DEF PathTypes
<1> QED
  BY <1>4, <1>5

\* Every reply of dispatch.
LEMMA FieldsAnswer ==
  ASSUME PinsInv, FieldsInv, cur # NULL, NEW err, NEW actual, Answer(err, actual),
         UNCHANGED configVars
  PROVE  FieldsInv'
<1>1. cur \in Req /\ cur \notin port /\ DOMAIN io = Req /\ port \subseteq Req
  BY DEF PinsInv, PathTypes, OneOwner
<1>2. /\ pc' = "loop" /\ done' = 0
      /\ UNCHANGED <<max_transfer, ask, port>>
      /\ \E f : io' = [io EXCEPT ![cur] = f]
  BY DEF Answer, ReplyMsg, Dispatched, configVars
<1>3. \A r \in port : io'[r] = io[r]
  BY <1>1, <1>2
<1> QED
  BY <1>2, <1>3, FieldsDone

LEMMA FieldsStart ==
  ASSUME Init
  PROVE  FieldsInv
<1>1. PICK mdts \in Mdts : max_transfer = MaxTransferBytes(mdts)
  BY DEF Init
<1>2. max_transfer \in 0 .. SanityCap
  <2>1. /\ SanityCap \in Nat /\ Word \in Nat \ {0} /\ PageSize \in Nat /\ mdts \in Nat
    BY TransferAssumption
  <2>2. CASE mdts = 0 \/ MdtsBytes(mdts) >= SanityCap
    BY <1>1, <2>1, <2>2 DEF MaxTransferBytes
  <2>3. CASE ~(mdts = 0 \/ MdtsBytes(mdts) >= SanityCap)
    <3>1. MdtsBytes(mdts) \in Nat
      <4>1. 2^mdts * PageSize \in Int
        BY <2>1
      <4>2. MdtsBytes(mdts) \in 0 .. Word - 1
        BY <2>1, <4>1, Quotient DEF MdtsBytes
      <4> QED
        BY <2>1, <4>2
    <3> QED
      BY <1>1, <2>1, <2>3, <3>1 DEF MaxTransferBytes
  <2> QED
    BY <2>2, <2>3
<1>3. /\ ask = [r \in Req |-> NULL] /\ port = {} /\ pc = "loop" /\ done = 0
  BY DEF Init
<1> QED
  BY <1>2, <1>3 DEF FieldsInv

LEMMA FieldsStep ==
  ASSUME PinsInv, FieldsInv, [Next]_vars
  PROVE  FieldsInv'
<1>0. pc # "loop" => cur # NULL
  BY DEF PinsInv, PathTypes
<1>1. CASE UNCHANGED vars
  BY <1>1, FieldsGoOn DEF vars, configVars, reqVars, taskVars
<1>2. CASE Controller
  <2>1. UNCHANGED <<configVars, reqVars, taskVars>>
    BY <1>2 DEF Controller, Read, Write, Discard, Fail, Post
  <2> QED
    BY <2>1, FieldsGoOn DEF configVars, reqVars, taskVars
<1>3. CASE (\E r \in Req : BeginIO(r)) \/ (\E r \in Req : GetMsg(r))
  BY <1>3, FieldsClient, FieldsGetMsg
<1>4. CASE Dispatch \/ NextChunk \/ Harvest
  BY <1>4, FieldsDispatch, FieldsNextChunk, FieldsHarvest
<1>5. CASE \/ Busy \/ Reject \/ StartDMARefused \/ AllocFails \/ UnmapRefused
           \/ PollDone \/ PollTimeout
  <2>1. /\ pc # "loop" /\ UNCHANGED configVars
        /\ \E err, actual : Answer(err, actual)
    BY <1>5 DEF Busy, Reject, StartDMARefused, Accepts, AllocFails, UnmapRefused,
       PollDone, PollTimeout
  <2> QED
    BY <1>0, <2>1, FieldsAnswer
<1>6. CASE SubmitBounce \/ SubmitDirect
  <2>1. /\ pc \in {"submit", "pinned"} /\ UNCHANGED configVars
        /\ \/ \E err, actual : Answer(err, actual)
           \/ /\ UNCHANGED reqVars
              /\ \E prp1, rest, bounce, own : Issue(prp1, rest, bounce, own)
    BY <1>6 DEF SubmitBounce, SubmitDirect, Accepts
  <2>2. CASE \E err, actual : Answer(err, actual)
    BY <1>0, <2>1, <2>2, FieldsAnswer
  <2>3. CASE UNCHANGED reqVars /\ \E prp1, rest, bounce, own : Issue(prp1, rest, bounce, own)
    <3>1. \/ pc' = "loop" /\ done' = 0
          \/ pc' = "poll" /\ UNCHANGED <<cur, done>>
      BY <2>3 DEF Issue, Dispatched
    <3> QED
      BY <2>1, <2>3, <3>1, FieldsCommand DEF configVars
  <2> QED
    BY <2>1, <2>2, <2>3
<1>7. CASE StartDMA \/ Unmap
  <2>1. /\ UNCHANGED <<configVars, reqVars, cur, done>>
        /\ \/ /\ pc = "submit" /\ pc' = "pinned"
              /\ io[cur].length # 0 /\ io[cur].length % BlockSize = 0
           \/ pc = "dispatch" /\ pc' = "poll"
    BY <1>7 DEF StartDMA, Accepts, WrongLength, Unmap
  <2> QED
    BY <2>1, FieldsCommand DEF configVars
<1> QED
  BY <1>1, <1>2, <1>3, <1>4, <1>5, <1>6, <1>7 DEF Next, Task

(* A request reaches dispatch with the fields its owner gave it, and no    *)
(* command made from it is longer than the controller's limit or leaves    *)
(* the request's memory, however many chunks it is cut into and whatever   *)
(* completes meanwhile (dispatch_rw, unit_task.c).                         *)
THEOREM FieldsInvariant == Spec => []FieldsInv
<1>1. Init => FieldsInv
  BY FieldsStart
<1>2. PinsInv /\ FieldsInv /\ [Next]_vars => FieldsInv'
  BY FieldsStep
<1> QED
  BY <1>1, <1>2, PinsInvariant, PTL DEF Spec

(* The overflow branch of the walk over the DMA entries (nvme_io.c:436) is *)
(* never taken: with the cap on max_transfer_bytes one PRP list page names *)
(* every transfer, however exec cuts its buffer.                           *)
THEOREM OneListPageIsEnough == Spec => []ListFits
<1>1. PinsInv /\ FieldsInv => ListFits
  <2> SUFFICES ASSUME PinsInv, FieldsInv, pc = "pinned", NEW list \in DmaLists(io[cur])
               PROVE  Cardinality(Scan(list, io[cur])) <= MaxPrp
    BY DEF ListFits
  <2> DEFINE f == io[cur]
  <2>1. /\ f.data # NULL /\ InMemory(f) /\ f.length # 0 /\ f.length <= max_transfer
        /\ max_transfer \in 0 .. SanityCap
    BY DEF PinsInv, Prepared, FieldsInv
  <2> HIDE DEF f
  <2>2. SanityCap \in Nat /\ UserSize \in Nat
    BY Sizes, TransferAssumption
  <2>3. /\ f.data \in Nat /\ f.length \in Nat /\ f.data < UserSize
        /\ f.length <= SanityCap
    BY <2>1, <2>2 DEF InMemory
  <2> QED
    BY <2>3, ScanFits DEF f
<1> QED
  BY <1>1, PinsInvariant, FieldsInvariant, PTL

-----------------------------------------------------------------------------
(* Cells within a page, and the cells an entry of exec's list covers.      *)

\* Quotient and remainder are the only ones.
LEMMA QuotientIs ==
  ASSUME NEW q \in Int, NEW d \in Nat \ {0}, NEW m \in 0 .. d - 1,
         NEW a \in Int, a = q * d + m
  PROVE  a % d = m /\ a \div d = q
<1>1. a % d = m
  BY Remainder
<1>2. (a \div d) * d = a - (a % d) /\ a \div d \in Int
  BY Quotient
<1> DEFINE p == a \div d
<1>3. p \in Int /\ p * d = q * d /\ d \in Nat \ {0}
  BY <1>1, <1>2, Distribute
<1> HIDE DEF p
<1>4. p = q
  <2>1. CASE p < q
    <3>1. (q - p) * d = 0 * d
      BY <1>3, Distribute
    <3>2. 0 * d < (q - p) * d
      BY <1>3, <2>1
    <3> QED
      BY <1>3, <3>1, <3>2
  <2>2. CASE q < p
    <3>1. (p - q) * d = 0 * d
      BY <1>3, Distribute
    <3>2. 0 * d < (p - q) * d
      BY <1>3, <2>2
    <3> QED
      BY <1>3, <3>1, <3>2
  <2> QED
    BY <1>3, <2>1, <2>2
<1> QED
  BY <1>1, <1>4 DEF p

\* The cells of one of exec's pages are in one frame.
LEMMA SameHostPage ==
  ASSUME NEW v \in Nat, v < UserSize, NEW m \in Nat,
         (v % HostPage) + m < HostPage
  PROVE  Phys(v + m) = Phys(v) + m
<1> DEFINE H == HostPage
           q == v \div H
           r == v % H
<1>1. H \in Nat \ {0} /\ Frame[q] \in Nat
  BY FrameIs, Sizes
<1>2. q \in Int /\ r \in 0 .. H - 1 /\ q * H = v - r
  BY <1>1, Quotient
<1> HIDE DEF q, r, H
<1>3. r + m < H
  BY DEF r, H
<1>4. v + m = q * H + (r + m) /\ r + m \in 0 .. H - 1 /\ v + m \in Int
  BY <1>1, <1>2, <1>3
<1>5. (v + m) % H = r + m /\ (v + m) \div H = q
  BY <1>1, <1>2, <1>4, QuotientIs
<1> DEFINE F == Frame[q] * H
<1>6. Phys(v) = F + r /\ Phys(v + m) = F + (r + m)
  BY <1>5 DEF Phys, q, r, H
<1>7. F \in Int
  BY <1>1, Distribute
<1> HIDE DEF F
<1> QED
  BY <1>2, <1>6, <1>7

\* The cells of one page are in one frame.
LEMMA SamePage ==
  ASSUME NEW v \in Nat, v < UserSize, NEW m \in Nat, (v % PageSize) + m < PageSize
  PROVE  Phys(v + m) = Phys(v) + m
<1> DEFINE P == PageSize
           H == HostPage
           k == H \div P
           q == v \div H
           r == v % H
           a == v \div P
           b == v % P
<1>1. /\ P \in Nat \ {0} /\ H \in Nat \ {0} /\ k \in Int /\ H = k * P
      /\ q \in Int /\ r \in 0 .. H - 1 /\ q * H = v - r
  BY FrameIs, Sizes
<1> HIDE DEF P, H, k, q, r
<1>2. a \in Int /\ b \in 0 .. P - 1 /\ a * P = v - b
  <2>1. v \in Int
    OBVIOUS
  <2> QED
    BY <1>1, <2>1, Quotient
<1> HIDE DEF a, b
<1>3. q * H = (q * k) * P /\ q * k \in Int
  BY <1>1
<1> DEFINE w == q * k
           x == a - w
<1>4. w \in Int /\ q * H = w * P
  BY <1>3
<1> HIDE DEF w
<1>5. x \in Int /\ x * P = r - b /\ x * P < k * P
  BY <1>1, <1>2, <1>4, Distribute
<1> HIDE DEF x
<1>6. x < k
  BY <1>1, <1>5, Smaller
<1>7. (k - x - 1) * P >= 0
  BY <1>1, <1>5, <1>6
<1>8. (k - x - 1) * P = k * P - x * P - P
  BY <1>1, <1>5, Distribute
<1>9. b + m < P
  BY DEF b, P
<1>10. r + m < H
  BY <1>1, <1>2, <1>5, <1>7, <1>8, <1>9
<1> QED
  BY <1>10, SameHostPage DEF r, H

\* The bytes of PRP1 are those to the end of the page.
LEMMA FirstPage ==
  ASSUME NEW v \in Nat, v < UserSize
  PROVE  (v % PageSize) + FirstBytes(Phys(v)) = PageSize
<1> DEFINE P == PageSize
           first == FirstBytes(Phys(v))
<1>1. P \in Nat \ {0} /\ first \in 1 .. P
  BY FirstIs, Sizes
<1>2. PICK n \in Int : v + first = n * P
  BY FirstIs
<1> HIDE DEF P, first
<1>3. v = (n - 1) * P + (P - first) /\ P - first \in 0 .. P - 1
  BY <1>1, <1>2, Distribute
<1>4. v % P = P - first
  <2> DEFINE z == n - 1
             y == P - first
  <2>1. z \in Int /\ v \in Int /\ y \in 0 .. P - 1 /\ v = z * P + y
    BY <1>2, <1>3
  <2> HIDE DEF z, y
  <2>2. v % P = y
    BY <1>1, <2>1, QuotientIs
  <2> QED
    BY <2>2 DEF y
<1> QED
  BY <1>1, <1>4 DEF P, first

\* The next cell is in the same frame unless it begins a page.
LEMMA NextCell ==
  ASSUME NEW v \in Nat, v < UserSize, (v + 1) % HostPage # 0
  PROVE  Phys(v + 1) = Phys(v) + 1
<1> DEFINE H == HostPage
           q == v \div H
           r == v % H
<1>1. H \in Nat \ {0} /\ q \in Int /\ r \in 0 .. H - 1 /\ q * H = v - r
  BY FrameIs, Sizes
<1> HIDE DEF H, q, r
<1>2. r + 1 # H
  <2> SUFFICES ASSUME r + 1 = H
               PROVE  FALSE
    OBVIOUS
  <2>1. v + 1 = (q + 1) * H + 0
    BY <1>1, Distribute
  <2>2. (v + 1) % H = 0
    <3> DEFINE z == q + 1
               y == v + 1
    <3>1. z \in Int /\ y \in Int /\ 0 \in 0 .. H - 1 /\ y = z * H + 0
      BY <1>1, <2>1
    <3> HIDE DEF z, y
    <3>2. y % H = 0
      BY <1>1, <3>1, QuotientIs
    <3> QED
      BY <3>2 DEF y
  <2> QED
    BY <2>2 DEF H
<1>3. r + 1 < H
  BY <1>1, <1>2
<1> QED
  BY <1>3, SameHostPage DEF H, r

\* The memory of an entry of exec's list is contiguous.
LEMMA EntryContiguous ==
  ASSUME NEW f, f.data \in Nat, f.length \in Nat, f.data + f.length <= UserSize,
         NEW list \in DmaLists(f), NEW p \in 0 .. f.length - 1
  PROVE  Phys(f.data + EntryOf(list, p)) + (p - EntryOf(list, p)) = Phys(f.data + p)
<1> DEFINE e == EntryOf(list, p)
           d == f.data
           Q == {m \in Nat : e + m <= p /\ Phys(d + (e + m)) # Phys(d + e) + m}
<1>1. p \in Nat /\ d \in Nat /\ UserSize \in Nat
  BY Sizes
<1>2. e \in Nat /\ e <= p /\ \A h \in list : h <= p => h <= e
  BY <1>1, ListStarts, EntryIs
<1> SUFFICES ASSUME p - e \in Q
             PROVE  FALSE
  <2> HIDE DEF e
  <2>1. p - e \in Nat /\ e + (p - e) = p
    BY <1>1, <1>2
  <2> QED
    BY <1>2, <2>1 DEF e
<1>3. PICK m \in Q : \A n \in Q : m <= n
  BY LeastOf
<1>4. Phys(d + e) \in Int
  <2>1. d + e \in Nat /\ d + e < UserSize
    BY <1>1, <1>2
  <2> HIDE DEF d, e
  <2>2. PICK n \in Int : Phys(d + e) = d + e + n * PageSize
    BY <2>1, PhysMovesPages
  <2> QED
    BY <2>1, <2>2, Sizes, Distribute
<1> DEFINE x == e + m
           v == d + (x - 1)
<1> HIDE DEF e
<1>5. m \in Nat /\ m # 0
  BY <1>1, <1>2, <1>3, <1>4
<1>6. x \in 1 .. f.length - 1 /\ x <= p /\ x > e /\ x \notin list
  BY <1>1, <1>2, <1>3, <1>5
<1>7. v \in Nat /\ v < UserSize /\ v + 1 = d + x /\ v = d + x - 1
  BY <1>1, <1>6
<1>8. Phys(d + x) = Phys(v) + 1
  <2>1. CASE (d + x) % HostPage = 0
    <3>1. Phys(d + x) = Phys(d + x - 1) + 1
      BY <1>6, <2>1 DEF DmaLists
    <3> QED
      BY <1>7, <3>1
  <2>2. CASE (d + x) % HostPage # 0
    BY <1>7, <2>2, NextCell
  <2> QED
    BY <2>1, <2>2
<1>9. Phys(v) = Phys(d + e) + (m - 1)
  <2>1. m - 1 \in Nat /\ m - 1 \notin Q /\ e + (m - 1) <= p
    BY <1>1, <1>2, <1>3, <1>5
  <2>2. v = d + (e + (m - 1))
    BY <1>1, <1>2, <1>5
  <2> QED
    BY <2>1, <2>2
<1>10. Phys(d + (e + m)) = Phys(d + e) + m
  <2> HIDE DEF v
  <2> QED
    BY <1>4, <1>5, <1>8, <1>9
<1> QED
  BY <1>3, <1>10

-----------------------------------------------------------------------------
(* The entries of a transfer, one for each page of it after the first.     *)

\* n pages follow the first of a transfer of len cells.
Pages(n, first, len) ==
  /\ n \in Nat
  /\ len <= first + n * PageSize
  /\ n > 0 => first + (n - 1) * PageSize < len

\* Every transfer has a number of pages after the first.
LEMMA PagesExist ==
  ASSUME NEW len \in Nat \ {0}, NEW first \in 1 .. PageSize
  PROVE  \E n \in Nat : Pages(n, first, len)
<1> DEFINE P == PageSize
           Q == {n \in Nat : len <= first + n * P}
<1>1. P \in Nat \ {0}
  BY Sizes
<1>2. len \in Q
  <2>1. (len - 1) * P >= 0 /\ (len - 1) * P = len * P - P
    BY <1>1, Distribute
  <2>2. len * P >= len
    <3>1. len * (P - 1) >= 0
      BY <1>1
    <3>2. len * (P - 1) = len * P - len
      BY <1>1
    <3> QED
      BY <1>1, <3>1, <3>2
  <2> QED
    BY <1>1, <2>1, <2>2
<1>3. PICK n \in Q : \A m \in Q : n <= m
  <2>1. Q \in SUBSET Nat /\ Q # {}
    BY <1>2
  <2> HIDE DEF Q
  <2> QED
    BY <2>1, LeastOf
<1>4. n > 0 => first + (n - 1) * P < len
  <2> SUFFICES ASSUME n > 0
               PROVE  first + (n - 1) * P < len
    OBVIOUS
  <2>1. n - 1 \in Nat /\ n - 1 \notin Q
    BY <1>3
  <2>2. (n - 1) * P \in Int
    BY <1>1, <2>1, Distribute
  <2> QED
    BY <1>1, <2>1, <2>2
<1> QED
  BY <1>3, <1>4 DEF Pages

\* The walk over exec's entries stops once at each of these pages.
LEMMA ScanPages ==
  ASSUME NEW f, f.data \in Nat, f.length \in Nat, f.data < UserSize,
         NEW list \in DmaLists(f), NEW n, Pages(n, FirstBytes(Phys(f.data)), f.length)
  PROVE  Scan(list, f) = {FirstBytes(Phys(f.data)) + k * PageSize : k \in 0 .. n - 1}
<1> DEFINE first == FirstBytes(Phys(f.data))
           P == PageSize
<1>1. P \in Nat \ {0} /\ first \in 1 .. P
  BY FirstIs, Sizes
<1>2. Scan(list, f) = {p \in Nat : p < f.length /\ \E k \in Nat : p = first + k * P}
  BY ScanIs
<1>3. n \in Nat /\ f.length <= first + n * P /\ (n > 0 => first + (n - 1) * P < f.length)
  BY DEF Pages
<1> HIDE DEF first, P
<1>4. ASSUME NEW k \in Nat
      PROVE  /\ first + k * P \in Nat
             /\ first + k * P < f.length <=> k \in 0 .. n - 1
  <2>1. k * P \in Int /\ n * P \in Int /\ (n - 1) * P \in Int /\ k * P >= 0
    BY <1>1, <1>3
  <2>2. ASSUME first + k * P < f.length PROVE k < n
    <3>1. k * P < n * P
      BY <1>1, <1>3, <2>1, <2>2
    <3> QED
      BY <1>1, <1>3, <3>1, Smaller
  <2>3. ASSUME k < n PROVE first + k * P < f.length
    <3>1. ((n - 1) - k) * P >= 0
      BY <1>1, <1>3, <2>3
    <3>2. ((n - 1) - k) * P = (n - 1) * P - k * P
      BY <1>1, <1>3, Distribute
    <3> QED
      BY <1>1, <1>3, <2>1, <2>3, <3>1, <3>2
  <2> QED
    BY <1>1, <1>3, <2>1, <2>2, <2>3
<1>5. \A p : p \in Scan(list, f) <=> \E k \in 0 .. n - 1 : p = first + k * P
  BY <1>2, <1>3, <1>4
<1> QED
  BY <1>5 DEF first, P

\* The k-th member of a set is the k-th of its members in ascending order.
LEMMA AscendingSize ==
  ASSUME NEW n \in Nat, NEW g \in [1 .. n -> Int],
         \A i, j \in 1 .. n : i < j => g[i] < g[j], NEW m \in 0 .. n
  PROVE  /\ IsFiniteSet({g[i] : i \in 1 .. m})
         /\ Cardinality({g[i] : i \in 1 .. m}) = m
<1> DEFINE K == 1 .. m
           T == {g[i] : i \in K}
           h == [i \in K |-> g[i]]
<1>1. IsFiniteSet(K) /\ Cardinality(K) = m
  <2>1. 1 \in Int /\ m \in Int /\ (IF 1 > m THEN 0 ELSE m - 1 + 1) = m
    OBVIOUS
  <2> QED
    BY <2>1, FS_Interval
<1>2. \A i, j \in K : g[i] = g[j] => i = j
  <2> SUFFICES ASSUME NEW i \in K, NEW j \in K, i # j
               PROVE  g[i] # g[j]
    OBVIOUS
  <2>1. i \in 1 .. n /\ j \in 1 .. n /\ (i < j \/ j < i)
    OBVIOUS
  <2>2. g[i] \in Int /\ g[j] \in Int /\ (g[i] < g[j] \/ g[j] < g[i])
    BY <2>1
  <2> QED
    BY <2>2
<1>3. h \in Surjection(K, T) /\ h \in Injection(K, T)
  BY <1>2 DEF Surjection, Injection, IsInjective
<1> HIDE DEF K, T, h
<1>4. IsFiniteSet(T) /\ Cardinality(T) = Cardinality(K)
  BY <1>1, <1>3, FS_Surjection
<1> QED
  BY <1>1, <1>4 DEF T, K

\* The k-th of a set that is listed in ascending order.
LEMMA AscendingNth ==
  ASSUME NEW n \in Nat, NEW g \in [1 .. n -> Int],
         \A i, j \in 1 .. n : i < j => g[i] < g[j],
         NEW S, S = {g[i] : i \in 1 .. n}, NEW k \in 1 .. n
  PROVE  Nth(S, k) = g[k]
<1> DEFINE Below(x) == {q \in S : q < x}
           Prefix(m) == {g[i] : i \in 1 .. m}
<1>1. ASSUME NEW j \in 1 .. n
      PROVE  Cardinality(Below(g[j])) = j - 1
  <2>1. \A i \in 1 .. n : g[i] < g[j] <=> i \in 1 .. j - 1
    <3> SUFFICES ASSUME NEW i \in 1 .. n
                 PROVE  g[i] < g[j] <=> i < j
      OBVIOUS
    <3>1. g[i] \in Int /\ g[j] \in Int /\ (i < j \/ i = j \/ j < i)
      OBVIOUS
    <3> QED
      BY <3>1
  <2>2. Below(g[j]) = Prefix(j - 1)
    <3>1. \A i \in 1 .. j - 1 : i \in 1 .. n
      OBVIOUS
    <3> QED
      BY <2>1, <3>1
  <2>3. Cardinality(Prefix(j - 1)) = j - 1
    <3>1. j - 1 \in 0 .. n
      OBVIOUS
    <3> QED
      BY <3>1, AscendingSize
  <2> HIDE DEF Below, Prefix
  <2> QED
    BY <2>2, <2>3
<1>2. \A p \in S : \E j \in 1 .. n : p = g[j]
  OBVIOUS
<1>3. g[k] \in S /\ Cardinality(Below(g[k])) = k - 1
  BY <1>1
<1> HIDE DEF Below
<1>4. \A p \in S : Cardinality(Below(p)) = k - 1 => p = g[k]
  <2> SUFFICES ASSUME NEW p \in S, Cardinality(Below(p)) = k - 1
               PROVE  p = g[k]
    OBVIOUS
  <2>1. PICK j \in 1 .. n : p = g[j]
    BY <1>2
  <2>2. j - 1 = k - 1
    BY <1>1, <2>1
  <2>3. j = k
    BY <2>2
  <2> QED
    BY <2>1, <2>3
<1>5. Nth(S, k) = CHOOSE p \in S : Cardinality(Below(p)) = k - 1
  BY DEF Nth, Below
<1> QED
  BY <1>3, <1>4, <1>5

\* The address of a caller's cell.
LEMMA PhysNat ==
  ASSUME NEW v \in Nat, v < UserSize
  PROVE  Phys(v) \in Nat
<1> DEFINE F == Frame[v \div HostPage]
           r == v % HostPage
<1>1. F \in Nat /\ r \in Nat /\ HostPage \in Nat
  <2>1. F \in Nat /\ r \in 0 .. HostPage - 1 /\ HostPage \in Nat
    BY FrameIs, Sizes
  <2> HIDE DEF F, r
  <2> QED
    BY <2>1
<1>2. Phys(v) = F * HostPage + r
  BY DEF Phys
<1> HIDE DEF F, r
<1> QED
  BY <1>1, <1>2

\* The walk finds the start of each page of the buffer, in their order.
LEMMA RestIs ==
  ASSUME NEW f, f.data \in Nat, f.length \in Nat \ {0},
         f.data + f.length <= UserSize, NEW list \in DmaLists(f),
         NEW n, Pages(n, FirstBytes(Phys(f.data)), f.length)
  PROVE  DirectRest(list, f) =
           [k \in 1 .. n |->
              Phys(f.data + (FirstBytes(Phys(f.data)) + (k - 1) * PageSize))]
<1> DEFINE first == FirstBytes(Phys(f.data))
           P == PageSize
           scan == Scan(list, f)
           Entry(p) == Phys(f.data + EntryOf(list, p)) + (p - EntryOf(list, p))
<1>1. /\ P \in Nat \ {0} /\ first \in 1 .. P /\ first \in Int /\ UserSize \in Nat
      /\ f.data < UserSize
  <2>1. UserSize \in Nat /\ f.data < UserSize
    BY Sizes
  <2> QED
    BY <2>1, FirstIs, Sizes
<1> DEFINE g == [k \in 1 .. n |-> first + (k - 1) * P]
<1>2. n \in Nat /\ scan = {first + k * P : k \in 0 .. n - 1}
  BY <1>1, ScanPages DEF Pages
<1>3. /\ g \in [1 .. n -> Int] /\ scan = {g[i] : i \in 1 .. n}
      /\ \A i, j \in 1 .. n : i < j => g[i] < g[j]
  <2> HIDE DEF first, P, scan
  <2>1. \A k \in 0 .. n : k * P \in Int
    BY <1>1, Distribute
  <2>2. g \in [1 .. n -> Int]
    BY <1>1, <1>2, <2>1
  <2>3. scan = {g[i] : i \in 1 .. n}
    <3>1. \A k \in 0 .. n - 1 : k + 1 \in 1 .. n /\ g[k + 1] = first + k * P
      BY <1>2
    <3>2. \A i \in 1 .. n : i - 1 \in 0 .. n - 1 /\ g[i] = first + (i - 1) * P
      BY <1>2
    <3> HIDE DEF g
    <3> QED
      BY <1>2, <3>1, <3>2
  <2>4. ASSUME NEW i \in 1 .. n, NEW j \in 1 .. n, i < j
        PROVE  g[i] < g[j]
    <3>1. (j - i) * P > 0
      BY <1>1, <1>2, <2>4
    <3>2. (j - i) * P = j * P - i * P /\ (i - 1) * P = i * P - P /\ (j - 1) * P = j * P - P
      BY <1>1, <1>2, Distribute
    <3> QED
      BY <1>1, <1>2, <2>1, <3>1, <3>2
  <2> QED
    BY <2>2, <2>3, <2>4
<1>4. Cardinality(scan) = n /\ \A k \in 1 .. n : Nth(scan, k) = first + (k - 1) * P
  <2>1. \A k \in 1 .. n : g[k] = first + (k - 1) * P
    OBVIOUS
  <2> HIDE DEF g, scan, first, P
  <2>2. \A k \in 1 .. n : Nth(scan, k) = g[k]
    BY ONLY ZenonT(40), <1>2, <1>3, AscendingNth
  <2>3. n \in 0 .. n
    BY <1>2
  <2>4. Cardinality({g[i] : i \in 1 .. n}) = n
    BY ONLY <1>2, <1>3, <2>3, AscendingSize
  <2> QED
    BY <1>3, <2>1, <2>2, <2>4
<1>5. \A k \in 1 .. n : first + (k - 1) * P \in 0 .. f.length - 1
  <2> SUFFICES ASSUME NEW k \in 1 .. n
               PROVE  first + (k - 1) * P \in 0 .. f.length - 1
    OBVIOUS
  <2>1. first + (k - 1) * P \in scan
    <3>1. k - 1 \in 0 .. n - 1
      BY <1>2
    <3> QED
      BY <1>2, <3>1
  <2>2. \A p \in scan : p \in first .. f.length - 1
    BY DEF Scan
  <2>3. \A p \in first .. f.length - 1 : p \in 0 .. f.length - 1
    <3> HIDE DEF first
    <3> QED
      BY <1>1
  <2> QED
    BY <2>1, <2>2, <2>3
<1>6. \A k \in 1 .. n : Entry(Nth(scan, k)) = Phys(f.data + (first + (k - 1) * P))
  <2> SUFFICES ASSUME NEW k \in 1 .. n
               PROVE  Entry(Nth(scan, k)) = Phys(f.data + (first + (k - 1) * P))
    OBVIOUS
  <2> DEFINE p == first + (k - 1) * P
  <2>1. p \in 0 .. f.length - 1 /\ Nth(scan, k) = p
    BY <1>4, <1>5
  <2> HIDE DEF p, scan
  <2>2. Entry(p) = Phys(f.data + p)
    BY <2>1, EntryContiguous
  <2> QED
    BY <2>1, <2>2 DEF p
<1>7. DirectRest(list, f) = [k \in 1 .. n |-> Entry(Nth(scan, k))]
  BY <1>4 DEF DirectRest
<1> QED
  BY <1>6, <1>7

\* Where the pages of a buffer start, the pages of memory do.
LEMMA PagesAligned ==
  ASSUME NEW v \in Nat, v < UserSize, NEW k \in Nat,
         v + (FirstBytes(Phys(v)) + k * PageSize) < UserSize
  PROVE  LET x == v + (FirstBytes(Phys(v)) + k * PageSize)
         IN  x \in Nat /\ x % PageSize = 0 /\ Phys(x) % PageSize = 0
<1> DEFINE P == PageSize
           first == FirstBytes(Phys(v))
           x == v + (first + k * P)
<1>1. P \in Nat \ {0} /\ first \in 1 .. P /\ k * P \in Nat
  BY FirstIs, Sizes
<1>2. PICK N \in Int : v + first = N * P
  BY FirstIs
<1>3. x \in Nat /\ x = (N + k) * P + 0
  <2> HIDE DEF first, P
  <2> QED
    BY <1>1, <1>2, Distribute
<1>4. PICK m \in Int : Phys(x) = x + m * P
  BY <1>3, PhysMovesPages
<1> HIDE DEF x, first, P
<1>5. Phys(x) = (N + k + m) * P + 0
  BY <1>1, <1>2, <1>3, <1>4, Distribute
<1> DEFINE z == N + k
           y == N + k + m
<1>6. z \in Int /\ y \in Int /\ x = z * P + 0 /\ Phys(x) = y * P + 0 /\ 0 \in 0 .. P - 1
  BY <1>1, <1>2, <1>3, <1>4, <1>5
<1> HIDE DEF z, y
<1>7. x % P = 0 /\ Phys(x) % P = 0
  BY <1>1, <1>6, Remainder
<1> QED
  BY <1>3, <1>7 DEF x, first, P

\* No two slots share a PRP list page.
LEMMA PrpPhysDiffer ==
  ASSUME NEW s \in Slot, NEW t \in Slot, PrpPhys(s) = PrpPhys(t)
  PROVE  s = t
<1> DEFINE P == PageSize
           M == MemSize
<1>1. P \in Nat \ {0} /\ M \in Int /\ s \in Int /\ t \in Int
  <2>1. MaxInflight \in Nat /\ BounceSize \in Nat /\ UserSize \in Nat
    BY TransferAssumption, Sizes
  <2>2. MaxInflight * BounceSize \in Int
    BY <2>1, Distribute
  <2> QED
    BY <2>1, <2>2, Sizes DEF MemSize, Slot
<1>2. M + (s - 1) * P = M + (t - 1) * P
  BY DEF PrpPhys
<1> HIDE DEF P, M
<1>3. (s - t) * P = 0 /\ (t - s) * P = 0
  <2>1. /\ (s - t) * P = s * P - t * P /\ (t - s) * P = t * P - s * P
        /\ (s - 1) * P = s * P - P /\ (t - 1) * P = t * P - P
        /\ s * P \in Int /\ t * P \in Int
    BY <1>1, Distribute
  <2> QED
    BY <1>1, <1>2, <2>1
<1>4. ~(s - t >= 1) /\ ~(t - s >= 1)
  BY <1>1, <1>3
<1> QED
  BY <1>1, <1>4

-----------------------------------------------------------------------------
(* What the controller finds in a command.                                 *)

\* The controller needs as many entries as pages follow the first.
LEMMA NeededIs ==
  ASSUME NEW c, FirstBytes(c.prp1) \in 1 .. PageSize, Cells(c) \in Nat \ {0},
         NEW n, Pages(n, FirstBytes(c.prp1), Cells(c))
  PROVE  Needed(c) = n
<1> DEFINE P == PageSize
           first == FirstBytes(c.prp1)
           len == Cells(c)
           y == len - first + P - 1
           m == y - n * P
<1>1. P \in Nat \ {0} /\ first \in 1 .. P /\ len \in Nat \ {0}
  BY Sizes
<1>2. n \in Nat /\ len <= first + n * P /\ (n > 0 => first + (n - 1) * P < len)
  BY DEF Pages
<1>3. Needed(c) = IF len <= first THEN 0 ELSE y \div P
  BY DEF Needed
<1> HIDE DEF P, first, len
<1>4. n * P \in Int /\ (n - 1) * P = n * P - P
  BY <1>1, <1>2, Distribute
<1>5. CASE len <= first
  <2>1. n > 0 => (n - 1) * P >= 0
    BY <1>1, <1>2
  <2>2. ~(n > 0)
    BY <1>1, <1>2, <1>4, <1>5, <2>1
  <2> QED
    BY <1>2, <1>3, <1>5, <2>2
<1>6. CASE ~(len <= first)
  <2>1. n > 0
    BY <1>1, <1>2, <1>6
  <2>2. y \in Int /\ m \in 0 .. P - 1 /\ y = n * P + m
    BY <1>1, <1>2, <1>4, <2>1
  <2> HIDE DEF y, m
  <2>3. y \div P = n
    BY ONLY SMTT(60), <1>1, <1>2, <2>2, QuotientIs
  <2> QED
    BY <1>3, <1>6, <2>3
<1> QED
  BY <1>5, <1>6

(* A command whose entries are written for it names exactly the pages they *)
(* stand for.                                                              *)
LEMMA EntriesRead ==
  ASSUME NEW c, NEW s \in Slot, NEW n \in Nat, Needed(c) = n,
         NEW rest \in Seq(Nat), Len(rest) = n, c.prp2 = Prp2(s, rest),
         n > 1 => /\ Len(prp_list'[s]) >= n
                  /\ \A k \in 1 .. n : prp_list'[s][k] = rest[k]
  PROVE  /\ Len(Entries(c)') >= n
         /\ \A k \in 1 .. n : Entries(c)'[k] = rest[k]
         /\ n > 1 => c.prp2 = PrpPhys(s)
<1>1. CASE n = 0
  <2>1. Entries(c)' = <<c.prp2>>
    BY <1>1 DEF Entries
  <2> QED
    BY <1>1, <2>1
<1>2. CASE n = 1
  <2>1. Entries(c)' = <<c.prp2>>
    BY <1>2 DEF Entries
  <2>2. rest # <<>> /\ c.prp2 = rest[1]
    BY <1>2 DEF Prp2
  <2> QED
    BY <1>2, <2>1, <2>2
<1>3. CASE n > 1
  <2>1. rest # <<>> /\ Len(rest) # 1
    BY <1>3
  <2>2. c.prp2 = PrpPhys(s)
    BY <2>1 DEF Prp2
  <2>3. (CHOOSE t \in Slot : PrpPhys(t) = c.prp2) = s
    BY <2>2, PrpPhysDiffer
  <2>4. Entries(c)' = prp_list'[s]
    <3>1. /\ ~(Needed(c)' <= 1) /\ \E t \in Slot' : PrpPhys(t)' = (c.prp2)'
          /\ (CHOOSE t \in Slot : PrpPhys(t) = c.prp2)' = s
      BY <1>3, <2>2, <2>3
    <3> QED
      BY <3>1 DEF Entries
  <2> QED
    BY <1>3, <2>2, <2>4
<1> QED
  BY <1>1, <1>2, <1>3

\* The cells of c are those of the first page and, entry by entry, of the n
\* others.
Leads(c, n, rest) ==
  \A i \in 0 .. Cells(c) - 1 :
    \/ i < FirstBytes(c.prp1) /\ Address(c, i) = c.prp1 + i
    \/ \E k \in 1 .. n, m \in 0 .. PageSize - 1 :
         /\ FirstBytes(c.prp1) + (k - 1) * PageSize + m = i
         /\ Address(c, i) = rest[k] + m

\* The controller goes where the entries of a command lead.
LEMMA CellsNamed ==
  ASSUME NEW c, FirstBytes(c.prp1) \in 1 .. PageSize, Cells(c) \in Nat \ {0},
         NEW n, Pages(n, FirstBytes(c.prp1), Cells(c)),
         NEW rest \in Seq(Nat), \A k \in 1 .. n : rest[k] % PageSize = 0,
         Len(Entries(c)') >= n, \A k \in 1 .. n : Entries(c)'[k] = rest[k]
  PROVE  Mapped(c)' /\ Leads(c, n, rest)'
<1> DEFINE P == PageSize
           first == FirstBytes(c.prp1)
           len == Cells(c)
           E == Entries(c)'
<1>1. P \in Nat \ {0} /\ first \in 1 .. P /\ len \in Nat \ {0}
  BY Sizes
<1>2. n \in Nat /\ len <= first + n * P
  BY DEF Pages
<1>3. Needed(c) = n
  BY NeededIs
<1>4. Mapped(c)'
  BY <1>3 DEF Mapped, Needed, Cells, FirstBytes
<1>5. ASSUME NEW i \in 0 .. len - 1
      PROVE  \/ i < first /\ Address(c, i)' = c.prp1 + i
             \/ \E k \in 1 .. n, m \in 0 .. P - 1 :
                  first + (k - 1) * P + m = i /\ Address(c, i)' = rest[k] + m
  <2>0. PICK x : x = Address(c, i)'
    OBVIOUS
  <2>1. x = IF i < first THEN c.prp1 + i
            ELSE E[(i - first) \div P + 1] + ((i - first) % P)
    BY <2>0 DEF Address, FirstBytes
  <2> HIDE DEF P, first, len, E
  <2>2. i \in Nat /\ i < len
    BY <1>1
  <2>3. CASE i < first
    BY <2>0, <2>1, <2>3
  <2>4. CASE ~(i < first)
    <3> DEFINE j == i - first
               k == j \div P + 1
               m == j % P
    <3>1. j \in Int /\ j >= 0
      BY <1>1, <2>2, <2>4
    <3> HIDE DEF j
    <3>2. /\ j \div P \in Int /\ m \in 0 .. P - 1 /\ (j \div P) * P = j - m
          /\ j \div P >= 0
      BY <1>1, <3>1, Quotient
    <3>3. x = E[k] + m
      BY <2>1, <2>4 DEF j
    <3> DEFINE q == j \div P
    <3>4. q \in Int /\ q >= 0 /\ q * P = j - m /\ k = q + 1
      BY <3>2
    <3> HIDE DEF q, k, m
    <3>5. q < n
      <4>1. q * P < n * P
        <5>1. n * P \in Int
          BY <1>1, <1>2, Distribute
        <5>2. j < n * P
          BY <1>1, <1>2, <2>2, <5>1 DEF j
        <5>3. q * P = j - m /\ m \in Int /\ m >= 0
          BY <1>1, <3>2, <3>4
        <5> QED
          BY <3>1, <5>1, <5>2, <5>3
      <4> QED
        BY <1>1, <1>2, <3>4, <4>1, Smaller
    <3>6. k \in 1 .. n /\ k - 1 = q
      BY <1>2, <3>4, <3>5
    <3>7. first + (k - 1) * P + m = i
      BY <1>1, <2>2, <3>1, <3>2, <3>4, <3>6 DEF j
    <3>8. E[k] = rest[k]
      BY <3>6 DEF E
    <3> QED
      BY <2>0, <3>2, <3>3, <3>6, <3>7, <3>8
  <2> QED
    BY <2>3, <2>4
<1>6. Cells(c)' = len /\ FirstBytes(c.prp1)' = first
  BY DEF Cells, FirstBytes
<1> QED
  BY <1>4, <1>5, <1>6 DEF Leads

-----------------------------------------------------------------------------
(* The entries of both paths.                                              *)

\* rest names what a transfer of len cells from prp1 on needs: cell i is at[i].
Names(prp1, rest, len, at) ==
  /\ rest \in Seq(Nat)
  /\ FirstBytes(prp1) \in 1 .. PageSize
  /\ Pages(Len(rest), FirstBytes(prp1), len)
  /\ \A k \in 1 .. Len(rest) : rest[k] % PageSize = 0
  /\ \A i \in 0 .. len - 1 : i < FirstBytes(prp1) => prp1 + i = at[i]
  /\ \A k \in 1 .. Len(rest), m \in 0 .. PageSize - 1, i \in 0 .. len - 1 :
       FirstBytes(prp1) + (k - 1) * PageSize + m = i => rest[k] + m = at[i]

\* Where the cells of a transfer are that is bounced in slot s, or direct.
BounceCells(s, len) == [i \in 0 .. len - 1 |-> BouncePhys(s) + i]
DirectCells(f) == [i \in 0 .. f.length - 1 |-> Phys(f.data + i)]

\* A bounce buffer begins at the start of a page.
LEMMA BounceAligned ==
  ASSUME NEW s \in Slot
  PROVE  /\ BouncePhys(s) \in Nat
         /\ \E z \in Int : BouncePhys(s) = z * PageSize
<1> DEFINE P == PageSize
           N == Cardinality(DOMAIN Frame)
           h == HostPage \div P
           b == BounceSize \div P
<1>1. /\ P \in Nat \ {0} /\ N \in Nat /\ h \in Int /\ HostPage = h * P
      /\ UserSize \in Nat /\ BounceSize \in Nat
  BY Sizes, TransferAssumption
<1>2. b \in Int /\ b * P = BounceSize
  <2>1. BounceSize % P = 0 /\ BounceSize \in Int
    BY TransferAssumption
  <2>2. b \in Int /\ b * P = BounceSize - (BounceSize % P)
    <3> HIDE DEF P
    <3> QED
      BY <1>1, <2>1, Quotient
  <2> QED
    BY <1>1, <2>1, <2>2
<1>3. s - 1 \in Nat /\ BouncePhys(s) = UserSize + (s - 1) * BounceSize
  BY DEF BouncePhys, Slot
<1>4. UserSize = N * HostPage
  BY DEF UserSize
<1> HIDE DEF P, N, h, b
<1>5. BouncePhys(s) \in Nat
  BY <1>1, <1>3
<1>6. UserSize = (N * h) * P /\ N * h \in Int
  BY <1>1, <1>4
<1> DEFINE t == s - 1
<1>7. (s - 1) * BounceSize = (t * b) * P /\ t * b \in Int
  BY <1>1, <1>2, <1>3
<1>8. BouncePhys(s) = (N * h + t * b) * P
  BY <1>1, <1>3, <1>6, <1>7, Distribute
<1> QED
  BY <1>5, <1>6, <1>7, <1>8 DEF P

\* The entries of a bounced transfer stay in the slot's bounce buffer.
LEMMA BounceNames ==
  ASSUME NEW s \in Slot, NEW len \in Nat \ {0}, len <= BounceSize
  PROVE  /\ Names(BouncePhys(s), BounceRest(s, len), len,
                  BounceCells(s, len))
         /\ Len(BounceRest(s, len)) <= MaxPrp
<1> DEFINE P == PageSize
           B == BouncePhys(s)
           rest == BounceRest(s, len)
           y == len + P - 1
           q == y \div P
           n == q - 1
<1>1. P \in Nat \ {0} /\ B \in Nat /\ BounceSize \in Nat
  BY BounceAligned, Sizes, TransferAssumption
<1>2. PICK z \in Int : B = z * P
  BY BounceAligned
<1>3. y \in Int /\ y >= 0
  <2> HIDE DEF P
  <2> QED
    BY <1>1
<1>4. q \in Int /\ y % P \in 0 .. P - 1 /\ q * P = y - (y % P)
  <2> HIDE DEF y, P
  <2> QED
    BY <1>1, <1>3, Quotient
<1>5. rest = [k \in 1 .. n |-> B + k * P]
  BY DEF BounceRest
<1>6. B % P = 0 /\ FirstBytes(B) = P
  <2>1. B % P = 0
    <3>1. B = z * P + 0 /\ 0 \in 0 .. P - 1 /\ B \in Int
      BY <1>1, <1>2
    <3> HIDE DEF B, P
    <3> QED
      BY <1>1, <3>1, QuotientIs
  <2> QED
    BY <1>1, <2>1 DEF FirstBytes
<1> DEFINE r == y % P
<1>7. r \in 0 .. P - 1 /\ q * P = len + P - 1 - r
  <2>1. q * P = y - r /\ r \in 0 .. P - 1
    BY <1>4
  <2> HIDE DEF q, r, P
  <2> QED
    BY <1>1, <2>1
<1> HIDE DEF q, r, y, P, B
<1>8. q >= 1
  <2>1. 0 * P < q * P
    BY <1>1, <1>7
  <2> QED
    BY <1>1, <1>4, <2>1, Smaller
<1>9. n \in Nat /\ n * P = q * P - P /\ (n - 1) * P = q * P - P - P
      /\ (n - 1) * P = n * P - P
  BY <1>1, <1>4, <1>8, Distribute
<1>10. Pages(n, P, len)
  <2>1. len <= P + n * P /\ P + (n - 1) * P < len
    BY <1>1, <1>7, <1>9
  <2> QED
    BY <1>9, <2>1 DEF Pages, P
<1> HIDE DEF n
<1>11. rest \in Seq(Nat) /\ Len(rest) = n /\ \A k \in 1 .. n : rest[k] = B + k * P
  <2>1. \A k \in 1 .. n : B + k * P \in Nat
    BY <1>1, <1>9
  <2> QED
    BY <1>5, <1>9, <2>1
<1>12. ASSUME NEW k \in 1 .. n
       PROVE  rest[k] % P = 0
  <2> DEFINE x == rest[k]
             w == z + k
  <2>1. x \in Int /\ w \in Int /\ x = w * P + 0 /\ 0 \in 0 .. P - 1
    BY <1>1, <1>2, <1>9, <1>11, Distribute
  <2> HIDE DEF x, w
  <2>2. x % P = 0
    BY <1>1, <2>1, QuotientIs
  <2> QED
    BY <2>2 DEF x
<1> DEFINE at == BounceCells(s, len)
<1>13. ASSUME NEW i \in 0 .. len - 1
       PROVE  at[i] = B + i
  BY DEF BounceCells, B
<1>14. ASSUME NEW k \in 1 .. n, NEW m \in 0 .. P - 1, NEW i \in 0 .. len - 1,
              P + (k - 1) * P + m = i
       PROVE  rest[k] + m = at[i]
  <2>1. (k - 1) * P = k * P - P /\ k * P \in Nat /\ rest[k] = B + k * P
    BY <1>1, <1>9, <1>11, Distribute
  <2>2. i = k * P + m
    BY <1>1, <1>14, <2>1
  <2> QED
    BY <1>1, <1>13, <2>1, <2>2
<1>15. n <= MaxPrp
  <2>1. MaxPrp \in Nat /\ BounceSize <= (MaxPrp + 1) * P
    BY TransferAssumption DEF P
  <2>2. n * P < (MaxPrp + 1) * P
    <3>1. (MaxPrp + 1) * P \in Int /\ n * P \in Int
      BY <1>1, <1>9, <2>1, Distribute
    <3> QED
      BY <1>1, <1>7, <1>9, <2>1, <3>1
  <2>3. n < MaxPrp + 1
    BY <1>1, <1>9, <2>1, <2>2, Smaller
  <2> QED
    BY <1>9, <2>1, <2>3
<1> HIDE DEF rest, at
<1>16. Names(B, rest, len, at)
  <2>1. \A i \in 0 .. len - 1 : i < P => B + i = at[i]
    BY <1>13
  <2>2. \A k \in 1 .. n, m \in 0 .. P - 1, i \in 0 .. len - 1 :
          P + (k - 1) * P + m = i => rest[k] + m = at[i]
    BY <1>14
  <2>3. P = PageSize /\ P \in 1 .. P
    BY <1>1 DEF P
  <2> QED
    BY <1>6, <1>10, <1>11, <1>12, <2>1, <2>2, <2>3 DEF Names
<1> QED
  BY <1>11, <1>15, <1>16 DEF at, B, rest

\* The entries of a direct transfer stay in the caller's memory.
LEMMA DirectNames ==
  ASSUME NEW f, f.data \in Nat, f.length \in Nat \ {0},
         f.data + f.length <= UserSize, NEW list \in DmaLists(f)
  PROVE  Names(Phys(f.data), DirectRest(list, f), f.length,
               DirectCells(f))
<1> DEFINE P == PageSize
           d == f.data
           len == f.length
           first == FirstBytes(Phys(d))
           rest == DirectRest(list, f)
           cell == DirectCells(f)
<1>1. P \in Nat \ {0} /\ d \in Nat /\ d < UserSize /\ UserSize \in Nat /\ len \in Nat \ {0}
  BY Sizes
<1>2. first \in 1 .. P
  BY <1>1, FirstIs
<1>3. PICK n \in Nat : Pages(n, first, len)
  BY <1>1, <1>2, PagesExist DEF Pages
<1> DEFINE at(k) == first + (k - 1) * P
<1>4. rest = [k \in 1 .. n |-> Phys(d + at(k))]
  BY <1>3, RestIs
<1>5. ASSUME NEW k \in 1 .. n
      PROVE  /\ at(k) \in Nat /\ at(k) < len
             /\ d + at(k) \in Nat /\ (d + at(k)) % P = 0 /\ Phys(d + at(k)) % P = 0
             /\ d + at(k) < UserSize /\ Phys(d + at(k)) \in Nat
  <2> DEFINE j == k - 1
  <2>1. j \in Nat /\ at(k) = first + j * P
    OBVIOUS
  <2>2. at(k) \in Nat /\ at(k) < len
    <3>1. n > 0 /\ first + (n - 1) * P < len
      BY <1>3 DEF Pages
    <3> HIDE DEF first, P, len
    <3>2. ((n - 1) - j) * P >= 0 /\ ((n - 1) - j) * P = (n - 1) * P - j * P
      BY <1>1, Distribute
    <3>3. j * P \in Nat /\ (n - 1) * P \in Int
      BY <1>1, <2>1, Distribute
    <3> QED
      BY <1>1, <1>2, <2>1, <3>1, <3>2, <3>3
  <2>3. d + at(k) \in Nat /\ d + at(k) < UserSize
    <3> HIDE DEF at
    <3> QED
      BY <1>1, <2>2
  <2> HIDE DEF j
  <2>4. d + (first + j * P) < UserSize
    BY <2>1, <2>3
  <2>5. (d + at(k)) % P = 0 /\ Phys(d + at(k)) % P = 0
    BY ZenonT(60), <1>1, <2>1, <2>4, PagesAligned
  <2>6. Phys(d + at(k)) \in Nat
    <3> HIDE DEF at
    <3> QED
      BY <2>3, PhysNat
  <2> QED
    BY <2>2, <2>3, <2>5, <2>6
<1>6. rest \in Seq(Nat) /\ Len(rest) = n /\ \A k \in 1 .. n : rest[k] = Phys(d + at(k))
  <2> HIDE DEF at, rest
  <2> QED
    BY <1>3, <1>4, <1>5
<1>0. \A i \in 0 .. len - 1 : cell[i] = Phys(d + i)
  BY DEF DirectCells
<1> HIDE DEF cell
<1>7. ASSUME NEW i \in 0 .. len - 1, i < first
      PROVE  Phys(d) + i = cell[i]
  <2>1. (d % P) + i < P
    <3>1. (d % P) + first = P /\ d % P \in Int
      BY <1>1, FirstPage
    <3> HIDE DEF first, P
    <3> QED
      BY <1>1, <1>2, <1>7, <3>1
  <2>2. i \in Nat
    BY <1>1
  <2>3. Phys(d + i) = Phys(d) + i
    BY <1>1, <2>1, <2>2, SamePage
  <2> QED
    BY <1>0, <2>3
<1>8. ASSUME NEW k \in 1 .. n, NEW m \in 0 .. P - 1, NEW i \in 0 .. len - 1,
             at(k) + m = i
      PROVE  rest[k] + m = cell[i]
  <2> DEFINE x == d + at(k)
  <2>1. x \in Nat /\ x < UserSize /\ x % P = 0 /\ rest[k] = Phys(x) /\ at(k) \in Nat
    BY <1>5, <1>6
  <2>2. m \in Nat /\ (x % P) + m < P
    BY <1>1, <2>1
  <2>3. Phys(x + m) = Phys(x) + m
    <3> HIDE DEF x
    <3> QED
      BY <2>1, <2>2, SamePage
  <2>4. x + m = d + i
    <3> HIDE DEF at, P
    <3> QED
      BY <1>1, <1>8, <2>1, <2>2
  <2> HIDE DEF x, at
  <2> QED
    BY <1>0, <2>1, <2>3, <2>4
<1> HIDE DEF rest
<1> QED
  BY <1>2, <1>3, <1>5, <1>6, <1>7, <1>8 DEF Names, cell, rest

-----------------------------------------------------------------------------
(* The commands under way, step by step.                                   *)

\* Writing the start of a list leaves its length and what was written.
LEMMA OverIs ==
  ASSUME NEW T, NEW new \in Seq(T), NEW old \in Seq(T)
  PROVE  /\ Over(new, old) \in Seq(T)
         /\ Len(Over(new, old)) = IF Len(new) < Len(old) THEN Len(old) ELSE Len(new)
         /\ \A k \in 1 .. Len(new) : Over(new, old)[k] = new[k]
<1> DEFINE rest == SubSeq(old, Len(new) + 1, Len(old))
<1>1. /\ rest \in Seq(T)
      /\ Len(rest) = IF Len(new) < Len(old) THEN Len(old) - Len(new) ELSE 0
  OBVIOUS
<1> HIDE DEF rest
<1>2. Over(new, old) = new \o rest
  BY DEF Over, rest
<1>3. /\ new \o rest \in Seq(T) /\ Len(new \o rest) = Len(new) + Len(rest)
      /\ \A k \in 1 .. Len(new) : (new \o rest)[k] = new[k]
  <2>1. rest \in Seq(T)
    BY <1>1
  <2>2. new \o rest \in Seq(T) /\ Len(new \o rest) = Len(new) + Len(rest)
    BY <2>1
  <2>3. \A k \in 1 .. Len(new) : (new \o rest)[k] = new[k]
    BY <2>1
  <2> QED
    BY <2>2, <2>3
<1>4. Len(new) + Len(rest) = IF Len(new) < Len(old) THEN Len(old) ELSE Len(new)
  <2>1. Len(new) \in Nat /\ Len(old) \in Nat
    OBVIOUS
  <2> QED
    BY <1>1, <2>1
<1> QED
  BY <1>2, <1>3, <1>4

\* A command is given entries that lead to the cells of its slot.
LEMMA NewNamed ==
  ASSUME ListsTyped, NEW s \in Slot, NEW c, c.cid = s,
         NEW len \in Nat \ {0}, Cells(c) = len, NEW rest, NEW at,
         Names(c.prp1, rest, len, at),
         \A i \in 0 .. len - 1 : at[i] = Place(s, i)',
         c.prp2 = Prp2(s, rest),
         Len(rest) > 1 => prp_list'[s] = Over(rest, prp_list[s]),
         inflight'[s].len = len, inflight'[s].bounce => len <= BounceSize,
         inflight'[s].bounce \/ inflight'[s].buf # NULL
  PROVE  Named(c)'
<1> DEFINE first == FirstBytes(c.prp1)
           n == Len(rest)
<1>1. /\ rest \in Seq(Nat) /\ first \in 1 .. PageSize /\ Pages(n, first, len)
      /\ \A k \in 1 .. n : rest[k] % PageSize = 0
      /\ \A i \in 0 .. len - 1 : i < first => c.prp1 + i = at[i]
      /\ \A k \in 1 .. n, m \in 0 .. PageSize - 1, i \in 0 .. len - 1 :
           first + (k - 1) * PageSize + m = i => rest[k] + m = at[i]
  BY DEF Names
<1> HIDE DEF first, n
<1>2. n \in Nat /\ Needed(c) = n
  BY <1>1, NeededIs DEF Pages, first
<1>3. n > 1 => /\ Len(prp_list'[s]) >= n
               /\ \A k \in 1 .. n : prp_list'[s][k] = rest[k]
  <2> DEFINE old == prp_list[s]
  <2>1. old \in Seq(Nat)
    BY DEF ListsTyped
  <2>2. n > 1 => prp_list'[s] = Over(rest, old)
    BY DEF n
  <2> HIDE DEF old
  <2>3. /\ Len(Over(rest, old)) >= n
        /\ \A k \in 1 .. n : Over(rest, old)[k] = rest[k]
    BY <1>1, <2>1, OverIs DEF n
  <2> QED
    BY <2>2, <2>3
<1>4. /\ Len(Entries(c)') >= n
      /\ \A k \in 1 .. n : Entries(c)'[k] = rest[k]
      /\ n > 1 => c.prp2 = PrpPhys(s)
  <2>1. n = Len(rest)
    BY DEF n
  <2> QED
    BY ZenonT(60), <1>1, <1>2, <1>3, <2>1, EntriesRead
<1>5. Mapped(c)' /\ Leads(c, n, rest)'
  <2>1. /\ FirstBytes(c.prp1) \in 1 .. PageSize
        /\ Pages(n, FirstBytes(c.prp1), Cells(c))
    BY <1>1 DEF first
  <2> QED
    BY <1>1, <1>4, <2>1, CellsNamed
<1>6. \A i \in 0 .. len - 1 : Address(c, i)' = Place(s, i)'
  <2> SUFFICES ASSUME NEW i \in 0 .. len - 1
               PROVE  Address(c, i)' = at[i]
    OBVIOUS
  <2>0. \/ i < first /\ Address(c, i)' = c.prp1 + i
        \/ \E k \in 1 .. n, m \in 0 .. PageSize - 1 :
             first + (k - 1) * PageSize + m = i /\ Address(c, i)' = rest[k] + m
    <3>1. Cells(c)' = len /\ FirstBytes(c.prp1)' = first
      BY DEF Cells, FirstBytes, first
    <3> QED
      BY <1>5, <3>1 DEF Leads
  <2>1. CASE i < first /\ Address(c, i)' = c.prp1 + i
    BY <1>1, <2>1
  <2>2. CASE \E k \in 1 .. n, m \in 0 .. PageSize - 1 :
               first + (k - 1) * PageSize + m = i /\ Address(c, i)' = rest[k] + m
    BY <1>1, <2>2
  <2> QED
    BY <2>0, <2>1, <2>2
<1>7. Needed(c)' <= 1 \/ c.prp2 = PrpPhys(c.cid)
  BY <1>2, <1>4
<1>8. Cells(c)' = len
  BY DEF Cells
<1> QED
  BY <1>5, <1>6, <1>7, <1>8 DEF Named

\* A command keeps its entries and its memory while its slot does.
LEMMA NamedKept ==
  ASSUME NEW c, c.cid \in Slot, Named(c),
         inflight'[c.cid] = inflight[c.cid], prp_list'[c.cid] = prp_list[c.cid]
  PROVE  Named(c)'
<1>1. Entries(c)' = Entries(c)
  <2>1. CASE Needed(c) <= 1
    BY <2>1 DEF Entries
  <2>2. CASE ~(Needed(c) <= 1)
    <3>1. c.prp2 = PrpPhys(c.cid)
      BY <2>2 DEF Named
    <3>2. (CHOOSE t \in Slot : PrpPhys(t) = c.prp2) = c.cid
      BY <3>1, PrpPhysDiffer
    <3>3. /\ ~(Needed(c)' <= 1) /\ \E t \in Slot' : PrpPhys(t)' = (c.prp2)'
          /\ (CHOOSE t \in Slot : PrpPhys(t) = c.prp2)' = c.cid
      BY <2>2, <3>1, <3>2
    <3>4. Entries(c)' = prp_list'[c.cid]
      BY <3>3 DEF Entries
    <3>5. Entries(c) = prp_list[c.cid]
      BY <2>2, <3>1, <3>2 DEF Entries
    <3> QED
      BY <3>4, <3>5
  <2> QED
    BY <2>1, <2>2
<1>2. Mapped(c)' /\ \A i : Address(c, i)' = Address(c, i)
  BY <1>1 DEF Named, Mapped, Address
<1>3. \A i : Place(c.cid, i)' = Place(c.cid, i)
  BY DEF Place
<1>4. Cells(c)' = Cells(c)
  BY DEF Cells
<1> QED
  BY <1>2, <1>3, <1>4 DEF Named

\* Steps that touch neither a command nor a slot nor a list.
LEMMA HeldQuiet ==
  ASSUME HeldInv, UNCHANGED <<issued, cq, inflight, prp_list>>,
         giveups' \in {giveups, giveups + 1}, giveups' <= MaxGiveUps
  PROVE  HeldInv'
<1>1. ListsTyped'
  BY DEF HeldInv, ListsTyped
<1>2. giveups \in Nat /\ giveups' \in 0 .. MaxGiveUps /\ (giveups' = 0 => giveups = 0)
  BY DEF HeldInv
<1>3. OneEach => OneEach'
  BY DEF OneEach, Occupied
<1>4. ASSUME OneEach, NEW c \in issued, Named(c)
      PROVE  Named(c)'
  <2>1. c.cid \in Slot
    BY <1>4 DEF OneEach, Occupied
  <2> QED
    BY <1>4, <2>1, NamedKept
<1> QED
  BY <1>1, <1>2, <1>3, <1>4 DEF HeldInv

\* What the controller takes up turns from a command into a completion.
LEMMA HeldController ==
  ASSUME PinsInv, HeldInv, Controller
  PROVE  HeldInv'
<1>1. PICK c \in issued, ok \in BOOLEAN : Post(c, ok)
  BY DEF Controller, Read, Write, Discard, Fail
<1>2. /\ UNCHANGED <<inflight, prp_list, giveups>>
      /\ issued' = issued \ {c} /\ cq' = Append(cq, [cid |-> c.cid, ok |-> ok])
  BY <1>1 DEF Post, pathVars
<1>3. ListsTyped' /\ giveups' \in 0 .. MaxGiveUps
  BY <1>2 DEF HeldInv, ListsTyped
<1>4. ASSUME OneEach
      PROVE  OneEach'
  <2> DEFINE Entry == [cid : Slot, ok : BOOLEAN]
             e == [cid |-> c.cid, ok |-> ok]
  <2>1. c.cid \in Slot /\ c.cid \in Occupied
    BY <1>4 DEF OneEach, Occupied
  <2>2. e \in Entry /\ e.cid = c.cid
    BY <2>1
  <2>3. cq \in Seq(Entry)
    BY DEF PinsInv, PathTypes
  <2> HIDE DEF Entry, e
  <2>4. /\ Len(cq) \in Nat /\ Len(cq') = Len(cq) + 1 /\ cq'[Len(cq) + 1] = e
        /\ \A k \in DOMAIN cq : cq'[k] = cq[k]
        /\ DOMAIN cq = 1 .. Len(cq) /\ DOMAIN cq' = 1 .. Len(cq) + 1
    BY <1>2, <2>2, <2>3 DEF e
  <2>5. \A k \in DOMAIN cq' : k \in DOMAIN cq \/ k = Len(cq) + 1
    BY <2>4
  <2>6. \A k \in DOMAIN cq' : \/ k \in DOMAIN cq /\ cq'[k] = cq[k]
                              \/ k = Len(cq) + 1 /\ cq'[k].cid = c.cid
    BY <2>2, <2>4, <2>5
  <2>7. Occupied' = Occupied
    BY <1>2 DEF Occupied
  <2>8. \A k \in DOMAIN cq' : cq'[k].cid \in Occupied'
    BY <1>4, <2>1, <2>6, <2>7 DEF OneEach
  <2>9. \A j, k \in DOMAIN cq' : cq'[j].cid = cq'[k].cid => j = k
    <3> SUFFICES ASSUME NEW j \in DOMAIN cq', NEW k \in DOMAIN cq',
                        cq'[j].cid = cq'[k].cid
                 PROVE  j = k
      OBVIOUS
    <3>1. \A i \in DOMAIN cq : cq[i].cid # c.cid
      BY <1>4 DEF OneEach
    <3>2. /\ \/ j \in DOMAIN cq /\ cq'[j] = cq[j]
             \/ j = Len(cq) + 1 /\ cq'[j].cid = c.cid
          /\ \/ k \in DOMAIN cq /\ cq'[k] = cq[k]
             \/ k = Len(cq) + 1 /\ cq'[k].cid = c.cid
      BY <2>6
    <3> QED
      BY <1>4, <3>1, <3>2 DEF OneEach
  <2>10. \A d \in issued' : d \in issued /\ d # c /\ d.cid # c.cid
    BY <1>2, <1>4 DEF OneEach
  <2>11. \A d \in issued' : \A k \in DOMAIN cq' : d.cid # cq'[k].cid
    BY <1>4, <2>6, <2>10 DEF OneEach
  <2> QED
    BY <1>4, <2>7, <2>8, <2>9, <2>10, <2>11 DEF OneEach
<1>5. ASSUME OneEach, NEW d \in issued, Named(d)
      PROVE  Named(d)'
  <2>1. d.cid \in Slot
    BY <1>5 DEF OneEach, Occupied
  <2> QED
    BY <1>2, <1>5, <2>1, NamedKept
<1> QED
  BY <1>2, <1>3, <1>4, <1>5 DEF HeldInv

\* The new command c is the only one in slot k.
LEMMA OneEachNew ==
  ASSUME PinsInv, OneEach, NEW k \in Slot, k \notin Occupied,
         NEW c, c.cid = k, issued' = issued \cup {c}, cq' = cq,
         inflight'[k].ioreq # NULL, \A t \in Slot : t # k => inflight'[t] = inflight[t]
  PROVE  OneEach'
<1>1. Occupied' = Occupied \cup {k}
  BY DEF Occupied
<1>2. \A d \in issued : d.cid \in Occupied /\ d.cid # k
  BY DEF OneEach
<1>3. \A j \in DOMAIN cq : cq[j].cid \in Occupied /\ cq[j].cid # k
  BY DEF OneEach
<1> QED
  BY <1>1, <1>2, <1>3 DEF OneEach

\* A slot is released, and nothing is left of its command.
LEMMA HeldHarvest ==
  ASSUME PinsInv, HeldInv, Harvest
  PROVE  HeldInv'
<1> DEFINE k == Head(cq).cid
           Entry == [cid : Slot, ok : BOOLEAN]
<1>1. /\ cq # <<>> /\ cq' = Tail(cq) /\ UNCHANGED <<issued, giveups, prp_list>>
      /\ inflight' \in {inflight, [inflight EXCEPT ![k] = FreeInflight]}
  BY DEF Harvest, pathVars
<1>2. ListsTyped' /\ giveups' \in 0 .. MaxGiveUps
  BY <1>1 DEF HeldInv, ListsTyped
<1>3. DOMAIN inflight = Slot
  BY DEF PinsInv, PathTypes
<1>4. /\ cq \in Seq(Entry) /\ \A e \in Entry : e.cid \in Slot
  BY DEF PinsInv, PathTypes
<1> HIDE DEF Entry
<1>5. /\ Len(cq) \in Nat /\ 1 \in DOMAIN cq /\ k = cq[1].cid
      /\ \A j \in DOMAIN cq' : /\ j + 1 \in DOMAIN cq /\ cq'[j] = cq[j + 1]
                               /\ j \in Nat /\ j + 1 # 1
  BY <1>1, <1>4
<1> HIDE DEF k
<1>6. \A s \in Slot : s # k => inflight'[s] = inflight[s]
  BY <1>1, <1>3
<1>7. ASSUME OneEach
      PROVE  /\ \A c \in issued : c.cid # k /\ c.cid \in Slot
             /\ \A j \in DOMAIN cq' : cq'[j].cid # k
  BY <1>5, <1>7 DEF OneEach, Occupied
<1>8. ASSUME OneEach
      PROVE  OneEach'
  <2>1. \A s \in Occupied : s # k => s \in Occupied'
    BY <1>6 DEF Occupied
  <2>2. /\ \A c \in issued' : c.cid \in Occupied'
        /\ \A c, d \in issued' : c.cid = d.cid => c = d
    BY <1>1, <1>7, <1>8, <2>1 DEF OneEach
  <2>3. \A j \in DOMAIN cq' : cq'[j].cid \in Occupied'
    BY <1>5, <1>7, <1>8, <2>1 DEF OneEach
  <2>4. \A i, j \in DOMAIN cq' : cq'[i].cid = cq'[j].cid => i = j
    <3> SUFFICES ASSUME NEW i \in DOMAIN cq', NEW j \in DOMAIN cq',
                        cq'[i].cid = cq'[j].cid
                 PROVE  i = j
      OBVIOUS
    <3>1. /\ i + 1 \in DOMAIN cq /\ j + 1 \in DOMAIN cq /\ i \in Nat /\ j \in Nat
          /\ cq[i + 1].cid = cq[j + 1].cid
      BY <1>5
    <3>2. i + 1 = j + 1
      BY <1>8, <3>1 DEF OneEach
    <3> QED
      BY <3>1, <3>2
  <2>5. \A c \in issued' : \A j \in DOMAIN cq' : c.cid # cq'[j].cid
    BY <1>1, <1>5, <1>8 DEF OneEach
  <2> QED
    BY <2>2, <2>3, <2>4, <2>5 DEF OneEach
<1>9. ASSUME OneEach, NEW c \in issued, Named(c)
      PROVE  Named(c)'
  <2>1. c.cid \in Slot /\ inflight'[c.cid] = inflight[c.cid]
    BY <1>6, <1>7, <1>9
  <2> QED
    BY <1>1, <1>9, <2>1, NamedKept
<1> QED
  BY <1>1, <1>2, <1>8, <1>9 DEF HeldInv

\* The lists when the one of slot k is written, or left alone.
LEMMA ListsWritten ==
  ASSUME ListsTyped, NEW k \in Slot, NEW new \in Seq(Nat), Len(new) <= MaxPrp,
         prp_list' \in {prp_list, [prp_list EXCEPT ![k] = new]}
  PROVE  ListsTyped'
  BY DEF ListsTyped

\* A command takes a slot, and its list page, that no other has.
LEMMA HeldIssue ==
  ASSUME PinsInv, HeldInv, pc \in {"submit", "pinned"},
         NEW prp1, NEW rest, NEW bounce \in BOOLEAN, NEW own,
         Issue(prp1, rest, bounce, own), UNCHANGED giveups,
         io[cur].length \in Nat \ {0}, io[cur].length % BlockSize = 0,
         bounce \/ io[cur].data # NULL, Len(rest) <= MaxPrp,
         bounce => io[cur].length <= BounceSize,
         Names(prp1, rest, io[cur].length,
               IF bounce THEN BounceCells(slot, io[cur].length) ELSE DirectCells(io[cur]))
  PROVE  HeldInv'
<1>a. PICK s \in Slot : s = slot
  BY DEF PinsInv, PathTypes
<1> DEFINE f == io[cur]
<1>b. PICK c : c =
        [cid  |-> s, cmd |-> IF ask[cur].cmd \in Writes THEN "W" ELSE "R",
         slba |-> ByteOffset(ask[cur].cmd, f) \div BlockSize,
         nlb  |-> f.length \div BlockSize,
         prp1 |-> prp1, prp2 |-> Prp2(s, rest)]
  OBVIOUS
<1> DEFINE i == [ioreq |-> cur, suppress |-> Split(cur), bounce |-> bounce,
                 write |-> ask[cur].cmd \in Writes, buf |-> f.data,
                 len |-> f.length, own |-> own]
           new == Over(rest, prp_list[s])
           at == IF bounce THEN BounceCells(s, f.length) ELSE DirectCells(f)
<1>1. /\ issued' = issued \cup {c} /\ cq' = cq
      /\ inflight' = [inflight EXCEPT ![s] = i]
      /\ prp_list' = IF bounce /\ Len(rest) <= 1 THEN prp_list
                     ELSE [prp_list EXCEPT ![s] = new]
  BY <1>a, <1>b DEF Issue
<1>2. /\ c.cid = s /\ c.nlb = f.length \div BlockSize /\ c.prp1 = prp1
      /\ c.prp2 = Prp2(s, rest)
  BY <1>b
<1>3. i.ioreq = cur /\ i.bounce = bounce /\ i.buf = f.data /\ i.len = f.length
  OBVIOUS
<1>4. f.length \in Nat \ {0} /\ f.length % BlockSize = 0 /\ Names(prp1, rest, f.length, at)
  BY <1>a
<1>5. s \in Slot /\ s \notin Occupied /\ cur # NULL /\ DOMAIN inflight = Slot
  BY <1>a DEF PinsInv, PathTypes, Prepared
<1> HIDE DEF i, f, new, at
<1>6. /\ inflight'[s] = i
      /\ \A t \in Slot : t # s => inflight'[t] = inflight[t]
  BY <1>1, <1>5
<1>7. rest \in Seq(Nat) /\ prp_list[s] \in Seq(Nat) /\ Len(prp_list[s]) <= MaxPrp
      /\ ListsTyped /\ DOMAIN prp_list = Slot
  BY <1>4, <1>5 DEF Names, HeldInv, ListsTyped
<1>8. new \in Seq(Nat) /\ Len(new) <= MaxPrp
  <2> DEFINE old == prp_list[s]
  <2>1. new = Over(rest, old) /\ old \in Seq(Nat) /\ Len(old) <= MaxPrp
    BY <1>7 DEF new
  <2> HIDE DEF old
  <2> QED
    BY <1>7, <2>1, OverIs
<1>9. ListsTyped'
  <2>1. prp_list' \in {prp_list, [prp_list EXCEPT ![s] = new]}
    BY <1>1
  <2> QED
    BY <1>5, <1>7, <1>8, <2>1, ListsWritten
<1>10. /\ Len(rest) > 1 => prp_list'[s] = new
       /\ \A t \in Slot : t # s => prp_list'[t] = prp_list[t]
  BY <1>1, <1>5, <1>7
<1>11. Cells(c) = f.length
  <2>1. BlockSize \in Nat \ {0} /\ f.length \in Int
    BY <1>4, Limits
  <2>2. (f.length \div BlockSize) * BlockSize = f.length - (f.length % BlockSize)
    BY <2>1, Quotient
  <2> QED
    BY <1>2, <1>4, <2>1, <2>2 DEF Cells
<1>12. \A k \in 0 .. f.length - 1 : at[k] = Place(s, k)'
  <2> SUFFICES ASSUME NEW k \in 0 .. f.length - 1
               PROVE  at[k] = Place(s, k)'
    OBVIOUS
  <2>1. Place(s, k)' = IF i.bounce THEN BouncePhys(s) + k ELSE Phys(i.buf + k)
    BY <1>6 DEF Place
  <2>2. CASE bounce
    BY <1>3, <2>1, <2>2 DEF at, BounceCells
  <2>3. CASE ~bounce
    BY <1>3, <2>1, <2>3 DEF at, DirectCells
  <2> QED
    BY <2>2, <2>3
<1>13. /\ inflight'[s].bounce \/ inflight'[s].buf # NULL
       /\ inflight'[s].len = f.length
       /\ inflight'[s].bounce => f.length <= BounceSize
  BY <1>3, <1>6 DEF f
<1>14. Named(c)'
  <2> DEFINE len == f.length
  <2>1. /\ len \in Nat \ {0} /\ Cells(c) = len /\ Names(c.prp1, rest, len, at)
        /\ (\A k \in 0 .. len - 1 : at[k] = Place(s, k)')
        /\ inflight'[s].len = len /\ (inflight'[s].bounce => len <= BounceSize)
        /\ c.cid = s /\ c.prp2 = Prp2(s, rest)
        /\ Len(rest) > 1 => prp_list'[s] = Over(rest, prp_list[s])
    BY <1>2, <1>4, <1>10, <1>11, <1>12, <1>13 DEF new
  <2> HIDE DEF len
  <2> QED
    BY <1>5, <1>7, <1>13, <2>1, NewNamed
<1>15. ASSUME OneEach
       PROVE  OneEach'
  BY <1>1, <1>2, <1>3, <1>5, <1>6, <1>15, OneEachNew
<1>16. ASSUME OneEach, NEW d \in issued, Named(d)
       PROVE  Named(d)'
  <2>1. d.cid \in Slot /\ d.cid # s
    BY <1>5, <1>16 DEF OneEach, Occupied
  <2> QED
    BY <1>6, <1>10, <1>16, <2>1, NamedKept
<1>17. giveups = 0 => OneEach' /\ \A d \in issued' : d.cmd # "DSM" => Named(d)'
  <2> SUFFICES ASSUME giveups = 0
               PROVE  OneEach' /\ \A d \in issued' : d.cmd # "DSM" => Named(d)'
    OBVIOUS
  <2>1. OneEach /\ \A d \in issued : d.cmd # "DSM" => Named(d)
    BY DEF HeldInv
  <2>2. \A d \in issued' : d \in issued \/ d = c
    BY <1>1
  <2> QED
    BY <1>14, <1>15, <1>16, <2>1, <2>2
<1>18. giveups' = giveups /\ giveups \in 0 .. MaxGiveUps
  BY DEF HeldInv
<1> QED
  BY <1>9, <1>17, <1>18 DEF HeldInv

LEMMA HeldUnmap ==
  ASSUME PinsInv, HeldInv, Unmap
  PROVE  HeldInv'
<1> DEFINE s == FreeSlot
           i == [FreeInflight EXCEPT !.ioreq = cur, !.suppress = TRUE]
           c == [cid |-> s, cmd |-> "DSM", nr |-> Len(ask[cur].ranges) - 1]
<1>1. /\ pc = "dispatch" /\ Occupied # Slot
      /\ issued' = issued \cup {c} /\ cq' = cq
      /\ inflight' = [inflight EXCEPT ![s] = i]
      /\ UNCHANGED <<prp_list, giveups>>
  BY DEF Unmap
<1>2. c.cid = s /\ c.cmd = "DSM" /\ i.ioreq = cur
  BY DEF FreeInflight
<1>3. s \in Slot \ Occupied /\ cur # NULL /\ DOMAIN inflight = Slot
  BY <1>1, FreeSlotIsFree DEF PinsInv, PathTypes
<1> HIDE DEF c, i, s
<1>4. /\ inflight'[s] = i
      /\ \A t \in Slot : t # s => inflight'[t] = inflight[t]
  BY <1>1, <1>3
<1>5. ListsTyped' /\ giveups' \in 0 .. MaxGiveUps
  BY <1>1 DEF HeldInv, ListsTyped
<1>6. ASSUME OneEach
      PROVE  OneEach'
  BY <1>1, <1>2, <1>3, <1>4, <1>6, OneEachNew
<1>7. ASSUME OneEach, NEW d \in issued, Named(d)
      PROVE  Named(d)'
  <2>1. d.cid \in Slot /\ d.cid # s
    BY <1>3, <1>7 DEF OneEach, Occupied
  <2> QED
    BY <1>1, <1>4, <1>7, <2>1, NamedKept
<1> QED
  BY <1>1, <1>2, <1>5, <1>6, <1>7 DEF HeldInv

LEMMA HeldBounce ==
  ASSUME PinsInv, FieldsInv, HeldInv, SubmitBounce
  PROVE  HeldInv'
<1> DEFINE f == io[cur]
           s == slot
           rest == BounceRest(s, f.length)
<1>1. /\ pc = "submit" /\ ~WrongLength(f) /\ f.length # 0 /\ UseBounce(f)
      /\ Issue(BouncePhys(s), rest, TRUE, FALSE) /\ UNCHANGED giveups
  BY DEF SubmitBounce, Accepts
<1>2. f.length \in Nat
  BY <1>1 DEF FieldsInv, InMemory
<1>3. f.length \in Nat \ {0} /\ f.length <= BounceSize /\ f.length % BlockSize = 0
  BY <1>1, <1>2 DEF UseBounce, WrongLength
<1>4. s \in Slot
  BY DEF PinsInv, PathTypes
<1> DEFINE len == f.length
<1>5. /\ Names(BouncePhys(s), rest, len, BounceCells(s, len))
      /\ Len(rest) <= MaxPrp
  <2>1. len \in Nat \ {0} /\ len <= BounceSize
    BY <1>3
  <2>2. rest = BounceRest(s, len)
    OBVIOUS
  <2> HIDE DEF len, s, rest
  <2> QED
    BY <1>4, <2>1, <2>2, BounceNames
<1> HIDE DEF rest
<1> QED
  BY <1>1, <1>3, <1>5, HeldIssue

\* Both ends of the walk over the DMA entries.
LEMMA HeldDirect ==
  ASSUME PinsInv, FieldsInv, HeldInv, SubmitDirect
  PROVE  HeldInv'
<1>1. PICK list \in DmaLists(io[cur]) :
        LET rest == DirectRest(list, io[cur])
        IN  IF Len(rest) > MaxPrp
            THEN /\ prp_list' = [prp_list EXCEPT ![slot] = SubSeq(rest, 1, MaxPrp)]
                 /\ UNCHANGED <<inflight, issued, cq>>
            ELSE Issue(Phys(io[cur].data), rest, FALSE, ~Pooled(list))
  BY DEF SubmitDirect
<1> DEFINE f == io[cur]
           s == slot
           rest == DirectRest(list, f)
<1>2. pc = "pinned" /\ UNCHANGED giveups
  BY DEF SubmitDirect
<1>3. f.data # NULL /\ InMemory(f) /\ f.length # 0 /\ f.length % BlockSize = 0
  BY <1>2 DEF PinsInv, Prepared, FieldsInv
<1>4. /\ f.data \in Nat /\ f.length \in Nat \ {0} /\ f.data + f.length <= UserSize
  BY <1>3 DEF InMemory
<1>5. s \in Slot /\ s \notin Occupied
  BY <1>2 DEF PinsInv, PathTypes, Prepared
<1>6. Names(Phys(f.data), rest, f.length, DirectCells(f))
  <2> HIDE DEF f
  <2> QED
    BY <1>4, DirectNames DEF f
<1>7. rest \in Seq(Nat)
  BY <1>6 DEF Names
<1>8. CASE Len(rest) > MaxPrp
  <2> DEFINE new == SubSeq(rest, 1, MaxPrp)
  <2>1. prp_list' = [prp_list EXCEPT ![s] = new] /\ UNCHANGED <<inflight, issued, cq>>
    BY <1>1, <1>8
  <2>2. new \in Seq(Nat) /\ Len(new) <= MaxPrp
    <3>1. MaxPrp \in Nat
      BY TransferAssumption
    <3> HIDE DEF rest
    <3> QED
      BY <1>7, <1>8, <3>1
  <2> HIDE DEF new, rest, s
  <2>3. ListsTyped'
    BY <1>5, <2>1, <2>2, ListsWritten DEF HeldInv
  <2>4. \A t \in Slot : t # s => prp_list'[t] = prp_list[t]
    BY <2>1 DEF HeldInv, ListsTyped
  <2>5. OneEach => OneEach'
    BY <2>1 DEF OneEach, Occupied
  <2>6. ASSUME OneEach, NEW d \in issued, Named(d)
        PROVE  Named(d)'
    <3>1. d.cid \in Slot /\ d.cid # s
      BY <1>5, <2>6 DEF OneEach, Occupied
    <3> QED
      BY <2>1, <2>4, <2>6, <3>1, NamedKept
  <2> QED
    BY <1>2, <2>1, <2>3, <2>5, <2>6 DEF HeldInv
<1>9. CASE ~(Len(rest) > MaxPrp)
  <2> DEFINE own == ~Pooled(list)
             prp1 == Phys(f.data)
  <2>1. Issue(prp1, rest, FALSE, own)
    BY <1>1, <1>9
  <2>2. Len(rest) <= MaxPrp
    <3>1. MaxPrp \in Nat
      BY TransferAssumption
    <3> HIDE DEF rest
    <3> QED
      BY <1>7, <1>9, <3>1
  <2> HIDE DEF rest, own, prp1
  <2> QED
    BY <1>2, <1>3, <1>4, <1>6, <2>1, <2>2, HeldIssue DEF prp1
<1> QED
  BY <1>8, <1>9

LEMMA HeldStep ==
  ASSUME PinsInv, FieldsInv, HeldInv, [Next]_vars
  PROVE  HeldInv'
<1>0. giveups \in Nat /\ giveups <= MaxGiveUps /\ MaxGiveUps \in Nat
  BY TransferAssumption DEF HeldInv
<1>1. CASE Controller \/ SubmitBounce \/ SubmitDirect \/ Unmap \/ Harvest
  BY <1>1, HeldController, HeldBounce, HeldDirect, HeldUnmap, HeldHarvest
<1>2. CASE \/ UNCHANGED vars \/ \E r \in Req : BeginIO(r) \/ GetMsg(r)
           \/ Dispatch \/ Reject \/ StartDMA \/ StartDMARefused
           \/ AllocFails \/ UnmapRefused \/ NextChunk \/ PollDone
  <2>1. UNCHANGED <<issued, cq, inflight, prp_list, giveups>>
    BY <1>2 DEF vars, pathVars, devVars, BeginIO, GetMsg, Dispatch, Reject,
       StartDMA, StartDMARefused, AllocFails, UnmapRefused, NextChunk, PollDone
  <2> QED
    BY <1>0, <2>1, HeldQuiet
<1>3. CASE Busy
  <2>1. /\ UNCHANGED <<issued, cq, inflight, prp_list>>
        /\ giveups' = giveups + 1 /\ giveups < MaxGiveUps
    BY <1>3 DEF Busy, pathVars, devVars
  <2> QED
    BY <1>0, <2>1, HeldQuiet
<1>4. CASE PollTimeout
  <2>1. prp_list' = prp_list /\ giveups' = giveups + 1 /\ giveups < MaxGiveUps
    BY <1>4 DEF PollTimeout
  <2>2. ListsTyped' /\ giveups' \in 0 .. MaxGiveUps /\ giveups' # 0
    BY <1>0, <2>1 DEF HeldInv, ListsTyped
  <2> QED
    BY <2>2 DEF HeldInv
<1> QED
  BY <1>1, <1>2, <1>3, <1>4 DEF Next, Task

LEMMA HeldStart ==
  ASSUME Init
  PROVE  HeldInv
<1>1. /\ prp_list = [s \in Slot |-> <<>>] /\ issued = {} /\ cq = <<>> /\ giveups = 0
  BY DEF Init
<1>2. MaxPrp \in Nat /\ MaxGiveUps \in Nat
  BY TransferAssumption
<1>3. ListsTyped
  BY <1>1, <1>2 DEF ListsTyped
<1>4. OneEach
  BY <1>1 DEF OneEach
<1> QED
  BY <1>1, <1>2, <1>3, <1>4 DEF HeldInv

(* As long as no wait has given up, each command under way has a slot to   *)
(* itself, and the PRP entries it was given still lead to its memory.      *)
THEOREM HeldInvariant == Spec => []HeldInv
<1>1. Init => HeldInv
  BY HeldStart
<1>2. PinsInv /\ FieldsInv /\ HeldInv /\ [Next]_vars => HeldInv'
  BY HeldStep
<1> QED
  BY <1>1, <1>2, PinsInvariant, FieldsInvariant, PTL DEF Spec

(* Whatever the controller may touch for a command is the bounce buffer of *)
(* its slot, or memory of the caller that is still pinned, to the last     *)
(* cell: however exec cuts the buffer, in whatever order commands complete *)
(* and slots are used again (nvme_io.c:198-287, 310-460).                  *)
THEOREM ControllerStaysInHeldMemory == Spec => []DeviceMemoryHeld
<1>1. PinsInv /\ HeldInv => DeviceMemoryHeld
  <2> SUFFICES ASSUME PinsInv, HeldInv, giveups = 0, NEW c \in issued
               PROVE  /\ inflight[c.cid].ioreq # NULL
                      /\ c.cmd # "DSM" =>
                           /\ Mapped(c)
                           /\ Touched(c) \subseteq
                                IF inflight[c.cid].bounce
                                THEN BouncePhys(c.cid) .. BouncePhys(c.cid) + BounceSize - 1
                                ELSE {Phys(inflight[c.cid].buf + k) :
                                        k \in 0 .. inflight[c.cid].len - 1}
                           /\ inflight[c.cid].bounce \/ PinOf(c.cid) \in pinned
    BY DEF DeviceMemoryHeld
  <2>1. c.cid \in Occupied /\ (c.cmd # "DSM" => Named(c))
    BY DEF HeldInv, OneEach
  <2>2. c.cmd # "DSM" => inflight[c.cid].bounce \/ PinOf(c.cid) \in pinned
    <3>1. ASSUME c.cmd # "DSM", ~inflight[c.cid].bounce
          PROVE  c.cid \in Direct
      BY <2>1, <3>1 DEF Named, Direct
    <3>2. pinned = {PinOf(s) : s \in Direct}
                     \cup (IF pc = "pinned" THEN {Pin} ELSE {})
      BY DEF PinsInv, PinsBalanced
    <3> QED
      BY <3>1, <3>2
  <2>3. ASSUME c.cmd # "DSM", NEW x \in Touched(c)
        PROVE  IF inflight[c.cid].bounce
               THEN x \in BouncePhys(c.cid) .. BouncePhys(c.cid) + BounceSize - 1
               ELSE x \in {Phys(inflight[c.cid].buf + k) : k \in 0 .. inflight[c.cid].len - 1}
    <3>1. PICK len \in Nat : len = inflight[c.cid].len /\ len = Cells(c)
      BY <2>1, <2>3 DEF Named
    <3>2. PICK i \in 0 .. len - 1 : x = Place(c.cid, i)
      BY <2>1, <2>3, <3>1 DEF Named, Touched
    <3>3. CASE inflight[c.cid].bounce
      <4>1. PICK b \in Nat : b = BouncePhys(c.cid)
        BY <2>1, BounceAligned DEF Occupied
      <4>2. x = b + i /\ len <= BounceSize /\ BounceSize \in Nat
        BY <2>1, <2>3, <3>1, <3>2, <3>3, <4>1, TransferAssumption DEF Place, Named
      <4>3. x \in b .. b + BounceSize - 1
        BY <3>1, <3>2, <4>1, <4>2
      <4> QED
        BY <3>3, <4>1, <4>3
    <3>4. CASE ~inflight[c.cid].bounce
      BY <3>1, <3>2, <3>4 DEF Place
    <3> QED
      BY <3>3, <3>4
  <2> QED
    BY <2>1, <2>2, <2>3 DEF Occupied, Named
<1> QED
  BY <1>1, PinsInvariant, HeldInvariant, PTL

-----------------------------------------------------------------------------
(* Types.                                                                  *)

\* The types of what the owner of a request has put in it.
LEMMA AskedTypes ==
  ASSUME NEW r \in Req, NEW a \in Shapes[r]
  PROVE  /\ Fields(a) \in FieldTypes /\ a.length \in 0 .. Word - 1
         /\ a.ranges \in Seq(Seq(Nat)) /\ Word \in Nat \ {0}
<1>1. /\ a \in [cmd : {"READ", "WRITE", "READ64", "WRITE64", "FORMAT64", "UNMAP"},
                offset : 0 .. Word - 1, actual : Nat, length : 0 .. Word - 1,
                data : Nat \cup {NULL}, ranges : Seq(Seq(Nat))]
      /\ Word \in Nat \ {0}
  BY TransferAssumption
<1> QED
  BY <1>1 DEF FieldTypes, Fields

\* The fields of the next command of the request in hand.
LEMMA ChunkTypes ==
  ASSUME PinsInv, FieldsInv, RestTyped, pc = "dispatch"
  PROVE  Chunk(cur) \in FieldTypes
<1> DEFINE a == ask[cur]
<1>1. cur \in Req /\ a \in Shapes[cur] /\ a # NULL
  BY DEF PinsInv, PathTypes, OneOwner, FieldsInv
<1>2. /\ a.offset \in Nat /\ a.actual \in Nat /\ a.length \in 0 .. Word - 1
      /\ a.data \in Nat \cup {NULL} /\ Word \in Nat \ {0}
      /\ done \in Nat /\ max_transfer \in Nat
  <2>1. max_transfer \in Nat /\ done \in Nat
    BY TransferAssumption DEF FieldsInv
  <2> HIDE DEF a
  <2> QED
    BY <1>1, <2>1, ShapeTypes, AskedTypes DEF FieldTypes, Fields
<1>3. CASE ~Split(cur)
  BY <1>1, <1>3 DEF Chunk, RestTyped
<1>4. CASE Split(cur)
  <2>1. done < a.length
    BY <1>4 DEF FieldsInv
  <2> DEFINE off == a.actual * Word + a.offset + done
             len == IF a.length - done > max_transfer
                    THEN max_transfer ELSE a.length - done
             data == IF a.data = NULL THEN NULL ELSE a.data + done
  <2>2. Chunk(cur) = [offset |-> off % Word, actual |-> off \div Word,
                      data |-> data, length |-> len]
    BY <1>4 DEF Chunk
  <2> HIDE DEF a
  <2>3. len \in 0 .. Word - 1 /\ data \in Nat \cup {NULL}
    BY <1>2, <2>1
  <2>4. off \in Nat
    <3>1. a.actual * Word \in Nat
      BY <1>2
    <3> QED
      BY <1>2, <3>1
  <2> HIDE DEF off, len, data
  <2>5. off % Word \in 0 .. Word - 1 /\ off \div Word \in Nat
    <3>1. off \in Int /\ off >= 0
      BY <2>4
    <3>2. off % Word \in 0 .. Word - 1 /\ off \div Word \in Int /\ off \div Word >= 0
      BY <1>2, <3>1, Quotient
    <3> PICK high : high = off \div Word
      OBVIOUS
    <3>3. high \in Nat
      BY <3>2
    <3> QED
      BY <3>2, <3>3
  <2> QED
    BY <2>2, <2>3, <2>5 DEF FieldTypes
<1> QED
  BY <1>3, <1>4

\* Nothing but the request in hand, or the path's bookkeeping, moves.
LEMMA TypesQuiet ==
  ASSUME RestTyped, UNCHANGED <<ask, io, io_Error, replied, faulted, inflight, dsm_buf>>,
         pc' = "loop" => cur' = NULL
  PROVE  RestTyped'
  BY DEF RestTyped, AnswersTyped, SlotsTyped, FieldTypes

LEMMA TypesClient ==
  ASSUME PinsInv, RestTyped, NEW r \in Req, BeginIO(r)
  PROVE  RestTyped'
<1>1. PICK a \in Shapes[r] : /\ ask' = [ask EXCEPT ![r] = a]
                            /\ io' = [io EXCEPT ![r] = Fields(a)]
  BY DEF BeginIO
<1>2. /\ io_Error' = [io_Error EXCEPT ![r] = "none"]
      /\ UNCHANGED <<replied, pc, cur, inflight, dsm_buf, faulted>>
  BY DEF BeginIO, taskVars, pathVars
<1>3. \A q \in Req : ask'[q] # NULL => io'[q] \in FieldTypes
  <2>1. Fields(a) \in FieldTypes
    BY AskedTypes
  <2>2. /\ io'[r] = Fields(a)
        /\ \A q \in Req : q # r => io'[q] = io[q] /\ ask'[q] = ask[q]
    BY <1>1 DEF PinsInv, PathTypes
  <2> QED
    BY <2>1, <2>2 DEF RestTyped, FieldTypes
<1>4. AnswersTyped'
  BY <1>2 DEF RestTyped, AnswersTyped, Errors
<1> QED
  BY <1>2, <1>3, <1>4 DEF RestTyped, SlotsTyped

\* Every reply of dispatch.
LEMMA TypesAnswer ==
  ASSUME PinsInv, FieldsInv, RestTyped, cur # NULL,
         NEW err \in Errors, NEW actual \in Nat, Answer(err, actual),
         faulted' \subseteq faulted \cup {cur}, dsm_buf' = dsm_buf,
         \A s \in Slot : \/ inflight'[s] = inflight[s]
                         \/ inflight'[s] = FreeInflight
  PROVE  RestTyped'
<1>1. cur \in Req /\ ask[cur] \in Shapes[cur] /\ DOMAIN io = Req
  BY DEF PinsInv, PathTypes, OneOwner, FieldsInv
<1>2. PICK n : /\ n = (IF ~Split(cur) THEN actual
                       ELSE IF err = "none" THEN ask[cur].length ELSE 0)
               /\ ReplyMsg(cur, err, n)
  BY DEF Answer
<1>3. n \in Nat
  BY <1>1, <1>2, ShapeTypes
<1> DEFINE new == [Fields(ask[cur]) EXCEPT !.actual = n]
<1>4. /\ io' = [io EXCEPT ![cur] = new] /\ replied' = replied \cup {cur}
      /\ io_Error' = [io_Error EXCEPT ![cur] = err]
      /\ ask' = ask /\ pc' = "loop" /\ cur' = NULL
  BY <1>2 DEF ReplyMsg, Answer, Dispatched
<1>5. new \in FieldTypes
  BY <1>1, <1>3, AskedTypes DEF FieldTypes, Fields
<1> HIDE DEF new
<1>6. \A q \in Req : ask'[q] # NULL => io'[q] \in FieldTypes
  BY <1>1, <1>4, <1>5 DEF RestTyped, FieldTypes
<1>7. AnswersTyped'
  BY <1>1, <1>4 DEF RestTyped, AnswersTyped
<1>8. SlotsTyped'
  BY DEF RestTyped, SlotsTyped, FreeInflight
<1> QED
  BY <1>4, <1>6, <1>7, <1>8 DEF RestTyped

\* A command takes a slot for the request in hand.
LEMMA TypesIssue ==
  ASSUME PinsInv, FieldsInv, RestTyped, cur # NULL, pc # "loop", UNCHANGED <<reqVars, faulted>>,
         NEW prp1, NEW rest, NEW bounce, NEW own, Issue(prp1, rest, bounce, own)
  PROVE  RestTyped'
<1> DEFINE i == [ioreq |-> cur, suppress |-> Split(cur), bounce |-> bounce,
                 write |-> ask[cur].cmd \in Writes, buf |-> io[cur].data,
                 len |-> io[cur].length, own |-> own]
<1>1. /\ inflight' = [inflight EXCEPT ![slot] = i]
      /\ i.buf = io[cur].data /\ i.len = io[cur].length
  BY DEF Issue
<1> HIDE DEF i
<1>2. i.buf \in Nat \cup {NULL} /\ i.len \in Nat
  BY <1>1 DEF FieldsInv, InMemory
<1>3. SlotsTyped'
  BY <1>1, <1>2 DEF RestTyped, SlotsTyped, PinsInv, PathTypes
<1>4. dsm_buf' = dsm_buf /\ (pc' = "loop" => cur' = NULL)
  BY DEF Issue, Dispatched
<1> QED
  BY <1>3, <1>4 DEF RestTyped, AnswersTyped, FieldTypes, reqVars

LEMMA TypesUnmap ==
  ASSUME PinsInv, FieldsInv, RestTyped, Unmap
  PROVE  RestTyped'
<1> DEFINE ranges == ask[cur].ranges
<1>1. cur \in Req /\ ask[cur] \in Shapes[cur]
  BY DEF Unmap, PinsInv, PathTypes, OneOwner, FieldsInv
<1>2. /\ dsm_buf # NULL /\ Len(ranges) \in 1 .. MaxRanges
      /\ dsm_buf' = Over(ranges, dsm_buf)
      /\ UNCHANGED <<reqVars, faulted>> /\ pc' = "poll"
  BY DEF Unmap
<1>3. /\ ranges \in Seq(Seq(Nat)) /\ dsm_buf \in Seq(Seq(Nat))
      /\ Len(dsm_buf) <= MaxRanges
  BY <1>1, <1>2, AskedTypes DEF RestTyped
<1> HIDE DEF ranges
<1>4. dsm_buf' \in Seq(Seq(Nat)) /\ Len(dsm_buf') <= MaxRanges
  <2>1. \A T, new, old : new \in Seq(T) /\ old \in Seq(T) =>
          /\ Over(new, old) \in Seq(T)
          /\ Len(Over(new, old)) = IF Len(new) < Len(old) THEN Len(old) ELSE Len(new)
    BY OverIs
  <2>2. MaxRanges \in Nat
    BY TransferAssumption
  <2> QED
    BY <1>2, <1>3, <2>1, <2>2
<1>5. SlotsTyped'
  <2> DEFINE i == [FreeInflight EXCEPT !.ioreq = cur, !.suppress = TRUE]
  <2>1. inflight' = [inflight EXCEPT ![FreeSlot] = i]
    BY DEF Unmap
  <2>2. i.buf = NULL /\ i.len = 0
    BY DEF FreeInflight
  <2> HIDE DEF i
  <2> QED
    BY <2>1, <2>2 DEF RestTyped, SlotsTyped, PinsInv, PathTypes
<1> QED
  BY <1>2, <1>4, <1>5 DEF RestTyped, AnswersTyped, FieldTypes, reqVars

LEMMA TypesHarvest ==
  ASSUME PinsInv, FieldsInv, RestTyped, Harvest
  PROVE  RestTyped'
<1>1. PathTypes /\ OneOwner /\ NULL \notin Req
  BY TransferAssumption DEF PinsInv
<1>k. PICK k : k = Head(cq).cid
  OBVIOUS
<1>r. PICK r : r = inflight[k].ioreq
  OBVIOUS
<1>n. PICK n : n = IF Head(cq).ok THEN io[r].length ELSE 0
  OBVIOUS
<1>e. PICK err : err = IF Head(cq).ok THEN "none" ELSE "failed"
  OBVIOUS
<1>2. UNCHANGED <<ask, pc, cur, faulted>>
  BY Zenon DEF Harvest, taskVars
<1>3. k \in Slot
  <2> DEFINE Entry == [cid : Slot, ok : BOOLEAN]
  <2>1. cq # <<>> /\ cq \in Seq(Entry) /\ \A e \in Entry : e.cid \in Slot
    BY <1>1 DEF Harvest, PathTypes
  <2> HIDE DEF Entry
  <2> QED
    BY <1>k, <2>1
<1>4. CASE r = NULL
  <2>1. UNCHANGED <<io, io_Error, replied, inflight, dsm_buf>>
    BY <1>k, <1>r, <1>4 DEF Harvest, pathVars
  <2> QED
    BY <1>2, <2>1, TypesQuiet DEF RestTyped
<1>5. CASE r # NULL
  <2>1. /\ inflight' = [inflight EXCEPT ![k] = FreeInflight]
        /\ io_Error' = [io_Error EXCEPT ![r] = err]
        /\ io' = [io EXCEPT ![r].actual = n]
        /\ replied' \subseteq replied \cup {r} /\ dsm_buf' = dsm_buf
    BY Zenon, <1>k, <1>r, <1>n, <1>e, <1>5 DEF Harvest
  <2>2. r \in Req /\ ask[r] # NULL
    BY <1>1, <1>3, <1>5, <1>r DEF PathTypes, OneOwner, Occupied
  <2>3. io[r] \in FieldTypes /\ n \in Nat
    <3>1. io[r] \in FieldTypes
      BY <2>2 DEF RestTyped
    <3>2. io[r].length \in Nat
      BY <3>1, Sizes DEF FieldTypes
    <3> QED
      BY <1>n, <3>1, <3>2
  <2>4. err \in Errors
    BY <1>e DEF Errors
  <2>5. \A q \in Req : /\ q # r => io'[q] = io[q]
                       /\ io'[r] = [io[r] EXCEPT !.actual = n]
    BY <1>1, <2>1, <2>2 DEF PathTypes
  <2>6. io'[r] \in FieldTypes
    BY <2>2, <2>3, <2>5 DEF FieldTypes
  <2>7. \A q \in Req : ask'[q] # NULL => io'[q] \in FieldTypes
    BY <1>2, <2>5, <2>6 DEF RestTyped, FieldTypes
  <2>8. AnswersTyped'
    BY <1>2, <2>1, <2>2, <2>4 DEF RestTyped, AnswersTyped
  <2>9. SlotsTyped'
    BY <1>1, <1>3, <2>1 DEF RestTyped, SlotsTyped, FreeInflight, PathTypes
  <2> QED
    BY <1>2, <2>1, <2>7, <2>8, <2>9 DEF RestTyped
<1> QED
  BY <1>4, <1>5

LEMMA TypesDispatch ==
  ASSUME PinsInv, FieldsInv, RestTyped, Dispatch
  PROVE  RestTyped'
<1>1. /\ pc = "dispatch" /\ io' = [io EXCEPT ![cur] = Chunk(cur)] /\ pc' = "submit"
      /\ UNCHANGED <<ask, io_Error, replied, faulted, inflight, dsm_buf>>
  BY DEF Dispatch, pathVars
<1>2. Chunk(cur) \in FieldTypes
  BY <1>1, ChunkTypes
<1>3. \A r \in Req : ask'[r] # NULL => io'[r] \in FieldTypes
  BY <1>1, <1>2 DEF RestTyped, FieldTypes, PinsInv, PathTypes
<1> QED
  BY <1>1, <1>3 DEF RestTyped, AnswersTyped, SlotsTyped

LEMMA TypesController ==
  ASSUME PinsInv, RestTyped, Controller
  PROVE  RestTyped'
<1>1. PICK c \in issued : Read(c) \/ Write(c) \/ Discard(c) \/ Fail(c)
  BY DEF Controller
<1>2. UNCHANGED <<reqVars, taskVars, pathVars>>
  BY <1>1 DEF Read, Write, Discard, Fail, Post
<1>3. faulted' \subseteq Req \cup {NULL}
  <2>1. inflight[c.cid].ioreq \in Req \cup {NULL}
    BY DEF PinsInv, PathTypes
  <2>2. faulted' \subseteq faulted \cup {inflight[c.cid].ioreq}
    BY <1>1 DEF Read, Write, Discard, Fail
  <2> QED
    BY <2>1, <2>2 DEF RestTyped, AnswersTyped
<1> QED
  BY <1>2, <1>3 DEF RestTyped, AnswersTyped, SlotsTyped, FieldTypes,
     reqVars, taskVars, pathVars

LEMMA TypesReplies ==
  ASSUME PinsInv, FieldsInv, RestTyped,
         \/ Busy \/ Reject \/ StartDMARefused \/ AllocFails \/ UnmapRefused
         \/ PollDone \/ PollTimeout
  PROVE  RestTyped'
<1>1. cur # NULL /\ cur \in Req /\ ask[cur] # NULL
  BY DEF PinsInv, PathTypes, OneOwner, Busy, Reject, StartDMARefused, Accepts,
     AllocFails, UnmapRefused, PollDone, PollTimeout
<1>2. io[cur].actual \in Nat /\ io_Error[cur] \in Errors
  BY <1>1 DEF RestTyped, AnswersTyped, FieldTypes
<1> DEFINE Ok == /\ \E err \in Errors : \E actual \in Nat : Answer(err, actual)
                 /\ faulted' \subseteq faulted \cup {cur} /\ dsm_buf' = dsm_buf
                 /\ \A s \in Slot : \/ inflight'[s] = inflight[s]
                                    \/ inflight'[s] = FreeInflight
<1>3. {"none", "badaddress", "badlength", "aborted", "unitbusy", "badstatus"}
        \subseteq Errors /\ 0 \in Nat
  BY DEF Errors
<1>4. ASSUME Busy PROVE Ok
  BY <1>2, <1>3, <1>4 DEF Busy, pathVars
<1>5. ASSUME Reject PROVE Ok
  BY <1>3, <1>5 DEF Reject, pathVars
<1>6. ASSUME StartDMARefused PROVE Ok
  BY <1>2, <1>3, <1>6 DEF StartDMARefused, pathVars
<1>7. ASSUME AllocFails PROVE Ok
  BY <1>2, <1>3, <1>7 DEF AllocFails
<1>8. ASSUME UnmapRefused PROVE Ok
  BY <1>2, <1>3, <1>8 DEF UnmapRefused, pathVars
<1>9. ASSUME PollDone PROVE Ok
  BY <1>2, <1>3, <1>9 DEF PollDone, pathVars
<1>10. ASSUME PollTimeout PROVE Ok
  <2>1. /\ inflight' = [inflight EXCEPT ![slot] = FreeInflight]
        /\ Answer(IF ask[cur].cmd = "UNMAP" THEN "badstatus" ELSE "aborted", 0)
        /\ UNCHANGED <<dsm_buf, faulted>>
    BY <1>10 DEF PollTimeout
  <2>2. \A s \in Slot : inflight'[s] = inflight[s] \/ inflight'[s] = FreeInflight
    BY <2>1 DEF PinsInv, PathTypes
  <2>3. (IF ask[cur].cmd = "UNMAP" THEN "badstatus" ELSE "aborted") \in Errors
    BY <1>3
  <2> QED
    BY <1>3, <2>1, <2>2, <2>3
<1>11. Ok
  BY <1>4, <1>5, <1>6, <1>7, <1>8, <1>9, <1>10
<1> QED
  BY <1>1, <1>11, TypesAnswer

LEMMA TypesDirect ==
  ASSUME PinsInv, FieldsInv, RestTyped, SubmitDirect
  PROVE  RestTyped'
<1>1. /\ cur # NULL /\ cur \in Req /\ ask[cur] # NULL /\ pc # "loop"
      /\ faulted' = faulted
  BY DEF PinsInv, PathTypes, OneOwner, SubmitDirect
<1>2. io[cur].actual \in Nat
  BY <1>1 DEF RestTyped, FieldTypes
<1>3. \/ Answer("badlength", io[cur].actual) /\ UNCHANGED <<inflight, dsm_buf>>
      \/ /\ UNCHANGED reqVars
         /\ \E prp1, rest, bounce, own : Issue(prp1, rest, bounce, own)
  BY DEF SubmitDirect
<1>4. "badlength" \in Errors
  BY DEF Errors
<1>5. CASE Answer("badlength", io[cur].actual) /\ UNCHANGED <<inflight, dsm_buf>>
  BY <1>1, <1>2, <1>4, <1>5, TypesAnswer
<1>6. CASE /\ UNCHANGED reqVars
           /\ \E prp1, rest, bounce, own : Issue(prp1, rest, bounce, own)
  BY <1>1, <1>6, TypesIssue
<1> QED
  BY <1>3, <1>5, <1>6

LEMMA TypesStep ==
  ASSUME PinsInv, FieldsInv, RestTyped, [Next]_vars
  PROVE  RestTyped'
<1>1. CASE UNCHANGED vars \/ (\E r \in Req : GetMsg(r)) \/ StartDMA \/ NextChunk
  <2>1. /\ UNCHANGED <<ask, io, io_Error, replied, faulted, inflight, dsm_buf>>
        /\ pc' = "loop" => cur' = NULL
    BY <1>1 DEF vars, reqVars, taskVars, pathVars, GetMsg, StartDMA, NextChunk, RestTyped
  <2> QED
    BY <2>1, TypesQuiet
<1>2. CASE Controller \/ Dispatch \/ Unmap \/ Harvest \/ SubmitDirect
  BY <1>2, TypesController, TypesDispatch, TypesUnmap, TypesHarvest, TypesDirect
<1>3. CASE \E r \in Req : BeginIO(r)
  BY <1>3, TypesClient
<1>4. CASE \/ Busy \/ Reject \/ StartDMARefused \/ AllocFails \/ UnmapRefused
           \/ PollDone \/ PollTimeout
  BY <1>4, TypesReplies
<1>5. CASE SubmitBounce
  <2>1. /\ cur # NULL /\ pc # "loop" /\ UNCHANGED <<reqVars, faulted>>
        /\ \E prp1, rest, bounce, own : Issue(prp1, rest, bounce, own)
    BY <1>5 DEF SubmitBounce, Accepts, PinsInv, PathTypes
  <2> QED
    BY <2>1, TypesIssue
<1> QED
  BY <1>1, <1>2, <1>3, <1>4, <1>5 DEF Next, Task

LEMMA TypesStart ==
  ASSUME Init
  PROVE  RestTyped
<1>1. /\ ask = [r \in Req |-> NULL] /\ io_Error = [r \in Req |-> "none"]
      /\ replied = {} /\ faulted = {} /\ cur = NULL
      /\ inflight = [s \in Slot |-> FreeInflight] /\ dsm_buf \in {NULL, <<>>}
      /\ MaxRanges \in Nat
  BY TransferAssumption DEF Init
<1>2. AnswersTyped
  BY <1>1 DEF AnswersTyped, Errors
<1>3. SlotsTyped
  BY <1>1 DEF SlotsTyped, FreeInflight
<1>4. dsm_buf # NULL => dsm_buf \in Seq(Seq(Nat)) /\ Len(dsm_buf) <= MaxRanges
  <2> SUFFICES ASSUME dsm_buf = <<>>
               PROVE  dsm_buf \in Seq(Seq(Nat)) /\ Len(dsm_buf) <= MaxRanges
    BY <1>1
  <2>1. Len(dsm_buf) = 0 /\ 0 <= MaxRanges
    BY <1>1
  <2>2. dsm_buf \in Seq(Seq(Nat))
    OBVIOUS
  <2> QED
    BY <2>1, <2>2
<1> QED
  BY <1>1, <1>2, <1>3, <1>4 DEF RestTyped

\* The leak counters count sets, so they do not go below zero.
LEMMA CountersTyped ==
  ASSUME PinsInv
  PROVE  leak_dma \in Nat /\ leak_dmaentry \in Nat
<1>1. /\ leak_dma = Cardinality(pinned) /\ IsFiniteSet(pinned)
      /\ leak_dmaentry = Cardinality(pool)
                           + Cardinality({s \in Direct : inflight[s].own})
      /\ pool \subseteq Slot
  BY DEF PinsInv, PinsBalanced, PathTypes
<1>2. {s \in Direct : inflight[s].own} \subseteq Slot
  BY DEF Direct, Occupied
<1> QED
  BY <1>1, <1>2, FiniteSlots, FS_CardinalityType

\* What TypeOK says beyond the other invariants.
THEOREM RestInvariant == Spec => []RestTyped
<1>1. Init => RestTyped
  BY TypesStart
<1>2. PinsInv /\ FieldsInv /\ RestTyped /\ [Next]_vars => RestTyped'
  BY TypesStep
<1> QED
  BY <1>1, <1>2, PinsInvariant, FieldsInvariant, PTL DEF Spec

(* Each variable keeps to its type: the fields of a request stay ULONGs    *)
(* through the 64-bit sums of its chunks, its error is one of the codes of *)
(* dispatch, a PRP list stays in its page and the ranges in dsm_buf.       *)
THEOREM TypesHold == Spec => []TypeOK
<1>1. PinsInv /\ FieldsInv /\ HeldInv /\ RestTyped => TypeOK
  <2> SUFFICES ASSUME PinsInv, FieldsInv, HeldInv, RestTyped
               PROVE  TypeOK
    OBVIOUS
  <2>1. max_transfer \in Nat /\ done \in Nat
    BY TransferAssumption DEF FieldsInv
  <2>2. \A r \in Req :
          /\ ask[r] \in Shapes[r] \cup {NULL}
          /\ ask[r] # NULL =>
               /\ {io[r].offset, io[r].length} \subseteq 0 .. Word - 1
               /\ io[r].actual \in Nat
               /\ io[r].data \in Nat \cup {NULL}
          /\ io_Error[r] \in Errors
    BY DEF FieldsInv, RestTyped, AnswersTyped, FieldTypes
  <2>3. pc # "loop" <=> cur # NULL
    BY DEF PinsInv, PathTypes, RestTyped
  <2>4. \A k \in DOMAIN cq : cq[k].cid \in Slot /\ cq[k].ok \in BOOLEAN
    <3> DEFINE Entry == [cid : Slot, ok : BOOLEAN]
    <3>1. cq \in Seq(Entry)
      BY DEF PinsInv, PathTypes
    <3>2. \A e \in Entry : e.cid \in Slot /\ e.ok \in BOOLEAN
      OBVIOUS
    <3> HIDE DEF Entry
    <3>3. \A k \in DOMAIN cq : cq[k] \in Entry
      BY <3>1
    <3> QED
      BY <3>2, <3>3
  <2>5. leak_dma \in Nat /\ leak_dmaentry \in Nat
    BY CountersTyped
  <2>6. \A s \in Slot :
          /\ inflight[s].ioreq \in Req \cup {NULL}
          /\ inflight[s].buf \in Nat \cup {NULL} /\ inflight[s].len \in Nat
          /\ prp_list[s] \in Seq(Nat) /\ Len(prp_list[s]) <= MaxPrp
    BY DEF PinsInv, PathTypes, RestTyped, SlotsTyped, HeldInv, ListsTyped
  <2> QED
    BY <2>1, <2>2, <2>3, <2>4, <2>5, <2>6
       DEF TypeOK, PinsInv, PathTypes, HeldInv, RestTyped, AnswersTyped, Errors
<1> QED
  BY <1>1, PinsInvariant, FieldsInvariant, HeldInvariant, RestInvariant, PTL

-----------------------------------------------------------------------------
(* Who replies a request, and what its owner finds in it.                  *)

\* Dispatch replies the request in hand.
LEMMA RepliesAnswer ==
  ASSUME PinsInv, RestTyped, RepliesInv, cur # NULL, NEW err, NEW actual,
         Answer(err, actual), UNCHANGED configVars,
         \A s \in Slot : /\ inflight'[s].ioreq # cur
                         /\ inflight'[s] = inflight[s] \/ inflight'[s] = FreeInflight
  PROVE  RepliesInv'
<1>1. /\ cur \in Req /\ ask[cur] # NULL /\ cur \notin port /\ DOMAIN io = Req
      /\ replied \subseteq Req /\ NULL \notin Req
  BY TransferAssumption DEF PinsInv, PathTypes, OneOwner, RestTyped, AnswersTyped
<1>2. PICK n : ReplyMsg(cur, err, n)
  BY DEF Answer
<1> DEFINE new == [Fields(ask[cur]) EXCEPT !.actual = n]
<1>3. /\ io' = [io EXCEPT ![cur] = new] /\ replied' = replied \cup {cur}
      /\ cur' = NULL /\ UNCHANGED <<ask, port, max_transfer>>
  BY <1>2 DEF ReplyMsg, Answer, Dispatched, configVars
<1>4. new = [Fields(ask[cur]) EXCEPT !.actual = new.actual]
  BY DEF Fields
<1> HIDE DEF new
<1>5. SentBack'
  <2> SUFFICES ASSUME NEW r \in Req, ask[r] # NULL
               PROVE  io'[r] = [Fields(ask[r]) EXCEPT !.actual = io'[r].actual]
    BY <1>3 DEF SentBack
  <2>1. CASE r = cur
    BY <1>1, <1>3, <1>4, <2>1
  <2>2. CASE r # cur
    BY <1>1, <1>3, <2>2 DEF RepliesInv, SentBack
  <2> QED
    BY <2>1, <2>2
<1>6. RepliedLast'
  <2> SUFFICES ASSUME NEW r \in replied', NEW s \in Slot
               PROVE  /\ ask[r] # NULL /\ r \notin port /\ r # NULL
                      /\ inflight'[s].ioreq # r
    BY <1>3, FirstSlot DEF RepliedLast
  <2>1. FreeInflight.ioreq = NULL
    BY DEF FreeInflight
  <2>2. CASE r = cur
    BY <1>1, <2>2
  <2>3. CASE r \in replied
    BY <1>1, <2>1, <2>3 DEF RepliesInv, RepliedLast
  <2> QED
    BY <1>3, <2>2, <2>3
<1>7. PolledSuppressed'
  BY <1>3 DEF RepliesInv, PolledSuppressed, Occupied, FreeInflight
<1> QED
  BY <1>5, <1>6, <1>7 DEF RepliesInv

\* Requests, replies and slots stay where they are.
LEMMA RepliesQuiet ==
  ASSUME RepliesInv, UNCHANGED <<max_transfer, ask, io, port, replied, cur, inflight>>
  PROVE  RepliesInv'
<1>1. \A r \in Req : Split(r)' = Split(r)
  BY DEF Split
<1>2. SentBack'
  BY <1>1 DEF RepliesInv, SentBack, Fields
<1> QED
  BY <1>2 DEF RepliesInv, RepliedLast, PolledSuppressed, Occupied

LEMMA RepliesClient ==
  ASSUME PinsInv, RestTyped, RepliesInv, NEW q \in Req, BeginIO(q) \/ GetMsg(q)
  PROVE  RepliesInv'
<1>1. PathTypes /\ OneOwner /\ NULL \notin Req /\ replied \subseteq Req
  BY TransferAssumption DEF PinsInv, RestTyped, AnswersTyped
<1>2. CASE BeginIO(q)
  <2>1. PICK a \in Shapes[q] : /\ ask' = [ask EXCEPT ![q] = a]
                              /\ io' = [io EXCEPT ![q] = Fields(a)]
    BY <1>2 DEF BeginIO
  <2>2. /\ ask[q] = NULL /\ port' = port \cup {q}
        /\ UNCHANGED <<max_transfer, replied, cur, inflight>>
    BY <1>2 DEF BeginIO, configVars, taskVars, pathVars
  <2>3. a # NULL /\ Fields(a) = [Fields(a) EXCEPT !.actual = Fields(a).actual]
    BY ShapeTypes DEF Fields
  <2>4. /\ ask'[q] = a /\ io'[q] = Fields(a)
        /\ \A r \in Req : r # q => ask'[r] = ask[r] /\ io'[r] = io[r]
    BY <1>1, <2>1 DEF PathTypes
  <2>5. cur # q /\ q \notin replied
    BY <1>1, <2>2 DEF OneOwner, PathTypes, RepliesInv, RepliedLast
  <2>6. SentBack'
    <3> SUFFICES ASSUME NEW r \in Req, ask'[r] # NULL, r = cur => ~Split(r)'
                 PROVE  io'[r] = [Fields(ask'[r]) EXCEPT !.actual = io'[r].actual]
      BY <2>2 DEF SentBack, Fields
    <3>1. CASE r = q
      BY <2>3, <2>4, <3>1
    <3>2. CASE r # q
      <4>1. ask'[r] = ask[r] /\ io'[r] = io[r] /\ Split(r)' = Split(r)
        BY <2>2, <2>4, <3>2 DEF Split
      <4> QED
        BY <4>1 DEF RepliesInv, SentBack
    <3> QED
      BY <3>1, <3>2
  <2>7. RepliedLast'
    BY <1>1, <2>2, <2>4, <2>5 DEF RepliesInv, RepliedLast
  <2> QED
    BY <2>2, <2>6, <2>7 DEF RepliesInv, PolledSuppressed, Occupied
<1>3. CASE GetMsg(q)
  <2>1. /\ q \in port /\ port' = port \ {q} /\ cur' = q /\ cur = NULL
        /\ UNCHANGED <<max_transfer, ask, io, replied, inflight>>
    BY <1>3 DEF GetMsg, configVars, pathVars, RestTyped
  <2>2. SentBack'
    BY <1>1, <2>1 DEF RepliesInv, SentBack, Fields
  <2>3. RepliedLast'
    BY <2>1 DEF RepliesInv, RepliedLast
  <2>4. PolledSuppressed'
    BY <1>1, <2>1 DEF RepliesInv, PolledSuppressed, Occupied, OneOwner
  <2> QED
    BY <2>2, <2>3, <2>4 DEF RepliesInv
<1> QED
  BY <1>2, <1>3

\* A command is made of the request in hand.
LEMMA RepliesCommand ==
  ASSUME PinsInv, RestTyped, RepliesInv, cur # NULL, pc # "poll",
         UNCHANGED <<max_transfer, ask, io, port, replied>>, NEW s \in Slot, NEW i,
         i.ioreq = cur, i.suppress \in BOOLEAN, inflight' = [inflight EXCEPT ![s] = i],
         cur' = IF i.suppress THEN cur ELSE NULL, Split(cur) => i.suppress
  PROVE  RepliesInv'
<1>1. PathTypes /\ OneOwner /\ NULL \notin Req /\ replied \subseteq Req
  BY TransferAssumption DEF PinsInv, RestTyped, AnswersTyped
<1>2. \A t \in Slot : inflight'[t] = IF t = s THEN i ELSE inflight[t]
  BY <1>1 DEF PathTypes
<1>3. SentBack'
  <2>1. \A r \in Req : Split(r)' = Split(r)
    BY DEF Split
  <2> QED
    BY <2>1 DEF RepliesInv, SentBack, Fields
<1>4. RepliedLast'
  <2> SUFFICES ASSUME NEW r \in replied, NEW t \in Slot
               PROVE  /\ ask[r] # NULL /\ r \notin port /\ r # cur'
                      /\ inflight'[t].ioreq # r
    BY DEF RepliedLast
  <2>1. /\ ask[r] # NULL /\ r \notin port /\ r # cur
        /\ inflight[t].ioreq # r
    BY DEF RepliesInv, RepliedLast
  <2> QED
    BY <1>1, <1>2, <2>1
<1>5. PolledSuppressed'
  <2> SUFFICES ASSUME NEW t \in Slot, inflight'[t].ioreq # NULL
               PROVE  inflight'[t].suppress <=> inflight'[t].ioreq = cur'
    BY DEF PolledSuppressed, Occupied
  <2>1. CASE t = s
    <3>1. inflight'[t].ioreq = cur /\ (inflight'[t].suppress <=> i.suppress)
      BY <1>2, <2>1
    <3>2. cur' = cur <=> i.suppress
      OBVIOUS
    <3> QED
      BY <3>1, <3>2
  <2>2. CASE t # s
    <3>1. inflight'[t] = inflight[t] /\ t \in Occupied
      BY <1>2, <2>2 DEF Occupied
    <3>2. inflight[t].ioreq # cur /\ ~inflight[t].suppress
      BY <1>1, <3>1 DEF OneOwner, RepliesInv, PolledSuppressed
    <3> QED
      BY <3>1, <3>2
  <2> QED
    BY <2>1, <2>2
<1> QED
  BY <1>3, <1>4, <1>5 DEF RepliesInv

LEMMA RepliesHarvest ==
  ASSUME PinsInv, RestTyped, RepliesInv, Harvest
  PROVE  RepliesInv'
<1>1. PathTypes /\ OneOwner /\ NULL \notin Req /\ replied \subseteq Req
  BY TransferAssumption DEF PinsInv, RestTyped, AnswersTyped
<1>2. UNCHANGED <<max_transfer, ask, port, cur>>
  BY Zenon DEF Harvest, configVars, taskVars
<1> PICK k : k = Head(cq).cid
  OBVIOUS
<1> PICK q : q = inflight[k].ioreq
  OBVIOUS
<1> PICK n : n = IF Head(cq).ok THEN io[q].length ELSE 0
  OBVIOUS
<1>3. k \in Slot
  <2> DEFINE Entry == [cid : Slot, ok : BOOLEAN]
  <2>1. cq # <<>> /\ cq \in Seq(Entry) /\ \A e \in Entry : e.cid \in Slot
    BY Zenon, <1>1 DEF Harvest, PathTypes
  <2> HIDE DEF Entry
  <2> QED
    BY <2>1
<1>4. CASE q = NULL
  <2>1. UNCHANGED <<io, replied, inflight>>
    BY <1>4 DEF Harvest, pathVars
  <2> QED
    BY <1>2, <2>1, RepliesQuiet
<1>5. CASE q # NULL
  <2>1. /\ inflight' = [inflight EXCEPT ![k] = FreeInflight]
        /\ io' = [io EXCEPT ![q].actual = n]
        /\ replied' = IF inflight[k].suppress THEN replied ELSE replied \cup {q}
    BY Zenon, <1>5 DEF Harvest
  <2>2. k \in Occupied /\ q \in Req /\ ask[q] # NULL /\ q \notin port
    BY <1>1, <1>3, <1>5 DEF PathTypes, OneOwner, Occupied
  <2>3. \A t \in Slot : inflight'[t] = IF t = k THEN FreeInflight ELSE inflight[t]
    BY Zenon, <1>1, <2>1 DEF PathTypes
  <2>4. FreeInflight.ioreq = NULL
    BY DEF FreeInflight
  <2>5. /\ io'[q] = [io[q] EXCEPT !.actual = n]
        /\ \A r \in Req : r # q => io'[r] = io[r]
    BY Zenon, <1>1, <2>1, <2>2 DEF PathTypes
  <2>6. SentBack'
    <3> SUFFICES ASSUME NEW r \in Req, ask[r] # NULL, r = cur => ~Split(r)
                 PROVE  io'[r] = [Fields(ask[r]) EXCEPT !.actual = io'[r].actual]
      BY <1>2 DEF SentBack, Split, Fields
    <3>1. io[r] = [Fields(ask[r]) EXCEPT !.actual = io[r].actual]
      BY DEF RepliesInv, SentBack
    <3>2. CASE r # q
      BY <2>5, <3>1, <3>2
    <3>3. CASE r = q
      <4> DEFINE f == Fields(ask[r])
      <4>1. /\ f = [offset |-> f.offset, actual |-> f.actual, data |-> f.data,
                    length |-> f.length]
            /\ io'[r] = [[f EXCEPT !.actual = io[r].actual] EXCEPT !.actual = n]
        BY Zenon, <2>5, <3>1, <3>3 DEF Fields
      <4> HIDE DEF f
      <4>2. io'[r] = [offset |-> f.offset, actual |-> n, data |-> f.data,
                      length |-> f.length]
        BY <4>1
      <4>3. [f EXCEPT !.actual = n] = [offset |-> f.offset, actual |-> n,
                                       data |-> f.data, length |-> f.length]
        BY <4>1
      <4> QED
        BY <4>2, <4>3 DEF f
    <3> QED
      BY <3>2, <3>3
  <2>7. RepliedLast'
    <3> SUFFICES ASSUME NEW r \in replied', NEW t \in Slot
                 PROVE  /\ ask[r] # NULL /\ r \notin port /\ r # cur
                        /\ inflight'[t].ioreq # r
      BY <1>2, FirstSlot DEF RepliedLast
    <3>1. CASE r \in replied
      BY <1>1, <2>3, <2>4, <3>1 DEF RepliesInv, RepliedLast
    <3>2. CASE r \notin replied
      <4>1. r = q /\ ~inflight[k].suppress
        BY <2>1, <3>2
      <4>2. q # cur
        BY <2>2, <4>1 DEF RepliesInv, PolledSuppressed
      <4>3. \A u \in Occupied : inflight[u].ioreq = q => u = k
        BY <1>1, <2>2 DEF OneOwner
      <4>4. inflight'[t].ioreq # q
        BY <1>5, <2>3, <2>4, <4>3 DEF Occupied
      <4> QED
        BY <2>2, <4>1, <4>2, <4>4
    <3> QED
      BY <3>1, <3>2
  <2>8. PolledSuppressed'
    BY <1>2, <2>3, <2>4 DEF RepliesInv, PolledSuppressed, Occupied
  <2> QED
    BY <2>6, <2>7, <2>8 DEF RepliesInv
<1> QED
  BY <1>4, <1>5

LEMMA RepliesDispatch ==
  ASSUME PinsInv, RepliesInv, Dispatch
  PROVE  RepliesInv'
<1>1. /\ io' = [io EXCEPT ![cur] = Chunk(cur)]
      /\ UNCHANGED <<max_transfer, ask, port, replied, cur, inflight>>
  BY DEF Dispatch, configVars, pathVars
<1>2. cur \in Req /\ DOMAIN io = Req
  BY DEF Dispatch, PinsInv, PathTypes
<1>3. \A r \in Req : /\ r # cur => io'[r] = io[r]
                     /\ ~Split(r) => io'[r] = io[r]
  BY <1>1, <1>2 DEF Chunk
<1>4. \A r \in Req : Split(r)' = Split(r)
  BY <1>1 DEF Split
<1>5. SentBack'
  BY <1>1, <1>3, <1>4 DEF RepliesInv, SentBack, Fields
<1> QED
  BY <1>1, <1>5 DEF RepliesInv, RepliedLast, PolledSuppressed, Occupied

LEMMA RepliesReplies ==
  ASSUME PinsInv, RestTyped, RepliesInv,
         \/ Busy \/ Reject \/ StartDMARefused \/ AllocFails \/ UnmapRefused
         \/ PollDone \/ PollTimeout
  PROVE  RepliesInv'
<1>1. PathTypes /\ OneOwner /\ NULL \notin Req
  BY TransferAssumption DEF PinsInv
<1>2. cur # NULL
  BY <1>1 DEF PathTypes, Busy, Reject, StartDMARefused, Accepts,
     AllocFails, UnmapRefused, PollDone, PollTimeout
<1>3. UNCHANGED configVars /\ \E err, actual : Answer(err, actual)
  BY DEF Busy, Reject, StartDMARefused, AllocFails, UnmapRefused, PollDone, PollTimeout
<1>4. \A s \in Slot : /\ inflight'[s].ioreq # cur
                      /\ inflight'[s] = inflight[s] \/ inflight'[s] = FreeInflight
  <2>1. CASE PollTimeout
    <3>1. pc = "poll" /\ inflight' = [inflight EXCEPT ![slot] = FreeInflight]
      BY <2>1 DEF PollTimeout
    <3>2. FreeInflight.ioreq = NULL
      BY DEF FreeInflight
    <3>3. \A s \in Slot : s # slot => inflight[s].ioreq # cur
      BY <1>1, <1>2 DEF OneOwner, Occupied
    <3> QED
      BY <1>1, <1>2, <3>1, <3>2, <3>3 DEF PathTypes
  <2>2. CASE ~PollTimeout
    <3>1. inflight' = inflight
      BY <2>2 DEF Busy, Reject, StartDMARefused, AllocFails, UnmapRefused, PollDone,
         pathVars
    <3>2. pc # "poll" \/ inflight[slot].ioreq = NULL
      BY <2>2 DEF Busy, Reject, StartDMARefused, Accepts, AllocFails, UnmapRefused,
         PollDone
    <3>3. \A s \in Slot : inflight[s].ioreq # cur
      BY <1>1, <1>2, <3>2 DEF OneOwner, Occupied
    <3> QED
      BY <3>1, <3>3
  <2> QED
    BY <2>1, <2>2
<1> QED
  BY <1>2, <1>3, <1>4, RepliesAnswer

\* A command is written, or a transfer that does not fit its list is replied.
LEMMA RepliesIssue ==
  ASSUME PinsInv, RestTyped, RepliesInv, SubmitBounce \/ SubmitDirect
  PROVE  RepliesInv'
<1>1. PathTypes /\ OneOwner /\ NULL \notin Req
  BY TransferAssumption DEF PinsInv
<1>2. /\ pc \in {"submit", "pinned"} /\ cur # NULL /\ slot \in Slot
      /\ UNCHANGED configVars
  BY <1>1 DEF PathTypes, SubmitBounce, SubmitDirect, Accepts
<1>3. \/ /\ UNCHANGED reqVars
         /\ \E prp1, rest, bounce, own : Issue(prp1, rest, bounce, own)
      \/ inflight' = inflight /\ \E err, actual : Answer(err, actual)
  BY DEF SubmitBounce, SubmitDirect
<1>4. CASE /\ UNCHANGED reqVars
           /\ \E prp1, rest, bounce, own : Issue(prp1, rest, bounce, own)
  <2>1. PICK prp1, rest, bounce, own : Issue(prp1, rest, bounce, own)
    BY <1>4
  <2> DEFINE i == [ioreq |-> cur, suppress |-> Split(cur), bounce |-> bounce,
                   write |-> ask[cur].cmd \in Writes, buf |-> io[cur].data,
                   len |-> io[cur].length, own |-> own]
  <2>2. /\ inflight' = [inflight EXCEPT ![slot] = i]
        /\ i.ioreq = cur /\ i.suppress = Split(cur) /\ Split(cur) \in BOOLEAN
        /\ cur' = IF Split(cur) THEN cur ELSE NULL
    BY <2>1 DEF Issue, Dispatched, Split
  <2> HIDE DEF i
  <2>3. UNCHANGED <<max_transfer, ask, io, port, replied>>
    BY <1>2, <1>4 DEF configVars, reqVars
  <2> QED
    BY <1>2, <2>2, <2>3, RepliesCommand
<1>5. CASE inflight' = inflight /\ \E err, actual : Answer(err, actual)
  <2>1. \A s \in Slot : inflight[s].ioreq # cur
    BY <1>1, <1>2 DEF OneOwner, Occupied
  <2> QED
    BY <1>2, <1>5, <2>1, RepliesAnswer
<1> QED
  BY <1>3, <1>4, <1>5

LEMMA RepliesUnmap ==
  ASSUME PinsInv, RestTyped, RepliesInv, Unmap
  PROVE  RepliesInv'
<1>1. PathTypes /\ OneOwner /\ NULL \notin Req
  BY TransferAssumption DEF PinsInv
<1> DEFINE i == [FreeInflight EXCEPT !.ioreq = cur, !.suppress = TRUE]
<1>2. /\ pc = "dispatch" /\ cur # NULL /\ FreeSlot \in Slot
      /\ inflight' = [inflight EXCEPT ![FreeSlot] = i]
      /\ UNCHANGED <<max_transfer, ask, io, port, replied, cur>>
  BY <1>1, FreeSlotIsFree DEF Unmap, PathTypes, configVars, reqVars
<1>3. i.ioreq = cur /\ i.suppress = TRUE
  BY DEF FreeInflight
<1> HIDE DEF i
<1> QED
  BY <1>2, <1>3, RepliesCommand

LEMMA RepliesStep ==
  ASSUME PinsInv, RestTyped, RepliesInv, [Next]_vars
  PROVE  RepliesInv'
<1>1. CASE UNCHANGED vars \/ Controller \/ StartDMA \/ NextChunk
  <2>1. UNCHANGED <<max_transfer, ask, io, port, replied, cur, inflight>>
    BY <1>1 DEF vars, configVars, reqVars, taskVars, pathVars, Controller, Read,
       Write, Discard, Fail, Post, StartDMA, NextChunk
  <2> QED
    BY <2>1, RepliesQuiet
<1>2. CASE \E r \in Req : BeginIO(r) \/ GetMsg(r)
  BY <1>2, RepliesClient
<1>3. CASE Dispatch \/ Unmap \/ Harvest \/ SubmitBounce \/ SubmitDirect
  BY <1>3, RepliesDispatch, RepliesUnmap, RepliesHarvest, RepliesIssue
<1>4. CASE \/ Busy \/ Reject \/ StartDMARefused \/ AllocFails \/ UnmapRefused
           \/ PollDone \/ PollTimeout
  BY <1>4, RepliesReplies
<1> QED
  BY <1>1, <1>2, <1>3, <1>4 DEF Next, Task

LEMMA RepliesStart ==
  ASSUME Init
  PROVE  RepliesInv
<1>1. /\ ask = [r \in Req |-> NULL] /\ replied = {}
      /\ inflight = [s \in Slot |-> FreeInflight]
  BY DEF Init
<1> QED
  BY <1>1 DEF RepliesInv, SentBack, RepliedLast, PolledSuppressed, Occupied, FreeInflight

(* A request comes back with the fields it was sent with, however many     *)
(* chunks it went through and whatever completes late; it is replied once  *)
(* and for all, by dispatch if dispatch polls for it and by the harvester  *)
(* otherwise (unit_task.c:456-577, nvme_io.c:806-815).                     *)
THEOREM RepliesInvariant == Spec => []RepliesInv
<1>1. Init => RepliesInv
  BY RepliesStart
<1>2. PinsInv /\ RestTyped /\ RepliesInv /\ [Next]_vars => RepliesInv'
  BY RepliesStep
<1> QED
  BY <1>1, <1>2, PinsInvariant, RestInvariant, PTL DEF Spec

-----------------------------------------------------------------------------
(* Where each chunk is.                                                    *)

LEMMA Multiples ==
  ASSUME NEW a \in Int, NEW b \in Int, NEW d \in Nat \ {0}, a % d = 0, b % d = 0
  PROVE  (a + b) % d = 0 /\ (a - b) % d = 0
<1> DEFINE p == a \div d
           q == b \div d
<1>1. p \in Int /\ q \in Int /\ p * d = a /\ q * d = b
  BY Quotient
<1> HIDE DEF p, q
<1>2. d \in Int /\ 0 \in 0 .. d - 1
  OBVIOUS
<1>3. (p + q) * d + 0 = a + b /\ (p - q) * d + 0 = a - b
  BY <1>1, <1>2, Distribute
<1>4. ((p + q) * d + 0) % d = 0
  <2>1. p + q \in Int
    BY <1>1
  <2> QED
    BY <1>2, <2>1, Remainder
<1>5. ((p - q) * d + 0) % d = 0
  <2>1. p - q \in Int
    BY <1>1
  <2> QED
    BY <1>2, <2>1, Remainder
<1> QED
  BY <1>3, <1>4, <1>5

\* The offset asked for is a number, and the one the driver decodes.
LEMMA OffsetAsked ==
  ASSUME Addressable, NEW r \in Req, NEW a \in Shapes[r]
  PROVE  /\ AskedOffset(a) \in Nat
         /\ AskedOffset(a) = ByteOffset(a.cmd, Fields(a))
         /\ a.cmd \notin Decoded => AskedOffset(a) = a.offset
         /\ a.cmd \in Decoded => AskedOffset(a) = a.actual * Word + a.offset
<1>1. /\ a.offset \in Nat /\ a.actual \in Nat /\ Word \in Nat
  BY ShapeTypes, AskedTypes
<1>2. a.actual * Word \in Nat
  BY <1>1
<1>3. CASE a.cmd \in Decoded
  BY <1>1, <1>2, <1>3 DEF AskedOffset, Wide, ByteOffset, Fields
<1>4. CASE a.cmd \notin Decoded
  <2>1. a.cmd = "FORMAT64" => a.actual * Word = 0
    <3>1. 0 * Word = 0
      BY <1>1
    <3> QED
      BY <1>4, <3>1 DEF Addressable
  <2>2. AskedOffset(a) = a.offset
    BY <1>1, <1>4, <2>1 DEF AskedOffset, Wide
  <2> QED
    BY <1>1, <1>4, <2>2 DEF ByteOffset, Fields
<1> QED
  BY <1>3, <1>4

\* A chunk begins where the ones before it end.
LEMMA ChunkPlace ==
  ASSUME PinsInv, FieldsInv, ChunkInv, Addressable, pc = "dispatch"
  PROVE  /\ ByteOffset(ask[cur].cmd, Chunk(cur)) = AskedOffset(ask[cur]) + done
         /\ NULL \notin Nat => (Chunk(cur).data = NULL <=> ask[cur].data = NULL)
         /\ ask[cur].data # NULL => Chunk(cur).data = ask[cur].data + done
         /\ Split(cur) =>
              \/ /\ Chunk(cur).length = max_transfer
                 /\ done + Chunk(cur).length < ask[cur].length
              \/ /\ done < ask[cur].length
                 /\ done + Chunk(cur).length = ask[cur].length
<1> DEFINE a == ask[cur]
<1>1. cur \in Req /\ a \in Shapes[cur]
  BY DEF PinsInv, PathTypes, OneOwner, FieldsInv
<1>2. /\ a.offset \in Nat /\ a.actual \in Nat /\ a.length \in Nat
      /\ a.data \in Nat \cup {NULL} /\ Word \in Nat \ {0}
      /\ done \in Nat /\ max_transfer \in Nat
  <2>1. max_transfer \in Nat /\ done \in Nat
    BY TransferAssumption DEF FieldsInv
  <2> HIDE DEF a
  <2> QED
    BY <1>1, <2>1, ShapeTypes, AskedTypes DEF FieldTypes, Fields
<1>3. /\ AskedOffset(a) \in Nat
      /\ AskedOffset(a) = ByteOffset(a.cmd, Fields(a))
      /\ a.cmd \notin Decoded => AskedOffset(a) = a.offset
      /\ a.cmd \in Decoded => AskedOffset(a) = a.actual * Word + a.offset
  <2> HIDE DEF a
  <2> QED
    BY <1>1, OffsetAsked
<1>4. CASE ~Split(cur)
  <2>1. Chunk(cur) = Fields(a) /\ done = 0
    BY <1>4 DEF Chunk, FieldsInv, ChunkInv
  <2>2. Fields(a).data = a.data
    BY DEF Fields
  <2>3. a.data # NULL => Chunk(cur).data = a.data + done
    BY <1>2, <2>1, <2>2
  <2> HIDE DEF a
  <2> QED
    BY <1>3, <1>4, <2>1, <2>2, <2>3 DEF a
<1>5. CASE Split(cur)
  <2> DEFINE off == a.actual * Word + a.offset + done
             len == IF a.length - done > max_transfer
                    THEN max_transfer ELSE a.length - done
             data == IF a.data = NULL THEN NULL ELSE a.data + done
  <2>1. Chunk(cur) = [offset |-> off % Word, actual |-> off \div Word,
                      data |-> data, length |-> len]
    BY <1>5 DEF Chunk
  <2>2. done < a.length
    BY <1>5 DEF FieldsInv
  <2>3. a.actual * Word \in Nat /\ off \in Nat
    BY <1>2
  <2>4. ByteOffset(a.cmd, Chunk(cur)) = AskedOffset(a) + done
    <3>1. CASE a.cmd \in Decoded
      <4>1. off % Word \in 0 .. Word - 1 /\ (off \div Word) * Word = off - (off % Word)
        <5> HIDE DEF off
        <5> QED
          BY <1>2, <2>3, Quotient
      <4>2. ByteOffset(a.cmd, Chunk(cur)) = (off \div Word) * Word + (off % Word)
        <5> HIDE DEF off, a
        <5> QED
          BY <2>1, <3>1 DEF ByteOffset
      <4>3. AskedOffset(a) + done = off
        BY <1>2, <1>3, <2>3, <3>1
      <4> HIDE DEF off, a
      <4> QED
        BY <2>3, <4>1, <4>2, <4>3
    <3>2. CASE a.cmd \notin Decoded
      <4> DEFINE m == a.offset + done
      <4>1. a.offset + a.length <= Word
        <5> HIDE DEF a
        <5> QED
          BY <1>1, <3>2 DEF Addressable
      <4>2. m \in 0 .. Word - 1 /\ off = a.actual * Word + m
        BY <1>2, <2>2, <2>3, <4>1
      <4> HIDE DEF m
      <4>3. off % Word = m
        <5> HIDE DEF off
        <5>1. a.actual \in Int
          BY <1>2
        <5> HIDE DEF a
        <5> QED
          BY <1>2, <4>2, <5>1, Remainder
      <4>4. ByteOffset(a.cmd, Chunk(cur)) = off % Word
        <5> HIDE DEF off, a
        <5> QED
          BY <2>1, <3>2 DEF ByteOffset
      <4> QED
        BY <1>3, <3>2, <4>3, <4>4 DEF m
    <3> QED
      BY <3>1, <3>2
  <2>5. /\ Chunk(cur).data = data /\ Chunk(cur).length = len
    BY <2>1
  <2>6. /\ NULL \notin Nat => (data = NULL <=> a.data = NULL)
        /\ a.data # NULL => data = a.data + done
    <3> HIDE DEF a
    <3> QED
      BY <1>2
  <2>7. \/ len = max_transfer /\ done + len < a.length
        \/ done < a.length /\ done + len = a.length
    <3> HIDE DEF a
    <3> QED
      BY <1>2, <2>2
  <2> QED
    BY <2>4, <2>5, <2>6, <2>7
<1> QED
  BY <1>4, <1>5

\* Nothing is in hand when the step is over.
LEMMA ChunkOver ==
  ASSUME ChunkInv, max_transfer' = max_transfer, pc' = "loop", done' = 0
  PROVE  ChunkInv'
<1>1. 0 % BlockSize = 0
  <2>1. BlockSize \in Nat \ {0}
    BY TransferAssumption
  <2> QED
    BY <2>1
<1> QED
  BY <1>1 DEF ChunkInv

\* The chunk in hand stays.
LEMMA ChunkStays ==
  ASSUME PinsInv, ChunkInv, UNCHANGED <<max_transfer, cur, done>>,
         pc # "loop" => /\ ask'[cur] = ask[cur] /\ io'[cur].length = io[cur].length
                        /\ pc \in {"submit", "pinned"} => io'[cur] = io[cur],
         \/ pc' = pc
         \/ pc = "submit" /\ pc' = "pinned"
         \/ pc \in {"submit", "pinned"} /\ pc' = "poll"
         \/ pc = "dispatch" /\ pc' = "poll" /\ ~Split(cur)
  PROVE  ChunkInv'
<1>1. pc # "loop" => Split(cur)' = Split(cur)
  BY DEF Split
<1>2. pc' \in {"submit", "pinned"} =>
        /\ ask'[cur].cmd # "UNMAP"
        /\ ByteOffset(ask[cur].cmd, io[cur])' = AskedOffset(ask[cur])' + done'
        /\ io'[cur].data = NULL <=> ask'[cur].data = NULL
        /\ ask'[cur].data # NULL => io'[cur].data = ask'[cur].data + done'
  BY DEF ChunkInv, ByteOffset, AskedOffset
<1>3. pc' \in {"submit", "pinned", "poll"} /\ Split(cur)' =>
        \/ /\ io'[cur].length = max_transfer'
           /\ done' + io'[cur].length < ask'[cur].length
        \/ done' < ask'[cur].length /\ done' + io'[cur].length = ask'[cur].length
  BY <1>1 DEF ChunkInv
<1>4. pc' # "loop" /\ ~Split(cur)' => done' = 0
  BY <1>1 DEF ChunkInv
<1> QED
  BY <1>2, <1>3, <1>4 DEF ChunkInv

LEMMA ChunkTaken ==
  ASSUME PinsInv, ChunkInv, NEW r \in Req, GetMsg(r)
  PROVE  ChunkInv'
<1>1. 0 % BlockSize = 0
  <2>1. BlockSize \in Nat \ {0}
    BY TransferAssumption
  <2> QED
    BY <2>1
<1>2. pc' = "dispatch" /\ done' = 0 /\ max_transfer' = max_transfer
  BY DEF GetMsg, configVars
<1> QED
  BY <1>1, <1>2 DEF ChunkInv

LEMMA ChunkMade ==
  ASSUME PinsInv, FieldsInv, ChunkInv, Addressable, NullIsNoData, Dispatch
  PROVE  ChunkInv'
<1>1. /\ pc = "dispatch" /\ pc' = "submit" /\ ask[cur].cmd # "UNMAP"
      /\ io' = [io EXCEPT ![cur] = Chunk(cur)]
      /\ UNCHANGED <<max_transfer, ask, cur, done>>
  BY DEF Dispatch, configVars
<1>2. io'[cur] = Chunk(cur)
  BY <1>1 DEF PinsInv, PathTypes
<1>3. Split(cur)' = Split(cur)
  BY <1>1 DEF Split
<1>4. /\ ByteOffset(ask[cur].cmd, Chunk(cur)) = AskedOffset(ask[cur]) + done
      /\ Chunk(cur).data = NULL <=> ask[cur].data = NULL
      /\ ask[cur].data # NULL => Chunk(cur).data = ask[cur].data + done
      /\ Split(cur) =>
           \/ /\ Chunk(cur).length = max_transfer
              /\ done + Chunk(cur).length < ask[cur].length
           \/ /\ done < ask[cur].length
              /\ done + Chunk(cur).length = ask[cur].length
  BY <1>1, ChunkPlace DEF NullIsNoData
<1>5. ByteOffset(ask[cur].cmd, io[cur])' = AskedOffset(ask[cur])' + done'
  BY <1>1, <1>2, <1>4 DEF ByteOffset, AskedOffset
<1> QED
  BY <1>1, <1>2, <1>3, <1>4, <1>5 DEF ChunkInv

LEMMA ChunkNext ==
  ASSUME PinsInv, FieldsInv, ChunkInv, NextChunk
  PROVE  ChunkInv'
<1>1. /\ pc = "poll" /\ pc' = "dispatch" /\ Split(cur)
      /\ done + io[cur].length < ask[cur].length /\ done' = done + io[cur].length
      /\ UNCHANGED <<max_transfer, ask, io, cur>>
  BY DEF NextChunk, configVars, reqVars
<1>2. /\ done \in Int /\ io[cur].length \in Nat /\ BlockSize \in Nat \ {0}
      /\ ask[cur].length \in Nat
  <2>1. cur \in Req /\ ask[cur] \in Shapes[cur]
    BY <1>1 DEF PinsInv, PathTypes, OneOwner, FieldsInv
  <2>2. ask[cur].length \in Nat
    BY <2>1, ShapeTypes
  <2> QED
    BY <1>1, <2>2, Limits DEF FieldsInv, InMemory
<1>3. io[cur].length = max_transfer
  BY <1>1, <1>2 DEF ChunkInv
<1>4. done' % BlockSize = 0
  <2>1. /\ done % BlockSize = 0 /\ io[cur].length % BlockSize = 0
        /\ done' = done + io[cur].length
    BY <1>1, <1>3 DEF ChunkInv
  <2> PICK len : len = io[cur].length
    OBVIOUS
  <2>2. /\ done \in Int /\ len \in Int /\ BlockSize \in Nat \ {0}
        /\ done % BlockSize = 0 /\ len % BlockSize = 0
    BY <1>2, <2>1
  <2>3. (done + len) % BlockSize = 0
    BY ONLY <2>2, Multiples
  <2> QED
    BY <2>1, <2>3
<1>5. Split(cur)' = Split(cur)
  BY <1>1 DEF Split
<1> QED
  BY <1>1, <1>4, <1>5 DEF ChunkInv

\* A completion changes io_Actual of its request only.
LEMMA HarvestKeepsLength ==
  ASSUME PinsInv, Harvest, NEW q \in Req
  PROVE  io'[q].length = io[q].length /\ ask'[q] = ask[q]
<1>1. DOMAIN io = Req /\ ask' = ask
  BY Zenon DEF PinsInv, PathTypes, Harvest
<1>2. \/ io' = io
      \/ \E r, n : io' = [io EXCEPT ![r].actual = n]
  BY Zenon DEF Harvest
<1>3. CASE io' = io
  BY <1>1, <1>3
<1>4. CASE \E r, n : io' = [io EXCEPT ![r].actual = n]
  <2>1. PICK r, n : io' = [io EXCEPT ![r].actual = n]
    BY <1>4
  <2>2. io'[q] = IF q = r THEN [io[q] EXCEPT !.actual = n] ELSE io[q]
    BY <1>1, <2>1
  <2> QED
    BY <1>1, <2>2
<1> QED
  BY <1>2, <1>3, <1>4

LEMMA ChunkStep ==
  ASSUME PinsInv, FieldsInv, ChunkInv, Addressable, NullIsNoData, [Next]_vars
  PROVE  ChunkInv'
<1>0. PathTypes /\ OneOwner /\ NULL \notin Req
  BY TransferAssumption DEF PinsInv
<1>1. CASE UNCHANGED vars \/ Controller
  <2>1. UNCHANGED <<configVars, reqVars, taskVars>>
    BY <1>1 DEF vars, Controller, Read, Write, Discard, Fail, Post
  <2> QED
    BY <2>1, ChunkStays DEF configVars, reqVars, taskVars
<1>2. CASE \E r \in Req : BeginIO(r)
  <2>1. PICK r \in Req : BeginIO(r)
    BY <1>2
  <2>2. /\ ask[r] = NULL /\ UNCHANGED <<max_transfer, pc, cur, done>>
        /\ \E a : ask' = [ask EXCEPT ![r] = a] /\ io' = [io EXCEPT ![r] = Fields(a)]
    BY <2>1 DEF BeginIO, configVars, taskVars
  <2>3. pc # "loop" => cur # r /\ cur \in Req
    BY <1>0, <2>2 DEF OneOwner, PathTypes
  <2>4. pc # "loop" => ask'[cur] = ask[cur] /\ io'[cur] = io[cur]
    BY <1>0, <2>2, <2>3 DEF PathTypes
  <2> QED
    BY <2>2, <2>4, ChunkStays
<1>3. CASE Harvest
  <2>1. UNCHANGED <<max_transfer, ask, pc, cur, done>> /\ pc \notin {"submit", "pinned"}
    BY <1>3 DEF Harvest, configVars, taskVars
  <2>2. \A q \in Req : io'[q].length = io[q].length
    BY <1>3, HarvestKeepsLength
  <2>3. pc # "loop" => cur \in Req
    BY <1>0 DEF PathTypes
  <2> QED
    BY <2>1, <2>2, <2>3, ChunkStays
<1>4. CASE \E r \in Req : GetMsg(r)
  BY <1>4, ChunkTaken
<1>5. CASE Dispatch \/ NextChunk
  BY <1>5, ChunkMade, ChunkNext
<1>6. CASE \/ Busy \/ Reject \/ StartDMARefused \/ AllocFails \/ UnmapRefused
           \/ PollDone \/ PollTimeout
  <2>1. pc' = "loop" /\ done' = 0 /\ UNCHANGED configVars
    BY <1>6 DEF Busy, Reject, StartDMARefused, AllocFails, UnmapRefused, PollDone,
       PollTimeout, Answer, Dispatched
  <2> QED
    BY <2>1, ChunkOver DEF configVars
<1>7. CASE SubmitBounce \/ SubmitDirect
  <2>1. /\ pc \in {"submit", "pinned"} /\ UNCHANGED configVars
        /\ \/ \E err, actual : Answer(err, actual)
           \/ /\ UNCHANGED reqVars
              /\ \E prp1, rest, bounce, own : Issue(prp1, rest, bounce, own)
    BY <1>7 DEF SubmitBounce, SubmitDirect, Accepts
  <2>2. \/ pc' = "loop" /\ done' = 0
        \/ pc' = "poll" /\ UNCHANGED <<reqVars, cur, done>>
    BY <2>1 DEF Answer, Issue, Dispatched
  <2>3. CASE pc' = "loop" /\ done' = 0
    BY <2>1, <2>3, ChunkOver DEF configVars
  <2>4. CASE pc' = "poll" /\ UNCHANGED <<reqVars, cur, done>>
    BY <2>1, <2>4, ChunkStays DEF configVars, reqVars
  <2> QED
    BY <2>2, <2>3, <2>4
<1>8. CASE StartDMA \/ Unmap
  <2>1. /\ UNCHANGED <<configVars, reqVars, cur, done>>
        /\ \/ pc = "submit" /\ pc' = "pinned"
           \/ pc = "dispatch" /\ pc' = "poll" /\ ~Split(cur)
    BY <1>8 DEF StartDMA, Accepts, Unmap, Split
  <2> QED
    BY <2>1, ChunkStays DEF configVars, reqVars
<1> QED
  BY <1>1, <1>2, <1>3, <1>4, <1>5, <1>6, <1>7, <1>8 DEF Next, Task

LEMMA ChunkStart ==
  ASSUME Init, WholeBlocks
  PROVE  ChunkInv
<1>1. PICK mdts \in Mdts : max_transfer = MaxTransferBytes(mdts)
  BY DEF Init
<1>2. /\ max_transfer # 0 /\ max_transfer % BlockSize = 0
      /\ max_transfer \div BlockSize <= MaxNlb
  BY <1>1 DEF WholeBlocks
<1>3. pc = "loop" /\ done = 0
  BY DEF Init
<1>4. 0 % BlockSize = 0
  <2>1. BlockSize \in Nat \ {0}
    BY TransferAssumption
  <2> QED
    BY <2>1
<1> QED
  BY <1>2, <1>3, <1>4 DEF ChunkInv

-----------------------------------------------------------------------------
(* What is known of the commands under way and of the requests replied.    *)

\* Slots are only released, and nothing is newly polled for.
LEMMA PollingQuiet ==
  ASSUME PinsInv, Polling, cur' = cur, DOMAIN inflight' = Slot,
         \A s \in Slot : inflight'[s].ioreq \in {inflight[s].ioreq, NULL},
         \A s \in Occupied : ask'[inflight[s].ioreq] = ask[inflight[s].ioreq],
         pc' = "poll" => /\ pc = "poll" /\ slot' = slot /\ max_transfer' = max_transfer
                         /\ ask'[cur] = ask[cur],
         pc' = "pinned" => ~Misaligned(ask[cur].cmd, io[cur])'
  PROVE  Polling'
<1>1. slot \in Slot
  BY DEF PinsInv, PathTypes
<1>2. pc' = "poll" => /\ inflight'[slot'].ioreq \in {cur', NULL}
                      /\ ask'[cur'].cmd = "UNMAP" \/ Split(cur)'
  BY <1>1 DEF Polling, Split
<1>3. \A s \in Occupied' : ask'[inflight'[s].ioreq].cmd = "UNMAP" => inflight'[s].ioreq = cur'
  BY DEF Polling, Occupied
<1> QED
  BY <1>2, <1>3 DEF Polling

\* The request in hand is replied or put into slot s.
LEMMA PollingAway ==
  ASSUME PinsInv, Polling, cur # NULL, UNCHANGED ask, DOMAIN inflight' = Slot,
         NEW t \in Slot,
         \A s \in Slot : \/ s # t /\ inflight'[s] = inflight[s] /\ inflight[s].ioreq # cur
                         \/ s = t /\ inflight'[s].ioreq \in {cur, NULL}
                         \/ inflight'[s].ioreq = NULL,
         \/ pc' = "loop" /\ (ask[cur].cmd = "UNMAP" => inflight'[t].ioreq = NULL)
         \/ /\ pc' = "poll" /\ slot' = t /\ cur' = cur /\ max_transfer' = max_transfer
            /\ ask[cur].cmd = "UNMAP" \/ Split(cur)
  PROVE  Polling'
<1>1. pc' = "poll" => /\ inflight'[slot'].ioreq \in {cur', NULL}
                      /\ ask'[cur'].cmd = "UNMAP" \/ Split(cur)'
  BY DEF PinsInv, PathTypes, Split
<1>2. ASSUME NEW s \in Occupied', ask'[inflight'[s].ioreq].cmd = "UNMAP"
      PROVE  inflight'[s].ioreq = cur'
  <2>1. s \in Slot /\ inflight'[s].ioreq # NULL
    BY <1>2 DEF Occupied
  <2>2. CASE s # t /\ inflight'[s] = inflight[s] /\ inflight[s].ioreq # cur
    BY <1>2, <2>1, <2>2 DEF Polling, Occupied
  <2>3. CASE s = t /\ inflight'[s].ioreq = cur
    BY <1>2, <2>1, <2>3
  <2> QED
    BY <2>1, <2>2, <2>3
<1> QED
  BY <1>1, <1>2 DEF Polling

LEMMA PollingClient ==
  ASSUME PinsInv, RestTyped, Polling, NEW q \in Req, BeginIO(q) \/ GetMsg(q)
  PROVE  Polling'
<1>1. PathTypes /\ OneOwner /\ NULL \notin Req
  BY TransferAssumption DEF PinsInv
<1>2. CASE BeginIO(q)
  <2>1. PICK a \in Shapes[q] : /\ ask' = [ask EXCEPT ![q] = a]
                              /\ io' = [io EXCEPT ![q] = Fields(a)]
    BY <1>2 DEF BeginIO
  <2>2. ask[q] = NULL /\ UNCHANGED <<max_transfer, pc, cur, slot, inflight>>
    BY <1>2 DEF BeginIO, configVars, taskVars, pathVars
  <2>3. \A r \in Req : r # q => ask'[r] = ask[r] /\ io'[r] = io[r]
    BY <1>1, <2>1 DEF PathTypes
  <2>4. \A s \in Occupied : ask'[inflight[s].ioreq] = ask[inflight[s].ioreq]
    BY <1>1, <2>2, <2>3 DEF OneOwner, PathTypes, Occupied
  <2>5. pc # "loop" => ask'[cur] = ask[cur] /\ io'[cur] = io[cur]
    BY <1>1, <2>2, <2>3 DEF OneOwner, PathTypes
  <2>6. pc' = "pinned" => ~Misaligned(ask[cur].cmd, io[cur])'
    BY <2>2, <2>5 DEF Polling, Misaligned, ByteOffset
  <2> QED
    BY <1>1, <2>2, <2>4, <2>5, <2>6, PollingQuiet DEF PathTypes
<1>3. CASE GetMsg(q)
  <2>1. pc' = "dispatch" /\ cur = NULL /\ UNCHANGED <<ask, inflight>>
    BY <1>3 DEF GetMsg, RestTyped, pathVars
  <2> QED
    BY <2>1 DEF Polling, Occupied
<1> QED
  BY <1>2, <1>3

LEMMA PollingReplies ==
  ASSUME PinsInv, Polling,
         \/ Busy \/ Reject \/ StartDMARefused \/ AllocFails \/ UnmapRefused
         \/ PollDone \/ PollTimeout
  PROVE  Polling'
<1>1. PathTypes /\ OneOwner /\ NULL \notin Req
  BY TransferAssumption DEF PinsInv
<1>2. cur # NULL
  BY <1>1 DEF PathTypes, Busy, Reject, StartDMARefused, Accepts,
     AllocFails, UnmapRefused, PollDone, PollTimeout
<1>3. pc' = "loop" /\ UNCHANGED ask
  BY DEF Busy, Reject, StartDMARefused, AllocFails, UnmapRefused, PollDone, PollTimeout,
     Answer, Dispatched
<1>4. CASE PollTimeout
  <2>1. pc = "poll" /\ inflight' = [inflight EXCEPT ![slot] = FreeInflight]
    BY <1>4 DEF PollTimeout
  <2>2. FreeInflight.ioreq = NULL
    BY DEF FreeInflight
  <2>3. \A s \in Slot : s # slot => inflight[s].ioreq # cur
    BY <1>1, <1>2 DEF OneOwner, Occupied
  <2>4. \A s \in Slot : inflight'[s] = IF s = slot THEN FreeInflight ELSE inflight[s]
    BY <1>1, <2>1 DEF PathTypes
  <2>5. slot \in Slot /\ DOMAIN inflight' = Slot
    BY <1>1, <2>1 DEF PathTypes
  <2> QED
    BY <1>2, <1>3, <2>2, <2>3, <2>4, <2>5, PollingAway
<1>5. CASE ~PollTimeout
  <2>1. inflight' = inflight
    BY <1>5 DEF Busy, Reject, StartDMARefused, AllocFails, UnmapRefused, PollDone,
       pathVars
  <2>2. pc # "poll" \/ inflight[slot].ioreq = NULL
    BY <1>5 DEF Busy, Reject, StartDMARefused, Accepts, AllocFails, UnmapRefused,
       PollDone
  <2>3. \A s \in Slot : inflight[s].ioreq # cur
    BY <1>1, <1>2, <2>2 DEF OneOwner, Occupied
  <2>4. \A s \in Occupied' : inflight'[s].ioreq # cur /\ ask'[inflight'[s].ioreq].cmd # "UNMAP"
    BY <1>3, <2>1, <2>3 DEF Polling, Occupied
  <2> QED
    BY <1>3, <2>4 DEF Polling
<1> QED
  BY <1>4, <1>5

LEMMA PollingIssue ==
  ASSUME PinsInv, Polling, ChunkInv, SubmitBounce \/ SubmitDirect
  PROVE  Polling'
<1>1. PathTypes /\ OneOwner /\ NULL \notin Req
  BY TransferAssumption DEF PinsInv
<1>2. /\ pc \in {"submit", "pinned"} /\ cur # NULL /\ slot \in Slot
      /\ ask[cur].cmd # "UNMAP" /\ max_transfer' = max_transfer
  BY <1>1 DEF PathTypes, SubmitBounce, SubmitDirect, Accepts, ChunkInv, configVars
<1>3. \A s \in Slot : inflight[s].ioreq # cur
  BY <1>1, <1>2 DEF OneOwner, Occupied
<1>4. \/ /\ UNCHANGED ask
         /\ \E prp1, rest, bounce, own : Issue(prp1, rest, bounce, own)
      \/ inflight' = inflight /\ \E err, actual : Answer(err, actual)
  BY DEF SubmitBounce, SubmitDirect, reqVars
<1>5. CASE /\ UNCHANGED ask
           /\ \E prp1, rest, bounce, own : Issue(prp1, rest, bounce, own)
  <2>1. PICK prp1, rest, bounce, own : Issue(prp1, rest, bounce, own)
    BY <1>5
  <2> PICK i : i = [ioreq |-> cur, suppress |-> Split(cur), bounce |-> bounce,
                   write |-> ask[cur].cmd \in Writes, buf |-> io[cur].data,
                   len |-> io[cur].length, own |-> own]
    OBVIOUS
  <2>2. /\ inflight' = [inflight EXCEPT ![slot] = i] /\ i.ioreq = cur
        /\ pc' = "loop" \/ (pc' = "poll" /\ slot' = slot /\ cur' = cur /\ Split(cur))
    BY <2>1 DEF Issue, Dispatched
  <2>3. /\ DOMAIN inflight' = Slot
        /\ \A s \in Slot : inflight'[s] = IF s = slot THEN i ELSE inflight[s]
    BY <1>1, <2>2 DEF PathTypes
  <2> QED
    BY <1>2, <1>3, <1>5, <2>2, <2>3, PollingAway
<1>6. CASE inflight' = inflight /\ \E err, actual : Answer(err, actual)
  <2>1. UNCHANGED ask /\ pc' = "loop"
    BY <1>6 DEF Answer, Dispatched
  <2> QED
    BY <1>3, <1>6, <2>1 DEF Polling, Occupied
<1> QED
  BY <1>4, <1>5, <1>6

LEMMA PollingUnmap ==
  ASSUME PinsInv, Polling, Unmap
  PROVE  Polling'
<1>1. PathTypes /\ OneOwner /\ NULL \notin Req
  BY TransferAssumption DEF PinsInv
<1>2. /\ pc = "dispatch" /\ pc' = "poll" /\ slot' = FreeSlot /\ cur' = cur
      /\ UNCHANGED <<ask, max_transfer>> /\ FreeSlot \in Slot /\ cur # NULL
      /\ ask[cur].cmd = "UNMAP"
  BY <1>1, FreeSlotIsFree DEF Unmap, PathTypes, reqVars, configVars
<1> PICK i : i = [FreeInflight EXCEPT !.ioreq = cur, !.suppress = TRUE]
  OBVIOUS
<1>3. inflight' = [inflight EXCEPT ![FreeSlot] = i] /\ i.ioreq = cur
  BY DEF Unmap, FreeInflight
<1>4. \A s \in Slot : inflight[s].ioreq # cur
  BY <1>1, <1>2 DEF OneOwner, Occupied
<1> PICK t \in Slot : t = FreeSlot
  BY <1>2
<1>5. /\ DOMAIN inflight' = Slot
      /\ \A s \in Slot : inflight'[s] = IF s = t THEN i ELSE inflight[s]
  BY <1>1, <1>3 DEF PathTypes
<1> QED
  BY <1>2, <1>3, <1>4, <1>5, PollingAway

LEMMA PollingStep ==
  ASSUME PinsInv, RestTyped, ChunkInv, Polling, [Next]_vars
  PROVE  Polling'
<1>1. PathTypes
  BY DEF PinsInv
<1>2. CASE UNCHANGED vars \/ Controller \/ Dispatch \/ StartDMA \/ NextChunk
  <2>1. /\ UNCHANGED <<max_transfer, ask, cur, inflight>>
        /\ pc' = "poll" => pc = "poll" /\ slot' = slot
    BY <1>2 DEF vars, configVars, reqVars, taskVars, pathVars, Controller, Read,
       Write, Discard, Fail, Post, Dispatch, StartDMA, NextChunk
  <2>2. pc' = "pinned" => ~Misaligned(ask[cur].cmd, io[cur])
    BY <1>2 DEF Polling, vars, taskVars, Controller, Read, Write, Discard, Fail, Post,
       Dispatch, StartDMA, Accepts, NextChunk
  <2>3. pc' = "pinned" => io' = io
    BY <1>2 DEF vars, reqVars, Controller, Read, Write, Discard, Fail, Post,
       Dispatch, StartDMA, NextChunk
  <2>4. pc' = "pinned" => ~Misaligned(ask[cur].cmd, io[cur])'
    BY <2>1, <2>2, <2>3 DEF Misaligned, ByteOffset
  <2> QED
    BY <1>1, <2>1, <2>4, PollingQuiet DEF PathTypes
<1>3. CASE \E r \in Req : BeginIO(r) \/ GetMsg(r)
  BY <1>3, PollingClient
<1>4. CASE Harvest
  <2>1. /\ UNCHANGED <<max_transfer, ask, cur, pc, slot>> /\ pc # "pinned"
        /\ \/ inflight' = inflight
           \/ \E k : inflight' = [inflight EXCEPT ![k] = FreeInflight]
    BY <1>4 DEF Harvest, configVars, taskVars, pathVars
  <2>2. /\ DOMAIN inflight' = Slot
        /\ \A s \in Slot : inflight'[s] \in {inflight[s], FreeInflight}
    BY <1>1, <2>1 DEF PathTypes
  <2>3. FreeInflight.ioreq = NULL
    BY DEF FreeInflight
  <2> QED
    BY <2>1, <2>2, <2>3, PollingQuiet
<1>5. CASE SubmitBounce \/ SubmitDirect \/ Unmap
  BY <1>5, PollingIssue, PollingUnmap
<1>6. CASE \/ Busy \/ Reject \/ StartDMARefused \/ AllocFails \/ UnmapRefused
           \/ PollDone \/ PollTimeout
  BY <1>6, PollingReplies
<1> QED
  BY <1>2, <1>3, <1>4, <1>5, <1>6 DEF Next, Task

\* A step that changes nothing of what Good says of r.
Kept(r) ==
  /\ ask'[r] = ask[r] /\ io'[r].length = io[r].length
  /\ (IF r = cur' THEN done' ELSE 0) = (IF r = cur THEN done ELSE 0)

DsmKept == dsm_buf' = NULL <=> dsm_buf = NULL

LEMMA GoodStays ==
  ASSUME NEW r, Kept(r), DsmKept
  PROVE  /\ Good(r)' <=> Good(r)
         /\ WellFormed(ask[r])' <=> WellFormed(ask[r])
<1>1. WellFormed(ask[r])' <=> WellFormed(ask[r])
  BY DEF Kept, DsmKept, WellFormed, AskedOffset
<1>2. Reach(r)' = Reach(r)
  BY DEF Kept, Reach
<1>3. Sound(ask[r], Reach(r))' <=> Sound(ask[r], Reach(r))
  BY <1>2 DEF Kept, Sound, AskedOffset
<1> QED
  BY <1>1, <1>3 DEF Good, Kept

\* The same of the request in a slot.
LEMMA SlotStays ==
  ASSUME NEW s, DsmKept, inflight'[s].ioreq = inflight[s].ioreq,
         Kept(inflight[s].ioreq)
  PROVE  Good(inflight[s].ioreq)' <=> Good(inflight[s].ioreq)
<1> PICK r : r = inflight[s].ioreq
  OBVIOUS
<1>1. Kept(r) /\ inflight'[s].ioreq = r
  OBVIOUS
<1>2. Good(r)' <=> Good(r)
  BY <1>1, GoodStays
<1>3. Good(inflight[s].ioreq)' <=> Good(r)'
  BY <1>1 DEF Good, Sound, Reach, WellFormed, AskedOffset
<1> QED
  BY <1>2, <1>3

\* The commands under way, and their requests, are left alone.
LEMMA UnderwayStays ==
  ASSUME OneEach, CommandsTold, CompletionsTold, DsmKept, UNCHANGED <<issued, cq>>,
         faulted \subseteq faulted',
         \A s \in Occupied : /\ inflight'[s].ioreq = inflight[s].ioreq
                             /\ Kept(inflight[s].ioreq)
  PROVE  CommandsTold' /\ CompletionsTold'
<1>1. \A s \in Occupied : Good(inflight[s].ioreq)' <=> Good(inflight[s].ioreq)
  BY SlotStays
<1>2. CommandsTold'
  <2> SUFFICES ASSUME NEW c \in issued
               PROVE  Good(CommandOf(c))' <=> InDisk(c)
    BY DEF CommandsTold, InDisk
  <2>1. c.cid \in Occupied /\ (Good(inflight[c.cid].ioreq) <=> InDisk(c))
    BY DEF OneEach, CommandsTold, CommandOf
  <2> QED
    BY <1>1, <2>1 DEF CommandOf
<1>3. CompletionsTold'
  <2> SUFFICES ASSUME NEW k \in DOMAIN cq
               PROVE  Ended(CommandOf(cq[k]), cq[k].ok)'
    BY DEF CompletionsTold
  <2> PICK r : r = CommandOf(cq[k])
    OBVIOUS
  <2>1. cq[k].cid \in Occupied /\ Ended(r, cq[k].ok)
    BY DEF OneEach, CompletionsTold
  <2>2. /\ inflight[cq[k].cid].ioreq = r /\ inflight'[cq[k].cid].ioreq = r
        /\ Good(inflight[cq[k].cid].ioreq)' <=> Good(inflight[cq[k].cid].ioreq)
    BY <1>1, <2>1 DEF CommandOf
  <2>3. CommandOf(cq[k])' = r /\ (Good(CommandOf(cq[k]))' <=> Good(r))
    BY <2>2 DEF CommandOf
  <2> QED
    BY <2>1, <2>3 DEF Ended
<1> QED
  BY <1>2, <1>3

LEMMA ToldStays ==
  ASSUME NEW r, Told(r), DsmKept, ask'[r] = ask[r], io'[r] = io[r],
         io_Error'[r] = io_Error[r], faulted \subseteq faulted'
  PROVE  Told(r)'
<1>1. WellFormed(ask[r])' <=> WellFormed(ask[r])
  BY DEF DsmKept, WellFormed, AskedOffset
<1> QED
  BY <1>1 DEF Told

\* Dispatch replies the request in hand.
LEMMA AnswersAnswer ==
  ASSUME PinsInv, RestTyped, HeldInv, RepliesInv, AnswersInv, Polling', giveups = 0,
         cur # NULL, NEW err, NEW actual, Answer(err, actual),
         UNCHANGED <<max_transfer, inflight, issued, cq, dsm_buf>>,
         faulted \subseteq faulted',
         pc # "poll" \/ inflight[slot].ioreq = NULL,
         IF err = "none"
         THEN /\ WellFormed(ask[cur])
              /\ ~Split(cur) =>
                   actual = IF ask[cur].cmd = "UNMAP" THEN 0 ELSE ask[cur].length
         ELSE ~WellFormed(ask[cur]) \/ cur \in faulted'
  PROVE  AnswersInv'
<1>1. /\ PathTypes /\ OneOwner /\ NULL \notin Req /\ OneEach
      /\ CommandsTold /\ CompletionsTold /\ (\A r \in replied : Told(r))
      /\ io_Error \in [Req -> Errors] /\ replied \subseteq Req
  BY TransferAssumption DEF PinsInv, HeldInv, RestTyped, AnswersTyped, AnswersInv
<1> PICK n : n = IF ~Split(cur) THEN actual
                 ELSE IF err = "none" THEN ask[cur].length ELSE 0
  OBVIOUS
<1>2. /\ ReplyMsg(cur, err, n) /\ cur' = NULL /\ done' = 0 /\ pc' = "loop"
      /\ UNCHANGED ask
  BY DEF Answer, Dispatched
<1> PICK f : f = [Fields(ask[cur]) EXCEPT !.actual = n]
  OBVIOUS
<1>3. /\ io' = [io EXCEPT ![cur] = f] /\ io_Error' = [io_Error EXCEPT ![cur] = err]
      /\ replied' = replied \cup {cur} /\ f.actual = n
  BY <1>2 DEF ReplyMsg, Fields
<1>4. cur \in Req /\ \A s \in Slot : inflight[s].ioreq # cur
  BY <1>1 DEF OneOwner, PathTypes, Occupied
<1>5. \A r \in Req : r # cur => io'[r] = io[r] /\ io_Error'[r] = io_Error[r] /\ Kept(r)
  BY <1>1, <1>2, <1>3 DEF Kept, PathTypes
<1>6. DsmKept
  BY DEF DsmKept
<1>7. CommandsTold' /\ CompletionsTold'
  <2>1. \A s \in Occupied : /\ inflight'[s].ioreq = inflight[s].ioreq
                            /\ Kept(inflight[s].ioreq)
    BY <1>1, <1>4, <1>5 DEF Occupied, PathTypes
  <2> QED
    BY <1>1, <1>6, <2>1, UnderwayStays
<1>8. ASSUME NEW r \in replied'
      PROVE  Told(r)'
  <2>1. CASE r = cur
    <3>1. io'[r].actual = n /\ io_Error'[r] = err
      BY <1>1, <1>3, <1>4, <2>1 DEF PathTypes
    <3>2. WellFormed(ask[r])' <=> WellFormed(ask[cur])
      BY <1>2, <2>1 DEF WellFormed, AskedOffset
    <3>3. err = "none" => n = IF ask[cur].cmd = "UNMAP" THEN 0 ELSE ask[cur].length
      BY DEF Split
    <3> QED
      BY <1>2, <2>1, <3>1, <3>2, <3>3 DEF Told
  <2>2. CASE r # cur
    <3>1. r \in replied /\ r \in Req /\ Told(r)
      BY <1>1, <1>3, <2>2
    <3> QED
      BY <1>2, <1>5, <1>6, <2>2, <3>1, ToldStays
  <2> QED
    BY <2>1, <2>2
<1>9. PolledTold'
  BY <1>2 DEF PolledTold
<1> QED
  BY <1>7, <1>8, <1>9 DEF AnswersInv

\* Nothing of what is known changes.
LEMMA AnswersQuiet ==
  ASSUME PinsInv, RestTyped, HeldInv, RepliesInv, AnswersInv, Polling',
         giveups' = 0 => giveups = 0,
         DsmKept, UNCHANGED <<issued, cq, replied, inflight, faulted>>,
         \A s \in Occupied : Kept(inflight[s].ioreq),
         \A r \in replied : /\ ask'[r] = ask[r] /\ io'[r] = io[r]
                            /\ io_Error'[r] = io_Error[r],
         pc' = "poll" => /\ pc = "poll" /\ UNCHANGED <<slot, cur>> /\ Kept(cur)
                         /\ io_Error'[cur] = io_Error[cur]
  PROVE  AnswersInv'
<1> SUFFICES ASSUME giveups' = 0
             PROVE  CommandsTold' /\ CompletionsTold' /\ PolledTold' /\ \A r \in replied' : Told(r)'
  BY DEF AnswersInv
<1>1. /\ OneEach /\ CommandsTold /\ CompletionsTold /\ PolledTold
      /\ \A r \in replied : Told(r)
  BY DEF HeldInv, AnswersInv
<1>2. CommandsTold' /\ CompletionsTold'
  <2>1. \A s \in Occupied : /\ inflight'[s].ioreq = inflight[s].ioreq
                            /\ Kept(inflight[s].ioreq)
    OBVIOUS
  <2> QED
    BY <1>1, <2>1, UnderwayStays
<1>3. PolledTold'
  <2> SUFFICES ASSUME pc' = "poll", inflight'[slot'].ioreq = NULL
               PROVE  Ended(cur, io_Error[cur] = "none")'
    BY DEF PolledTold
  <2> PICK r : r = cur
    OBVIOUS
  <2>1. /\ Kept(r) /\ Ended(r, io_Error[r] = "none") /\ cur' = r
        /\ io_Error'[r] = io_Error[r] /\ faulted' = faulted
    BY <1>1 DEF PolledTold
  <2>2. Good(r)' <=> Good(r)
    BY <2>1, GoodStays
  <2>3. Good(cur)' <=> Good(r)'
    BY <2>1 DEF Good, Sound, Reach, WellFormed, AskedOffset
  <2> QED
    BY <2>1, <2>2, <2>3 DEF Ended
<1>4. \A r \in replied' : Told(r)'
  BY <1>1, ToldStays
<1> QED
  BY <1>2, <1>3, <1>4

LEMMA QuotientGrows ==
  ASSUME NEW a \in Int, NEW b \in Int, NEW d \in Nat \ {0}, a <= b
  PROVE  a \div d <= b \div d
<1> DEFINE p == a \div d
           q == b \div d
<1>1. /\ p \in Int /\ q \in Int /\ d \in Int
      /\ a % d \in 0 .. d - 1 /\ b % d \in 0 .. d - 1
      /\ p * d = a - (a % d) /\ q * d = b - (b % d)
  <2>1. p \in Int /\ a % d \in 0 .. d - 1 /\ p * d = a - (a % d)
    BY Quotient
  <2>2. q \in Int /\ b % d \in 0 .. d - 1 /\ q * d = b - (b % d)
    BY Quotient
  <2> QED
    BY <2>1, <2>2
<1> HIDE DEF p, q
<1>2. CASE q < p
  <2>1. (q + 1) * d = q * d + d /\ 1 * d = d
    BY <1>1
  <2>2. p * d < (q + 1) * d
    <3> PICK m, n : m = a % d /\ n = b % d
      OBVIOUS
    <3>1. /\ m \in 0 .. d - 1 /\ n \in 0 .. d - 1
          /\ p * d = a - m /\ q * d = b - n
      BY <1>1
    <3> PICK x, y, z : x = p * d /\ y = q * d /\ z = (q + 1) * d
      OBVIOUS
    <3>2. x < z
      BY <2>1, <3>1
    <3> QED
      BY <3>2
  <2>3. p < q + 1
    <3>1. q + 1 \in Int
      BY <1>1
    <3> QED
      BY <1>1, <2>2, <3>1, Smaller
  <2> QED
    BY <1>1, <1>2, <2>3
<1>3. CASE p <= q
  BY <1>3 DEF p, q
<1> QED
  BY <1>1, <1>2, <1>3

\* What the checks of NVMeIO_SubmitNoRing tell of the request in hand.
LEMMA InHand ==
  ASSUME PinsInv, FieldsInv, RestTyped, RepliesInv, ChunkInv, Addressable,
         pc \in {"submit", "pinned"}
  PROVE  /\ cur \in Req /\ ask[cur] # NULL /\ ask[cur].cmd # "UNMAP"
         /\ AskedOffset(ask[cur]) \in Nat /\ done \in Nat /\ io[cur].length \in Nat
         /\ ask[cur].length \in Nat
         /\ ByteOffset(ask[cur].cmd, io[cur]) = AskedOffset(ask[cur]) + done
         /\ Misaligned(ask[cur].cmd, io[cur]) <=> AskedOffset(ask[cur]) % BlockSize # 0
         /\ done % BlockSize = 0
         /\ io[cur].length % BlockSize # 0 => ask[cur].length % BlockSize # 0
         /\ io[cur].data = NULL <=> ask[cur].data = NULL
         /\ ask[cur].data # NULL => io[cur].data = ask[cur].data + done
         /\ io[cur].length # 0 => ask[cur].length # 0
         /\ io[cur].length \div BlockSize <= MaxNlb
         /\ IF Split(cur) THEN io[cur].length # 0
                          ELSE io[cur].length = ask[cur].length /\ done = 0
<1>1. cur \in Req /\ ask[cur] # NULL /\ ask[cur] \in Shapes[cur]
  BY DEF PinsInv, PathTypes, OneOwner, FieldsInv
<1>2. /\ ask[cur].cmd # "UNMAP"
      /\ ByteOffset(ask[cur].cmd, io[cur]) = AskedOffset(ask[cur]) + done
      /\ io[cur].data = NULL <=> ask[cur].data = NULL
      /\ ask[cur].data # NULL => io[cur].data = ask[cur].data + done
      /\ done % BlockSize = 0
      /\ max_transfer # 0 /\ max_transfer % BlockSize = 0
      /\ max_transfer \div BlockSize <= MaxNlb
      /\ ~Split(cur) => done = 0
      /\ Split(cur) =>
           \/ io[cur].length = max_transfer /\ done + io[cur].length < ask[cur].length
           \/ done < ask[cur].length /\ done + io[cur].length = ask[cur].length
  BY DEF ChunkInv
<1>3. /\ AskedOffset(ask[cur]) \in Nat /\ ask[cur].length \in Nat
  <2> PICK a \in Shapes[cur] : a = ask[cur]
    BY <1>1
  <2> QED
    BY <1>1, OffsetAsked, ShapeTypes
<1>4. /\ done \in Nat /\ io[cur].length \in Nat /\ io[cur].length <= max_transfer
      /\ max_transfer \in Nat /\ BlockSize \in Nat \ {0} /\ MaxNlb \in Nat
  BY Limits DEF FieldsInv, InMemory
<1>5. ~Split(cur) => io[cur].length = ask[cur].length
  BY <1>1 DEF RepliesInv, SentBack, Fields
<1> PICK off, len, all : off = AskedOffset(ask[cur]) /\ len = io[cur].length
                         /\ all = ask[cur].length
  OBVIOUS
<1>6. Misaligned(ask[cur].cmd, io[cur]) <=> off % BlockSize # 0
  <2> PICK b : b = off + done
    OBVIOUS
  <2>1. b % BlockSize = 0 => off % BlockSize = 0
    <3> SUFFICES ASSUME b % BlockSize = 0
                 PROVE  off % BlockSize = 0
      OBVIOUS
    <3>1. /\ b \in Int /\ done \in Int /\ BlockSize \in Nat \ {0}
          /\ b % BlockSize = 0 /\ done % BlockSize = 0
      BY <1>2, <1>3, <1>4
    <3>2. (b - done) % BlockSize = 0 /\ b - done = off
      <4>1. (b - done) % BlockSize = 0
        BY ONLY <3>1, Multiples
      <4>2. b - done = off
        BY <1>3, <1>4
      <4> QED
        BY <4>1, <4>2
    <3> QED
      BY <3>2
  <2>2. off % BlockSize = 0 => b % BlockSize = 0
    <3> SUFFICES ASSUME off % BlockSize = 0
                 PROVE  b % BlockSize = 0
      OBVIOUS
    <3>1. /\ off \in Int /\ done \in Int /\ BlockSize \in Nat \ {0}
          /\ off % BlockSize = 0 /\ done % BlockSize = 0
      BY <1>2, <1>3, <1>4
    <3>2. (off + done) % BlockSize = 0
      BY ONLY <3>1, Multiples
    <3> QED
      BY <3>2
  <2> QED
    BY <1>2, <2>1, <2>2 DEF Misaligned
<1>7. len % BlockSize # 0 => all % BlockSize # 0
  <2> SUFFICES ASSUME len % BlockSize # 0, all % BlockSize = 0
               PROVE  FALSE
    OBVIOUS
  <2>1. Split(cur) /\ done + len = all
    BY <1>2, <1>5
  <2>2. /\ all \in Int /\ done \in Int /\ BlockSize \in Nat \ {0}
        /\ all % BlockSize = 0 /\ done % BlockSize = 0
    BY <1>2, <1>3, <1>4
  <2>3. (all - done) % BlockSize = 0
    BY ONLY <2>2, Multiples
  <2>4. all - done = len
    BY <1>3, <1>4, <2>1
  <2> QED
    BY <2>3, <2>4
<1>8. len \div BlockSize <= MaxNlb
  <2>1. len \div BlockSize <= max_transfer \div BlockSize
    <3>1. len \in Int /\ max_transfer \in Int /\ BlockSize \in Nat \ {0} /\ len <= max_transfer
      BY <1>4
    <3> QED
      BY ONLY <3>1, QuotientGrows
  <2>2. len \div BlockSize \in Int /\ max_transfer \div BlockSize \in Int
    BY <1>4
  <2> QED
    BY <1>2, <1>4, <2>1, <2>2
<1>9. /\ len # 0 => all # 0
      /\ Split(cur) => len # 0
  BY <1>2, <1>3, <1>4, <1>5
<1> QED
  BY <1>1, <1>2, <1>3, <1>4, <1>5, <1>6, <1>7, <1>8, <1>9

LEMMA AnswersReject ==
  ASSUME PinsInv, FieldsInv, HeldInv, RestTyped, RepliesInv, ChunkInv, AnswersInv,
         Polling', Addressable, giveups = 0, Reject
  PROVE  AnswersInv'
<1>1. pc = "submit" /\ UNCHANGED <<max_transfer, inflight, issued, cq, dsm_buf, faulted>>
  BY DEF Reject, configVars, pathVars, devVars
<1>2. /\ cur \in Req /\ NULL \notin Req /\ cur # NULL
      /\ ask[cur].cmd # "UNMAP"
      /\ Misaligned(ask[cur].cmd, io[cur]) <=> AskedOffset(ask[cur]) % BlockSize # 0
      /\ io[cur].length % BlockSize # 0 => ask[cur].length % BlockSize # 0
      /\ io[cur].data = NULL <=> ask[cur].data = NULL
      /\ io[cur].length # 0 => ask[cur].length # 0
      /\ io[cur].length \div BlockSize <= MaxNlb
      /\ Split(cur) => io[cur].length # 0
      /\ ~Split(cur) => io[cur].length = ask[cur].length
  BY <1>1, InHand, TransferAssumption
<1>3. /\ io[cur].length \div BlockSize \in Int /\ MaxNlb \in Int
  <2>1. io[cur].length \in Nat
    BY <1>1, InHand
  <2>2. BlockSize \in Nat \ {0} /\ MaxNlb \in Nat
    BY TransferAssumption
  <2> QED
    BY <2>1, <2>2
<1>4. CASE Misaligned(ask[cur].cmd, io[cur])
  <2>1. Answer("badaddress", 0)
    BY <1>4 DEF Reject
  <2>2. ~WellFormed(ask[cur])
    BY <1>2, <1>4 DEF WellFormed
  <2> QED
    BY <1>1, <1>2, <2>1, <2>2, AnswersAnswer
<1>5. CASE ~Misaligned(ask[cur].cmd, io[cur]) /\ WrongLength(io[cur])
  <2>1. Answer("badlength", 0)
    BY <1>5 DEF Reject
  <2>2. ~WellFormed(ask[cur])
    BY <1>2, <1>3, <1>5 DEF WellFormed, WrongLength
  <2> QED
    BY <1>1, <1>2, <2>1, <2>2, AnswersAnswer
<1>6. CASE /\ ~Misaligned(ask[cur].cmd, io[cur]) /\ ~WrongLength(io[cur])
           /\ io[cur].length = 0
  <2>1. Answer("none", 0)
    BY <1>6 DEF Reject
  <2>2. ~Split(cur) /\ ask[cur].length = 0
    BY <1>2, <1>6
  <2>3. WellFormed(ask[cur])
    BY <1>2, <1>6, <2>2 DEF WellFormed, WrongLength
  <2> QED
    BY <1>1, <1>2, <2>1, <2>2, <2>3, AnswersAnswer
<1> QED
  BY <1>4, <1>5, <1>6 DEF Reject

\* exec refuses the DMA or the memory for its entries, or UNMAP its ranges.
LEMMA AnswersRefused ==
  ASSUME PinsInv, FieldsInv, HeldInv, RestTyped, RepliesInv, AnswersInv, Polling',
         giveups = 0, StartDMARefused \/ AllocFails \/ UnmapRefused
  PROVE  AnswersInv'
<1>1. cur \in Req /\ cur # NULL /\ pc # "poll" /\ Polling'
  BY TransferAssumption DEF PinsInv, PathTypes, StartDMARefused, Accepts, AllocFails,
     UnmapRefused
<1>2. /\ UNCHANGED <<max_transfer, inflight, issued, cq, dsm_buf>>
      /\ faulted \subseteq faulted'
  BY DEF StartDMARefused, AllocFails, UnmapRefused, configVars, pathVars, devVars
<1>3. CASE StartDMARefused \/ AllocFails
  <2>1. Answer("aborted", io[cur].actual) /\ cur \in faulted'
    BY <1>3 DEF StartDMARefused, AllocFails
  <2> QED
    BY <1>1, <1>2, <2>1, AnswersAnswer
<1>4. CASE UnmapRefused
  <2>1. ask[cur].cmd = "UNMAP" /\ ~Split(cur)
    BY <1>4 DEF UnmapRefused, Split
  <2>2. CASE dsm_buf = NULL \/ Len(ask[cur].ranges) > MaxRanges
    <3>1. Answer("badstatus", io[cur].actual)
      BY <1>4, <2>2 DEF UnmapRefused
    <3>2. ~WellFormed(ask[cur])
      <4>1. MaxRanges \in Nat /\ Len(ask[cur].ranges) \in Nat
        <5>1. ask[cur] \in Shapes[cur]
          BY <1>1, <1>4 DEF FieldsInv, PinsInv, OneOwner
        <5> PICK ranges, T : ranges = ask[cur].ranges /\ T = Seq(Nat)
          OBVIOUS
        <5>2. ranges \in Seq(T)
          BY <1>1, <5>1, AskedTypes
        <5>3. Len(ranges) \in Nat
          BY ONLY <5>2
        <5> QED
          BY <5>3, TransferAssumption
      <4> QED
        BY <2>1, <2>2, <4>1 DEF WellFormed
    <3> QED
      BY <1>1, <1>2, <3>1, <3>2, AnswersAnswer
  <2>3. CASE ~(dsm_buf = NULL \/ Len(ask[cur].ranges) > MaxRanges)
    <3>1. ask[cur].ranges = <<>> /\ Answer("none", 0)
      BY <1>4, <2>3 DEF UnmapRefused
    <3>2. WellFormed(ask[cur])
      <4>1. MaxRanges \in Nat /\ Len(<<>>) = 0
        BY TransferAssumption
      <4> QED
        BY <2>1, <2>3, <3>1, <4>1 DEF WellFormed
    <3> QED
      BY <1>1, <1>2, <2>1, <3>1, <3>2, AnswersAnswer
  <2> QED
    BY <2>2, <2>3
<1> QED
  BY <1>3, <1>4

\* A command that covers less than what is asked for fails only with it.
LEMMA SoundWhole ==
  ASSUME NEW a, a.cmd # "UNMAP"
  PROVE  Sound(a, a.length) <=> WellFormed(a)
BY DEF Sound, WellFormed

LEMMA SoundPart ==
  ASSUME NEW a, a.cmd # "UNMAP", NEW n \in Nat, a.length \in Nat, AskedOffset(a) \in Nat,
         n <= a.length, n % BlockSize = 0, WellFormed(a)
  PROVE  Sound(a, n)
<1>1. DiskSize \in Nat
  BY TransferAssumption
<1> PICK off, all : off = AskedOffset(a) /\ all = a.length
  OBVIOUS
<1>2. off % BlockSize = 0 /\ (a.data # NULL \/ all = 0) /\ (all = 0 \/ off + all <= DiskSize)
  BY DEF WellFormed
<1>3. n # 0 => a.data # NULL /\ off + n <= DiskSize
  BY <1>1, <1>2
<1> QED
  BY <1>2, <1>3 DEF Sound

LEMMA AnswersPollDone ==
  ASSUME PinsInv, FieldsInv, HeldInv, RestTyped, RepliesInv, ChunkInv, AnswersInv,
         Polling', Addressable, giveups = 0, PollDone
  PROVE  AnswersInv'
<1>1. /\ pc = "poll" /\ inflight[slot].ioreq = NULL /\ Answer(io_Error[cur], 0)
      /\ UNCHANGED <<max_transfer, inflight, issued, cq, dsm_buf, faulted>>
  BY DEF PollDone, configVars, pathVars, devVars
<1>2. /\ cur \in Req /\ cur # NULL /\ ask[cur] \in Shapes[cur]
  BY <1>1, TransferAssumption DEF PinsInv, PathTypes, OneOwner, FieldsInv
<1>3. /\ Ended(cur, io_Error[cur] = "none")
      /\ ask[cur].cmd = "UNMAP" \/ Split(cur)
  BY <1>1 DEF AnswersInv, PolledTold, Polling
<1>4. CASE ask[cur].cmd = "UNMAP"
  <2>1. Good(cur) <=> WellFormed(ask[cur])
    BY <1>4 DEF Good
  <2>2. IF io_Error[cur] = "none" THEN WellFormed(ask[cur])
                                  ELSE ~WellFormed(ask[cur]) \/ cur \in faulted'
    BY <1>1, <1>3, <2>1 DEF Ended
  <2> QED
    BY <1>1, <1>2, <1>4, <2>2, AnswersAnswer
<1>5. CASE ask[cur].cmd # "UNMAP"
  <2>1. Split(cur)
    BY <1>3, <1>5
  <2> PICK n : n = done + io[cur].length
    OBVIOUS
  <2>2. Reach(cur) = n /\ (Good(cur) <=> Sound(ask[cur], n))
    BY <1>5 DEF Reach, Good
  <2>3. /\ done \in Nat /\ io[cur].length \in Nat /\ n \in Nat /\ max_transfer \in Nat
        /\ ask[cur].length \in Nat /\ AskedOffset(ask[cur]) \in Nat
    <3>1. done \in Nat /\ io[cur].length \in Nat /\ max_transfer \in Nat
      BY <1>1, Limits DEF FieldsInv, InMemory
    <3> PICK a \in Shapes[cur] : a = ask[cur]
      BY <1>2
    <3> QED
      BY <1>2, <3>1, OffsetAsked, ShapeTypes
  <2>4. \/ io[cur].length = max_transfer /\ n < ask[cur].length
        \/ n = ask[cur].length
    BY <1>1, <2>1 DEF ChunkInv
  <2>5. CASE io_Error[cur] = "none"
    <3>1. n = ask[cur].length
      BY <2>1, <2>3, <2>4, <2>5 DEF PollDone
    <3>2. WellFormed(ask[cur])
      BY <1>3, <1>5, <2>2, <2>5, <3>1, SoundWhole DEF Ended
    <3> QED
      BY <1>1, <1>2, <2>1, <2>5, <3>2, AnswersAnswer
  <2>6. CASE io_Error[cur] # "none"
    <3>1. WellFormed(ask[cur]) => Sound(ask[cur], n)
      <4>1. CASE n = ask[cur].length
        BY <1>5, <4>1, SoundWhole
      <4>2. CASE io[cur].length = max_transfer /\ n < ask[cur].length
        <5> PICK len : len = io[cur].length
          OBVIOUS
        <5>1. /\ done \in Int /\ len \in Int /\ BlockSize \in Nat \ {0}
              /\ done % BlockSize = 0 /\ len % BlockSize = 0
          BY <2>3, <4>2, TransferAssumption DEF ChunkInv
        <5>2. (done + len) % BlockSize = 0
          BY ONLY <5>1, Multiples
        <5>3. n % BlockSize = 0 /\ n <= ask[cur].length
          BY <2>3, <4>2, <5>2
        <5> QED
          BY <1>5, <2>3, <5>3, SoundPart
      <4> QED
        BY <2>4, <4>1, <4>2
    <3>2. ~WellFormed(ask[cur]) \/ cur \in faulted'
      BY <1>1, <1>3, <2>2, <2>6, <3>1 DEF Ended
    <3> QED
      BY <1>1, <1>2, <2>6, <3>2, AnswersAnswer
  <2> QED
    BY <2>5, <2>6
<1> QED
  BY <1>4, <1>5

\* A new command, for the request r in hand.
LEMMA AnswersCommand ==
  ASSUME PinsInv, HeldInv, RepliesInv, AnswersInv, Polling', giveups = 0,
         NEW r, r = cur, r # NULL, pc # "poll",
         NEW t \in Slot, t \notin Occupied, NEW c, c.cid = t, NEW i, i.ioreq = r,
         inflight' = [inflight EXCEPT ![t] = i], issued' = issued \cup {c},
         pc' = "poll" => slot' = t,
         UNCHANGED <<ask, io, io_Error, replied, cq, faulted>>, DsmKept,
         cur' \in {r, NULL}, Good(r)' <=> InDisk(c)
  PROVE  AnswersInv'
<1>1. /\ PathTypes /\ OneOwner /\ NULL \notin Req /\ OneEach
      /\ CommandsTold /\ CompletionsTold /\ (\A q \in replied : Told(q))
  BY TransferAssumption DEF PinsInv, HeldInv, AnswersInv
<1>2. \A s \in Slot : inflight'[s] = IF s = t THEN i ELSE inflight[s]
  BY <1>1 DEF PathTypes
<1>3. \A s \in Occupied : /\ s # t /\ inflight'[s] = inflight[s]
                          /\ inflight[s].ioreq # r /\ inflight[s].ioreq # NULL
  BY <1>1, <1>2 DEF OneOwner, Occupied
<1>4. \A s \in Occupied : Kept(inflight[s].ioreq)
  BY <1>3 DEF Kept
<1>5. \A s \in Occupied : Good(inflight[s].ioreq)' <=> Good(inflight[s].ioreq)
  BY <1>3, <1>4, SlotStays
<1>6. CommandsTold'
  <2> SUFFICES ASSUME NEW d \in issued'
               PROVE  Good(CommandOf(d))' <=> InDisk(d)
    BY DEF CommandsTold, InDisk
  <2>1. CASE d \in issued
    <3>1. d.cid \in Occupied /\ (Good(inflight[d.cid].ioreq) <=> InDisk(d))
      BY <1>1, <2>1 DEF OneEach, CommandsTold, CommandOf
    <3> QED
      BY <1>5, <3>1 DEF CommandOf
  <2>2. CASE d = c
    <3>1. CommandOf(d)' = r
      BY <1>2, <2>2 DEF CommandOf
    <3>2. Good(CommandOf(d))' <=> Good(r)'
      BY <3>1 DEF Good, Reach, Sound, WellFormed, AskedOffset
    <3> QED
      BY <2>2, <3>2
  <2> QED
    BY <2>1, <2>2
<1>7. CompletionsTold'
  <2> SUFFICES ASSUME NEW k \in DOMAIN cq
               PROVE  Ended(CommandOf(cq[k]), cq[k].ok)'
    BY DEF CompletionsTold
  <2> PICK q : q = CommandOf(cq[k])
    OBVIOUS
  <2>1. cq[k].cid \in Occupied /\ Ended(q, cq[k].ok)
    BY <1>1 DEF OneEach, CompletionsTold
  <2>2. /\ inflight[cq[k].cid].ioreq = q /\ inflight'[cq[k].cid].ioreq = q
        /\ Good(inflight[cq[k].cid].ioreq)' <=> Good(inflight[cq[k].cid].ioreq)
    BY <1>3, <1>5, <2>1 DEF CommandOf
  <2>3. CommandOf(cq[k])' = q /\ (Good(CommandOf(cq[k]))' <=> Good(q))
    BY <2>2 DEF CommandOf
  <2> QED
    BY <2>1, <2>3 DEF Ended
<1>8. PolledTold'
  BY <1>2 DEF PolledTold
<1>9. \A q \in replied' : Told(q)'
  BY <1>1, ToldStays
<1> QED
  BY <1>6, <1>7, <1>8, <1>9 DEF AnswersInv

\* The list of a direct transfer fits its page.
LEMMA RestFits ==
  ASSUME PinsInv, FieldsInv, pc = "pinned", NEW list \in DmaLists(io[cur])
  PROVE  ~(Len(DirectRest(list, io[cur])) > MaxPrp)
<1> PICK f : f = io[cur]
  OBVIOUS
<1>1. /\ f.data # NULL /\ InMemory(f) /\ f.length # 0 /\ f.length <= max_transfer
      /\ max_transfer \in 0 .. SanityCap
  BY DEF PinsInv, Prepared, FieldsInv
<1>2. SanityCap \in Nat /\ UserSize \in Nat /\ MaxPrp \in Nat
  BY Sizes, TransferAssumption
<1>3. /\ f.data \in Nat /\ f.length \in Nat /\ f.data < UserSize
      /\ f.length <= SanityCap
  BY <1>1, <1>2 DEF InMemory
<1> PICK n : n = Cardinality(Scan(list, f))
  OBVIOUS
<1>4. n <= MaxPrp /\ n \in Nat
  BY <1>3, ScanFits
<1>5. Len(DirectRest(list, f)) = n
  BY <1>4 DEF DirectRest
<1> QED
  BY <1>2, <1>4, <1>5

\* The command written covers as much as the request in hand has reached.
LEMMA AnswersIssue ==
  ASSUME PinsInv, FieldsInv, HeldInv, RestTyped, RepliesInv, ChunkInv, AnswersInv,
         Polling', Addressable, giveups = 0, SubmitBounce \/ SubmitDirect
  PROVE  AnswersInv'
<1>1. \E prp1, rest, bounce, own : Issue(prp1, rest, bounce, own)
  <2>1. CASE SubmitBounce
    BY <2>1 DEF SubmitBounce
  <2>2. CASE SubmitDirect
    <3>1. pc = "pinned"
      BY <2>2 DEF SubmitDirect
    <3>2. \A list \in DmaLists(io[cur]) : ~(Len(DirectRest(list, io[cur])) > MaxPrp)
      BY <3>1, RestFits
    <3> QED
      BY <2>2, <3>2 DEF SubmitDirect
  <2> QED
    BY <2>1, <2>2
<1>2. PICK prp1, rest, bounce, own : Issue(prp1, rest, bounce, own)
  BY <1>1
<1>3. /\ pc \in {"submit", "pinned"} /\ UNCHANGED <<max_transfer, giveups, faulted>>
      /\ ~Misaligned(ask[cur].cmd, io[cur])
      /\ io[cur].length # 0 /\ io[cur].length % BlockSize = 0 /\ io[cur].data # NULL
  BY DEF SubmitBounce, SubmitDirect, Accepts, WrongLength, configVars, AnswersInv,
     Polling, FieldsInv, PinsInv, Prepared
<1>4. UNCHANGED reqVars
  <2>1. CASE SubmitBounce
    BY <2>1 DEF SubmitBounce
  <2>2. CASE SubmitDirect
    <3>1. pc = "pinned"
      BY <2>2 DEF SubmitDirect
    <3>2. \A list \in DmaLists(io[cur]) : ~(Len(DirectRest(list, io[cur])) > MaxPrp)
      BY <3>1, RestFits
    <3> QED
      BY <2>2, <3>2 DEF SubmitDirect
  <2> QED
    BY <2>1, <2>2
<1> PICK r, len, off : r = cur /\ len = io[cur].length /\ off = AskedOffset(ask[cur])
  OBVIOUS
<1>5. /\ r \in Req /\ r # NULL /\ ask[r].cmd # "UNMAP"
      /\ off \in Nat /\ done \in Nat /\ len \in Nat
      /\ ByteOffset(ask[r].cmd, io[r]) = off + done
      /\ off % BlockSize = 0 /\ done % BlockSize = 0
      /\ ask[r].data # NULL
      /\ Split(r) \/ done = 0
      /\ BlockSize \in Nat \ {0} /\ DiskSize \in Nat
  BY <1>3, InHand, TransferAssumption
<1> PICK c : c = [cid |-> slot, cmd |-> IF ask[cur].cmd \in Writes THEN "W" ELSE "R",
                  slba |-> ByteOffset(ask[cur].cmd, io[cur]) \div BlockSize,
                  nlb |-> io[cur].length \div BlockSize,
                  prp1 |-> prp1, prp2 |-> Prp2(slot, rest)]
  OBVIOUS
<1> PICK i : i = [ioreq |-> cur, suppress |-> Split(cur), bounce |-> bounce,
                  write |-> ask[cur].cmd \in Writes, buf |-> io[cur].data,
                  len |-> io[cur].length, own |-> own]
  OBVIOUS
<1>6. /\ issued' = issued \cup {c} /\ inflight' = [inflight EXCEPT ![slot] = i]
      /\ IF Split(r) THEN pc' = "poll" /\ UNCHANGED <<cur, done, slot>>
                     ELSE pc' = "loop" /\ cur' = NULL
      /\ UNCHANGED <<cq, dsm_buf>>
  BY <1>2 DEF Issue, Dispatched
<1>7. /\ c.cid = slot /\ c.cmd # "DSM" /\ i.ioreq = r
      /\ c.slba = (off + done) \div BlockSize /\ c.nlb = len \div BlockSize
  BY <1>5
<1>8. (c.slba + c.nlb) * BlockSize = off + (done + len)
  <2> PICK b, p, q : b = off + done /\ p = b \div BlockSize /\ q = len \div BlockSize
    OBVIOUS
  <2>1. /\ off \in Int /\ done \in Int /\ BlockSize \in Nat \ {0}
        /\ off % BlockSize = 0 /\ done % BlockSize = 0
    BY <1>5
  <2>2. (off + done) % BlockSize = 0
    BY ONLY <2>1, Multiples
  <2>3. b \in Int /\ b % BlockSize = 0 /\ len \in Int /\ len % BlockSize = 0
    BY <1>3, <1>5, <2>2
  <2>4. p \in Int /\ p * BlockSize = b
    <3>1. p \in Int /\ p * BlockSize = b - (b % BlockSize)
      BY <2>1, <2>3, Quotient
    <3> QED
      BY <2>3, <3>1
  <2>5. q \in Int /\ q * BlockSize = len
    <3>1. q \in Int /\ q * BlockSize = len - (len % BlockSize)
      BY <2>1, <2>3, Quotient
    <3> QED
      BY <2>3, <3>1
  <2>6. (p + q) * BlockSize = p * BlockSize + q * BlockSize
    <3>1. p \in Int /\ q \in Int /\ BlockSize \in Int
      BY <1>5, <2>4, <2>5
    <3> QED
      BY ONLY <3>1, Distribute
  <2>7. c.slba = p /\ c.nlb = q
    BY <1>7
  <2>8. (p + q) * BlockSize = b + len /\ b + len = off + (done + len)
    BY <1>5, <2>4, <2>5, <2>6
  <2> QED
    BY <2>7, <2>8
<1>9. Good(r)' <=> InDisk(c)
  <2> PICK n : n = done + len
    OBVIOUS
  <2>1. (IF r = cur' THEN done' ELSE 0) + io'[r].length = n
    BY <1>4, <1>5, <1>6 DEF reqVars
  <2>2. Reach(r)' = n /\ ask' = ask
    BY <1>4, <2>1 DEF Reach, reqVars
  <2>3. Good(r)' <=> Sound(ask[r], n)
    BY <1>5, <2>2 DEF Good, Sound, AskedOffset
  <2>4. n % BlockSize = 0
    <3>1. /\ done \in Int /\ len \in Int /\ BlockSize \in Nat \ {0}
          /\ done % BlockSize = 0 /\ len % BlockSize = 0
      BY <1>3, <1>5
    <3>2. (done + len) % BlockSize = 0
      BY ONLY <3>1, Multiples
    <3> QED
      BY <3>2
  <2>5. n # 0
    <3>1. len # 0 /\ len \in Nat /\ done \in Nat
      BY <1>3, <1>5
    <3> QED
      BY <3>1
  <2>6. Sound(ask[r], n) <=> off + n <= DiskSize
    BY <1>5, <2>4, <2>5 DEF Sound
  <2> QED
    BY <1>7, <1>8, <2>3, <2>6 DEF InDisk
<1>10. slot \in Slot /\ slot \notin Occupied
  BY <1>3 DEF PinsInv, PathTypes, Prepared
<1>11. UNCHANGED <<ask, io, io_Error, replied, cq, faulted>> /\ DsmKept
  BY <1>3, <1>4, <1>6 DEF reqVars, DsmKept
<1>12. /\ pc # "poll" /\ cur' \in {r, NULL}
       /\ pc' = "poll" => slot' = slot
  BY <1>3, <1>6
<1> PICK t \in Slot : t = slot
  BY <1>10
<1> QED
  BY Zenon, <1>5, <1>6, <1>7, <1>9, <1>10, <1>11, <1>12, AnswersCommand

LEMMA AnswersUnmap ==
  ASSUME PinsInv, FieldsInv, HeldInv, RestTyped, RepliesInv, AnswersInv, Polling',
         NullIsNoData, giveups = 0, Unmap
  PROVE  AnswersInv'
<1> PICK r : r = cur
  OBVIOUS
<1>1. /\ pc = "dispatch" /\ pc' = "poll" /\ slot' = FreeSlot /\ cur' = r
      /\ ask[r].cmd = "UNMAP" /\ Len(ask[r].ranges) \in 1 .. MaxRanges
      /\ dsm_buf # NULL /\ dsm_buf' = Over(ask[r].ranges, dsm_buf)
      /\ UNCHANGED <<ask, io, io_Error, replied, cq, faulted>>
      /\ FreeSlot \in Slot \ Occupied
  BY FreeSlotIsFree DEF Unmap, reqVars
<1>2. r \in Req /\ r # NULL /\ ask[r] \in Shapes[r]
  BY <1>1, TransferAssumption DEF PinsInv, PathTypes, OneOwner, FieldsInv
<1>3. dsm_buf' # NULL
  <2>1. ask[r].ranges \in Seq(Seq(Nat)) /\ dsm_buf \in Seq(Seq(Nat))
    BY <1>1, <1>2, AskedTypes DEF RestTyped
  <2> PICK ranges, T : ranges = ask[r].ranges /\ T = Seq(Nat)
    OBVIOUS
  <2>2. ranges \in Seq(T) /\ dsm_buf \in Seq(T)
    BY <2>1
  <2>3. \A S, new, old : new \in Seq(S) /\ old \in Seq(S) => Over(new, old) \in Seq(S)
    BY OverIs
  <2>4. Over(ranges, dsm_buf) \in Seq(T)
    BY <2>2, <2>3
  <2> QED
    BY <1>1, <2>4 DEF NullIsNoData
<1>4. DsmKept
  BY <1>1, <1>3 DEF DsmKept
<1> PICK c : c = [cid |-> FreeSlot, cmd |-> "DSM", nr |-> Len(ask[cur].ranges) - 1]
  OBVIOUS
<1> PICK i : i = [FreeInflight EXCEPT !.ioreq = cur, !.suppress = TRUE]
  OBVIOUS
<1>5. /\ issued' = issued \cup {c} /\ inflight' = [inflight EXCEPT ![FreeSlot] = i]
      /\ c.cid = FreeSlot /\ c.cmd = "DSM" /\ i.ioreq = r
  BY DEF Unmap, FreeInflight
<1>6. Good(r)' <=> InDisk(c)
  <2>1. MaxRanges \in Nat
    BY TransferAssumption
  <2>2. WellFormed(ask[r])'
    BY <1>1, <1>3, <2>1 DEF WellFormed
  <2> QED
    BY <1>1, <1>5, <2>2 DEF Good, InDisk
<1> PICK t \in Slot \ Occupied : t = FreeSlot
  BY <1>1
<1>7. pc # "poll" /\ cur' \in {r, NULL} /\ (pc' = "poll" => slot' = t)
  BY <1>1
<1> QED
  BY <1>1, <1>2, <1>4, <1>5, <1>6, <1>7, AnswersCommand

\* The controller carries a command out, or fails it.
LEMMA AnswersController ==
  ASSUME PinsInv, HeldInv, RepliesInv, AnswersInv, Polling', giveups = 0, Controller
  PROVE  AnswersInv'
<1>1. /\ OneEach /\ (\A c \in issued : c.cmd # "DSM" => Named(c))
      /\ CommandsTold /\ CompletionsTold /\ PolledTold /\ (\A r \in replied : Told(r))
  BY DEF HeldInv, AnswersInv
<1>2. PICK c \in issued, ok \in BOOLEAN :
        /\ Post(c, ok) /\ faulted \subseteq faulted'
        /\ IF ok THEN Valid(c)
                 ELSE Valid(c) => inflight[c.cid].ioreq \in faulted'
  BY DEF Controller, Read, Write, Discard, Fail, Valid
<1>3. /\ issued' = issued \ {c} /\ cq' = Append(cq, [cid |-> c.cid, ok |-> ok])
      /\ UNCHANGED <<max_transfer, ask, io, io_Error, replied, pc, cur, done, slot,
                     inflight, dsm_buf>>
  BY <1>2 DEF Post, configVars, reqVars, taskVars, pathVars
<1>4. Good(CommandOf(c)) <=> Valid(c)
  <2>1. Good(CommandOf(c)) <=> InDisk(c)
    BY <1>1 DEF CommandsTold
  <2>2. c.cmd # "DSM" => Mapped(c)
    BY <1>1 DEF Named
  <2> QED
    BY <2>1, <2>2 DEF Valid, InDisk
<1>5. DsmKept /\ \A r : Kept(r)
  BY <1>3 DEF DsmKept, Kept
<1>6. \A s \in Slot : Good(inflight[s].ioreq)' <=> Good(inflight[s].ioreq)
  BY <1>3, <1>5, SlotStays
<1>7. CommandsTold'
  <2> SUFFICES ASSUME NEW d \in issued'
               PROVE  Good(CommandOf(d))' <=> InDisk(d)
    BY DEF CommandsTold, InDisk
  <2>1. d \in issued /\ d.cid \in Slot
    BY <1>1, <1>3 DEF OneEach, Occupied
  <2>2. Good(inflight[d.cid].ioreq) <=> InDisk(d)
    BY <1>1, <2>1 DEF CommandsTold, CommandOf
  <2> QED
    BY <1>6, <2>1, <2>2 DEF CommandOf
<1>8. CompletionsTold'
  <2> DEFINE Entry == [cid : Slot, ok : BOOLEAN]
             e == [cid |-> c.cid, ok |-> ok]
  <2>1. c.cid \in Slot
    BY <1>1 DEF OneEach, Occupied
  <2>2. e \in Entry /\ e.cid = c.cid /\ e.ok = ok
    BY <2>1
  <2>3. cq \in Seq(Entry)
    BY DEF PinsInv, PathTypes
  <2> HIDE DEF Entry, e
  <2>4. /\ Len(cq) \in Nat /\ cq'[Len(cq) + 1] = e
        /\ \A k \in DOMAIN cq : cq'[k] = cq[k]
        /\ \A k \in DOMAIN cq' : k \in DOMAIN cq \/ k = Len(cq) + 1
    <3>1. /\ Len(cq) \in Nat /\ Len(cq') = Len(cq) + 1 /\ cq'[Len(cq) + 1] = e
          /\ \A k \in DOMAIN cq : cq'[k] = cq[k]
          /\ DOMAIN cq = 1 .. Len(cq) /\ DOMAIN cq' = 1 .. Len(cq) + 1
      BY <1>3, <2>2, <2>3 DEF e
    <3>2. \A k \in DOMAIN cq' : k \in DOMAIN cq \/ k = Len(cq) + 1
      BY <3>1
    <3> QED
      BY <3>1, <3>2
  <2> SUFFICES ASSUME NEW k \in DOMAIN cq', NEW x, x = cq'[k]
               PROVE  x.cid \in Slot /\ Ended(inflight[x.cid].ioreq, x.ok)'
    BY Zenon DEF CompletionsTold, CommandOf, Ended, Good, Sound, Reach, WellFormed, AskedOffset
  <2>5. x.cid \in Slot /\ Ended(inflight[x.cid].ioreq, x.ok)'
    <3>1. CASE k \in DOMAIN cq
      <4>1. x = cq[k] /\ x.cid \in Slot /\ Ended(inflight[x.cid].ioreq, x.ok)
        BY <1>1, <2>4, <3>1 DEF OneEach, Occupied, CompletionsTold, CommandOf
      <4>2. Good(inflight[x.cid].ioreq)' <=> Good(inflight[x.cid].ioreq)
        BY <1>6, <4>1
      <4> QED
        BY <1>2, <1>3, <4>1, <4>2 DEF Ended
    <3>2. CASE k = Len(cq) + 1
      <4>1. x.cid = c.cid /\ x.ok = ok
        BY <2>2, <2>4, <3>2
      <4>2. Good(inflight[c.cid].ioreq)' <=> Valid(c)
        BY <1>4, <1>6, <2>1 DEF CommandOf
      <4>3. Ended(inflight[c.cid].ioreq, ok)'
        BY <1>2, <1>3, <4>2 DEF Ended
      <4> QED
        BY <2>1, <4>1, <4>3
    <3> QED
      BY <2>4, <3>1, <3>2
  <2> QED
    BY <2>5
<1>9. PolledTold'
  <2>1. Good(cur)' <=> Good(cur)
    BY <1>3 DEF Good, Reach, Sound, WellFormed, AskedOffset
  <2> QED
    BY <1>1, <1>2, <1>3, <2>1 DEF PolledTold, Ended
<1>10. \A r \in replied' : Told(r)'
  BY <1>1, <1>2, <1>3, <1>5, ToldStays
<1> QED
  BY <1>7, <1>8, <1>9, <1>10 DEF AnswersInv

\* The harvester takes a completion, and replies what dispatch does not poll.
LEMMA AnswersHarvest ==
  ASSUME PinsInv, HeldInv, RestTyped, RepliesInv, AnswersInv, Polling', giveups = 0,
         Harvest
  PROVE  AnswersInv'
<1>1. /\ PathTypes /\ OneOwner /\ NULL \notin Req /\ OneEach
      /\ CommandsTold /\ CompletionsTold /\ PolledTold /\ (\A r \in replied : Told(r))
      /\ io_Error \in [Req -> Errors] /\ replied \subseteq Req
  BY TransferAssumption DEF PinsInv, HeldInv, RestTyped, AnswersTyped, AnswersInv
<1> PICK k, ok, q : k = Head(cq).cid /\ ok = Head(cq).ok /\ q = inflight[k].ioreq
  OBVIOUS
<1>2. /\ 1 \in DOMAIN cq /\ k = cq[1].cid /\ ok = cq[1].ok /\ ok \in BOOLEAN
      /\ \A j \in DOMAIN cq' : /\ j + 1 \in DOMAIN cq /\ cq'[j] = cq[j + 1]
                               /\ j + 1 # 1
  <2> DEFINE Entry == [cid : Slot, ok : BOOLEAN]
  <2>1. /\ cq # <<>> /\ cq' = Tail(cq) /\ cq \in Seq(Entry)
        /\ \A e \in Entry : e.cid \in Slot /\ e.ok \in BOOLEAN
    BY Zenon, <1>1 DEF Harvest, PathTypes
  <2> HIDE DEF Entry
  <2> QED
    BY <2>1
<1>3. k \in Occupied /\ k \in Slot /\ q \in Req /\ q # NULL /\ Ended(q, ok)
  BY <1>1, <1>2 DEF OneEach, Occupied, PathTypes, CompletionsTold, CommandOf
<1>4. /\ inflight' = [inflight EXCEPT ![k] = FreeInflight]
      /\ io_Error' = [io_Error EXCEPT ![q] = IF ok THEN "none" ELSE "failed"]
      /\ io' = [io EXCEPT ![q].actual = IF ok THEN io[q].length ELSE 0]
      /\ replied' = IF inflight[k].suppress THEN replied ELSE replied \cup {q}
      /\ dsm_buf' = dsm_buf
  BY Zenon, <1>3 DEF Harvest
<1>5. UNCHANGED <<ask, pc, cur, done, slot, issued, faulted>>
  BY DEF Harvest, taskVars
<1>6. /\ \A s \in Slot : inflight'[s] = IF s = k THEN FreeInflight ELSE inflight[s]
      /\ \A r \in Req : r # q => io'[r] = io[r] /\ io_Error'[r] = io_Error[r]
      /\ io_Error'[q] = IF ok THEN "none" ELSE "failed"
  BY Zenon, <1>1, <1>3, <1>4 DEF PathTypes
<1>7. \A r \in Req : Kept(r)
  BY <1>5, HarvestKeepsLength DEF Kept
<1>8. DsmKept
  BY <1>4 DEF DsmKept
<1>9. \A s \in Occupied : s # k => Good(inflight[s].ioreq)' <=> Good(inflight[s].ioreq)
  <2> SUFFICES ASSUME NEW s \in Occupied, s # k
               PROVE  Good(inflight[s].ioreq)' <=> Good(inflight[s].ioreq)
    OBVIOUS
  <2>1. inflight[s].ioreq \in Req /\ inflight'[s].ioreq = inflight[s].ioreq
    BY <1>1, <1>6 DEF Occupied, PathTypes
  <2>2. Kept(inflight[s].ioreq)
    BY <1>7, <2>1
  <2> QED
    BY <1>8, <2>1, <2>2, SlotStays
<1>10. CommandsTold'
  <2> SUFFICES ASSUME NEW c \in issued
               PROVE  Good(CommandOf(c))' <=> InDisk(c)
    BY <1>5 DEF CommandsTold, InDisk
  <2>1. c.cid \in Occupied /\ c.cid # k /\ (Good(inflight[c.cid].ioreq) <=> InDisk(c))
    BY <1>1, <1>2 DEF OneEach, CommandsTold, CommandOf
  <2> QED
    BY <1>9, <2>1 DEF CommandOf
<1>11. CompletionsTold'
  <2> SUFFICES ASSUME NEW j \in DOMAIN cq', NEW x, x = cq'[j]
               PROVE  Ended(inflight[x.cid].ioreq, x.ok)'
    BY Zenon DEF CompletionsTold, CommandOf, Ended, Good, Sound, Reach, WellFormed, AskedOffset
  <2>1. j + 1 \in DOMAIN cq /\ x = cq[j + 1] /\ j + 1 # 1
    BY <1>2
  <2>2. x.cid \in Occupied /\ x.cid # k /\ Ended(inflight[x.cid].ioreq, x.ok)
    BY <1>1, <1>2, <2>1 DEF OneEach, CompletionsTold, CommandOf
  <2>3. /\ inflight'[x.cid] = inflight[x.cid]
        /\ Good(inflight[x.cid].ioreq)' <=> Good(inflight[x.cid].ioreq)
    BY <1>6, <1>9, <2>2 DEF Occupied
  <2> QED
    BY <1>5, <2>2, <2>3 DEF Ended
<1>12. PolledTold'
  <2> SUFFICES ASSUME pc = "poll", inflight'[slot].ioreq = NULL
               PROVE  Ended(cur, io_Error[cur] = "none")'
    BY <1>5 DEF PolledTold
  <2> PICK r : r = cur
    OBVIOUS
  <2>1. r \in Req /\ slot \in Slot
    BY <1>1 DEF PathTypes
  <2>2. Good(r)' <=> Good(r)
    BY <1>7, <1>8, <2>1, GoodStays
  <2>3. Good(cur)' <=> Good(r)'
    BY <1>5 DEF Good, Sound, Reach, WellFormed, AskedOffset
  <2>4. Ended(r, io_Error'[r] = "none")
    <3>1. CASE slot = k
      <4>1. q = r
        BY <1>3, <3>1 DEF AnswersInv, Polling
      <4> QED
        BY <1>3, <1>6, <4>1 DEF Ended
    <3>2. CASE slot # k
      <4>1. inflight[slot].ioreq = NULL /\ q # r
        BY <1>1, <1>3, <1>6, <2>1, <3>2 DEF OneOwner
      <4> QED
        BY <1>1, <1>6, <2>1, <4>1 DEF PolledTold
    <3> QED
      BY <3>1, <3>2
  <2> QED
    BY <1>5, <2>2, <2>3, <2>4 DEF Ended
<1>13. ASSUME NEW r \in replied'
       PROVE  Told(r)'
  <2>1. CASE r \in replied
    <3>1. r # q /\ r \in Req /\ Told(r)
      BY <1>1, <1>3, <2>1 DEF RepliesInv, RepliedLast
    <3> QED
      BY <1>5, <1>6, <1>8, <2>1, <3>1, ToldStays
  <2>2. CASE r \notin replied
    <3>1. r = q /\ ~inflight[k].suppress
      BY <1>4, <2>2
    <3>2. q # cur /\ ask[q].cmd # "UNMAP" /\ ask[q] # NULL
      BY <1>1, <1>3, <3>1 DEF RepliesInv, PolledSuppressed, AnswersInv, Polling, OneOwner
    <3>3. io[q].length = ask[q].length /\ io[q].length \in Nat
      <4>1. io[q] = [Fields(ask[q]) EXCEPT !.actual = io[q].actual]
        BY Zenon, <1>3, <3>2 DEF RepliesInv, SentBack
      <4>2. io[q].length = ask[q].length
        BY Zenon, <4>1 DEF Fields
      <4>3. io[q].length \in Nat
        <5>1. io[q] \in FieldTypes /\ Word \in Nat
          BY <1>3, <3>2, TransferAssumption DEF RestTyped
        <5> QED
          BY <5>1 DEF FieldTypes
      <4> QED
        BY <4>2, <4>3
    <3>4. Good(q) <=> WellFormed(ask[q])
      <4>1. Reach(q) = ask[q].length
        BY <3>2, <3>3 DEF Reach
      <4> QED
        BY <3>2, <4>1, SoundWhole DEF Good
    <3>5. WellFormed(ask[q])' <=> WellFormed(ask[q])
      BY <1>3, <1>7, <1>8, GoodStays
    <3>6. ok => io'[q].actual = ask[q].length
      <4> PICK n : n = IF ok THEN io[q].length ELSE 0
        OBVIOUS
      <4>1. io'[q] = [io[q] EXCEPT !.actual = n]
        BY Zenon, <1>1, <1>3, <1>4 DEF PathTypes
      <4>2. io[q] = [Fields(ask[q]) EXCEPT !.actual = io[q].actual]
        BY Zenon, <1>3, <3>2 DEF RepliesInv, SentBack
      <4>3. io'[q].actual = n
        BY Zenon, <4>1, <4>2 DEF Fields
      <4> QED
        BY <3>3, <4>3
    <3>7. IF ok THEN WellFormed(ask[q]) ELSE ~WellFormed(ask[q]) \/ q \in faulted
      BY <1>3, <3>4 DEF Ended
    <3> QED
      BY <1>5, <1>6, <3>1, <3>2, <3>5, <3>6, <3>7 DEF Told
  <2> QED
    BY <2>1, <2>2
<1> QED
  BY <1>10, <1>11, <1>12, <1>13 DEF AnswersInv

LEMMA AnswersClient ==
  ASSUME PinsInv, HeldInv, RestTyped, RepliesInv, AnswersInv, Polling',
         NEW q \in Req, BeginIO(q) \/ GetMsg(q)
  PROVE  AnswersInv'
<1>1. PathTypes /\ OneOwner /\ NULL \notin Req /\ replied \subseteq Req
  BY TransferAssumption DEF PinsInv, RestTyped, AnswersTyped
<1>2. /\ UNCHANGED <<giveups, dsm_buf, issued, cq, replied, inflight, faulted>>
      /\ DsmKept
  BY DEF BeginIO, GetMsg, pathVars, devVars, DsmKept
<1>3. CASE BeginIO(q)
  <2>1. PICK a \in Shapes[q] : /\ ask' = [ask EXCEPT ![q] = a]
                              /\ io' = [io EXCEPT ![q] = Fields(a)]
    BY <1>3 DEF BeginIO
  <2>2. /\ ask[q] = NULL /\ UNCHANGED <<pc, cur, done, slot>>
        /\ io_Error' = [io_Error EXCEPT ![q] = "none"]
    BY <1>3 DEF BeginIO, taskVars
  <2>3. \A r \in Req : r # q => /\ ask'[r] = ask[r] /\ io'[r] = io[r]
                                /\ io_Error'[r] = io_Error[r] /\ Kept(r)
    BY <1>1, <2>1, <2>2 DEF PathTypes, RestTyped, AnswersTyped, Kept
  <2>4. \A s \in Occupied : Kept(inflight[s].ioreq)
    BY <1>1, <2>2, <2>3 DEF OneOwner, PathTypes, Occupied
  <2>5. \A r \in replied : r \in Req /\ r # q
    BY <1>1, <2>2 DEF RepliesInv, RepliedLast
  <2>6. pc = "poll" => cur \in Req /\ cur # q
    BY <1>1, <2>2 DEF OneOwner, PathTypes
  <2> QED
    BY <1>2, <2>2, <2>3, <2>4, <2>5, <2>6, AnswersQuiet
<1>4. CASE GetMsg(q)
  <2>1. /\ q \in port /\ cur' = q /\ done' = 0 /\ pc' = "dispatch" /\ cur = NULL
        /\ UNCHANGED <<ask, io, io_Error>>
    BY <1>4 DEF GetMsg, RestTyped
  <2>2. \A s \in Occupied : Kept(inflight[s].ioreq)
    BY <2>1 DEF Kept, Occupied
  <2> QED
    BY <1>2, <2>1, <2>2, AnswersQuiet
<1> QED
  BY <1>3, <1>4

\* Chunks of a request that no slot has.
LEMMA AnswersWay ==
  ASSUME PinsInv, HeldInv, RestTyped, RepliesInv, AnswersInv, Polling',
         \/ UNCHANGED vars \/ Dispatch \/ StartDMA \/ NextChunk
  PROVE  AnswersInv'
<1>1. PathTypes /\ OneOwner /\ NULL \notin Req /\ replied \subseteq Req
  BY TransferAssumption DEF PinsInv, RestTyped, AnswersTyped
<1>2. /\ UNCHANGED <<giveups, dsm_buf, issued, cq, replied, inflight, faulted, ask,
                     io_Error, cur>>
      /\ DsmKept
  BY DEF vars, Dispatch, StartDMA, NextChunk, configVars, reqVars, taskVars, pathVars,
     devVars, DsmKept
<1>3. CASE UNCHANGED <<io, done>> /\ (pc' = "poll" => pc = "poll" /\ slot' = slot)
  <2>1. \A r : Kept(r)
    BY <1>2, <1>3 DEF Kept
  <2> QED
    BY <1>2, <1>3, <2>1, AnswersQuiet
<1>4. CASE /\ pc' # "poll"
           /\ io' = io \/ io' = [io EXCEPT ![cur] = Chunk(cur)]
           /\ cur # NULL /\ \A s \in Slot : inflight[s].ioreq # cur
  <2>1. \A r \in Req : r # cur => io'[r] = io[r] /\ Kept(r)
    BY <1>1, <1>2, <1>4 DEF PathTypes, Kept
  <2>2. \A s \in Occupied : Kept(inflight[s].ioreq)
    BY <1>1, <1>4, <2>1 DEF PathTypes, Occupied
  <2>3. \A r \in replied : r \in Req /\ r # cur
    BY <1>1 DEF RepliesInv, RepliedLast
  <2> QED
    BY <1>2, <1>4, <2>1, <2>2, <2>3, AnswersQuiet
<1>5. CASE UNCHANGED vars \/ StartDMA
  <2>1. UNCHANGED <<io, done>> /\ (pc' = "poll" => pc = "poll" /\ slot' = slot)
    BY <1>5 DEF vars, reqVars, taskVars, StartDMA
  <2> QED
    BY <1>3, <2>1
<1>6. CASE Dispatch \/ NextChunk
  <2>1. /\ pc' # "poll" /\ pc # "loop"
        /\ io' = io \/ io' = [io EXCEPT ![cur] = Chunk(cur)]
        /\ pc # "poll" \/ inflight[slot].ioreq = NULL
    BY <1>6 DEF Dispatch, NextChunk, reqVars
  <2>2. cur # NULL /\ \A s \in Slot : inflight[s].ioreq # cur
    BY <1>1, <2>1 DEF OneOwner, PathTypes, Occupied
  <2> QED
    BY <1>4, <2>1, <2>2
<1> QED
  BY <1>5, <1>6

LEMMA AnswersStep ==
  ASSUME PinsInv, FieldsInv, HeldInv, RestTyped, RepliesInv, ChunkInv, AnswersInv,
         Addressable, NullIsNoData, [Next]_vars
  PROVE  AnswersInv'
<1>1. Polling'
  BY PollingStep DEF AnswersInv
<1>2. CASE giveups' # 0
  BY <1>1, <1>2 DEF AnswersInv
<1>3. CASE giveups' = 0
  <2>1. giveups = 0 /\ ~Busy /\ ~PollTimeout
    <3>1. giveups \in Nat
      BY TransferAssumption DEF HeldInv
    <3>2. ~Busy /\ ~PollTimeout
      BY <1>3, <3>1 DEF Busy, PollTimeout
    <3>3. giveups' = giveups
      BY Zenon, <3>2 DEF Next, Task, Controller, Read, Write, Discard, Fail, Post, BeginIO,
         GetMsg, Dispatch, Reject, SubmitBounce, StartDMA, StartDMARefused, AllocFails,
         SubmitDirect, UnmapRefused, Unmap, Harvest, NextChunk, PollDone, vars
    <3> QED
      BY <1>3, <3>2, <3>3
  <2>2. CASE UNCHANGED vars \/ Dispatch \/ StartDMA \/ NextChunk
    BY <1>1, <2>2, AnswersWay
  <2>3. CASE \E r \in Req : BeginIO(r) \/ GetMsg(r)
    BY <1>1, <2>3, AnswersClient
  <2>4. CASE Controller \/ Harvest
    BY <1>1, <2>1, <2>4, AnswersController, AnswersHarvest
  <2>5. CASE SubmitBounce \/ SubmitDirect \/ Unmap
    BY <1>1, <2>1, <2>5, AnswersIssue, AnswersUnmap
  <2>6. CASE Reject \/ StartDMARefused \/ AllocFails \/ UnmapRefused \/ PollDone
    BY <1>1, <2>1, <2>6, AnswersReject, AnswersRefused, AnswersPollDone
  <2> QED
    BY <2>1, <2>2, <2>3, <2>4, <2>5, <2>6 DEF Next, Task
<1> QED
  BY <1>2, <1>3

LEMMA AnswersStart ==
  ASSUME Init
  PROVE  AnswersInv
<1>1. /\ pc = "loop" /\ inflight = [s \in Slot |-> FreeInflight]
      /\ issued = {} /\ cq = <<>> /\ replied = {}
  BY DEF Init
<1>2. Occupied = {} /\ DOMAIN cq = {}
  BY <1>1 DEF Occupied, FreeInflight
<1> QED
  BY <1>1, <1>2 DEF AnswersInv, Polling, CommandsTold, CompletionsTold, PolledTold

(* What the caller is told is true: success only for a request that makes  *)
(* sense and with its whole length, an error only for one that does not or *)
(* that exec or the controller refused; through chunks, bounce buffers and *)
(* late completions, as long as no wait has given up (unit_task.c:456-577, *)
(* nvme_io.c:148-196, 745-815, scsi_unmap.c).                              *)
THEOREM AnswersAreRight ==
  ASSUME Addressable, WholeBlocks, NullIsNoData
  PROVE  Spec => []AnswersRight
<1>1. Init => ChunkInv /\ AnswersInv
  BY ChunkStart, AnswersStart
<1>2. PinsInv /\ FieldsInv /\ ChunkInv /\ [Next]_vars => ChunkInv'
  BY ChunkStep
<1>3. PinsInv /\ FieldsInv /\ HeldInv /\ RestTyped /\ RepliesInv /\ ChunkInv
        /\ AnswersInv /\ [Next]_vars => AnswersInv'
  BY AnswersStep
<1>4. PinsInv /\ RestTyped /\ RepliesInv /\ AnswersInv => AnswersRight
  <2> SUFFICES ASSUME RestTyped, RepliesInv, AnswersInv, NEW r \in replied
               PROVE  /\ io[r] = [Fields(ask[r]) EXCEPT !.actual = io[r].actual]
                      /\ giveups = 0 => Told(r)
    BY DEF AnswersRight, Told
  <2>1. r \in Req /\ ask[r] # NULL /\ r # cur
    BY DEF RestTyped, AnswersTyped, RepliesInv, RepliedLast
  <2> QED
    BY <2>1 DEF RepliesInv, SentBack, AnswersInv
<1> QED
  BY <1>1, <1>2, <1>3, <1>4, PinsInvariant, FieldsInvariant, HeldInvariant,
     RestInvariant, RepliesInvariant, PTL DEF Spec

-----------------------------------------------------------------------------
(* Cells that are not the same have addresses that are not the same.       *)

\* A quotient and a remainder make one number only.
LEMMA Digits ==
  ASSUME NEW p \in Int, NEW q \in Int, NEW d \in Nat \ {0},
         NEW m \in 0 .. d - 1, NEW n \in 0 .. d - 1, p * d + m = q * d + n
  PROVE  p = q /\ m = n
<1> PICK a : a = p * d + m
  OBVIOUS
<1>1. a \in Int /\ a = p * d + m
  <2>1. p * d \in Int
    BY Distribute
  <2> QED
    BY <2>1
<1>2. a = q * d + n
  OBVIOUS
<1>3. a % d = m /\ a \div d = p
  BY ONLY <1>1, QuotientIs, p \in Int, d \in Nat \ {0}, m \in 0 .. d - 1
<1>4. a % d = n /\ a \div d = q
  BY ONLY <1>1, <1>2, QuotientIs, q \in Int, d \in Nat \ {0}, n \in 0 .. d - 1
<1> QED
  BY <1>3, <1>4

\* The addresses of the callers' cells are their own, below UserSize.
LEMMA PhysIn ==
  ASSUME FramesApart, NEW v \in 0 .. UserSize - 1
  PROVE  Phys(v) \in 0 .. UserSize - 1
<1> DEFINE H == HostPage
           c == Cardinality(DOMAIN Frame)
           F == Frame[v \div H]
           m == v % H
<1>1. /\ UserSize \in Nat /\ v \in Nat /\ v < UserSize /\ H \in Nat \ {0} /\ c \in Nat
      /\ UserSize = c * H
  BY Sizes DEF UserSize
<1>2. F \in Nat /\ m \in 0 .. H - 1 /\ v \div H \in Nat /\ (v \div H) * H = v - m
  BY <1>1, FrameIs
<1>3. F < c
  <2> PICK p : p = v \div H
    OBVIOUS
  <2>1. p \in Nat /\ p * H < c * H
    <3> HIDE DEF H, c, m
    <3> QED
      BY <1>1, <1>2
  <2>2. p < c
    BY <1>1, <2>1, Smaller
  <2>3. p \in DOMAIN Frame
    BY <1>1, <2>1, <2>2, MemoryAssumption
  <2> QED
    BY <2>3 DEF FramesApart
<1>4. Phys(v) = F * H + m
  BY DEF Phys
<1> HIDE DEF F, m, H, c
<1>5. F * H + m < c * H /\ F * H >= 0 /\ F * H \in Int
  <2>1. (F + 1) * H = F * H + H /\ F * H \in Int
    BY <1>1, <1>2, Distribute
  <2>2. (c - (F + 1)) * H >= 0 /\ (c - (F + 1)) * H = c * H - (F + 1) * H
    <3>1. c - (F + 1) \in Nat /\ F + 1 \in Int /\ c \in Int /\ H \in Nat
      BY <1>1, <1>2, <1>3
    <3> PICK d \in Nat : d = c - (F + 1)
      BY <3>1
    <3>2. d * H >= 0
      BY <3>1
    <3> QED
      BY <3>1, <3>2, Distribute
  <2>3. F * H >= 0 /\ c * H \in Int
    BY <1>1, <1>2
  <2> QED
    BY <1>1, <1>2, <2>1, <2>2, <2>3
<1> QED
  BY <1>1, <1>2, <1>4, <1>5

LEMMA PhysApart ==
  ASSUME FramesApart, NEW v \in 0 .. UserSize - 1, NEW w \in 0 .. UserSize - 1,
         Phys(v) = Phys(w)
  PROVE  v = w
<1> DEFINE H == HostPage
<1>1. /\ UserSize \in Nat /\ H \in Nat \ {0} /\ Cardinality(DOMAIN Frame) \in Nat
      /\ v \in Nat /\ w \in Nat /\ v < UserSize /\ w < UserSize
  BY Sizes
<1> PICK p, q, m, n : p = v \div H /\ q = w \div H /\ m = v % H /\ n = w % H
  OBVIOUS
<1>2. /\ Frame[p] \in Nat /\ m \in 0 .. H - 1 /\ p \in Nat /\ p * H = v - m
      /\ Frame[q] \in Nat /\ n \in 0 .. H - 1 /\ q \in Nat /\ q * H = w - n
  <2>1. Frame[p] \in Nat /\ m \in 0 .. H - 1 /\ p \in Nat /\ p * H = v - m
    BY <1>1, FrameIs
  <2>2. Frame[q] \in Nat /\ n \in 0 .. H - 1 /\ q \in Nat /\ q * H = w - n
    BY <1>1, FrameIs
  <2> QED
    BY <2>1, <2>2
<1>3. Phys(v) = Frame[p] * H + m /\ Phys(w) = Frame[q] * H + n
  BY DEF Phys
<1> PICK f, g : f = Frame[p] /\ g = Frame[q]
  OBVIOUS
<1> HIDE DEF H
<1>4. f = g /\ m = n
  <2>1. f * H + m = g * H + n
    BY <1>3
  <2>2. /\ f \in Int /\ g \in Int /\ H \in Nat \ {0}
        /\ m \in 0 .. H - 1 /\ n \in 0 .. H - 1
    BY <1>1, <1>2
  <2> QED
    BY ONLY <2>1, <2>2, Digits
<1>5. p \in DOMAIN Frame /\ q \in DOMAIN Frame
  <2>1. UserSize = Cardinality(DOMAIN Frame) * H
    BY DEF UserSize, H
  <2> PICK c \in Nat : c = Cardinality(DOMAIN Frame)
    BY <1>1
  <2>2. p * H < c * H /\ q * H < c * H
    BY <1>1, <1>2, <2>1
  <2>3. p < c
    BY <1>1, <1>2, <2>2, Smaller
  <2>4. q < c
    BY <1>1, <1>2, <2>2, Smaller
  <2>5. DOMAIN Frame = 0 .. c - 1
    BY MemoryAssumption
  <2>6. p \in Nat /\ q \in Nat
    BY <1>2
  <2> QED
    BY ONLY <2>3, <2>4, <2>5, <2>6, c \in Nat
<1>6. p = q
  BY <1>4, <1>5 DEF FramesApart
<1> QED
  BY <1>1, <1>2, <1>4, <1>6

LEMMA MemSizes ==
  /\ UserSize \in Nat /\ MemSize \in Nat /\ UserSize <= MemSize /\ BounceSize \in Nat
<1> PICK n : n = MaxInflight * BounceSize
  OBVIOUS
<1>1. n \in Nat
  <2>1. MaxInflight \in Nat /\ BounceSize \in Nat
    BY TransferAssumption
  <2> QED
    BY <2>1
<1>2. BounceSize \in Nat
  BY TransferAssumption
<1> QED
  BY <1>1, <1>2, Sizes DEF MemSize

\* The bounce buffers lie above them, each by itself.
LEMMA BounceIn ==
  ASSUME NEW s \in Slot, NEW k \in 0 .. BounceSize - 1
  PROVE  BouncePhys(s) + k \in UserSize .. MemSize - 1
<1> PICK B, U, n : B = BounceSize /\ U = UserSize /\ n = MaxInflight
  OBVIOUS
<1>1. /\ B \in Nat /\ U \in Nat /\ n \in Nat \ {0} /\ s \in 1 .. n /\ k \in 0 .. B - 1
      /\ BouncePhys(s) = U + (s - 1) * B /\ MemSize = U + n * B
  BY TransferAssumption, Sizes DEF Slot, BouncePhys, MemSize
<1>2. /\ (s - 1) * B >= 0 /\ (n - s) * B >= 0
      /\ (n - s) * B = n * B - s * B /\ (s - 1) * B = s * B - 1 * B
      /\ n * B \in Int /\ s * B \in Int
  <2>1. s - 1 \in Nat /\ n - s \in Nat /\ s \in Int /\ n \in Int /\ B \in Int
    BY <1>1
  <2> PICK x \in Nat, y \in Nat : x = s - 1 /\ y = n - s
    BY <2>1
  <2>2. x * B >= 0 /\ y * B >= 0
    BY <1>1
  <2> QED
    BY <2>1, <2>2, Distribute
<1> QED
  BY <1>1, <1>2

LEMMA BounceApart ==
  ASSUME NEW s \in Slot, NEW t \in Slot, NEW k \in 0 .. BounceSize - 1,
         NEW m \in 0 .. BounceSize - 1, BouncePhys(s) + k = BouncePhys(t) + m
  PROVE  s = t /\ k = m
<1> PICK B, U : B = BounceSize /\ U = UserSize
  OBVIOUS
<1>1. /\ B \in Nat \ {0} /\ U \in Nat /\ s \in Int /\ t \in Int
      /\ k \in 0 .. B - 1 /\ m \in 0 .. B - 1
      /\ U + (s - 1) * B + k = U + (t - 1) * B + m
  BY TransferAssumption, Sizes DEF Slot, BouncePhys
<1> PICK x \in Int, y \in Int : x = s - 1 /\ y = t - 1
  BY <1>1
<1>2. x * B \in Int /\ y * B \in Int
  BY <1>1, Distribute
<1>3. x * B + k = y * B + m
  BY <1>1, <1>2
<1>4. x = y /\ k = m
  BY <1>1, <1>3, Digits
<1> QED
  BY <1>1, <1>4

-----------------------------------------------------------------------------
(* The cells of a slot, and steps that change no other.                    *)

\* The part of a request that its slot carries.
LEMMA InSlot ==
  ASSUME PinsInv, FieldsInv, Addressable, NullIsNoData, NEW s \in Occupied, Placed(s),
         NEW i, i = inflight[s], NEW a, a = ask[i.ioreq], a.cmd # "UNMAP"
  PROVE  /\ i.ioreq \in Req /\ a \in Shapes[i.ioreq]
         /\ i.len \in Nat \ {0} /\ i.buf \in Nat /\ a.data \in Nat /\ a.length \in Nat
         /\ AskedOffset(a) \in Nat /\ BlockAt(s) \in Nat
         /\ BlockAt(s) = AskedOffset(a) + (i.buf - a.data)
         /\ CallersOf(a) = a.data .. a.data + a.length - 1
         /\ BlocksOf(a) = AskedOffset(a) .. AskedOffset(a) + a.length - 1
         /\ \A v \in CallersOf(a) : v \in 0 .. UserSize - 1
         /\ \A k \in 0 .. i.len - 1 : /\ i.buf + k \in CallersOf(a)
                                      /\ BlockAt(s) + k \in BlocksOf(a)
<1>1. i.ioreq \in Req /\ a \in Shapes[i.ioreq]
  BY DEF PinsInv, PathTypes, OneOwner, FieldsInv, Occupied
<1>2. /\ i.len \in Nat \ {0} /\ i.buf \in Nat /\ a.data \in Nat
      /\ a.data <= i.buf /\ i.buf + i.len <= a.data + a.length
  BY DEF Placed
<1>3. /\ AskedOffset(a) \in Nat /\ a.length \in Nat
      /\ UserSize \in Nat /\ a.data + a.length <= UserSize
  <2>1. a.data # NULL
    BY <1>2 DEF NullIsNoData
  <2>2. a.data + a.length <= UserSize
    BY <1>1, <2>1, MemoryAssumption DEF UserSize
  <2> QED
    BY <1>1, <2>2, OffsetAsked, ShapeTypes, Sizes
<1>4. /\ CallersOf(a) = a.data .. a.data + a.length - 1
      /\ BlocksOf(a) = AskedOffset(a) .. AskedOffset(a) + a.length - 1
  BY <1>2 DEF CallersOf, BlocksOf, NullIsNoData
<1>5. BlockAt(s) = AskedOffset(a) + (i.buf - a.data)
  BY DEF BlockAt
<1> PICK off, at : off = AskedOffset(a) /\ at = BlockAt(s)
  OBVIOUS
<1>6. /\ at \in Nat
      /\ \A v \in a.data .. a.data + a.length - 1 : v \in 0 .. UserSize - 1
      /\ \A k \in 0 .. i.len - 1 : /\ i.buf + k \in a.data .. a.data + a.length - 1
                                   /\ at + k \in off .. off + a.length - 1
  BY <1>2, <1>3, <1>5
<1> QED
  BY Zenon, <1>1, <1>2, <1>3, <1>4, <1>5, <1>6

\* Each of its cells is somewhere else.
LEMMA SlotPlaces ==
  ASSUME PinsInv, FieldsInv, Addressable, NullIsNoData, FramesApart,
         NEW s \in Occupied, Placed(s),
         NEW i, i = inflight[s], ask[i.ioreq].cmd # "UNMAP"
  PROVE  /\ \A k \in 0 .. i.len - 1 : /\ Place(s, k) \in 0 .. MemSize - 1
                                      /\ Phys(i.buf + k) \in 0 .. UserSize - 1
                                      /\ i.bounce => /\ k \in 0 .. BounceSize - 1
                                                     /\ Place(s, k) >= UserSize
         /\ \A k, m \in 0 .. i.len - 1 : Place(s, k) = Place(s, m) => k = m
         /\ \A k, m \in 0 .. i.len - 1 : Phys(i.buf + k) = Phys(i.buf + m) => k = m
<1> PICK a : a = ask[i.ioreq]
  OBVIOUS
<1>1. /\ i.len \in Nat /\ i.buf \in Nat
      /\ \A k \in 0 .. i.len - 1 : i.buf + k \in 0 .. UserSize - 1
  BY InSlot
<1>2. \A k \in 0 .. i.len - 1 : Phys(i.buf + k) \in 0 .. UserSize - 1
  BY <1>1, PhysIn
<1>3. ASSUME NEW k \in 0 .. i.len - 1, NEW m \in 0 .. i.len - 1,
             Phys(i.buf + k) = Phys(i.buf + m)
      PROVE  k = m
  <2>1. i.buf + k = i.buf + m
    BY <1>1, <1>3, PhysApart
  <2> QED
    BY <1>1, <2>1
<1>4. UserSize \in Nat /\ MemSize \in Int /\ UserSize <= MemSize /\ BounceSize \in Nat
  BY MemSizes
<1>5. CASE i.bounce
  <2>1. /\ s \in Slot /\ \A k : Place(s, k) = BouncePhys(s) + k
        /\ \A k \in 0 .. i.len - 1 : k \in 0 .. BounceSize - 1
    <3>1. i.len <= BounceSize
      BY <1>5 DEF Placed
    <3> QED
      BY <1>1, <1>4, <1>5, <3>1 DEF Place, Occupied
  <2>2. \A k \in 0 .. i.len - 1 : BouncePhys(s) + k \in UserSize .. MemSize - 1
    BY <2>1, BounceIn
  <2>3. ASSUME NEW k \in 0 .. i.len - 1, NEW m \in 0 .. i.len - 1, Place(s, k) = Place(s, m)
        PROVE  k = m
    <3>1. k \in 0 .. BounceSize - 1 /\ m \in 0 .. BounceSize - 1
      BY <2>1
    <3> QED
      BY <2>1, <2>3, <3>1, BounceApart
  <2>4. \A k \in 0 .. i.len - 1 : Place(s, k) \in 0 .. MemSize - 1 /\ Place(s, k) >= UserSize
    BY <1>4, <2>1, <2>2
  <2> QED
    BY <1>2, <1>3, <2>1, <2>3, <2>4
<1>6. CASE ~i.bounce
  <2>1. \A k : Place(s, k) = Phys(i.buf + k)
    BY <1>6 DEF Place
  <2>2. \A k \in 0 .. i.len - 1 : Place(s, k) \in 0 .. MemSize - 1
    BY <1>2, <1>4, <2>1
  <2> QED
    BY <1>2, <1>3, <1>6, <2>1, <2>2
<1> QED
  BY <1>5, <1>6

\* A step leaves the callers' cells and the blocks of r alone.
Leaves(r) ==
  /\ \A v \in CallersOf(ask[r]) : mem'[Phys(v)] = mem[Phys(v)]
  /\ \A b \in BlocksOf(ask[r]) : b < DiskSize => disk'[b] = disk[b]

LeavesBounce(s) ==
  \A k \in 0 .. BounceSize - 1 : mem'[BouncePhys(s) + k] = mem[BouncePhys(s) + k]

\* Of what the callers and the disk have, and of the bounce buffers, it
\* changes no more than a command for slot s may.
Alters(s) ==
  /\ \A v \in 0 .. UserSize - 1 : mem'[Phys(v)] # mem[Phys(v)] =>
       /\ Reads(ask[inflight[s].ioreq])
       /\ \E k \in 0 .. inflight[s].len - 1 : v = inflight[s].buf + k
  /\ \A b \in 0 .. DiskSize - 1 : disk'[b] # disk[b] =>
       /\ ~Reads(ask[inflight[s].ioreq])
       /\ IF ask[inflight[s].ioreq].cmd = "UNMAP"
          THEN b \in BlocksOf(ask[inflight[s].ioreq])
          ELSE \E k \in 0 .. inflight[s].len - 1 : b = BlockAt(s) + k
  /\ \A t \in Slot : t # s => LeavesBounce(t)

\* What any request names is in memory, and its blocks are numbers.
LEMMA NamesCells ==
  ASSUME Addressable, NullIsNoData, NEW r \in Req, NEW a \in Shapes[r]
  PROVE  /\ \A v \in CallersOf(a) : v \in 0 .. UserSize - 1
         /\ \A b \in BlocksOf(a) : b \in Nat
<1>1. /\ a.length \in Nat /\ AskedOffset(a) \in Nat /\ UserSize \in Nat /\ DiskSize \in Nat
      /\ a.data # NULL => a.data \in Nat /\ a.data + a.length <= UserSize
  <2>1. a.data # NULL => a.data \in Nat
    BY ShapeTypes DEF InMemory, Fields
  <2>2. a.data # NULL => a.data + a.length <= UserSize
    BY MemoryAssumption DEF UserSize
  <2> QED
    BY <2>1, <2>2, ShapeTypes, OffsetAsked, Sizes, TransferAssumption
<1>2. \A v \in CallersOf(a) : v \in 0 .. UserSize - 1
  BY <1>1 DEF CallersOf
<1>3. \A b \in BlocksOf(a) : b \in Nat
  BY <1>1 DEF BlocksOf
<1> QED
  BY <1>2, <1>3

LEMMA OthersLeft ==
  ASSUME PinsInv, FieldsInv, Addressable, NullIsNoData, RequestsApart,
         NEW s \in Occupied, Placed(s), Alters(s),
         NEW r \in Req, ask[r] # NULL, r # inflight[s].ioreq
  PROVE  Leaves(r)
<1> PICK i, a, b : i = inflight[s] /\ a = ask[i.ioreq] /\ b = ask[r]
  OBVIOUS
<1>1. i.ioreq \in Req /\ a \in Shapes[i.ioreq] /\ b \in Shapes[r]
  BY DEF PinsInv, PathTypes, OneOwner, FieldsInv, Occupied
<1>2. /\ Reads(a) => CallersOf(a) \cap CallersOf(b) = {}
      /\ ~Reads(a) => BlocksOf(a) \cap BlocksOf(b) = {}
  BY <1>1 DEF RequestsApart
<1>3. a.cmd # "UNMAP" => \A k \in 0 .. i.len - 1 : /\ i.buf + k \in CallersOf(a)
                                                  /\ BlockAt(s) + k \in BlocksOf(a)
  BY InSlot
<1>4. Reads(a) => a.cmd # "UNMAP"
  BY DEF Reads
<1>5. ASSUME NEW v \in CallersOf(b)
      PROVE  mem'[Phys(v)] = mem[Phys(v)]
  <2>1. v \in 0 .. UserSize - 1
    BY <1>1, <1>5, NamesCells
  <2> QED
    BY <1>2, <1>3, <1>4, <1>5, <2>1 DEF Alters
<1>6. ASSUME NEW x \in BlocksOf(b), x < DiskSize
      PROVE  disk'[x] = disk[x]
  <2>1. x \in 0 .. DiskSize - 1
    <3>1. x \in Nat /\ DiskSize \in Nat
      BY <1>1, <1>6, NamesCells, TransferAssumption
    <3> QED
      BY <1>6, <3>1
  <2> QED
    BY <1>2, <1>3, <1>6, <2>1 DEF Alters
<1> QED
  BY <1>5, <1>6 DEF Leaves

\* Slot s and its request stay as they are.
Steady(s) ==
  /\ inflight'[s] = inflight[s] /\ Kept(inflight[s].ioreq)
  /\ Leaves(inflight[s].ioreq) /\ LeavesBounce(s)

LEMMA PlacedStays ==
  ASSUME NEW s, Placed(s), inflight'[s] = inflight[s], Kept(inflight[s].ioreq)
  PROVE  Placed(s)' /\ BlockAt(s)' = BlockAt(s)
<1> PICK i, r : i = inflight[s] /\ r = i.ioreq
  OBVIOUS
<1>1. /\ inflight'[s] = i /\ ask'[r] = ask[r] /\ io'[r].length = io[r].length
      /\ (IF r = cur' THEN done' ELSE 0) = (IF r = cur THEN done ELSE 0)
  BY DEF Kept
<1>2. Placed(s)'
  BY <1>1 DEF Placed
<1>3. BlockAt(s)' = BlockAt(s)
  BY <1>1 DEF BlockAt, AskedOffset
<1> QED
  BY <1>2, <1>3

LEMMA CopiedStays ==
  ASSUME PinsInv, FieldsInv, Addressable, NullIsNoData, NEW s \in Occupied, Placed(s),
         Steady(s), Copied(s), ask[inflight[s].ioreq].cmd # "UNMAP"
  PROVE  Copied(s)'
<1> PICK i, a : i = inflight[s] /\ a = ask[i.ioreq]
  OBVIOUS
<1>1. inflight'[s] = i /\ a.cmd # "UNMAP"
  BY DEF Steady
<1> SUFFICES ASSUME i.bounce, i.write, NEW k \in 0 .. i.len - 1
             PROVE  mem'[BouncePhys(s) + k] = mem'[Phys(i.buf + k)]
  BY <1>1 DEF Copied
<1>2. mem[BouncePhys(s) + k] = mem[Phys(i.buf + k)]
  BY DEF Copied
<1>3. i.buf + k \in CallersOf(a)
  BY <1>1, InSlot
<1>4. k \in 0 .. BounceSize - 1
  <2>1. i.len \in Nat /\ i.len <= BounceSize /\ BounceSize \in Nat
    BY <1>1, TransferAssumption DEF Placed
  <2> QED
    BY <2>1
<1> QED
  BY <1>2, <1>3, <1>4 DEF Steady, Leaves, LeavesBounce

LEMMA CarriedStays ==
  ASSUME PinsInv, FieldsInv, Addressable, NullIsNoData, NEW s \in Occupied, Placed(s),
         Steady(s), Carried(s)
  PROVE  Carried(s)'
<1> PICK i, a : i = inflight[s] /\ a = ask[i.ioreq]
  OBVIOUS
<1>1. /\ inflight'[s] = i /\ ask'[i.ioreq] = a /\ Leaves(i.ioreq) /\ LeavesBounce(s)
      /\ BlockAt(s)' = BlockAt(s)
  BY PlacedStays DEF Steady, Kept
<1>2. CASE a.cmd = "UNMAP"
  <2>1. BlocksOf(ask[i.ioreq])' = BlocksOf(a)
    BY <1>1 DEF BlocksOf, InRange, AskedOffset
  <2>2. \A b \in BlocksOf(a) : b < DiskSize /\ disk[b] = -1
    <3>1. \A b \in BlocksOf(a) : b \in 0 .. DiskSize - 1 /\ DiskSize \in Nat
      BY <1>2, TransferAssumption DEF BlocksOf
    <3>2. \A b \in BlocksOf(a) : disk[b] = -1
      BY <1>2 DEF Carried, Discarded
    <3> QED
      BY <3>1, <3>2
  <2>3. \A b \in BlocksOf(a) : disk'[b] = -1
    BY <1>1, <2>2 DEF Leaves
  <2>4. Discarded(i.ioreq)'
    BY <2>1, <2>3 DEF Discarded
  <2> QED
    BY <1>1, <1>2, <2>4 DEF Carried, Discarded
<1>3. CASE a.cmd # "UNMAP"
  <2> SUFFICES ASSUME NEW k \in 0 .. i.len - 1
               PROVE  /\ BlockAt(s) + k < DiskSize
                      /\ disk'[BlockAt(s) + k] =
                           mem'[IF i.write THEN Phys(i.buf + k) ELSE Place(s, k)']
    BY <1>1, <1>3 DEF Carried
  <2>1. /\ BlockAt(s) + k < DiskSize
        /\ disk[BlockAt(s) + k] = mem[IF i.write THEN Phys(i.buf + k) ELSE Place(s, k)]
    BY <1>3 DEF Carried
  <2>2. i.buf + k \in CallersOf(a) /\ BlockAt(s) + k \in BlocksOf(a)
    BY <1>3, InSlot
  <2>3. disk'[BlockAt(s) + k] = disk[BlockAt(s) + k]
    BY <1>1, <2>1, <2>2 DEF Leaves
  <2>4. i.bounce => k \in 0 .. BounceSize - 1
    <3>1. i.len \in Nat /\ (i.bounce => i.len <= BounceSize) /\ BounceSize \in Nat
      BY <1>3, TransferAssumption DEF Placed
    <3> QED
      BY <3>1
  <2>5. Place(s, k)' = Place(s, k)
    BY <1>1 DEF Place
  <2>6. mem'[Phys(i.buf + k)] = mem[Phys(i.buf + k)]
    BY <1>1, <2>2 DEF Leaves
  <2>7. mem'[Place(s, k)] = mem[Place(s, k)]
    BY <1>1, <2>4, <2>6 DEF Place, LeavesBounce
  <2> QED
    BY <2>1, <2>3, <2>5, <2>6, <2>7
<1> QED
  BY <1>2, <1>3

LEMMA CompletionsThen ==
  ASSUME \A k \in DOMAIN cq' : \A x : x = cq'[k] /\ x.ok => Carried(x.cid)'
  PROVE  CompletionsCarried'
BY Zenon DEF CompletionsCarried, Carried, Discarded, BlockAt, Place

LEMMA CommandStays ==
  ASSUME PinsInv, FieldsInv, Addressable, NullIsNoData, NEW c, c.cid \in Occupied,
         Placed(c.cid), Steady(c.cid), CommandPlaced(c),
         dsm_buf' = dsm_buf \/ ask[inflight[c.cid].ioreq].cmd # "UNMAP"
  PROVE  CommandPlaced(c)'
<1> PICK i, a : i = inflight[c.cid] /\ a = ask[i.ioreq]
  OBVIOUS
<1>1. /\ inflight'[c.cid] = i /\ ask'[i.ioreq] = a
      /\ BlockAt(c.cid)' = BlockAt(c.cid)
  BY PlacedStays DEF Steady, Kept
<1>2. a.cmd # "UNMAP" => Copied(c.cid)'
  BY CopiedStays DEF CommandPlaced
<1> QED
  BY <1>1, <1>2 DEF CommandPlaced

\* What has been moved stays there.
LEMMA MovedStays ==
  ASSUME Addressable, NullIsNoData, NEW r \in Req, ask[r] \in Shapes[r], ask[r].cmd # "UNMAP",
         ask'[r] = ask[r], NEW n \in Nat, n <= ask[r].length, Moved(r, n),
         \A k \in 0 .. n - 1 :
           /\ mem'[Phys(ask[r].data + k)] = mem[Phys(ask[r].data + k)]
           /\ disk'[AskedOffset(ask[r]) + k] = disk[AskedOffset(ask[r]) + k]
  PROVE  Moved(r, n)'
<1> PICK a, off : a = ask[r] /\ off = AskedOffset(a)
  OBVIOUS
<1>1. ask'[r] = a /\ AskedOffset(ask[r])' = off
  BY DEF AskedOffset
<1> QED
  BY <1>1 DEF Moved

LEMMA MovedLeft ==
  ASSUME Addressable, NullIsNoData, NEW r \in Req, ask[r] \in Shapes[r], ask[r].cmd # "UNMAP",
         ask'[r] = ask[r], NEW n \in Nat, n <= ask[r].length, Moved(r, n), Leaves(r)
  PROVE  Moved(r, n)'
<1> PICK a : a = ask[r]
  OBVIOUS
<1> SUFFICES ASSUME NEW k \in 0 .. n - 1
             PROVE  /\ mem'[Phys(a.data + k)] = mem[Phys(a.data + k)]
                    /\ disk'[AskedOffset(a) + k] = disk[AskedOffset(a) + k]
  BY MovedStays
<1>1. a.data \in Nat /\ AskedOffset(a) + k < DiskSize
  BY DEF Moved
<1>2. a.length \in Nat /\ AskedOffset(a) \in Nat /\ a.data # NULL
  BY <1>1, ShapeTypes, OffsetAsked DEF NullIsNoData
<1>3. a.data + k \in CallersOf(a) /\ AskedOffset(a) + k \in BlocksOf(a)
  <2>1. /\ CallersOf(a) = a.data .. a.data + a.length - 1
        /\ BlocksOf(a) = AskedOffset(a) .. AskedOffset(a) + a.length - 1
    BY <1>2 DEF CallersOf, BlocksOf
  <2> PICK off, len, at : off = AskedOffset(a) /\ len = a.length /\ at = a.data
    OBVIOUS
  <2>2. /\ off \in Nat /\ len \in Nat /\ at \in Nat /\ n <= len
        /\ CallersOf(a) = at .. at + len - 1 /\ BlocksOf(a) = off .. off + len - 1
    BY <1>1, <1>2, <2>1
  <2>3. at + k \in at .. at + len - 1 /\ off + k \in off .. off + len - 1
    <3>1. off \in Nat /\ len \in Nat /\ at \in Nat /\ n <= len
      BY <2>2
    <3> QED
      BY ONLY <3>1, n \in Nat, k \in 0 .. n - 1
  <2> QED
    BY <2>2, <2>3
<1> QED
  BY <1>1, <1>3 DEF Leaves

LEMMA DiscardedLeft ==
  ASSUME NEW r, ask[r].cmd = "UNMAP", ask'[r] = ask[r], Discarded(r), Leaves(r)
  PROVE  Discarded(r)'
<1> PICK a : a = ask[r]
  OBVIOUS
<1>1. BlocksOf(ask[r])' = BlocksOf(a)
  BY DEF BlocksOf, InRange, AskedOffset
<1>2. \A b \in BlocksOf(a) : b < DiskSize
  <2>1. BlocksOf(a) \subseteq 0 .. DiskSize - 1
    BY DEF BlocksOf
  <2> QED
    BY <2>1, Limits
<1>3. \A b \in BlocksOf(a) : disk'[b] = -1
  BY <1>2 DEF Discarded, Leaves
<1> QED
  BY <1>1, <1>3 DEF Discarded

-----------------------------------------------------------------------------
(* What the controller and the copies to and from bounce buffers do.       *)

\* A command that the controller may carry out stays on the disk.
LEMMA SlotInDisk ==
  ASSUME PinsInv, FieldsInv, HeldInv, RestTyped, AnswersInv, Addressable, NullIsNoData,
         giveups = 0, NEW c \in issued, Valid(c), Placed(c.cid),
         ask[inflight[c.cid].ioreq].cmd # "UNMAP", c.cmd # "DSM"
  PROVE  \A k \in 0 .. inflight[c.cid].len - 1 : BlockAt(c.cid) + k < DiskSize
<1> PICK s, i, a : s = c.cid /\ i = inflight[s] /\ a = ask[i.ioreq]
  OBVIOUS
<1>1. s \in Occupied
  BY DEF HeldInv, OneEach
<1>2. Good(i.ioreq)
  BY DEF AnswersInv, CommandsTold, CommandOf, InDisk, Valid
<1> PICK n : n = Reach(i.ioreq)
  OBVIOUS
<1>3. n # 0 => AskedOffset(a) + n <= DiskSize
  BY <1>2 DEF Good, Sound
<1>4. /\ i.len \in Nat \ {0} /\ i.buf \in Nat /\ a.data \in Nat /\ AskedOffset(a) \in Nat
      /\ BlockAt(s) = AskedOffset(a) + (i.buf - a.data)
  BY <1>1, InSlot
<1>5. n = (i.buf - a.data) + i.len /\ a.data <= i.buf
  <2> PICK d : d = IF i.ioreq = cur THEN done ELSE 0
    OBVIOUS
  <2>1. d \in Nat
    BY DEF FieldsInv
  <2>2. n = d + io[i.ioreq].length
    BY DEF Reach
  <2>3. i.buf = a.data + d /\ i.len = io[i.ioreq].length /\ a.data <= i.buf
    BY DEF Placed
  <2> QED
    BY ONLY <1>4, <2>1, <2>2, <2>3
<1>p. PICK off, at : off = AskedOffset(a) /\ at = BlockAt(s)
  OBVIOUS
<1>6. DiskSize \in Nat
  BY Limits
<1>q. PICK len, d : len = i.len /\ d = i.buf - a.data
  OBVIOUS
<1>7. /\ len \in Nat \ {0} /\ d \in Nat /\ off \in Nat /\ at = off + d /\ n = d + len
      /\ n # 0 => off + n <= DiskSize
  <2>1. len \in Nat \ {0} /\ d \in Nat
    BY ONLY <1>4, <1>5, <1>q
  <2> QED
    BY Zenon, <1>3, <1>4, <1>5, <1>p, <1>q, <2>1
<1>8. \A k \in 0 .. len - 1 : at + k < DiskSize
  BY ONLY <1>6, <1>7
<1> QED
  BY <1>8, <1>p, <1>q

\* What is known of a command for a read or a write.
LEMMA TransferOf ==
  ASSUME PinsInv, FieldsInv, HeldInv, Addressable, NullIsNoData, FramesApart,
         DataInv, giveups = 0, NEW c \in issued, c.cmd # "DSM",
         NEW s, s = c.cid, NEW i, i = inflight[s]
  PROVE  /\ s \in Occupied /\ Placed(s) /\ CommandPlaced(c)
         /\ ask[i.ioreq].cmd # "UNMAP" /\ Copied(s)
         /\ c.cmd = IF i.write THEN "W" ELSE "R"
         /\ i.write <=> ask[i.ioreq].cmd \in Writes
         /\ i.len \in Nat \ {0} /\ Cells(c) = i.len
         /\ c.slba * BlockSize = BlockAt(s) /\ BlockAt(s) \in Nat
         /\ \A k \in 0 .. i.len - 1 : Address(c, k) = Place(s, k)
<1>1. s \in Occupied /\ Named(c)
  BY DEF HeldInv, OneEach
<1>2. Placed(s) /\ CommandPlaced(c)
  BY <1>1 DEF DataInv
<1>3. /\ ask[i.ioreq].cmd # "UNMAP" /\ Copied(s)
      /\ c.cmd = IF i.write THEN "W" ELSE "R"
      /\ c.slba * BlockSize = BlockAt(s)
  BY <1>2 DEF CommandPlaced
<1>4. i.len \in Nat \ {0} /\ BlockAt(s) \in Nat
  <2> PICK a : a = ask[i.ioreq]
    OBVIOUS
  <2> QED
    BY <1>1, <1>2, <1>3, InSlot
<1>5. (i.write <=> ask[i.ioreq].cmd \in Writes)
  BY <1>2, <1>3 DEF Placed
<1>6. Cells(c) = i.len
  BY <1>1 DEF Named
<1>7. \A k \in 0 .. i.len - 1 : Address(c, k) = Place(s, k)
  BY <1>1, <1>6 DEF Named
<1> QED
  BY <1>1, <1>2, <1>3, <1>4, <1>5, <1>6, <1>7

LEMMA ReadIs ==
  ASSUME PinsInv, FieldsInv, HeldInv, Addressable, NullIsNoData, FramesApart,
         DataInv, giveups = 0, NEW c \in issued, Read(c),
         NEW s, s = c.cid, NEW i, i = inflight[s]
  PROVE  /\ DOMAIN mem' = 0 .. MemSize - 1 /\ disk' = disk
         /\ \A k \in 0 .. i.len - 1 : mem'[Place(s, k)] = disk[BlockAt(s) + k]
         /\ \A x \in 0 .. MemSize - 1 :
              (\A k \in 0 .. i.len - 1 : Place(s, k) # x) => mem'[x] = mem[x]
<1>1. c.cmd = "R" /\ c.cmd # "DSM"
  BY DEF Read
<1>2. /\ s \in Occupied /\ Placed(s) /\ ask[i.ioreq].cmd # "UNMAP"
      /\ i.len \in Nat \ {0} /\ Cells(c) = i.len
      /\ c.slba * BlockSize = BlockAt(s)
      /\ \A k \in 0 .. i.len - 1 : Address(c, k) = Place(s, k)
  BY <1>1, TransferOf
<1>3. /\ \A k \in 0 .. i.len - 1 : Place(s, k) \in 0 .. MemSize - 1
      /\ \A k, m \in 0 .. i.len - 1 : Place(s, k) = Place(s, m) => k = m
  BY <1>2, SlotPlaces
<1> DEFINE cells == 0 .. i.len - 1
           at == [x \in Touched(c) |-> CHOOSE k \in 0 .. Cells(c) - 1 : Address(c, k) = x]
<1>4. /\ Touched(c) = {Place(s, k) : k \in cells}
      /\ \A x \in Touched(c) : at[x] = CHOOSE k \in cells : Address(c, k) = x
      /\ DOMAIN at = Touched(c)
  BY <1>2 DEF Touched
<1>5. \A k \in cells : at[Place(s, k)] = k
  <2> SUFFICES ASSUME NEW k \in cells
               PROVE  at[Place(s, k)] = k
    OBVIOUS
  <2>1. at[Place(s, k)] = CHOOSE m \in cells : Address(c, m) = Place(s, k)
    BY Zenon, <1>4
  <2>2. \A m \in cells : Address(c, m) = Place(s, k) <=> m = k
    BY <1>2, <1>3
  <2> HIDE DEF cells, at
  <2> QED
    BY <2>1, <2>2
<1>6. /\ mem' = [x \in DOMAIN mem |-> IF x \in DOMAIN at THEN disk[c.slba * BlockSize + at[x]]
                                      ELSE mem[x]]
      /\ disk' = disk
  BY DEF Read
<1>7. DOMAIN mem = 0 .. MemSize - 1
  BY DEF DataInv, MediaTyped
<1> HIDE DEF cells, at
<1>8. \A k \in cells : mem'[Place(s, k)] = disk[BlockAt(s) + k]
  <2> SUFFICES ASSUME NEW k \in cells
               PROVE  mem'[Place(s, k)] = disk[BlockAt(s) + k]
    OBVIOUS
  <2>1. Place(s, k) \in DOMAIN mem /\ Place(s, k) \in DOMAIN at
    BY <1>3, <1>4, <1>7 DEF cells
  <2> QED
    BY <1>2, <1>5, <1>6, <2>1
<1>9. \A x \in 0 .. MemSize - 1 : (\A k \in cells : Place(s, k) # x) => mem'[x] = mem[x]
  BY <1>4, <1>6, <1>7
<1> QED
  BY <1>6, <1>7, <1>8, <1>9 DEF cells

LEMMA WriteIs ==
  ASSUME PinsInv, FieldsInv, HeldInv, Addressable, NullIsNoData, FramesApart,
         DataInv, giveups = 0, NEW c \in issued, Write(c),
         NEW s, s = c.cid, NEW i, i = inflight[s]
  PROVE  /\ DOMAIN disk' = 0 .. DiskSize - 1 /\ mem' = mem
         /\ \A k \in 0 .. i.len - 1 : BlockAt(s) + k < DiskSize =>
              disk'[BlockAt(s) + k] = mem[Phys(i.buf + k)]
         /\ \A b \in 0 .. DiskSize - 1 :
              (\A k \in 0 .. i.len - 1 : BlockAt(s) + k # b) => disk'[b] = disk[b]
<1>1. c.cmd = "W" /\ c.cmd # "DSM"
  BY DEF Write
<1>2. /\ s \in Occupied /\ Placed(s) /\ ask[i.ioreq].cmd # "UNMAP" /\ Copied(s) /\ i.write
      /\ i.len \in Nat \ {0} /\ Cells(c) = i.len
      /\ c.slba * BlockSize = BlockAt(s) /\ BlockAt(s) \in Nat
      /\ \A k \in 0 .. i.len - 1 : Address(c, k) = Place(s, k)
  BY <1>1, TransferOf
<1> PICK at, len : at = BlockAt(s) /\ len = i.len
  OBVIOUS
<1>3. /\ disk' = [b \in DOMAIN disk |-> IF b - at \in 0 .. len - 1
                                        THEN mem[Address(c, b - at)] ELSE disk[b]]
      /\ mem' = mem
  BY <1>2 DEF Write
<1>4. DOMAIN disk = 0 .. DiskSize - 1 /\ DiskSize \in Nat
  BY TransferAssumption DEF DataInv, MediaTyped
<1>5. ASSUME NEW k \in 0 .. len - 1, at + k < DiskSize
      PROVE  disk'[at + k] = mem[Phys(i.buf + k)]
  <2>1. at + k \in DOMAIN disk /\ (at + k) - at = k
    BY <1>2, <1>4, <1>5
  <2>2. disk'[at + k] = mem[Place(s, k)]
    BY <1>2, <1>3, <2>1
  <2>3. mem[Place(s, k)] = mem[Phys(i.buf + k)]
    BY <1>2 DEF Place, Copied
  <2> QED
    BY <2>2, <2>3
<1>6. ASSUME NEW b \in 0 .. DiskSize - 1, \A k \in 0 .. len - 1 : at + k # b
      PROVE  disk'[b] = disk[b]
  <2>1. ~(b - at \in 0 .. len - 1)
    <3>1. at + (b - at) = b
      BY <1>2
    <3> QED
      BY <1>6, <3>1
  <2> QED
    BY <1>3, <1>4, <2>1
<1> QED
  BY <1>3, <1>4, <1>5, <1>6

LEMMA DiscardIs ==
  ASSUME PinsInv, FieldsInv, HeldInv, DataInv, giveups = 0, NEW c \in issued, Discard(c),
         NEW s, s = c.cid, NEW i, i = inflight[s]
  PROVE  /\ s \in Occupied /\ ask[i.ioreq].cmd = "UNMAP"
         /\ DOMAIN disk' = 0 .. DiskSize - 1 /\ mem' = mem
         /\ \A b \in 0 .. DiskSize - 1 :
              disk'[b] = IF b \in BlocksOf(ask[i.ioreq]) THEN -1 ELSE disk[b]
<1> PICK a : a = ask[i.ioreq]
  OBVIOUS
<1>1. c.cmd = "DSM"
  BY DEF Discard
<1>2. s \in Occupied /\ CommandPlaced(c)
  BY DEF HeldInv, OneEach, DataInv
<1>3. /\ a.cmd = "UNMAP" /\ c.nr + 1 = Len(a.ranges)
      /\ \A k \in 1 .. Len(a.ranges) : dsm_buf[k] = a.ranges[k]
  BY <1>1, <1>2 DEF CommandPlaced
<1>4. DOMAIN a.ranges = 1 .. Len(a.ranges)
  <2>1. i.ioreq \in Req /\ a \in Shapes[i.ioreq]
    BY <1>2 DEF PinsInv, PathTypes, OneOwner, FieldsInv, Occupied
  <2>2. a.ranges \in Seq(Seq(Nat))
    BY <2>1, AskedTypes
  <2> PICK T : T = Seq(Nat)
    OBVIOUS
  <2>3. a.ranges \in Seq(T)
    BY <2>2
  <2> QED
    BY <2>3
<1>5. /\ disk' = [b \in DOMAIN disk |->
                    IF \E k \in 1 .. c.nr + 1 :
                         b \div BlockSize - dsm_buf[k][1] \in 0 .. dsm_buf[k][2] - 1
                    THEN -1 ELSE disk[b]]
      /\ mem' = mem
  BY DEF Discard
<1>6. DOMAIN disk = 0 .. DiskSize - 1
  BY DEF DataInv, MediaTyped
<1>7. ASSUME NEW b \in 0 .. DiskSize - 1
      PROVE  disk'[b] = IF b \in BlocksOf(a) THEN -1 ELSE disk[b]
  <2>1. b \in BlocksOf(a) <=> \E k \in 1 .. Len(a.ranges) : InRange(b, a.ranges[k])
    BY Zenon, <1>3, <1>4 DEF BlocksOf
  <2>2. \A k \in 1 .. Len(a.ranges) :
          InRange(b, a.ranges[k])
            <=> b \div BlockSize - dsm_buf[k][1] \in 0 .. dsm_buf[k][2] - 1
    BY Zenon, <1>3 DEF InRange
  <2>3. disk'[b] = IF \E k \in 1 .. c.nr + 1 :
                        b \div BlockSize - dsm_buf[k][1] \in 0 .. dsm_buf[k][2] - 1
                   THEN -1 ELSE disk[b]
    BY <1>5, <1>6
  <2> QED
    BY Zenon, <1>3, <2>1, <2>2, <2>3
<1> QED
  BY <1>2, <1>3, <1>5, <1>6, <1>7

LEMMA CopyOutIs ==
  ASSUME PinsInv, FieldsInv, Addressable, NullIsNoData, FramesApart, MediaTyped,
         NEW s \in Occupied, Placed(s), NEW i, i = inflight[s],
         ask[i.ioreq].cmd # "UNMAP", mem' = CopyOut(BouncePhys(s), i.buf, i.len)
  PROVE  /\ DOMAIN mem' = 0 .. MemSize - 1
         /\ \A k \in 0 .. i.len - 1 : mem'[Phys(i.buf + k)] = mem[BouncePhys(s) + k]
         /\ \A x \in 0 .. MemSize - 1 :
              (\A k \in 0 .. i.len - 1 : Phys(i.buf + k) # x) => mem'[x] = mem[x]
<1> DEFINE cells == 0 .. i.len - 1
           at == {Phys(i.buf + k) : k \in cells}
           to == [x \in at |-> CHOOSE k \in cells : Phys(i.buf + k) = x]
<1>1. /\ \A k \in cells : Phys(i.buf + k) \in 0 .. UserSize - 1
      /\ \A k, m \in cells : Phys(i.buf + k) = Phys(i.buf + m) => k = m
  BY SlotPlaces
<1>2. \A k \in cells : to[Phys(i.buf + k)] = k /\ Phys(i.buf + k) \in DOMAIN to
  <2> SUFFICES ASSUME NEW k \in cells
               PROVE  to[Phys(i.buf + k)] = k /\ Phys(i.buf + k) \in DOMAIN to
    OBVIOUS
  <2>1. /\ Phys(i.buf + k) \in at
        /\ to[Phys(i.buf + k)] = CHOOSE m \in cells : Phys(i.buf + m) = Phys(i.buf + k)
    OBVIOUS
  <2>2. \A m \in cells : Phys(i.buf + m) = Phys(i.buf + k) <=> m = k
    BY <1>1
  <2>3. DOMAIN to = at
    OBVIOUS
  <2> HIDE DEF cells, to, at
  <2> QED
    BY <2>1, <2>2, <2>3
<1>3. mem' = [x \in DOMAIN mem |-> IF x \in DOMAIN to THEN mem[BouncePhys(s) + to[x]]
                                                      ELSE mem[x]]
  BY DEF CopyOut
<1>4. DOMAIN to = at /\ DOMAIN mem = 0 .. MemSize - 1
  BY DEF MediaTyped
<1>5. \A k \in cells : Phys(i.buf + k) \in DOMAIN mem
  <2>1. UserSize <= MemSize /\ UserSize \in Nat /\ MemSize \in Int
    BY MemSizes
  <2> HIDE DEF cells, to, at
  <2> QED
    BY <1>1, <1>4, <2>1
<1>6. \A x \in 0 .. MemSize - 1 :
        (\A k \in cells : Phys(i.buf + k) # x) => mem'[x] = mem[x]
  <2>1. \A x : (\A k \in cells : Phys(i.buf + k) # x) => x \notin at
    OBVIOUS
  <2> HIDE DEF cells, to, at
  <2> QED
    BY <1>3, <1>4, <2>1
<1> HIDE DEF to, at
<1>7. \A k \in cells : mem'[Phys(i.buf + k)] = mem[BouncePhys(s) + k]
  BY <1>2, <1>3, <1>5
<1> QED
  BY <1>3, <1>4, <1>6, <1>7

LEMMA CopyInIs ==
  ASSUME MediaTyped, NEW s \in Slot, NEW v \in Nat, NEW len \in Nat, len <= BounceSize,
         mem' = CopyIn(v, BouncePhys(s), len)
  PROVE  /\ DOMAIN mem' = 0 .. MemSize - 1
         /\ \A k \in 0 .. len - 1 : mem'[BouncePhys(s) + k] = mem[Phys(v + k)]
         /\ \A x \in 0 .. MemSize - 1 :
              (\A k \in 0 .. BounceSize - 1 : BouncePhys(s) + k # x) => mem'[x] = mem[x]
<1> PICK b : b = BouncePhys(s)
  OBVIOUS
<1>1. b \in Nat /\ BounceSize \in Nat
  BY BounceAligned, TransferAssumption
<1>2. /\ DOMAIN mem = 0 .. MemSize - 1
      /\ mem' = [x \in DOMAIN mem |-> IF x \in b .. b + len - 1 THEN mem[Phys(v + x - b)]
                                                               ELSE mem[x]]
  BY DEF MediaTyped, CopyIn
<1>3. ASSUME NEW k \in 0 .. len - 1
      PROVE  mem'[b + k] = mem[Phys(v + k)]
  <2>1. k \in 0 .. BounceSize - 1
    BY <1>1
  <2>2. b + k \in UserSize .. MemSize - 1 /\ UserSize \in Nat
    BY <2>1, BounceIn, Sizes
  <2>3. b + k \in DOMAIN mem /\ b + k \in b .. b + len - 1 /\ v + (b + k) - b = v + k
    BY SMTT(30), <1>1, <1>2, <2>2
  <2>4. mem'[b + k] = mem[Phys(v + (b + k) - b)]
    BY <1>2, <2>3
  <2> QED
    BY <2>3, <2>4
<1>4. ASSUME NEW x \in 0 .. MemSize - 1, \A k \in 0 .. BounceSize - 1 : b + k # x
      PROVE  mem'[x] = mem[x]
  <2>1. ~(x \in b .. b + len - 1)
    <3>1. b + (x - b) = x
      BY <1>1
    <3>2. ~(x - b \in 0 .. BounceSize - 1)
      BY <1>4, <3>1
    <3> QED
      BY <1>1, <3>2
  <2> QED
    BY <1>2, <2>1
<1> QED
  BY <1>2, <1>3, <1>4

\* A read, or the end of one.
LEMMA AltersPlaces ==
  ASSUME PinsInv, FieldsInv, Addressable, NullIsNoData, FramesApart,
         NEW s \in Occupied, Placed(s), NEW i, i = inflight[s],
         Reads(ask[i.ioreq]), disk' = disk,
         \A x \in 0 .. MemSize - 1 :
           (\A k \in 0 .. i.len - 1 : Place(s, k) # x /\ Phys(i.buf + k) # x)
             => mem'[x] = mem[x]
  PROVE  Alters(s)
<1> PICK cells : cells = 0 .. i.len - 1
  OBVIOUS
<1>0. ask[i.ioreq].cmd # "UNMAP"
  BY DEF Reads
<1>1. /\ \A k \in cells : /\ Phys(i.buf + k) \in 0 .. UserSize - 1
                          /\ i.bounce => k \in 0 .. BounceSize - 1 /\ Place(s, k) >= UserSize
                          /\ ~i.bounce => Place(s, k) = Phys(i.buf + k)
                          /\ i.bounce => Place(s, k) = BouncePhys(s) + k
                          /\ i.buf + k \in 0 .. UserSize - 1
  <2>1. \A k \in cells : /\ Phys(i.buf + k) \in 0 .. UserSize - 1
                         /\ i.bounce => k \in 0 .. BounceSize - 1 /\ Place(s, k) >= UserSize
    BY <1>0, SlotPlaces
  <2>2. \A k \in cells : i.buf + k \in 0 .. UserSize - 1
    <3> PICK a : a = ask[i.ioreq]
      OBVIOUS
    <3>1. /\ \A v \in CallersOf(a) : v \in 0 .. UserSize - 1
          /\ \A k \in 0 .. i.len - 1 : i.buf + k \in CallersOf(a)
      BY <1>0, InSlot
    <3> QED
      BY <3>1
  <2> QED
    BY <2>1, <2>2 DEF Place
<1>2. UserSize \in Nat /\ MemSize \in Int /\ UserSize <= MemSize
  BY MemSizes
<1>3. ASSUME NEW v \in 0 .. UserSize - 1, mem'[Phys(v)] # mem[Phys(v)]
      PROVE  \E k \in cells : v = i.buf + k
  <2>1. Phys(v) \in 0 .. UserSize - 1
    BY PhysIn
  <2>2. Phys(v) \in 0 .. MemSize - 1
    BY <1>2, <2>1
  <2>3. PICK k \in cells : Place(s, k) = Phys(v) \/ Phys(i.buf + k) = Phys(v)
    BY <1>3, <2>2
  <2>4. Phys(i.buf + k) = Phys(v)
    BY <1>1, <1>2, <2>1, <2>3
  <2> QED
    BY <1>1, <2>4, PhysApart
<1>4. ASSUME NEW t \in Slot, t # s, NEW m \in 0 .. BounceSize - 1
      PROVE  mem'[BouncePhys(t) + m] = mem[BouncePhys(t) + m]
  <2>1. BouncePhys(t) + m \in UserSize .. MemSize - 1 /\ s \in Slot
    BY BounceIn DEF Occupied
  <2> PICK x : x = BouncePhys(t) + m
    OBVIOUS
  <2>2. x \in 0 .. MemSize - 1 /\ x >= UserSize
    BY <1>2, <2>1
  <2>3. \A k \in cells : Phys(i.buf + k) # x
    BY <1>1, <1>2, <2>2
  <2>4. \A k \in cells : Place(s, k) # x
    <3> SUFFICES ASSUME NEW k \in cells, Place(s, k) = x
                 PROVE  FALSE
      OBVIOUS
    <3>1. i.bounce /\ BouncePhys(s) + k = BouncePhys(t) + m /\ k \in 0 .. BounceSize - 1
      BY <1>1, <2>3
    <3> QED
      BY <1>4, <2>1, <3>1, BounceApart
  <2> QED
    BY <2>2, <2>3, <2>4
<1> QED
  BY <1>3, <1>4 DEF Alters, LeavesBounce

\* A command carried out changes no more than it names, and all of that.
LEMMA CarriedOut ==
  ASSUME PinsInv, FieldsInv, HeldInv, RestTyped, AnswersInv, Addressable, NullIsNoData,
         FramesApart, DataInv, giveups = 0, NEW c \in issued, c.cid \in Occupied,
         Read(c) \/ Write(c) \/ Discard(c), UNCHANGED <<ask, inflight>>
  PROVE  MediaTyped' /\ Alters(c.cid) /\ Carried(c.cid)'
<1> PICK s, i, a : s = c.cid /\ i = inflight[s] /\ a = ask[i.ioreq]
  OBVIOUS
<1>1. DOMAIN mem = 0 .. MemSize - 1 /\ DOMAIN disk = 0 .. DiskSize - 1
  BY DEF DataInv, MediaTyped
<1>2. BlockAt(s)' = BlockAt(s) /\ \A k : Place(s, k)' = Place(s, k)
  BY DEF BlockAt, AskedOffset, Place
<1>3. CASE Read(c)
  <2>1. c.cmd = "R" /\ Valid(c) /\ c.cmd # "DSM"
    BY <1>3 DEF Read
  <2>2. Placed(s) /\ a.cmd # "UNMAP" /\ ~i.write /\ (i.write <=> a.cmd \in Writes)
    BY <2>1, TransferOf
  <2>3. Reads(a)
    BY <2>2 DEF Reads
  <2>4. /\ DOMAIN mem' = 0 .. MemSize - 1 /\ disk' = disk
        /\ \A k \in 0 .. i.len - 1 : mem'[Place(s, k)] = disk[BlockAt(s) + k]
        /\ \A x \in 0 .. MemSize - 1 :
             (\A k \in 0 .. i.len - 1 : Place(s, k) # x) => mem'[x] = mem[x]
    BY <1>3, ReadIs
  <2>5. Alters(s)
    BY <2>2, <2>3, <2>4, AltersPlaces
  <2>6. \A k \in 0 .. i.len - 1 : BlockAt(s) + k < DiskSize
    BY <2>1, <2>2, SlotInDisk
  <2>7. Carried(s)'
    BY <1>2, <2>2, <2>4, <2>6 DEF Carried
  <2> QED
    BY <1>1, <2>4, <2>5, <2>7 DEF MediaTyped
<1>4. CASE Write(c)
  <2>1. c.cmd = "W" /\ Valid(c) /\ c.cmd # "DSM"
    BY <1>4 DEF Write
  <2>2. Placed(s) /\ a.cmd # "UNMAP" /\ i.write /\ (i.write <=> a.cmd \in Writes)
    BY <2>1, TransferOf
  <2>3. ~Reads(a)
    BY <2>2 DEF Reads
  <2>4. /\ DOMAIN disk' = 0 .. DiskSize - 1 /\ mem' = mem
        /\ \A k \in 0 .. i.len - 1 : BlockAt(s) + k < DiskSize =>
             disk'[BlockAt(s) + k] = mem[Phys(i.buf + k)]
        /\ \A b \in 0 .. DiskSize - 1 :
             (\A k \in 0 .. i.len - 1 : BlockAt(s) + k # b) => disk'[b] = disk[b]
    BY <1>4, WriteIs
  <2>5. Alters(s)
    BY <2>2, <2>3, <2>4 DEF Alters, LeavesBounce
  <2>6. \A k \in 0 .. i.len - 1 : BlockAt(s) + k < DiskSize
    BY <2>1, <2>2, SlotInDisk
  <2>7. Carried(s)'
    BY <1>2, <2>2, <2>4, <2>6 DEF Carried
  <2> QED
    BY <1>1, <2>4, <2>5, <2>7 DEF MediaTyped
<1>5. CASE Discard(c)
  <2>1. /\ a.cmd = "UNMAP" /\ DOMAIN disk' = 0 .. DiskSize - 1 /\ mem' = mem
        /\ \A b \in 0 .. DiskSize - 1 :
             disk'[b] = IF b \in BlocksOf(a) THEN -1 ELSE disk[b]
    BY <1>5, DiscardIs
  <2>2. ~Reads(a)
    BY <2>1 DEF Reads
  <2>3. Alters(s)
    BY <2>1, <2>2 DEF Alters, LeavesBounce
  <2>4. BlocksOf(ask[i.ioreq])' = BlocksOf(a)
    BY DEF BlocksOf, InRange, AskedOffset
  <2>5. \A b \in BlocksOf(a) : b \in 0 .. DiskSize - 1
    BY <2>1 DEF BlocksOf
  <2>6. Discarded(i.ioreq)'
    BY <2>1, <2>4, <2>5 DEF Discarded
  <2>7. Carried(s)'
    BY <2>1, <2>6 DEF Carried, Discarded
  <2> QED
    BY <1>1, <2>1, <2>3, <2>7 DEF MediaTyped
<1> QED
  BY <1>3, <1>4, <1>5

-----------------------------------------------------------------------------
(* What is moved, step by step.                                            *)

\* How much of the request in hand has come back.
Back == IF ChunkBack THEN done + io[cur].length ELSE done

LEMMA BackIs ==
  ASSUME PinsInv, FieldsInv, RestTyped, ChunkInv, Polling, pc # "loop",
         ask[cur].cmd # "UNMAP"
  PROVE  /\ cur \in Req /\ ask[cur] \in Shapes[cur] /\ ask[cur] # NULL
         /\ Back \in Nat /\ Back <= ask[cur].length
<1>1. cur \in Req /\ ask[cur] \in Shapes[cur] /\ ask[cur] # NULL
  BY DEF PinsInv, PathTypes, OneOwner, FieldsInv
<1>2. ask[cur].length \in Nat /\ done \in Nat /\ io[cur].length \in Nat
  BY <1>1, ShapeTypes DEF FieldsInv, InMemory
<1>3. CASE pc = "poll"
  <2>1. done + io[cur].length <= ask[cur].length
    BY <1>2, <1>3 DEF Polling, ChunkInv
  <2> QED
    BY <1>1, <1>2, <2>1 DEF Back
<1>4. CASE pc # "poll"
  <2>1. Back = done
    BY <1>4 DEF Back, ChunkBack
  <2>2. pc \in {"dispatch", "submit", "pinned"}
    BY <1>4 DEF PinsInv, PathTypes
  <2>3. Split(cur) => done <= ask[cur].length
    BY <1>2, <2>2 DEF FieldsInv, ChunkInv
  <2>4. ~Split(cur) => done = 0
    BY DEF ChunkInv
  <2> QED
    BY <1>1, <1>2, <2>1, <2>3, <2>4
<1> QED
  BY <1>3, <1>4

LEMMA ProgressIs ==
  Progress <=> (pc # "loop" => IF ask[cur].cmd = "UNMAP" THEN ChunkBack => Discarded(cur)
                                                         ELSE Moved(cur, Back))
  BY DEF Progress, Back

\* The chunk in hand is no part of what came before it.
LEMMA MovedBefore ==
  ASSUME PinsInv, FieldsInv, Addressable, NullIsNoData,
         NEW s \in Occupied, Placed(s), Alters(s), NEW r, r = cur, inflight[s].ioreq = r,
         ask[r].cmd # "UNMAP", ask' = ask, NEW d, d = done, Moved(r, d)
  PROVE  Moved(r, d)'
<1> PICK i, a : i = inflight[s] /\ a = ask[r]
  OBVIOUS
<1>1. /\ r \in Req /\ a \in Shapes[r] /\ a.cmd # "UNMAP" /\ i.ioreq = r
  BY DEF PinsInv, PathTypes, OneOwner, FieldsInv, Occupied
<1>2. /\ i.len \in Nat \ {0} /\ i.buf \in Nat /\ a.data \in Nat /\ a.length \in Nat
      /\ AskedOffset(a) \in Nat
      /\ BlockAt(s) = AskedOffset(a) + (i.buf - a.data)
      /\ CallersOf(a) = a.data .. a.data + a.length - 1
      /\ \A v \in CallersOf(a) : v \in 0 .. UserSize - 1
  BY <1>1, InSlot
<1>3. d \in Nat /\ i.buf = a.data + d /\ i.buf + i.len <= a.data + a.length
  BY <1>1 DEF FieldsInv, Placed
<1> PICK off, at, len, b, u, n : /\ off = AskedOffset(a) /\ at = a.data /\ len = a.length
                                 /\ b = BlockAt(s) /\ u = i.buf /\ n = i.len
  OBVIOUS
<1>4. /\ off \in Nat /\ at \in Nat /\ len \in Nat /\ n \in Nat /\ d \in Nat /\ DiskSize \in Nat
      /\ b = off + (u - at) /\ u = at + d /\ u + n <= at + len
  BY <1>2, <1>3, TransferAssumption
<1>5. b = off + d /\ d <= len
  BY <1>4
<1>6. ASSUME NEW k \in 0 .. d - 1
      PROVE  mem'[Phys(at + k)] = mem[Phys(at + k)] /\ disk'[off + k] = disk[off + k]
  <2>1. off + k < DiskSize
    BY <1>6 DEF Moved
  <2>2. at + k \in at .. at + len - 1
    BY <1>4, <1>5
  <2>3. at + k \in 0 .. UserSize - 1
    BY <1>2, <2>2
  <2>4. off + k \in 0 .. DiskSize - 1
    BY <1>4, <2>1
  <2>5. \A m \in 0 .. n - 1 : at + k # u + m /\ off + k # b + m
    BY <1>4, <1>5
  <2> QED
    BY <1>1, <2>3, <2>4, <2>5 DEF Alters
<1> QED
  BY <1>1, <1>3, <1>5, <1>6, MovedStays

\* A command for slot s leaves the others as they are.
LEMMA RestSteady ==
  ASSUME PinsInv, FieldsInv, Addressable, NullIsNoData, RequestsApart,
         NEW s \in Occupied, Placed(s), Alters(s), NEW t \in Occupied, t # s,
         inflight'[t] = inflight[t], Kept(inflight[t].ioreq)
  PROVE  Steady(t)
<1> PICK r : r = inflight[t].ioreq
  OBVIOUS
<1>1. r \in Req /\ ask[r] # NULL /\ r # inflight[s].ioreq /\ t \in Slot
  BY DEF PinsInv, PathTypes, OneOwner, Occupied
<1>2. Leaves(r)
  BY <1>1, OthersLeft
<1>3. LeavesBounce(t)
  BY <1>1 DEF Alters
<1> QED
  BY <1>2, <1>3 DEF Steady

\* The request in hand, while a command for slot s is carried out.
LEMMA ProgressKept ==
  ASSUME PinsInv, FieldsInv, RestTyped, ChunkInv, Polling, Addressable, NullIsNoData,
         RequestsApart, NEW s \in Occupied, Placed(s), Alters(s), Progress,
         UNCHANGED <<ask, pc, cur, done>>, ChunkBack' <=> ChunkBack,
         pc # "loop" => io'[cur].length = io[cur].length
  PROVE  Progress'
<1> SUFFICES ASSUME pc # "loop"
             PROVE  IF ask[cur].cmd = "UNMAP" THEN ChunkBack => Discarded(cur)'
                                              ELSE Moved(cur, Back)'
  BY DEF ProgressIs, Progress, Back
<1> PICK r, n : r = cur /\ n = Back
  OBVIOUS
<1>1. r \in Req /\ ask[r] # NULL /\ cur' = r /\ Back' = n
  BY DEF PinsInv, PathTypes, OneOwner, Back
<1>2. inflight[s].ioreq = r => ~ChunkBack
  BY DEF PinsInv, OneOwner, ChunkBack, Occupied
<1>3. inflight[s].ioreq # r => Leaves(r)
  BY <1>1, OthersLeft
<1>4. CASE ask[r].cmd = "UNMAP"
  <2>1. ChunkBack => Discarded(r)'
    BY <1>2, <1>3, <1>4, DiscardedLeft DEF Progress
  <2>2. Discarded(cur)' <=> Discarded(r)'
    BY <1>1 DEF Discarded, BlocksOf, InRange, AskedOffset
  <2> QED
    BY <1>4, <2>1, <2>2
<1>5. CASE ask[r].cmd # "UNMAP"
  <2>1. /\ ask[r] \in Shapes[r] /\ n \in Nat /\ n <= ask[r].length /\ Moved(r, n)
    BY <1>5, BackIs, ProgressIs
  <2>2. CASE inflight[s].ioreq # r
    <3>1. Moved(r, n)'
      BY <1>1, <1>3, <1>5, <2>1, <2>2, MovedLeft
    <3>2. Moved(cur, Back)' <=> Moved(r, n)'
      BY <1>1 DEF Moved, AskedOffset
    <3> QED
      BY <1>5, <3>1, <3>2
  <2>3. CASE inflight[s].ioreq = r
    <3>1. n = done
      BY <1>2, <2>3 DEF Back
    <3>2. Moved(r, n)'
      BY <1>5, <2>1, <2>3, <3>1, MovedBefore
    <3>3. Moved(cur, Back)' <=> Moved(r, n)'
      BY <1>1 DEF Moved, AskedOffset
    <3> QED
      BY <1>5, <3>2, <3>3
  <2> QED
    BY <2>2, <2>3
<1> QED
  BY <1>4, <1>5

LEMMA DataController ==
  ASSUME PinsInv, FieldsInv, HeldInv, RestTyped, ChunkInv, AnswersInv, DataInv,
         Addressable, NullIsNoData, FramesApart, RequestsApart, giveups = 0, Controller
  PROVE  DataInv'
<1>1. PICK c \in issued, ok \in BOOLEAN :
        /\ Post(c, ok)
        /\ IF ok THEN Read(c) \/ Write(c) \/ Discard(c) ELSE UNCHANGED <<mem, disk>>
  BY DEF Controller, Read, Write, Discard, Fail
<1> PICK s : s = c.cid
  OBVIOUS
<1>2. /\ issued' = issued \ {c} /\ cq' = Append(cq, [cid |-> s, ok |-> ok])
      /\ UNCHANGED <<ask, io, io_Error, pc, cur, done, slot, inflight, dsm_buf, giveups>>
  BY <1>1 DEF Post, reqVars, taskVars, pathVars
<1>3. OneEach /\ s \in Occupied /\ s \in Slot /\ Placed(s)
  BY DEF HeldInv, OneEach, DataInv, Occupied
<1>4. MediaTyped' /\ Alters(s) /\ (ok => Carried(s)')
  <2>1. CASE ok
    BY <1>1, <1>2, <1>3, <2>1, CarriedOut
  <2>2. CASE ~ok
    BY <1>1, <2>2 DEF DataInv, MediaTyped, Alters, LeavesBounce
  <2> QED
    BY <2>1, <2>2
<1>5. \A r : Kept(r)
  BY <1>2 DEF Kept
<1>6. \A t \in Occupied : Placed(t) /\ Placed(t)' /\ (t # s => Steady(t))
  BY <1>2, <1>3, <1>4, <1>5, RestSteady, PlacedStays DEF DataInv
<1>7. \A d \in issued' : CommandPlaced(d)'
  <2> SUFFICES ASSUME NEW d \in issued'
               PROVE  CommandPlaced(d)'
    OBVIOUS
  <2>1. d \in issued /\ d.cid \in Occupied /\ d.cid # s
    BY <1>2, <1>3 DEF OneEach
  <2>2. CommandPlaced(d) /\ Placed(d.cid) /\ Steady(d.cid)
    BY <1>6, <2>1 DEF DataInv
  <2> QED
    BY <1>2, <2>1, <2>2, CommandStays
<1>8. CompletionsCarried'
  <2> DEFINE Entry == [cid : Slot, ok : BOOLEAN]
             e == [cid |-> s, ok |-> ok]
  <2>1. e \in Entry /\ e.cid = s /\ e.ok = ok
    BY <1>3
  <2>2. cq \in Seq(Entry)
    BY DEF PinsInv, PathTypes
  <2>3. cq' = Append(cq, e)
    BY <1>2
  <2> HIDE DEF Entry, e
  <2>4. /\ Len(cq) \in Nat /\ cq'[Len(cq) + 1] = e
        /\ \A k \in DOMAIN cq : cq'[k] = cq[k]
        /\ \A k \in DOMAIN cq' : k \in DOMAIN cq \/ k = Len(cq) + 1
    <3>1. /\ Len(cq) \in Nat /\ Len(cq') = Len(cq) + 1 /\ cq'[Len(cq) + 1] = e
          /\ \A k \in DOMAIN cq : cq'[k] = cq[k]
          /\ DOMAIN cq = 1 .. Len(cq) /\ DOMAIN cq' = 1 .. Len(cq) + 1
      BY <2>1, <2>2, <2>3
    <3>2. \A k \in DOMAIN cq' : k \in DOMAIN cq \/ k = Len(cq) + 1
      BY <3>1
    <3> QED
      BY <3>1, <3>2
  <2> SUFFICES ASSUME NEW k \in DOMAIN cq', NEW x, x = cq'[k], x.ok
               PROVE  Carried(x.cid)'
    BY CompletionsThen
  <2>5. CASE k \in DOMAIN cq
    <3>1. x.cid \in Occupied /\ x.cid # s /\ Carried(x.cid)
      BY <1>3, <2>4, <2>5 DEF OneEach, DataInv, CompletionsCarried
    <3> QED
      BY <1>6, <3>1, CarriedStays
  <2>6. CASE k = Len(cq) + 1
    BY <1>4, <2>1, <2>4, <2>6
  <2> QED
    BY <2>4, <2>5, <2>6
<1>9. Progress'
  <2>1. ChunkBack' <=> ChunkBack
    BY <1>2 DEF ChunkBack
  <2>2. Progress /\ Polling
    BY DEF DataInv, AnswersInv
  <2> QED
    BY <1>2, <1>3, <1>4, <2>1, <2>2, ProgressKept
<1>10. Occupied' = Occupied
  BY <1>2 DEF Occupied
<1> QED
  BY <1>2, <1>4, <1>6, <1>7, <1>8, <1>9, <1>10 DEF DataInv

\* What slot s has carried is with its owner, or on the disk.
HandedOver(s) ==
  LET i == inflight[s]
  IN  IF ask[i.ioreq].cmd = "UNMAP"
      THEN \A b \in BlocksOf(ask[i.ioreq]) : disk'[b] = -1
      ELSE \A k \in 0 .. i.len - 1 : /\ BlockAt(s) + k < DiskSize
                                     /\ disk'[BlockAt(s) + k] = mem'[Phys(i.buf + k)]

LEMMA HarvestIs ==
  ASSUME PinsInv, FieldsInv, HeldInv, DataInv, Addressable, NullIsNoData, FramesApart,
         giveups = 0, Harvest, NEW s, s = Head(cq).cid, NEW ok, ok = Head(cq).ok,
         NEW r, r = inflight[s].ioreq
  PROVE  /\ 1 \in DOMAIN cq /\ s = cq[1].cid /\ ok = cq[1].ok /\ ok \in BOOLEAN
         /\ s \in Occupied /\ s \in Slot /\ Placed(s) /\ r \in Req /\ r # NULL
         /\ inflight' = [inflight EXCEPT ![s] = FreeInflight]
         /\ io_Error' = [io_Error EXCEPT ![r] = IF ok THEN "none" ELSE "failed"]
         /\ replied' = IF inflight[s].suppress THEN replied ELSE replied \cup {r}
         /\ UNCHANGED <<ask, pc, cur, done, slot, issued, dsm_buf, giveups, disk>>
         /\ cq' = Tail(cq) /\ MediaTyped' /\ Alters(s) /\ (ok => HandedOver(s))
<1>1. PathTypes /\ OneEach
  BY DEF PinsInv, HeldInv
<1>2. 1 \in DOMAIN cq /\ s = cq[1].cid /\ ok = cq[1].ok /\ ok \in BOOLEAN
  <2> DEFINE Entry == [cid : Slot, ok : BOOLEAN]
  <2>1. /\ cq # <<>> /\ cq \in Seq(Entry)
        /\ \A e \in Entry : e.cid \in Slot /\ e.ok \in BOOLEAN
    BY Zenon, <1>1 DEF Harvest, PathTypes
  <2> HIDE DEF Entry
  <2> QED
    BY <2>1
<1>3. s \in Occupied /\ s \in Slot /\ Placed(s) /\ r \in Req /\ r # NULL
  BY <1>1, <1>2 DEF OneEach, Occupied, PathTypes, DataInv
<1> PICK i, a : i = inflight[s] /\ a = ask[r]
  OBVIOUS
<1>4. /\ inflight' = [inflight EXCEPT ![s] = FreeInflight]
      /\ io_Error' = [io_Error EXCEPT ![r] = IF ok THEN "none" ELSE "failed"]
      /\ replied' = IF inflight[s].suppress THEN replied ELSE replied \cup {r}
      /\ mem' = IF i.bounce /\ ~i.write /\ ok THEN CopyOut(BouncePhys(s), i.buf, i.len)
                                              ELSE mem
      /\ dsm_buf' = dsm_buf
  BY Zenon, <1>3 DEF Harvest
<1>5. UNCHANGED <<ask, pc, cur, done, slot, issued, giveups, disk>> /\ cq' = Tail(cq)
  BY Zenon DEF Harvest, taskVars
<1>6. ok => Carried(s)
  BY <1>2 DEF DataInv, CompletionsCarried
<1>7. MediaTyped' /\ Alters(s) /\ (ok => HandedOver(s))
  <2>1. CASE i.bounce /\ ~i.write /\ ok
    <3>1. a.cmd # "UNMAP" /\ a.cmd \notin Writes
      BY Zenon, <1>3, <2>1 DEF Placed
    <3>2. /\ DOMAIN mem' = 0 .. MemSize - 1
          /\ \A k \in 0 .. i.len - 1 : mem'[Phys(i.buf + k)] = mem[BouncePhys(s) + k]
          /\ \A x \in 0 .. MemSize - 1 :
               (\A k \in 0 .. i.len - 1 : Phys(i.buf + k) # x) => mem'[x] = mem[x]
      <4>1. /\ MediaTyped /\ ask[i.ioreq].cmd # "UNMAP"
            /\ mem' = CopyOut(BouncePhys(s), i.buf, i.len)
        BY <1>4, <2>1, <3>1 DEF DataInv
      <4>2. /\ PinsInv /\ FieldsInv /\ Addressable /\ NullIsNoData /\ FramesApart
            /\ i = inflight[s] /\ s \in Occupied /\ Placed(s)
        BY <1>3
      <4> QED
        BY ONLY <4>1, <4>2, CopyOutIs
    <3>3. Reads(a)
      BY <3>1 DEF Reads
    <3>4. Alters(s)
      BY <1>3, <1>5, <3>2, <3>3, AltersPlaces
    <3>5. HandedOver(s)
      <4>1. \A k \in 0 .. i.len - 1 : /\ BlockAt(s) + k < DiskSize
                                      /\ disk[BlockAt(s) + k] = mem[BouncePhys(s) + k]
        BY <1>6, <2>1, <3>1 DEF Carried, Place
      <4> QED
        BY <1>5, <3>1, <3>2, <4>1 DEF HandedOver
    <3> QED
      BY <1>5, <3>2, <3>4, <3>5 DEF DataInv, MediaTyped
  <2>2. CASE ~(i.bounce /\ ~i.write /\ ok)
    <3>1. mem' = mem
      BY <1>4, <2>2
    <3>2. MediaTyped' /\ Alters(s)
      BY <1>5, <3>1 DEF DataInv, MediaTyped, Alters, LeavesBounce
    <3>3. ASSUME ok
          PROVE  HandedOver(s)
      <4>1. CASE a.cmd = "UNMAP"
        BY <1>5, <1>6, <3>3, <4>1 DEF HandedOver, Carried, Discarded
      <4>2. CASE a.cmd # "UNMAP"
        <5>1. \A k : (IF i.write THEN Phys(i.buf + k) ELSE Place(s, k)) = Phys(i.buf + k)
          BY <2>2, <3>3 DEF Place
        <5> QED
          BY Zenon, <1>5, <1>6, <3>1, <3>3, <4>2, <5>1 DEF HandedOver, Carried
      <4> QED
        BY <4>1, <4>2
    <3> QED
      BY <3>2, <3>3
  <2> QED
    BY <2>1, <2>2
<1> QED
  BY <1>2, <1>3, <1>4, <1>5, <1>7

LEMMA MovedThen ==
  ASSUME NEW r, NEW n \in Nat, ask'[r].data \in Nat,
         \A k \in 0 .. n - 1 :
           /\ AskedOffset(ask'[r]) + k < DiskSize
           /\ disk'[AskedOffset(ask'[r]) + k] = mem'[Phys(ask'[r].data + k)]
  PROVE  Moved(r, n)'
BY DEF Moved

\* The n cells from b and u on are moved when the step is over; with them, the
\* request's first d + n.
Arrived(b, u, n) ==
  \A k \in 0 .. n - 1 : b + k < DiskSize /\ disk'[b + k] = mem'[Phys(u + k)]

LEMMA MovedOn ==
  ASSUME NEW r, NEW off \in Nat, NEW at \in Nat, NEW d \in Nat, NEW n \in Nat,
         AskedOffset(ask'[r]) = off, ask'[r].data = at, Moved(r, d)',
         NEW b, NEW u, b = off + (u - at), u = at + d,
         Arrived(b, u, n)
  PROVE  Moved(r, d + n)'
<1> PICK total \in Nat : total = d + n
  OBVIOUS
<1>1. \A k \in 0 .. d - 1 : off + k < DiskSize /\ disk'[off + k] = mem'[Phys(at + k)]
  BY DEF Moved
<1>2. ASSUME NEW k \in 0 .. total - 1
      PROVE  off + k < DiskSize /\ disk'[off + k] = mem'[Phys(at + k)]
  <2>1. CASE k < d
    BY <1>1, <2>1
  <2>2. CASE k >= d
    <3> PICK m \in 0 .. n - 1 : k = d + m
      BY <2>2
    <3>1. b + m < DiskSize /\ disk'[b + m] = mem'[Phys(u + m)]
      BY DEF Arrived
    <3>2. b + m = off + k /\ u + m = at + k
      BY ONLY off \in Nat, at \in Nat, d \in Nat, m \in 0 .. n - 1, n \in Nat,
              k = d + m, b = off + (u - at), u = at + d
    <3> QED
      BY <3>1, <3>2
  <2> QED
    BY <2>1, <2>2
<1>3. Moved(r, total)'
  BY <1>2, MovedThen
<1> QED
  BY <1>3

\* The chunk that is polled for comes back.
LEMMA ProgressHarvest ==
  ASSUME PinsInv, FieldsInv, HeldInv, RestTyped, ChunkInv, Polling, DataInv,
         Addressable, NullIsNoData, FramesApart, RequestsApart, giveups = 0, Harvest
  PROVE  Progress'
<1> PICK s, ok, r : s = Head(cq).cid /\ ok = Head(cq).ok /\ r = inflight[s].ioreq
  OBVIOUS
<1>1. /\ s \in Occupied /\ s \in Slot /\ Placed(s) /\ r \in Req /\ r # NULL
      /\ inflight' = [inflight EXCEPT ![s] = FreeInflight]
      /\ io_Error' = [io_Error EXCEPT ![r] = IF ok THEN "none" ELSE "failed"]
      /\ UNCHANGED <<ask, pc, cur, done, slot, disk>>
      /\ Alters(s) /\ (ok => HandedOver(s))
  BY HarvestIs
<1>2. /\ PathTypes /\ OneOwner /\ NULL \notin Req /\ io_Error \in [Req -> Errors]
      /\ \A q \in Req : io'[q].length = io[q].length
      /\ Progress
  BY TransferAssumption, HarvestKeepsLength DEF PinsInv, RestTyped, AnswersTyped, DataInv
<1>3. /\ \A t \in Slot : inflight'[t] = IF t = s THEN FreeInflight ELSE inflight[t]
      /\ io_Error'[r] = IF ok THEN "none" ELSE "failed"
      /\ \A q \in Req : q # r => io_Error'[q] = io_Error[q]
  BY <1>1, <1>2 DEF PathTypes
<1>4. CASE pc # "loop" /\ r = cur
  <2>1. pc = "poll" /\ s = slot /\ ~ChunkBack
    BY <1>1, <1>2, <1>4 DEF OneOwner, ChunkBack
  <2>2. ChunkBack' <=> ok
    BY <1>1, <1>3, <1>4, <2>1 DEF ChunkBack, FreeInflight
  <2>3. CASE ask[r].cmd = "UNMAP"
    <3>1. ok => Discarded(r)'
      <4>1. BlocksOf(ask[r])' = BlocksOf(ask[r])
        BY <1>1 DEF BlocksOf, InRange, AskedOffset
      <4> QED
        BY <1>1, <2>3, <4>1 DEF HandedOver, Discarded
    <3>2. Discarded(cur)' <=> Discarded(r)'
      BY <1>1, <1>4 DEF Discarded, BlocksOf, InRange, AskedOffset
    <3> QED
      BY <1>1, <1>4, <2>2, <2>3, <3>1, <3>2 DEF Progress
  <2>4. CASE ask[r].cmd # "UNMAP"
    <3> PICK a, i, d, n : a = ask[r] /\ i = inflight[s] /\ d = done /\ n = i.len
      OBVIOUS
    <3>1. Moved(r, d)
      BY <1>2, <1>4, <2>1, <2>4 DEF Progress
    <3>2. Moved(r, d)'
      BY <1>1, <1>4, <2>4, <3>1, MovedBefore
    <3>3. /\ n \in Nat \ {0} /\ i.buf \in Nat /\ a.data \in Nat /\ AskedOffset(a) \in Nat
          /\ BlockAt(s) = AskedOffset(a) + (i.buf - a.data)
      BY <1>1, <2>4, InSlot
    <3>4. d \in Nat /\ i.buf = a.data + d /\ n = io[r].length
      BY <1>1, <1>4, <2>4 DEF FieldsInv, Placed
    <3>5. Back' = IF ok THEN d + n ELSE d
      BY <1>1, <1>2, <1>4, <2>2, <3>4 DEF Back
    <3> PICK off, at : off = AskedOffset(a) /\ at = a.data
      OBVIOUS
    <3>6. AskedOffset(ask[r])' = off /\ ask'[r] = a
      BY <1>1 DEF AskedOffset
    <3>7. ASSUME ok
          PROVE  Moved(r, d + n)'
      <4> PICK b, u : b = BlockAt(s) /\ u = i.buf
        OBVIOUS
      <4>1. Arrived(b, u, n)
        BY Zenon, <1>1, <2>4, <3>7 DEF HandedOver, Arrived
      <4>2. AskedOffset(ask'[r]) = off /\ ask'[r].data = at /\ Moved(r, d)'
        BY <3>2, <3>6
      <4>3. /\ off \in Nat /\ at \in Nat /\ d \in Nat /\ n \in Nat
            /\ b = off + (u - at) /\ u = at + d
        BY Zenon, <3>3, <3>4
      <4> QED
        BY ONLY <4>1, <4>2, <4>3, MovedOn
    <3>8. Moved(r, IF ok THEN d + n ELSE d)'
      BY <3>2, <3>7
    <3>9. Moved(cur, Back)' <=> Moved(r, IF ok THEN d + n ELSE d)'
      BY <1>1, <1>4, <3>5 DEF Moved, AskedOffset
    <3> QED
      BY <1>1, <1>4, <2>4, <3>8, <3>9 DEF Progress, Back
  <2> QED
    BY <2>3, <2>4
<1>5. CASE pc # "loop" /\ r # cur
  <2>1. cur \in Req /\ (ChunkBack' <=> ChunkBack)
    <3>1. cur \in Req
      BY <1>2, <1>5 DEF PathTypes
    <3>2. pc = "poll" => slot # s
      BY <1>1, <1>5 DEF Polling
    <3> QED
      BY <1>1, <1>2, <1>3, <1>5, <3>1, <3>2 DEF ChunkBack, PathTypes
  <2> QED
    BY <1>1, <1>2, <2>1, ProgressKept
<1>6. CASE pc = "loop"
  BY <1>1, <1>6 DEF Progress
<1> QED
  BY <1>4, <1>5, <1>6

LEMMA DataHarvest ==
  ASSUME PinsInv, FieldsInv, HeldInv, RestTyped, ChunkInv, AnswersInv, DataInv,
         Addressable, NullIsNoData, FramesApart, RequestsApart, giveups = 0, Harvest
  PROVE  DataInv'
<1> PICK s, ok, r : s = Head(cq).cid /\ ok = Head(cq).ok /\ r = inflight[s].ioreq
  OBVIOUS
<1>1. /\ 1 \in DOMAIN cq /\ s = cq[1].cid
      /\ s \in Occupied /\ s \in Slot /\ Placed(s) /\ r \in Req /\ r # NULL
      /\ inflight' = [inflight EXCEPT ![s] = FreeInflight]
      /\ UNCHANGED <<ask, pc, cur, done, slot, issued, dsm_buf, giveups>>
      /\ cq' = Tail(cq) /\ MediaTyped' /\ Alters(s)
  BY HarvestIs
<1>2. PathTypes /\ OneEach
  BY DEF PinsInv, HeldInv
<1>3. \A t \in Slot : inflight'[t] = IF t = s THEN FreeInflight ELSE inflight[t]
  BY <1>1, <1>2 DEF PathTypes
<1>4. Occupied' = Occupied \ {s}
  BY <1>1, <1>3 DEF Occupied, FreeInflight
<1>5. \A q \in Req : Kept(q)
  BY <1>1, HarvestKeepsLength DEF Kept
<1>6. ASSUME NEW t \in Occupied, t # s
      PROVE  Placed(t) /\ Placed(t)' /\ Steady(t)
  <2>1. t \in Slot /\ inflight'[t] = inflight[t] /\ inflight[t].ioreq \in Req
    BY <1>2, <1>3, <1>6 DEF Occupied, PathTypes
  <2>2. Placed(t) /\ Kept(inflight[t].ioreq)
    BY <1>5, <2>1 DEF DataInv
  <2> QED
    BY <1>1, <1>6, <2>1, <2>2, PlacedStays, RestSteady
<1>7. \A d \in issued' : CommandPlaced(d)'
  <2> SUFFICES ASSUME NEW d \in issued
               PROVE  CommandPlaced(d)'
    BY <1>1
  <2>1. d.cid \in Occupied /\ d.cid # s /\ CommandPlaced(d)
    BY <1>1, <1>2 DEF OneEach, DataInv
  <2> QED
    BY <1>1, <1>6, <2>1, CommandStays
<1>8. CompletionsCarried'
  <2>1. \A j \in DOMAIN cq' : j + 1 \in DOMAIN cq /\ cq'[j] = cq[j + 1] /\ j + 1 # 1
    <3> DEFINE Entry == [cid : Slot, ok : BOOLEAN]
    <3>1. cq # <<>> /\ cq' = Tail(cq) /\ cq \in Seq(Entry)
      BY <1>1, <1>2 DEF PathTypes
    <3> HIDE DEF Entry
    <3> QED
      BY <3>1
  <2> SUFFICES ASSUME NEW k \in DOMAIN cq', NEW x, x = cq'[k], x.ok
               PROVE  Carried(x.cid)'
    BY CompletionsThen
  <2>2. x.cid \in Occupied /\ x.cid # s /\ Carried(x.cid)
    <3>1. k + 1 \in DOMAIN cq /\ x = cq[k + 1] /\ k + 1 # 1
      BY <2>1
    <3> QED
      BY <1>1, <1>2, <3>1 DEF OneEach, DataInv, CompletionsCarried
  <2> QED
    BY <1>6, <2>2, CarriedStays
<1>9. Progress'
  BY ProgressHarvest DEF AnswersInv
<1> QED
  BY <1>1, <1>4, <1>6, <1>7, <1>8, <1>9 DEF DataInv

-----------------------------------------------------------------------------
(* New commands.                                                           *)

\* A step leaves what is under way alone.
Undisturbed ==
  /\ cq' = cq
  /\ \A s \in Occupied : /\ Steady(s)
                         /\ dsm_buf' = dsm_buf \/ ask[inflight[s].ioreq].cmd # "UNMAP"

LEMMA UnderwayPlaced ==
  ASSUME PinsInv, FieldsInv, HeldInv, DataInv, Addressable, NullIsNoData, giveups = 0,
         Undisturbed
  PROVE  /\ \A s \in Occupied : Placed(s)'
         /\ \A c \in issued : CommandPlaced(c)'
         /\ CompletionsCarried'
<1>1. /\ OneEach /\ (\A s \in Occupied : Placed(s)) /\ CompletionsCarried
      /\ \A c \in issued : CommandPlaced(c)
  BY DEF HeldInv, DataInv
<1>2. \A s \in Occupied : Placed(s)'
  BY <1>1, PlacedStays DEF Undisturbed, Steady
<1>3. \A c \in issued : CommandPlaced(c)'
  BY <1>1, CommandStays DEF OneEach, Undisturbed
<1>4. CompletionsCarried'
  <2> SUFFICES ASSUME NEW k \in DOMAIN cq', NEW x, x = cq'[k], x.ok
               PROVE  Carried(x.cid)'
    BY CompletionsThen
  <2>1. x.cid \in Occupied /\ Carried(x.cid)
    BY <1>1 DEF OneEach, CompletionsCarried, Undisturbed
  <2> QED
    BY <1>1, <2>1, CarriedStays DEF Undisturbed
<1> QED
  BY <1>2, <1>3, <1>4

\* Copying into a bounce buffer changes that buffer only.
LEMMA BounceFilled ==
  ASSUME MediaTyped, FramesApart, NEW t \in Slot, NEW v \in Nat, NEW len \in Nat,
         len <= BounceSize, v + len <= UserSize, mem' = CopyIn(v, BouncePhys(t), len)
  PROVE  /\ DOMAIN mem' = 0 .. MemSize - 1
         /\ \A u \in 0 .. UserSize - 1 : mem'[Phys(u)] = mem[Phys(u)]
         /\ \A s \in Slot : s # t => LeavesBounce(s)
         /\ \A k \in 0 .. len - 1 : mem'[BouncePhys(t) + k] = mem'[Phys(v + k)]
<1>1. /\ DOMAIN mem' = 0 .. MemSize - 1
      /\ \A k \in 0 .. len - 1 : mem'[BouncePhys(t) + k] = mem[Phys(v + k)]
      /\ \A x \in 0 .. MemSize - 1 :
           (\A k \in 0 .. BounceSize - 1 : BouncePhys(t) + k # x) => mem'[x] = mem[x]
  BY CopyInIs
<1>2. UserSize \in Nat /\ MemSize \in Nat /\ UserSize <= MemSize /\ BounceSize \in Nat
  BY MemSizes
<1>3. ASSUME NEW u \in 0 .. UserSize - 1
      PROVE  mem'[Phys(u)] = mem[Phys(u)]
  <2> PICK x : x = Phys(u)
    OBVIOUS
  <2>1. x \in 0 .. UserSize - 1
    BY <1>3, PhysIn
  <2>2. \A k \in 0 .. BounceSize - 1 : BouncePhys(t) + k # x
    <3>1. \A k \in 0 .. BounceSize - 1 : BouncePhys(t) + k \in UserSize .. MemSize - 1
      BY BounceIn
    <3> QED
      BY <1>2, <2>1, <3>1
  <2>3. x \in 0 .. MemSize - 1
    BY <1>2, <2>1
  <2> QED
    BY <1>1, <2>2, <2>3
<1>4. ASSUME NEW s \in Slot, s # t
      PROVE  LeavesBounce(s)
  <2> SUFFICES ASSUME NEW k \in 0 .. BounceSize - 1, NEW x, x = BouncePhys(s) + k
               PROVE  mem'[x] = mem[x]
    BY DEF LeavesBounce
  <2>1. x \in UserSize .. MemSize - 1
    BY <1>4, BounceIn
  <2>2. \A m \in 0 .. BounceSize - 1 : BouncePhys(t) + m # x
    BY <1>4, BounceApart
  <2>3. x \in 0 .. MemSize - 1
    BY <1>2, <2>1
  <2> QED
    BY <1>1, <2>2, <2>3
<1>5. \A k \in 0 .. len - 1 : v + k \in 0 .. UserSize - 1
  BY <1>2
<1> QED
  BY <1>1, <1>3, <1>4, <1>5

\* A new command, in slot t.
LEMMA DataCommand ==
  ASSUME PinsInv, FieldsInv, HeldInv, DataInv, Addressable, NullIsNoData, giveups = 0,
         NEW t \in Slot, t \notin Occupied, NEW c, c.cid = t, NEW i,
         inflight' = [inflight EXCEPT ![t] = i], issued' = issued \cup {c},
         Undisturbed, MediaTyped', Placed(t)', CommandPlaced(c)', Progress'
  PROVE  DataInv'
<1>1. /\ \A s \in Occupied : Placed(s)'
      /\ \A d \in issued : CommandPlaced(d)'
      /\ CompletionsCarried'
  BY UnderwayPlaced
<1>2. Occupied' \subseteq Occupied \cup {t}
  <2>1. \A s \in Slot : s # t => inflight'[s] = inflight[s]
    BY DEF PinsInv, PathTypes
  <2> QED
    BY <2>1 DEF Occupied
<1>3. \A s \in Occupied' : Placed(s)'
  BY <1>1, <1>2
<1>4. \A d \in issued' : CommandPlaced(d)'
  BY <1>1
<1> QED
  BY <1>1, <1>3, <1>4 DEF DataInv

\* No caller's cell and no block changes.
CallersLeft ==
  /\ \A v \in 0 .. UserSize - 1 : mem'[Phys(v)] = mem[Phys(v)]
  /\ disk' = disk

LEMMA CallersLeftThen ==
  ASSUME PinsInv, FieldsInv, Addressable, NullIsNoData, CallersLeft,
         NEW r \in Req, ask[r] # NULL
  PROVE  Leaves(r)
<1>1. ask[r] \in Shapes[r]
  BY DEF FieldsInv
<1>2. \A v \in CallersOf(ask[r]) : v \in 0 .. UserSize - 1
  <2> PICK a \in Shapes[r] : a = ask[r]
    BY <1>1
  <2> QED
    BY NamesCells
<1> QED
  BY <1>2 DEF Leaves, CallersLeft

\* Of a request without parts that came back, a command is under way.
LEMMA ProgressIssued ==
  ASSUME PinsInv, FieldsInv, RestTyped, ChunkInv, Polling, DataInv, Addressable,
         NullIsNoData, CallersLeft, giveups = 0, pc # "loop", ~ChunkBack, ~ChunkBack',
         ask' = ask, pc' # "loop" => UNCHANGED <<cur, done>>
  PROVE  Progress'
<1> SUFFICES ASSUME pc' # "loop", ask[cur].cmd # "UNMAP"
             PROVE  Moved(cur, done)'
  BY DEF Progress
<1> PICK r, d : r = cur /\ d = done
  OBVIOUS
<1>1. /\ r \in Req /\ ask[r] \in Shapes[r] /\ ask[r] # NULL
      /\ d \in Nat /\ d <= ask[r].length
  BY BackIs DEF Back
<1>2. Moved(r, d)
  BY DEF DataInv, Progress
<1>3. Leaves(r)
  BY <1>1, CallersLeftThen
<1>4. Moved(r, d)'
  BY <1>1, <1>2, <1>3, MovedLeft
<1>5. Moved(cur, done)' <=> Moved(r, d)'
  BY DEF Moved
<1> QED
  BY <1>4, <1>5

\* What SubmitBounce and SubmitDirect write.
LEMMA IssueIs ==
  ASSUME PinsInv, FieldsInv, AnswersInv, SubmitBounce \/ SubmitDirect
  PROVE  /\ pc \in {"submit", "pinned"} /\ UNCHANGED reqVars /\ UNCHANGED <<max_transfer, giveups>>
         /\ ~Misaligned(ask[cur].cmd, io[cur])
         /\ io[cur].length # 0 /\ io[cur].length % BlockSize = 0 /\ io[cur].data # NULL
         /\ \E prp1, rest, bounce, own :
              /\ Issue(prp1, rest, bounce, own)
              /\ bounce => io[cur].length <= BounceSize
              /\ mem' = IF bounce /\ ask[cur].cmd \in Writes
                        THEN CopyIn(io[cur].data, BouncePhys(slot), io[cur].length)
                        ELSE mem
<1>1. /\ pc \in {"submit", "pinned"} /\ UNCHANGED <<max_transfer, giveups>>
      /\ ~Misaligned(ask[cur].cmd, io[cur])
      /\ io[cur].length # 0 /\ io[cur].length % BlockSize = 0 /\ io[cur].data # NULL
  BY DEF SubmitBounce, SubmitDirect, Accepts, WrongLength, configVars, AnswersInv,
     Polling, FieldsInv, PinsInv, Prepared
<1>2. CASE SubmitBounce
  <2>1. /\ UNCHANGED reqVars
        /\ Issue(BouncePhys(slot), BounceRest(slot, io[cur].length), TRUE, FALSE)
        /\ io[cur].length <= BounceSize
        /\ mem' = IF ask[cur].cmd \in Writes
                  THEN CopyIn(io[cur].data, BouncePhys(slot), io[cur].length) ELSE mem
    BY <1>2 DEF SubmitBounce, UseBounce
  <2> QED
    BY <1>1, <2>1
<1>3. CASE SubmitDirect
  <2>1. pc = "pinned" /\ mem' = mem
    BY <1>3 DEF SubmitDirect
  <2>2. \A list \in DmaLists(io[cur]) : ~(Len(DirectRest(list, io[cur])) > MaxPrp)
    BY <2>1, RestFits
  <2>3. UNCHANGED reqVars /\ \E prp1, rest, own : Issue(prp1, rest, FALSE, own)
    BY <1>3, <2>2 DEF SubmitDirect
  <2> QED
    BY <1>1, <2>1, <2>3
<1> QED
  BY <1>2, <1>3

LEMMA DataIssue ==
  ASSUME PinsInv, FieldsInv, HeldInv, RestTyped, RepliesInv, ChunkInv, AnswersInv,
         DataInv, Addressable, NullIsNoData, FramesApart, giveups = 0,
         SubmitBounce \/ SubmitDirect
  PROVE  DataInv'
<1>1. /\ pc \in {"submit", "pinned"} /\ UNCHANGED reqVars /\ UNCHANGED <<max_transfer, giveups>>
      /\ ~Misaligned(ask[cur].cmd, io[cur])
      /\ io[cur].length # 0 /\ io[cur].length % BlockSize = 0 /\ io[cur].data # NULL
  BY IssueIs
<1>2. PICK prp1, rest, bounce, own :
        /\ Issue(prp1, rest, bounce, own)
        /\ bounce => io[cur].length <= BounceSize
        /\ mem' = IF bounce /\ ask[cur].cmd \in Writes
                  THEN CopyIn(io[cur].data, BouncePhys(slot), io[cur].length)
                  ELSE mem
  BY IssueIs
<1> PICK r, a, d, len, buf, off : /\ r = cur /\ a = ask[cur] /\ d = done
                                  /\ len = io[cur].length /\ buf = io[cur].data
                                  /\ off = AskedOffset(ask[cur])
  OBVIOUS
<1>3. /\ r \in Req /\ r # NULL /\ a # NULL /\ a.cmd # "UNMAP"
      /\ off \in Nat /\ d \in Nat /\ len \in Nat /\ a.length \in Nat
      /\ ByteOffset(a.cmd, io[r]) = off + d
      /\ off % BlockSize = 0 /\ d % BlockSize = 0
      /\ a.data # NULL /\ buf = a.data + d
      /\ IF Split(r) THEN len # 0 ELSE len = a.length /\ d = 0
      /\ BlockSize \in Nat \ {0}
  BY <1>1, InHand, TransferAssumption
<1>4. a \in Shapes[r] /\ a.data \in Nat /\ buf \in Nat /\ buf + len <= UserSize
  <2>1. a \in Shapes[r]
    BY <1>3 DEF FieldsInv
  <2>2. a.data \in Nat
    <3> PICK x \in Shapes[r] : x = a
      BY <2>1
    <3>1. InMemory(Fields(x)) /\ Fields(x).data = x.data
      BY <1>3, ShapeTypes DEF Fields
    <3> QED
      BY <1>3, <3>1 DEF InMemory
  <2>3. InMemory(io[cur])
    BY <1>1 DEF FieldsInv
  <2> QED
    BY <1>1, <2>1, <2>2, <2>3 DEF InMemory
<1>5. d + len <= a.length
  <2>1. d \in Nat /\ len \in Nat /\ a.length \in Nat
    BY <1>3
  <2>2. CASE Split(r)
    <3>1. d + len < a.length \/ d + len = a.length
      BY <1>1, <1>3, <2>2 DEF ChunkInv
    <3> QED
      BY <2>1, <3>1
  <2>3. CASE ~Split(r)
    <3>1. d = 0 /\ len = a.length
      BY <1>3, <2>3
    <3> QED
      BY <2>1, <3>1
  <2> QED
    BY <2>2, <2>3
<1> PICK c : c = [cid |-> slot, cmd |-> IF ask[cur].cmd \in Writes THEN "W" ELSE "R",
                  slba |-> ByteOffset(ask[cur].cmd, io[cur]) \div BlockSize,
                  nlb |-> io[cur].length \div BlockSize,
                  prp1 |-> prp1, prp2 |-> Prp2(slot, rest)]
  OBVIOUS
<1> PICK i : i = [ioreq |-> cur, suppress |-> Split(cur), bounce |-> bounce,
                  write |-> ask[cur].cmd \in Writes, buf |-> io[cur].data,
                  len |-> io[cur].length, own |-> own]
  OBVIOUS
<1> PICK t \in Slot : t = slot /\ t \notin Occupied
  BY <1>1 DEF PinsInv, PathTypes, Prepared
<1>6. /\ issued' = issued \cup {c} /\ inflight' = [inflight EXCEPT ![t] = i]
      /\ IF Split(r) THEN pc' = "poll" /\ UNCHANGED <<cur, done, slot>>
                     ELSE pc' = "loop" /\ cur' = NULL
      /\ UNCHANGED <<cq, dsm_buf, disk, ask, io>>
  BY <1>1, <1>2 DEF Issue, Dispatched, reqVars
<1>7. /\ c.cid = t /\ c.cmd = IF a.cmd \in Writes THEN "W" ELSE "R"
      /\ c.slba = (off + d) \div BlockSize
      /\ i.ioreq = r /\ i.bounce = bounce /\ (i.write <=> a.cmd \in Writes)
      /\ i.buf = buf /\ i.len = len
  BY <1>3
<1>8. /\ PathTypes /\ MediaTyped /\ DOMAIN inflight = Slot
      /\ inflight'[t] = i /\ \A s \in Slot : s # t => inflight'[s] = inflight[s]
  BY <1>6 DEF PinsInv, PathTypes, DataInv
<1>9. /\ CallersLeft /\ MediaTyped'
      /\ \A s \in Slot : s # t => LeavesBounce(s)
      /\ bounce /\ a.cmd \in Writes =>
           \A k \in 0 .. len - 1 : mem'[BouncePhys(t) + k] = mem'[Phys(buf + k)]
  <2>1. CASE bounce /\ a.cmd \in Writes
    <3>1. mem' = CopyIn(buf, BouncePhys(t), len) /\ len <= BounceSize
      BY <1>2, <2>1
    <3>2. /\ DOMAIN mem' = 0 .. MemSize - 1
          /\ \A u \in 0 .. UserSize - 1 : mem'[Phys(u)] = mem[Phys(u)]
          /\ \A s \in Slot : s # t => LeavesBounce(s)
          /\ \A k \in 0 .. len - 1 : mem'[BouncePhys(t) + k] = mem'[Phys(buf + k)]
      <4> PICK v \in Nat, n \in Nat : v = buf /\ n = len
        BY <1>3, <1>4
      <4>1. n <= BounceSize /\ v + n <= UserSize /\ mem' = CopyIn(v, BouncePhys(t), n)
        BY <1>4, <3>1
      <4>2. MediaTyped
        BY <1>8
      <4>3. /\ DOMAIN mem' = 0 .. MemSize - 1
            /\ \A u \in 0 .. UserSize - 1 : mem'[Phys(u)] = mem[Phys(u)]
            /\ \A s \in Slot : s # t => LeavesBounce(s)
            /\ \A k \in 0 .. n - 1 : mem'[BouncePhys(t) + k] = mem'[Phys(v + k)]
        BY ONLY <4>1, <4>2, FramesApart, t \in Slot, v \in Nat, n \in Nat, BounceFilled
      <4> QED
        BY <4>3
    <3> QED
      BY <1>6, <1>8, <3>2 DEF CallersLeft, MediaTyped
  <2>2. CASE ~(bounce /\ a.cmd \in Writes)
    <3>1. mem' = mem
      BY <1>2, <2>2
    <3> QED
      BY <1>6, <1>8, <2>2, <3>1 DEF CallersLeft, MediaTyped, LeavesBounce
  <2> QED
    BY <2>1, <2>2
<1>10. Undisturbed
  <2> SUFFICES ASSUME NEW s \in Occupied
               PROVE  Steady(s)
    BY <1>6 DEF Undisturbed
  <2> PICK q : q = inflight[s].ioreq
    OBVIOUS
  <2>1. s \in Slot /\ s # t /\ q \in Req /\ ask[q] # NULL /\ q # r
    BY <1>1, <1>8 DEF Occupied, PathTypes, PinsInv, OneOwner
  <2>2. Leaves(q) /\ LeavesBounce(s)
    BY <1>9, <2>1, CallersLeftThen
  <2>3. Kept(q) /\ inflight'[s] = inflight[s]
    <3>1. cur' \in {r, NULL} /\ q # NULL
      BY <1>6, <2>1, TransferAssumption
    <3> QED
      BY <1>6, <1>8, <2>1, <3>1 DEF Kept
  <2> QED
    BY <2>2, <2>3 DEF Steady
<1>11. Placed(t)'
  <2>1. r = cur' => done' = d
    BY <1>3, <1>6
  <2>2. r # cur' => d = 0
    BY <1>3, <1>6
  <2>3. buf = a.data + (IF r = cur' THEN done' ELSE 0)
    BY <1>3, <1>4, <2>1, <2>2
  <2>4. /\ a.data \in Nat /\ buf \in Nat /\ len \in Nat \ {0}
        /\ a.data <= buf /\ buf + len <= a.data + a.length
    BY <1>1, <1>3, <1>4, <1>5
  <2>5. i.bounce => i.len <= BounceSize
    BY <1>2, <1>7
  <2>6. ask'[i.ioreq] = a /\ io'[i.ioreq].length = len
    BY <1>6, <1>7
  <2>7. inflight'[t].ioreq = r /\ ask'[r] = a /\ io'[r].length = len
    BY <1>7, <1>8, <2>6
  <2>8. a.cmd # "UNMAP" /\ (i.write <=> a.cmd \in Writes) /\ i.buf = buf /\ i.len = len
    BY <1>3, <1>7
  <2> QED
    BY <1>8, <2>3, <2>4, <2>5, <2>7, <2>8 DEF Placed
<1>12. CommandPlaced(c)'
  <2>1. c.slba * BlockSize = off + (buf - a.data)
    <3> PICK b, p : b = off + d /\ p = b \div BlockSize
      OBVIOUS
    <3>1. /\ off \in Int /\ d \in Int /\ BlockSize \in Nat \ {0}
          /\ off % BlockSize = 0 /\ d % BlockSize = 0
      BY <1>3
    <3>2. (off + d) % BlockSize = 0
      BY ONLY <3>1, Multiples
    <3>3. b \in Int /\ b % BlockSize = 0
      BY <1>3, <3>2
    <3>4. p \in Int /\ p * BlockSize = b - (b % BlockSize)
      BY <3>1, <3>3, Quotient
    <3>5. p * BlockSize = b /\ b = off + (buf - a.data)
      BY <1>3, <1>4, <3>3, <3>4
    <3> QED
      BY <1>7, <3>5
  <2>2. BlockAt(t)' = off + (buf - a.data)
    BY <1>6, <1>7, <1>8 DEF BlockAt
  <2>3. Copied(t)'
    BY <1>7, <1>8, <1>9 DEF Copied
  <2>4. ask'[inflight'[t].ioreq] = a
    BY <1>6, <1>7, <1>8
  <2> QED
    BY <1>3, <1>7, <1>8, <2>1, <2>2, <2>3, <2>4 DEF CommandPlaced
<1>13. Progress'
  <2>1. pc # "loop" /\ ~ChunkBack
    BY <1>1 DEF ChunkBack
  <2>2. ~ChunkBack'
    BY <1>3, <1>6, <1>7, <1>8 DEF ChunkBack
  <2>3. ask' = ask /\ (pc' # "loop" => UNCHANGED <<cur, done>>) /\ Polling
    BY <1>6 DEF AnswersInv
  <2> QED
    BY <1>9, <2>1, <2>2, <2>3, ProgressIssued
<1> QED
  BY Zenon, <1>6, <1>7, <1>9, <1>10, <1>11, <1>12, <1>13, DataCommand

LEMMA DataUnmap ==
  ASSUME PinsInv, FieldsInv, HeldInv, RestTyped, ChunkInv, AnswersInv, DataInv,
         Addressable, NullIsNoData, giveups = 0, Unmap
  PROVE  DataInv'
<1> PICK r, a : r = cur /\ a = ask[cur]
  OBVIOUS
<1>1. /\ pc = "dispatch" /\ pc' = "poll" /\ a.cmd = "UNMAP"
      /\ Len(a.ranges) \in 1 .. MaxRanges /\ dsm_buf # NULL
      /\ dsm_buf' = Over(a.ranges, dsm_buf)
      /\ UNCHANGED <<ask, io, cur, done, cq, mem, disk>>
      /\ FreeSlot \in Slot \ Occupied
  BY FreeSlotIsFree DEF Unmap, reqVars
<1>2. r \in Req /\ r # NULL /\ a \in Shapes[r]
  BY <1>1, TransferAssumption DEF PinsInv, PathTypes, OneOwner, FieldsInv
<1> PICK t \in Slot : t = FreeSlot /\ t \notin Occupied
  BY <1>1
<1> PICK c : c = [cid |-> FreeSlot, cmd |-> "DSM", nr |-> Len(ask[cur].ranges) - 1]
  OBVIOUS
<1> PICK i : i = [FreeInflight EXCEPT !.ioreq = cur, !.suppress = TRUE]
  OBVIOUS
<1>3. /\ issued' = issued \cup {c} /\ inflight' = [inflight EXCEPT ![t] = i] /\ slot' = t
      /\ c.cid = t /\ c.cmd = "DSM" /\ c.nr = Len(a.ranges) - 1
      /\ i.ioreq = r /\ ~i.bounce
  BY DEF Unmap, FreeInflight
<1>4. /\ PathTypes /\ MediaTyped
      /\ inflight'[t] = i /\ \A s \in Slot : s # t => inflight'[s] = inflight[s]
  BY <1>3 DEF PinsInv, PathTypes, DataInv
<1>5. CallersLeft /\ MediaTyped'
  BY <1>1, <1>4 DEF CallersLeft, MediaTyped
<1>6. Undisturbed
  <2> SUFFICES ASSUME NEW s \in Occupied
               PROVE  Steady(s) /\ ask[inflight[s].ioreq].cmd # "UNMAP"
    BY <1>1 DEF Undisturbed
  <2> PICK q : q = inflight[s].ioreq
    OBVIOUS
  <2>1. s \in Slot /\ s # t /\ q \in Req /\ ask[q] # NULL /\ q # r
    BY <1>1, <1>4 DEF Occupied, PathTypes, PinsInv, OneOwner
  <2>2. Leaves(q) /\ LeavesBounce(s)
    BY <1>1, <1>5, <2>1, CallersLeftThen DEF LeavesBounce
  <2>3. Kept(q) /\ inflight'[s] = inflight[s]
    BY <1>1, <1>4, <2>1 DEF Kept
  <2>4. ask[q].cmd # "UNMAP"
    BY <2>1 DEF AnswersInv, Polling
  <2> QED
    BY <2>2, <2>3, <2>4 DEF Steady
<1>7. Placed(t)'
  <2>1. ask'[inflight'[t].ioreq] = a
    BY <1>1, <1>3, <1>4
  <2> QED
    BY <1>1, <1>3, <1>4, <2>1 DEF Placed
<1>8. CommandPlaced(c)'
  <2>1. ask'[inflight'[t].ioreq] = a
    BY <1>1, <1>3, <1>4
  <2>2. \A k \in 1 .. Len(a.ranges) : dsm_buf'[k] = a.ranges[k]
    <3>1. a.ranges \in Seq(Seq(Nat)) /\ dsm_buf \in Seq(Seq(Nat))
      BY <1>1, <1>2, AskedTypes DEF RestTyped
    <3> PICK ranges, old, T : ranges = a.ranges /\ old = dsm_buf /\ T = Seq(Nat)
      OBVIOUS
    <3>2. ranges \in Seq(T) /\ old \in Seq(T)
      BY <3>1
    <3>3. \A k \in 1 .. Len(ranges) : Over(ranges, old)[k] = ranges[k]
      BY ONLY <3>2, OverIs
    <3> QED
      BY <1>1, <3>3
  <2>3. c.nr + 1 = Len(a.ranges)
    <3>1. Len(a.ranges) \in Int
      BY <1>1, TransferAssumption
    <3> QED
      BY <1>3, <3>1
  <2> QED
    BY <1>1, <1>3, <2>1, <2>2, <2>3 DEF CommandPlaced
<1>9. Progress'
  <2>1. pc # "loop" /\ ~ChunkBack /\ ~ChunkBack' /\ Polling
    BY ZenonT(40), <1>1, <1>2, <1>3, <1>4 DEF ChunkBack, AnswersInv
  <2> QED
    BY <1>1, <1>5, <2>1, ProgressIssued
<1> QED
  BY <1>3, <1>5, <1>6, <1>7, <1>8, <1>9, DataCommand

-----------------------------------------------------------------------------
(* Steps that write no command and move no data.                           *)

LEMMA DataRest ==
  ASSUME PinsInv, FieldsInv, HeldInv, DataInv, Addressable, NullIsNoData, giveups = 0,
         UNCHANGED <<mem, disk, issued, cq, inflight, dsm_buf>>,
         \A s \in Occupied : Kept(inflight[s].ioreq), Progress'
  PROVE  DataInv'
<1>1. CallersLeft /\ MediaTyped'
  BY DEF CallersLeft, MediaTyped, DataInv
<1>2. Undisturbed
  <2> SUFFICES ASSUME NEW s \in Occupied
               PROVE  Steady(s)
    BY DEF Undisturbed
  <2> PICK q : q = inflight[s].ioreq
    OBVIOUS
  <2>1. q \in Req /\ ask[q] # NULL /\ Kept(q)
    BY DEF Occupied, PathTypes, PinsInv, OneOwner
  <2>2. Leaves(q) /\ LeavesBounce(s)
    BY <1>1, <2>1, CallersLeftThen DEF LeavesBounce
  <2> QED
    BY <2>1, <2>2 DEF Steady
<1>3. /\ \A s \in Occupied : Placed(s)'
      /\ \A c \in issued : CommandPlaced(c)'
      /\ CompletionsCarried'
  BY <1>2, UnderwayPlaced
<1>4. Occupied' = Occupied
  BY DEF Occupied
<1> QED
  BY <1>1, <1>3, <1>4 DEF DataInv

LEMMA ProgressStays ==
  ASSUME Progress, UNCHANGED <<mem, disk, pc, cur, done>>, ChunkBack' <=> ChunkBack,
         NEW r, r = cur, pc # "loop" => ask'[r] = ask[r] /\ io'[r].length = io[r].length
  PROVE  Progress'
<1> SUFFICES ASSUME pc # "loop"
             PROVE  IF ask'[r].cmd = "UNMAP" THEN ChunkBack' => Discarded(r)'
                    ELSE Moved(r, IF ChunkBack THEN done + io[r].length ELSE done)'
  <2> PICK n : n = IF ChunkBack THEN done + io[r].length ELSE done
    OBVIOUS
  <2>1. Discarded(cur)' <=> Discarded(r)'
    BY DEF Discarded
  <2>2. pc # "loop" => (IF ChunkBack THEN done + io[cur].length ELSE done)' = n
    OBVIOUS
  <2>3. pc # "loop" =>
          (Moved(cur, IF ChunkBack THEN done + io[cur].length ELSE done)' <=> Moved(r, n)')
    BY <2>2 DEF Moved
  <2>4. pc # "loop" =>
          (Moved(r, IF ChunkBack THEN done + io[r].length ELSE done)' <=> Moved(r, n)')
    BY DEF Moved
  <2> QED
    BY <2>1, <2>3, <2>4 DEF Progress
<1> QED
  BY DEF Progress, Moved, Discarded

\* Replies of the request in hand.
LEMMA DataAnswer ==
  ASSUME PinsInv, FieldsInv, HeldInv, DataInv, Addressable, NullIsNoData, giveups = 0,
         cur # NULL, NEW err, NEW actual, Answer(err, actual),
         UNCHANGED <<mem, disk, issued, cq, inflight, dsm_buf>>,
         pc # "poll" \/ inflight[slot].ioreq = NULL
  PROVE  DataInv'
<1>1. /\ PathTypes /\ OneOwner /\ NULL \notin Req
      /\ cur' = NULL /\ pc' = "loop" /\ done' = 0 /\ ask' = ask
  BY TransferAssumption DEF PinsInv, Answer, Dispatched
<1>2. \E f : io' = [io EXCEPT ![cur] = f]
  BY DEF Answer, ReplyMsg
<1>3. \A s \in Occupied : Kept(inflight[s].ioreq)
  <2> SUFFICES ASSUME NEW s \in Occupied, NEW q, q = inflight[s].ioreq
               PROVE  Kept(q)
    OBVIOUS
  <2>1. q \in Req /\ q # cur /\ q # NULL
    BY <1>1 DEF OneOwner, PathTypes, Occupied
  <2>2. io'[q] = io[q]
    BY <1>1, <1>2, <2>1 DEF PathTypes
  <2> QED
    BY <1>1, <2>1, <2>2 DEF Kept
<1>4. Progress'
  BY <1>1 DEF Progress
<1> QED
  BY <1>3, <1>4, DataRest

LEMMA DataReplies ==
  ASSUME PinsInv, FieldsInv, HeldInv, DataInv, Addressable, NullIsNoData, giveups = 0,
         Reject \/ StartDMARefused \/ AllocFails \/ UnmapRefused \/ PollDone
  PROVE  DataInv'
<1>1. /\ UNCHANGED <<mem, disk, issued, cq, inflight, dsm_buf>>
      /\ pc # "poll" \/ inflight[slot].ioreq = NULL
  BY DEF Reject, StartDMARefused, Accepts, AllocFails, UnmapRefused, PollDone, pathVars,
     devVars
<1>2. cur # NULL
  BY DEF PinsInv, PathTypes, Reject, StartDMARefused, Accepts, AllocFails, UnmapRefused,
     PollDone
<1>3. \E err, actual : Answer(err, actual)
  BY DEF Reject, StartDMARefused, AllocFails, UnmapRefused, PollDone
<1> QED
  BY <1>1, <1>2, <1>3, DataAnswer

LEMMA DataClient ==
  ASSUME PinsInv, FieldsInv, HeldInv, RestTyped, DataInv, Addressable, NullIsNoData,
         giveups = 0, NEW q \in Req, BeginIO(q) \/ GetMsg(q)
  PROVE  DataInv'
<1>1. PathTypes /\ OneOwner /\ NULL \notin Req /\ io_Error \in [Req -> Errors] /\ Progress
  BY TransferAssumption DEF PinsInv, RestTyped, AnswersTyped, DataInv
<1>2. UNCHANGED <<mem, disk, issued, cq, inflight, dsm_buf>>
  BY DEF BeginIO, GetMsg, pathVars, devVars
<1>3. CASE BeginIO(q)
  <2>1. PICK a \in Shapes[q] : /\ ask' = [ask EXCEPT ![q] = a]
                              /\ io' = [io EXCEPT ![q] = Fields(a)]
    BY <1>3 DEF BeginIO
  <2>2. /\ ask[q] = NULL /\ UNCHANGED <<pc, cur, done, slot>>
        /\ io_Error' = [io_Error EXCEPT ![q] = "none"]
    BY <1>3 DEF BeginIO, taskVars
  <2>3. \A r \in Req : r # q => /\ ask'[r] = ask[r] /\ io'[r] = io[r]
                                /\ io_Error'[r] = io_Error[r] /\ Kept(r)
    BY <1>1, <2>1, <2>2 DEF PathTypes, Kept
  <2>4. \A s \in Occupied : Kept(inflight[s].ioreq)
    BY <1>1, <2>2, <2>3 DEF OneOwner, PathTypes, Occupied
  <2>5. pc # "loop" => cur \in Req /\ cur # q
    BY <1>1, <2>2 DEF OneOwner, PathTypes
  <2>6. ChunkBack' <=> ChunkBack
    BY <1>2, <2>2, <2>3, <2>5 DEF ChunkBack
  <2>7. Progress'
    BY <1>1, <1>2, <2>2, <2>3, <2>5, <2>6, ProgressStays
  <2> QED
    BY <1>2, <2>4, <2>7, DataRest
<1>4. CASE GetMsg(q)
  <2>1. /\ q \in port /\ cur' = q /\ done' = 0 /\ pc' = "dispatch" /\ cur = NULL
        /\ UNCHANGED <<ask, io, io_Error>>
    BY <1>4 DEF GetMsg, RestTyped
  <2>2. \A s \in Occupied : Kept(inflight[s].ioreq)
    BY <1>1, <2>1 DEF Kept, Occupied, OneOwner
  <2>3. ~ChunkBack'
    BY <2>1 DEF ChunkBack
  <2>4. Progress'
    BY <2>1, <2>3 DEF Progress, Moved
  <2> QED
    BY <1>2, <2>2, <2>4, DataRest
<1> QED
  BY <1>3, <1>4

LEMMA DataWay ==
  ASSUME PinsInv, FieldsInv, HeldInv, RestTyped, ChunkInv, AnswersInv, DataInv,
         Addressable, NullIsNoData, giveups = 0,
         UNCHANGED vars \/ Dispatch \/ StartDMA \/ NextChunk
  PROVE  DataInv'
<1>1. PathTypes /\ OneOwner /\ NULL \notin Req /\ Progress /\ Polling
  BY TransferAssumption DEF PinsInv, DataInv, AnswersInv
<1>2. UNCHANGED <<mem, disk, issued, cq, inflight, dsm_buf, ask, io_Error, cur>>
  BY DEF vars, Dispatch, StartDMA, NextChunk, reqVars, taskVars, pathVars, devVars
<1>3. CASE UNCHANGED vars
  <2>1. UNCHANGED <<pc, cur, done, slot, io>>
    BY <1>3 DEF vars, taskVars, reqVars
  <2>2. \A s \in Occupied : Kept(inflight[s].ioreq)
    BY <1>2, <2>1 DEF Kept
  <2>3. ChunkBack' <=> ChunkBack
    BY <1>2, <2>1 DEF ChunkBack
  <2>4. Progress'
    BY <1>1, <1>2, <2>1, <2>3, ProgressStays
  <2> QED
    BY <1>2, <2>2, <2>4, DataRest
<1>4. CASE Dispatch \/ StartDMA \/ NextChunk
  <2>1. /\ pc' # "poll" /\ pc # "loop"
        /\ io' = io \/ io' = [io EXCEPT ![cur] = Chunk(cur)]
        /\ pc # "poll" \/ inflight[slot].ioreq = NULL
    BY <1>4 DEF Dispatch, StartDMA, Accepts, NextChunk, reqVars
  <2>2. \A s \in Occupied : Kept(inflight[s].ioreq)
    <3> SUFFICES ASSUME NEW s \in Occupied, NEW q, q = inflight[s].ioreq
                 PROVE  Kept(q)
      OBVIOUS
    <3>1. q \in Req /\ q # cur
      BY <1>1, <2>1 DEF OneOwner, PathTypes, Occupied
    <3>2. io'[q] = io[q]
      BY <1>1, <2>1, <3>1 DEF PathTypes
    <3> QED
      BY <1>2, <3>1, <3>2 DEF Kept
  <2>3. ~ChunkBack'
    BY <2>1 DEF ChunkBack
  <2>4. CASE Dispatch \/ StartDMA
    <3>1. pc # "loop" /\ ~ChunkBack /\ done' = done
      BY <2>4 DEF Dispatch, StartDMA, Accepts, ChunkBack
    <3>2. CallersLeft
      BY <1>2 DEF CallersLeft
    <3>3. Progress'
      BY <1>1, <1>2, <2>3, <3>1, <3>2, ProgressIssued
    <3> QED
      BY <1>2, <2>2, <3>3, DataRest
  <2>5. CASE NextChunk
    <3> PICK r, n : r = cur /\ n = done + io[cur].length
      OBVIOUS
    <3>1. ChunkBack /\ ask[r].cmd # "UNMAP" /\ done' = n
      BY <2>5 DEF NextChunk, ChunkBack, Split
    <3>2. Moved(r, n)
      BY <1>1, <2>1, <3>1 DEF Progress
    <3>3. Moved(r, n)'
      BY <1>2, <3>2 DEF Moved
    <3>4. Moved(cur, done)' <=> Moved(r, n)'
      BY <1>2, <3>1 DEF Moved
    <3>5. Progress'
      BY <1>2, <2>3, <3>1, <3>3, <3>4 DEF Progress
    <3> QED
      BY <1>2, <2>2, <3>5, DataRest
  <2> QED
    BY <1>4, <2>4, <2>5
<1> QED
  BY <1>3, <1>4

-----------------------------------------------------------------------------
(* DataInv is inductive.                                                   *)

LEMMA MediaStep ==
  ASSUME MediaTyped, [Next]_vars
  PROVE  MediaTyped'
<1>1. CASE \E c \in issued : Read(c) \/ Write(c) \/ Discard(c) \/ Fail(c)
  <2>1. PICK c \in issued : Read(c) \/ Write(c) \/ Discard(c) \/ Fail(c)
    BY <1>1
  <2>2. DOMAIN mem' = DOMAIN mem
    BY <2>1 DEF Read, Write, Discard, Fail
  <2>3. DOMAIN disk' = DOMAIN disk
    BY <2>1 DEF Read, Write, Discard, Fail
  <2> QED
    BY <2>2, <2>3 DEF MediaTyped
<1>2. CASE Harvest
  <2>1. DOMAIN mem' = DOMAIN mem /\ disk' = disk
    BY Zenon, <1>2 DEF Harvest, CopyOut
  <2> QED
    BY <2>1 DEF MediaTyped
<1>3. CASE SubmitBounce
  <2>1. DOMAIN mem' = DOMAIN mem /\ disk' = disk
    BY <1>3 DEF SubmitBounce, Issue, CopyIn
  <2> QED
    BY <2>1 DEF MediaTyped
<1>4. CASE SubmitDirect
  <2>1. mem' = mem /\ disk' = disk
    BY <1>4 DEF SubmitDirect, Issue
  <2> QED
    BY <2>1 DEF MediaTyped
<1>5. CASE \/ UNCHANGED vars \/ \E r \in Req : GetMsg(r) \/ BeginIO(r)
           \/ Dispatch \/ Busy \/ Reject \/ StartDMA \/ StartDMARefused \/ AllocFails
           \/ UnmapRefused \/ Unmap \/ NextChunk \/ PollDone \/ PollTimeout
  <2>1. mem' = mem /\ disk' = disk
    BY <1>5 DEF vars, GetMsg, BeginIO, Dispatch, Busy, Reject, StartDMA, StartDMARefused,
       AllocFails, UnmapRefused, Unmap, NextChunk, PollDone, PollTimeout, devVars
  <2> QED
    BY <2>1 DEF MediaTyped
<1> QED
  BY <1>1, <1>2, <1>3, <1>4, <1>5 DEF Next, Task, Controller

\* Only a wait that gives up adds to giveups.
LEMMA NoGiveUp ==
  ASSUME HeldInv, [Next]_vars, giveups' = 0
  PROVE  giveups = 0 /\ ~Busy /\ ~PollTimeout
<1>1. giveups \in Nat
  BY TransferAssumption DEF HeldInv
<1>2. ~Busy /\ ~PollTimeout
  BY <1>1 DEF Busy, PollTimeout
<1>3. giveups' = giveups
  BY Zenon, <1>2 DEF Next, Task, Controller, Read, Write, Discard, Fail, Post, BeginIO,
     GetMsg, Dispatch, Reject, SubmitBounce, StartDMA, StartDMARefused, AllocFails,
     SubmitDirect, UnmapRefused, Unmap, Harvest, NextChunk, PollDone, vars
<1> QED
  BY <1>2, <1>3

LEMMA DataStep ==
  ASSUME PinsInv, FieldsInv, HeldInv, RestTyped, RepliesInv, ChunkInv, AnswersInv,
         DataInv, Addressable, NullIsNoData, FramesApart, RequestsApart, [Next]_vars
  PROVE  DataInv'
<1>1. CASE giveups' # 0
  <2>1. MediaTyped'
    BY MediaStep DEF DataInv
  <2> QED
    BY <1>1, <2>1 DEF DataInv
<1>2. CASE giveups' = 0
  <2>1. giveups = 0 /\ ~Busy /\ ~PollTimeout
    BY <1>2, NoGiveUp
  <2>2. CASE UNCHANGED vars \/ Dispatch \/ StartDMA \/ NextChunk
    BY <2>1, <2>2, DataWay
  <2>3. CASE \E r \in Req : BeginIO(r) \/ GetMsg(r)
    BY <2>1, <2>3, DataClient
  <2>4. CASE Controller \/ Harvest
    BY <2>1, <2>4, DataController, DataHarvest
  <2>5. CASE SubmitBounce \/ SubmitDirect \/ Unmap
    BY <2>1, <2>5, DataIssue, DataUnmap
  <2>6. CASE Reject \/ StartDMARefused \/ AllocFails \/ UnmapRefused \/ PollDone
    BY <2>1, <2>6, DataReplies
  <2> QED
    BY <2>1, <2>2, <2>3, <2>4, <2>5, <2>6 DEF Next, Task
<1> QED
  BY <1>1, <1>2

LEMMA DataStart ==
  ASSUME Init
  PROVE  DataInv
<1>1. /\ pc = "loop" /\ inflight = [s \in Slot |-> FreeInflight]
      /\ issued = {} /\ cq = <<>>
      /\ mem = [a \in 0 .. MemSize - 1 |-> DiskSize + a]
      /\ disk = [b \in 0 .. DiskSize - 1 |-> b]
  BY DEF Init
<1>2. Occupied = {} /\ DOMAIN cq = {} /\ MediaTyped
  BY <1>1 DEF Occupied, FreeInflight, MediaTyped
<1> QED
  BY <1>1, <1>2 DEF DataInv, CompletionsCarried, Progress

-----------------------------------------------------------------------------
(* The steps of Transfer are steps of BlockDevice.                         *)

LEMMA AskedIs ==
  ASSUME Addressable, NullIsNoData, NullIsNoOperation, NEW r \in Req, NEW a \in Shapes[r],
         NEW o, o = Asked(a), NEW off, off = AskedOffset(a)
  PROVE  /\ o # NULL /\ a # NULL
         /\ a.cmd = "UNMAP" => o.kind = "discard" /\ DOMAIN o.copy = BlocksOf(a)
         /\ a.cmd # "UNMAP" /\ a.data = NULL => o.kind = "none" /\ DOMAIN o.copy = {}
         /\ a.cmd \in Writes /\ a.data # NULL =>
              /\ o.kind = "write" /\ DOMAIN o.copy = BlocksOf(a)
              /\ \A b \in BlocksOf(a) : o.copy[b] = a.data + b - off
         /\ Reads(a) /\ a.data # NULL =>
              /\ o.kind = "read" /\ DOMAIN o.copy = CallersOf(a)
              /\ \A v \in CallersOf(a) : o.copy[v] = off + v - a.data
<1>1. a # NULL /\ a.length \in Nat /\ off \in Nat
  BY ShapeTypes, OffsetAsked
<1>2. a.data # NULL => a.data \in Nat
  BY <1>1, ShapeTypes DEF InMemory, Fields
<1>3. o # NULL
  BY DEF NullIsNoOperation
<1>4. ASSUME a.cmd = "UNMAP"
      PROVE  o.kind = "discard" /\ DOMAIN o.copy = BlocksOf(a)
  <2> DEFINE B == {b \in 0 .. DiskSize - 1 :
                     \E k \in DOMAIN a.ranges :
                       b \div BlockSize - a.ranges[k][1] \in 0 .. a.ranges[k][2] - 1}
         len == a.length - 1
         f == [b \in off .. off + len |-> a.data + b - off]
         g == [v \in a.data .. a.data + len |-> off + v - a.data]
         h == [b \in B |-> b]
  <2>1. o = [kind |-> "discard", copy |-> h]
    <3>1. o = CASE a.cmd = "UNMAP" -> [kind |-> "discard", copy |-> h]
                [] a.cmd # "UNMAP" /\ a.data = NULL -> [kind |-> "none", copy |-> <<>>]
                [] a.cmd \in Writes /\ a.data # NULL -> [kind |-> "write", copy |-> f]
                [] OTHER -> [kind |-> "read", copy |-> g]
      BY <1>1, Zenon DEF Asked
    <3> HIDE DEF h, f, g
    <3>2. a.cmd \notin Writes
      BY <1>4 DEF Writes
    <3> QED
      BY <1>4, <3>1, <3>2
  <2>2. BlocksOf(a) = B
    BY <1>4 DEF BlocksOf, InRange
  <2> HIDE DEF B
  <2> QED
    BY <2>1, <2>2
<1>5. ASSUME a.cmd # "UNMAP", a.data = NULL
      PROVE  o.kind = "none" /\ DOMAIN o.copy = {}
  BY <1>1, <1>5 DEF Asked
<1>6. ASSUME a.cmd \in Writes, a.data # NULL
      PROVE  /\ o.kind = "write" /\ DOMAIN o.copy = BlocksOf(a)
             /\ \A b \in BlocksOf(a) : o.copy[b] = a.data + b - off
  <2>1. a.cmd # "UNMAP"
    BY <1>6 DEF Writes
  <2>2. o = [kind |-> "write", copy |-> [b \in off .. off + (a.length - 1) |-> a.data + b - off]]
    BY <1>1, <1>6, <2>1 DEF Asked
  <2>3. BlocksOf(a) = off .. off + (a.length - 1)
    BY <1>1, <1>6, <2>1 DEF BlocksOf
  <2> QED
    BY <2>2, <2>3
<1>7. ASSUME Reads(a), a.data # NULL
      PROVE  /\ o.kind = "read" /\ DOMAIN o.copy = CallersOf(a)
             /\ \A v \in CallersOf(a) : o.copy[v] = off + v - a.data
  <2>1. a.cmd # "UNMAP" /\ a.cmd \notin Writes
    BY <1>7 DEF Reads
  <2>2. o = [kind |-> "read",
             copy |-> [v \in a.data .. a.data + (a.length - 1) |-> off + v - a.data]]
    BY <1>1, <1>7, <2>1 DEF Asked
  <2>3. CallersOf(a) = a.data .. a.data + (a.length - 1)
    BY <1>1, <1>2, <1>7, <2>1 DEF CallersOf
  <2> QED
    BY <2>2, <2>3
<1> QED
  BY <1>1, <1>3, <1>4, <1>5, <1>6, <1>7

\* What a step does to the callers' memory and the disk is part of what r asks for.
Served(r) ==
  LET a == ask[r]
      off == AskedOffset(a)
  IN  /\ \A v \in 0 .. UserSize - 1 : mem'[Phys(v)] # mem[Phys(v)] =>
           /\ Reads(a) /\ v \in CallersOf(a)
           /\ mem'[Phys(v)] = disk[off + v - a.data]
      /\ \A b \in 0 .. DiskSize - 1 : disk'[b] # disk[b] =>
           /\ ~Reads(a) /\ b \in BlocksOf(a)
           /\ disk'[b] = IF a.cmd = "UNMAP" THEN -1 ELSE mem[Phys(a.data + b - off)]

\* All that r asks for is done when the step is over.
Delivered(r) ==
  IF ask[r].cmd = "UNMAP" THEN \A b \in BlocksOf(ask[r]) : disk'[b] = -1
  ELSE ask[r].data # NULL =>
         \A k \in 0 .. ask[r].length - 1 :
           /\ AskedOffset(ask[r]) + k < DiskSize
           /\ disk'[AskedOffset(ask[r]) + k] = mem'[Phys(ask[r].data + k)]

AnswerOf(r) ==
  IF r \notin replied THEN "none" ELSE IF io_Error[r] = "none" THEN "ok" ELSE "error"

LEMMA ServeIs ==
  ASSUME Addressable, NullIsNoData, NullIsNoOperation, NEW r \in Req, ask[r] \in Shapes[r],
         r \notin replied, UNCHANGED <<ask, giveups>>, MediaTyped, MediaTyped',
         \A q \in Req : q # r => AnswerOf(q)' = AnswerOf(q),
         Served(r), AnswerOf(r)' = "ok" => Delivered(r)
  PROVE  BD!Next
<1> PICK a, o, off : a = ask[r] /\ o = Asked(ask[r]) /\ off = AskedOffset(ask[r])
  OBVIOUS
<1> DEFINE op == [q \in Req |-> Asked(ask[q])]
           answer == [q \in Req |-> AnswerOf(q)]
           ram == [v \in 0 .. UserSize - 1 |-> mem[Phys(v)]]
           Want(x) == CASE o.kind = "read"  -> disk[o.copy[x]]
                        [] o.kind = "write" -> ram[o.copy[x]]
                        [] OTHER            -> -1
<1>1. a \in Shapes[r] /\ a.length \in Nat /\ off \in Nat /\ (a.data # NULL => a.data \in Nat)
  <2> PICK x \in Shapes[r] : x = a
    OBVIOUS
  <2>1. x.length \in Nat /\ InMemory(Fields(x)) /\ Fields(x).data = x.data
    BY ShapeTypes DEF Fields
  <2> QED
    BY <2>1, OffsetAsked DEF InMemory
<1>2. /\ o # NULL /\ a # NULL
      /\ a.cmd = "UNMAP" => o.kind = "discard" /\ DOMAIN o.copy = BlocksOf(a)
      /\ a.cmd # "UNMAP" /\ a.data = NULL => o.kind = "none" /\ DOMAIN o.copy = {}
      /\ a.cmd \in Writes /\ a.data # NULL =>
           /\ o.kind = "write" /\ DOMAIN o.copy = BlocksOf(a)
           /\ \A b \in BlocksOf(a) : o.copy[b] = a.data + b - off
      /\ Reads(a) /\ a.data # NULL =>
           /\ o.kind = "read" /\ DOMAIN o.copy = CallersOf(a)
           /\ \A v \in CallersOf(a) : o.copy[v] = off + v - a.data
  BY <1>1, AskedIs
<1>3. /\ a.cmd = "UNMAP" \/ a.cmd \in Writes \/ Reads(a)
      /\ Reads(a) => a.cmd # "UNMAP" /\ a.cmd \notin Writes
      /\ a.cmd \in Writes => a.cmd # "UNMAP"
      /\ a.cmd # "UNMAP" /\ a.data = NULL => CallersOf(a) = {} /\ BlocksOf(a) = {}
      /\ a.cmd # "UNMAP" /\ a.data # NULL =>
           /\ CallersOf(a) = a.data .. a.data + a.length - 1
           /\ BlocksOf(a) = off .. off + a.length - 1
  BY DEF Reads, Writes, CallersOf, BlocksOf
<1>4. \A v \in CallersOf(a) : v \in 0 .. UserSize - 1
  BY <1>1, NamesCells
<1>5. /\ \A v \in 0 .. UserSize - 1 : mem'[Phys(v)] # mem[Phys(v)] =>
           Reads(a) /\ v \in CallersOf(a) /\ mem'[Phys(v)] = disk[off + v - a.data]
      /\ \A b \in 0 .. DiskSize - 1 : disk'[b] # disk[b] =>
           /\ ~Reads(a) /\ b \in BlocksOf(a)
           /\ disk'[b] = IF a.cmd = "UNMAP" THEN -1 ELSE mem[Phys(a.data + b - off)]
  BY DEF Served
<1>6. /\ op' = op /\ op[r] = o /\ (giveups = 0)' = (giveups = 0)
      /\ DOMAIN disk = 0 .. DiskSize - 1 /\ DOMAIN disk' = 0 .. DiskSize - 1
      /\ DOMAIN ram = 0 .. UserSize - 1 /\ DOMAIN ram' = 0 .. UserSize - 1
      /\ \A v \in 0 .. UserSize - 1 : ram[v] = mem[Phys(v)] /\ ram'[v] = mem'[Phys(v)]
  BY DEF MediaTyped
<1>7. /\ answer[r] = "none"
      /\ \E x \in {"none", "ok", "error"} : answer' = [answer EXCEPT ![r] = x]
      /\ answer'[r] = "ok" => Delivered(r)
  <2>1. answer[r] = "none" /\ answer'[r] = AnswerOf(r)'
    BY DEF AnswerOf
  <2>2. AnswerOf(r)' \in {"none", "ok", "error"}
    BY DEF AnswerOf
  <2> DEFINE new == AnswerOf(r)'
  <2>3. \A q \in Req : answer'[q] = IF q = r THEN new ELSE answer[q]
    BY <2>1
  <2>4. answer' = [answer EXCEPT ![r] = new]
    BY <2>3
  <2> QED
    BY <2>1, <2>2, <2>4
<1> HIDE DEF op, answer, ram
<1>8. \A v \in DOMAIN ram : ram'[v] # ram[v] =>
        o.kind = "read" /\ v \in DOMAIN o.copy /\ ram'[v] = Want(v)
  <2> SUFFICES ASSUME NEW v \in 0 .. UserSize - 1, ram'[v] # ram[v]
               PROVE  o.kind = "read" /\ v \in DOMAIN o.copy /\ ram'[v] = Want(v)
    BY <1>6
  <2>1. Reads(a) /\ v \in CallersOf(a) /\ ram'[v] = disk[off + v - a.data]
    BY <1>5, <1>6
  <2> QED
    BY <1>2, <1>3, <2>1
<1>9. \A b \in DOMAIN disk : disk'[b] # disk[b] =>
        o.kind # "read" /\ b \in DOMAIN o.copy /\ disk'[b] = Want(b)
  <2> SUFFICES ASSUME NEW b \in 0 .. DiskSize - 1, disk'[b] # disk[b]
               PROVE  o.kind # "read" /\ b \in DOMAIN o.copy /\ disk'[b] = Want(b)
    BY <1>6
  <2>1. /\ ~Reads(a) /\ b \in BlocksOf(a)
        /\ disk'[b] = IF a.cmd = "UNMAP" THEN -1 ELSE mem[Phys(a.data + b - off)]
    BY <1>5
  <2>2. CASE a.cmd = "UNMAP"
    BY <1>2, <2>1, <2>2
  <2>3. CASE a.cmd # "UNMAP"
    <3>1. a.cmd \in Writes /\ a.data # NULL
      BY <1>3, <2>1, <2>3
    <3> PICK u, at, len : u = a.data + b - off /\ at = a.data /\ len = a.length
      OBVIOUS
    <3>2. u \in CallersOf(a)
      <4>1. at \in Nat /\ len \in Nat /\ off \in Nat /\ u = at + b - off
        BY <1>1, <3>1
      <4>2. b \in off .. off + len - 1 /\ CallersOf(a) = at .. at + len - 1
        BY <1>3, <2>1, <2>3, <3>1
      <4>3. u \in at .. at + len - 1
        BY ONLY <4>1, <4>2
      <4> QED
        BY <4>2, <4>3
    <3> QED
      BY <1>2, <1>4, <1>6, <2>1, <2>3, <3>1, <3>2
  <2> QED
    BY <2>2, <2>3
<1>10. ASSUME Delivered(r), NEW x \in DOMAIN o.copy
       PROVE  IF o.kind = "read" THEN x \in DOMAIN ram /\ ram'[x] = Want(x)
                                 ELSE x \in DOMAIN disk /\ disk'[x] = Want(x)
  <2>1. CASE a.cmd = "UNMAP"
    <3>1. x \in BlocksOf(a) /\ x \in 0 .. DiskSize - 1
      BY <1>2, <1>10, <2>1 DEF BlocksOf
    <3> QED
      BY <1>2, <1>6, <1>10, <2>1, <3>1 DEF Delivered
  <2>2. CASE a.cmd # "UNMAP"
    <3>1. a.data # NULL /\ a.data \in Nat
      BY <1>1, <1>2, <1>10, <2>2
    <3> PICK at, len : at = a.data /\ len = a.length
      OBVIOUS
    <3>2. \A k \in 0 .. len - 1 : off + k < DiskSize /\ disk'[off + k] = mem'[Phys(at + k)]
      BY <1>10, <2>2, <3>1 DEF Delivered
    <3>3. at \in Nat /\ len \in Nat /\ off \in Nat /\ DiskSize \in Nat
      BY <1>1, <3>1, TransferAssumption
    <3>4. CASE Reads(a)
      <4>1. o.kind = "read" /\ x \in at .. at + len - 1 /\ o.copy[x] = off + x - at
        BY <1>2, <1>3, <1>10, <3>1, <3>4
      <4>2. x \in 0 .. UserSize - 1
        BY <1>3, <1>4, <3>1, <3>4, <4>1
      <4> PICK k \in 0 .. len - 1, b \in Nat : k = x - at /\ b = off + k
        BY <3>3, <4>1
      <4>3. x = at + k /\ o.copy[x] = b /\ b \in Nat
        BY <3>3, <4>1
      <4>4. b \in 0 .. DiskSize - 1 /\ disk'[b] = ram'[x]
        <5>1. b < DiskSize /\ disk'[b] = mem'[Phys(at + k)]
          BY <3>2
        <5>2. b \in 0 .. DiskSize - 1
          BY <3>3, <5>1
        <5>3. ram'[x] = mem'[Phys(x)]
          BY <1>6, <4>2
        <5> QED
          BY <4>3, <5>1, <5>2, <5>3
      <4>5. disk'[b] = disk[b]
        BY <1>5, <3>4, <4>4
      <4> QED
        BY <1>6, <4>1, <4>2, <4>3, <4>4, <4>5
    <3>5. CASE ~Reads(a)
      <4>1. o.kind = "write" /\ x \in off .. off + len - 1 /\ o.copy[x] = at + x - off
        BY <1>2, <1>3, <1>10, <2>2, <3>1, <3>5
      <4> PICK k \in 0 .. len - 1, v \in Nat : k = x - off /\ v = at + k
        BY <3>3, <4>1
      <4>2. x = off + k /\ o.copy[x] = v /\ v \in at .. at + len - 1
        BY <3>3, <4>1
      <4>3. x \in 0 .. DiskSize - 1 /\ v \in 0 .. UserSize - 1
        <5>1. x < DiskSize
          BY <3>2, <4>2
        <5>2. x \in Int /\ x >= 0
          BY <3>3, <4>1
        <5>3. v \in CallersOf(a)
          BY <1>3, <2>2, <3>1, <4>2
        <5> QED
          BY <1>4, <3>3, <5>1, <5>2, <5>3
      <4>4. disk'[x] = ram'[v]
        BY <1>6, <3>2, <4>2, <4>3
      <4>5. ram'[v] = ram[v]
        BY <1>5, <1>6, <3>5, <4>3
      <4> QED
        BY <1>6, <4>1, <4>2, <4>3, <4>4, <4>5
    <3> QED
      BY <3>4, <3>5
  <2> QED
    BY <2>1, <2>2
<1>11. BD!Serve(r)
  <2>1. BD!ChangedRam = {v \in DOMAIN ram : ram'[v] # ram[v]}
    BY DEF BD!ChangedRam, ram
  <2>2. BD!ChangedDisk = {b \in DOMAIN disk : disk'[b] # disk[b]}
    BY DEF BD!ChangedDisk
  <2>3. \A x : BD!Wanted(o, x) = Want(x)
    BY DEF BD!Wanted, BD!Deallocated, ram
  <2>4. BD!Serve(r) <=>
          /\ op[r] # NULL /\ answer[r] = "none"
          /\ BD!ChangedRam \subseteq IF op[r].kind = "read" THEN DOMAIN op[r].copy ELSE {}
          /\ BD!ChangedDisk \subseteq IF op[r].kind = "read" THEN {} ELSE DOMAIN op[r].copy
          /\ \A v \in BD!ChangedRam : ram'[v] = BD!Wanted(op[r], v)
          /\ \A b \in BD!ChangedDisk : disk'[b] = BD!Wanted(op[r], b)
          /\ \E x \in {"none", "ok", "error"} : answer' = [answer EXCEPT ![r] = x]
          /\ answer'[r] = "ok" =>
               \A x \in DOMAIN op[r].copy :
                 IF op[r].kind = "read" THEN x \in DOMAIN ram /\ ram'[x] = BD!Wanted(op[r], x)
                                        ELSE x \in DOMAIN disk /\ disk'[x] = BD!Wanted(op[r], x)
          /\ op' = op /\ (giveups = 0)' = (giveups = 0)
    BY DEF BD!Serve, op, answer, ram, AnswerOf
  <2> HIDE DEF Want
  <2>5. /\ BD!ChangedRam \subseteq IF o.kind = "read" THEN DOMAIN o.copy ELSE {}
        /\ \A v \in BD!ChangedRam : ram'[v] = BD!Wanted(o, v)
    BY <1>8, <2>1, <2>3
  <2>6. /\ BD!ChangedDisk \subseteq IF o.kind = "read" THEN {} ELSE DOMAIN o.copy
        /\ \A b \in BD!ChangedDisk : disk'[b] = BD!Wanted(o, b)
    BY <1>9, <2>2, <2>3
  <2>7. answer'[r] = "ok" =>
          \A x \in DOMAIN o.copy :
            IF o.kind = "read" THEN x \in DOMAIN ram /\ ram'[x] = BD!Wanted(o, x)
                               ELSE x \in DOMAIN disk /\ disk'[x] = BD!Wanted(o, x)
    BY <1>7, <1>10, <2>3
  <2> QED
    BY <1>2, <1>6, <1>7, <2>4, <2>5, <2>6, <2>7
<1> QED
  BY <1>11 DEF BD!Next

\* A step that BlockDevice does not see.
LEMMA Unseen ==
  ASSUME UNCHANGED <<ask, giveups>>, CallersLeft,
         \A q \in Req : AnswerOf(q)' = AnswerOf(q)
  PROVE  UNCHANGED BD!bdvars
<1> DEFINE answer == [q \in Req |-> AnswerOf(q)]
           ram == [v \in 0 .. UserSize - 1 |-> mem[Phys(v)]]
<1>1. answer' = answer
  OBVIOUS
<1>2. ram' = ram /\ disk' = disk
  BY DEF CallersLeft
<1> QED
  BY <1>1, <1>2 DEF BD!bdvars, AnswerOf

\* A reply of the request in hand, by the dispatcher.
LEMMA BlockAnswer ==
  ASSUME PinsInv, FieldsInv, RestTyped, RepliesInv, DataInv, Addressable, NullIsNoData,
         NullIsNoOperation, cur # NULL, NEW err, NEW actual, Answer(err, actual),
         UNCHANGED <<mem, disk, giveups>>, NEW r, r = cur,
         err = "none" => Delivered(r)
  PROVE  BD!Next
<1>1. /\ r \in Req /\ ask[r] # NULL /\ ask[r] \in Shapes[r] /\ r \notin replied
      /\ io_Error \in [Req -> Errors] /\ MediaTyped
  BY DEF PinsInv, PathTypes, OneOwner, FieldsInv, RestTyped, AnswersTyped, RepliesInv,
     RepliedLast, DataInv
<1>2. /\ ask' = ask /\ replied' = replied \cup {r}
      /\ io_Error' = [io_Error EXCEPT ![r] = err]
  BY DEF Answer, ReplyMsg
<1>3. \A q \in Req : q # r => AnswerOf(q)' = AnswerOf(q)
  BY <1>1, <1>2 DEF AnswerOf
<1>4. AnswerOf(r)' = "ok" => Delivered(r)
  BY <1>1, <1>2 DEF AnswerOf
<1>5. Served(r) /\ MediaTyped'
  BY <1>1 DEF Served, MediaTyped
<1> QED
  BY <1>1, <1>2, <1>3, <1>4, <1>5, ServeIs

LEMMA BlockReplies ==
  ASSUME PinsInv, FieldsInv, HeldInv, RestTyped, RepliesInv, ChunkInv, AnswersInv,
         DataInv, Addressable, NullIsNoData, NullIsNoOperation, giveups = 0,
         Reject \/ StartDMARefused \/ AllocFails \/ UnmapRefused \/ PollDone
  PROVE  BD!Next
<1>1. UNCHANGED <<mem, disk, giveups>>
  BY DEF Reject, StartDMARefused, Accepts, AllocFails, UnmapRefused, PollDone, devVars
<1>2. cur # NULL
  BY DEF PinsInv, PathTypes, Reject, StartDMARefused, Accepts, AllocFails, UnmapRefused,
     PollDone
<1> PICK r : r = cur
  OBVIOUS
<1>3. r \in Req /\ ask[r] # NULL /\ ask[r] \in Shapes[r]
  BY <1>2 DEF PinsInv, PathTypes, OneOwner, FieldsInv
<1>4. CASE Reject
  <2>1. CASE Answer("none", 0) /\ io[r].length = 0 /\ pc = "submit"
    <3>1. ask[r].length = 0 /\ ask[r].cmd # "UNMAP"
      BY <2>1, InHand
    <3>2. Delivered(r)
      BY <3>1 DEF Delivered
    <3> QED
      BY <1>1, <1>2, <2>1, <3>2, BlockAnswer
  <2>2. CASE Answer("badaddress", 0) \/ Answer("badlength", 0)
    BY <1>1, <1>2, <2>2, BlockAnswer
  <2> QED
    BY <1>4, <2>1, <2>2 DEF Reject
<1>5. CASE StartDMARefused \/ AllocFails
  <2>1. Answer("aborted", io[cur].actual)
    BY <1>5 DEF StartDMARefused, AllocFails
  <2> QED
    BY <1>1, <1>2, <2>1, BlockAnswer
<1>6. CASE UnmapRefused
  <2>1. CASE Answer("badstatus", io[cur].actual)
    BY <1>1, <1>2, <2>1, BlockAnswer
  <2>2. CASE ask[r].ranges = <<>> /\ Answer("none", 0) /\ ask[r].cmd = "UNMAP"
    <3>1. BlocksOf(ask[r]) = {}
      BY <2>2 DEF BlocksOf
    <3>2. Delivered(r)
      BY <2>2, <3>1 DEF Delivered
    <3> QED
      BY <1>1, <1>2, <2>2, <3>2, BlockAnswer
  <2> QED
    BY <1>6, <2>1, <2>2 DEF UnmapRefused
<1>7. CASE PollDone
  <2>1. /\ pc = "poll" /\ inflight[slot].ioreq = NULL /\ Answer(io_Error[cur], 0)
        /\ \/ io_Error[cur] # "none" \/ ~Split(cur)
           \/ done + io[cur].length >= ask[cur].length
    BY <1>7 DEF PollDone
  <2>2. Polling /\ Progress
    BY DEF AnswersInv, DataInv
  <2>3. ASSUME io_Error[cur] = "none"
        PROVE  Delivered(r)
    <3>1. ChunkBack
      BY <2>1, <2>3 DEF ChunkBack
    <3>2. CASE ask[r].cmd = "UNMAP"
      BY <1>1, <2>1, <2>2, <3>1, <3>2 DEF Progress, Discarded, Delivered
    <3>3. CASE ask[r].cmd # "UNMAP"
      <4> PICK n, len : n = done + io[cur].length /\ len = ask[r].length
        OBVIOUS
      <4>1. n >= len /\ Moved(r, n)
        BY <2>1, <2>2, <2>3, <3>1, <3>3 DEF Polling, Progress
      <4>2. n \in Nat /\ len \in Nat
        <5>1. done \in Nat /\ io[cur].length \in Nat
          BY <2>1 DEF FieldsInv, InMemory
        <5>2. ask[r].length \in Nat
          <6> PICK a \in Shapes[r] : a = ask[r]
            BY <1>3
          <6> QED
            BY <1>3, ShapeTypes
        <5> QED
          BY <5>1, <5>2
      <4>3. \A k \in 0 .. len - 1 : k \in 0 .. n - 1
        BY <4>1, <4>2
      <4>4. \A k \in 0 .. len - 1 :
              /\ AskedOffset(ask[r]) + k < DiskSize
              /\ disk[AskedOffset(ask[r]) + k] = mem[Phys(ask[r].data + k)]
        BY <4>1, <4>3 DEF Moved
      <4> QED
        BY <1>1, <3>3, <4>4 DEF Delivered
    <3> QED
      BY <3>2, <3>3
  <2> QED
    BY <1>1, <1>2, <2>1, <2>3, BlockAnswer
<1> QED
  BY <1>4, <1>5, <1>6, <1>7

\* Of what the part in slot s names, nothing is given another content than it asks for.
Moves(s) ==
  LET i == inflight[s]
  IN  IF ask[i.ioreq].cmd = "UNMAP"
      THEN \A b \in 0 .. DiskSize - 1 : disk'[b] # disk[b] => disk'[b] = -1
      ELSE \A k \in 0 .. i.len - 1 :
             /\ Reads(ask[i.ioreq]) =>
                  mem'[Phys(i.buf + k)] \in {mem[Phys(i.buf + k)], disk[BlockAt(s) + k]}
             /\ ~Reads(ask[i.ioreq]) /\ BlockAt(s) + k < DiskSize =>
                  disk'[BlockAt(s) + k] \in {disk[BlockAt(s) + k], mem[Phys(i.buf + k)]}

LEMMA SlotServed ==
  ASSUME PinsInv, FieldsInv, Addressable, NullIsNoData, NEW s \in Occupied, Placed(s),
         Alters(s), Moves(s), NEW r, r = inflight[s].ioreq
  PROVE  Served(r)
<1> PICK i, a, off, at : /\ i = inflight[s] /\ a = ask[r] /\ off = AskedOffset(ask[r])
                         /\ at = ask[r].data
  OBVIOUS
<1>1. CASE a.cmd = "UNMAP"
  <2>1. ~Reads(a)
    BY <1>1 DEF Reads
  <2> QED
    BY <1>1, <2>1 DEF Served, Alters, Moves
<1>2. CASE a.cmd # "UNMAP"
  <2>1. /\ i.len \in Nat \ {0} /\ i.buf \in Nat /\ at \in Nat /\ off \in Nat
        /\ BlockAt(s) = off + (i.buf - at)
        /\ \A k \in 0 .. i.len - 1 : /\ i.buf + k \in CallersOf(a)
                                     /\ BlockAt(s) + k \in BlocksOf(a)
    BY <1>2, InSlot
  <2> PICK buf, b, n : buf = i.buf /\ b = BlockAt(s) /\ n = i.len
    OBVIOUS
  <2>2. buf \in Nat /\ at \in Nat /\ off \in Nat /\ b = off + (buf - at) /\ b \in Int
    BY <2>1
  <2>3. ASSUME NEW v \in 0 .. UserSize - 1, mem'[Phys(v)] # mem[Phys(v)]
        PROVE  /\ Reads(a) /\ v \in CallersOf(a)
               /\ mem'[Phys(v)] = disk[off + v - at]
    <3>1. Reads(a) /\ \E k \in 0 .. n - 1 : v = buf + k
      BY <2>3 DEF Alters
    <3> PICK k \in 0 .. n - 1 : v = buf + k
      BY <3>1
    <3>2. v \in CallersOf(a)
      BY <2>1
    <3>3. mem'[Phys(v)] = disk[b + k]
      BY <1>2, <2>3, <3>1 DEF Moves
    <3>4. b + k = off + v - at
      <4>1. k \in Int /\ v = buf + k
        OBVIOUS
      <4> QED
        BY <2>2, <4>1
    <3> QED
      BY <3>1, <3>2, <3>3, <3>4
  <2>4. ASSUME NEW d \in 0 .. DiskSize - 1, disk'[d] # disk[d]
        PROVE  /\ ~Reads(a) /\ d \in BlocksOf(a)
               /\ disk'[d] = mem[Phys(at + d - off)]
    <3>1. ~Reads(a) /\ \E k \in 0 .. n - 1 : d = b + k
      BY <1>2, <2>4 DEF Alters
    <3> PICK k \in 0 .. n - 1 : d = b + k
      BY <3>1
    <3>2. d \in BlocksOf(a)
      BY <2>1
    <3>5. d < DiskSize
      BY Limits
    <3>3. disk'[d] = mem[Phys(buf + k)]
      BY <1>2, <2>4, <3>1, <3>5 DEF Moves
    <3>4. buf + k = at + d - off
      <4>1. k \in Int /\ d = b + k
        OBVIOUS
      <4> QED
        BY <2>2, <4>1
    <3> QED
      BY <3>1, <3>2, <3>3, <3>4
  <2> QED
    BY <1>2, <2>3, <2>4 DEF Served
<1> QED
  BY <1>1, <1>2

LEMMA BlockController ==
  ASSUME PinsInv, FieldsInv, HeldInv, RestTyped, RepliesInv, ChunkInv, AnswersInv,
         DataInv, Addressable, NullIsNoData, FramesApart, NullIsNoOperation, giveups = 0,
         Controller
  PROVE  [BD!Next]_(BD!bdvars)
<1>1. PICK c \in issued : Read(c) \/ Write(c) \/ Discard(c) \/ Fail(c)
  BY DEF Controller
<1>2. UNCHANGED <<ask, io_Error, replied, inflight, giveups>>
  BY <1>1 DEF Read, Write, Discard, Fail, Post, reqVars, pathVars
<1>3. \A q \in Req : AnswerOf(q)' = AnswerOf(q)
  BY <1>2 DEF AnswerOf
<1>4. CASE Fail(c)
  <2>1. CallersLeft
    BY <1>4 DEF Fail, CallersLeft
  <2> QED
    BY <1>2, <1>3, <2>1, Unseen
<1>5. CASE Read(c) \/ Write(c) \/ Discard(c)
  <2> PICK s, i, r : s = c.cid /\ i = inflight[s] /\ r = i.ioreq
    OBVIOUS
  <2>1. s \in Occupied /\ s \in Slot /\ Placed(s)
    BY DEF HeldInv, OneEach, DataInv, Occupied
  <2>2. r \in Req /\ ask[r] \in Shapes[r] /\ r \notin replied
    BY <2>1 DEF PinsInv, PathTypes, OneOwner, FieldsInv, Occupied, RepliesInv, RepliedLast
  <2>3. MediaTyped' /\ Alters(s) /\ MediaTyped
    BY <1>2, <1>5, <2>1, CarriedOut DEF DataInv
  <2>4. Moves(s)
    <3>1. CASE Read(c)
      <4>1. /\ c.cmd # "DSM" /\ ask[r].cmd # "UNMAP" /\ i.len \in Nat \ {0}
            /\ (i.write <=> ask[r].cmd \in Writes) /\ c.cmd = IF i.write THEN "W" ELSE "R"
        <5>1. c.cmd # "DSM"
          BY <3>1 DEF Read
        <5> QED
          BY <5>1, TransferOf
      <4>2. /\ disk' = disk
            /\ \A k \in 0 .. i.len - 1 : mem'[Place(s, k)] = disk[BlockAt(s) + k]
            /\ \A x \in 0 .. MemSize - 1 :
                 (\A k \in 0 .. i.len - 1 : Place(s, k) # x) => mem'[x] = mem[x]
        BY <3>1, ReadIs
      <4>3. Reads(ask[r])
        BY <3>1, <4>1 DEF Read, Reads
      <4>4. ASSUME NEW k \in 0 .. i.len - 1
            PROVE  mem'[Phys(i.buf + k)] \in {mem[Phys(i.buf + k)], disk[BlockAt(s) + k]}
        <5>1. CASE ~i.bounce
          BY <4>2, <5>1 DEF Place
        <5>2. CASE i.bounce
          <6>1. /\ Phys(i.buf + k) \in 0 .. UserSize - 1
                /\ \A m \in 0 .. i.len - 1 :
                     Place(s, m) >= UserSize /\ Place(s, m) \in 0 .. MemSize - 1
            BY <2>1, <4>1, <5>2, SlotPlaces
          <6>2. Phys(i.buf + k) \in 0 .. MemSize - 1
            BY <6>1, MemSizes
          <6>3. \A m \in 0 .. i.len - 1 : Place(s, m) # Phys(i.buf + k)
            BY <6>1, MemSizes
          <6> QED
            BY <4>2, <6>2, <6>3
        <5> QED
          BY <5>1, <5>2
      <4> QED
        BY <4>1, <4>3, <4>4 DEF Moves
    <3>2. CASE Write(c)
      <4>1. c.cmd = "W" /\ c.cmd # "DSM"
        BY <3>2 DEF Write
      <4>2. /\ ask[r].cmd # "UNMAP" /\ (i.write <=> ask[r].cmd \in Writes)
            /\ c.cmd = IF i.write THEN "W" ELSE "R"
        BY <4>1, TransferOf
      <4>3. ~Reads(ask[r])
        BY <4>1, <4>2 DEF Reads
      <4>4. \A k \in 0 .. i.len - 1 : BlockAt(s) + k < DiskSize =>
              disk'[BlockAt(s) + k] = mem[Phys(i.buf + k)]
        BY <3>2, WriteIs
      <4> QED
        BY <4>2, <4>3, <4>4 DEF Moves
    <3>3. CASE Discard(c)
      <4>1. /\ ask[r].cmd = "UNMAP"
            /\ \A b \in 0 .. DiskSize - 1 :
                 disk'[b] = IF b \in BlocksOf(ask[r]) THEN -1 ELSE disk[b]
        BY <3>3, DiscardIs
      <4> QED
        BY <4>1 DEF Moves
    <3> QED
      BY <1>5, <3>1, <3>2, <3>3
  <2>5. Served(r)
    BY <2>1, <2>3, <2>4, SlotServed
  <2>6. AnswerOf(r)' # "ok"
    BY <1>2, <2>2 DEF AnswerOf
  <2> QED
    BY <1>2, <1>3, <2>2, <2>3, <2>5, <2>6, ServeIs
<1> QED
  BY <1>1, <1>4, <1>5

LEMMA HandedAll ==
  ASSUME NEW s, HandedOver(s), NEW a, a = ask[inflight[s].ioreq], a.cmd # "UNMAP",
         inflight[s].len = a.length, inflight[s].buf = a.data, BlockAt(s) = AskedOffset(a)
  PROVE  Delivered(inflight[s].ioreq)
BY DEF HandedOver, Delivered

LEMMA BlockHarvest ==
  ASSUME PinsInv, FieldsInv, HeldInv, RestTyped, RepliesInv, ChunkInv, AnswersInv,
         DataInv, Addressable, NullIsNoData, FramesApart, NullIsNoOperation, giveups = 0,
         Harvest
  PROVE  BD!Next
<1> PICK s, ok, i, r, a : /\ s = Head(cq).cid /\ ok = Head(cq).ok /\ i = inflight[s]
                          /\ r = inflight[s].ioreq /\ a = ask[r]
  OBVIOUS
<1>1. /\ s \in Occupied /\ s \in Slot /\ Placed(s) /\ r \in Req /\ r # NULL
      /\ io_Error' = [io_Error EXCEPT ![r] = IF ok THEN "none" ELSE "failed"]
      /\ replied' = IF i.suppress THEN replied ELSE replied \cup {r}
      /\ UNCHANGED <<ask, giveups, disk>>
      /\ MediaTyped' /\ Alters(s) /\ (ok => HandedOver(s))
  BY HarvestIs
<1>2. ~ok => mem' = mem
  BY <1>1 DEF Harvest
<1>3. /\ a \in Shapes[r] /\ r \notin replied /\ io_Error \in [Req -> Errors] /\ MediaTyped
      /\ (i.suppress <=> r = cur)
      /\ a.cmd = "UNMAP" => r = cur
      /\ r # cur => io[r].length = a.length
  <2>1. a # NULL
    BY <1>1 DEF PinsInv, OneOwner
  <2>2. r # cur => io[r] = [Fields(a) EXCEPT !.actual = io[r].actual]
    BY Zenon, <1>1, <2>1 DEF RepliesInv, SentBack
  <2>3. r # cur => io[r].length = a.length
    BY Zenon, <2>2 DEF Fields
  <2> QED
    BY Zenon, <1>1, <2>1, <2>3 DEF FieldsInv, RepliesInv, RepliedLast, PolledSuppressed,
       RestTyped, AnswersTyped, AnswersInv, Polling, DataInv
<1>4. Moves(s)
  <2>1. CASE ask[i.ioreq].cmd = "UNMAP"
    BY <1>1, <2>1 DEF Moves
  <2>2. CASE ask[i.ioreq].cmd # "UNMAP"
    <3>1. ok => \A k \in 0 .. i.len - 1 : mem'[Phys(i.buf + k)] = disk[BlockAt(s) + k]
      BY Zenon, <1>1, <2>2 DEF HandedOver
    <3> QED
      BY <1>1, <1>2, <2>2, <3>1 DEF Moves
  <2> QED
    BY <2>1, <2>2
<1>5. Served(r)
  BY <1>1, <1>4, SlotServed
<1>6. \A q \in Req : q # r => AnswerOf(q)' = AnswerOf(q)
  BY <1>1, <1>3 DEF AnswerOf
<1>7. ASSUME AnswerOf(r)' = "ok"
      PROVE  Delivered(r)
  <2>1. ok /\ r # cur /\ a.cmd # "UNMAP"
    BY <1>1, <1>3, <1>7 DEF AnswerOf
  <2>2. /\ i.len = a.length /\ i.buf = a.data + 0 /\ a.data \in Nat
        /\ BlockAt(s) = AskedOffset(a) + (i.buf - a.data) /\ AskedOffset(a) \in Nat
    <3>1. BlockAt(s) = AskedOffset(a) + (i.buf - a.data) /\ AskedOffset(a) \in Nat
      BY <1>1, <2>1, InSlot
    <3> QED
      BY Zenon, <1>1, <1>3, <2>1, <3>1 DEF Placed
  <2>3. BlockAt(s) = AskedOffset(a) /\ i.buf = a.data
    <3> PICK off, at, b, u : /\ off = AskedOffset(a) /\ at = a.data /\ b = BlockAt(s)
                             /\ u = i.buf
      OBVIOUS
    <3>1. at \in Nat /\ off \in Nat /\ u = at + 0 /\ b = off + (u - at)
      BY Zenon, <2>2
    <3>2. u = at /\ b = off
      BY ONLY <3>1
    <3> QED
      BY <3>2
  <2>4. HandedOver(s) /\ i = inflight[s] /\ a = ask[inflight[s].ioreq] /\ r = inflight[s].ioreq
    BY <1>1, <2>1
  <2>5. Delivered(inflight[s].ioreq)
    BY ONLY <2>1, <2>2, <2>3, <2>4, HandedAll
  <2> QED
    BY <2>4, <2>5
<1> QED
  BY <1>1, <1>3, <1>5, <1>6, <1>7, ServeIs

\* The owner of a request sends it.
LEMMA BlockAccept ==
  ASSUME PinsInv, RepliesInv, RestTyped, NEW r \in Req, BeginIO(r)
  PROVE  BD!Next
<1>1. /\ ask[r] = NULL /\ (\E a \in Shapes[r] : ask' = [ask EXCEPT ![r] = a])
      /\ io_Error' = [io_Error EXCEPT ![r] = "none"]
      /\ UNCHANGED <<replied, mem, disk, giveups>>
  BY DEF BeginIO, devVars
<1>2. DOMAIN ask = Req /\ io_Error \in [Req -> Errors] /\ r \notin replied
  BY <1>1 DEF PinsInv, PathTypes, RestTyped, AnswersTyped, RepliesInv, RepliedLast
<1> DEFINE op == [q \in Req |-> Asked(ask[q])]
           answer == [q \in Req |-> AnswerOf(q)]
           ram == [v \in 0 .. UserSize - 1 |-> mem[Phys(v)]]
<1>3. op[r] = NULL
  BY <1>1 DEF Asked
<1>4. \A q \in Req : q # r => op'[q] = op[q]
  BY <1>1, <1>2
<1>5. \A q \in Req : AnswerOf(q)' = AnswerOf(q)
  BY <1>1, <1>2 DEF AnswerOf
<1>6. answer' = answer
  BY <1>5
<1>7. ram' = ram /\ disk' = disk /\ (giveups = 0)' = (giveups = 0)
  BY <1>1
<1>8. BD!Accept(r)
  BY <1>3, <1>4, <1>6, <1>7 DEF BD!Accept, AnswerOf
<1> QED
  BY <1>8 DEF BD!Next

LEMMA IssueLeaves ==
  ASSUME PinsInv, FieldsInv, AnswersInv, MediaTyped, FramesApart, SubmitBounce \/ SubmitDirect
  PROVE  CallersLeft
<1>1. /\ pc \in {"submit", "pinned"} /\ io[cur].data # NULL
  BY IssueIs
<1>2. PICK prp1, rest, bounce, own :
        /\ Issue(prp1, rest, bounce, own)
        /\ bounce => io[cur].length <= BounceSize
        /\ mem' = IF bounce /\ ask[cur].cmd \in Writes
                  THEN CopyIn(io[cur].data, BouncePhys(slot), io[cur].length)
                  ELSE mem
  BY IssueIs
<1>3. disk' = disk /\ slot \in Slot
  BY <1>2 DEF Issue, PinsInv, PathTypes
<1>4. InMemory(io[cur])
  BY <1>1 DEF FieldsInv
<1>5. CASE bounce /\ ask[cur].cmd \in Writes
  <2> PICK t \in Slot, v \in Nat, n \in Nat : t = slot /\ v = io[cur].data /\ n = io[cur].length
    BY <1>1, <1>3, <1>4 DEF InMemory
  <2>1. n <= BounceSize /\ v + n <= UserSize /\ mem' = CopyIn(v, BouncePhys(t), n)
    BY <1>1, <1>2, <1>4, <1>5 DEF InMemory
  <2>2. \A u \in 0 .. UserSize - 1 : mem'[Phys(u)] = mem[Phys(u)]
    BY <2>1, BounceFilled
  <2> QED
    BY <1>3, <2>2 DEF CallersLeft
<1>6. CASE ~(bounce /\ ask[cur].cmd \in Writes)
  BY <1>2, <1>3, <1>6 DEF CallersLeft
<1> QED
  BY <1>5, <1>6

\* Steps in which nothing that BlockDevice sees happens.
LEMMA BlockUnseen ==
  ASSUME PinsInv, FieldsInv, AnswersInv, DataInv, FramesApart,
         \/ \E r \in Req : GetMsg(r)
         \/ Dispatch \/ StartDMA \/ SubmitBounce \/ SubmitDirect \/ Unmap \/ NextChunk
         \/ UNCHANGED vars,
         giveups' = giveups
  PROVE  UNCHANGED BD!bdvars
<1>1. UNCHANGED <<ask, io_Error, replied>>
  <2>1. CASE SubmitBounce \/ SubmitDirect
    BY <2>1, IssueIs DEF reqVars
  <2>2. CASE ~(SubmitBounce \/ SubmitDirect)
    BY <2>2 DEF GetMsg, Dispatch, StartDMA, Unmap, NextChunk, vars, reqVars
  <2> QED
    BY <2>1, <2>2
<1>2. CallersLeft
  <2>1. CASE SubmitBounce \/ SubmitDirect
    BY <2>1, IssueLeaves DEF DataInv
  <2>2. CASE ~(SubmitBounce \/ SubmitDirect)
    BY <2>2 DEF GetMsg, Dispatch, StartDMA, Unmap, NextChunk, vars, devVars, CallersLeft
  <2> QED
    BY <2>1, <2>2
<1>3. \A q \in Req : AnswerOf(q)' = AnswerOf(q)
  BY <1>1 DEF AnswerOf
<1> QED
  BY <1>1, <1>2, <1>3, Unseen

LEMMA BlockStep ==
  ASSUME PinsInv, FieldsInv, HeldInv, RestTyped, RepliesInv, ChunkInv, AnswersInv, DataInv,
         Addressable, NullIsNoData, FramesApart, NullIsNoOperation, [Next]_vars
  PROVE  [BD!Next]_(BD!bdvars)
<1>1. CASE giveups' # 0
  <2>1. ~(giveups = 0)'
    BY <1>1
  <2> QED
    BY <2>1 DEF BD!Next
<1>2. CASE giveups' = 0
  <2>1. /\ giveups = 0 /\ giveups' = giveups
        /\ ~Busy /\ ~PollTimeout
    BY <1>2, NoGiveUp
  <2>2. CASE \E r \in Req : BeginIO(r)
    BY <2>2, BlockAccept
  <2>3. CASE Controller
    BY <2>1, <2>3, BlockController
  <2>4. CASE Harvest
    BY <2>1, <2>4, BlockHarvest
  <2>5. CASE Reject \/ StartDMARefused \/ AllocFails \/ UnmapRefused \/ PollDone
    BY <2>1, <2>5, BlockReplies
  <2>6. CASE \/ \E r \in Req : GetMsg(r)
             \/ Dispatch \/ StartDMA \/ SubmitBounce \/ SubmitDirect \/ Unmap \/ NextChunk
             \/ UNCHANGED vars
    BY <2>1, <2>6, BlockUnseen
  <2> QED
    BY <2>1, <2>2, <2>3, <2>4, <2>5, <2>6 DEF Next, Task
<1> QED
  BY <1>1, <1>2

LEMMA BlockStart ==
  ASSUME Init
  PROVE  BD!Init
<1>1. /\ \A r \in Req : ask[r] = NULL
      /\ replied = {} /\ giveups = 0
  BY DEF Init
<1>2. [r \in Req |-> Asked(ask[r])] = [r \in Req |-> NULL]
  BY <1>1 DEF Asked
<1>3. [r \in Req |-> IF r \notin replied THEN "none"
                     ELSE IF io_Error[r] = "none" THEN "ok" ELSE "error"]
        = [r \in Req |-> "none"]
  BY <1>1
<1> QED
  BY <1>1, <1>2, <1>3 DEF BD!Init

(* A request moves the cells it asked for, at the addresses its caller     *)
(* knows, and no others, and is answered without an error only when all of *)
(* them are moved: whatever dispatch_rw cuts it into, whether a part goes  *)
(* through the bounce buffer or the PRP entries of the caller's memory,    *)
(* and in whatever order the controller completes (unit_task.c:428-578,    *)
(* nvme_io.c, scsi_unmap.c).                                               *)
THEOREM BlockDeviceRefinement ==
  ASSUME Addressable, WholeBlocks, NullIsNoData, FramesApart, RequestsApart,
         NullIsNoOperation
  PROVE  Spec => ImplementsBlockDevice
<1>1. Init => ChunkInv /\ AnswersInv /\ DataInv /\ BD!Init
  BY ChunkStart, AnswersStart, DataStart, BlockStart
<1>2. PinsInv /\ FieldsInv /\ ChunkInv /\ [Next]_vars => ChunkInv'
  BY ChunkStep
<1>3. PinsInv /\ FieldsInv /\ HeldInv /\ RestTyped /\ RepliesInv /\ ChunkInv
        /\ AnswersInv /\ [Next]_vars => AnswersInv'
  BY AnswersStep
<1>4. PinsInv /\ FieldsInv /\ HeldInv /\ RestTyped /\ RepliesInv /\ ChunkInv
        /\ AnswersInv /\ DataInv /\ [Next]_vars => DataInv'
  BY DataStep
<1>5. PinsInv /\ FieldsInv /\ HeldInv /\ RestTyped /\ RepliesInv /\ ChunkInv
        /\ AnswersInv /\ DataInv /\ [Next]_vars => [BD!Next]_(BD!bdvars)
  BY BlockStep
<1> QED
  BY <1>1, <1>2, <1>3, <1>4, <1>5, PinsInvariant, FieldsInvariant, HeldInvariant,
     RestInvariant, RepliesInvariant, PTL DEF Spec, ImplementsBlockDevice, BD!Spec

=============================================================================

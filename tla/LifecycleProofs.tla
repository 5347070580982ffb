-------------------------- MODULE LifecycleProofs ---------------------------
(***************************************************************************)
(* Machine-checked proofs about Lifecycle, for any number of clients,      *)
(* slots, held requests and failing allocations.                           *)
(*                                                                         *)
(* LifecycleInv is inductive.  Every step is a move of one client between  *)
(* the places outside, with and inside the unit, or a step of the unit     *)
(* task; the counts follow the moves, and the stage they give decides      *)
(* what the handshakes and the buffers must be.                            *)
(***************************************************************************)
EXTENDS LifecycleInv, FiniteSetTheorems, TLAPS

-----------------------------------------------------------------------------
(* Counting users.                                                         *)

\* A client that goes to a place joins or leaves the users by that place.
LEMMA UsersMove ==
  ASSUME TypeOK, NEW c \in Clients, NEW p, Goto(c, p)
  PROVE  /\ pc'[c] = p /\ \A d \in Clients \ {c} : pc'[d] = pc[d]
         /\ p \in UserPc => Users' = Users \cup {c}
         /\ p \notin UserPc => Users' = Users \ {c}
  BY DEF TypeOK, Goto, Users

LEMMA GotoType ==
  ASSUME TypeOK, NEW c \in Clients, NEW p \in Pc, Goto(c, p)
  PROVE  pc' \in [Clients -> Pc]
  BY DEF TypeOK, Goto

\* The stage of the unit from where one client is.
LEMMA StageOf ==
  ASSUME TypeOK, CountsInv
  PROVE  /\ \A c \in Clients : pc[c] \in VectorPc =>
              /\ vector = c /\ Stage = pc[c]
              /\ Users = {} /\ open_count = 0 /\ lib_OpenCnt = 1
         /\ \A c \in Clients : pc[c] \in UserPc =>
              /\ vector = NULL /\ Stage = "up"
              /\ c \in Users /\ open_count > 0 /\ lib_OpenCnt = open_count
         /\ Stage = "idle" =>
              vector = NULL /\ Users = {} /\ open_count = 0 /\ lib_OpenCnt = 0
         /\ Stage \in VectorPc \cup {"idle", "up"}
<1>1. open_count = 0 <=> Users = {}
  BY FS_EmptySet DEF CountsInv
<1>2. ASSUME NEW c \in Clients, pc[c] \in VectorPc
      PROVE  /\ vector = c /\ Stage = pc[c]
             /\ Users = {} /\ open_count = 0 /\ lib_OpenCnt = 1
  BY <1>1, <1>2, LifecycleAssumption DEF CountsInv, Stage
<1>3. ASSUME NEW c \in Clients, pc[c] \in UserPc
      PROVE  /\ vector = NULL /\ Stage = "up"
             /\ c \in Users /\ open_count > 0 /\ lib_OpenCnt = open_count
  <2>1. c \in Users /\ open_count > 0
    BY <1>1, <1>3 DEF Users, TypeOK
  <2> QED
    BY <2>1 DEF CountsInv, Stage, TypeOK
<1>4. Stage = "idle" => vector = NULL /\ open_count = 0
  BY DEF Stage, CountsInv, TypeOK, VectorPc
<1>5. Stage \in VectorPc \cup {"idle", "up"}
  BY DEF Stage, CountsInv, TypeOK
<1> QED
  BY <1>1, <1>2, <1>3, <1>4, <1>5 DEF CountsInv, TypeOK

\* A client that stays with the unit, or inside its vector.
LEMMA Stays ==
  ASSUME TypeOK, CountsInv, NEW c \in Clients, NEW p, Goto(c, p),
         UNCHANGED <<vector, open_count, lib_OpenCnt>>,
         \/ pc[c] \in UserPc /\ p \in UserPc
         \/ pc[c] \in VectorPc /\ p \in VectorPc
  PROVE  /\ CountsInv'
         /\ p \in UserPc => Stage' = "up"
         /\ p \in VectorPc => Stage' = p
<1>1. /\ pc'[c] = p /\ \A d \in Clients \ {c} : pc'[d] = pc[d]
      /\ p \in UserPc => Users' = Users \cup {c}
      /\ p \notin UserPc => Users' = Users \ {c}
  BY UsersMove
<1>2. Users' = Users
  BY <1>1 DEF Users, UserPc, VectorPc
<1>3. CountsInv'
  BY <1>1, <1>2 DEF CountsInv, UserPc, VectorPc
<1>4. UserPc \cap VectorPc = {}
  BY DEF UserPc, VectorPc
<1>5. CASE pc[c] \in UserPc
  <2>1. vector = NULL /\ open_count # 0 /\ p \in UserPc
    BY <1>4, <1>5, StageOf DEF TypeOK
  <2> QED
    BY <1>3, <1>4, <2>1 DEF Stage
<1>6. CASE pc[c] \in VectorPc
  <2>1. vector = c /\ p \in VectorPc
    BY <1>4, <1>6, StageOf
  <2> QED
    BY <1>1, <1>3, <1>4, <2>1, LifecycleAssumption DEF Stage
<1> QED
  BY <1>3, <1>5, <1>6

\* A client that leaves its vector without the unit.
LEMMA Leaves ==
  ASSUME TypeOK, CountsInv, NEW c \in Clients, pc[c] \in VectorPc,
         Goto(c, "closed"), vector' = NULL,
         lib_OpenCnt' = lib_OpenCnt - 1, open_count' = open_count
  PROVE  CountsInv' /\ Stage' = "idle" /\ lib_OpenCnt' = 0
<1>1. vector = c /\ Users = {} /\ open_count = 0 /\ lib_OpenCnt = 1
  BY StageOf
<1>2. pc'[c] = "closed" /\ \A d \in Clients \ {c} : pc'[d] = pc[d]
  BY UsersMove
<1>3. Users' = {}
  BY <1>1, UsersMove DEF UserPc
<1>4. \A d \in Clients : pc'[d] \notin VectorPc
  BY <1>1, <1>2 DEF CountsInv, VectorPc
<1> QED
  BY <1>1, <1>3, <1>4, FS_EmptySet, LifecycleAssumption DEF CountsInv, Stage

\* A client that gets the unit, from a vector or, while it is in use, from
\* outside.
LEMMA Joins ==
  ASSUME TypeOK, CountsInv, NEW c \in Clients,
         pc[c] \notin UserPc, Goto(c, "open"),
         vector = NULL \/ vector = c, vector' = NULL,
         open_count' = open_count + 1, lib_OpenCnt' = open_count'
  PROVE  CountsInv' /\ Stage' = "up"
<1>1. pc'[c] = "open" /\ \A d \in Clients \ {c} : pc'[d] = pc[d]
  BY UsersMove
<1>2. Users' = Users \cup {c} /\ c \notin Users
  BY UsersMove DEF UserPc, Users
<1>3. IsFiniteSet(Users') /\ Cardinality(Users') = open_count'
  BY <1>2, FS_AddElement DEF CountsInv
<1>4. \A d \in Clients : pc'[d] \notin VectorPc
  BY <1>1, LifecycleAssumption DEF CountsInv, VectorPc
<1>5. open_count' # 0
  BY DEF TypeOK
<1> QED
  BY <1>3, <1>4, <1>5, LifecycleAssumption DEF CountsInv, Stage, TypeOK

\* Whatever moves nobody leaves counts and stage alone.
LEMMA NobodyMoves ==
  ASSUME CountsInv, UNCHANGED <<pc, vector, open_count, lib_OpenCnt>>
  PROVE  CountsInv' /\ Stage' = Stage
  BY DEF CountsInv, Stage, Users

-----------------------------------------------------------------------------
(* Counting buffers.                                                       *)

\* Sets of slots are finite, and one slot more or less counts one.
LEMMA SlotSets ==
  ASSUME NEW S \in SUBSET Slot
  PROVE  IsFiniteSet(S) /\ Cardinality(S) \in Nat
<1>1. IsFiniteSet(Slot)
  BY FS_Interval, LifecycleAssumption DEF Slot
<1> QED
  BY <1>1, FS_Subset, FS_CardinalityType

LEMMA OneSlotMore ==
  ASSUME NEW S \in SUBSET Slot, NEW s \in Slot
  PROVE  /\ S \cup {s} \in SUBSET Slot
         /\ Cardinality(S \cup {s}) =
              IF s \in S THEN Cardinality(S) ELSE Cardinality(S) + 1
  BY SlotSets, FS_AddElement

LEMMA OneSlotLess ==
  ASSUME NEW S \in SUBSET Slot, NEW s \in Slot
  PROVE  /\ S \ {s} \in SUBSET Slot
         /\ Cardinality(S \ {s}) =
              IF s \in S THEN Cardinality(S) - 1 ELSE Cardinality(S)
  BY SlotSets, FS_RemoveElement

\* The pins are a number.
LEMMA PinsType ==
  ASSUME TypeOK
  PROVE  Pins \in Nat /\ Entries \in Nat /\ Dsm(dsm_buf) \in {0, 1}
  BY SlotSets DEF TypeOK, Pins, Entries, Dsm

\* Free leaves no pointer, and subtracts no more than was counted.
LEMMA FreeFrees ==
  ASSUME NEW b \in SUBSET Slot, NEW p \in SUBSET Slot, NEW dsm,
         NEW pool \in SUBSET Slot, NEW pins \in Nat, leak_dmaentry \in Nat,
         pins >= Cardinality(b) + Cardinality(p) + Dsm(dsm),
         leak_dmaentry >= Cardinality(pool),
         Free(b, p, dsm, pool, pins)
  PROVE  /\ bounce_bufs' = {} /\ prp_list_pages' = {}
         /\ dma_entry_pool' = {} /\ dsm_buf' = FALSE
         /\ leak_dma' \in Nat /\ leak_dmaentry' \in Nat
         /\ Pins' = 0 /\ Entries' = 0
         /\ pins = Cardinality(b) + Cardinality(p) + Dsm(dsm) => leak_dma' = 0
         /\ leak_dmaentry = Cardinality(pool) => leak_dmaentry' = 0
<1>1. Cardinality(b) \in Nat /\ Cardinality(p) \in Nat
      /\ Cardinality(pool) \in Nat /\ Dsm(dsm) \in Nat
  BY SlotSets DEF Dsm
<1>2. Cardinality({}) = 0
  BY FS_EmptySet
<1> QED
  BY <1>1, <1>2 DEF Free, Pins, Entries, Dsm

\* What is left after a start that has failed in the parent, or a shutdown.
Emptied ==
  /\ bounce_bufs' = {} /\ prp_list_pages' = {}
  /\ dma_entry_pool' = {} /\ dsm_buf' = FALSE
  /\ leak_dma' \in Nat /\ leak_dmaentry' \in Nat
  /\ Pins' = 0 /\ Entries' = 0
  /\ ~kept => leak_dma' = 0 /\ leak_dmaentry' = 0

LEMMA AllocFailsEmpties ==
  ASSUME LifecycleInv, NEW c \in Clients, AllocFails(c)
  PROVE  Emptied /\ faults' \in 0 .. MaxFaults
<1> USE DEF LifecycleInv
<1>1. Stage = "alloc"
  BY StageOf DEF AllocFails, VectorPc
<1>2. /\ Cardinality(bounce_bufs) \in Nat /\ Cardinality(prp_list_pages) \in Nat
      /\ Dsm(dsm_buf) \in {0, 1} /\ next \in Slot
      /\ leak_dma \in Nat /\ leak_dmaentry \in Nat
  BY PinsType, SlotSets DEF TypeOK
<1>3. ~kept => next \notin bounce_bufs \cup prp_list_pages
  BY <1>1, LifecycleAssumption DEF BuffersInv, Slot, TypeOK
<1>4. /\ bounce_bufs \in SUBSET Slot /\ prp_list_pages \in SUBSET Slot
      /\ dma_entry_pool \in SUBSET Slot
      /\ leak_dmaentry >= Cardinality(dma_entry_pool)
      /\ ~kept => leak_dmaentry = Cardinality(dma_entry_pool)
  BY DEF BuffersInv, Entries, TypeOK
<1>5. CASE Fail(c, bounce_bufs \ {next}, prp_list_pages, dsm_buf,
                dma_entry_pool, leak_dma)
  <2> DEFINE b == bounce_bufs \ {next}
  <2>1. /\ b \in SUBSET Slot /\ Cardinality(b) \in Nat
        /\ Cardinality(b) <= Cardinality(bounce_bufs)
        /\ ~kept => Cardinality(b) = Cardinality(bounce_bufs)
    BY <1>2, <1>3, OneSlotLess, SlotSets DEF TypeOK
  <2>2. /\ leak_dma >= Cardinality(b) + Cardinality(prp_list_pages) + Dsm(dsm_buf)
        /\ ~kept => leak_dma =
             Cardinality(b) + Cardinality(prp_list_pages) + Dsm(dsm_buf)
    BY <1>2, <2>1 DEF BuffersInv, Pins
  <2>3. Free(b, prp_list_pages, dsm_buf, dma_entry_pool, leak_dma)
    BY <1>5 DEF Fail
  <2> HIDE DEF b
  <2>4. Emptied
    BY <1>2, <1>4, <2>1, <2>2, <2>3, FreeFrees DEF Emptied
  <2> QED
    BY <1>5, <2>4, LifecycleAssumption DEF Fail, TypeOK
<1>6. CASE Fail(c, bounce_bufs \cup {next}, prp_list_pages \ {next}, dsm_buf,
                dma_entry_pool, leak_dma + 1)
  <2> DEFINE b == bounce_bufs \cup {next}
             p == prp_list_pages \ {next}
  <2>1. /\ b \in SUBSET Slot /\ Cardinality(b) <= Cardinality(bounce_bufs) + 1
        /\ Cardinality(b) \in Nat
        /\ ~kept => Cardinality(b) = Cardinality(bounce_bufs) + 1
    BY <1>2, <1>3, <1>4, OneSlotMore
  <2>2. /\ p \in SUBSET Slot /\ Cardinality(p) <= Cardinality(prp_list_pages)
        /\ Cardinality(p) \in Nat
        /\ ~kept => Cardinality(p) = Cardinality(prp_list_pages)
    BY <1>2, <1>3, <1>4, OneSlotLess, SlotSets
  <2> HIDE DEF b, p
  <2>3. /\ leak_dma + 1 >= Cardinality(b) + Cardinality(p) + Dsm(dsm_buf)
        /\ ~kept => leak_dma + 1 =
             Cardinality(b) + Cardinality(p) + Dsm(dsm_buf)
    BY SMTT(30), <1>2, <2>1, <2>2 DEF BuffersInv, Pins
  <2>4. Free(b, p, dsm_buf, dma_entry_pool, leak_dma + 1)
    BY <1>6 DEF Fail, b, p
  <2>5. leak_dma + 1 \in Nat
    BY <1>2
  <2>6. Emptied
    BY <1>2, <1>4, <2>1, <2>2, <2>3, <2>4, <2>5, FreeFrees DEF Emptied
  <2> QED
    BY <1>6, <2>6, LifecycleAssumption DEF Fail, TypeOK
<1> QED
  BY <1>5, <1>6 DEF AllocFails

LEMMA LaunchFailsEmpties ==
  ASSUME LifecycleInv, NEW c \in Clients, LaunchFails(c)
  PROVE  Emptied /\ faults' \in 0 .. MaxFaults
<1> USE DEF LifecycleInv
<1>1. Stage = "launch"
  BY StageOf DEF LaunchFails, VectorPc
<1>2. /\ Cardinality(bounce_bufs) \in Nat /\ Cardinality(prp_list_pages) \in Nat
      /\ Dsm(dsm_buf) \in {0, 1} /\ Dsm(FALSE) = 0
      /\ leak_dma \in Nat /\ leak_dmaentry \in Nat
      /\ Entries \in Nat /\ Cardinality({}) = 0
  BY PinsType, SlotSets, FS_EmptySet DEF TypeOK, Dsm
<1>3. /\ leak_dma >= Cardinality(bounce_bufs) + Cardinality(prp_list_pages)
                        + Dsm(FALSE)
      /\ ~kept => leak_dma = Cardinality(bounce_bufs)
                        + Cardinality(prp_list_pages) + Dsm(FALSE)
  BY <1>1, <1>2 DEF BuffersInv, Pins, Dsm
<1>4. /\ leak_dmaentry >= Cardinality({})
      /\ ~kept => leak_dmaentry = Cardinality({})
  BY <1>1, <1>2 DEF BuffersInv, Entries
<1>5. Free(bounce_bufs, prp_list_pages, FALSE, {}, leak_dma)
  BY DEF LaunchFails, Fail
<1>6. {} \in SUBSET Slot /\ bounce_bufs \in SUBSET Slot
      /\ prp_list_pages \in SUBSET Slot
  BY DEF TypeOK
<1>7. Emptied
  BY <1>2, <1>3, <1>4, <1>5, <1>6, FreeFrees DEF Emptied
<1> QED
  BY <1>7, LifecycleAssumption DEF LaunchFails, Fail, TypeOK

LEMMA StoppedEmpties ==
  ASSUME LifecycleInv, NEW c \in Clients, Stopped(c)
  PROVE  Emptied
<1> USE DEF LifecycleInv
<1>1. /\ leak_dma \in Nat /\ leak_dmaentry \in Nat
      /\ bounce_bufs \in SUBSET Slot /\ prp_list_pages \in SUBSET Slot
      /\ dma_entry_pool \in SUBSET Slot
  BY DEF TypeOK
<1>2. /\ leak_dma >= Cardinality(bounce_bufs) + Cardinality(prp_list_pages)
                        + Dsm(dsm_buf)
      /\ ~kept => leak_dma = Cardinality(bounce_bufs)
                        + Cardinality(prp_list_pages) + Dsm(dsm_buf)
      /\ leak_dmaentry >= Cardinality(dma_entry_pool)
      /\ ~kept => leak_dmaentry = Cardinality(dma_entry_pool)
  BY DEF BuffersInv, Pins, Entries
<1>3. Free(bounce_bufs, prp_list_pages, dsm_buf, dma_entry_pool, leak_dma)
  BY DEF Stopped
<1> QED
  BY <1>1, <1>2, <1>3, FreeFrees DEF Emptied

-----------------------------------------------------------------------------
(* Open.                                                                   *)

\* A call that fails in the parent leaves the unit idle and empty.
LEMMA FailStep ==
  ASSUME LifecycleInv, NEW c \in Clients, AllocFails(c) \/ LaunchFails(c)
  PROVE  LifecycleInv'
<1> USE DEF LifecycleInv
<1>1. Emptied /\ faults' \in 0 .. MaxFaults
  BY AllocFailsEmpties, LaunchFailsEmpties
<1>2. /\ pc[c] \in {"alloc", "launch"} /\ NotOpened(c)
      /\ UNCHANGED <<next, note, seen, delexp, loaded, heldVars, taskVars,
                     unitVars, ctrl_c, ready, acked, req, kept>>
  BY DEF AllocFails, LaunchFails, Fail
<1>3. pc[c] \in VectorPc /\ Stage = pc[c] /\ lib_OpenCnt = 1
  BY <1>2, StageOf DEF VectorPc
<1>4. CountsInv' /\ Stage' = "idle" /\ lib_OpenCnt' = 0
  BY <1>2, <1>3, Leaves DEF NotOpened, unitVars
<1>5. TypeOK'
  <2>1. pc' \in [Clients -> Pc]
    BY <1>2, GotoType DEF NotOpened, Pc
  <2>2. lib_OpenCnt' \in Nat /\ vector' \in Clients \cup {NULL}
    BY <1>2, <1>4 DEF NotOpened
  <2>3. /\ bounce_bufs' \in SUBSET Slot /\ prp_list_pages' \in SUBSET Slot
        /\ dma_entry_pool' \in SUBSET Slot /\ dsm_buf' \in BOOLEAN
        /\ leak_dma' \in Nat /\ leak_dmaentry' \in Nat
    BY <1>1 DEF Emptied
  <2> QED
    BY <1>1, <1>2, <2>1, <2>2, <2>3 DEF TypeOK, heldVars, taskVars, unitVars
<1>6. HandshakeInv'
  BY <1>2, <1>3, <1>4 DEF HandshakeInv, taskVars, unitVars
<1>7. BuffersInv'
  BY <1>1, <1>2, <1>4 DEF BuffersInv, Emptied
<1>8. LoadInv'
  BY <1>2, <1>3, <1>4 DEF LoadInv, heldVars
<1> QED
  BY <1>4, <1>5, <1>6, <1>7, <1>8

LEMMA OpenStep ==
  ASSUME LifecycleInv, NEW c \in Clients, Open(c)
  PROVE  LifecycleInv'
<1> USE LifecycleAssumption DEF LifecycleInv
<1>1. CASE OpenMore(c)
  <2>1. Stage = "up" /\ loaded /\ lib_OpenCnt = open_count
    BY <1>1 DEF OpenMore, Stage, CountsInv, TypeOK
  <2>2. CountsInv' /\ Stage' = "up"
    BY <1>1, <2>1, Joins DEF OpenMore, Opened, UserPc, TypeOK
  <2>3. TypeOK'
    <3>1. pc' \in [Clients -> Pc]
      BY <1>1, GotoType DEF OpenMore, Opened, Pc
    <3>2. open_count' \in Nat /\ lib_OpenCnt' \in Nat
      BY <1>1 DEF TypeOK, OpenMore, Opened
    <3>3. delexp' \in BOOLEAN /\ vector' \in Clients \cup {NULL}
      BY <1>1 DEF OpenMore, Opened
    <3> QED
      BY <1>1, <3>1, <3>2, <3>3 DEF TypeOK, OpenMore, bufVars, heldVars, taskVars
  <2>4. HandshakeInv'
    BY <1>1, <2>1, <2>2 DEF HandshakeInv, OpenMore, taskVars
  <2>5. BuffersInv'
    BY <1>1, <2>1, <2>2 DEF BuffersInv, OpenMore, bufVars, Pins, Entries
  <2>6. LoadInv'
    BY <1>1, <2>1, <2>2 DEF LoadInv, OpenMore, Opened, heldVars
  <2> QED
    BY <2>2, <2>3, <2>4, <2>5, <2>6
<1>2. CASE OpenFirst(c)
  <2>1. Stage = "idle" /\ loaded /\ lib_OpenCnt = 0 /\ Users = {}
    BY <1>2, StageOf DEF OpenFirst, Enter, Stage
  <2>2. /\ pc'[c] = "alloc" /\ \A d \in Clients \ {c} : pc'[d] = pc[d]
        /\ Users' = {}
    BY <1>2, <2>1, UsersMove DEF OpenFirst, UserPc
  <2>3. CountsInv' /\ Stage' = "alloc"
    BY <1>2, <2>1, <2>2, FS_EmptySet
       DEF OpenFirst, Enter, CountsInv, Stage, VectorPc, unitVars
  <2>4. TypeOK'
    BY <1>2 DEF TypeOK, OpenFirst, Enter, Goto, Pc, Slot, bufVars, heldVars,
                taskVars, unitVars
  <2>5. HandshakeInv'
    BY <1>2, <2>1, <2>3 DEF HandshakeInv, OpenFirst, taskVars, unitVars
  <2>6. BuffersInv'
    BY <1>2, <2>1, <2>3 DEF BuffersInv, OpenFirst, bufVars, Pins, Entries
  <2>7. LoadInv'
    BY <1>2, <2>1, <2>3 DEF LoadInv, OpenFirst, heldVars
  <2> QED
    BY <2>3, <2>4, <2>5, <2>6, <2>7
<1>3. CASE AllocSlot(c)
  <2>1. Stage = "alloc" /\ next \in Slot
    BY <1>3, StageOf DEF AllocSlot, VectorPc, TypeOK
  <2>2. CountsInv' /\ Stage' = IF next + 1 \in Slot THEN "alloc" ELSE "launch"
    <3>1. CASE next + 1 \in Slot
      BY <1>3, <2>1, <3>1, NobodyMoves DEF AllocSlot, unitVars, libVars
    <3>2. CASE next + 1 \notin Slot
      BY <1>3, <3>2, Stays DEF AllocSlot, VectorPc, UserPc, unitVars, libVars
    <3> QED
      BY <3>1, <3>2
  <2>3. TypeOK'
    BY <1>3, <2>1 DEF TypeOK, AllocSlot, Goto, Pc, libVars, heldVars, taskVars,
                      unitVars
  <2>4. HandshakeInv'
    BY <1>3, <2>1, <2>2 DEF HandshakeInv, AllocSlot, taskVars, unitVars
  <2>5. /\ Cardinality(bounce_bufs') =
             IF next \in bounce_bufs THEN Cardinality(bounce_bufs)
                                     ELSE Cardinality(bounce_bufs) + 1
        /\ Cardinality(prp_list_pages') =
             IF next \in prp_list_pages THEN Cardinality(prp_list_pages)
                                        ELSE Cardinality(prp_list_pages) + 1
        /\ Cardinality(bounce_bufs) \in Nat
        /\ Cardinality(prp_list_pages) \in Nat
        /\ Dsm(dsm_buf) \in {0, 1} /\ leak_dma \in Nat
    BY <1>3, <2>1, OneSlotMore, SlotSets, PinsType DEF AllocSlot, TypeOK
  <2>6. Pins' <= Pins + 2 /\ Dsm(dsm_buf') = Dsm(dsm_buf) /\ Entries' = Entries
    BY <1>3, <2>5 DEF AllocSlot, Pins, Entries
  <2>7. /\ leak_dma' >= Pins' /\ leak_dmaentry' >= Entries'
    <3>1. leak_dma >= Pins /\ leak_dmaentry >= Entries
      BY DEF BuffersInv
    <3>2. leak_dma' = leak_dma + 2 /\ leak_dmaentry' = leak_dmaentry
      BY <1>3 DEF AllocSlot
    <3>3. Pins' \in Nat /\ Pins \in Nat
      BY <2>5, <2>6, PinsType DEF Pins
    <3> QED
      BY <2>5, <2>6, <3>1, <3>2, <3>3
  <2>8. /\ ~kept => leak_dma' = Pins' /\ leak_dmaentry' = Entries'
    <3>1. ~kept => next \notin bounce_bufs /\ next \notin prp_list_pages
      BY <2>1 DEF BuffersInv, Slot
    <3> QED
      BY <1>3, <2>5, <2>6, <3>1 DEF AllocSlot, BuffersInv, Pins
  <2>9. /\ 0 .. next \subseteq bounce_bufs' \cap prp_list_pages'
        /\ ~kept => bounce_bufs' = 0 .. next /\ prp_list_pages' = 0 .. next
        /\ next + 1 \notin Slot => 0 .. next = Slot
    BY <1>3, <2>1 DEF AllocSlot, BuffersInv, Slot
  <2>10. /\ next + 1 \in Slot => next' - 1 = next
         /\ bounce_bufs' \subseteq Slot /\ prp_list_pages' \subseteq Slot
    BY <1>3, <2>1 DEF AllocSlot, Slot, TypeOK
  <2>11. BuffersInv'
    BY <1>3, <2>1, <2>2, <2>7, <2>8, <2>9, <2>10 DEF BuffersInv, AllocSlot
  <2>12. LoadInv'
    BY <1>3, <2>1, <2>2 DEF LoadInv, AllocSlot, libVars, heldVars
  <2> QED
    BY <2>2, <2>3, <2>4, <2>11, <2>12
<1>4. CASE Launch(c)
  <2>1. Stage = "launch"
    BY <1>4, StageOf DEF Launch, VectorPc
  <2>2. CountsInv' /\ Stage' = "ready"
    BY <1>4, Stays DEF Launch, VectorPc, UserPc, libVars
  <2>3. PICK dsm \in BOOLEAN, pool \in SUBSET Slot :
          /\ dsm_buf' = dsm
          /\ leak_dma' = leak_dma + Dsm(dsm)
          /\ dma_entry_pool' = pool
          /\ leak_dmaentry' = leak_dmaentry + Cardinality(pool)
    BY <1>4 DEF Launch, Optional
  <2>4. Cardinality(pool) \in Nat /\ Dsm(dsm) \in {0, 1} /\ Pins \in Nat
        /\ Cardinality(bounce_bufs) \in Nat /\ Cardinality(prp_list_pages) \in Nat
        /\ Dsm(dsm_buf) \in {0, 1} /\ Entries \in Nat
    BY SlotSets, PinsType DEF TypeOK, Dsm
  <2>5. TypeOK'
    <3>1. pc' \in [Clients -> Pc]
      BY <1>4, GotoType DEF Launch, Pc
    <3>2. leak_dma' \in Nat /\ leak_dmaentry' \in Nat
      BY <2>3, <2>4 DEF TypeOK
    <3>3. dsm_buf' \in BOOLEAN /\ dma_entry_pool' \in SUBSET Slot
      BY <2>3
    <3>4. tpc' \in TaskPc /\ task' \in BOOLEAN /\ task_shutdown' \in BOOLEAN
          /\ ctrl_c' \in BOOLEAN
      BY <1>4 DEF Launch, TaskPc
    <3>5. UNCHANGED <<vector, next, note, seen, libVars, bounce_bufs,
                      prp_list_pages, heldVars, ack_task, leak_port, open_count,
                      io_port, shutdown_ack_task, ready, acked, req, faults,
                      kept>>
      BY <1>4 DEF Launch
    <3> QED
      BY <3>1, <3>2, <3>3, <3>4, <3>5 DEF TypeOK, libVars, heldVars
  <2>6. HandshakeInv'
    BY <1>4, <2>1, <2>2 DEF HandshakeInv, Starting, Launch
  <2>7. Pins' <= Pins + Dsm(dsm) /\ Entries' = Cardinality(pool)
        /\ (~dsm_buf => Pins' = Pins + Dsm(dsm))
    BY <1>4, <2>3, <2>4 DEF Launch, Pins, Entries, Dsm
  <2>8. Pins' \in Nat /\ (dma_entry_pool = {} => Entries = 0)
    <3>1. Pins' \in Nat
      BY <1>4, <2>3, <2>4 DEF Launch, Pins, Dsm
    <3> QED
      BY <3>1, FS_EmptySet DEF Entries
  <2>9. /\ leak_dma' >= Pins' /\ leak_dmaentry' >= Entries'
        /\ ~kept => leak_dma' = Pins' /\ leak_dmaentry' = Entries'
    BY <2>1, <2>3, <2>4, <2>7, <2>8 DEF BuffersInv, TypeOK
  <2>10. BuffersInv'
    <3>1. bounce_bufs' = Slot /\ prp_list_pages' = Slot /\ kept' = kept
      BY <1>4, <2>1 DEF BuffersInv, Launch
    <3> QED
      BY <2>2, <2>9, <3>1 DEF BuffersInv
  <2>11. LoadInv'
    BY <1>4, <2>1, <2>2 DEF LoadInv, Launch, libVars, heldVars
  <2> QED
    BY <2>2, <2>5, <2>6, <2>10, <2>11
<1>5. CASE Started(c)
  <2>1. Stage = "ready" /\ lib_OpenCnt = 1 /\ open_count = 0 /\ vector = c
        /\ pc[c] \in VectorPc
    BY <1>5, StageOf DEF Started, VectorPc
  <2>2. CASE io_port
    <3>1. CountsInv' /\ Stage' = "up"
      BY <1>5, <2>1, <2>2, Joins DEF Started, Opened, UserPc, VectorPc
    <3>2. TypeOK'
      <4>1. pc' \in [Clients -> Pc]
        BY <1>5, <2>2, GotoType DEF Started, Opened, Pc
      <4>2. /\ open_count' \in Nat /\ lib_OpenCnt' \in Nat
            /\ task' \in BOOLEAN /\ kept' \in BOOLEAN
        BY <1>5, <2>2 DEF TypeOK, Started, Opened
      <4>3. delexp' \in BOOLEAN /\ vector' \in Clients \cup {NULL}
            /\ ready' \in BOOLEAN
        BY <1>5, <2>2 DEF Started, Opened
      <4> QED
        BY <1>5, <4>1, <4>2, <4>3 DEF TypeOK, Started, bufVars, heldVars,
                                      taskVars
    <3>3. HandshakeInv'
      BY <1>5, <2>1, <2>2, <3>1 DEF HandshakeInv, Starting, Started, taskVars
    <3>4. BuffersInv'
      BY <1>5, <2>1, <2>2, <3>1
         DEF BuffersInv, Started, bufVars, Pins, Entries
    <3>5. LoadInv'
      BY <1>5, <2>1, <2>2, <3>1 DEF LoadInv, Started, Opened, heldVars
    <3> QED
      BY <3>1, <3>2, <3>3, <3>4, <3>5
  <2>3. CASE ~io_port
    <3>1. CountsInv' /\ Stage' = "idle" /\ lib_OpenCnt' = 0
      BY <1>5, <2>1, <2>3, Leaves DEF Started, NotOpened
    <3>2. TypeOK'
      BY ZenonT(40), <1>5, <2>3, <3>1 DEF TypeOK, Started, NotOpened, Goto, Pc, bufVars,
                        heldVars, taskVars
    <3>3. HandshakeInv'
      BY <1>5, <2>1, <2>3, <3>1 DEF HandshakeInv, Starting, Started, taskVars
    <3>4. BuffersInv'
      BY <1>5, <2>1, <2>3, <3>1
         DEF BuffersInv, Started, bufVars, Pins, Entries
    <3>5. LoadInv'
      BY <1>5, <2>1, <2>3, <3>1 DEF LoadInv, Started, heldVars
    <3> QED
      BY <3>1, <3>2, <3>3, <3>4, <3>5
  <2> QED
    BY <2>2, <2>3
<1> QED
  BY <1>1, <1>2, <1>3, <1>4, <1>5, FailStep DEF Open

-----------------------------------------------------------------------------
(* Close and Expunge.                                                      *)

\* A client in UnitTask_Shutdown: whatever CloseEnd leaves is idle, and
\* loaded unless an Expunge is waiting.
LEMMA CloseEnds ==
  ASSUME LifecycleInv, NEW c \in Clients, pc[c] \in {"ack", "spin"},
         CloseEnd(c), UNCHANGED <<open_count, delexp, changeint_req>>
  PROVE  /\ Stage = pc[c] /\ CountsInv' /\ LoadInv' /\ Stage' = "idle"
         /\ lib_OpenCnt' \in Nat /\ loaded' \in BOOLEAN
         /\ vector' \in Clients \cup {NULL} /\ pc' \in [Clients -> Pc]
<1> USE DEF LifecycleInv
<1>1. pc[c] \in VectorPc /\ Stage = pc[c]
  BY StageOf DEF VectorPc
<1>2. CountsInv' /\ Stage' = "idle" /\ lib_OpenCnt' = 0
  BY <1>1, Leaves DEF CloseEnd
<1>3. loaded' <=> ~delexp
  BY <1>2 DEF CloseEnd, TypeOK
<1>4. LoadInv'
  BY <1>1, <1>2, <1>3 DEF LoadInv
<1>5. loaded' \in BOOLEAN /\ vector' \in Clients \cup {NULL}
  BY DEF CloseEnd
<1>6. pc' \in [Clients -> Pc]
  BY GotoType DEF CloseEnd, Pc
<1> QED
  BY <1>1, <1>2, <1>4, <1>5, <1>6

LEMMA CloseStep ==
  ASSUME LifecycleInv, NEW c \in Clients, Close(c)
  PROVE  LifecycleInv'
<1> USE LifecycleAssumption DEF LifecycleInv
<1>1. CASE CloseMore(c)
  <2>1. /\ vector = NULL /\ Stage = "up" /\ c \in Users
        /\ lib_OpenCnt = open_count /\ open_count \in Nat
    BY <1>1, StageOf DEF CloseMore, UserPc, TypeOK
  <2>2. /\ pc'[c] = "closed" /\ \A d \in Clients \ {c} : pc'[d] = pc[d]
        /\ Users' = Users \ {c}
    BY <1>1, UsersMove DEF CloseMore, CloseEnd, UserPc
  <2>3. /\ IsFiniteSet(Users')
        /\ Cardinality(Users') = open_count'
        /\ open_count' \in Nat \ {0} /\ lib_OpenCnt' = open_count'
        /\ vector' = NULL
    BY <1>1, <2>1, <2>2, FS_RemoveElement DEF CloseMore, CloseEnd, CountsInv
  <2>4. CountsInv'
    BY <2>1, <2>2, <2>3 DEF CountsInv, VectorPc
  <2>5. Stage' = "up"
    BY <2>3 DEF Stage
  <2>6. loaded' = TRUE
    BY <1>1, <2>3 DEF CloseMore, CloseEnd
  <2>7. TypeOK'
    <3>1. pc' \in [Clients -> Pc]
      BY <1>1, GotoType DEF CloseMore, CloseEnd, Pc
    <3>2. open_count' \in Nat /\ lib_OpenCnt' \in Nat
      BY <2>3
    <3>3. vector' \in Clients \cup {NULL} /\ loaded' \in BOOLEAN
      BY <2>3, <2>6
    <3> QED
      BY <1>1, <3>1, <3>2, <3>3
         DEF TypeOK, CloseMore, bufVars, heldVars, taskVars
  <2>8. HandshakeInv'
    BY <1>1, <2>1, <2>5 DEF HandshakeInv, CloseMore, taskVars
  <2>9. BuffersInv'
    BY <1>1, <2>1, <2>5 DEF BuffersInv, CloseMore, bufVars, Pins, Entries
  <2>10. LoadInv'
    BY <2>5, <2>6 DEF LoadInv
  <2> QED
    BY <2>4, <2>7, <2>8, <2>9, <2>10
<1>2. CASE CloseLast(c)
  <2>1. /\ vector = NULL /\ Stage = "up" /\ c \in Users /\ loaded
        /\ lib_OpenCnt = open_count /\ open_count = 1
    BY <1>2, StageOf DEF CloseLast, Enter, UserPc
  <2>2. /\ vector' = c /\ Goto(c, "signal") /\ task_shutdown' = TRUE
        /\ shutdown_ack_task' \in {c, NULL} /\ faults' \in 0 .. MaxFaults
    BY <1>2 DEF CloseLast, Enter, Ask, TypeOK
  <2>3. /\ pc'[c] = "signal" /\ \A d \in Clients \ {c} : pc'[d] = pc[d]
        /\ Users' = Users \ {c}
    BY <2>2, UsersMove DEF UserPc
  <2>4. /\ IsFiniteSet(Users')
        /\ Cardinality(Users') = 0
    <3>1. IsFiniteSet(Users) /\ Cardinality(Users) = 1
      BY <2>1 DEF CountsInv
    <3>2. IsFiniteSet(Users \ {c}) /\ Cardinality(Users \ {c}) = 0
      <4>1. c \in Users
        BY <2>1
      <4> QED
        BY ONLY <3>1, <4>1, FS_RemoveElement
    <3> QED
      BY ONLY <2>3, <3>2
  <2>5. CountsInv'
    <3>1. \A d \in Clients : vector' = d <=> pc'[d] \in VectorPc
      BY <2>1, <2>2, <2>3 DEF CountsInv, VectorPc
    <3>2. open_count' = 0 /\ lib_OpenCnt' = 1 /\ vector' # NULL
      BY <1>2, <2>1, <2>2 DEF CloseLast, libVars
    <3> QED
      BY <2>4, <3>1, <3>2 DEF CountsInv
  <2>6. Stage' = "signal"
    BY <2>2, <2>3 DEF Stage
  <2>7. TypeOK'
    <3>1. pc' \in [Clients -> Pc]
      BY <2>2, GotoType DEF Pc
    <3>2. replies' \in [Notes -> 0 .. 2]
      BY <1>2 DEF CloseLast, ReplyMsg, TypeOK
    <3>3. /\ shutdown_ack_task' \in Clients \cup {NULL}
          /\ task_shutdown' \in BOOLEAN /\ changeint_req' \in Notes \cup {NULL}
          /\ open_count' \in Nat /\ vector' \in Clients \cup {NULL}
      BY <1>2, <2>2 DEF CloseLast
    <3> QED
      BY <1>2, <2>2, <3>1, <3>2, <3>3
         DEF TypeOK, CloseLast, libVars, bufVars, taskVars
  <2>8. HandshakeInv'
    BY <1>2, <2>1, <2>2, <2>6 DEF HandshakeInv, Stopping, CloseLast, taskVars
  <2>9. BuffersInv'
    BY <1>2, <2>1, <2>6 DEF BuffersInv, CloseLast, bufVars, Pins, Entries
  <2>10. LoadInv'
    BY <1>2, <2>1, <2>6 DEF LoadInv, CloseLast, libVars
  <2> QED
    BY <2>5, <2>7, <2>8, <2>9, <2>10
<1>3. CASE Signal(c)
  <2> DEFINE place == IF shutdown_ack_task = NULL THEN "spin" ELSE "ack"
  <2>1. Stage = "signal" /\ pc[c] \in VectorPc
    BY <1>3, StageOf DEF Signal, VectorPc
  <2>2. Goto(c, place) /\ place \in VectorPc /\ place \in Pc
    BY <1>3 DEF Signal, VectorPc, Pc
  <2>3. CountsInv' /\ Stage' = place
    BY <1>3, <2>1, <2>2, Stays DEF Signal, libVars, unitVars
  <2>4. TypeOK'
    <3>1. pc' \in [Clients -> Pc]
      BY <2>2, GotoType
    <3>2. ctrl_c' \in BOOLEAN
      BY <1>3 DEF Signal
    <3> QED
      BY <1>3, <3>1, <3>2
         DEF TypeOK, Signal, libVars, bufVars, heldVars, taskVars, unitVars
  <2>5. HandshakeInv'
    BY <1>3, <2>1, <2>3 DEF HandshakeInv, Stopping, Signal, taskVars, unitVars
  <2>6. BuffersInv'
    BY <1>3, <2>1, <2>3 DEF BuffersInv, Signal, bufVars, Pins, Entries
  <2>7. LoadInv'
    BY <1>3, <2>1, <2>3 DEF LoadInv, Signal, libVars, heldVars
  <2> QED
    BY <2>3, <2>4, <2>5, <2>6, <2>7
<1>4. CASE Stopped(c)
  <2>1. Emptied
    BY <1>4, StoppedEmpties
  <2>2. /\ Stage = "ack" /\ CountsInv' /\ LoadInv' /\ Stage' = "idle"
        /\ lib_OpenCnt' \in Nat /\ loaded' \in BOOLEAN
        /\ vector' \in Clients \cup {NULL} /\ pc' \in [Clients -> Pc]
    BY <1>4, CloseEnds DEF Stopped, heldVars
  <2>3. tpc = "none" /\ ~task /\ ~io_port /\ ~ready
    BY <1>4, <2>2 DEF HandshakeInv, Stopping, Stopped
  <2>4. TypeOK'
    <3>1. /\ bounce_bufs' \in SUBSET Slot /\ prp_list_pages' \in SUBSET Slot
          /\ dma_entry_pool' \in SUBSET Slot /\ dsm_buf' \in BOOLEAN
          /\ leak_dma' \in Nat /\ leak_dmaentry' \in Nat
      BY <2>1 DEF Emptied
    <3>2. /\ acked' \in BOOLEAN
          /\ shutdown_ack_task' \in Clients \cup {NULL}
      BY <1>4 DEF Stopped
    <3> QED
      BY <1>4, <2>2, <3>1, <3>2 DEF TypeOK, Stopped, heldVars, taskVars
  <2>5. HandshakeInv'
    BY <1>4, <2>2, <2>3 DEF HandshakeInv, Stopped, taskVars
  <2>6. BuffersInv'
    BY <1>4, <2>1, <2>2 DEF BuffersInv, Emptied, Stopped
  <2> QED
    BY <2>2, <2>4, <2>5, <2>6
<1>5. CASE Spun(c)
  <2>1. /\ Stage = "spin" /\ CountsInv' /\ LoadInv' /\ Stage' = "idle"
        /\ lib_OpenCnt' \in Nat /\ loaded' \in BOOLEAN
        /\ vector' \in Clients \cup {NULL} /\ pc' \in [Clients -> Pc]
    BY <1>5, CloseEnds DEF Spun, heldVars, unitVars
  <2>2. tpc = "none" /\ ~task /\ ~io_port /\ ~ready /\ ~acked
        /\ shutdown_ack_task = NULL
    BY <1>5, <2>1 DEF HandshakeInv, Stopping, Spun, TypeOK, TaskPc
  <2>3. TypeOK'
    <3>1. kept' \in BOOLEAN
      BY <1>5 DEF Spun
    <3> QED
      BY <1>5, <2>1, <3>1 DEF TypeOK, Spun, bufVars, heldVars, taskVars, unitVars
  <2>4. HandshakeInv'
    BY <1>5, <2>1, <2>2 DEF HandshakeInv, Spun, taskVars, unitVars
  <2>5. BuffersInv'
    BY <1>5, <2>1 DEF BuffersInv, Spun, bufVars, Pins, Entries
  <2> QED
    BY <2>1, <2>3, <2>4, <2>5
<1> QED
  BY <1>1, <1>2, <1>3, <1>4, <1>5 DEF Close

LEMMA ExpungeStep ==
  ASSUME LifecycleInv, Expunge
  PROVE  LifecycleInv'
<1> USE DEF LifecycleInv
<1>1. CountsInv' /\ Stage' = Stage
  BY NobodyMoves DEF Expunge, clientVars, unitVars
<1>2. lib_OpenCnt = 0 <=> Stage = "idle"
  BY DEF Expunge, CountsInv, Stage, TypeOK
<1>3. delexp' \in BOOLEAN /\ loaded' \in BOOLEAN
  BY DEF Expunge, TypeOK
<1>4. TypeOK'
  BY <1>3 DEF TypeOK, Expunge, clientVars, bufVars, heldVars, taskVars, unitVars
<1>5. HandshakeInv'
  BY <1>1 DEF HandshakeInv, Starting, Stopping, Expunge, taskVars, unitVars
<1>6. BuffersInv'
  BY <1>1 DEF BuffersInv, Expunge, clientVars, bufVars, Pins, Entries
<1>7. LoadInv'
  <2>1. Stage \in {"idle", "up"}
    BY DEF Expunge, Stage
  <2> QED
    BY <1>1, <1>2, <2>1 DEF LoadInv, Expunge, heldVars
<1> QED
  BY <1>1, <1>4, <1>5, <1>6, <1>7

-----------------------------------------------------------------------------
(* BeginIO and AbortIO.                                                    *)

\* A client that stays with the unit and moves nothing but itself, its
\* request and the held requests.
LEMMA UserStep ==
  ASSUME LifecycleInv, NEW c \in Clients,
         BeginIO(c) \/ AbortIO(c) \/ (\E n \in Notes : AddChangeInt(c, n))
           \/ RemChangeInt(c) \/ Hold(c) \/ Drop(c)
  PROVE  LifecycleInv'
<1> USE DEF LifecycleInv
<1>1. /\ UNCHANGED <<vector, next, libVars, bufVars, taskVars, unitVars,
                     ctrl_c, ready, acked, faults, kept>>
      /\ pc[c] \in UserPc
  BY DEF BeginIO, AbortIO, AddChangeInt, RemChangeInt, Hold, Drop, clientVars,
         UserPc
<1>2. Stage = "up"
  BY <1>1, StageOf
<1>3. /\ CountsInv' /\ Stage' = "up"
      /\ pc' \in [Clients -> Pc]
      /\ note' \in [Clients -> Notes \cup {NULL}]
      /\ seen' \in [Clients -> Notes \cup {NULL}]
      /\ changeint_req' \in Notes \cup {NULL}
      /\ req' \in [Clients -> {"none", "queued", "busy"}]
      /\ sent' \in SUBSET Notes
      /\ replies' \in [Notes -> 0 .. 2]
  <2>1. CASE BeginIO(c) \/ AbortIO(c)
    BY <1>1, <1>2, <2>1, NobodyMoves
       DEF BeginIO, AbortIO, clientVars, heldVars, TypeOK, libVars, unitVars
  <2>2. CASE (\E n \in Notes : AddChangeInt(c, n)) \/ RemChangeInt(c)
    <3>1. PICK p \in {"hold", "drop"} : Goto(c, p)
      BY <2>2 DEF AddChangeInt, RemChangeInt
    <3>2. CountsInv' /\ Stage' = "up" /\ pc' \in [Clients -> Pc]
      BY <1>1, <3>1, Stays, GotoType DEF UserPc, Pc, libVars, unitVars
    <3> QED
      BY <2>2, <3>2 DEF AddChangeInt, RemChangeInt, heldVars, TypeOK
  <2>3. CASE Hold(c) \/ Drop(c)
    <3>1. Return(c)
      BY <2>3 DEF Hold, Drop
    <3>2. CountsInv' /\ Stage' = "up" /\ pc' \in [Clients -> Pc]
      BY <1>1, <3>1, Stays, GotoType DEF Return, UserPc, Pc, libVars, unitVars
    <3>3. replies' \in [Notes -> 0 .. 2]
      BY <2>3 DEF Hold, Drop, ReplyMsg, TypeOK
    <3> QED
      BY <2>3, <3>1, <3>2, <3>3 DEF Hold, Drop, Return, TypeOK
  <2> QED
    BY <2>1, <2>2, <2>3
<1>4. TypeOK'
  BY <1>1, <1>3 DEF TypeOK, libVars, bufVars, taskVars, unitVars
<1>5. HandshakeInv'
  BY <1>1, <1>2, <1>3 DEF HandshakeInv, taskVars, unitVars
<1>6. BuffersInv'
  BY <1>1, <1>2, <1>3 DEF BuffersInv, bufVars, Pins, Entries
<1>7. LoadInv'
  BY <1>1, <1>2, <1>3 DEF LoadInv, libVars
<1> QED
  BY <1>3, <1>4, <1>5, <1>6, <1>7

-----------------------------------------------------------------------------
(* The unit task.                                                          *)

\* The task moves no client, touches no buffer and no library base.
LEMMA TaskLeaves ==
  ASSUME LifecycleInv, Task
  PROVE  /\ UNCHANGED <<clientVars, libVars, bufVars, heldVars, open_count,
                        task_shutdown, shutdown_ack_task, kept>>
         /\ Stage' = Stage /\ CountsInv' /\ BuffersInv' /\ LoadInv'
<1> USE DEF LifecycleInv
<1>1. UNCHANGED <<clientVars, libVars, bufVars, heldVars, open_count,
                  task_shutdown, shutdown_ack_task, kept>>
  BY DEF Task, TaskStarts, TaskFails, Top, Wake, Harvest, Drain, FreePort,
         ClearTask, Acknowledge, unitVars, taskVars
<1>2. Stage' = Stage /\ CountsInv'
  BY <1>1, NobodyMoves DEF clientVars, libVars
<1>3. BuffersInv'
  BY <1>1, <1>2 DEF BuffersInv, clientVars, bufVars, Pins, Entries
<1>4. LoadInv'
  BY <1>1, <1>2 DEF LoadInv, libVars, heldVars
<1> QED
  BY <1>1, <1>2, <1>3, <1>4

LEMMA TaskType ==
  ASSUME LifecycleInv, Task
  PROVE  TypeOK'
<1> USE DEF LifecycleInv
<1>1. UNCHANGED <<clientVars, libVars, bufVars, heldVars, open_count,
                  task_shutdown, shutdown_ack_task, kept>>
  BY TaskLeaves
<1>2. /\ tpc' \in TaskPc /\ task' \in BOOLEAN /\ io_port' \in BOOLEAN
      /\ ctrl_c' \in BOOLEAN /\ ready' \in BOOLEAN /\ acked' \in BOOLEAN
      /\ ack_task' \in Clients \cup {NULL}
  BY Zenon DEF Task, TaskStarts, TaskFails, Top, Wake, Harvest, Drain, FreePort,
         ClearTask, Acknowledge, unitVars, taskVars, TaskGoto, TaskPc, TypeOK
<1>3. req' \in [Clients -> {"none", "queued", "busy"}]
  BY DEF Task, TaskStarts, TaskFails, Top, Wake, Harvest, Drain, FreePort,
         ClearTask, Acknowledge, TypeOK
<1>4. faults' \in 0 .. MaxFaults
  BY LifecycleAssumption
     DEF Task, TaskStarts, TaskFails, Top, Wake, Harvest, Drain, FreePort,
         ClearTask, Acknowledge, TypeOK
<1>5. leak_port' \in Nat
  <2>1. tpc = "port" => io_port /\ leak_port = 1
    BY StageOf DEF HandshakeInv, Starting, Stopping, VectorPc
  <2> QED
    BY <2>1 DEF Task, TaskStarts, TaskFails, Top, Wake, Harvest, Drain,
                FreePort, ClearTask, Acknowledge, taskVars, TypeOK
<1> QED
  BY <1>1, <1>2, <1>3, <1>4, <1>5
     DEF TypeOK, clientVars, libVars, bufVars, heldVars

LEMMA TaskHandshake ==
  ASSUME LifecycleInv, Task
  PROVE  HandshakeInv'
<1> USE DEF LifecycleInv
<1>1. UNCHANGED <<task_shutdown, shutdown_ack_task>> /\ Stage' = Stage
  BY TaskLeaves
<1>2. Stage \in VectorPc \cup {"idle", "up"} /\ VectorPc =
        {"alloc", "launch", "ready", "signal", "ack", "spin"}
  BY StageOf DEF VectorPc
<1>3. tpc # "none"
  BY DEF Task, TaskStarts, TaskFails, Top, Wake, Harvest, Drain, FreePort,
         ClearTask, Acknowledge
<1>4. Stage \in {"ready", "up", "signal", "ack", "spin"}
  BY <1>2, <1>3 DEF HandshakeInv
<1>5. CASE TaskStarts \/ TaskFails
  BY <1>1, <1>4, <1>5
     DEF TaskStarts, TaskFails, HandshakeInv, Starting, Stopping, TaskGoto
<1>6. CASE Top
  BY <1>1, <1>4, <1>6
     DEF Top, HandshakeInv, Starting, Stopping, TaskGoto, taskVars, unitVars
<1>7. CASE Wake
  BY <1>1, <1>4, <1>7
     DEF Wake, HandshakeInv, Starting, Stopping, TaskGoto, taskVars, unitVars
<1>8. CASE (\E c \in Clients : Harvest(c))
  BY <1>1, <1>4, <1>8
     DEF Harvest, HandshakeInv, Starting, Stopping, taskVars, unitVars
<1>9. CASE Drain
  BY <1>1, <1>4, <1>9
     DEF Drain, HandshakeInv, Starting, Stopping, TaskGoto, unitVars
<1>10. CASE FreePort
  BY <1>1, <1>4, <1>10
     DEF FreePort, HandshakeInv, Starting, Stopping, TaskGoto
<1>11. CASE ClearTask
  BY <1>1, <1>4, <1>11
     DEF ClearTask, HandshakeInv, Starting, Stopping, TaskGoto
<1>12. CASE Acknowledge
  BY <1>1, <1>4, <1>12
     DEF Acknowledge, HandshakeInv, Starting, Stopping, TaskGoto, unitVars
<1> QED
  BY <1>5, <1>6, <1>7, <1>8, <1>9, <1>10, <1>11, <1>12 DEF Task

-----------------------------------------------------------------------------
(* The invariant, and what follows from it.                                *)

LEMMA InitInv == Init => LifecycleInv
<1> SUFFICES ASSUME Init PROVE LifecycleInv
  OBVIOUS
<1> USE LifecycleAssumption DEF Init
<1>1. TypeOK
  <2>1. /\ pc \in [Clients -> Pc] /\ tpc \in TaskPc
        /\ note \in [Clients -> Notes \cup {NULL}]
        /\ seen \in [Clients -> Notes \cup {NULL}]
        /\ req \in [Clients -> {"none", "queued", "busy"}]
    BY DEF Pc, TaskPc
  <2>2. /\ next \in Slot /\ faults \in 0 .. MaxFaults
        /\ replies \in [Notes -> 0 .. 2]
    BY DEF Slot
  <2>3. /\ lib_OpenCnt \in Nat /\ open_count \in Nat
        /\ leak_dma \in Nat /\ leak_dmaentry \in Nat /\ leak_port \in Nat
    OBVIOUS
  <2> QED
    BY <2>1, <2>2, <2>3 DEF TypeOK
<1>2. Users = {} /\ Stage = "idle"
  BY DEF Users, UserPc, Stage
<1>3. CountsInv
  BY <1>2, FS_EmptySet DEF CountsInv, VectorPc
<1>4. HandshakeInv
  BY <1>2 DEF HandshakeInv
<1>5. Pins = 0 /\ Entries = 0
  BY FS_EmptySet DEF Pins, Entries, Dsm
<1>6. BuffersInv
  BY <1>2, <1>5 DEF BuffersInv
<1>7. LoadInv
  BY <1>2 DEF LoadInv
<1> QED
  BY <1>1, <1>3, <1>4, <1>6, <1>7 DEF LifecycleInv

LEMMA NextInv == LifecycleInv /\ [Next]_vars => LifecycleInv'
<1> SUFFICES ASSUME LifecycleInv, [Next]_vars PROVE LifecycleInv'
  OBVIOUS
<1>1. CASE Task
  BY <1>1, TaskLeaves, TaskType, TaskHandshake DEF LifecycleInv
<1>2. CASE Expunge
  BY <1>2, ExpungeStep
<1>3. ASSUME NEW c \in Clients, Client(c) PROVE LifecycleInv'
  BY <1>3, OpenStep, CloseStep, UserStep DEF Client
<1>4. CASE UNCHANGED vars
  BY <1>4 DEF LifecycleInv, TypeOK, CountsInv, HandshakeInv, Starting,
     Stopping, BuffersInv, LoadInv, Stage, Users, Pins, Entries, vars,
     clientVars, libVars, bufVars, heldVars, taskVars, unitVars
<1> QED
  BY <1>1, <1>2, <1>3, <1>4 DEF Next

(* Whoever opens, closes and expunges in whatever order, and wherever an   *)
(* allocation fails, counts, handshakes, buffers and library agree with    *)
(* the stage of the unit (Open.c, Close.c, Expunge.c, unit_task.c:709-756, *)
(* 866-1254).                                                              *)
THEOREM LifecycleInvariant == Spec => []LifecycleInv
<1> QED
  BY InitInv, NextInv, PTL DEF Spec

(* Every variable keeps its type: no count goes below zero (Open.c:61-72,  *)
(* Close.c:32-53).                                                         *)
THEOREM LifecycleTypeCorrect == Spec => []TypeOK
<1>1. LifecycleInv => TypeOK
  BY DEF LifecycleInv
<1> QED
  BY <1>1, LifecycleInvariant, PTL

(* An open unit has a task that runs, with its port, and no shutdown left  *)
(* over from an earlier life (Open.c:53-60, unit_task.c:1095).             *)
THEOREM OpenIsServed == Spec => []OpenMeansServed
<1>1. LifecycleInv => OpenMeansServed
  <2> SUFFICES ASSUME LifecycleInv, NEW c \in Clients, pc[c] \in UserPc
      PROVE  task /\ io_port /\ ~task_shutdown /\ ~ctrl_c
               /\ tpc \in {"top", "wait"}
    BY DEF OpenMeansServed, UserPc
  <2>1. Stage = "up"
    BY StageOf DEF LifecycleInv
  <2> QED
    BY <2>1 DEF LifecycleInv, HandshakeInv
<1> QED
  BY <1>1, LifecycleInvariant, PTL

(* The task never works on buffers that are not there yet or not there any *)
(* more (unit_task.c:1211-1253).                                           *)
THEOREM BuffersOutliveTask == Spec => []NoUseAfterFree
<1>1. LifecycleInv => NoUseAfterFree
  BY DEF LifecycleInv, NoUseAfterFree, HandshakeInv, BuffersInv
<1> QED
  BY <1>1, LifecycleInvariant, PTL

(* Unless a start failed in the task or a shutdown fell back to the spin,  *)
(* nothing is leaked, wherever an allocation failed (unit_task.c:1128-1164,*)
(* 1221-1253).                                                             *)
THEOREM NothingLeaks == Spec => []NoLeak
<1>1. LifecycleInv => NoLeak
  <2> SUFFICES ASSUME LifecycleInv PROVE NoLeak
    OBVIOUS
  <2>1. vector = NULL /\ open_count = 0 => Stage = "idle"
    BY DEF Stage
  <2>2. Stage = "idle" /\ ~kept => Pins = 0 /\ Entries = 0
    BY FS_EmptySet DEF LifecycleInv, BuffersInv, Pins, Entries, Dsm
  <2>3. Stage = "idle" => leak_port = 0
    BY DEF LifecycleInv, HandshakeInv
  <2> QED
    BY <2>1, <2>2, <2>3 DEF LifecycleInv, BuffersInv, NoLeak
<1> QED
  BY <1>1, LifecycleInvariant, PTL

(* The device is unloaded only when nobody uses it and nothing of it runs  *)
(* (Expunge.c:35-42, Close.c:53-59).                                       *)
THEOREM UnloadsUnused == Spec => []NoUnloadWhileUsed
<1>1. LifecycleInv => NoUnloadWhileUsed
  <2> SUFFICES ASSUME LifecycleInv, ~loaded PROVE NoUnloadWhileUsed
    BY DEF NoUnloadWhileUsed
  <2>1. Stage = "idle"
    BY DEF LifecycleInv, LoadInv
  <2>2. \A c \in Clients : pc[c] \notin UserPc \cup VectorPc
    BY <2>1, StageOf DEF LifecycleInv, VectorPc
  <2>3. \A c \in Clients : pc[c] = "closed"
    BY <2>2 DEF LifecycleInv, TypeOK, Pc, UserPc, VectorPc
  <2> QED
    BY <2>1, <2>3 DEF LifecycleInv, LoadInv, HandshakeInv, NoUnloadWhileUsed
<1> QED
  BY <1>1, LifecycleInvariant, PTL

(* A deferred Expunge is carried out by the last close or cancelled by a   *)
(* later open (Expunge.c:35-42, Close.c:53-59, Open.c:64).                 *)
THEOREM ExpungeRemembered == Spec => []DeferredNotForgotten
<1>1. LifecycleInv => DeferredNotForgotten
  <2> SUFFICES ASSUME LifecycleInv, vector = NULL, lib_OpenCnt = 0, loaded
      PROVE  ~delexp
    BY DEF DeferredNotForgotten
  <2>1. Stage = "idle"
    BY DEF LifecycleInv, CountsInv, Stage, TypeOK
  <2> QED
    BY <2>1 DEF LifecycleInv, LoadInv
<1> QED
  BY <1>1, LifecycleInvariant, PTL

-----------------------------------------------------------------------------
(* The held requests.                                                      *)

\* With one sender, a client that is in one of the calls is the only one
\* that is, or could be.
LEMMA OnlySender ==
  ASSUME OneSender, NotesInv, NEW c \in Clients, NEW d \in Clients,
         pc[d] \in {"hold", "drop"}, \E n \in Notes : Owner[n] = c
  PROVE  d = c
  BY DEF OneSender, NotesInv

\* A call that has read the slot replies what it has read.
LEMMA ReplyOnce ==
  ASSUME TypeOK, NEW n \in Notes \cup {NULL}, ReplyMsg(n),
         n # NULL => replies[n] = 0
  PROVE  \A k \in Notes : replies'[k] = IF k = n THEN 1 ELSE replies[k]
<1>1. CASE n = NULL
  BY <1>1, LifecycleAssumption DEF ReplyMsg
<1>2. CASE n # NULL
  BY <1>2 DEF ReplyMsg, TypeOK
<1> QED
  BY <1>1, <1>2

\* The call that ends: who was arriving has arrived.
LEMMA Returned ==
  ASSUME TypeOK, OneSender, NotesInv, NEW c \in Clients,
         pc[c] \in {"hold", "drop"}, Return(c)
  PROVE  /\ \A d \in Clients : pc'[d] \notin {"hold", "drop"}
         /\ \A n \in Notes : ~Arriving(n)'
         /\ \A n \in Notes : Arriving(n) <=> pc[c] = "hold" /\ note[c] = n
<1>1. \A d \in Clients \ {c} : pc[d] \notin {"hold", "drop"}
  BY OnlySender DEF NotesInv
<1>2. pc'[c] = "open" /\ \A d \in Clients \ {c} : pc'[d] = pc[d]
  BY UsersMove DEF Return
<1>3. \A d \in Clients : pc'[d] \notin {"hold", "drop"}
  BY <1>1, <1>2
<1>4. \A n \in Notes : ~Arriving(n)'
  BY <1>3 DEF Arriving
<1>5. \A n \in Notes : Arriving(n) <=> pc[c] = "hold" /\ note[c] = n
  BY <1>1 DEF Arriving
<1> QED
  BY <1>3, <1>4, <1>5

LEMMA NotesStep ==
  ASSUME LifecycleInv, OneSender, NotesInv, [Next]_vars
  PROVE  NotesInv'
<1> USE LifecycleAssumption
<1>1. TypeOK /\ CountsInv
  BY DEF LifecycleInv
\* Whoever else moves stays out of the two calls.
<1>2. ASSUME UNCHANGED <<note, seen, changeint_req, sent, replies>>,
             \A c \in Clients :
               \/ pc'[c] = pc[c]
               \/ {pc[c], pc'[c]} \cap {"hold", "drop"} = {}
      PROVE  NotesInv'
  <2>1. \A c \in Clients : \A p \in {"hold", "drop"} : pc'[c] = p <=> pc[c] = p
    BY <1>2
  <2>2. \A n \in Notes : Arriving(n)' <=> Arriving(n)
    BY <1>2, <2>1 DEF Arriving
  <2> QED
    BY <1>2, <2>1, <2>2 DEF NotesInv
<1>3. CASE Task \/ Expunge \/ UNCHANGED vars
  <2>1. UNCHANGED <<note, seen, changeint_req, sent, replies, pc>>
    BY <1>3, TaskLeaves DEF Expunge, vars, clientVars, heldVars
  <2> QED
    BY <1>2, <2>1
<1>4. ASSUME NEW c \in Clients, Client(c)
      PROVE  NotesInv'
  <2>1. CASE Open(c) \/ CloseMore(c) \/ Signal(c) \/ Stopped(c) \/ Spun(c)
               \/ BeginIO(c) \/ AbortIO(c)
    <3>1. UNCHANGED <<note, seen, changeint_req, sent, replies>>
      BY <2>1 DEF Open, OpenMore, OpenFirst, AllocSlot, AllocFails, Launch,
         LaunchFails, Started, CloseMore, Signal, Stopped, Spun, BeginIO,
         AbortIO, clientVars, heldVars
    <3>2. \/ pc' = pc
          \/ /\ pc[c] \notin {"hold", "drop"}
             /\ \E p \in Pc \ {"hold", "drop"} : Goto(c, p)
      BY <2>1 DEF Open, OpenMore, OpenFirst, AllocSlot, AllocFails, Launch,
         LaunchFails, Started, CloseMore, Signal, Stopped, Spun, BeginIO,
         AbortIO, clientVars, Opened, NotOpened, Fail, CloseEnd, Pc
    <3>3. ASSUME NEW p \in Pc \ {"hold", "drop"}, Goto(c, p),
                 pc[c] \notin {"hold", "drop"}
          PROVE  \A d \in Clients :
                   \/ pc'[d] = pc[d]
                   \/ {pc[d], pc'[d]} \cap {"hold", "drop"} = {}
      BY <1>1, <3>3, UsersMove
    <3> QED
      BY <1>2, <3>1, <3>2, <3>3
  <2>2. CASE CloseLast(c)
    <3>1. pc[c] = "open" /\ Users = {c}
      <4>1. pc[c] = "open" /\ Cardinality(Users) = 1 /\ IsFiniteSet(Users)
        BY <1>1, <2>2 DEF CloseLast, CountsInv
      <4>2. c \in Users
        BY <4>1 DEF Users, UserPc
      <4> QED
        BY <4>1, <4>2, FS_Singleton
    <3>2. \A d \in Clients : pc[d] \notin {"hold", "drop"}
      BY <3>1 DEF Users, UserPc
    <3>3. \A d \in Clients : pc'[d] \notin {"hold", "drop"}
      BY <1>1, <2>2, <3>2, UsersMove DEF CloseLast, Ask
    <3>4. \A n \in Notes : ~Arriving(n) /\ ~Arriving(n)'
      BY <3>2, <3>3 DEF Arriving
    <3>5. changeint_req # NULL => replies[changeint_req] = 0
      BY <1>1 DEF NotesInv, TypeOK
    <3>6. \A k \in Notes :
            replies'[k] = IF k = changeint_req THEN 1 ELSE replies[k]
      BY <1>1, <2>2, <3>5, ReplyOnce DEF CloseLast, TypeOK
    <3> QED
      BY <2>2, <3>3, <3>4, <3>6 DEF NotesInv, CloseLast
  <2>3. ASSUME NEW n \in Notes, AddChangeInt(c, n)
        PROVE  NotesInv'
    <3>1. /\ pc'[c] = "hold" /\ \A d \in Clients \ {c} : pc'[d] = pc[d]
          /\ note'[c] = n /\ \A d \in Clients \ {c} : note'[d] = note[d]
          /\ seen'[c] = changeint_req
          /\ \A d \in Clients \ {c} : seen'[d] = seen[d]
          /\ n \notin sent /\ sent' = sent \cup {n} /\ Owner[n] = c
          /\ changeint_req' = changeint_req /\ replies' = replies
          /\ pc[c] = "open"
      BY <1>1, <2>3, UsersMove DEF AddChangeInt, TypeOK
    <3>2. \A k \in Notes : Arriving(k)' <=> Arriving(k) \/ k = n
      BY <3>1 DEF Arriving
    <3> QED
      BY <1>1, <3>1, <3>2 DEF NotesInv, TypeOK
  <2>4. CASE RemChangeInt(c)
    <3>1. /\ pc'[c] = "drop" /\ \A d \in Clients \ {c} : pc'[d] = pc[d]
          /\ seen'[c] = changeint_req /\ changeint_req # NULL
          /\ \A d \in Clients \ {c} : seen'[d] = seen[d]
          /\ UNCHANGED <<note, sent, changeint_req, replies>>
          /\ pc[c] = "open" /\ \E n \in Notes : Owner[n] = c
      BY <1>1, <2>4, UsersMove DEF RemChangeInt, TypeOK, heldVars
    <3>2. \A k \in Notes : Arriving(k)' <=> Arriving(k)
      BY <3>1 DEF Arriving
    <3> QED
      BY <1>1, <3>1, <3>2 DEF NotesInv, TypeOK
  <2>5. CASE Hold(c) \/ Drop(c)
    <3>1. /\ \A d \in Clients : pc'[d] \notin {"hold", "drop"}
          /\ \A n \in Notes : ~Arriving(n)'
          /\ \A n \in Notes : Arriving(n) <=> pc[c] = "hold" /\ note[c] = n
      BY <1>1, <2>5, Returned DEF Hold, Drop
    <3>2. seen[c] = changeint_req
      BY <2>5 DEF Hold, Drop, NotesInv
    <3>3. changeint_req # NULL => replies[changeint_req] = 0
      BY <1>1 DEF NotesInv, TypeOK
    <3>4. \A k \in Notes :
            replies'[k] = IF k = changeint_req THEN 1 ELSE replies[k]
      BY <1>1, <2>5, <3>2, <3>3, ReplyOnce DEF Hold, Drop, TypeOK
    <3>5. sent' = sent
      BY <2>5 DEF Hold, Drop
    <3>6. CASE Hold(c)
      <4>1. /\ changeint_req' = note[c] /\ note[c] \in sent
            /\ note[c] # changeint_req /\ pc[c] = "hold"
        BY <3>6 DEF Hold, NotesInv
      <4> QED
        BY <3>1, <3>4, <3>5, <4>1 DEF NotesInv
    <3>7. CASE Drop(c)
      <4>1. changeint_req' = NULL /\ pc[c] = "drop"
        BY <3>7 DEF Drop
      <4> QED
        BY <3>1, <3>4, <3>5, <4>1 DEF NotesInv
    <3> QED
      BY <2>5, <3>6, <3>7
  <2> QED
    BY <1>4, <2>1, <2>2, <2>3, <2>4, <2>5 DEF Client, Close
<1> QED
  BY <1>3, <1>4 DEF Next

(* As long as one client sends all the TD_ADDCHANGEINT, every one of them  *)
(* is held or has been replied, once, however its calls are interleaved    *)
(* with the opens, closes and transfers of all the others (BeginIO.c:83-124,*)
(* Close.c:35-39).                                                         *)
THEOREM NotesHeldOnce ==
  ASSUME OneSender
  PROVE  Spec => []HeldOnce
<1>1. Init => NotesInv
  BY LifecycleAssumption DEF Init, NotesInv
<1>2. LifecycleInv /\ NotesInv /\ [Next]_vars => NotesInv'
  BY NotesStep
<1>3. LifecycleInv /\ NotesInv => HeldOnce
  <2> SUFFICES ASSUME LifecycleInv, NotesInv, NEW n \in sent
      PROVE  \/ \E c \in Clients : Inside(c) /\ note[c] = n /\ pc[c] = "hold"
             \/ changeint_req = n /\ replies[n] = 0
             \/ changeint_req # n /\ replies[n] = 1
    BY DEF HeldOnce
  <2>1. n \in Notes
    BY DEF LifecycleInv, TypeOK
  <2>2. CASE Arriving(n)
    BY <2>2 DEF Arriving, Inside
  <2>3. CASE ~Arriving(n)
    BY <2>1, <2>3 DEF NotesInv
  <2> QED
    BY <2>2, <2>3
<1> QED
  BY <1>1, <1>2, <1>3, LifecycleInvariant, PTL DEF Spec

=============================================================================

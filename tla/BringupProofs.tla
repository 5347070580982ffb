--------------------------- MODULE BringupProofs ----------------------------
(***************************************************************************)
(* Machine-checked proofs about Bringup, for any number of controllers and *)
(* namespaces and any number of steps that fail.                           *)
(*                                                                         *)
(* BringupInv is inductive as a whole only, but most of it splits: each    *)
(* layer needs the layers before it at the start of a step.                *)
(*   Place   where the load is, and what that says of have and cur         *)
(*   Memory  the flags and pointers that nvme_init.c:233-277 goes by       *)
(*   Others  the counters of libraries, PCI objects, admin memory, vectors *)
(*   Table   the table of units, and the namespaces still to be tried      *)
(*   Units   the counters of what a unit owns                              *)
(*   Hw      what the controllers know, and which of them have failed      *)
(* Each ends in a lemma ...Step, and BringupSteps puts them together.      *)
(***************************************************************************)
EXTENDS BringupInv, FiniteSetTheorems, TLAPS

-----------------------------------------------------------------------------
(* The counters.                                                           *)

LEMMA OfMember ==
  ASSUME NEW T, NEW d, NEW m, NEW x, NEW c, NEW n
  PROVE  <<x, c, n>> \in Of(T, d, m) <=> x \in T /\ c = d /\ n = m
  BY DEF Of

LEMMA IsResource ==
  /\ \A x \in Libraries : <<x, 0, 0>> \in Resource
  /\ \A x \in {"pcidev", "resource", "irq"}, c \in Ctrl : <<x, c, 0>> \in Resource
  /\ \A x \in AdminMemory, c \in Ctrl : <<x, c, 0>> \in Resource
  /\ \A x \in UnitMemory \cup UnitEntries, c \in Ctrl, n \in Nsid :
       <<x, c, n>> \in Resource
  BY DEF Resource, AdminMemory

LEMMA ResourceIs ==
  ASSUME NEW r \in Resource
  PROVE  \/ \E x \in Libraries : r = <<x, 0, 0>>
         \/ \E x \in {"pcidev", "resource", "irq"}, c \in Ctrl : r = <<x, c, 0>>
         \/ \E x \in AdminMemory, c \in Ctrl : r = <<x, c, 0>>
         \/ \E x \in UnitMemory \cup UnitEntries, c \in Ctrl, n \in Nsid :
              r = <<x, c, n>>
  BY DEF Resource, AdminMemory

\* One more, or one less, of each object that is acquired or released.
LEMMA Acquired ==
  ASSUME count \in [Resource -> Int], NEW S, Acquire(S)
  PROVE  /\ count' \in [Resource -> Int]
         /\ \A r \in Resource : count'[r] = count[r] + IF r \in S THEN 1 ELSE 0
  BY DEF Acquire

LEMMA Released ==
  ASSUME count \in [Resource -> Int], NEW S, Release(S)
  PROVE  /\ count' \in [Resource -> Int]
         /\ \A r \in Resource : count'[r] = count[r] - IF r \in S THEN 1 ELSE 0
  BY DEF Release

\* The counters of some kinds of object do not move.
SameCounts(K) ==
  \A x \in K, c \in Ctrl \cup {0}, n \in Nsid \cup {0} :
    <<x, c, n>> \in Resource => count'[<<x, c, n>>] = count[<<x, c, n>>]

LEMMA OtherKinds ==
  ASSUME count \in [Resource -> Int], NEW T, NEW d, NEW m, NEW K, T \cap K = {},
         Acquire(Of(T, d, m)) \/ Release(Of(T, d, m))
  PROVE  SameCounts(K)
<1> SUFFICES ASSUME NEW x \in K, NEW c \in Ctrl \cup {0}, NEW n \in Nsid \cup {0},
                    <<x, c, n>> \in Resource
             PROVE  count'[<<x, c, n>>] = count[<<x, c, n>>]
  BY DEF SameCounts
<1>1. <<x, c, n>> \notin Of(T, d, m)
  BY OfMember
<1> DEFINE S == Of(T, d, m)
           r == <<x, c, n>>
<1>2. r \in Resource /\ r \notin S /\ count[r] \in Int
  BY <1>1
<1>3. Acquire(S) \/ Release(S)
  OBVIOUS
<1> HIDE DEF S, r
<1>4. count'[r] = count[r]
  BY <1>2, <1>3, Acquired, Released
<1> QED
  BY <1>4 DEF r

LEMMA AcquiredOf ==
  ASSUME count \in [Resource -> Int], NEW T, NEW d, NEW m, Acquire(Of(T, d, m))
  PROVE  /\ count' \in [Resource -> Int]
         /\ \A x, c, n : <<x, c, n>> \in Resource =>
              count'[<<x, c, n>>] =
                count[<<x, c, n>>] + IF x \in T /\ c = d /\ n = m THEN 1 ELSE 0
<1> DEFINE S == Of(T, d, m)
<1>1. Acquire(S)
  OBVIOUS
<1>2. \A x, c, n : <<x, c, n>> \in S <=> x \in T /\ c = d /\ n = m
  BY OfMember
<1> HIDE DEF S
<1> QED
  BY <1>1, <1>2, Acquired

LEMMA ReleasedOf ==
  ASSUME count \in [Resource -> Int], NEW T, NEW d, NEW m, Release(Of(T, d, m))
  PROVE  /\ count' \in [Resource -> Int]
         /\ \A x, c, n : <<x, c, n>> \in Resource =>
              count'[<<x, c, n>>] =
                count[<<x, c, n>>] - IF x \in T /\ c = d /\ n = m THEN 1 ELSE 0
<1> DEFINE S == Of(T, d, m)
<1>1. Release(S)
  OBVIOUS
<1>2. \A x, c, n : <<x, c, n>> \in S <=> x \in T /\ c = d /\ n = m
  BY OfMember
<1> HIDE DEF S
<1> QED
  BY <1>1, <1>2, Released

LEMMA OneObject ==
  ASSUME NEW x, NEW c, NEW n
  PROVE  {<<x, c, n>>} = Of({x}, c, n)
  BY DEF Of

LEMMA PciMember ==
  ASSUME NEW C, NEW x, NEW c, NEW n
  PROVE  <<x, c, n>> \in PciObjects(C) <=>
           x \in {"pcidev", "resource"} /\ c \in C /\ n = 0
<1>1. \A d : <<x, c, n>> \in Of({"pcidev", "resource"}, d, 0) <=>
               x \in {"pcidev", "resource"} /\ c = d /\ n = 0
  BY OfMember
<1> QED
  BY <1>1 DEF PciObjects

BusKinds == Libraries \cup {"pcidev", "resource"}

\* The kinds have nothing in common.
LEMMA KindsDiffer ==
  /\ BusKinds \cap AdminMemory = {} /\ "irq" \notin BusKinds \cup AdminMemory
  /\ (UnitMemory \cup UnitEntries) \cap (BusKinds \cup AdminMemory \cup {"irq"}) = {}
  /\ UnitMemory \cap UnitEntries = {}
  /\ Vectors \cap Pins = {} /\ Vectors \cap Entries = {} /\ Pins \cap Entries = {}
  /\ "discovery" \notin Libraries
  BY DEF BusKinds, Libraries, AdminMemory, Vectors, Pins, Entries, UnitMemory,
         UnitEntries

-----------------------------------------------------------------------------
(* The steps of InitNVMe and of the loop over the namespaces.              *)

LEMMA InitStepsAre ==
  /\ Len(InitSteps) = 13 /\ Len(UnitSteps) = 12
  /\ InitSteps[1] = "disable" /\ InitSteps[2] = "admin_sq"
  /\ InitSteps[3] = "admin_cq" /\ InitSteps[4] = "admin_sq_pin"
  /\ InitSteps[5] = "admin_sq_dma" /\ InitSteps[6] = "admin_cq_pin"
  /\ InitSteps[7] = "admin_cq_dma" /\ InitSteps[8] = "enable"
  /\ InitSteps[9] = "ready" /\ InitSteps[10] = "identify_buf"
  /\ InitSteps[11] = "identify_pin" /\ InitSteps[12] = "identify_dma"
  /\ InitSteps[13] = "identify"
  BY DEF InitSteps, UnitSteps

LEMMA UnitStepsAre ==
  /\ UnitSteps[1] = "unit" /\ UnitSteps[2] = "identify"
  /\ UnitSteps[3] = "io_sq" /\ UnitSteps[4] = "io_cq"
  /\ UnitSteps[5] = "queues" /\ UnitSteps[6] = "sq_pin"
  /\ UnitSteps[7] = "sq_dma" /\ UnitSteps[8] = "cq_pin"
  /\ UnitSteps[9] = "cq_dma" /\ UnitSteps[10] = "entries"
  /\ UnitSteps[11] = "create_cq" /\ UnitSteps[12] = "create_sq"
  BY DEF UnitSteps

\* No step of InitNVMe is there twice.
LEMMA InitStepsDiffer ==
  ASSUME NEW i \in 1 .. 13, NEW j \in 1 .. 13, InitSteps[i] = InitSteps[j]
  PROVE  i = j
<1>1. i \in 1 .. 7 \/ i \in 8 .. 13
  OBVIOUS
<1>2. CASE i \in 1 .. 7
  BY <1>2, InitStepsAre
<1>3. CASE i \in 8 .. 13
  BY <1>3, InitStepsAre
<1> QED
  BY <1>1, <1>2, <1>3

LEMMA InitPlaces ==
  /\ step \in 1 .. 13 /\ InitStep \in AdminMemory =>
       step \in (2 .. 7) \cup (10 .. 12)
  /\ \A x \in AdminMemory : \E k \in 2 .. 12 : InitSteps[k] = x
  /\ \A x \in {"admin_sq", "admin_cq", "admin_sq_pin", "admin_cq_pin"} :
       x \in AdminMemory /\ \E k \in 2 .. 6 : InitSteps[k] = x
<1>1. step \in 1 .. 13 /\ InitStep \in AdminMemory =>
        step \in (2 .. 7) \cup (10 .. 12)
  BY InitStepsAre DEF InitStep, AdminMemory, Vectors, Pins, Entries
<1>2. ASSUME NEW x \in AdminMemory
      PROVE  \E k \in 2 .. 12 : InitSteps[k] = x
  <2>1. /\ 2 \in 2 .. 12 /\ 3 \in 2 .. 12 /\ 4 \in 2 .. 12 /\ 5 \in 2 .. 12
        /\ 6 \in 2 .. 12 /\ 7 \in 2 .. 12 /\ 10 \in 2 .. 12
        /\ 11 \in 2 .. 12 /\ 12 \in 2 .. 12
    OBVIOUS
  <2> QED
    BY <2>1, InitStepsAre DEF AdminMemory, Vectors, Pins, Entries
<1>3. ASSUME NEW x \in {"admin_sq", "admin_cq", "admin_sq_pin", "admin_cq_pin"}
      PROVE  x \in AdminMemory /\ \E k \in 2 .. 6 : InitSteps[k] = x
  <2>1. 2 \in 2 .. 6 /\ 3 \in 2 .. 6 /\ 4 \in 2 .. 6 /\ 6 \in 2 .. 6
    OBVIOUS
  <2> QED
    BY <2>1, InitStepsAre DEF AdminMemory, Vectors, Pins, Entries
<1> QED
  BY <1>1, <1>2, <1>3

LEMMA TakenIs ==
  ASSUME step \in 1 .. 13, NEW S
  PROVE  /\ InitStep \notin Taken(S)
         /\ step = 1 => Taken(S) = {}
         /\ step > 8 => \A x \in S \cap {"admin_sq", "admin_cq",
                                        "admin_sq_pin", "admin_cq_pin"} :
                          x \in Taken(S)
         /\ step = 13 /\ S \subseteq AdminMemory => Taken(S) = S
<1>1. InitStep \notin Taken(S)
  <2> SUFFICES ASSUME NEW k \in 1 .. step - 1, InitSteps[k] = InitSteps[step]
               PROVE  FALSE
    BY DEF Taken, InitStep
  <2> QED
    BY InitStepsDiffer
<1>2. step = 1 => Taken(S) = {}
  BY DEF Taken
<1>3. ASSUME step > 8,
             NEW x \in S \cap {"admin_sq", "admin_cq", "admin_sq_pin", "admin_cq_pin"}
      PROVE  x \in Taken(S)
  <2>1. PICK k \in 2 .. 6 : InitSteps[k] = x
    BY InitPlaces
  <2> QED
    BY <1>3, <2>1 DEF Taken
<1>4. ASSUME step = 13, S \subseteq AdminMemory, NEW x \in S
      PROVE  x \in Taken(S)
  <2>1. PICK k \in 2 .. 12 : InitSteps[k] = x
    BY <1>4, InitPlaces
  <2> QED
    BY <1>4, <2>1 DEF Taken
<1>5. Taken(S) \subseteq S
  BY DEF Taken
<1> QED
  BY <1>1, <1>2, <1>3, <1>4, <1>5

LEMMA TakenGrows ==
  ASSUME step \in 1 .. 13, step' = step + 1, NEW S
  PROVE  Taken(S)' = Taken(S) \cup ({InitStep} \cap S)
<1>1. 1 .. step' - 1 = (1 .. step - 1) \cup {step}
  OBVIOUS
<1> QED
  BY <1>1 DEF Taken, InitStep

LEMMA PassedIs ==
  ASSUME NEW s \in 1 .. 12
  PROVE  /\ s = 1 => Passed(s) = {}
         /\ s \in {2, 3} => Passed(s) = {"unit"}
         /\ s = 4 => Passed(s) = {"unit", "io_sq"}
         /\ s \in {5, 6} => Passed(s) = {"unit", "io_sq", "io_cq"}
         /\ s = 7 => Passed(s) = {"unit", "io_sq", "io_cq", "sq_pin"}
         /\ s = 8 => Passed(s) = {"unit", "io_sq", "io_cq", "sq_pin", "sq_dma"}
         /\ s = 9 => Passed(s) = UnitMemory \cup {"sq_dma"}
         /\ s = 10 => Passed(s) = UnitMemory \cup UnitEntries
         /\ s \in {11, 12} => Passed(s) = UnitMemory
<1> DEFINE Place == [x \in UnitMemory \cup UnitEntries |->
                      IF x = "unit" THEN 1 ELSE IF x = "io_sq" THEN 3
                      ELSE IF x = "io_cq" THEN 4 ELSE IF x = "sq_pin" THEN 6
                      ELSE IF x = "sq_dma" THEN 7 ELSE IF x = "cq_pin" THEN 8
                      ELSE 9]
<1>1. ASSUME NEW x \in UnitMemory \cup UnitEntries, NEW k \in 1 .. 12
      PROVE  UnitSteps[k] = x <=> k = Place[x]
  BY UnitStepsAre DEF UnitMemory, UnitEntries
<1>2. \A x \in UnitMemory \cup UnitEntries :
        (\E k \in 1 .. s - 1 : UnitSteps[k] = x) <=> Place[x] < s
  <2>1. \A x \in UnitMemory \cup UnitEntries : Place[x] \in 1 .. 9
    BY DEF UnitMemory, UnitEntries
  <2> HIDE DEF Place
  <2> QED
    BY <1>1, <2>1
<1>3. \A x : x \in Passed(s) <=>
              /\ x \in UnitMemory \cup UnitEntries
              /\ Place[x] < s
              /\ s > 10 => x \notin UnitEntries
  <2> HIDE DEF Place
  <2> QED
    BY <1>2 DEF Passed
<1>4. /\ Place["unit"] = 1 /\ Place["io_sq"] = 3 /\ Place["io_cq"] = 4
      /\ Place["sq_pin"] = 6 /\ Place["sq_dma"] = 7 /\ Place["cq_pin"] = 8
      /\ Place["cq_dma"] = 9
  BY DEF UnitMemory, UnitEntries
<1> HIDE DEF Place
<1> QED
  BY <1>3, <1>4 DEF UnitMemory, UnitEntries

\* The error path of a step that notices a failure frees what is there.
LEMMA DropFrees ==
  ASSUME pc = "unit", TurnInv, step \in 1 .. 12, UnitStep \notin IfThere
  PROVE  UnitFrees \ (IfThere \ local) = local
<1>1. local \subseteq Passed(step) /\ Passed(step) \ Gaps(step) \subseteq local
  BY DEF TurnInv
<1>2. step \in {1, 2, 5, 6, 8, 10, 11, 12}
  BY UnitStepsAre DEF UnitStep, IfThere
<1>3. CASE step = 1
  <2>1. UnitFrees = {}
    BY <1>3, UnitStepsAre DEF UnitFrees, UnitStep
  <2> QED
    BY <1>1, <1>3, <2>1, PassedIs
<1>4. CASE step = 2
  <2>1. UnitFrees = {"unit"}
    BY <1>4, UnitStepsAre DEF UnitFrees, UnitStep
  <2> QED
    BY <1>1, <1>4, <2>1, PassedIs DEF IfThere, Gaps, UnitEntries
<1>5. CASE step \in {5, 6}
  <2>1. UnitFrees = {"unit", "io_sq", "io_cq"}
    BY <1>5, UnitStepsAre DEF UnitFrees, UnitStep
  <2> QED
    BY <1>1, <1>5, <2>1, PassedIs DEF IfThere, Gaps, UnitEntries
<1>6. CASE step = 8
  <2>1. UnitFrees = {"unit", "io_sq", "io_cq", "sq_pin", "sq_dma"}
    BY <1>6, UnitStepsAre DEF UnitFrees, UnitStep
  <2> QED
    BY <1>1, <1>6, <2>1, PassedIs DEF IfThere, Gaps, UnitEntries
<1>7. CASE step = 10
  <2>1. UnitFrees = UnitMemory \cup UnitEntries
    BY <1>7, UnitStepsAre DEF UnitFrees, UnitStep
  <2> QED
    BY <1>1, <1>7, <2>1, PassedIs DEF IfThere, Gaps, UnitEntries, UnitMemory
<1>8. CASE step \in {11, 12}
  <2>1. UnitFrees = UnitMemory
    BY <1>8, UnitStepsAre DEF UnitFrees, UnitStep
  <2> QED
    BY <1>1, <1>8, <2>1, PassedIs DEF IfThere, Gaps, UnitEntries, UnitMemory
<1> QED
  BY <1>2, <1>3, <1>4, <1>5, <1>6, <1>7, <1>8

-----------------------------------------------------------------------------
(* The table of units.                                                     *)

LEMMA Numbers ==
  /\ MaxControllers \in Nat \ {0} /\ MaxNamespaces \in Nat \ {0}
  /\ MaxFaults \in Nat
  /\ MaxGlobalUnits \in Nat \ {0}
  /\ \A k \in 0 .. MaxControllers :
       /\ k * MaxNamespaces \in Nat
       /\ k * MaxNamespaces <= MaxGlobalUnits
       /\ (k + 1) * MaxNamespaces = k * MaxNamespaces + MaxNamespaces
<1>1. MaxControllers \in Nat \ {0} /\ MaxNamespaces \in Nat \ {0}
  BY BringupAssumption
<1>2. \A k \in 0 .. MaxControllers :
        /\ k * MaxNamespaces \in Nat
        /\ k * MaxNamespaces <= MaxControllers * MaxNamespaces
        /\ (k + 1) * MaxNamespaces = k * MaxNamespaces + MaxNamespaces
  BY <1>1
<1>3. 1 * MaxNamespaces <= MaxControllers * MaxNamespaces
  BY <1>1, <1>2
<1> QED
  BY <1>1, <1>2, <1>3, BringupAssumption DEF MaxGlobalUnits

LEMMA UnitsFinite ==
  ASSUME TypeOK, NEW c
  PROVE  /\ IsFiniteSet(UnitsOf(c))
         /\ Cardinality(UnitsOf(c)) \in 0 .. Len(global_units)
<1>1. DOMAIN global_units = 1 .. Len(global_units) /\ Len(global_units) \in Nat
  BY DEF TypeOK
<1>2. /\ IsFiniteSet(1 .. Len(global_units))
      /\ Cardinality(1 .. Len(global_units)) = Len(global_units)
  <2> DEFINE n == Len(global_units)
  <2>1. n \in Nat
    BY <1>1
  <2> HIDE DEF n
  <2>2. IsFiniteSet(1 .. n) /\ Cardinality(1 .. n) = n
    BY <2>1, FS_Interval
  <2> QED
    BY <2>2 DEF n
<1>3. UnitsOf(c) \subseteq 1 .. Len(global_units)
  BY <1>1 DEF UnitsOf
<1>4. /\ IsFiniteSet(UnitsOf(c))
      /\ Cardinality(UnitsOf(c)) <= Cardinality(1 .. Len(global_units))
  BY <1>2, <1>3, FS_Subset
<1> QED
  BY <1>2, <1>4, FS_CardinalityType

\* A unit that is announced is the last of the table, and its controller's.
LEMMA Registered ==
  ASSUME TypeOK, cur \in Ctrl, ns # <<>>, NEW id, Register(id)
  PROVE  /\ Len(global_units') = Len(global_units) + 1
         /\ DOMAIN global_units' = DOMAIN global_units \cup {Len(global_units')}
         /\ Len(global_units') \notin DOMAIN global_units
         /\ \A i \in DOMAIN global_units : global_units'[i] = global_units[i]
         /\ global_units'[Len(global_units')] =
              [ctrl |-> cur, nsid |-> Head(ns), queue_id |-> id]
         /\ Head(ns) \in Nsid
         /\ \A c : IF c = cur
                  THEN /\ UnitsOf(c)' = UnitsOf(c) \cup {Len(global_units')}
                       /\ Cardinality(UnitsOf(c)') = Cardinality(UnitsOf(c)) + 1
                  ELSE UnitsOf(c)' = UnitsOf(c)
<1> DEFINE u == [ctrl |-> cur, nsid |-> Head(ns), queue_id |-> id]
           k == Len(global_units) + 1
<1>1. Head(ns) \in Nsid
  BY DEF TypeOK
<1>2. u.ctrl = cur
  OBVIOUS
<1>3. global_units' = Append(global_units, u) /\ Len(global_units) \in Nat
      /\ DOMAIN global_units = 1 .. Len(global_units)
  BY DEF Register, TypeOK
<1> HIDE DEF u
<1>4. /\ Len(global_units') = k
      /\ DOMAIN global_units' = DOMAIN global_units \cup {k}
      /\ k \notin DOMAIN global_units
      /\ \A i \in DOMAIN global_units : global_units'[i] = global_units[i]
      /\ global_units'[k] = u
  BY ONLY <1>3 DEF TypeOK
<1>5. ASSUME NEW c, c = cur
      PROVE  /\ UnitsOf(c)' = UnitsOf(c) \cup {k}
             /\ Cardinality(UnitsOf(c)') = Cardinality(UnitsOf(c)) + 1
  <2>1. UnitsOf(c)' = UnitsOf(c) \cup {k} /\ k \notin UnitsOf(c)
    BY <1>2, <1>4, <1>5 DEF UnitsOf
  <2> QED
    BY <2>1, UnitsFinite, FS_AddElement
<1>6. ASSUME NEW c, c # cur
      PROVE  UnitsOf(c)' = UnitsOf(c)
  BY <1>2, <1>4, <1>6 DEF UnitsOf
<1> QED
  BY <1>1, <1>4, <1>5, <1>6 DEF u

-----------------------------------------------------------------------------
(* The turns of the loop over the namespaces.                              *)

Returns ==
  /\ step = 1 /\ (ns = <<>> \/ TableFull)
  /\ DiscoverUnitsReturns
  /\ UNCHANGED <<step, count, local, global_units>>

Gets ==
  /\ UnitStep \in UnitMemory \cup UnitEntries
  /\ Acquire(Here({UnitStep})) /\ local' = local \cup {UnitStep}
  /\ Proceed

Passes ==
  /\ UNCHANGED <<count, local>> /\ Proceed
  /\ step \in {2, 11} \/ (UnitStep \in IfThere /\ cur \in broken')

Unmaps ==
  /\ \/ step = 5 /\ {"io_sq", "io_cq"} \subseteq local
     \/ step = 10 /\ UnitEntries \subseteq local
  /\ Release(Here(local \cap UnitEntries)) /\ local' = local \ UnitEntries
  /\ Proceed

Drops == Release(Here(local)) /\ NextNamespace

Registers ==
  step = 12 /\ Register(QueueId) /\ NextNamespace /\ UNCHANGED count

LEMMA StepNumbers ==
  ASSUME step \in 1 .. 12
  PROVE  /\ UnitStep = "unit" <=> step = 1
         /\ UnitStep = "identify" <=> step = 2
         /\ UnitStep = "queues" <=> step = 5
         /\ UnitStep = "entries" <=> step = 10
         /\ UnitStep = "create_cq" <=> step = 11
         /\ UnitStep = "create_sq" <=> step = 12
         /\ UnitStep \in UnitMemory \cup UnitEntries <=>
              step \in {1, 3, 4, 6, 7, 8, 9}
         /\ UnitStep \in IfThere <=> step \in {3, 4, 7, 9}
  BY UnitStepsAre DEF UnitStep, UnitMemory, UnitEntries, IfThere

LEMMA Dropped ==
  ASSUME pc = "unit", TurnInv, step \in 1 .. 12, UnitStep \notin IfThere,
         DropNamespace
  PROVE  Drops
<1>1. UnitFrees \ (IfThere \ local) = local
  BY DropFrees
<1> QED
  BY <1>1 DEF DropNamespace, Drops

LEMMA UnitTurns ==
  ASSUME pc = "unit", TypeOK, PlaceInv, TurnInv, DiscoverUnits
  PROVE  /\ UNCHANGED <<cur, libVars, ctrlVars>>
         /\ \/ Returns
            \/ /\ UNCHANGED <<pc, ctrls_up>> /\ ns # <<>>
               /\ \/ UNCHANGED global_units /\ (Gets \/ Passes \/ Unmaps \/ Drops)
                  \/ Registers
<1>1. step \in 1 .. 12 /\ (step > 1 => ns # <<>>)
  BY InitStepsAre DEF TypeOK, PlaceInv, TurnInv
<1>2. /\ UNCHANGED <<cur, libVars, ctrlVars>>
      /\ \/ EndOfNamespaces
         \/ /\ UNCHANGED <<pc, ctrls_up>>
            /\ \/ UnitAcquires \/ UnitAllocFails \/ UnitChecks \/ UnitIdentifies
               \/ CreateIOCQ \/ CreateIOSQ
  BY DEF DiscoverUnits, ListNamespaces
<1> DEFINE Turns == /\ ns # <<>>
                    /\ \/ UNCHANGED global_units /\ (Gets \/ Passes \/ Unmaps \/ Drops)
                       \/ Registers
<1>3. CASE EndOfNamespaces
  BY <1>1, <1>2, <1>3, StepNumbers DEF EndOfNamespaces, Returns
<1>4. ASSUME UnitAcquires PROVE Turns
  BY <1>1, <1>4, StepNumbers DEF UnitAcquires, Gets
<1>5. ASSUME UnitAllocFails PROVE Turns
  <2>1. UNCHANGED global_units /\ ns # <<>> /\ cur \in broken'
    BY <1>1, <1>5, StepNumbers DEF UnitAllocFails, Failure
  <2>2. CASE UnitStep \in IfThere
    BY <1>5, <2>1, <2>2 DEF UnitAllocFails, Passes
  <2>3. CASE UnitStep \notin IfThere
    BY <1>1, <1>5, <2>1, <2>3, Dropped DEF UnitAllocFails
  <2> QED
    BY <2>2, <2>3
<1>6. ASSUME UnitChecks PROVE Turns
  <2>0. UNCHANGED global_units /\ UnitStep \in {"queues", "entries"}
    BY <1>6 DEF UnitChecks
  <2>1. /\ UNCHANGED global_units /\ ns # <<>> /\ UnitStep \notin IfThere
        /\ UnitStep = "queues" => step = 5
        /\ UnitStep # "queues" => step = 10
    BY <1>1, <2>0, StepNumbers
  <2>2. CASE DropNamespace
    BY <1>1, <2>1, <2>2, Dropped
  <2>3. CASE ~DropNamespace
    BY <1>6, <2>1, <2>3 DEF UnitChecks, Unmaps
  <2> QED
    BY <2>2, <2>3
<1>7. ASSUME UnitIdentifies PROVE Turns
  <2>1. UNCHANGED global_units /\ ns # <<>> /\ UnitStep \notin IfThere /\ step = 2
    BY <1>1, <1>7, StepNumbers DEF UnitIdentifies
  <2> QED
    BY <1>1, <1>7, <2>1, Dropped DEF UnitIdentifies, Passes
<1>8. ASSUME CreateIOCQ PROVE Turns
  <2>1. UNCHANGED global_units /\ ns # <<>> /\ UnitStep \notin IfThere /\ step = 11
    BY <1>1, <1>8, StepNumbers DEF CreateIOCQ
  <2> QED
    BY <1>1, <1>8, <2>1, Dropped DEF CreateIOCQ, Passes
<1>9. ASSUME CreateIOSQ PROVE Turns
  <2>1. ns # <<>> /\ UnitStep \notin IfThere /\ step = 12
    BY <1>1, <1>9, StepNumbers DEF CreateIOSQ
  <2> QED
    BY <1>1, <1>9, <2>1, Dropped DEF CreateIOSQ, Registers, NextNamespace
<1> QED
  BY <1>2, <1>3, <1>4, <1>5, <1>6, <1>7, <1>8, <1>9

LEMMA Lists ==
  ASSUME ListNamespaces
  PROVE  /\ pc = "list" /\ step' = 1 /\ local' = {}
         /\ UNCHANGED <<cur, libVars, ctrlVars, count, global_units>>
         /\ \/ /\ pc' = "unit" /\ UNCHANGED ctrls_up
               /\ \E n \in 1 .. MaxNamespaces : /\ ns' = [i \in 1 .. n |-> i]
                                              /\ nsids' = [nsids EXCEPT ![cur] = 1 .. n]
            \/ DiscoverUnitsReturns /\ UNCHANGED nsids
  BY DEF ListNamespaces, Room, Goto

\* What the other actions see of DiscoverUnits.
LEMMA UnitsFrame ==
  ASSUME TypeOK, PlaceInv, TurnInv, DiscoverUnits
  PROVE  /\ UNCHANGED <<cur, libVars, ctrlVars>>
         /\ pc \in {"list", "unit"} /\ pc' \in {"unit", "bring"}
         /\ step' \in 1 .. 13 /\ (pc' = "unit" => step' \in 1 .. 12)
<1>1. CASE ListNamespaces
  BY <1>1, Lists DEF DiscoverUnitsReturns, Goto
<1>2. CASE pc = "unit"
  <2>1. step \in 1 .. 12
    BY <1>2, InitStepsAre DEF TypeOK, PlaceInv
  <2>2. CASE Returns
    BY <1>2, <2>1, <2>2, UnitTurns DEF Returns, DiscoverUnitsReturns, Goto
  <2>3. CASE UNCHANGED pc /\ (Drops \/ Registers)
    BY <1>2, <2>3, UnitTurns DEF Drops, Registers, NextNamespace
  <2>4. CASE UNCHANGED pc /\ (Gets \/ Passes \/ Unmaps)
    <3>1. step # 12
      BY <2>1, <2>4, StepNumbers DEF Gets, Passes, Unmaps
    <3>2. step' = step + 1
      BY <2>4 DEF Gets, Passes, Unmaps, Proceed
    <3> QED
      BY <1>2, <2>1, <2>4, <3>1, <3>2, UnitTurns
  <2> QED
    BY <1>2, <2>2, <2>3, <2>4, UnitTurns
<1> QED
  BY <1>1, <1>2 DEF DiscoverUnits

-----------------------------------------------------------------------------
(* The place of the loader.                                                *)

PlaceTypes ==
  /\ pc \in Places
  /\ cur \in 0 .. MaxControllers + MaxGlobalUnits
  /\ step \in 1 .. 13
  /\ num_controllers \in 0 .. MaxControllers
  /\ have \subseteq Libraries \cup {"discovery"}

PlaceAll == PlaceTypes /\ PlaceInv /\ HaveInv

LEMMA PlaceStep ==
  ASSUME BringupInv, [Next]_vars
  PROVE  PlaceAll'
<1>0. TypeOK /\ PlaceInv /\ HaveInv /\ TurnInv
  BY DEF BringupInv
<1>1. PlaceTypes /\ Len(global_units) \in 0 .. MaxGlobalUnits
  BY SMTT(30), <1>0, InitStepsAre DEF TypeOK, PlaceTypes
<1>14. MaxControllers \in Nat \ {0} /\ MaxGlobalUnits \in Nat \ {0}
  BY Numbers
<1> USE <1>0, <1>1 DEF PlaceAll, PlaceTypes, PlaceInv, HaveInv, AtController, Libraries, Down
<1>2. CASE OpenLibrary
  <2>1. /\ pc \in Libraries
        /\ UNCHANGED <<cur, step, num_controllers, global_units>>
        /\ \/ pc' = "err" /\ have' = have
           \/ pc' = After[pc] /\ have' = have \cup {pc}
    BY <1>2 DEF OpenLibrary, Goto, unitVars
  <2>2. CASE pc' = "err" /\ have' = have
    BY <2>1, <2>2, <1>14 DEF Places
  <2>3. CASE pc' = After[pc] /\ have' = have \cup {pc}
    <3>1. /\ pc = "expansion" => pc' = "ipci"
          /\ pc = "ipci" => pc' = "pci"
          /\ pc = "utility" => pc' = "iutility"
          /\ pc = "iutility" => pc' = "bring"
      BY <2>3 DEF After
    <3>2. /\ pc' \in Places
          /\ have' \subseteq Libraries \cup {"discovery"}
          /\ cur = 0 /\ pc' \in {"ipci", "pci", "iutility", "bring"}
      BY <2>1, <2>3, <3>1 DEF Places
    <3>3. PlaceInv'
      BY <2>1, <3>1, <3>2, <1>14
    <3>4. HaveInv'
      BY <2>1, <2>3, <3>1, <3>2
    <3> QED
      BY <2>1, <3>2, <3>3, <3>4
  <2> QED
    BY <2>1, <2>2, <2>3
<1>3. CASE DiscoverNVMe
  <2>1. pc = "pci" /\ UNCHANGED <<step, global_units>>
    BY <1>3 DEF DiscoverNVMe, unitVars
  <2>2. CASE cur < MaxControllers /\ FoundController
    BY <2>1, <2>2, <1>14 DEF FoundController
  <2>3. CASE cur < MaxControllers /\ SkippedController
    BY <2>1, <2>3, <1>14 DEF SkippedController
  <2>4. CASE EndOfBus
    <3>1. /\ cur' = 0 /\ num_controllers' = num_controllers
          /\ \/ pc' = "err" /\ have' = have /\ num_controllers = 0
             \/ pc' = "utility" /\ have' = have \cup {"discovery"}
      BY <2>4 DEF EndOfBus, Goto
    <3>5. pc' \in Places /\ cur' \in 0 .. MaxControllers + MaxGlobalUnits
      BY <3>1, <1>14 DEF Places
    <3>6. have' \subseteq Libraries \cup {"discovery"}
      BY <3>1
    <3>2. PlaceTypes'
      BY <2>1, <3>1, <3>5, <3>6
    <3>3. PlaceInv'
      BY <2>1, <3>1
    <3>4. HaveInv'
      BY <2>1, <3>1
    <3> QED
      BY <3>2, <3>3, <3>4
  <2> QED
    BY <1>3, <2>2, <2>3, <2>4 DEF DiscoverNVMe
<1>4. CASE BringUp
  BY <1>4, <1>14 DEF BringUp, Goto, Places, libVars
<1>5. CASE InitNVMe
  <2>1. pc = "init" /\ UNCHANGED <<have, num_controllers>>
    BY <1>5 DEF InitNVMe, libVars
  <2>2. CASE InitAcquires \/ InitWaits
    <3>1. step # 13
      BY <2>2, InitStepsAre, KindsDiffer
         DEF InitAcquires, InitWaits, InitStep, Vectors, Pins, Entries
    <3>2. pc' = pc /\ cur' = cur /\ step' = step + 1
      BY <2>2 DEF InitAcquires, InitWaits
    <3> QED
      BY <2>1, <3>1, <3>2
  <2>3. CASE InitFails
    BY <2>1, <2>3 DEF InitFails, SkipController, Goto, Places
  <2>4. CASE InitIdentifies
    <3>1. UNCHANGED <<step, cur>> /\ (pc' = "irq" \/ pc' = "bring")
      BY <2>4 DEF InitIdentifies, SkipController, Goto
    <3> QED
      BY <2>1, <3>1 DEF Places
  <2> QED
    BY <1>5, <2>2, <2>3, <2>4 DEF InitNVMe
<1>6. CASE InstallNVMeInterrupt
  BY <1>6 DEF InstallNVMeInterrupt, Goto, Places, libVars
<1>7. CASE DiscoverUnits
  <2>1. /\ UNCHANGED <<cur, have, num_controllers>>
        /\ pc \in {"list", "unit"} /\ pc' \in {"unit", "bring"}
        /\ step' \in 1 .. 13 /\ (pc' = "unit" => step' \in 1 .. 12)
    BY <1>7, UnitsFrame DEF libVars
  <2> QED
    BY <2>1, InitStepsAre DEF Places
<1>8. CASE Expunge
  BY <1>8, <1>14 DEF Expunge, Goto, Places, libVars
<1>9. CASE Quiesce
  BY <1>9, <1>14 DEF Quiesce, Goto, Places, libVars, unitVars
<1>10. CASE FreeUnits
  BY <1>10, <1>14 DEF FreeUnits, Goto, Places, libVars
<1>11. CASE Leave
  BY <1>11 DEF Leave, Goto, Places, libVars
<1>12. CASE \E c \in Ctrl : Late(c)
  BY <1>12 DEF Late, placeVars, libVars, unitVars
<1>13. CASE UNCHANGED vars
  BY <1>13 DEF vars, placeVars, libVars, unitVars
<1> QED
  BY <1>2, <1>3, <1>4, <1>5, <1>6, <1>7, <1>8, <1>9, <1>10, <1>11, <1>12, <1>13
     DEF Next

LEMMA TableEntries ==
  ASSUME TypeOK
  PROVE  /\ DOMAIN global_units = 1 .. Len(global_units)
         /\ Len(global_units) \in 0 .. MaxGlobalUnits /\ ctrls_up \in Nat
         /\ \A i \in DOMAIN global_units :
              /\ global_units[i].ctrl \in Ctrl /\ global_units[i].nsid \in Nsid
              /\ global_units[i].queue_id \in Nat
<1> DEFINE R == [ctrl : Ctrl, nsid : Nsid, queue_id : Nat]
<1>1. global_units \in Seq(R) /\ Len(global_units) <= MaxGlobalUnits /\ ctrls_up \in Nat
  BY DEF TypeOK
<1>2. \A u \in R : u.ctrl \in Ctrl /\ u.nsid \in Nsid /\ u.queue_id \in Nat
  OBVIOUS
<1> HIDE DEF R
<1>3. MaxGlobalUnits \in Nat
  BY Numbers
<1>4. /\ DOMAIN global_units = 1 .. Len(global_units) /\ Len(global_units) \in Nat
      /\ \A i \in DOMAIN global_units : global_units[i] \in R
  BY <1>1
<1> QED
  BY <1>1, <1>2, <1>3, <1>4

\* The controller that the loader works on.
LEMMA Current ==
  ASSUME TypeOK, PlaceInv
  PROVE  /\ pc \in AtController => cur \in Ctrl /\ cur <= num_controllers
         /\ pc \in {"undo", "quiesce"} /\ cur <= num_controllers => cur \in Ctrl
         /\ Ctrl \subseteq Nat \ {0} /\ cur \in Nat /\ num_controllers \in Nat
         /\ \A c \in Ctrl : c <= MaxControllers
<1>1. MaxControllers \in Nat \ {0} /\ MaxGlobalUnits \in Nat
  BY Numbers
<1> QED
  BY <1>1 DEF TypeOK, PlaceInv, Ctrl

-----------------------------------------------------------------------------
(* What the controllers have been given.                                   *)

MemoryTypes ==
  /\ ptr \in [Ctrl -> SUBSET AdminPointers]
  /\ flags \subseteq Vectors \cup Pins
  /\ irq_installed \in [Ctrl -> BOOLEAN]

MemoryAll == MemoryTypes /\ MemoryInv

\* Steps outside InitNVMe that leave the controllers what they have.
LEMMA MemoryKept ==
  ASSUME BringupInv, UNCHANGED <<ptr, irq_installed>>, flags' \in {{}, flags},
         pc # "init", pc' \notin {"init", "irq"},
         pc' \in {"list", "unit"} => pc \in {"list", "unit"} /\ cur' = cur,
         \A c \in Ctrl : MayHold(c) => MayHold(c)'
  PROVE  MemoryAll'
<1>1. MemoryTypes /\ MemoryInv
  BY DEF BringupInv, TypeOK, MemoryTypes, AdminPointers
<1> QED
  BY <1>1 DEF MemoryAll, MemoryTypes, MemoryInv, InInit

\* What the error path of InitNVMe comes to: it undoes what the flags and
\* pointers say is held, and a refused pin is counted and released again.
Undoes ==
  /\ Release(Of(flags \cup (ptr[cur] \cap Entries), cur, 0))
  /\ ptr' = [ptr EXCEPT ![cur] = {}]
  /\ abandoned' = IF enabled[cur] THEN abandoned \cup {cur} ELSE abandoned

LEMMA NetRelease ==
  ASSUME NEW S, NEW T, S \cap T = {}, count \in [Resource -> Int],
         AcquireThenRelease(S, S \cup T)
  PROVE  Release(T)
<1>1. ASSUME NEW r \in Resource
      PROVE  count[r] + (IF r \in S THEN 1 ELSE 0) - (IF r \in S \cup T THEN 1 ELSE 0)
               = count[r] - IF r \in T THEN 1 ELSE 0
  OBVIOUS
<1> QED
  BY <1>1, Zenon DEF AcquireThenRelease, Release

LEMMA InitErrUndoes ==
  ASSUME BringupInv, pc = "init", NEW R, R \subseteq {InitStep} \cap Pins, InitErr(R)
  PROVE  /\ Undoes
         /\ unheld' \subseteq unheld \cup Of(R, cur, 0)
<1>1. /\ count \in [Resource -> Int] /\ MemoryInv /\ AdminCounts
      /\ cur \in Ctrl /\ step \in 1 .. 13
  BY Current, InitStepsAre DEF BringupInv, TypeOK, AtController
<1> DEFINE H == flags \cup (ptr[cur] \cap Entries)
<1>2. /\ H = Taken(AdminMemory) /\ R \cap H = {}
  <2>1. flags = Taken(Vectors \cup Pins) /\ ptr[cur] = Taken(AdminPointers)
    BY <1>1 DEF MemoryInv, InInit
  <2>2. H = Taken(AdminMemory)
    BY <2>1 DEF Taken, AdminPointers, AdminMemory
  <2> QED
    BY <1>1, <2>2, TakenIs
<1>3. \A x \in H : count[<<x, cur, 0>>] = 1
  <2>1. H \subseteq AdminMemory /\ OwnedBy(cur) = H
    BY <1>2 DEF OwnedBy, InInit, Taken
  <2> QED
    BY <1>1, <2>1 DEF AdminCounts, One
<1>4. Ended(R) = Of(R, cur, 0) \cup Of(H, cur, 0)
  BY DEF Ended, Of
<1>5. Of(R, cur, 0) \cap Of(H, cur, 0) = {}
  BY <1>2 DEF Of
<1>6. Release(Of(H, cur, 0))
  BY <1>1, <1>4, <1>5, NetRelease DEF InitErr
<1>7. unheld' \subseteq unheld \cup Of(R, cur, 0)
  <2>1. unheld' = unheld \cup {r \in Ended(R) : count[r] = 0}
    BY DEF InitErr
  <2>2. \A r \in Of(H, cur, 0) : count[r] # 0
    BY <1>3 DEF Of
  <2> QED
    BY <1>4, <2>1, <2>2
<1> QED
  BY <1>6, <1>7 DEF InitErr, Undoes

\* The two ways into it.
LEMMA InitGivesUp ==
  ASSUME BringupInv, pc = "init", InitFails \/ InitIdentifies
  PROVE  \/ /\ Undoes /\ pc' = "bring" /\ UNCHANGED cur
            /\ unheld' \subseteq unheld \cup Of(Pins, cur, 0)
            /\ unheld' = unheld \/ Failure(cur)
         \/ UNCHANGED <<count, ptr, unheld, abandoned, cur>> /\ pc' = "irq"
<1>1. CASE InitFails
  <2> DEFINE R == {InitStep} \cap Pins
  <2>1. InitErr(R) /\ Failure(cur) /\ pc' = "bring" /\ UNCHANGED cur
    BY <1>1 DEF InitFails, SkipController, Goto
  <2>2. Undoes /\ unheld' \subseteq unheld \cup Of(R, cur, 0)
    BY <2>1, InitErrUndoes
  <2> QED
    BY <2>1, <2>2 DEF Of
<1>2. CASE InitIdentifies
  <2>1. CASE InitErr({}) /\ pc' = "bring" /\ UNCHANGED cur
    <3>1. Undoes /\ unheld' \subseteq unheld \cup Of({}, cur, 0)
      BY <2>1, InitErrUndoes
    <3>2. unheld \subseteq unheld'
      BY <2>1 DEF InitErr
    <3> QED
      BY <2>1, <3>1, <3>2 DEF Of
  <2>2. CASE UNCHANGED <<count, ptr, unheld, abandoned, cur>> /\ pc' = "irq"
    BY <2>2
  <2> QED
    BY <1>2, <2>1, <2>2 DEF InitIdentifies, SkipController, Goto
<1> QED
  BY <1>1, <1>2

LEMMA InitErrMemory ==
  ASSUME BringupInv, pc = "init", Undoes, pc' = "bring",
         UNCHANGED <<cur, flags, irq_installed>>
  PROVE  MemoryAll'
<1>1. MemoryTypes /\ MemoryInv
  BY DEF BringupInv, TypeOK, MemoryTypes, AdminPointers
<1>2. MemoryTypes' /\ ptr' = [ptr EXCEPT ![cur] = {}]
  BY <1>1 DEF MemoryTypes, Undoes
<1> HIDE DEF Undoes
<1>3. \A c \in Ctrl : MayHold(c) => MayHold(c)'
  BY DEF MayHold, Loop, AtController
<1> QED
  BY <1>1, <1>2, <1>3 DEF MemoryAll, MemoryTypes, MemoryInv, InInit

LEMMA MemoryStep ==
  ASSUME BringupInv, [Next]_vars
  PROVE  MemoryAll'
<1>1. MemoryTypes /\ MemoryInv /\ PlaceTypes /\ PlaceInv /\ TypeOK /\ TurnInv
  BY InitStepsAre DEF BringupInv, TypeOK, MemoryTypes, AdminPointers, PlaceTypes
<1>2. CASE OpenLibrary
  <2>1. UNCHANGED <<ptr, irq_installed, flags>> /\ pc \in Libraries
    BY <1>2 DEF OpenLibrary, ctrlVars
  <2>2. pc' \in {"err", "ipci", "pci", "iutility", "bring"}
    BY <1>2, <2>1 DEF OpenLibrary, After, Goto, Libraries
  <2>3. \A c \in Ctrl : ~MayHold(c)
    BY <2>1 DEF MayHold, Loop, AtController, Libraries
  <2> QED
    BY <2>1, <2>2, <2>3, MemoryKept DEF Libraries
<1>3. CASE DiscoverNVMe
  <2>1. /\ UNCHANGED <<ptr, irq_installed, flags>> /\ pc = "pci"
        /\ pc' \in {"pci", "err", "utility"}
    BY <1>3 DEF DiscoverNVMe, ctrlVars, FoundController, SkippedController,
       EndOfBus, Goto
  <2>2. \A c \in Ctrl : ~MayHold(c)
    BY <2>1 DEF MayHold, Loop, AtController
  <2> QED
    BY <2>1, <2>2, MemoryKept
<1>4. CASE BringUp
  <2>1. /\ UNCHANGED <<ptr, irq_installed, num_controllers>> /\ pc = "bring"
        /\ flags' = {} /\ step' = 1
    BY <1>4 DEF BringUp, libVars
  <2>2. CASE pc' = "init"
    <3>1. cur' = cur + 1 /\ cur < num_controllers
      BY <1>4, <2>2 DEF BringUp, Goto
    <3>2. Taken(AdminPointers)' = {} /\ Taken(Vectors \cup Pins)' = {}
      BY <2>1 DEF Taken
    <3>3. \A c \in Ctrl : MayHold(c) => MayHold(c)' /\ c # cur'
      BY <1>1, <2>1, <2>2, <3>1 DEF MayHold, Loop, AtController, Ctrl, PlaceTypes
    <3>4. ASSUME NEW c \in Ctrl, c = cur'
          PROVE  ptr[c] = {} /\ ~irq_installed[c]
      BY <1>1, <3>3, <3>4 DEF MemoryInv
    <3>5. MemoryInv'
      BY <1>1, <2>1, <2>2, <3>2, <3>3, <3>4 DEF MemoryInv, InInit
    <3> QED
      BY <1>1, <2>1, <3>5 DEF MemoryAll, MemoryTypes
  <2>3. CASE pc' # "init"
    <3>1. pc' \in {"undo", "loaded"} /\ cur = num_controllers
      BY <1>1, <1>4, <2>1, <2>3 DEF BringUp, Goto, PlaceTypes, PlaceInv
    <3>2. pc' = "undo" => cur' = 1
      BY <1>4, <3>1 DEF BringUp, Goto
    <3>3. \A c \in Ctrl : MayHold(c) => MayHold(c)'
      BY <1>1, <2>1, <3>1, <3>2 DEF MayHold, Loop, AtController, Ctrl, PlaceTypes
    <3> QED
      BY <2>1, <2>3, <3>1, <3>3, MemoryKept
  <2> QED
    BY <2>2, <2>3
<1>5. CASE InitNVMe
  <2>1. pc = "init" /\ UNCHANGED irq_installed /\ cur \in Ctrl
    BY <1>1, <1>5, Current DEF InitNVMe, AtController
  <2>2. CASE InitAcquires \/ InitWaits
    <3>1. /\ UNCHANGED <<pc, cur>> /\ step' = step + 1
          /\ ptr' = [ptr EXCEPT ![cur] = @ \cup ({InitStep} \cap AdminPointers)]
          /\ flags' = flags \cup ({InitStep} \cap (Vectors \cup Pins))
      <4>1. CASE InitAcquires
        <5>1. /\ {InitStep} \ Pins = {InitStep} \cap AdminPointers
              /\ {InitStep} \ Entries = {InitStep} \cap (Vectors \cup Pins)
          BY <4>1, KindsDiffer DEF InitAcquires, AdminPointers
        <5> QED
          BY <4>1, <5>1 DEF InitAcquires
      <4>2. CASE InitWaits
        <5>1. InitStep \notin AdminPointers \cup Pins
          BY <4>2 DEF InitWaits, AdminPointers, Vectors, Pins, Entries
        <5>2. ptr = [ptr EXCEPT ![cur] = @ \cup ({InitStep} \cap AdminPointers)]
          BY <1>1, <5>1 DEF MemoryTypes
        <5> QED
          BY <4>2, <5>1, <5>2 DEF InitWaits, AdminPointers
      <4> QED
        BY <2>2, <4>1, <4>2
    <3>2. /\ Taken(AdminPointers)' = Taken(AdminPointers) \cup ({InitStep} \cap AdminPointers)
          /\ Taken(Vectors \cup Pins)' =
               Taken(Vectors \cup Pins) \cup ({InitStep} \cap (Vectors \cup Pins))
      BY <1>1, <3>1, TakenGrows DEF PlaceTypes
    <3>3. MemoryTypes'
      BY <1>1, <2>1, <3>1 DEF MemoryTypes
    <3>4. \A c \in Ctrl : /\ InInit(c)' <=> InInit(c)
                          /\ MayHold(c) => MayHold(c)'
      BY <2>1, <3>1 DEF InInit, MayHold, Loop, AtController
    <3>5. \A c \in Ctrl : c # cur => ptr'[c] = ptr[c]
      BY <1>1, <3>1 DEF MemoryTypes
    <3>6. /\ ptr'[cur] = Taken(AdminPointers)' /\ flags' = Taken(Vectors \cup Pins)'
          /\ MayHold(cur)'
      <4>1. ptr[cur] = Taken(AdminPointers) /\ flags = Taken(Vectors \cup Pins)
        BY <1>1, <2>1 DEF MemoryInv, InInit
      <4>2. MayHold(cur)'
        BY <1>1, <2>1, <3>1 DEF MayHold, Loop, AtController, PlaceTypes
      <4> QED
        BY <1>1, <2>1, <3>1, <3>2, <4>1, <4>2 DEF MemoryTypes
    <3>7. MemoryInv'
      BY <1>1, <2>1, <3>1, <3>4, <3>5, <3>6 DEF MemoryInv, InInit
    <3> QED
      BY <3>3, <3>7 DEF MemoryAll
  <2>3. CASE InitFails
    BY <2>1, <2>3, InitErrMemory, InitGivesUp DEF InitFails, SkipController, Goto
  <2>4. CASE InitIdentifies
    <3>1. /\ UNCHANGED <<cur, flags>> /\ step = 13
          /\ \/ Undoes /\ pc' = "bring"
             \/ UNCHANGED ptr /\ pc' = "irq"
      <4>1. step = 13
        BY <1>1, <2>4, InitStepsAre DEF InitIdentifies, InitStep, PlaceTypes
      <4> QED
        BY <2>1, <2>4, <4>1, InitGivesUp DEF InitIdentifies
    <3>2. CASE Undoes /\ pc' = "bring"
      BY <2>1, <3>1, <3>2, InitErrMemory
    <3>3. CASE UNCHANGED ptr /\ pc' = "irq"
      <4>1. ptr[cur] = AdminPointers
        BY <1>1, <2>1, <3>1, TakenIs DEF MemoryInv, InInit, AdminPointers, AdminMemory
      <4>2. \A c \in Ctrl : MayHold(c) => MayHold(c)'
        BY <2>1, <3>1, <3>3 DEF MayHold, Loop, AtController
      <4> QED
        BY <1>1, <2>1, <3>1, <3>3, <4>1, <4>2 DEF MemoryAll, MemoryTypes, MemoryInv, InInit
    <3> QED
      BY <3>1, <3>2, <3>3
  <2> QED
    BY <1>5, <2>2, <2>3, <2>4 DEF InitNVMe
<1>6. CASE InstallNVMeInterrupt
  <2>1. /\ pc = "irq" /\ pc' = "list" /\ UNCHANGED <<cur, ptr, flags>>
        /\ \E b \in BOOLEAN : irq_installed' = [irq_installed EXCEPT ![cur] = b]
    BY <1>6 DEF InstallNVMeInterrupt, Goto
  <2>2. /\ MemoryTypes' /\ cur \in Ctrl
        /\ \A c \in Ctrl : c # cur => irq_installed'[c] = irq_installed[c]
    <3>1. cur \in Ctrl
      BY <1>1, <2>1, Current DEF AtController
    <3> QED
      BY <1>1, <2>1, <3>1 DEF MemoryTypes
  <2>3. \A c \in Ctrl : (MayHold(c) => MayHold(c)') /\ (c = cur => MayHold(c)')
    BY <1>1, <2>1 DEF MayHold, Loop, AtController, PlaceTypes
  <2> QED
    BY <1>1, <2>1, <2>2, <2>3 DEF MemoryAll, MemoryInv, InInit
<1>7. CASE DiscoverUnits
  <2>1. /\ UNCHANGED <<cur, ptr, flags, irq_installed>>
        /\ pc \in {"list", "unit"} /\ pc' \in {"unit", "bring"}
    BY <1>1, <1>7, UnitsFrame DEF ctrlVars
  <2>2. \A c \in Ctrl : MayHold(c) => MayHold(c)'
    BY <2>1 DEF MayHold, Loop, AtController
  <2> QED
    BY <2>1, <2>2, MemoryKept
<1>8. CASE Expunge
  <2>1. /\ UNCHANGED <<ptr, flags, irq_installed, num_controllers>>
        /\ pc = "loaded" /\ pc' = "quiesce" /\ cur' = 1
    BY <1>8 DEF Expunge, Goto, ctrlVars, libVars
  <2>2. \A c \in Ctrl : MayHold(c) => MayHold(c)'
    BY <2>1 DEF MayHold, Loop, AtController, Ctrl
  <2> QED
    BY <2>1, <2>2, MemoryKept
<1>9. CASE Quiesce
  <2>1. pc \in {"undo", "quiesce"} /\ UNCHANGED <<flags, num_controllers>>
        /\ cur \in 1 .. num_controllers + 1
    BY <1>1, <1>9 DEF Quiesce, libVars, PlaceInv
  <2>2. CASE cur <= num_controllers
    <3>1. /\ cur' = cur + 1 /\ UNCHANGED pc /\ cur \in Ctrl
          /\ ptr' = [ptr EXCEPT ![cur] = {}]
          /\ irq_installed' = [irq_installed EXCEPT ![cur] = FALSE]
      BY <1>1, <1>9, <2>1, <2>2, Current DEF Quiesce, QuiesceOne
    <3>2. MemoryTypes'
      BY <1>1, <2>1, <3>1 DEF MemoryTypes
    <3>3. ASSUME NEW c \in Ctrl
          PROVE  /\ c = cur => ptr'[c] = {} /\ ~irq_installed'[c]
                 /\ c # cur => /\ ptr'[c] = ptr[c]
                               /\ irq_installed'[c] = irq_installed[c]
                               /\ MayHold(c) => MayHold(c)'
      <4>1. c # cur /\ MayHold(c) => MayHold(c)'
        BY <1>1, <2>1, <3>1, Current DEF MayHold, Loop, AtController
      <4> QED
        BY <1>1, <3>1, <4>1 DEF MemoryTypes
    <3> QED
      BY <1>1, <2>1, <3>1, <3>2, <3>3 DEF MemoryAll, MemoryInv, InInit
  <2>3. CASE ~(cur <= num_controllers)
    <3>1. UNCHANGED <<ptr, irq_installed>> /\ pc' \in {"err", "free"}
      BY <1>9, <2>3 DEF Quiesce, Goto
    <3>2. \A c \in Ctrl : ~MayHold(c)
      BY <1>1, <2>1, <2>3 DEF MayHold, Loop, AtController, Ctrl, PlaceTypes
    <3> QED
      BY <2>1, <3>1, <3>2, MemoryKept
  <2> QED
    BY <2>2, <2>3
<1>10. CASE FreeUnits
  <2>1. /\ UNCHANGED <<ptr, flags, irq_installed>>
        /\ pc = "free" /\ pc' \in {"free", "release"}
    BY <1>10 DEF FreeUnits, Goto, ctrlVars
  <2>2. \A c \in Ctrl : ~MayHold(c)
    BY <2>1 DEF MayHold, Loop, AtController
  <2> QED
    BY <2>1, <2>2, MemoryKept
<1>11. CASE Leave
  <2>1. /\ UNCHANGED <<ptr, flags, irq_installed>>
        /\ pc \in {"release", "err"} /\ pc' \in Down
    BY <1>11 DEF Leave, Goto, ctrlVars, Down
  <2>2. \A c \in Ctrl : ~MayHold(c)
    BY <2>1 DEF MayHold, Loop, AtController
  <2> QED
    BY <2>1, <2>2, MemoryKept DEF Down
<1>12. CASE UNCHANGED <<placeVars, ctrlVars, num_controllers>>
  BY <1>1, <1>12 DEF placeVars, ctrlVars, MemoryAll, MemoryTypes, MemoryInv, InInit,
     MayHold, Taken
<1>13. CASE \E c \in Ctrl : Late(c)
  BY <1>12, <1>13 DEF Late, libVars
<1>14. CASE UNCHANGED vars
  BY <1>12, <1>14 DEF vars, libVars
<1> QED
  BY <1>2, <1>3, <1>4, <1>5, <1>6, <1>7, <1>8, <1>9, <1>10, <1>11, <1>13, <1>14
     DEF Next

-----------------------------------------------------------------------------
(* The counters of everything but the units' memory.                       *)

LEMMA SameIfUnchanged ==
  ASSUME UNCHANGED count, NEW K
  PROVE  SameCounts(K)
  BY DEF SameCounts

LEMMA BusKept ==
  ASSUME BusCounts, SameCounts(BusKinds), UNCHANGED <<have, num_controllers>>,
         pc' \in Down <=> pc \in Down
  PROVE  BusCounts'
<1>1. ASSUME NEW x \in Libraries
      PROVE  count'[<<x, 0, 0>>] = count[<<x, 0, 0>>]
  BY <1>1, IsResource DEF SameCounts, BusKinds
<1>2. ASSUME NEW x \in {"pcidev", "resource"}, NEW c \in Ctrl
      PROVE  count'[<<x, c, 0>>] = count[<<x, c, 0>>]
  BY <1>2, IsResource DEF SameCounts, BusKinds
<1> QED
  BY <1>1, <1>2 DEF BusCounts

LEMMA IrqKept ==
  ASSUME IrqCounts, SameCounts({"irq"}), UNCHANGED irq_installed
  PROVE  IrqCounts'
<1>1. ASSUME NEW c \in Ctrl
      PROVE  count'[<<"irq", c, 0>>] = count[<<"irq", c, 0>>]
  BY <1>1, IsResource DEF SameCounts
<1> QED
  BY <1>1 DEF IrqCounts

LEMMA AdminKept ==
  ASSUME AdminCounts, SameCounts(AdminMemory),
         \A c \in Ctrl : OwnedBy(c)' = OwnedBy(c)
  PROVE  AdminCounts'
<1>1. ASSUME NEW x \in AdminMemory, NEW c \in Ctrl
      PROVE  count'[<<x, c, 0>>] = count[<<x, c, 0>>]
  BY <1>1, IsResource DEF SameCounts
<1> QED
  BY <1>1 DEF AdminCounts

\* The three together, for the steps that move none of them.
OtherCounts == count \in [Resource -> Int] /\ BusCounts /\ IrqCounts /\ AdminCounts

LEMMA OthersKept ==
  ASSUME BringupInv, count' \in [Resource -> Int],
         SameCounts(BusKinds), SameCounts({"irq"}), SameCounts(AdminMemory),
         UNCHANGED <<have, num_controllers, irq_installed, ptr>>,
         pc' \in Down <=> pc \in Down, pc # "init" /\ pc' # "init"
  PROVE  OtherCounts'
<1>1. \A c \in Ctrl : OwnedBy(c)' = OwnedBy(c)
  BY DEF OwnedBy, InInit
<1> QED
  BY <1>1, BusKept, IrqKept, AdminKept DEF BringupInv, OtherCounts

LEMMA UnitsOnly ==
  ASSUME count \in [Resource -> Int], NEW T, T \subseteq UnitMemory \cup UnitEntries,
         NEW d, NEW m, Acquire(Of(T, d, m)) \/ Release(Of(T, d, m))
  PROVE  /\ count' \in [Resource -> Int]
         /\ SameCounts(BusKinds) /\ SameCounts({"irq"}) /\ SameCounts(AdminMemory)
<1>1. /\ T \cap BusKinds = {} /\ T \cap {"irq"} = {} /\ T \cap AdminMemory = {}
  BY KindsDiffer
<1>2. SameCounts(BusKinds) /\ SameCounts({"irq"}) /\ SameCounts(AdminMemory)
  BY <1>1, OtherKinds
<1> QED
  BY <1>2, AcquiredOf, ReleasedOf

\* InitNVMe gives back what it has taken.
LEMMA InitErrReleases ==
  ASSUME BringupInv, pc = "init", Undoes, pc' = "bring",
         UNCHANGED <<cur, flags, irq_installed, have, num_controllers>>
  PROVE  OtherCounts'
<1>1. /\ count \in [Resource -> Int] /\ MemoryInv /\ BusCounts /\ IrqCounts
      /\ AdminCounts /\ cur \in Ctrl /\ ptr \in [Ctrl -> SUBSET AdminPointers]
  BY Current DEF BringupInv, TypeOK, AtController, AdminPointers
<1>2. flags \cup (ptr[cur] \cap Entries) = Taken(AdminMemory)
  <2>1. flags = Taken(Vectors \cup Pins) /\ ptr[cur] = Taken(AdminPointers)
    BY <1>1 DEF MemoryInv, InInit
  <2> QED
    BY <2>1 DEF Taken, AdminPointers, AdminMemory
<1>3. Release(Of(Taken(AdminMemory), cur, 0)) /\ ptr' = [ptr EXCEPT ![cur] = {}]
  BY <1>2 DEF Undoes
<1>4. Taken(AdminMemory) \subseteq AdminMemory
  BY DEF Taken
<1> DEFINE T == Taken(AdminMemory)
           d == cur
<1>5. OwnedBy(d) = T
  BY DEF OwnedBy, InInit
<1>6. ASSUME NEW c \in Ctrl
      PROVE  OwnedBy(c)' = IF c = d THEN {} ELSE OwnedBy(c)
  BY <1>1, <1>3 DEF OwnedBy, InInit
<1>7. T \subseteq AdminMemory /\ d \in Ctrl /\ Release(Of(T, d, 0))
  BY <1>1, <1>3, <1>4
<1> HIDE DEF T, d
<1>8. SameCounts(BusKinds) /\ SameCounts({"irq"}) /\ count' \in [Resource -> Int]
  <2>1. T \cap BusKinds = {} /\ T \cap {"irq"} = {}
    BY <1>7, KindsDiffer
  <2> QED
    BY <1>1, <1>7, <2>1, OtherKinds, ReleasedOf
<1>9. AdminCounts'
  <2> SUFFICES ASSUME NEW c \in Ctrl, NEW x \in AdminMemory
               PROVE  count'[<<x, c, 0>>] = One(x \in OwnedBy(c)')
    BY DEF AdminCounts
  <2>1. /\ <<x, c, 0>> \in Resource
        /\ count[<<x, c, 0>>] = One(x \in OwnedBy(c))
    BY <1>1, IsResource DEF AdminCounts
  <2>2. count'[<<x, c, 0>>] =
          count[<<x, c, 0>>] - IF x \in T /\ c = d THEN 1 ELSE 0
    BY <1>1, <1>7, <2>1, ReleasedOf
  <2> QED
    BY <1>5, <1>6, <2>1, <2>2 DEF One
<1>10. BusCounts' /\ IrqCounts'
  BY <1>1, <1>8, BusKept, IrqKept DEF Down
<1> QED
  BY <1>8, <1>9, <1>10 DEF OtherCounts

\* CleanupNVMe frees all that InitNVMe has acquired, or nothing.
LEMMA CleanupFreesAll ==
  ASSUME BringupInv, NEW c \in Ctrl, ~InInit(c)
  PROVE  CleanupFrees(c) = OwnedBy(c) /\ OwnedBy(c) \subseteq AdminMemory
<1>1. ptr[c] \in {{}, AdminPointers}
  BY DEF BringupInv, MemoryInv
<1>2. CASE ptr[c] = {}
  BY <1>2 DEF OwnedBy, CleanupFrees
<1>3. CASE ptr[c] = AdminPointers
  <2>1. /\ {"admin_sq", "identify_buf", "admin_sq_dma", "admin_cq_dma"} \subseteq ptr[c]
        /\ Pins = {"identify_pin", "admin_sq_pin", "admin_cq_pin"}
        /\ AdminMemory = AdminPointers \cup Pins
    BY <1>3 DEF AdminPointers, AdminMemory, Vectors, Entries, Pins
  <2> QED
    BY <1>3, <2>1 DEF OwnedBy, CleanupFrees
<1> QED
  BY <1>1, <1>2, <1>3

LEMMA LibraryCounts ==
  ASSUME BringupInv, OpenLibrary
  PROVE  OtherCounts'
<1>1. /\ count \in [Resource -> Int] /\ BusCounts /\ HaveInv
      /\ pc \in Libraries /\ UNCHANGED <<num_controllers, irq_installed, ptr>>
  BY DEF BringupInv, TypeOK, OpenLibrary, ctrlVars
<1>2. pc \notin Down /\ pc' \notin Down /\ pc # "init" /\ pc' # "init"
  BY <1>1 DEF OpenLibrary, After, Goto, Libraries, Down
<1>3. CASE UNCHANGED <<count, have>>
  BY <1>1, <1>2, <1>3, SameIfUnchanged, OthersKept
<1>4. CASE Acquire({<<pc, 0, 0>>}) /\ have' = have \cup {pc}
  <2> DEFINE x == pc
  <2>1. Acquire(Of({x}, 0, 0)) /\ x \notin have /\ x \in Libraries
    BY <1>1, <1>4, OneObject DEF HaveInv, Libraries
  <2> HIDE DEF x
  <2>2. {x} \cap AdminMemory = {} /\ {x} \cap {"irq"} = {}
    BY <2>1, KindsDiffer DEF BusKinds
  <2>3. /\ SameCounts(AdminMemory) /\ SameCounts({"irq"})
        /\ count' \in [Resource -> Int]
    BY <1>1, <2>1, <2>2, OtherKinds, AcquiredOf
  <2>4. ASSUME NEW y \in Libraries
        PROVE  count'[<<y, 0, 0>>] = One(y \in have \cup {x})
    <3>1. count[<<y, 0, 0>>] = One(y \in have) /\ <<y, 0, 0>> \in Resource
      BY <1>1, <1>2, <2>4, IsResource DEF BusCounts, One
    <3>2. count'[<<y, 0, 0>>] = count[<<y, 0, 0>>] + IF y \in {x} THEN 1 ELSE 0
      BY <1>1, <2>1, <3>1, AcquiredOf
    <3> QED
      BY <2>1, <3>1, <3>2 DEF One
  <2>5. ASSUME NEW y \in {"pcidev", "resource"}, NEW c \in Ctrl
        PROVE  count'[<<y, c, 0>>] = count[<<y, c, 0>>]
    <3>1. <<y, c, 0>> \in Resource /\ y \notin {x}
      BY <2>1, <2>5, IsResource DEF Libraries
    <3>2. count'[<<y, c, 0>>] = count[<<y, c, 0>>] + IF y \in {x} /\ c = 0 THEN 1 ELSE 0
      BY <1>1, <2>1, <3>1, AcquiredOf
    <3>3. count[<<y, c, 0>>] \in Int
      BY <1>1, <3>1
    <3> QED
      BY <3>1, <3>2, <3>3
  <2>6. BusCounts'
    BY <1>1, <1>2, <1>4, <2>4, <2>5 DEF BusCounts, One, x
  <2>7. \A c \in Ctrl : OwnedBy(c)' = OwnedBy(c)
    BY <1>1, <1>2 DEF OwnedBy, InInit
  <2> QED
    BY <1>1, <2>3, <2>6, <2>7, IrqKept, AdminKept DEF BringupInv, OtherCounts
<1> QED
  BY <1>3, <1>4 DEF OpenLibrary

LEMMA PciCounts ==
  ASSUME BringupInv, DiscoverNVMe
  PROVE  OtherCounts'
<1>1. /\ count \in [Resource -> Int] /\ BusCounts /\ PlaceInv /\ pc = "pci"
      /\ UNCHANGED <<irq_installed, ptr>> /\ num_controllers \in Nat
  BY Current DEF BringupInv, TypeOK, DiscoverNVMe, ctrlVars
<1>2. pc' \notin Down /\ pc' # "init"
  BY <1>1 DEF DiscoverNVMe, FoundController, SkippedController, EndOfBus, Goto, Down
<1>3. CASE SkippedController
  BY <1>1, <1>2, <1>3, SameIfUnchanged, OthersKept DEF SkippedController, Down
<1>4. CASE EndOfBus
  <2>1. UNCHANGED <<count, num_controllers>> /\ (have' = have \/ have' = have \cup {"discovery"})
    BY <1>4 DEF EndOfBus
  <2>2. /\ SameCounts({"irq"}) /\ SameCounts(AdminMemory)
        /\ \A c \in Ctrl : OwnedBy(c)' = OwnedBy(c)
    BY <1>1, <1>2, <2>1, SameIfUnchanged DEF OwnedBy, InInit
  <2>3. BusCounts'
    BY <1>1, <1>2, <2>1, KindsDiffer DEF BusCounts, Down
  <2> QED
    BY <1>1, <2>1, <2>2, <2>3, IrqKept, AdminKept DEF BringupInv, OtherCounts
<1>5. CASE cur < MaxControllers /\ FoundController
  <2> DEFINE k == num_controllers + 1
             S == PciObjects({k})
  <2>1. /\ Acquire(S) /\ num_controllers' = k /\ have' = have
        /\ k \in Nat /\ k > num_controllers
    BY <1>1, <1>5 DEF FoundController
  <2>2. \A x, c, n : <<x, c, n>> \in S <=>
                       x \in {"pcidev", "resource"} /\ c = k /\ n = 0
    <3> DEFINE C == {k}
    <3>1. S = PciObjects(C) /\ \A c : c \in C <=> c = k
      OBVIOUS
    <3> HIDE DEF C, S, k
    <3>2. ASSUME NEW x, NEW c, NEW n
          PROVE  <<x, c, n>> \in S <=> x \in {"pcidev", "resource"} /\ c = k /\ n = 0
      <4>1. <<x, c, n>> \in PciObjects(C) <=>
              x \in {"pcidev", "resource"} /\ c \in C /\ n = 0
        BY PciMember
      <4>2. c \in C <=> c = k
        BY <3>1
      <4> QED
        BY <3>1, <4>1, <4>2
    <3> QED
      BY <3>2
  <2>3. \A c \in Ctrl : c \in Nat /\ (c <= k <=> c <= num_controllers \/ c = k)
    BY <1>1, <2>1, Current DEF BringupInv
  <2>4. \A c \in Ctrl : OwnedBy(c)' = OwnedBy(c)
    BY <1>1, <1>2 DEF OwnedBy, InInit
  <2> HIDE DEF k, S
  <2>5. count' \in [Resource -> Int]
    BY <1>1, <2>1, Acquired
  <2>6. ASSUME NEW x, NEW c, NEW n, <<x, c, n>> \in Resource
        PROVE  count'[<<x, c, n>>] = count[<<x, c, n>>] +
                 IF x \in {"pcidev", "resource"} /\ c = k /\ n = 0 THEN 1 ELSE 0
    BY <1>1, <2>1, <2>2, <2>6, Acquired
  <2>7. ASSUME NEW x, NEW c, NEW n, <<x, c, n>> \in Resource,
               x \notin {"pcidev", "resource"}
        PROVE  count'[<<x, c, n>>] = count[<<x, c, n>>]
    <3>1. count[<<x, c, n>>] \in Int
      BY <1>1, <2>7
    <3> QED
      BY <2>6, <2>7, <3>1
  <2>8. SameCounts({"irq"}) /\ SameCounts(AdminMemory)
    <3>1. AdminMemory \cap {"pcidev", "resource"} = {}
      BY DEF AdminMemory, Vectors, Pins, Entries
    <3> QED
      BY <2>7, <3>1 DEF SameCounts
  <2>9. ASSUME NEW x \in Libraries
        PROVE  count'[<<x, 0, 0>>] = One(x \in have)
    <3>1. x \notin {"pcidev", "resource"} /\ <<x, 0, 0>> \in Resource
      BY <2>9, IsResource DEF Libraries
    <3> QED
      BY <1>1, <2>7, <2>9, <3>1 DEF BusCounts, Down, One
  <2>10. ASSUME NEW x \in {"pcidev", "resource"}, NEW c \in Ctrl
         PROVE  count'[<<x, c, 0>>] = One(c <= k)
    <3>1. <<x, c, 0>> \in Resource /\ count[<<x, c, 0>>] = One(c <= num_controllers)
      BY <1>1, <2>10, IsResource DEF BusCounts, Down, One
    <3>2. count'[<<x, c, 0>>] = count[<<x, c, 0>>] + IF c = k THEN 1 ELSE 0
      BY <2>6, <3>1
    <3> QED
      BY <1>1, <2>1, <2>3, <3>1, <3>2 DEF One
  <2>11. BusCounts'
    BY <1>2, <2>1, <2>9, <2>10 DEF BusCounts, One
  <2> QED
    BY <1>1, <2>4, <2>5, <2>8, <2>11, IrqKept, AdminKept DEF BringupInv, OtherCounts
<1> QED
  BY <1>3, <1>4, <1>5 DEF DiscoverNVMe

LEMMA InitCounts ==
  ASSUME BringupInv, InitNVMe
  PROVE  OtherCounts'
<1>1. /\ count \in [Resource -> Int] /\ AdminCounts /\ pc = "init"
      /\ UNCHANGED <<irq_installed, have, num_controllers>>
      /\ step \in 1 .. 13 /\ cur \in Ctrl
  BY Current, InitStepsAre DEF BringupInv, TypeOK, InitNVMe, libVars, AtController
<1>2. CASE InitAcquires
  <2> DEFINE x == InitStep
             d == cur
  <2>1. /\ Acquire(Of({x}, d, 0)) /\ x \in AdminMemory
        /\ UNCHANGED <<pc, cur>> /\ step' = step + 1
    BY <1>2, OneObject DEF InitAcquires, AdminMemory
  <2>2. /\ OwnedBy(d) = Taken(AdminMemory) /\ x \notin OwnedBy(d)
        /\ Taken(AdminMemory)' = Taken(AdminMemory) \cup {x}
    BY <1>1, <2>1, TakenIs, TakenGrows DEF OwnedBy, InInit
  <2>3. \A c \in Ctrl :
          OwnedBy(c)' = IF c = d THEN OwnedBy(c) \cup {x} ELSE OwnedBy(c)
    <3>1. \A c \in Ctrl : c # d => ptr'[c] = ptr[c]
      BY <1>1, <1>2 DEF InitAcquires, BringupInv, TypeOK
    <3> QED
      BY <1>1, <2>1, <2>2, <3>1 DEF OwnedBy, InInit
  <2>4. pc' \notin Down /\ pc \notin Down
    BY <1>1, <2>1 DEF Down
  <2> HIDE DEF x, d
  <2>5. /\ SameCounts(BusKinds) /\ SameCounts({"irq"})
        /\ count' \in [Resource -> Int]
    <3>1. {x} \cap BusKinds = {} /\ {x} \cap {"irq"} = {}
      BY <2>1, KindsDiffer
    <3> QED
      BY <1>1, <2>1, <3>1, OtherKinds, AcquiredOf
  <2>6. AdminCounts'
    <3> SUFFICES ASSUME NEW c \in Ctrl, NEW y \in AdminMemory
                 PROVE  count'[<<y, c, 0>>] = One(y \in OwnedBy(c)')
      BY DEF AdminCounts
    <3>1. /\ <<y, c, 0>> \in Resource
          /\ count[<<y, c, 0>>] = One(y \in OwnedBy(c))
      BY <1>1, IsResource DEF AdminCounts
    <3>2. count'[<<y, c, 0>>] =
            count[<<y, c, 0>>] + IF y \in {x} /\ c = d THEN 1 ELSE 0
      BY <1>1, <2>1, <3>1, AcquiredOf
    <3> QED
      BY <2>2, <2>3, <3>1, <3>2 DEF One
  <2> QED
    BY <1>1, <2>4, <2>5, <2>6, BusKept, IrqKept DEF BringupInv, OtherCounts
<1>3. CASE InitWaits
  <2>1. UNCHANGED <<pc, cur, count, ptr>> /\ step' = step + 1
        /\ InitStep \notin AdminMemory
    BY <1>3 DEF InitWaits, AdminMemory, Vectors, Pins, Entries
  <2>2. Taken(AdminMemory)' = Taken(AdminMemory)
    BY <1>1, <2>1, TakenGrows
  <2>3. \A c \in Ctrl : OwnedBy(c)' = OwnedBy(c)
    BY <2>1, <2>2 DEF OwnedBy, InInit
  <2> QED
    BY <1>1, <2>1, <2>3, SameIfUnchanged, BusKept, IrqKept, AdminKept
       DEF BringupInv, OtherCounts
<1>4. CASE InitFails
  BY <1>1, <1>4, InitErrReleases, InitGivesUp DEF InitFails, SkipController, Goto
<1>5. CASE InitIdentifies
  <2>1. UNCHANGED flags /\ step = 13
    BY <1>1, <1>5, InitStepsAre DEF InitIdentifies, InitStep
  <2>2. CASE Undoes /\ pc' = "bring" /\ cur' = cur
    BY <1>1, <2>1, <2>2, InitErrReleases
  <2>3. CASE UNCHANGED <<count, ptr>> /\ pc' = "irq"
    <3>1. OwnedBy(cur) = AdminMemory /\ ptr[cur] = AdminPointers /\ AdminPointers # {}
      BY <1>1, <2>1, TakenIs DEF OwnedBy, InInit, BringupInv, MemoryInv,
         AdminPointers, AdminMemory, Vectors
    <3>2. \A c \in Ctrl : OwnedBy(c)' = OwnedBy(c)
      BY <1>1, <2>3, <3>1 DEF OwnedBy, InInit
    <3> QED
      BY <1>1, <2>3, <3>2, SameIfUnchanged, BusKept, IrqKept, AdminKept
         DEF BringupInv, OtherCounts, Down
  <2> QED
    BY <1>1, <1>5, <2>2, <2>3, InitGivesUp
<1> QED
  BY <1>2, <1>3, <1>4, <1>5 DEF InitNVMe

LEMMA InstallCounts ==
  ASSUME BringupInv, InstallNVMeInterrupt
  PROVE  OtherCounts'
<1>1. /\ count \in [Resource -> Int] /\ IrqCounts /\ pc = "irq" /\ pc' = "list"
      /\ UNCHANGED <<ptr, have, num_controllers>>
      /\ cur \in Ctrl /\ ~irq_installed[cur] /\ irq_installed \in [Ctrl -> BOOLEAN]
  BY Current DEF BringupInv, TypeOK, InstallNVMeInterrupt, libVars, AtController,
     Goto, MemoryInv
<1>2. PICK installed \in BOOLEAN :
        /\ irq_installed' = [irq_installed EXCEPT ![cur] = installed]
        /\ Acquire(IF installed THEN {<<"irq", cur, 0>>} ELSE {})
  BY DEF InstallNVMeInterrupt
<1> DEFINE T == IF installed THEN {"irq"} ELSE {}
           d == cur
<1>3. Acquire(Of(T, d, 0)) /\ T \subseteq {"irq"} /\ d \in Ctrl
  BY <1>1, <1>2 DEF Of
<1>4. /\ \A c \in Ctrl : irq_installed'[c] <=> irq_installed[c] \/ (c = d /\ "irq" \in T)
      /\ ~irq_installed[d]
  BY <1>1, <1>2
<1> HIDE DEF T, d
<1>5. /\ SameCounts(BusKinds) /\ SameCounts(AdminMemory)
      /\ count' \in [Resource -> Int]
  <2>1. T \cap BusKinds = {} /\ T \cap AdminMemory = {}
    BY <1>3, KindsDiffer
  <2> QED
    BY <1>1, <1>3, <2>1, OtherKinds, AcquiredOf
<1>6. IrqCounts'
  <2> SUFFICES ASSUME NEW c \in Ctrl
               PROVE  count'[<<"irq", c, 0>>] = One(irq_installed'[c])
    BY DEF IrqCounts
  <2>1. /\ <<"irq", c, 0>> \in Resource
        /\ count[<<"irq", c, 0>>] = One(irq_installed[c])
    BY <1>1, IsResource DEF IrqCounts
  <2>2. count'[<<"irq", c, 0>>] =
          count[<<"irq", c, 0>>] + IF "irq" \in T /\ c = d THEN 1 ELSE 0
    BY <1>1, <1>3, <2>1, AcquiredOf
  <2>3. CASE c = d
    BY <1>4, <2>1, <2>2, <2>3 DEF One
  <2>4. CASE c # d
    BY <1>1, <1>4, <2>1, <2>2, <2>4 DEF One
  <2> QED
    BY <2>3, <2>4
<1>7. \A c \in Ctrl : OwnedBy(c)' = OwnedBy(c)
  BY <1>1 DEF OwnedBy, InInit
<1> QED
  BY <1>1, <1>5, <1>6, <1>7, BusKept, AdminKept DEF BringupInv, OtherCounts, Down

LEMMA QuiesceCounts ==
  ASSUME BringupInv, Quiesce
  PROVE  OtherCounts'
<1>1. /\ count \in [Resource -> Int] /\ pc \in {"undo", "quiesce"}
      /\ UNCHANGED <<have, num_controllers>>
      /\ irq_installed \in [Ctrl -> BOOLEAN] /\ ptr \in [Ctrl -> SUBSET AdminPointers]
  BY DEF BringupInv, TypeOK, Quiesce, libVars, AdminPointers
<1>2. CASE cur <= num_controllers
  <2> DEFINE d == cur
             T == OwnedBy(d) \cup (IF irq_installed[d] THEN {"irq"} ELSE {})
  <2>1. /\ UNCHANGED pc /\ d \in Ctrl /\ Release(Of(T, d, 0))
        /\ irq_installed' = [irq_installed EXCEPT ![d] = FALSE]
        /\ ptr' = [ptr EXCEPT ![d] = {}]
        /\ OwnedBy(d) \subseteq AdminMemory
    <3>1. d \in Ctrl /\ ~InInit(d)
      BY <1>1, <1>2, Current DEF BringupInv, InInit
    <3>2. CleanupFrees(d) = OwnedBy(d) /\ OwnedBy(d) \subseteq AdminMemory
      BY <3>1, CleanupFreesAll
    <3> QED
      BY <1>2, <3>1, <3>2 DEF Quiesce, QuiesceOne
  <2>2. /\ T \subseteq AdminMemory \cup {"irq"}
        /\ \A y \in AdminMemory : y \in T <=> y \in OwnedBy(d)
        /\ "irq" \in T <=> irq_installed[d]
    BY <2>1, KindsDiffer
  <2>3. \A c \in Ctrl : OwnedBy(c)' = IF c = d THEN {} ELSE OwnedBy(c)
    BY <1>1, <2>1 DEF OwnedBy, InInit
  <2>4. \A c \in Ctrl : irq_installed'[c] <=> irq_installed[c] /\ c # d
    BY <1>1, <2>1
  <2> HIDE DEF d, T
  <2>5. SameCounts(BusKinds) /\ count' \in [Resource -> Int]
    <3>1. T \cap BusKinds = {}
      BY <2>2, KindsDiffer
    <3> QED
      BY <1>1, <2>1, <3>1, OtherKinds, ReleasedOf
  <2>6. IrqCounts'
    <3> SUFFICES ASSUME NEW c \in Ctrl
                 PROVE  count'[<<"irq", c, 0>>] = One(irq_installed'[c])
      BY DEF IrqCounts
    <3>1. /\ <<"irq", c, 0>> \in Resource
          /\ count[<<"irq", c, 0>>] = One(irq_installed[c])
      BY IsResource DEF IrqCounts, BringupInv
    <3>2. count'[<<"irq", c, 0>>] =
            count[<<"irq", c, 0>>] - IF "irq" \in T /\ c = d THEN 1 ELSE 0
      BY <1>1, <2>1, <3>1, ReleasedOf
    <3>3. CASE c = d
      BY <2>2, <2>4, <3>1, <3>2, <3>3 DEF One
    <3>4. CASE c # d
      BY <1>1, <2>4, <3>1, <3>2, <3>4 DEF One
    <3> QED
      BY <3>3, <3>4
  <2>7. AdminCounts'
    <3> SUFFICES ASSUME NEW c \in Ctrl, NEW x \in AdminMemory
                 PROVE  count'[<<x, c, 0>>] = One(x \in OwnedBy(c)')
      BY DEF AdminCounts
    <3>1. /\ <<x, c, 0>> \in Resource
          /\ count[<<x, c, 0>>] = One(x \in OwnedBy(c))
      BY IsResource DEF AdminCounts, BringupInv
    <3>2. count'[<<x, c, 0>>] =
            count[<<x, c, 0>>] - IF x \in T /\ c = d THEN 1 ELSE 0
      BY <1>1, <2>1, <3>1, ReleasedOf
    <3> QED
      BY <2>2, <2>3, <3>1, <3>2 DEF One
  <2> QED
    BY <1>1, <2>1, <2>5, <2>6, <2>7, BusKept DEF BringupInv, OtherCounts
<1>3. CASE ~(cur <= num_controllers)
  <2>1. /\ UNCHANGED <<count, ptr, irq_installed>> /\ pc' \in {"err", "free"}
    BY <1>3 DEF Quiesce, Goto
  <2> QED
    BY <1>1, <2>1, SameIfUnchanged, OthersKept DEF Down
<1> QED
  BY <1>2, <1>3

LEMMA LeaveCounts ==
  ASSUME BringupInv, Leave
  PROVE  OtherCounts'
<1>1. /\ count \in [Resource -> Int] /\ BusCounts /\ pc \in {"err", "release"}
      /\ pc' \in Down /\ pc \notin Down /\ UNCHANGED <<irq_installed, ptr>>
      /\ num_controllers \in Nat /\ Ctrl \subseteq Nat \ {0}
      /\ "discovery" \in have \/ num_controllers = 0
  BY Current DEF BringupInv, TypeOK, Leave, Goto, Down, ctrlVars, HaveInv
<1> DEFINE S == Of(have \cap Libraries, 0, 0)
                  \cup (IF "discovery" \in have THEN PciObjects(1 .. num_controllers)
                                               ELSE {})
<1>2. Release(S)
  BY DEF Leave, ReleaseAll
<1>3. ASSUME NEW x, NEW c, NEW n
      PROVE  <<x, c, n>> \in S <=>
               \/ x \in have \cap Libraries /\ c = 0 /\ n = 0
               \/ /\ x \in {"pcidev", "resource"} /\ n = 0
                  /\ c \in 1 .. num_controllers
  BY <1>1, OfMember, PciMember
<1>4. count' \in [Resource -> Int]
  BY <1>1, <1>2, Released
<1> HIDE DEF S
<1>5. ASSUME NEW x, NEW c, NEW n, <<x, c, n>> \in Resource, x \notin BusKinds
      PROVE  count'[<<x, c, n>>] = count[<<x, c, n>>]
  <2>1. <<x, c, n>> \notin S /\ count[<<x, c, n>>] \in Int
    BY <1>1, <1>3, <1>5 DEF BusKinds
  <2> QED
    BY <1>1, <1>2, <1>5, <2>1, Released
<1>6. SameCounts({"irq"}) /\ SameCounts(AdminMemory)
  BY <1>5, KindsDiffer DEF SameCounts
<1>7. \A c \in Ctrl : OwnedBy(c)' = OwnedBy(c)
  BY <1>1 DEF OwnedBy, InInit, Down
<1>8. ASSUME NEW x \in Libraries
      PROVE  count'[<<x, 0, 0>>] = 0
  <2>1. /\ <<x, 0, 0>> \in Resource /\ count[<<x, 0, 0>>] = One(x \in have)
        /\ x \notin {"pcidev", "resource"}
    BY <1>1, <1>8, IsResource DEF BusCounts, One, Libraries
  <2>2. <<x, 0, 0>> \in S <=> x \in have
    BY <1>3, <1>8, <2>1
  <2> QED
    BY <1>1, <1>2, <2>1, <2>2, Released DEF One
<1>9. ASSUME NEW x \in {"pcidev", "resource"}, NEW c \in Ctrl
      PROVE  count'[<<x, c, 0>>] = 0
  <2>1. /\ <<x, c, 0>> \in Resource
        /\ count[<<x, c, 0>>] = One(c <= num_controllers)
        /\ x \notin Libraries
    BY <1>1, <1>9, IsResource DEF BusCounts, One, Libraries
  <2>2. <<x, c, 0>> \in S <=> c <= num_controllers
    BY <1>1, <1>3, <1>9, <2>1
  <2> QED
    BY <1>1, <1>2, <2>1, <2>2, Released DEF One
<1>10. BusCounts'
  BY <1>1, <1>8, <1>9 DEF BusCounts, One
<1> QED
  BY <1>1, <1>4, <1>6, <1>7, <1>10, IrqKept, AdminKept DEF BringupInv, OtherCounts

LEMMA OthersStep ==
  ASSUME BringupInv, [Next]_vars
  PROVE  OtherCounts'
<1>1. count \in [Resource -> Int] /\ TypeOK /\ PlaceInv /\ TurnInv
  BY DEF BringupInv, TypeOK
<1>2. CASE BringUp
  <2>1. /\ pc = "bring" /\ pc' \notin Down
        /\ UNCHANGED <<count, ptr, irq_installed, have, num_controllers>>
    BY <1>2 DEF BringUp, libVars, Goto, Down
  <2>2. \A c \in Ctrl : OwnedBy(c)' = OwnedBy(c)
    <3>1. CASE pc' = "init"
      <4>1. step' = 1 /\ cur' = cur + 1
        BY <1>2, <3>1 DEF BringUp, Goto
      <4>2. Taken(AdminMemory)' = {}
        BY <4>1 DEF Taken
      <4>3. \A c \in Ctrl : c = cur' => ptr[c] = {}
        BY <1>1, <2>1, <4>1, Current DEF BringupInv, MemoryInv, MayHold
      <4> QED
        BY <2>1, <4>2, <4>3 DEF OwnedBy, InInit
    <3>2. CASE pc' # "init"
      BY <2>1, <3>2 DEF OwnedBy, InInit
    <3> QED
      BY <3>1, <3>2
  <2> QED
    BY <1>1, <2>1, <2>2, SameIfUnchanged, BusKept, IrqKept, AdminKept
       DEF BringupInv, OtherCounts, Down
<1>3. CASE DiscoverUnits
  <2>1. /\ UNCHANGED <<cur, have, num_controllers, ptr, irq_installed>>
        /\ pc \in {"list", "unit"} /\ pc' \in {"unit", "bring"}
    BY <1>1, <1>3, UnitsFrame DEF libVars, ctrlVars
  <2>2. \/ UNCHANGED count
        \/ \E T \in SUBSET (UnitMemory \cup UnitEntries) : Acquire(Here(T)) \/ Release(Here(T))
    <3>1. CASE ListNamespaces
      BY <3>1, Lists
    <3>2. CASE pc = "unit"
      <4>1. local \subseteq UnitMemory \cup UnitEntries
        BY <1>1 DEF TypeOK
      <4>2. CASE Gets
        <5> DEFINE T == {UnitStep}
        <5>1. T \in SUBSET (UnitMemory \cup UnitEntries) /\ Acquire(Here(T))
          BY <4>2 DEF Gets
        <5> QED
          BY <5>1
      <4>3. CASE Unmaps
        <5> DEFINE T == local \cap UnitEntries
        <5>1. T \in SUBSET (UnitMemory \cup UnitEntries) /\ Release(Here(T))
          BY <4>3 DEF Unmaps
        <5> QED
          BY <5>1
      <4>4. CASE Drops
        BY <4>1, <4>4 DEF Drops
      <4>5. CASE Returns \/ Passes \/ Registers
        BY <4>5 DEF Returns, Passes, Registers
      <4> QED
        BY <1>1, <1>3, <3>2, <4>2, <4>3, <4>4, <4>5, UnitTurns
    <3> QED
      BY <1>3, <3>1, <3>2 DEF DiscoverUnits
  <2>3. /\ SameCounts(BusKinds) /\ SameCounts({"irq"}) /\ SameCounts(AdminMemory)
        /\ count' \in [Resource -> Int]
    <3>1. CASE UNCHANGED count
      BY <1>1, <3>1, SameIfUnchanged
    <3>2. ASSUME NEW T \in SUBSET (UnitMemory \cup UnitEntries),
                 Acquire(Here(T)) \/ Release(Here(T))
          PROVE  /\ SameCounts(BusKinds) /\ SameCounts({"irq"})
                 /\ SameCounts(AdminMemory) /\ count' \in [Resource -> Int]
      <4>1. Acquire(Of(T, cur, Head(ns))) \/ Release(Of(T, cur, Head(ns)))
        BY <3>2 DEF Here
      <4> QED
        BY <1>1, <4>1, UnitsOnly
    <3> QED
      BY <2>2, <3>1, <3>2
  <2> QED
    BY <2>1, <2>3, OthersKept DEF Down
<1>4. CASE FreeUnits
  <2>1. /\ pc = "free" /\ pc' \in {"free", "release"}
        /\ UNCHANGED <<have, num_controllers, ptr, irq_installed>>
    BY <1>4 DEF FreeUnits, libVars, ctrlVars, Goto
  <2>2. /\ SameCounts(BusKinds) /\ SameCounts({"irq"}) /\ SameCounts(AdminMemory)
        /\ count' \in [Resource -> Int]
    <3>1. CASE UNCHANGED count
      BY <1>1, <3>1, SameIfUnchanged
    <3>2. CASE Release(Of(UnitMemory, global_units[cur].ctrl, global_units[cur].nsid))
      BY <1>1, <3>2, UnitsOnly
    <3> QED
      BY <1>4, <3>1, <3>2 DEF FreeUnits
  <2> QED
    BY <2>1, <2>2, OthersKept DEF Down
<1>5. CASE Expunge
  <2>1. /\ pc = "loaded" /\ pc' = "quiesce"
        /\ UNCHANGED <<count, have, num_controllers, ptr, irq_installed>>
    BY <1>5 DEF Expunge, libVars, ctrlVars, Goto
  <2> QED
    BY <1>1, <2>1, SameIfUnchanged, OthersKept DEF Down
<1>6. CASE UNCHANGED <<placeVars, count, libVars, ctrlVars>>
  <2>1. \A c \in Ctrl : OwnedBy(c)' = OwnedBy(c)
    BY <1>6 DEF OwnedBy, InInit, Taken, placeVars, ctrlVars
  <2> QED
    BY <1>1, <1>6, <2>1, SameIfUnchanged, BusKept, IrqKept, AdminKept
       DEF BringupInv, OtherCounts, placeVars, libVars, ctrlVars
<1>7. CASE \E c \in Ctrl : Late(c)
  BY <1>6, <1>7 DEF Late
<1>8. CASE UNCHANGED vars
  BY <1>6, <1>8 DEF vars
<1> QED
  BY <1>2, <1>3, <1>4, <1>5, <1>7, <1>8, LibraryCounts, PciCounts, InitCounts,
     InstallCounts, QuiesceCounts, LeaveCounts DEF Next

-----------------------------------------------------------------------------
(* The loop over the namespaces and the table of units.                    *)

LEMMA BrokenGrows ==
  ASSUME [Next]_vars
  PROVE  broken \subseteq broken'
<1>1. ASSUME NEW c, NEW cmd, NEW ok, AdminCmd(c, cmd, ok)
      PROVE  broken \subseteq broken'
  BY <1>1 DEF AdminCmd, Failure
<1>2. CASE InitNVMe
  BY <1>1, <1>2 DEF InitNVMe, InitAcquires, InitWaits, InitFails, InitIdentifies, Failure
<1>3. CASE DiscoverUnits
  <2>1. CASE ListNamespaces
    BY <1>1, <2>1 DEF ListNamespaces
  <2>2. CASE EndOfNamespaces \/ UnitAcquires \/ UnitAllocFails \/ UnitChecks
    BY <2>2 DEF EndOfNamespaces, UnitAcquires, UnitAllocFails, UnitChecks, Failure
  <2>3. CASE UnitIdentifies \/ CreateIOCQ \/ CreateIOSQ
    BY <1>1, <2>3 DEF UnitIdentifies, CreateIOCQ, CreateIOSQ
  <2> QED
    BY <1>3, <2>1, <2>2, <2>3 DEF DiscoverUnits
<1>4. CASE OpenLibrary \/ DiscoverNVMe \/ BringUp \/ InstallNVMeInterrupt
             \/ Expunge \/ Quiesce \/ FreeUnits \/ Leave
  BY <1>4 DEF OpenLibrary, DiscoverNVMe, BringUp, InstallNVMeInterrupt, Expunge,
     Quiesce, FreeUnits, Leave
<1>5. CASE (\E c \in Ctrl : Late(c)) \/ UNCHANGED vars
  BY <1>5 DEF Late, vars
<1> QED
  BY <1>2, <1>3, <1>4, <1>5 DEF Next

TableTypes ==
  /\ ns \in Seq(Nsid)
  /\ ctrls_up \in 0 .. MaxControllers
  /\ global_units \in Seq([ctrl : Ctrl, nsid : Nsid, queue_id : Nat])
  /\ Len(global_units) <= MaxGlobalUnits
  /\ local \subseteq UnitMemory \cup UnitEntries

TableAll == TableTypes /\ TurnInv /\ RoomInv /\ TableInv /\ PendingInv

LEMMA TailIs ==
  ASSUME ns \in Seq(Nsid), ns # <<>>
  PROVE  /\ Tail(ns) \in Seq(Nsid) /\ Len(Tail(ns)) = Len(ns) - 1
         /\ Len(ns) \in Nat \ {0} /\ 1 \in DOMAIN ns /\ Head(ns) = ns[1]
         /\ \A k \in DOMAIN Tail(ns) : /\ k + 1 \in DOMAIN ns /\ k + 1 # 1
                                       /\ Tail(ns)[k] = ns[k + 1]
  OBVIOUS

\* Steps outside the loop over the namespaces that leave the table alone.
LEMMA TableKept ==
  ASSUME BringupInv, UNCHANGED <<global_units, ctrls_up, ns, local>>,
         pc # "unit", pc' # "unit",
         pc' \in Opening \cup {"undo", "err", "release"} \cup Down =>
           global_units = <<>>,
         pc' \in Opening => pc \in Opening,
         pc' \in Loop =>
           /\ cur' \in 1 .. MaxControllers \/ (pc' = "bring" /\ cur' \in 0 .. MaxControllers)
           /\ \/ global_units = <<>> /\ ctrls_up = 0
              \/ pc \in Loop /\ Reserved \in Nat /\ Reserved <= Reserved'
  PROVE  TableAll'
<1>1. TypeOK /\ TurnInv /\ RoomInv /\ TableInv /\ PendingInv /\ ns = <<>> /\ local = {}
  BY DEF BringupInv, TurnInv
<1>2. TableTypes'
  BY <1>1 DEF TableTypes, TypeOK
<1>3. TurnInv' /\ PendingInv'
  BY <1>1 DEF TurnInv, PendingInv
<1>4. pc' \in Loop => Reserved' \in 0 .. MaxControllers
  BY Numbers DEF Reserved
<1>5. ASSUME pc' \in Loop
      PROVE  /\ Len(global_units) <= Reserved' * MaxNamespaces
             /\ ctrls_up <= Reserved'
             /\ \A i \in DOMAIN global_units : global_units[i].ctrl <= Reserved'
  <2>1. CASE global_units = <<>> /\ ctrls_up = 0
    <3>1. Reserved' * MaxNamespaces \in Nat /\ Reserved' \in Nat
      BY <1>4, <1>5, Numbers
    <3> QED
      BY <2>1, <3>1
  <2>2. CASE pc \in Loop /\ Reserved \in Nat /\ Reserved <= Reserved'
    <3> DEFINE a == Reserved
               b == Reserved'
    <3>1. /\ Len(global_units) <= a * MaxNamespaces /\ ctrls_up <= a
          /\ \A i \in DOMAIN global_units : global_units[i].ctrl <= a
          /\ Len(global_units) \in Nat /\ ctrls_up \in Nat
          /\ \A i \in DOMAIN global_units : global_units[i].ctrl \in Nat
      <4>1. Len(ns) = 0
        BY <1>1
      <4>2. /\ Len(global_units) + Len(ns) <= a * MaxNamespaces /\ ctrls_up <= a
            /\ \A i \in DOMAIN global_units : global_units[i].ctrl <= a
        BY <1>1, <2>2 DEF RoomInv, TableInv, Reserved, Loop, AtController
      <4>3. /\ Len(global_units) \in Nat /\ ctrls_up \in Nat
            /\ \A i \in DOMAIN global_units : global_units[i].ctrl \in Nat
        BY <1>1, TableEntries DEF Ctrl
      <4>4. Len(global_units) + Len(ns) = Len(global_units)
        BY <4>1, <4>3
      <4> QED
        BY <4>2, <4>3, <4>4
    <3>2. a \in Nat /\ b \in Nat /\ a <= b
      BY <1>4, <1>5, <2>2, Numbers
    <3> HIDE DEF a, b
    <3>3. a * MaxNamespaces <= b * MaxNamespaces
          /\ a * MaxNamespaces \in Nat /\ b * MaxNamespaces \in Nat
      BY <3>2, Numbers
    <3>4. Len(global_units) <= b * MaxNamespaces
      BY <3>1, <3>3
    <3> QED
      BY <3>1, <3>2, <3>4 DEF b
  <2> QED
    BY <1>5, <2>1, <2>2
<1>6. RoomInv'
  <2>1. Len(global_units) + Len(ns) = Len(global_units)
    BY <1>1 DEF TypeOK
  <2> QED
    BY <1>5, <2>1 DEF RoomInv, Reserved, Loop, AtController
<1>7. TableInv'
  BY <1>1, <1>5 DEF TableInv, UnitsOf
<1> QED
  BY <1>2, <1>3, <1>6, <1>7 DEF TableAll

\* The list of the namespaces, and the empty hand of the first turn.
LEMMA ListTable ==
  ASSUME BringupInv, ListNamespaces
  PROVE  TableAll'
<1>1. /\ TypeOK /\ PlaceInv /\ TurnInv /\ RoomInv /\ TableInv /\ PendingInv
      /\ pc = "list" /\ step' = 1 /\ local' = {} /\ ns = <<>> /\ local = {}
      /\ UNCHANGED <<cur, global_units>>
  BY Lists DEF BringupInv, TurnInv
<1>2. cur \in 1 .. MaxControllers
  BY <1>1, Current DEF AtController
<1>3. /\ Len(global_units) <= (cur - 1) * MaxNamespaces
      /\ ctrls_up <= cur - 1 /\ ctrls_up \in Nat /\ Len(global_units) \in Nat
      /\ \A i \in DOMAIN global_units : global_units[i].ctrl <= cur - 1
  <2>1. Len(global_units) + Len(ns) = Len(global_units)
    BY <1>1, TableEntries
  <2>2. /\ Len(global_units) + Len(ns) <= (cur - 1) * MaxNamespaces
        /\ ctrls_up <= cur - 1
        /\ \A i \in DOMAIN global_units : global_units[i].ctrl <= cur - 1
    BY <1>1 DEF RoomInv, TableInv, Reserved, Loop, AtController
  <2> QED
    BY <1>1, <2>1, <2>2, TableEntries
<1>4. /\ (cur - 1) * MaxNamespaces \in Nat /\ MaxNamespaces \in Nat
      /\ cur * MaxNamespaces = (cur - 1) * MaxNamespaces + MaxNamespaces
  <2> DEFINE k == cur - 1
  <2>1. k \in 0 .. MaxControllers /\ cur = k + 1
    BY <1>2, Numbers
  <2> HIDE DEF k
  <2>2. k * MaxNamespaces \in Nat /\ (k + 1) * MaxNamespaces = k * MaxNamespaces + MaxNamespaces
    BY <2>1, Numbers
  <2> QED
    BY <2>1, <2>2, Numbers DEF k
<1>5. CASE DiscoverUnitsReturns
  <2>1. ns' = <<>> /\ pc' = "bring" /\ ctrls_up' = ctrls_up + 1
    BY <1>5 DEF DiscoverUnitsReturns, Goto
  <2>4. Len(global_units) + Len(ns') <= cur * MaxNamespaces
    BY <2>1, <1>3, <1>4
  <2>5. TableTypes'
    BY <1>1, <1>2, <2>1, <1>3, Numbers DEF TableTypes, TypeOK
  <2>6. RoomInv'
    BY <1>1, <1>2, <2>1, <1>3, <2>4 DEF RoomInv, Reserved
  <2>7. TableInv'
    <3>1. \A i \in DOMAIN global_units : global_units[i].ctrl <= cur
      BY <1>1, <1>2, <1>3, TableEntries DEF Ctrl
    <3>2. \A c : UnitsOf(c)' = UnitsOf(c)
      BY <1>1 DEF UnitsOf
    <3> QED
      BY <1>1, <2>1, <1>3, <3>1, <3>2 DEF TableInv, Reserved, Opening, Down
  <2>8. TurnInv' /\ PendingInv'
    BY <1>1, <2>1 DEF TurnInv, PendingInv
  <2> QED
    BY <2>5, <2>6, <2>7, <2>8 DEF TableAll
<1>6. CASE /\ pc' = "unit" /\ UNCHANGED ctrls_up
           /\ \E n \in 1 .. MaxNamespaces : ns' = [i \in 1 .. n |-> i]
  <2>1. PICK n \in 1 .. MaxNamespaces : ns' = [i \in 1 .. n |-> i]
    BY <1>6
  <2>2. /\ ns' \in Seq(Nsid) /\ Len(ns') = n /\ DOMAIN ns' = 1 .. n
        /\ \A i \in 1 .. n : ns'[i] = i
    BY <2>1, Numbers DEF Nsid
  <2>5. Len(global_units) + Len(ns') <= cur * MaxNamespaces
    BY <2>2, <1>3, <1>4
  <2>6. UnitsOf(cur)' = {} /\ UnitsOf(cur) = {}
    BY <1>1, <1>2, <1>3, TableEntries DEF UnitsOf, Ctrl
  <2>7. Cardinality(UnitsOf(cur)') + Len(ns') <= MaxNamespaces
    BY <2>2, <1>4, <2>6, FS_EmptySet
  <2>8. TableTypes'
    BY <1>1, <1>6, <2>2 DEF TableTypes, TypeOK
  <2>9. RoomInv'
    BY <1>1, <1>2, <1>6, <1>3, <2>5, <2>7 DEF RoomInv, Reserved, UnitsOf
  <2>10. TableInv'
    <3>1. \A i \in DOMAIN global_units : global_units[i].ctrl <= cur
      BY <1>1, <1>2, <1>3, TableEntries DEF Ctrl
    <3> QED
      BY <1>1, <1>6, <3>1 DEF TableInv, Reserved, UnitsOf, Opening, Down
  <2>11. TurnInv'
    BY <1>1, <1>6, PassedIs DEF TurnInv
  <2>12. PendingInv'
    BY <1>1, <1>2, <2>2, <1>3, TableEntries DEF PendingInv, Ctrl
  <2> QED
    BY <2>8, <2>9, <2>10, <2>11, <2>12 DEF TableAll
<1> QED
  BY <1>5, <1>6, Lists

\* The next turn: the hand is empty and the list is shorter.
LEMMA NextTurn ==
  ASSUME BringupInv, pc = "unit", ns # <<>>, NextNamespace, UNCHANGED <<pc, cur>>
  PROVE  /\ TurnInv' /\ ns' \in Seq(Nsid) /\ Len(ns') = Len(ns) - 1
         /\ \A k \in DOMAIN ns' : /\ k + 1 \in DOMAIN ns /\ ns'[k] = ns[k + 1]
                                /\ ns'[k] # Head(ns)
         /\ \A j, k \in DOMAIN ns' : ns'[j] = ns'[k] => j = k
<1>1. ns \in Seq(Nsid) /\ PendingInv /\ ns' = Tail(ns) /\ step' = 1 /\ local' = {}
  BY DEF BringupInv, TypeOK, NextNamespace
<1>2. TurnInv'
  BY <1>1, PassedIs DEF TurnInv
<1>3. /\ Tail(ns) \in Seq(Nsid) /\ Len(Tail(ns)) = Len(ns) - 1
      /\ 1 \in DOMAIN ns /\ Head(ns) = ns[1] /\ DOMAIN Tail(ns) \subseteq Nat
      /\ \A k \in DOMAIN Tail(ns) : /\ k + 1 \in DOMAIN ns /\ k + 1 # 1
                                    /\ Tail(ns)[k] = ns[k + 1]
  BY <1>1, TailIs
<1>4. \A j, k \in DOMAIN ns : ns[j] = ns[k] => j = k
  BY <1>1 DEF PendingInv
<1> QED
  BY <1>1, <1>2, <1>3, <1>4

LEMMA PassedNext ==
  ASSUME NEW s \in 1 .. 11
  PROVE  /\ s \in {1, 3, 4, 6, 7, 8, 9} =>
              Passed(s + 1) = Passed(s) \cup {UnitSteps[s]} /\ Gaps(s + 1) = Gaps(s)
         /\ s \in {3, 4, 7, 9} => UnitSteps[s] \in Gaps(s)
         /\ s \in {2, 11} => Passed(s + 1) = Passed(s) /\ Gaps(s + 1) = Gaps(s)
         /\ s = 5 => Passed(6) = {"unit", "io_sq", "io_cq"} /\ Passed(5) = Passed(6)
         /\ s = 10 => Passed(11) = UnitMemory /\ Passed(10) = UnitMemory \cup UnitEntries
         /\ Gaps(6) = UnitEntries /\ Gaps(10) = UnitEntries /\ Gaps(11) = UnitEntries
<1>1. s + 1 \in 1 .. 12 /\ s \in 1 .. 12
  OBVIOUS
<1>2. s \in {3, 4, 7, 9} => UnitSteps[s] \in Gaps(s)
  BY UnitStepsAre DEF Gaps, UnitEntries
<1>3. s \in {1, 3, 4} => Passed(s + 1) = Passed(s) \cup {UnitSteps[s]}
  BY <1>1, PassedIs, UnitStepsAre
<1>4. s \in {6, 7, 8, 9} => Passed(s + 1) = Passed(s) \cup {UnitSteps[s]}
  BY <1>1, PassedIs, UnitStepsAre DEF UnitMemory, UnitEntries
<1>5. s # 5 => Gaps(s + 1) = Gaps(s)
  BY DEF Gaps
<1>6. s \in {2, 11} => Passed(s + 1) = Passed(s)
  BY <1>1, PassedIs
<1>7. s = 5 => Passed(6) = {"unit", "io_sq", "io_cq"} /\ Passed(5) = Passed(6)
  BY <1>1, PassedIs
<1>8. s = 10 => Passed(11) = UnitMemory /\ Passed(10) = UnitMemory \cup UnitEntries
  BY <1>1, PassedIs
<1>9. Gaps(6) = UnitEntries /\ Gaps(10) = UnitEntries /\ Gaps(11) = UnitEntries
  BY DEF Gaps
<1> QED
  BY <1>2, <1>3, <1>4, <1>5, <1>6, <1>7, <1>8, <1>9

\* A turn that goes on has what its steps have acquired, but for failures that
\* nobody has noticed yet.
LEMMA TurnKept ==
  ASSUME BringupInv, [Next]_vars, pc = "unit", UNCHANGED <<pc, cur>>, ns # <<>>,
         Gets \/ Passes \/ Unmaps
  PROVE  TurnInv' /\ local' \subseteq UnitMemory \cup UnitEntries /\ ns' = ns
<1>1. /\ TurnInv /\ step \in 1 .. 12 /\ local \subseteq UnitMemory \cup UnitEntries
      /\ broken \subseteq broken'
  BY SMTT(30), BrokenGrows, InitStepsAre DEF BringupInv, TypeOK, PlaceInv
<1>2. /\ local \subseteq Passed(step) /\ Passed(step) \ Gaps(step) \subseteq local
      /\ cur \notin broken => Passed(step) \subseteq local
  BY <1>1 DEF TurnInv
<1>3. step # 12 /\ step' = step + 1 /\ ns' = ns
  BY <1>1, StepNumbers DEF Gets, Passes, Unmaps, Proceed
<1>4. step \in 1 .. 11
  BY <1>1, <1>3
<1> DEFINE s == step
           Ok == /\ local' \subseteq Passed(s + 1)
                 /\ Passed(s + 1) \ Gaps(s + 1) \subseteq local'
                 /\ cur \notin broken' => Passed(s + 1) \subseteq local'
                 /\ local' \subseteq UnitMemory \cup UnitEntries
<1>5. ASSUME Gets PROVE Ok
  <2>1. local' = local \cup {UnitSteps[s]} /\ UnitSteps[s] \in UnitMemory \cup UnitEntries
    BY <1>5 DEF Gets, UnitStep
  <2>2. s \in {1, 3, 4, 6, 7, 8, 9}
    BY <1>1, <1>5, StepNumbers DEF Gets
  <2>3. Passed(s + 1) = Passed(s) \cup {UnitSteps[s]} /\ Gaps(s + 1) = Gaps(s)
    BY <1>4, <2>2, PassedNext
  <2> HIDE DEF s
  <2> QED
    BY <1>1, <1>2, <2>1, <2>3 DEF s
<1>6. ASSUME Passes PROVE Ok
  <2>1. local' = local /\ (s \in {2, 11} \/ (s \in {3, 4, 7, 9} /\ cur \in broken'))
    BY <1>1, <1>6, StepNumbers DEF Passes
  <2>2. CASE s \in {2, 11}
    BY <1>1, <1>2, <1>4, <2>1, <2>2, PassedNext
  <2>3. CASE s \in {3, 4, 7, 9} /\ cur \in broken'
    <3>1. /\ Passed(s + 1) = Passed(s) \cup {UnitSteps[s]} /\ Gaps(s + 1) = Gaps(s)
          /\ UnitSteps[s] \in Gaps(s)
      BY <1>4, <2>3, PassedNext
    <3> HIDE DEF s
    <3> QED
      BY <1>1, <1>2, <2>1, <2>3, <3>1 DEF s
  <2> QED
    BY <2>1, <2>2, <2>3
<1>7. ASSUME Unmaps PROVE Ok
  <2>1. /\ local' = local \ UnitEntries
        /\ (s = 5 /\ {"io_sq", "io_cq"} \subseteq local) \/ s = 10
    BY <1>7 DEF Unmaps
  <2>2. CASE s = 5 /\ {"io_sq", "io_cq"} \subseteq local
    <3>1. /\ Passed(6) = {"unit", "io_sq", "io_cq"} /\ Passed(5) = Passed(6)
          /\ Gaps(6) = UnitEntries
      BY <1>4, <2>2, PassedNext
    <3>2. Gaps(5) = {"io_sq", "io_cq"} \cup UnitEntries /\ "unit" \notin Gaps(5)
      BY DEF Gaps, UnitEntries
    <3>3. local' = local
      BY <1>2, <2>1, <2>2, <3>1 DEF UnitEntries
    <3> QED
      BY <1>1, <1>2, <2>2, <3>1, <3>2, <3>3
  <2>3. CASE s = 10
    <3>1. /\ Passed(11) = UnitMemory /\ Passed(10) = UnitMemory \cup UnitEntries
          /\ Gaps(10) = UnitEntries /\ Gaps(11) = UnitEntries
      BY <1>4, <2>3, PassedNext
    <3> QED
      BY <1>1, <1>2, <2>1, <2>3, <3>1, KindsDiffer
  <2> QED
    BY <2>1, <2>2, <2>3
<1>8. Ok
  BY <1>5, <1>6, <1>7
<1> QED
  BY <1>3, <1>8 DEF TurnInv

LEMMA UnitTable ==
  ASSUME BringupInv, [Next]_vars, pc = "unit", DiscoverUnits
  PROVE  TableAll'
<1>1. /\ TypeOK /\ PlaceInv /\ TurnInv /\ RoomInv /\ TableInv /\ PendingInv
      /\ cur \in Ctrl /\ cur' = cur /\ Len(ns) \in Nat /\ ctrls_up \in Nat
      /\ step \in 1 .. 12 /\ Ctrl \subseteq Nat
      /\ MaxNamespaces \in Nat /\ cur * MaxNamespaces \in Nat
      /\ cur * MaxNamespaces <= MaxGlobalUnits /\ MaxGlobalUnits \in Nat
      /\ MaxControllers \in Nat /\ cur \in 1 .. MaxControllers
  <2>1. /\ TypeOK /\ PlaceInv /\ TurnInv /\ RoomInv /\ TableInv /\ PendingInv
    BY DEF BringupInv
  <2>2. cur \in Ctrl /\ cur' = cur
    BY <2>1, Current, UnitTurns DEF AtController
  <2>3. cur \in 0 .. MaxControllers /\ cur \in 1 .. MaxControllers
    BY <2>2, Numbers DEF Ctrl
  <2>4. Len(ns) \in Nat /\ ctrls_up \in Nat /\ step \in 1 .. 12
    BY SMTT(30), <2>1, InitStepsAre DEF TypeOK, PlaceInv
  <2> QED
    BY <2>1, <2>2, <2>3, <2>4, Current, Numbers
<1>2. /\ Len(global_units) + Len(ns) <= cur * MaxNamespaces
      /\ ctrls_up <= cur - 1
      /\ Cardinality(UnitsOf(cur)) + Len(ns) <= MaxNamespaces
      /\ \A i \in DOMAIN global_units : global_units[i].ctrl <= cur
  BY <1>1 DEF RoomInv, TableInv, Reserved, Loop, AtController
<1>3. Cardinality(UnitsOf(cur)) \in Nat /\ Len(global_units) \in Nat
  BY <1>1, UnitsFinite, TableEntries
<1>4. CASE Returns
  <2>1. /\ step = 1 /\ ns' = <<>> /\ pc' = "bring" /\ ctrls_up' = ctrls_up + 1
        /\ UNCHANGED <<local, global_units>>
    BY <1>4 DEF Returns, DiscoverUnitsReturns, Goto
  <2>2. local = {}
    BY <1>1, <2>1, PassedIs DEF TurnInv
  <2>3. /\ Len(ns') = 0 /\ Len(global_units') + Len(ns') <= cur * MaxNamespaces
        /\ ctrls_up' <= cur /\ ctrls_up' \in 1 .. MaxControllers
    BY <1>1, <1>2, <1>3, <2>1
  <2>4. TableTypes'
    BY <1>1, <2>1, <2>2, <2>3 DEF TableTypes, TypeOK
  <2>5. RoomInv'
    BY <1>1, <2>1, <2>3 DEF RoomInv, Reserved
  <2>6. TableInv'
    <3>1. \A c : UnitsOf(c)' = UnitsOf(c)
      BY <2>1 DEF UnitsOf
    <3> QED
      BY <1>1, <1>2, <2>1, <2>3, <3>1 DEF TableInv, Reserved, Opening, Down
  <2>7. TurnInv' /\ PendingInv'
    BY <2>1, <2>2 DEF TurnInv, PendingInv
  <2> QED
    BY <2>4, <2>5, <2>6, <2>7 DEF TableAll
<1>5. CASE /\ UNCHANGED <<pc, ctrls_up, global_units>> /\ ns # <<>>
           /\ Gets \/ Passes \/ Unmaps
  <2>1. TurnInv' /\ local' \subseteq UnitMemory \cup UnitEntries /\ ns' = ns
    BY <1>1, <1>5, TurnKept
  <2>2. \A c : UnitsOf(c)' = UnitsOf(c)
    BY <1>5 DEF UnitsOf
  <2>3. TableTypes'
    BY <1>1, <1>5, <2>1 DEF TableTypes, TypeOK
  <2>4. RoomInv'
    BY <1>1, <1>2, <1>5, <2>1, <2>2 DEF RoomInv, Reserved, UnitsOf
  <2>5. TableInv'
    BY <1>1, <1>2, <1>5, <2>2 DEF TableInv, Reserved, Opening, Down
  <2>6. PendingInv'
    BY <1>1, <1>5, <2>1 DEF PendingInv
  <2> QED
    BY <2>1, <2>3, <2>4, <2>5, <2>6 DEF TableAll
<1>6. CASE UNCHANGED <<pc, ctrls_up, global_units>> /\ ns # <<>> /\ Drops
  <2>1. NextNamespace
    BY <1>6 DEF Drops
  <2>2. /\ TurnInv' /\ ns' \in Seq(Nsid) /\ Len(ns') = Len(ns) - 1
        /\ \A k \in DOMAIN ns' : k + 1 \in DOMAIN ns /\ ns'[k] = ns[k + 1]
        /\ \A j, k \in DOMAIN ns' : ns'[j] = ns'[k] => j = k
    BY <1>1, <1>6, <2>1, NextTurn
  <2>3. \A c : UnitsOf(c)' = UnitsOf(c)
    BY <1>6 DEF UnitsOf
  <2>4. TableTypes'
    BY <1>1, <1>6, <2>1, <2>2 DEF TableTypes, TypeOK, NextNamespace
  <2>5. RoomInv'
    <3>1. /\ Len(global_units) + Len(ns') <= cur * MaxNamespaces
          /\ Cardinality(UnitsOf(cur)) + Len(ns') <= MaxNamespaces
      <4> DEFINE U == Cardinality(UnitsOf(cur))
                 B == cur * MaxNamespaces
      <4>1. /\ Len(global_units) + Len(ns) <= B /\ U + Len(ns) <= MaxNamespaces
            /\ U \in Nat /\ Len(global_units) \in Nat /\ B \in Nat
            /\ Len(ns) \in Nat /\ MaxNamespaces \in Nat /\ Len(ns') = Len(ns) - 1
        BY <1>1, <1>2, <1>3, <2>2
      <4> HIDE DEF U, B
      <4>2. Len(global_units) + Len(ns') <= B /\ U + Len(ns') <= MaxNamespaces
        BY <4>1
      <4> QED
        BY <4>2 DEF U, B
    <3> QED
      BY <1>1, <1>2, <1>6, <2>3, <3>1 DEF RoomInv, Reserved, UnitsOf
  <2>6. TableInv'
    BY <1>1, <1>2, <1>6, <2>3 DEF TableInv, Reserved, Opening, Down
  <2>7. PendingInv'
    BY SMTT(30), <1>1, <1>6, <2>2 DEF PendingInv
  <2> QED
    BY <2>2, <2>4, <2>5, <2>6, <2>7 DEF TableAll
<1>7. CASE UNCHANGED <<pc, ctrls_up>> /\ ns # <<>> /\ Registers
  <2> DEFINE k == Len(global_units')
             d == cur
             N == Cardinality(UnitsOf(d))
  <2>1. /\ NextNamespace /\ Register(QueueId) /\ QueueId = N + 1
    BY <1>7 DEF Registers, QueueId
  <2>2. /\ TurnInv' /\ ns' \in Seq(Nsid) /\ Len(ns') = Len(ns) - 1
        /\ \A m \in DOMAIN ns' : /\ m + 1 \in DOMAIN ns /\ ns'[m] = ns[m + 1]
                               /\ ns'[m] # Head(ns)
        /\ \A m, n \in DOMAIN ns' : ns'[m] = ns'[n] => m = n
    BY <1>1, <1>7, <2>1, NextTurn
  <2>3. /\ k = Len(global_units) + 1
        /\ DOMAIN global_units' = DOMAIN global_units \cup {k}
        /\ k \notin DOMAIN global_units
        /\ \A i \in DOMAIN global_units : global_units'[i] = global_units[i]
        /\ global_units'[k] = [ctrl |-> d, nsid |-> Head(ns), queue_id |-> QueueId]
        /\ Head(ns) \in Nsid
        /\ \A c : IF c = d
                 THEN Cardinality(UnitsOf(c)') = N + 1
                 ELSE UnitsOf(c)' = UnitsOf(c)
    BY <1>1, <1>7, <2>1, Registered
  <2>4. /\ k + Len(ns') <= d * MaxNamespaces /\ N + 1 + Len(ns') <= MaxNamespaces
        /\ N \in Nat /\ QueueId \in Nat /\ k <= MaxGlobalUnits
    <3> DEFINE P == cur * MaxNamespaces
    <3>1. /\ P \in Nat /\ P <= MaxGlobalUnits /\ MaxGlobalUnits \in Nat
          /\ Len(global_units) + Len(ns) <= P /\ Len(global_units) \in Nat
          /\ Len(ns) \in Nat /\ Len(ns) # 0
      BY <1>1, <1>2, <1>3, <1>7 DEF TypeOK
    <3>2. N \in Nat /\ N + Len(ns) <= MaxNamespaces /\ MaxNamespaces \in Nat
      BY <1>1, <1>2, <1>3
    <3> HIDE DEF P, N, k
    <3> QED
      BY <2>1, <2>2, <2>3, <3>1, <3>2 DEF P
  <2>5. global_units' \in Seq([ctrl : Ctrl, nsid : Nsid, queue_id : Nat])
    <3> DEFINE u == [ctrl |-> cur, nsid |-> Head(ns), queue_id |-> QueueId]
               R == [ctrl : Ctrl, nsid : Nsid, queue_id : Nat]
    <3>1. global_units \in Seq(R) /\ u \in R /\ global_units' = Append(global_units, u)
      BY <1>1, <2>1, <2>3, <2>4 DEF TypeOK, Register
    <3> HIDE DEF u, R
    <3>2. global_units' \in Seq(R)
      BY <3>1
    <3> QED
      BY <3>2 DEF R
  <2>6. TableTypes'
    BY <1>1, <1>7, <2>1, <2>2, <2>4, <2>5 DEF TableTypes, TypeOK, NextNamespace
  <2>7. RoomInv'
    <3>1. Cardinality(UnitsOf(cur)') = N + 1
      BY <1>1, <2>3 DEF UnitsOf
    <3> QED
      BY <1>1, <1>2, <1>7, <2>3, <2>4, <3>1 DEF RoomInv, Reserved
  <2>8. TableInv'
    <3>1. ASSUME NEW i \in DOMAIN global_units', NEW j \in DOMAIN global_units',
                 global_units'[i].ctrl = global_units'[j].ctrl,
                 global_units'[i].nsid = global_units'[j].nsid
          PROVE  i = j
      <4>1. /\ global_units'[k].ctrl = d /\ global_units'[k].nsid = ns[1]
            /\ 1 \in DOMAIN ns
        BY <1>1, <1>7, <2>3, TailIs DEF TypeOK
      <4>2. \A m \in DOMAIN global_units :
              ~(global_units[m].ctrl = d /\ global_units[m].nsid = ns[1])
        BY <1>1, <4>1 DEF PendingInv
      <4> HIDE DEF d, k
      <4> QED
        BY <1>1, <2>3, <3>1, <4>1, <4>2 DEF TableInv
    <3>2. ASSUME NEW i \in DOMAIN global_units', NEW c, c = global_units'[i].ctrl
          PROVE  /\ c <= cur
                 /\ global_units'[i].queue_id \in 1 .. Cardinality(UnitsOf(c)')
      <4>1. CASE i = k
        <5>1. c = cur /\ global_units'[i].queue_id = N + 1
          BY <2>1, <2>3, <3>2, <4>1
        <5>2. Cardinality(UnitsOf(c)') = N + 1
          BY <2>3, <5>1
        <5> QED
          BY <1>1, <2>4, <5>1, <5>2
      <4>2. CASE i \in DOMAIN global_units
        <5>1. /\ c = global_units[i].ctrl /\ global_units'[i] = global_units[i]
              /\ global_units[i].queue_id \in 1 .. Cardinality(UnitsOf(c))
          BY <1>1, <2>3, <3>2, <4>2 DEF TableInv
        <5>2. \/ Cardinality(UnitsOf(c)') = Cardinality(UnitsOf(c))
              \/ c = cur /\ Cardinality(UnitsOf(c)') = N + 1 /\ N = Cardinality(UnitsOf(c))
          BY <2>3
        <5> QED
          BY <1>2, <2>4, <4>2, <5>1, <5>2
      <4> QED
        BY <2>3, <4>1, <4>2
    <3>3. pc' = "unit" /\ cur' = cur
      BY <1>1, <1>7
    <3> QED
      BY <3>1, <3>2, <3>3 DEF TableInv, Reserved, Opening, Down, UnitsOf
  <2>9. PendingInv'
    <3>1. /\ global_units'[k].nsid = Head(ns)
      BY <2>3
    <3> QED
      BY <1>1, <2>2, <2>3, <3>1 DEF PendingInv
  <2> QED
    BY <2>2, <2>6, <2>7, <2>8, <2>9 DEF TableAll
<1> QED
  BY <1>1, <1>4, <1>5, <1>6, <1>7, UnitTurns

LEMMA TableStep ==
  ASSUME BringupInv, [Next]_vars
  PROVE  TableAll'
<1>1. /\ TypeOK /\ PlaceInv /\ TurnInv /\ RoomInv /\ TableInv /\ PendingInv
      /\ MaxControllers \in Nat \ {0} /\ num_controllers \in 0 .. MaxControllers
      /\ cur \in Nat
  BY Numbers, Current DEF BringupInv, TypeOK
<1>2. pc \in Opening => global_units = <<>> /\ ctrls_up = 0
  BY <1>1 DEF TableInv
<1>3. CASE OpenLibrary
  <2>1. pc \in Libraries /\ UNCHANGED <<global_units, ctrls_up, ns, local, cur>> /\ cur = 0
    BY <1>1, <1>3 DEF OpenLibrary, unitVars, PlaceInv
  <2>2. pc \in Opening /\ pc' \in {"err", "ipci", "pci", "iutility", "bring"}
    BY <1>3, <2>1 DEF OpenLibrary, After, Goto, Libraries, Opening
  <2> QED
    BY <1>1, <1>2, <2>1, <2>2, TableKept DEF Opening, Loop, AtController
<1>4. CASE DiscoverNVMe
  <2>1. /\ pc = "pci" /\ pc' \in {"pci", "err", "utility"}
        /\ UNCHANGED <<global_units, ctrls_up, ns, local>>
    BY <1>4 DEF DiscoverNVMe, unitVars, FoundController, SkippedController,
       EndOfBus, Goto
  <2> QED
    BY <1>2, <2>1, TableKept DEF Opening, Loop, AtController
<1>5. CASE BringUp
  <2>1. /\ pc = "bring" /\ UNCHANGED <<global_units, ctrls_up, ns, local>>
        /\ cur <= num_controllers
    BY <1>1, <1>5 DEF BringUp, unitVars, PlaceInv
  <2>2. CASE cur < num_controllers
    <3>1. pc' = "init" /\ cur' = cur + 1
      BY <1>5, <2>2 DEF BringUp, Goto
    <3>2. cur' \in 1 .. MaxControllers /\ Reserved = cur /\ Reserved' = cur
      BY <1>1, <2>1, <2>2, <3>1 DEF Reserved
    <3> QED
      BY <1>1, <2>1, <3>1, <3>2, TableKept DEF Opening, Loop, AtController, Down
  <2>3. CASE ~(cur < num_controllers)
    <3>1. \/ pc' = "undo" /\ (ctrls_up = 0 \/ global_units = <<>>)
          \/ pc' = "loaded"
      BY <1>5, <2>3 DEF BringUp, Goto
    <3>2. pc' = "undo" => global_units = <<>>
      BY <1>1, <2>1, <3>1 DEF TableInv
    <3> QED
      BY <2>1, <3>1, <3>2, TableKept DEF Opening, Loop, AtController, Down
  <2> QED
    BY <2>2, <2>3
<1>6. CASE InitNVMe
  <2>1. /\ pc = "init" /\ UNCHANGED <<global_units, ctrls_up, ns, local>>
        /\ cur \in 1 .. MaxControllers
    BY <1>1, <1>6 DEF InitNVMe, unitVars, PlaceInv, AtController
  <2>2. cur' = cur /\ pc' \in {"init", "irq", "bring"}
    BY <1>6, <2>1 DEF InitNVMe, InitAcquires, InitWaits, InitFails, InitIdentifies,
       SkipController, Goto
  <2>3. Reserved \in Nat /\ Reserved <= Reserved'
    BY <2>1, <2>2 DEF Reserved
  <2> QED
    BY <2>1, <2>2, <2>3, TableKept DEF Opening, Loop, AtController, Down
<1>7. CASE InstallNVMeInterrupt
  <2>1. /\ pc = "irq" /\ pc' = "list" /\ cur' = cur
        /\ UNCHANGED <<global_units, ctrls_up, ns, local>>
        /\ cur \in 1 .. MaxControllers
    BY <1>1, <1>7 DEF InstallNVMeInterrupt, unitVars, Goto, PlaceInv, AtController
  <2>2. Reserved \in Nat /\ Reserved <= Reserved'
    BY <2>1 DEF Reserved
  <2> QED
    BY <2>1, <2>2, TableKept DEF Opening, Loop, AtController, Down
<1>8. CASE DiscoverUnits
  BY <1>8, ListTable, UnitTable DEF DiscoverUnits
<1>9. CASE Expunge
  <2>1. /\ pc = "loaded" /\ pc' = "quiesce"
        /\ UNCHANGED <<global_units, ctrls_up, ns, local>>
    BY <1>9 DEF Expunge, unitVars, Goto
  <2> QED
    BY <2>1, TableKept DEF Opening, Loop, AtController, Down
<1>10. CASE Quiesce
  <2>1. /\ pc \in {"undo", "quiesce"} /\ pc' \in {pc, IF pc = "undo" THEN "err" ELSE "free"}
        /\ UNCHANGED <<global_units, ctrls_up, ns, local>>
    BY <1>10 DEF Quiesce, unitVars, Goto
  <2>2. pc = "undo" => global_units = <<>>
    BY <1>1 DEF TableInv
  <2> QED
    BY <2>1, <2>2, TableKept DEF Opening, Loop, AtController, Down
<1>11. CASE FreeUnits
  <2>1. pc = "free" /\ UNCHANGED <<ctrls_up, ns, local>>
    BY <1>11 DEF FreeUnits
  <2>2. CASE cur <= Len(global_units)
    <3>1. UNCHANGED <<pc, global_units>>
      BY <1>11, <2>2 DEF FreeUnits
    <3> QED
      BY <2>1, <3>1, TableKept DEF Opening, Loop, AtController, Down
  <2>3. CASE ~(cur <= Len(global_units))
    <3>1. pc' = "release" /\ global_units' = <<>>
      BY <1>11, <2>3 DEF FreeUnits, Goto
    <3>2. ns = <<>> /\ local = {}
      BY <1>1, <2>1 DEF TurnInv
    <3>3. TableTypes'
      <4>1. Len(global_units') = 0
        BY <3>1
      <4> QED
        BY <1>1, <2>1, <3>1, <4>1, Numbers DEF TableTypes, TypeOK
    <3>4. TurnInv' /\ PendingInv' /\ RoomInv' /\ TableInv'
      BY <2>1, <3>1, <3>2 DEF TurnInv, PendingInv, RoomInv, TableInv, Loop,
         AtController, Opening
    <3> QED
      BY <3>3, <3>4 DEF TableAll
  <2> QED
    BY <2>2, <2>3
<1>12. CASE Leave
  <2>1. /\ pc \in {"release", "err"} /\ pc' \in Down
        /\ UNCHANGED <<global_units, ctrls_up, ns, local>>
    BY <1>12 DEF Leave, unitVars, Goto, Down
  <2>2. global_units = <<>>
    BY <1>1, <2>1 DEF TableInv
  <2> QED
    BY <2>1, <2>2, TableKept DEF Opening, Loop, AtController, Down
<1>13. CASE UNCHANGED <<placeVars, unitVars>>
  <2>1. UNCHANGED <<pc, cur, step, ns, global_units, ctrls_up, local>>
    BY <1>13 DEF placeVars, unitVars
  <2>2. broken \subseteq broken'
    BY BrokenGrows
  <2>3. TurnInv'
    BY <1>1, <2>1, <2>2 DEF TurnInv
  <2>4. TableTypes'
    BY <1>1, <2>1 DEF TableTypes, TypeOK
  <2>5. RoomInv' /\ TableInv' /\ PendingInv'
    BY <1>1, <2>1 DEF RoomInv, TableInv, PendingInv, Reserved, UnitsOf
  <2> QED
    BY <2>3, <2>4, <2>5 DEF TableAll
<1>14. CASE \E c \in Ctrl : Late(c)
  BY <1>13, <1>14 DEF Late
<1>15. CASE UNCHANGED vars
  BY <1>13, <1>15 DEF vars
<1> QED
  BY <1>3, <1>4, <1>5, <1>6, <1>7, <1>8, <1>9, <1>10, <1>11, <1>12, <1>14, <1>15
     DEF Next

-----------------------------------------------------------------------------
(* The counters of the units' memory.                                      *)

UnitKinds == UnitMemory \cup UnitEntries

LEMMA OtherObjects ==
  ASSUME count \in [Resource -> Int], NEW S, Acquire(S) \/ Release(S), NEW K,
         \A x \in K : \A c, n : <<x, c, n>> \notin S
  PROVE  SameCounts(K)
<1> SUFFICES ASSUME NEW x \in K, NEW c \in Ctrl \cup {0}, NEW n \in Nsid \cup {0},
                    <<x, c, n>> \in Resource
             PROVE  count'[<<x, c, n>>] = count[<<x, c, n>>]
  BY DEF SameCounts
<1> DEFINE r == <<x, c, n>>
<1>1. r \in Resource /\ r \notin S /\ count[r] \in Int
  OBVIOUS
<1> HIDE DEF r
<1>2. count'[r] = count[r]
  BY <1>1, Acquired, Released
<1> QED
  BY <1>2 DEF r

LEMMA NotOf ==
  ASSUME NEW T, NEW K, T \cap K = {}, NEW d, NEW m
  PROVE  \A x \in K : \A c, n : <<x, c, n>> \notin Of(T, d, m)
  BY Zenon, OfMember

\* The steps that are not about units do not touch their counters.
LEMMA UnitsUntouched ==
  ASSUME BringupInv,
         \/ OpenLibrary \/ DiscoverNVMe \/ BringUp \/ InitNVMe \/ InstallNVMeInterrupt
         \/ Expunge \/ Quiesce \/ Leave
  PROVE  SameCounts(UnitKinds)
<1>1. /\ count \in [Resource -> Int] /\ flags \subseteq AdminMemory
      /\ TypeOK /\ PlaceInv /\ MemoryInv
      /\ UnitKinds \cap (BusKinds \cup AdminMemory \cup {"irq"}) = {}
  BY KindsDiffer DEF BringupInv, TypeOK, UnitKinds, AdminMemory
<1>2. ASSUME NEW T, T \subseteq BusKinds \cup AdminMemory \cup {"irq"}, NEW d, NEW m,
             Acquire(Of(T, d, m)) \/ Release(Of(T, d, m))
      PROVE  SameCounts(UnitKinds)
  <2>1. T \cap UnitKinds = {}
    BY <1>1, <1>2
  <2> QED
    BY <1>1, <1>2, <2>1, OtherKinds
<1>3. CASE UNCHANGED count
  BY <1>3, SameIfUnchanged
<1>4. CASE OpenLibrary
  <2>1. pc \in Libraries /\ (UNCHANGED count \/ Acquire(Of({pc}, 0, 0)))
    BY <1>4, OneObject DEF OpenLibrary
  <2>2. {pc} \subseteq BusKinds
    BY <2>1 DEF BusKinds
  <2> QED
    BY <1>2, <1>3, <2>1, <2>2
<1>5. CASE DiscoverNVMe
  <2>1. UNCHANGED count \/ Acquire(PciObjects({num_controllers + 1}))
    BY <1>5 DEF DiscoverNVMe, FoundController, SkippedController, EndOfBus
  <2>2. CASE Acquire(PciObjects({num_controllers + 1}))
    <3> DEFINE S == PciObjects({num_controllers + 1})
    <3>1. \A x \in UnitKinds : x \notin {"pcidev", "resource"}
      BY <1>1 DEF BusKinds
    <3>2. \A x \in UnitKinds : \A c, n : <<x, c, n>> \notin S
      BY <3>1, PciMember
    <3> HIDE DEF S
    <3> QED
      BY <1>1, <2>2, <3>2, OtherObjects DEF S
  <2> QED
    BY <1>3, <2>1, <2>2
<1>6. ASSUME Undoes
      PROVE  SameCounts(UnitKinds)
  <2> DEFINE T == flags \cup (ptr[cur] \cap Entries)
  <2>1. T \subseteq AdminMemory /\ Release(Of(T, cur, 0))
    BY <1>1, <1>6 DEF Undoes, AdminMemory
  <2> HIDE DEF T
  <2> QED
    BY <1>2, <2>1
<1>7. CASE InitNVMe
  <2>1. CASE InitAcquires
    <3>1. {InitStep} \subseteq AdminMemory /\ Acquire(Of({InitStep}, cur, 0))
      BY <2>1, OneObject DEF InitAcquires, AdminMemory
    <3> QED
      BY <1>2, <3>1
  <2>2. CASE Undoes \/ UNCHANGED count
    BY <1>3, <1>6, <2>2
  <2>3. pc = "init" /\ (InitAcquires \/ InitWaits \/ InitFails \/ InitIdentifies)
    BY <1>7 DEF InitNVMe
  <2> QED
    BY <2>1, <2>2, <2>3, InitGivesUp DEF InitWaits
<1>8. CASE InstallNVMeInterrupt
  <2>1. PICK installed \in BOOLEAN :
          Acquire(IF installed THEN {<<"irq", cur, 0>>} ELSE {})
    BY <1>8 DEF InstallNVMeInterrupt
  <2> DEFINE T == IF installed THEN {"irq"} ELSE {}
  <2>2. Acquire(Of(T, cur, 0)) /\ T \subseteq {"irq"}
    BY <2>1 DEF Of
  <2> HIDE DEF T
  <2> QED
    BY <1>2, <2>2
<1>9. CASE Quiesce
  <2>1. CASE cur <= num_controllers
    <3> DEFINE T == CleanupFrees(cur) \cup (IF irq_installed[cur] THEN {"irq"} ELSE {})
    <3>1. cur \in Ctrl /\ ~InInit(cur)
      BY <1>1, <1>9, <2>1, Current DEF Quiesce, InInit
    <3>2. CleanupFrees(cur) \subseteq AdminMemory
      BY <3>1, CleanupFreesAll
    <3>3. T \subseteq AdminMemory \cup {"irq"} /\ Release(Of(T, cur, 0))
      BY <1>9, <2>1, <3>2 DEF Quiesce, QuiesceOne
    <3> HIDE DEF T
    <3> QED
      BY <1>2, <3>3
  <2>2. CASE ~(cur <= num_controllers)
    BY <1>3, <1>9, <2>2 DEF Quiesce
  <2> QED
    BY <2>1, <2>2
<1>10. CASE Leave
  <2> DEFINE S == Of(have \cap Libraries, 0, 0)
                    \cup (IF "discovery" \in have THEN PciObjects(1 .. num_controllers)
                                                 ELSE {})
  <2>1. Release(S)
    BY <1>10 DEF Leave, ReleaseAll
  <2>2. \A x \in UnitKinds : x \notin {"pcidev", "resource"} \cup Libraries
    BY <1>1 DEF BusKinds
  <2>3. \A x \in UnitKinds : \A c, n : <<x, c, n>> \notin S
    <3>1. \A x \in UnitKinds : \A c, n : <<x, c, n>> \notin PciObjects(1 .. num_controllers)
      BY <2>2, PciMember
    <3>2. \A x \in UnitKinds : \A c, n : <<x, c, n>> \notin Of(have \cap Libraries, 0, 0)
      <4> DEFINE T == have \cap Libraries
      <4>1. T \cap UnitKinds = {}
        BY <2>2
      <4> HIDE DEF T
      <4>2. \A x \in UnitKinds : \A c, n : <<x, c, n>> \notin Of(T, 0, 0)
        BY <4>1, NotOf
      <4> QED
        BY <4>2 DEF T
    <3> QED
      BY <3>1, <3>2
  <2> HIDE DEF S
  <2> QED
    BY <1>1, <2>1, <2>3, OtherObjects
<1>11. CASE BringUp \/ Expunge
  BY <1>3, <1>11 DEF BringUp, Expunge
<1> QED
  BY <1>4, <1>5, <1>7, <1>8, <1>9, <1>10, <1>11

LEMMA UnitCountsKept ==
  ASSUME BringupInv, SameCounts(UnitKinds), UNCHANGED <<global_units, local>>,
         FirstUnit' = FirstUnit, local = {} \/ (cur' = cur /\ ns' = ns)
  PROVE  UnitCounts'
<1> SUFFICES ASSUME NEW c \in Ctrl, NEW n \in Nsid, NEW x \in UnitMemory \cup UnitEntries
             PROVE  count'[<<x, c, n>>] = One(HasUnit(x, c, n)')
  BY DEF UnitCounts
<1>1. count[<<x, c, n>>] = One(HasUnit(x, c, n))
  BY DEF BringupInv, UnitCounts
<1>2. count'[<<x, c, n>>] = count[<<x, c, n>>]
  BY IsResource DEF SameCounts, UnitKinds
<1>3. HasUnit(x, c, n)' <=> HasUnit(x, c, n)
  BY DEF HasUnit, InTable
<1> QED
  BY <1>1, <1>2, <1>3 DEF One

\* The turn's objects, and nobody else's, come and go.
LEMMA TurnMoves ==
  ASSUME BringupInv, pc = "unit", ns # <<>>, UNCHANGED <<pc, cur, global_units>>,
         NEW T,
         \/ Acquire(Here(T)) /\ T \cap local = {} /\ local' = local \cup T /\ ns' = ns
         \/ /\ Release(Here(T)) /\ T \subseteq local /\ local' = local \ T
            /\ ns' = ns \/ local' = {}
  PROVE  UnitCounts'
<1>1. /\ TypeOK /\ PlaceInv /\ PendingInv /\ UnitCounts
      /\ count \in [Resource -> Int] /\ ns \in Seq(Nsid)
  BY DEF BringupInv, TypeOK
<1> DEFINE h == Head(ns)
<1>2. h \in Nsid /\ ns[1] = h /\ 1 \in DOMAIN ns
  BY <1>1, TailIs
<1>3. ~InTable(cur, h) /\ FirstUnit = 1 /\ FirstUnit' = 1
  <2>1. FirstUnit = 1 /\ DOMAIN global_units = 1 .. Len(global_units)
    BY <1>1, TableEntries DEF FirstUnit
  <2> QED
    BY <1>1, <1>2, <2>1 DEF InTable, PendingInv, FirstUnit
<1> SUFFICES ASSUME NEW c \in Ctrl, NEW n \in Nsid, NEW x \in UnitMemory \cup UnitEntries
             PROVE  count'[<<x, c, n>>] = One(HasUnit(x, c, n)')
  BY DEF UnitCounts
<1> DEFINE r == <<x, c, n>>
           mine == c = cur /\ n = h
<1>4. r \in Resource /\ count[r] = One(HasUnit(x, c, n))
  BY <1>1, IsResource DEF UnitCounts
<1>5. HasUnit(x, c, n) <=> (x \in UnitMemory /\ InTable(c, n)) \/ (x \in local /\ mine)
  BY DEF HasUnit
<1>6. HasUnit(x, c, n)' <=> (x \in UnitMemory /\ InTable(c, n)) \/ (x \in local' /\ mine)
  BY <1>3 DEF HasUnit, InTable
<1>7. mine => ~InTable(c, n)
  BY <1>3
<1>8. CASE Acquire(Here(T)) /\ T \cap local = {} /\ local' = local \cup T
  <2>1. Acquire(Of(T, cur, h))
    BY <1>8 DEF Here
  <2> HIDE DEF h
  <2>2. count'[r] = count[r] + IF x \in T /\ c = cur /\ n = h THEN 1 ELSE 0
    BY <1>1, <1>4, <2>1, AcquiredOf
  <2> HIDE DEF r
  <2> QED
    BY <1>4, <1>5, <1>6, <1>7, <1>8, <2>2 DEF One, r
<1>9. CASE Release(Here(T)) /\ T \subseteq local /\ local' = local \ T
  <2>1. Release(Of(T, cur, h))
    BY <1>9 DEF Here
  <2> HIDE DEF h
  <2>2. count'[r] = count[r] - IF x \in T /\ c = cur /\ n = h THEN 1 ELSE 0
    BY <1>1, <1>4, <2>1, ReleasedOf
  <2> HIDE DEF r
  <2> QED
    BY <1>4, <1>5, <1>6, <1>7, <1>9, <2>2 DEF One, r
<1> QED
  BY <1>8, <1>9

\* A unit that is announced takes over what its turn has acquired.
LEMMA RegisterMoves ==
  ASSUME BringupInv, pc = "unit", ns # <<>>, UNCHANGED <<pc, cur>>, Registers
  PROVE  UnitCounts'
<1>1. /\ TypeOK /\ PlaceInv /\ TurnInv /\ UnitCounts
      /\ step = 12 /\ Register(QueueId) /\ local' = {} /\ UNCHANGED count
      /\ cur \in Ctrl
  BY Current DEF BringupInv, Registers, NextNamespace, AtController
<1>2. local = UnitMemory
  <2>1. local \subseteq Passed(12) /\ Passed(12) \ Gaps(12) \subseteq local
    BY <1>1 DEF TurnInv
  <2>2. Passed(12) = UnitMemory /\ Gaps(12) = UnitEntries
    BY PassedIs DEF Gaps
  <2> QED
    BY <2>1, <2>2, KindsDiffer
<1> DEFINE h == Head(ns)
<1>3. /\ Len(global_units') = Len(global_units) + 1
      /\ DOMAIN global_units = 1 .. Len(global_units) /\ Len(global_units) \in Nat
      /\ \A i \in DOMAIN global_units : global_units'[i] = global_units[i]
      /\ global_units'[Len(global_units')].ctrl = cur
      /\ global_units'[Len(global_units')].nsid = h
  <2>1. global_units'[Len(global_units')] = [ctrl |-> cur, nsid |-> h, queue_id |-> QueueId]
    BY <1>1, Registered
  <2> QED
    BY <1>1, <2>1, Registered, TableEntries
<1>4. FirstUnit = 1 /\ FirstUnit' = 1
  BY DEF FirstUnit
<1> SUFFICES ASSUME NEW c \in Ctrl, NEW n \in Nsid, NEW x \in UnitMemory \cup UnitEntries
             PROVE  count'[<<x, c, n>>] = One(HasUnit(x, c, n)')
  BY DEF UnitCounts
<1>5. count'[<<x, c, n>>] = One(HasUnit(x, c, n))
  BY <1>1 DEF UnitCounts
<1>6. InTable(c, n)' <=> InTable(c, n) \/ (c = cur /\ n = h)
  <2>1. 1 .. Len(global_units') = (1 .. Len(global_units)) \cup {Len(global_units')}
    BY <1>3
  <2> HIDE DEF h
  <2> QED
    BY <1>3, <1>4, <2>1 DEF InTable
<1>7. HasUnit(x, c, n)' <=> HasUnit(x, c, n)
  BY <1>1, <1>2, <1>6 DEF HasUnit
<1> QED
  BY <1>5, <1>7 DEF One

\* Expunge frees the memory of the unit it has come to, which no other has.
LEMMA FreeMoves ==
  ASSUME BringupInv, FreeUnits
  PROVE  count' \in [Resource -> Int] /\ UnitCounts'
<1>1. /\ TypeOK /\ PlaceInv /\ TurnInv /\ TableInv /\ UnitCounts
      /\ count \in [Resource -> Int]
      /\ pc = "free" /\ local = {} /\ local' = {} /\ FirstUnit = cur
      /\ cur \in 1 .. Len(global_units) + 1
      /\ DOMAIN global_units = 1 .. Len(global_units) /\ Len(global_units) \in Nat
  <2>1. TypeOK /\ PlaceInv /\ TurnInv /\ TableInv /\ UnitCounts /\ pc = "free"
    BY DEF BringupInv, FreeUnits
  <2>2. local = {} /\ local' = {} /\ FirstUnit = cur /\ cur \in 1 .. Len(global_units) + 1
    BY <2>1 DEF FreeUnits, unitVars, TurnInv, FirstUnit, PlaceInv
  <2> QED
    BY <2>1, <2>2, TableEntries DEF TypeOK
<1>2. CASE ~(cur <= Len(global_units))
  <2>1. UNCHANGED count /\ global_units' = <<>>
    BY <1>1, <1>2 DEF FreeUnits
  <2>2. \A c, n : ~InTable(c, n) /\ ~InTable(c, n)'
    <3>1. FirstUnit .. Len(global_units) = {} /\ Len(global_units') = 0
          /\ pc' = "release"
      BY <1>1, <1>2, <2>1 DEF FreeUnits, Goto
    <3> QED
      BY <3>1 DEF InTable, FirstUnit
  <2> QED
    BY <1>1, <2>1, <2>2 DEF UnitCounts, HasUnit
<1>3. CASE cur <= Len(global_units)
  <2> DEFINE u == global_units[cur]
             d == u.ctrl
             m == u.nsid
  <2>1. /\ Release(Of(UnitMemory, d, m)) /\ cur' = cur + 1 /\ FirstUnit' = cur + 1
        /\ UNCHANGED global_units
    BY <1>1, <1>3 DEF FreeUnits, FirstUnit
  <2>2. cur \in DOMAIN global_units /\ cur \in Nat
    BY <1>1, <1>3
  <2>3. \A c, n : InTable(c, n) <=> InTable(c, n)' \/ (c = d /\ n = m)
    <3>1. cur .. Len(global_units) = ((cur + 1) .. Len(global_units)) \cup {cur}
      BY <1>1, <1>3
    <3> QED
      BY <1>1, <2>1, <3>1 DEF InTable
  <2>4. ASSUME NEW c, NEW n, c = d, n = m
        PROVE  ~InTable(c, n)'
    <3>1. \A i \in (cur + 1) .. Len(global_units) : i \in DOMAIN global_units /\ i # cur
      BY <1>1, <2>2
    <3>2. \A i \in (cur + 1) .. Len(global_units) :
            ~(global_units[i].ctrl = c /\ global_units[i].nsid = n)
      BY <1>1, <2>2, <2>4, <3>1 DEF TableInv
    <3> QED
      BY <2>1, <3>2 DEF InTable
  <2> HIDE DEF d, m
  <2>5. /\ count' \in [Resource -> Int]
        /\ \A x, c, n : <<x, c, n>> \in Resource =>
             count'[<<x, c, n>>] =
               count[<<x, c, n>>] - IF x \in UnitMemory /\ c = d /\ n = m THEN 1 ELSE 0
    BY <1>1, <2>1, ReleasedOf
  <2>6. ASSUME NEW c \in Ctrl, NEW n \in Nsid, NEW x \in UnitMemory \cup UnitEntries
        PROVE  count'[<<x, c, n>>] = One(HasUnit(x, c, n)')
    <3> DEFINE r == <<x, c, n>>
    <3>1. r \in Resource /\ count[r] = One(HasUnit(x, c, n))
      BY <1>1, <2>6, IsResource DEF UnitCounts
    <3>2. HasUnit(x, c, n) <=> x \in UnitMemory /\ InTable(c, n)
      BY <1>1 DEF HasUnit
    <3>3. HasUnit(x, c, n)' <=> x \in UnitMemory /\ InTable(c, n)'
      BY <1>1 DEF HasUnit
    <3>4. count'[r] = count[r] - IF x \in UnitMemory /\ c = d /\ n = m THEN 1 ELSE 0
      BY <2>5, <3>1
    <3> HIDE DEF r
    <3>5. count'[r] = One(HasUnit(x, c, n)')
      BY <2>3, <2>4, <3>1, <3>2, <3>3, <3>4 DEF One
    <3> QED
      BY <3>5 DEF r
  <2> QED
    BY <2>5, <2>6 DEF UnitCounts
<1> QED
  BY <1>2, <1>3

LEMMA UnitStepCounts ==
  ASSUME BringupInv, [Next]_vars
  PROVE  UnitCounts'
<1>1. /\ TypeOK /\ PlaceInv /\ TurnInv /\ PendingInv
  BY DEF BringupInv
<1>2. CASE DiscoverUnits
  <2>1. CASE ListNamespaces
    <3>1. /\ UNCHANGED <<count, global_units>> /\ local = {} /\ local' = {}
          /\ FirstUnit = 1 /\ FirstUnit' = 1
      BY <1>1, <2>1, Lists DEF TurnInv, FirstUnit, DiscoverUnitsReturns, Goto
    <3> QED
      BY <3>1, SameIfUnchanged, UnitCountsKept
  <2>2. CASE pc = "unit"
    <3>1. step \in 1 .. 12 /\ local \subseteq UnitKinds
      BY SMTT(30), <1>1, <2>2, InitStepsAre DEF TypeOK, PlaceInv, UnitKinds
    <3>2. CASE Returns
      <4>1. /\ UNCHANGED <<count, local, global_units>> /\ step = 1 /\ pc' = "bring"
        BY <3>2 DEF Returns, DiscoverUnitsReturns, Goto
      <4>2. local = {} /\ FirstUnit = 1 /\ FirstUnit' = 1
        BY <1>1, <2>2, <4>1, PassedIs DEF TurnInv, FirstUnit
      <4> QED
        BY <4>1, <4>2, SameIfUnchanged, UnitCountsKept
    <3>3. CASE ~Returns
      <4>1. /\ UNCHANGED <<pc, cur>> /\ ns # <<>>
            /\ \/ UNCHANGED global_units /\ (Gets \/ Passes \/ Unmaps \/ Drops)
               \/ Registers
        BY <1>1, <1>2, <2>2, <3>3, UnitTurns
      <4>2. CASE Registers
        BY <2>2, <4>1, <4>2, RegisterMoves
      <4>3. CASE UNCHANGED global_units /\ Gets
        <5>1. UnitStep \notin local
          <6>1. local \subseteq Passed(step)
            BY <1>1, <2>2 DEF TurnInv
          <6>2. step \in {1, 3, 4, 6, 7, 8, 9}
            BY <3>1, <4>3, StepNumbers DEF Gets
          <6>3. UnitSteps[step] \notin Passed(step)
            BY <6>2, UnitStepsAre, PassedIs DEF UnitMemory
          <6> QED
            BY <6>1, <6>3 DEF UnitStep
        <5> DEFINE T == {UnitStep}
        <5>2. Acquire(Here(T)) /\ T \cap local = {} /\ local' = local \cup T /\ ns' = ns
          BY <4>3, <5>1 DEF Gets, Proceed
        <5> HIDE DEF T
        <5> QED
          BY <2>2, <4>1, <4>3, <5>2, TurnMoves
      <4>4. CASE UNCHANGED global_units /\ Unmaps
        <5> DEFINE T == local \cap UnitEntries
        <5>1. /\ Release(Here(T)) /\ T \subseteq local /\ local' = local \ T /\ ns' = ns
          BY <4>4 DEF Unmaps, Proceed
        <5> HIDE DEF T
        <5> QED
          BY <2>2, <4>1, <4>4, <5>1, TurnMoves
      <4>5. CASE UNCHANGED global_units /\ Drops
        <5>1. Release(Here(local)) /\ local' = local \ local /\ local' = {}
          BY <4>5 DEF Drops, NextNamespace
        <5> QED
          BY <2>2, <4>1, <4>5, <5>1, TurnMoves
      <4>6. CASE UNCHANGED global_units /\ Passes
        <5>1. UNCHANGED <<count, local, ns>> /\ FirstUnit = 1 /\ FirstUnit' = 1
          BY <2>2, <4>1, <4>6 DEF Passes, Proceed, FirstUnit
        <5> QED
          BY <4>1, <4>6, <5>1, SameIfUnchanged, UnitCountsKept
      <4> QED
        BY <4>1, <4>2, <4>3, <4>4, <4>5, <4>6
    <3> QED
      BY <3>2, <3>3
  <2> QED
    BY <1>2, <2>1, <2>2 DEF DiscoverUnits
<1>3. CASE FreeUnits
  BY <1>3, FreeMoves
<1>4. CASE (\E c \in Ctrl : Late(c)) \/ UNCHANGED vars
  <2>1. UNCHANGED <<count, pc, cur, ns, global_units, local>>
    BY <1>4 DEF Late, vars, placeVars, unitVars
  <2>2. FirstUnit' = FirstUnit
    BY <2>1 DEF FirstUnit
  <2> QED
    BY <2>1, <2>2, SameIfUnchanged, UnitCountsKept
<1>5. CASE OpenLibrary \/ DiscoverNVMe \/ BringUp \/ InitNVMe \/ InstallNVMeInterrupt
             \/ Expunge \/ Quiesce \/ Leave
  <2>1. UNCHANGED <<global_units, local>> /\ pc \notin {"unit", "free"}
    BY <1>5 DEF OpenLibrary, DiscoverNVMe, BringUp, InitNVMe, InstallNVMeInterrupt,
       Expunge, Quiesce, Leave, unitVars, Libraries
  <2>2. FirstUnit = 1 /\ local = {}
    BY <1>1, <2>1 DEF FirstUnit, TurnInv
  <2>3. FirstUnit' = 1
    <3>1. CASE Quiesce
      BY <2>1, <3>1 DEF FirstUnit, Quiesce, Goto
    <3>2. CASE ~Quiesce
      <4>1. CASE OpenLibrary
        BY <4>1 DEF OpenLibrary, Goto, After, Libraries, FirstUnit
      <4>2. CASE DiscoverNVMe
        BY <4>2 DEF DiscoverNVMe, FoundController, SkippedController, EndOfBus, Goto, FirstUnit
      <4>3. CASE InitNVMe
        BY <4>3 DEF InitNVMe, InitAcquires, InitWaits, InitFails, InitIdentifies,
           SkipController, Goto, FirstUnit
      <4>4. CASE BringUp \/ InstallNVMeInterrupt \/ Expunge \/ Leave
        BY <4>4 DEF BringUp, InstallNVMeInterrupt, Expunge, Leave, Goto, FirstUnit
      <4> QED
        BY <1>5, <3>2, <4>1, <4>2, <4>3, <4>4
    <3> QED
      BY <3>1, <3>2
  <2> QED
    BY <1>5, <2>1, <2>2, <2>3, UnitsUntouched, UnitCountsKept
<1> QED
  BY <1>2, <1>3, <1>4, <1>5 DEF Next

-----------------------------------------------------------------------------
(* The admin commands and what the controllers make of them.               *)

QueueTables == [Ctrl -> [Nsid -> 0 .. MaxNamespaces]]

HwTypes ==
  /\ enabled \in [Ctrl -> BOOLEAN]
  /\ io_cq \in QueueTables /\ io_sq \in QueueTables
  /\ late \in [Ctrl -> SUBSET Commands]
  /\ lost \in [Ctrl -> BOOLEAN]
  /\ faults \in 0 .. MaxFaults
  /\ broken \subseteq Ctrl /\ abandoned \subseteq Ctrl
  /\ nsids \in [Ctrl -> SUBSET Nsid]

LEMMA TypesAre ==
  ASSUME BringupInv
  PROVE  HwTypes
  BY DEF BringupInv, TypeOK, HwTypes, QueueTables

LEMMA CommandIs ==
  /\ Identify \in Commands /\ Identify[1] = "identify"
  /\ \A x \in {"cq", "sq"}, q, n \in Nsid :
       /\ <<x, q, n>> \in Commands
       /\ <<x, q, n>>[1] = x /\ <<x, q, n>>[2] = q /\ <<x, q, n>>[3] = n
  /\ \A cmd \in Commands :
       \/ cmd = Identify
       \/ /\ cmd[1] \in {"cq", "sq"} /\ cmd[2] \in Nsid /\ cmd[3] \in Nsid
          /\ cmd = <<cmd[1], cmd[2], cmd[3]>>
  BY DEF Commands, Identify

LEMMA Carried ==
  ASSUME HwTypes, NEW c \in Ctrl, NEW cmd \in Commands, CarryOut(c, cmd)
  PROVE  /\ io_cq' \in QueueTables /\ io_sq' \in QueueTables
         /\ \A d \in Ctrl, q \in Nsid :
              /\ io_cq'[d][q] = IF d = c /\ cmd[1] = "cq" /\ q = cmd[2]
                                THEN cmd[3] ELSE io_cq[d][q]
              /\ io_sq'[d][q] = IF d = c /\ cmd[1] = "sq" /\ q = cmd[2]
                                THEN cmd[3] ELSE io_sq[d][q]
<1>1. io_cq \in QueueTables /\ io_sq \in QueueTables
  BY DEF HwTypes
<1>2. cmd[1] \in {"cq", "sq"} => cmd[2] \in Nsid /\ cmd[3] \in 0 .. MaxNamespaces
  BY CommandIs DEF Nsid
<1>3. ASSUME NEW f \in QueueTables, NEW q \in Nsid, NEW n \in 0 .. MaxNamespaces
      PROVE  /\ [f EXCEPT ![c][q] = n] \in QueueTables
             /\ \A d \in Ctrl, p \in Nsid :
                  [f EXCEPT ![c][q] = n][d][p] = IF d = c /\ p = q THEN n ELSE f[d][p]
  BY <1>3 DEF QueueTables
<1>4. /\ io_cq' \in QueueTables
      /\ \A d \in Ctrl, q \in Nsid :
           io_cq'[d][q] = IF d = c /\ cmd[1] = "cq" /\ q = cmd[2]
                          THEN cmd[3] ELSE io_cq[d][q]
  BY <1>1, <1>2, <1>3 DEF CarryOut
<1>5. /\ io_sq' \in QueueTables
      /\ \A d \in Ctrl, q \in Nsid :
           io_sq'[d][q] = IF d = c /\ cmd[1] = "sq" /\ q = cmd[2]
                          THEN cmd[3] ELSE io_sq[d][q]
  BY <1>1, <1>2, <1>3 DEF CarryOut
<1> QED
  BY <1>4, <1>5

\* What a step does not do to controller c.
SameHw(c) ==
  /\ enabled'[c] = enabled[c]
  /\ \A q \in Nsid : io_cq'[c][q] = io_cq[c][q] /\ io_sq'[c][q] = io_sq[c][q]
  /\ late'[c] = late[c] /\ lost'[c] = lost[c]

\* The three ways that an admin command ends.
Done(c, cmd, ok) ==
  /\ Feasible(c, cmd) /\ CarryOut(c, cmd)
  /\ ok \/ lost[c]
  /\ UNCHANGED <<late, lost, faults, broken>>
Refused(c, cmd, ok) ==
  /\ ~ok \/ lost[c]
  /\ Feasible(c, cmd) => c \in broken'
  /\ UNCHANGED <<io_cq, io_sq, late, lost>>
GivenUp(c, cmd, ok) ==
  /\ late'[c] = late[c] \cup {cmd} /\ lost'[c]
  /\ lost[c] \/ (~ok /\ c \in broken')
  /\ UNCHANGED <<io_cq, io_sq>>

LEMMA Commanded ==
  ASSUME BringupInv, NEW c \in Ctrl, NEW cmd \in Commands, NEW ok \in BOOLEAN,
         AdminCmd(c, cmd, ok)
  PROVE  /\ io_cq' \in QueueTables /\ io_sq' \in QueueTables
         /\ late' \in [Ctrl -> SUBSET Commands] /\ lost' \in [Ctrl -> BOOLEAN]
         /\ faults' \in 0 .. MaxFaults
         /\ broken \subseteq broken' /\ broken' \subseteq broken \cup {c}
         /\ enabled' = enabled
         /\ \A d \in Ctrl \ {c} : SameHw(d)
         /\ \/ Done(c, cmd, ok) \/ Refused(c, cmd, ok) \/ GivenUp(c, cmd, ok)
<1>1. HwTypes /\ enabled' = enabled /\ MaxFaults \in Nat
  BY TypesAre, Numbers DEF AdminCmd
<1>2. ASSUME Failure(c)
      PROVE  faults' \in 0 .. MaxFaults /\ broken' = broken \cup {c}
  BY <1>1, <1>2 DEF Failure, Fault, HwTypes
<1>3. ASSUME Done(c, cmd, ok)
      PROVE  /\ io_cq' \in QueueTables /\ io_sq' \in QueueTables
             /\ late' \in [Ctrl -> SUBSET Commands] /\ lost' \in [Ctrl -> BOOLEAN]
             /\ faults' \in 0 .. MaxFaults /\ broken' = broken
             /\ \A d \in Ctrl \ {c} : SameHw(d)
  <2>1. CarryOut(c, cmd) /\ UNCHANGED <<late, lost, faults, broken>>
    BY <1>3 DEF Done
  <2>2. \A d \in Ctrl \ {c} : SameHw(d)
    BY <1>1, <2>1, Carried DEF SameHw
  <2> QED
    BY <1>1, <2>1, <2>2, Carried DEF HwTypes
<1>4. CASE /\ ~ok \/ lost[c]
           /\ IF Feasible(c, cmd) THEN Failure(c) ELSE UNCHANGED <<faults, broken>>
           /\ UNCHANGED <<io_cq, io_sq, late, lost>>
  <2>1. Refused(c, cmd, ok) /\ \A d \in Ctrl \ {c} : SameHw(d)
    BY <1>1, <1>2, <1>4 DEF Refused, SameHw
  <2>2. /\ faults' \in 0 .. MaxFaults
        /\ broken \subseteq broken' /\ broken' \subseteq broken \cup {c}
    BY <1>1, <1>2, <1>4 DEF HwTypes
  <2> QED
    BY <1>1, <1>4, <2>1, <2>2 DEF HwTypes
<1>5. CASE /\ late' = [late EXCEPT ![c] = @ \cup {cmd}]
           /\ IF lost[c] THEN UNCHANGED <<faults, broken>> ELSE ~ok /\ Failure(c)
           /\ lost' = [lost EXCEPT ![c] = TRUE]
           /\ UNCHANGED <<io_cq, io_sq>>
  <2>1. /\ late' \in [Ctrl -> SUBSET Commands] /\ lost' \in [Ctrl -> BOOLEAN]
        /\ late'[c] = late[c] \cup {cmd} /\ lost'[c] = TRUE
        /\ \A d \in Ctrl \ {c} : late'[d] = late[d] /\ lost'[d] = lost[d]
    BY <1>1, <1>5 DEF HwTypes
  <2>2. /\ faults' \in 0 .. MaxFaults
        /\ broken \subseteq broken' /\ broken' \subseteq broken \cup {c}
        /\ lost[c] \/ (~ok /\ c \in broken')
    BY <1>1, <1>2, <1>5 DEF HwTypes
  <2>3. GivenUp(c, cmd, ok) /\ \A d \in Ctrl \ {c} : SameHw(d)
    BY <1>1, <1>5, <2>1, <2>2 DEF GivenUp, SameHw
  <2> QED
    BY <1>1, <1>5, <2>1, <2>2, <2>3 DEF HwTypes
<1>6. \/ Done(c, cmd, ok)
      \/ /\ ~ok \/ lost[c]
         /\ IF Feasible(c, cmd) THEN Failure(c) ELSE UNCHANGED <<faults, broken>>
         /\ UNCHANGED <<io_cq, io_sq, late, lost>>
      \/ /\ late' = [late EXCEPT ![c] = @ \cup {cmd}]
         /\ IF lost[c] THEN UNCHANGED <<faults, broken>> ELSE ~ok /\ Failure(c)
         /\ lost' = [lost EXCEPT ![c] = TRUE]
         /\ UNCHANGED <<io_cq, io_sq>>
  BY DEF AdminCmd, Done
<1> QED
  BY <1>1, <1>3, <1>4, <1>5, <1>6

\* Identify moves no queue, and fails for a reason.
LEMMA Identified ==
  ASSUME BringupInv, NEW c \in Ctrl, NEW ok \in BOOLEAN, AdminCmd(c, Identify, ok)
  PROVE  /\ \A d \in Ctrl, q \in Nsid : /\ io_cq'[d][q] = io_cq[d][q]
                                        /\ io_sq'[d][q] = io_sq[d][q]
         /\ late'[c] \in {late[c], late[c] \cup {Identify}}
         /\ late'[c] = late[c] \/ lost'[c]
         /\ lost[c] => lost'[c]
         /\ lost'[c] => lost[c] \/ c \in broken'
         /\ ~ok => lost[c] \/ c \in broken'
         /\ ok /\ ~lost[c] => UNCHANGED <<late, lost, broken>>
<1>1. /\ Identify \in Commands /\ Identify[1] = "identify" /\ Feasible(c, Identify)
      /\ HwTypes
  BY CommandIs, TypesAre DEF Feasible
<1>2. Done(c, Identify, ok) \/ Refused(c, Identify, ok) \/ GivenUp(c, Identify, ok)
  BY <1>1, Commanded
<1>3. CASE Done(c, Identify, ok)
  <2>1. CarryOut(c, Identify) /\ (ok \/ lost[c]) /\ UNCHANGED <<late, lost, broken>>
    BY <1>3 DEF Done
  <2>2. UNCHANGED <<io_cq, io_sq>>
    BY <1>1, <2>1 DEF CarryOut
  <2> QED
    BY <2>1, <2>2
<1>4. CASE Refused(c, Identify, ok)
  BY <1>1, <1>4 DEF Refused
<1>5. CASE GivenUp(c, Identify, ok)
  BY <1>5 DEF GivenUp
<1> QED
  BY <1>2, <1>3, <1>4, <1>5

-----------------------------------------------------------------------------
(* Controllers that a step leaves alone.                                   *)

\* Nor does it free memory under c, count a failure or list a namespace.
SameCtrl(c) ==
  /\ SameHw(c)
  /\ c \in broken' <=> c \in broken
  /\ c \in abandoned' <=> c \in abandoned
  /\ nsids'[c] = nsids[c]

LEMMA EnabledKept ==
  ASSUME BringupInv, NEW c \in Ctrl, SameCtrl(c), ptr'[c] = ptr[c],
         Untried(c)' => Untried(c),
         pc' \in {"init", "irq", "list"} /\ c = cur' => Untouched(c),
         InInit(c)' => (enabled[c] <=> step' > 8),
         pc' \in {"irq", "list", "unit"} /\ c = cur' => enabled[c],
         InInit(c) => InInit(c)' \/ (enabled[c] => ptr'[c] = AdminPointers)
  PROVE  EnabledAt(c)'
<1>1. EnabledAt(c)
  BY DEF BringupInv, EnabledInv
<1>2. Untouched(c) => Untouched(c)'
  BY DEF SameCtrl, SameHw, Untouched
<1>3. enabled'[c] = enabled[c] /\ (c \in abandoned' <=> c \in abandoned)
  BY DEF SameCtrl, SameHw
<1>4. Untried(c)' => Untouched(c)' /\ ~enabled'[c]
  BY <1>1, <1>2, <1>3 DEF EnabledAt
<1>5. enabled'[c] => c \in abandoned' \/ InInit(c)' \/ ptr'[c] = AdminPointers
  BY <1>1, <1>3 DEF EnabledAt
<1> QED
  BY <1>2, <1>3, <1>4, <1>5 DEF EnabledAt

LEMMA FailureKept ==
  ASSUME BringupInv, NEW c \in Ctrl, SameCtrl(c),
         pc' \in Opening \cup Loop \cup {"loaded"} =>
           pc \in Opening \cup Loop \cup {"loaded"}
  PROVE  FailureAt(c)'
<1>1. FailureAt(c)
  BY DEF BringupInv, FailureInv
<1> QED
  BY <1>1 DEF FailureAt, SameCtrl, SameHw

LEMMA QueueKept ==
  ASSUME BringupInv, NEW c \in Ctrl, SameHw(c), c \in abandoned' <=> c \in abandoned,
         enabled[c] /\ c \notin abandoned =>
           \A q, n \in Nsid : /\ UnitOwns(c, q, n) => UnitOwns(c, q, n)'
                              /\ Creating(c, q, n) => Creating(c, q, n)'
  PROVE  QueueAt(c)'
<1>1. QueueAt(c) /\ io_cq \in QueueTables /\ io_sq \in QueueTables
  BY TypesAre DEF BringupInv, QueueInv, HwTypes
<1> SUFFICES ASSUME NEW q \in Nsid
             PROVE  /\ io_sq'[c][q] # 0 => io_cq'[c][q] # 0
                    /\ enabled'[c] /\ c \notin abandoned' =>
                         /\ io_cq'[c][q] # 0 =>
                              UnitOwns(c, q, io_cq[c][q])' \/ Creating(c, q, io_cq[c][q])'
                         /\ io_sq'[c][q] # 0 => UnitOwns(c, q, io_sq[c][q])'
                         /\ \A n \in Nsid :
                              /\ <<"cq", q, n>> \in late'[c] =>
                                   UnitOwns(c, q, n)' \/ Creating(c, q, n)'
                              /\ <<"sq", q, n>> \in late'[c] => UnitOwns(c, q, n)'
  BY DEF QueueAt
<1>2. /\ enabled'[c] = enabled[c] /\ (c \in abandoned' <=> c \in abandoned)
      /\ io_cq'[c][q] = io_cq[c][q] /\ io_sq'[c][q] = io_sq[c][q]
      /\ late'[c] = late[c]
  BY DEF SameCtrl, SameHw
<1>3. /\ io_cq[c][q] # 0 => io_cq[c][q] \in Nsid
      /\ io_sq[c][q] # 0 => io_sq[c][q] \in Nsid
  BY <1>1, Numbers DEF QueueTables, Nsid
<1>4. io_sq'[c][q] # 0 => io_cq'[c][q] # 0
  BY <1>1, <1>2 DEF QueueAt
<1>5. CASE enabled[c] /\ c \notin abandoned
  <2> DEFINE m == io_cq[c][q]
             k == io_sq[c][q]
  <2>1. ASSUME NEW n \in Nsid
        PROVE  /\ UnitOwns(c, q, n) => UnitOwns(c, q, n)'
               /\ Creating(c, q, n) => Creating(c, q, n)'
    BY <1>5
  <2>2. /\ m # 0 => UnitOwns(c, q, m) \/ Creating(c, q, m)
        /\ k # 0 => UnitOwns(c, q, k)
        /\ \A n \in Nsid : /\ <<"cq", q, n>> \in late[c] =>
                                UnitOwns(c, q, n) \/ Creating(c, q, n)
                           /\ <<"sq", q, n>> \in late[c] => UnitOwns(c, q, n)
    BY <1>1, <1>5 DEF QueueAt
  <2> QED
    BY <1>2, <1>3, <1>4, <2>1, <2>2
<1> QED
  BY <1>2, <1>4, <1>5

LEMMA PublishKept ==
  ASSUME BringupInv, NEW c \in Ctrl, Tried(c)' => Tried(c), enabled'[c] = enabled[c],
         nsids'[c] = nsids[c], c \in broken => c \in broken',
         Tried(c)' => Listed(c) \subseteq Listed(c)' /\ Awaited(c) \subseteq Awaited(c)'
  PROVE  PublishAt(c)'
<1>1. PublishAt(c)
  BY DEF BringupInv, PublishInv
<1> QED
  BY <1>1 DEF PublishAt, SameCtrl, SameHw

\* The queues that a unit has stay.
Lasting(c) ==
  /\ lost[c] => lost'[c]
  /\ enabled[c] => enabled'[c]
  /\ \A q \in Nsid : /\ io_cq[c][q] # 0 => io_cq'[c][q] = io_cq[c][q]
                     /\ io_sq[c][q] # 0 => io_sq'[c][q] = io_sq[c][q]

LEMMA SameLasts ==
  ASSUME NEW c, SameHw(c)
  PROVE  Lasting(c)
  BY DEF SameHw, Lasting

LEMMA QueueIds ==
  ASSUME BringupInv, NEW i \in DOMAIN global_units
  PROVE  /\ global_units[i].ctrl \in Ctrl /\ global_units[i].nsid \in Nsid
         /\ global_units[i].queue_id \in 1 .. Cardinality(UnitsOf(global_units[i].ctrl))
         /\ i \in UnitsOf(global_units[i].ctrl)
<1>1. TypeOK /\ TableInv
  BY DEF BringupInv
<1> QED
  BY <1>1, TableEntries DEF TableInv, UnitsOf

LEMMA ServedKept ==
  ASSUME BringupInv, pc \in Loop \cup {"loaded"}, \A c \in Ctrl : Lasting(c),
         NEW i \in DOMAIN global_units, global_units'[i] = global_units[i]
  PROVE  Served(global_units[i])' /\ global_units[i].queue_id \in Nsid
<1> DEFINE u == global_units[i]
           c == u.ctrl
           q == u.queue_id
<1>1. Served(u) /\ q \in Nsid /\ c \in Ctrl /\ u.nsid # 0
  <2>1. Served(u) /\ q \in Nsid
    BY DEF BringupInv, ServedInv
  <2>2. c \in Ctrl /\ u.nsid \in Nsid
    BY QueueIds
  <2> QED
    BY <2>1, <2>2 DEF Nsid
<1> HIDE DEF u, c, q
<1>2. Lasting(c)
  BY <1>1
<1>3. /\ lost[c] => lost'[c]
      /\ enabled[c] => enabled'[c]
      /\ io_cq[c][q] # 0 => io_cq'[c][q] = io_cq[c][q]
      /\ io_sq[c][q] # 0 => io_sq'[c][q] = io_sq[c][q]
  BY <1>1, <1>2 DEF Lasting
<1> QED
  BY <1>1, <1>3 DEF Served, u, c, q

HwAll == HwTypes /\ EnabledInv /\ FailureInv /\ QueueInv /\ ServedInv /\ PublishInv

\* Steps outside InitNVMe and the loop over the namespaces that leave all the
\* controllers alone.
LEMMA HardwareKept ==
  ASSUME BringupInv, pc \notin {"init", "unit"}, pc' # "unit",
         UNCHANGED <<hwVars, broken, abandoned, nsids, ptr, global_units>>,
         faults' \in 0 .. MaxFaults,
         \A c \in Ctrl : Untried(c)' => Untried(c),
         pc' = "init" => Untried(cur') /\ step' = 1,
         pc' \in {"irq", "list"} => pc \in {"irq", "list"} /\ cur' = cur,
         pc' \in Loop \cup {"loaded"} =>
           pc \in Loop \cup {"loaded"} \/ (pc \in Opening /\ global_units = <<>>),
         pc' \in Opening => pc \in Opening,
         \A c \in Ctrl : Tried(c)' => Tried(c)
  PROVE  HwAll'
<1>1. /\ HwTypes /\ EnabledInv /\ ServedInv
      /\ HwTypes'
  <2>1. HwTypes
    BY TypesAre
  <2> QED
    BY <2>1 DEF BringupInv, HwTypes, hwVars
<1>2. ASSUME NEW c \in Ctrl
      PROVE  SameCtrl(c)
  BY <1>2 DEF SameCtrl, SameHw, hwVars
<1>3. ASSUME NEW c \in Ctrl
      PROVE  EnabledAt(c)'
  <2>1. EnabledAt(c)
    BY <1>1 DEF EnabledInv
  <2>2. pc' \in {"init", "irq", "list"} /\ c = cur' => Untouched(c)
    BY <2>1 DEF EnabledAt
  <2>3. InInit(c)' => (enabled[c] <=> step' > 8)
    BY <2>1 DEF EnabledAt, InInit
  <2>4. pc' \in {"irq", "list", "unit"} /\ c = cur' => enabled[c]
    BY <2>1 DEF EnabledAt
  <2>5. ~InInit(c)
    BY DEF InInit
  <2> QED
    BY <1>2, <2>2, <2>3, <2>4, <2>5, EnabledKept
<1>4. ASSUME NEW c \in Ctrl
      PROVE  FailureAt(c)'
  <2>1. pc' \in Opening \cup Loop \cup {"loaded"} => pc \in Opening \cup Loop \cup {"loaded"}
    OBVIOUS
  <2> QED
    BY <1>2, <2>1, FailureKept
<1>5. ASSUME NEW c \in Ctrl
      PROVE  QueueAt(c)'
  <2>1. \A q, n \in Nsid : /\ UnitOwns(c, q, n) => UnitOwns(c, q, n)'
                           /\ Creating(c, q, n) => Creating(c, q, n)'
    BY DEF UnitOwns, Creating
  <2> QED
    BY <1>2, <2>1, QueueKept DEF SameCtrl, SameHw
<1>6. ASSUME NEW c \in Ctrl
      PROVE  PublishAt(c)'
  <2>1. Listed(c)' = Listed(c) /\ Awaited(c) = {}
    BY DEF Listed, Awaited, UnitsOf
  <2> QED
    BY <1>2, <2>1, PublishKept DEF SameCtrl, SameHw
<1>7. ServedInv'
  <2>1. ASSUME pc \in Loop \cup {"loaded"}, NEW i \in DOMAIN global_units'
        PROVE  global_units'[i].queue_id \in Nsid /\ Served(global_units[i])'
    BY <1>2, <2>1, SameLasts, ServedKept DEF SameCtrl
  <2>2. CASE pc \in Loop \cup {"loaded"}
    BY <2>1, <2>2 DEF ServedInv
  <2>3. CASE pc \notin Loop \cup {"loaded"}
    BY <2>3 DEF ServedInv
  <2> QED
    BY <2>2, <2>3
<1> QED
  BY <1>1, <1>3, <1>4, <1>5, <1>6, <1>7
     DEF HwAll, EnabledInv, FailureInv, QueueInv, PublishInv

\* A controller that runs, with nothing freed under it, has its memory.
LEMMA RunningHas ==
  ASSUME BringupInv, NEW c \in Ctrl, enabled[c], c \notin abandoned, ~InInit(c)
  PROVE  ptr[c] = AdminPointers /\ MayHold(c)
<1>1. ptr[c] = AdminPointers
  BY DEF BringupInv, EnabledInv, EnabledAt
<1>2. AdminPointers # {}
  BY DEF AdminPointers, Vectors
<1> QED
  BY <1>1, <1>2 DEF BringupInv, MemoryInv

\* The steps before and between the controllers, and the last.
LEMMA HardwareElsewhere ==
  ASSUME BringupInv,
         \/ OpenLibrary \/ DiscoverNVMe \/ BringUp \/ InstallNVMeInterrupt
         \/ Expunge \/ Leave
  PROVE  HwAll'
<1>1. /\ TypeOK /\ PlaceInv /\ HaveInv /\ TableInv /\ HwTypes
      /\ MaxFaults \in Nat
      /\ cur \in Nat /\ num_controllers \in Nat /\ Ctrl \subseteq Nat \ {0}
  BY TypesAre, Current, Numbers DEF BringupInv
<1>2. Fault => faults' \in 0 .. MaxFaults
  BY <1>1 DEF Fault, HwTypes
<1>3. faults \in 0 .. MaxFaults
  BY <1>1 DEF HwTypes
<1>4. pc \in Opening => global_units = <<>> /\ ctrls_up = 0
  BY <1>1 DEF TableInv
<1>5. CASE OpenLibrary
  <2>1. /\ pc \in Libraries /\ cur = 0
        /\ UNCHANGED <<cur, num_controllers, hwVars, broken, abandoned, nsids, ptr,
                       global_units>>
        /\ pc' \in {"ipci", "pci", "iutility", "bring", "err"}
    BY <1>1, <1>5 DEF OpenLibrary, unitVars, ctrlVars, PlaceInv, After, Goto, Libraries
  <2>2. faults' \in 0 .. MaxFaults
    BY <1>2, <1>3, <1>5 DEF OpenLibrary
  <2>3. pc \in Opening
    BY <2>1 DEF Opening, Libraries
  <2>4. \A c \in Ctrl : ~Tried(c)' /\ Untried(c)
    BY <1>1, <2>1, <2>3 DEF Tried, Untried
  <2> QED
    BY <1>4, <2>1, <2>2, <2>3, <2>4, HardwareKept DEF Loop, Opening, Libraries
<1>6. CASE DiscoverNVMe
  <2>1. /\ pc = "pci"
        /\ UNCHANGED <<hwVars, broken, abandoned, nsids, ptr, global_units>>
        /\ pc' \in {"pci", "utility", "err"}
    BY <1>6 DEF DiscoverNVMe, unitVars, ctrlVars, FoundController, SkippedController,
       EndOfBus, Goto
  <2>2. faults' \in 0 .. MaxFaults
    BY <1>2, <1>3, <1>6 DEF DiscoverNVMe, FoundController, SkippedController, EndOfBus
  <2>3. \A c \in Ctrl : ~Tried(c)' /\ Untried(c)
    BY <2>1 DEF Tried, Untried, Opening
  <2> QED
    BY <2>1, <2>2, <2>3, HardwareKept DEF Loop, AtController, Opening
<1>7. CASE BringUp
  <2>1. /\ pc = "bring" /\ step' = 1 /\ faults' = faults
        /\ UNCHANGED <<hwVars, broken, abandoned, nsids, ptr, global_units,
                       num_controllers>>
        /\ \/ pc' = "init" /\ cur' = cur + 1 /\ cur < num_controllers
           \/ pc' = "undo" /\ cur' = 1 /\ ~(cur < num_controllers)
           \/ pc' = "loaded" /\ cur' = cur /\ ~(cur < num_controllers)
    BY <1>7 DEF BringUp, unitVars, ctrlVars, libVars, Goto
  <2>2. \A c \in Ctrl : Tried(c)' => Tried(c)
    BY <1>1, <2>1 DEF Tried
  <2>3. \A c \in Ctrl : Untried(c)' => Untried(c)
    BY <1>1, <2>1 DEF Untried, Opening, Loop, AtController
  <2>4. pc' = "init" => Untried(cur')
    BY <1>1, <2>1 DEF Untried, Loop
  <2> QED
    BY <1>3, <2>1, <2>2, <2>3, <2>4, HardwareKept DEF Loop, AtController, Opening
<1>8. CASE InstallNVMeInterrupt
  <2>1. /\ pc = "irq" /\ pc' = "list" /\ faults' = faults
        /\ UNCHANGED <<hwVars, broken, abandoned, nsids, ptr, global_units, cur,
                       num_controllers>>
    BY <1>8 DEF InstallNVMeInterrupt, unitVars, libVars, Goto
  <2>2. \A c \in Ctrl : Tried(c)' => Tried(c)
    BY <1>1, <2>1 DEF Tried
  <2>3. \A c \in Ctrl : Untried(c)' => Untried(c)
    BY <1>1, <2>1 DEF Untried, Opening, Loop, AtController
  <2> QED
    BY <1>3, <2>1, <2>2, <2>3, HardwareKept DEF Loop, AtController, Opening
<1>9. CASE Expunge \/ Leave
  <2>1. /\ pc \in {"loaded", "release", "err"} /\ pc' \in {"quiesce", "failed", "gone"}
        /\ UNCHANGED <<hwVars, broken, abandoned, nsids, ptr, global_units, faults>>
    BY <1>9 DEF Expunge, Leave, unitVars, ctrlVars, Goto
  <2>2. \A c \in Ctrl : ~Tried(c)' /\ ~Untried(c)'
    BY <2>1 DEF Tried, Untried, Opening, Loop, AtController
  <2> QED
    BY <1>3, <2>1, <2>2, HardwareKept DEF Loop, AtController, Opening
<1> QED
  BY <1>5, <1>6, <1>7, <1>8, <1>9

LEMMA FreeHardware ==
  ASSUME BringupInv, FreeUnits
  PROVE  HwAll'
<1>1. /\ pc = "free" /\ pc' \in {"free", "release"}
      /\ UNCHANGED <<hwVars, broken, abandoned, nsids, ptr, faults>>
  BY DEF FreeUnits, unitVars, ctrlVars, Goto
<1>2. HwTypes'
  <2>1. HwTypes
    BY TypesAre
  <2> QED
    BY <1>1, <2>1 DEF HwTypes, hwVars
<1>3. ASSUME NEW c \in Ctrl
      PROVE  SameCtrl(c)
  BY <1>1 DEF SameCtrl, SameHw, hwVars
<1>4. ASSUME NEW c \in Ctrl
      PROVE  EnabledAt(c)' /\ FailureAt(c)' /\ PublishAt(c)'
  <2>1. /\ ~Untried(c)' /\ ~Tried(c)' /\ ~InInit(c) /\ ~InInit(c)'
        /\ pc' \notin {"init", "irq", "list", "unit"}
        /\ pc' \notin Opening \cup Loop \cup {"loaded"}
    BY <1>1 DEF Untried, Tried, InInit, Opening, Loop, AtController
  <2> QED
    BY <1>1, <1>3, <2>1, EnabledKept, FailureKept, PublishKept DEF SameCtrl, SameHw
<1>5. ASSUME NEW c \in Ctrl
      PROVE  QueueAt(c)'
  <2>1. ~(enabled[c] /\ c \notin abandoned)
    BY <1>1, RunningHas DEF InInit, MayHold, Loop, AtController
  <2> QED
    BY <1>3, <2>1, QueueKept DEF SameCtrl, SameHw
<1>6. ServedInv'
  BY <1>1 DEF ServedInv, Loop, AtController
<1> QED
  BY <1>2, <1>4, <1>5, <1>6 DEF HwAll, EnabledInv, FailureInv, QueueInv, PublishInv

\* Quiescing stops a controller or notes that it has not been stopped.
LEMMA QuiesceHardware ==
  ASSUME BringupInv, Quiesce
  PROVE  HwAll'
<1>1. /\ pc \in {"undo", "quiesce"} /\ pc' \in {pc, "err", "free"}
      /\ UNCHANGED <<io_cq, io_sq, late, lost, broken, nsids, global_units>>
      /\ HwTypes /\ TypeOK /\ PlaceInv /\ MaxFaults \in Nat
      /\ cur' \in Nat /\ cur \in Nat /\ Ctrl \subseteq Nat \ {0}
      /\ cur' = cur + 1 \/ pc' # pc
      /\ pc' \notin Opening \cup Loop \cup {"loaded"}
      /\ pc' \notin {"init", "irq", "list", "unit"}
      /\ cur <= num_controllers => cur \in Ctrl
  BY TypesAre, Current, Numbers DEF Quiesce, unitVars, BringupInv, Goto, Opening, Loop,
     AtController
<1>2. \A c \in Ctrl : ~Untried(c)' /\ ~Tried(c)' /\ ~InInit(c) /\ ~InInit(c)'
  BY <1>1 DEF Untried, Tried, InInit, PlaceInv
<1>3. ASSUME NEW c \in Ctrl, SameCtrl(c), ptr'[c] = ptr[c]
      PROVE  EnabledAt(c)' /\ FailureAt(c)' /\ PublishAt(c)' /\ QueueAt(c)'
  <2>1. \A q, n \in Nsid : /\ UnitOwns(c, q, n) => UnitOwns(c, q, n)'
                           /\ Creating(c, q, n) => Creating(c, q, n)'
    BY <1>1 DEF UnitOwns, Creating
  <2> QED
    BY <1>1, <1>2, <1>3, <2>1, EnabledKept, FailureKept, PublishKept, QueueKept DEF SameCtrl, SameHw
<1>4. ServedInv'
  BY <1>1 DEF ServedInv
<1>5. CASE ~(cur <= num_controllers)
  <2>1. UNCHANGED <<ptr, enabled, faults, abandoned>>
    BY <1>5 DEF Quiesce
  <2>2. HwTypes' /\ \A c \in Ctrl : SameCtrl(c) /\ ptr'[c] = ptr[c]
    BY <1>1, <2>1 DEF HwTypes, SameCtrl, SameHw
  <2> QED
    BY <1>3, <1>4, <2>2 DEF HwAll, EnabledInv, FailureInv, QueueInv, PublishInv
<1>6. CASE cur <= num_controllers
  <2>1. /\ cur \in Ctrl /\ ptr' = [ptr EXCEPT ![cur] = {}]
        /\ \/ /\ enabled' = [enabled EXCEPT ![cur] = @ /\ "admin_sq" \notin ptr[cur]]
              /\ UNCHANGED <<faults, abandoned>>
           \/ Fault /\ abandoned' = abandoned \cup {cur} /\ UNCHANGED enabled
    BY <1>1, <1>6 DEF Quiesce, QuiesceOne, Shutdown
  <2>2. HwTypes'
    <3>1. enabled \in [Ctrl -> BOOLEAN] /\ faults \in 0 .. MaxFaults /\ abandoned \subseteq Ctrl
      BY <1>1 DEF HwTypes
    <3>2. ("admin_sq" \notin ptr[cur]) \in BOOLEAN
      OBVIOUS
    <3>3. enabled' \in [Ctrl -> BOOLEAN]
      BY <2>1, <3>1, <3>2
    <3>4. faults' \in 0 .. MaxFaults /\ abandoned' \subseteq Ctrl
      <4>1. Fault => faults' \in 0 .. MaxFaults
        BY <1>1, <3>1 DEF Fault
      <4>2. (Fault /\ abandoned' = abandoned \cup {cur}) \/ UNCHANGED <<faults, abandoned>>
        BY <2>1
      <4> QED
        BY <2>1, <3>1, <4>1, <4>2
    <3> QED
      BY <1>1, <3>3, <3>4 DEF HwTypes
  <2>3. ptr \in [Ctrl -> SUBSET (Vectors \cup Entries)]
    BY <1>1 DEF TypeOK
  <2>4. ASSUME NEW c \in Ctrl \ {cur}
        PROVE  SameCtrl(c) /\ ptr'[c] = ptr[c]
    BY <1>1, <2>1, <2>3 DEF HwTypes, SameCtrl, SameHw
  <2>5. ASSUME NEW c \in Ctrl, c = cur
        PROVE  EnabledAt(c)' /\ FailureAt(c)' /\ PublishAt(c)' /\ QueueAt(c)'
    <3>1. ~enabled'[c] \/ c \in abandoned'
      <4>1. CASE Fault /\ abandoned' = abandoned \cup {cur} /\ UNCHANGED enabled
        BY <2>5, <4>1
      <4>2. CASE /\ enabled' = [enabled EXCEPT ![cur] = @ /\ "admin_sq" \notin ptr[cur]]
                 /\ UNCHANGED <<faults, abandoned>>
        <5>1. enabled'[c] => enabled[c] /\ "admin_sq" \notin ptr[c]
          BY <1>1, <2>5, <4>2 DEF HwTypes
        <5>2. "admin_sq" \in AdminPointers
          BY DEF AdminPointers, Vectors
        <5> QED
          BY <1>2, <4>2, <5>1, <5>2, RunningHas
      <4> QED
        BY <2>1, <4>1, <4>2
    <3>2. FailureAt(c) /\ QueueAt(c)
      BY DEF BringupInv, FailureInv, QueueInv
    <3>3. EnabledAt(c)' /\ FailureAt(c)' /\ PublishAt(c)'
      BY <1>1, <1>2, <3>1, <3>2 DEF EnabledAt, FailureAt, PublishAt
    <3>4. QueueAt(c)'
      BY <1>1, <3>1, <3>2 DEF QueueAt
    <3> QED
      BY <3>3, <3>4
  <2>6. \A c \in Ctrl : EnabledAt(c)' /\ FailureAt(c)' /\ PublishAt(c)' /\ QueueAt(c)'
    BY <1>3, <2>4, <2>5
  <2> QED
    BY <1>4, <2>2, <2>6 DEF HwAll, EnabledInv, FailureInv, QueueInv, PublishInv
<1> QED
  BY <1>5, <1>6

\* The queue id of the next unit, and what its controller knows of it.
LEMMA Fresh ==
  ASSUME BringupInv, pc = "unit", step > 1 \/ ns # <<>>
  PROVE  /\ cur \in Ctrl /\ QueueId \in Nsid /\ Head(ns) \in Nsid /\ Head(ns) # 0
         /\ QueueId = Cardinality(UnitsOf(cur)) + 1 /\ enabled[cur] /\ ns # <<>>
         /\ \A n : ~UnitOwns(cur, QueueId, n)
         /\ \A q : ~UnitOwns(cur, q, Head(ns))
         /\ cur \notin abandoned =>
              /\ io_sq[cur][QueueId] = 0
              /\ step # 12 => io_cq[cur][QueueId] = 0
              /\ io_cq[cur][QueueId] \in {0, Head(ns)}
         /\ cur \notin broken =>
              ~lost[cur] /\ late[cur] = {} /\ cur \notin abandoned
         /\ step = 12 /\ cur \notin broken => io_cq[cur][QueueId] = Head(ns)
<1>1. /\ TypeOK /\ PlaceInv /\ TurnInv /\ RoomInv /\ TableInv /\ PendingInv
      /\ ns # <<>> /\ ns \in Seq(Nsid)
  BY DEF BringupInv, TypeOK, TurnInv
<1>2. cur \in Ctrl /\ cur <= num_controllers
  BY <1>1, Current DEF AtController
<1>3. Head(ns) \in Nsid /\ Head(ns) # 0 /\ Len(ns) \in Nat \ {0} /\ ns[1] = Head(ns)
      /\ 1 \in DOMAIN ns
  <2>1. Len(ns) \in Nat \ {0} /\ 1 \in DOMAIN ns /\ Head(ns) = ns[1]
    BY <1>1, TailIs
  <2>2. ns[1] \in Nsid
    BY <1>1, <2>1
  <2> QED
    BY <2>1, <2>2 DEF Nsid
<1> DEFINE k == Cardinality(UnitsOf(cur))
<1>4. QueueId = k + 1 /\ k \in Nat /\ k + Len(ns) <= MaxNamespaces
  <2>1. k \in 0 .. Len(global_units) /\ Len(global_units) \in Nat
    BY <1>1, UnitsFinite, TableEntries
  <2> QED
    BY <1>1, <2>1 DEF QueueId, RoomInv
<1>5. QueueId \in Nsid
  BY <1>3, <1>4, Numbers DEF Nsid
<1>6. ASSUME NEW n
      PROVE  ~UnitOwns(cur, QueueId, n)
  <2>1. ASSUME NEW i \in DOMAIN global_units,
               global_units[i] = [ctrl |-> cur, nsid |-> n, queue_id |-> QueueId]
        PROVE  FALSE
    <3>1. global_units[i].ctrl = cur /\ global_units[i].queue_id = QueueId
      BY <2>1
    <3>2. global_units[i].queue_id \in 1 .. Cardinality(UnitsOf(global_units[i].ctrl))
      BY QueueIds
    <3> HIDE DEF k
    <3>3. QueueId \in 1 .. k
      BY <3>1, <3>2 DEF k
    <3> QED
      BY <1>4, <3>3
  <2> QED
    BY <2>1 DEF UnitOwns
<1>7. ASSUME NEW q
      PROVE  ~UnitOwns(cur, q, Head(ns))
  <2>1. ASSUME NEW i \in DOMAIN global_units,
               global_units[i] = [ctrl |-> cur, nsid |-> Head(ns), queue_id |-> q]
        PROVE  FALSE
    <3>1. global_units[i].ctrl = cur /\ global_units[i].nsid = ns[1]
      BY <1>3, <2>1
    <3> QED
      BY <1>1, <1>3, <3>1 DEF PendingInv
  <2> QED
    BY <2>1 DEF UnitOwns
<1>8. enabled[cur]
  BY <1>2 DEF BringupInv, EnabledInv, EnabledAt
<1>9. cur \notin abandoned =>
        /\ io_sq[cur][QueueId] = 0
        /\ step # 12 => io_cq[cur][QueueId] = 0
        /\ io_cq[cur][QueueId] \in {0, Head(ns)}
  <2>1. QueueAt(cur)
    BY <1>2 DEF BringupInv, QueueInv
  <2>2. cur \notin abandoned =>
          /\ io_cq[cur][QueueId] # 0 =>
               \/ UnitOwns(cur, QueueId, io_cq[cur][QueueId])
               \/ Creating(cur, QueueId, io_cq[cur][QueueId])
          /\ io_sq[cur][QueueId] # 0 => UnitOwns(cur, QueueId, io_sq[cur][QueueId])
    BY <1>5, <1>8, <2>1 DEF QueueAt
  <2> QED
    BY <1>6, <2>2 DEF Creating
<1>10. cur \notin broken => ~lost[cur] /\ late[cur] = {} /\ cur \notin abandoned
  <2>1. FailureAt(cur)
    BY <1>2 DEF BringupInv, FailureInv
  <2> QED
    BY <2>1 DEF FailureAt, Loop, AtController
<1>11. step = 12 => lost[cur] \/ io_cq[cur][QueueId] = Head(ns)
  BY DEF BringupInv, ServedInv
<1> QED
  BY <1>1, <1>2, <1>3, <1>4, <1>5, <1>6, <1>7, <1>8, <1>9, <1>10, <1>11

\* A command nobody waits for creates a queue of a unit, or of one about to be.
LEMMA LateHardware ==
  ASSUME BringupInv, NEW c \in Ctrl, Late(c)
  PROVE  HwAll'
<1>1. /\ UNCHANGED <<placeVars, num_controllers, ptr, global_units, nsids, enabled, lost, faults, broken,
                     abandoned>>
      /\ enabled[c] /\ HwTypes
  BY TypesAre DEF Late, libVars, ctrlVars, unitVars
<1>2. PICK cmd \in late[c] :
        /\ late' = [late EXCEPT ![c] = @ \ {cmd}]
        /\ IF Feasible(c, cmd) THEN CarryOut(c, cmd) ELSE UNCHANGED <<io_cq, io_sq>>
  BY DEF Late
<1>3. cmd \in Commands
  BY <1>1, <1>2 DEF HwTypes
<1>4. /\ late' \in [Ctrl -> SUBSET Commands] /\ late'[c] \subseteq late[c]
      /\ \A d \in Ctrl \ {c} : late'[d] = late[d]
  BY <1>1, <1>2 DEF HwTypes
<1>5. HwTypes' /\ \A d \in Ctrl \ {c} : SameHw(d)
  <2>1. CASE UNCHANGED <<io_cq, io_sq>>
    BY <1>1, <1>4, <2>1 DEF HwTypes, SameHw
  <2>2. CASE CarryOut(c, cmd)
    BY <1>1, <1>3, <1>4, <2>2, Carried DEF HwTypes, SameHw
  <2> QED
    BY <1>2, <2>1, <2>2
<1>6. ASSUME NEW q \in Nsid
      PROVE  /\ io_cq'[c][q] # io_cq[c][q] =>
                  io_cq[c][q] = 0 /\ io_cq'[c][q] \in Nsid
                    /\ <<"cq", q, io_cq'[c][q]>> \in late[c]
             /\ io_sq'[c][q] # io_sq[c][q] =>
                  io_sq[c][q] = 0 /\ io_cq'[c][q] # 0 /\ io_sq'[c][q] \in Nsid
                    /\ <<"sq", q, io_sq'[c][q]>> \in late[c]
  <2>1. CASE UNCHANGED <<io_cq, io_sq>>
    BY <2>1
  <2>2. CASE Feasible(c, cmd) /\ CarryOut(c, cmd)
    <3>1. /\ io_cq'[c][q] = IF cmd[1] = "cq" /\ q = cmd[2] THEN cmd[3] ELSE io_cq[c][q]
          /\ io_sq'[c][q] = IF cmd[1] = "sq" /\ q = cmd[2] THEN cmd[3] ELSE io_sq[c][q]
      BY <1>1, <1>3, <2>2, Carried
    <3>2. cmd[1] \in {"cq", "sq"} => cmd = <<cmd[1], cmd[2], cmd[3]>> /\ cmd[3] \in Nsid
      BY <1>3, CommandIs
    <3>3. CASE cmd[1] = "cq" /\ q = cmd[2]
      BY <1>2, <2>2, <3>1, <3>2, <3>3 DEF Feasible
    <3>4. CASE cmd[1] = "sq" /\ q = cmd[2]
      BY <1>2, <2>2, <3>1, <3>2, <3>4 DEF Feasible
    <3> QED
      BY <3>1, <3>3, <3>4
  <2> QED
    BY <1>2, <2>1, <2>2
<1>7. ASSUME NEW d \in Ctrl
      PROVE  EnabledAt(d)' /\ FailureAt(d)' /\ PublishAt(d)'
  <2>1. EnabledAt(d) /\ FailureAt(d) /\ PublishAt(d)
    BY DEF BringupInv, EnabledInv, FailureInv, PublishInv
  <2>2. Untouched(d) => d # c
    <3>1. late[c] # {}
      BY <1>2
    <3> QED
      BY <3>1 DEF Untouched
  <2>3. Untouched(d) => Untouched(d)'
    BY <1>1, <1>5, <2>2 DEF Untouched, SameHw
  <2>4. late'[d] \subseteq late[d]
    BY <1>4
  <2>5. FailureAt(d)'
    BY <1>1, <2>1, <2>4 DEF FailureAt, placeVars
  <2>6. EnabledAt(d)'
    BY <1>1, <2>1, <2>3 DEF EnabledAt, placeVars, Untried, InInit
  <2>7. PublishAt(d)'
    BY <1>1, <2>1 DEF PublishAt, placeVars, Tried, Listed, Awaited, UnitsOf
  <2> QED
    BY <2>5, <2>6, <2>7
<1>8. ASSUME NEW d, NEW q, NEW n
      PROVE  /\ UnitOwns(d, q, n)' <=> UnitOwns(d, q, n)
             /\ Creating(d, q, n)' <=> Creating(d, q, n)
  BY <1>1 DEF placeVars, UnitOwns, Creating, QueueId, UnitsOf
<1>9. ASSUME NEW d \in Ctrl \ {c}
      PROVE  QueueAt(d)'
  BY <1>1, <1>5, <1>8, QueueKept DEF SameCtrl, SameHw
<1>10. QueueAt(c)'
  <2>1. QueueAt(c)
    BY DEF BringupInv, QueueInv
  <2> SUFFICES ASSUME NEW q \in Nsid
               PROVE  /\ io_sq'[c][q] # 0 => io_cq'[c][q] # 0
                      /\ enabled'[c] /\ c \notin abandoned' =>
                           /\ io_cq'[c][q] # 0 =>
                                UnitOwns(c, q, io_cq[c][q])' \/ Creating(c, q, io_cq[c][q])'
                           /\ io_sq'[c][q] # 0 => UnitOwns(c, q, io_sq[c][q])'
                           /\ \A n \in Nsid :
                                /\ <<"cq", q, n>> \in late'[c] =>
                                     UnitOwns(c, q, n)' \/ Creating(c, q, n)'
                                /\ <<"sq", q, n>> \in late'[c] => UnitOwns(c, q, n)'
    BY DEF QueueAt
  <2>2. io_sq'[c][q] # 0 => io_cq'[c][q] # 0
    BY <1>6, <2>1 DEF QueueAt
  <2>3. CASE c \notin abandoned
    <3>1. /\ io_cq[c][q] # 0 =>
               UnitOwns(c, q, io_cq[c][q]) \/ Creating(c, q, io_cq[c][q])
          /\ io_sq[c][q] # 0 => UnitOwns(c, q, io_sq[c][q])
          /\ \A n \in Nsid :
               /\ <<"cq", q, n>> \in late[c] => UnitOwns(c, q, n) \/ Creating(c, q, n)
               /\ <<"sq", q, n>> \in late[c] => UnitOwns(c, q, n)
      BY <1>1, <2>1, <2>3 DEF QueueAt
    <3> DEFINE m == io_cq'[c][q]
               k == io_sq'[c][q]
    <3>2. m # 0 => UnitOwns(c, q, m) \/ Creating(c, q, m)
      BY <1>6, <3>1
    <3>3. k # 0 => UnitOwns(c, q, k)
      BY <1>6, <3>1
    <3>4. (m # 0 => UnitOwns(c, q, io_cq[c][q])' \/ Creating(c, q, io_cq[c][q])')
      <4>1. ASSUME NEW n, n = m
            PROVE  /\ UnitOwns(c, q, n) => UnitOwns(c, q, io_cq[c][q])'
                   /\ Creating(c, q, n) => Creating(c, q, io_cq[c][q])'
        BY <1>1, <4>1 DEF placeVars, UnitOwns, Creating, QueueId, UnitsOf
      <4> QED
        BY <3>2, <4>1
    <3>5. (k # 0 => UnitOwns(c, q, io_sq[c][q])')
      <4>1. ASSUME NEW n, n = k
            PROVE  UnitOwns(c, q, n) => UnitOwns(c, q, io_sq[c][q])'
        BY <1>1, <4>1 DEF UnitOwns
      <4> QED
        BY <3>3, <4>1
    <3> QED
      BY <1>4, <1>8, <2>2, <3>1, <3>4, <3>5
  <2> QED
    BY <1>1, <2>2, <2>3
<1>11. \A d \in Ctrl : Lasting(d)
  <2>1. Lasting(c)
    BY <1>1, <1>6 DEF Lasting
  <2> QED
    BY <1>5, <2>1, SameLasts
<1>12. ServedInv'
  <2>1. pc \in Loop \cup {"loaded"} =>
          \A i \in DOMAIN global_units' :
            global_units'[i].queue_id \in Nsid /\ Served(global_units[i])'
    BY <1>1, <1>11, ServedKept
  <2>2. pc = "unit" /\ step = 12 => lost'[cur] \/ io_cq'[cur][QueueId] = Head(ns)
    <3>1. SUFFICES ASSUME pc = "unit", step = 12
                   PROVE  lost'[cur] \/ io_cq'[cur][QueueId] = Head(ns)
      OBVIOUS
    <3>2. lost[cur] \/ io_cq[cur][QueueId] = Head(ns)
      BY <3>1 DEF BringupInv, ServedInv
    <3>3. cur \in Ctrl /\ QueueId \in Nsid /\ Head(ns) # 0
      BY <3>1, Fresh
    <3>4. Lasting(cur)
      BY <1>11, <3>3
    <3> QED
      BY <1>1, <3>2, <3>3, <3>4 DEF Lasting
  <2>3. QueueId' = QueueId
    BY <1>1 DEF placeVars, QueueId, UnitsOf
  <2> QED
    BY <1>1, <2>1, <2>2, <2>3 DEF ServedInv, placeVars
<1> QED
  BY <1>5, <1>7, <1>9, <1>10, <1>12 DEF HwAll, EnabledInv, FailureInv, QueueInv, PublishInv

\* InitNVMe: only the controller at its turn is touched, and only by being
\* enabled, or given up.
LEMMA InitHardware ==
  ASSUME BringupInv, [Next]_vars, InitNVMe
  PROVE  HwAll'
<1>1. /\ TypeOK /\ PlaceInv /\ MemoryInv /\ HwTypes /\ pc = "init" /\ step \in 1 .. 13
      /\ UNCHANGED <<ns, num_controllers, global_units, nsids, cur>>
      /\ Ctrl \subseteq Nat \ {0}
      /\ cur \in Ctrl /\ MaxFaults \in Nat
  <2>1. UNCHANGED <<ns, num_controllers, global_units, nsids>> /\ pc = "init"
    BY DEF InitNVMe, libVars, unitVars
  <2>2. UNCHANGED cur
    BY DEF InitNVMe, InitAcquires, InitWaits, InitFails, InitIdentifies, SkipController
  <2> QED
    BY <2>1, <2>2, TypesAre, Current, Numbers, InitStepsAre
       DEF BringupInv, TypeOK, AtController
<1>2. /\ Untouched(cur) /\ (enabled[cur] <=> step > 8)
      /\ late[cur] = {} /\ ~lost[cur] /\ cur \notin broken /\ cur \notin abandoned
      /\ nsids[cur] = {}
  <2>1. EnabledAt(cur) /\ InInit(cur)
    BY <1>1 DEF BringupInv, EnabledInv, InInit
  <2> QED
    BY <1>1, <2>1 DEF EnabledAt, Untouched
<1> DEFINE Moved == /\ \A d \in Ctrl : /\ \A q \in Nsid : /\ io_cq'[d][q] = io_cq[d][q]
                                                          /\ io_sq'[d][q] = io_sq[d][q]
                                       /\ lost[d] => lost'[d]
                                       /\ enabled[d] => enabled'[d]
                    /\ \A d \in Ctrl \ {cur} : SameCtrl(d)
                    /\ HwTypes'
           Stays == /\ pc' = "init" /\ Untouched(cur)'
                    /\ enabled'[cur] <=> step' > 8
           Goes == /\ pc' = "irq" /\ Untouched(cur)' /\ enabled'[cur]
           Skips == /\ pc' = "bring" /\ cur \in broken'
                    /\ late'[cur] \subseteq {Identify}
                    /\ late'[cur] # {} => lost'[cur]
                    /\ enabled'[cur] => cur \in abandoned'
<1>4. Moved /\ (Stays \/ Goes \/ Skips)
  <2>1. UNCHANGED <<enabled, io_cq, io_sq, late, lost, faults, broken, abandoned>> =>
          Moved /\ Untouched(cur)' /\ (enabled'[cur] <=> step > 8)
    BY <1>1, <1>2 DEF SameCtrl, SameHw, HwTypes, Untouched
  <2>2. ASSUME NEW R, InitErr(R)
        PROVE  /\ abandoned' \subseteq Ctrl
               /\ enabled[cur] => cur \in abandoned'
               /\ \A d \in Ctrl \ {cur} : d \in abandoned' <=> d \in abandoned
    BY <1>1, <2>2 DEF InitErr, HwTypes
  <2>3. CASE InitAcquires
    <3>1. step # 8 /\ pc' = "init" /\ step' = step + 1
      BY <1>1, <2>3, InitPlaces DEF InitAcquires, AdminMemory
    <3>2. UNCHANGED <<enabled, io_cq, io_sq, late, lost, faults, broken, abandoned>>
      BY <2>3 DEF InitAcquires, hwVars
    <3> QED
      BY <1>1, <1>2, <2>1, <3>1, <3>2
  <2>4. CASE InitWaits
    <3>1. /\ pc' = "init" /\ step' = step + 1
          /\ enabled' = [enabled EXCEPT ![cur] = @ \/ InitStep = "enable"]
          /\ UNCHANGED <<io_cq, io_sq, late, lost, faults, broken, abandoned>>
      BY <1>1, <2>4 DEF InitWaits
    <3>2. InitStep = "enable" <=> step = 8
      BY <1>1, InitStepsAre DEF InitStep
    <3>3. /\ enabled' \in [Ctrl -> BOOLEAN]
          /\ \A d \in Ctrl \ {cur} : enabled'[d] = enabled[d]
          /\ enabled'[cur] <=> enabled[cur] \/ step = 8
      <4> DEFINE e == InitStep = "enable"
      <4>1. e \in BOOLEAN /\ enabled \in [Ctrl -> BOOLEAN]
        BY <1>1 DEF HwTypes
      <4>2. enabled' = [enabled EXCEPT ![cur] = @ \/ e]
        BY <3>1
      <4> HIDE DEF e
      <4>3. /\ enabled' \in [Ctrl -> BOOLEAN]
            /\ \A d \in Ctrl \ {cur} : enabled'[d] = enabled[d]
            /\ enabled'[cur] <=> enabled[cur] \/ e
        BY <1>1, <4>1, <4>2
      <4> QED
        BY <3>2, <4>3 DEF e
    <3>4. Untouched(cur)'
      BY <1>1, <1>2, <3>1 DEF Untouched
    <3>5. enabled'[cur] <=> step' > 8
      BY <1>1, <1>2, <3>1, <3>3
    <3>6. HwTypes'
      BY <1>1, <3>1, <3>3 DEF HwTypes
    <3>7. \A d \in Ctrl \ {cur} : SameCtrl(d)
      BY <1>1, <3>1, <3>3 DEF SameCtrl, SameHw
    <3>8. \A d \in Ctrl : enabled[d] => enabled'[d]
      BY <3>3
    <3> QED
      BY <3>1, <3>4, <3>5, <3>6, <3>7, <3>8
  <2>5. CASE InitFails
    <3>1. /\ Failure(cur) /\ InitErr({InitStep} \cap Pins) /\ pc' = "bring"
          /\ UNCHANGED <<enabled, io_cq, io_sq, late, lost>>
      BY <2>5 DEF InitFails, SkipController, Goto, hwVars
    <3>2. faults' \in 0 .. MaxFaults /\ broken' = broken \cup {cur}
      BY <1>1, <3>1 DEF Failure, Fault, HwTypes
    <3>3. HwTypes'
      BY <1>1, <2>2, <3>1, <3>2 DEF HwTypes
    <3>4. \A d \in Ctrl \ {cur} : SameCtrl(d)
      BY <1>1, <2>2, <3>1, <3>2 DEF SameCtrl, SameHw
    <3> QED
      BY <1>2, <2>2, <3>1, <3>2, <3>3, <3>4
  <2>6. CASE InitIdentifies
    <3>1. step = 13
      BY <1>1, <2>6, InitStepsAre DEF InitIdentifies, InitStep
    <3>2. CASE AdminCmd(cur, Identify, TRUE) /\ Goto("irq") /\ UNCHANGED abandoned
      <4>1. UNCHANGED <<late, lost, broken, enabled, abandoned>>
        BY <1>1, <1>2, <3>2, Identified DEF AdminCmd
      <4>2. /\ \A d \in Ctrl, q \in Nsid : /\ io_cq'[d][q] = io_cq[d][q]
                                            /\ io_sq'[d][q] = io_sq[d][q]
        BY <1>1, <3>2, Identified
      <4>3. HwTypes'
        BY <1>1, <3>2, <4>1, Commanded, CommandIs DEF HwTypes
      <4>4. Untouched(cur)' /\ enabled'[cur]
        <5>1. enabled'[cur]
          BY <1>2, <3>1, <4>1
        <5>2. /\ late'[cur] = {} /\ ~lost'[cur] /\ cur \notin broken' /\ cur \notin abandoned'
              /\ nsids'[cur] = {} /\ cur' = cur
          BY <1>1, <1>2, <4>1
        <5>3. \A q \in Nsid : io_cq'[cur][q] = 0 /\ io_sq'[cur][q] = 0
          BY <1>1, <1>2, <4>2 DEF Untouched
        <5> QED
          BY <5>1, <5>2, <5>3 DEF Untouched
      <4>5. \A d \in Ctrl \ {cur} : SameCtrl(d)
        BY <1>1, <4>1, <4>2 DEF SameCtrl, SameHw
      <4> QED
        BY <3>2, <4>1, <4>2, <4>3, <4>4, <4>5 DEF Goto
    <3>3. CASE AdminCmd(cur, Identify, FALSE) /\ InitErr({}) /\ SkipController
      <4>1. /\ \A d \in Ctrl, q \in Nsid : /\ io_cq'[d][q] = io_cq[d][q]
                                            /\ io_sq'[d][q] = io_sq[d][q]
            /\ late'[cur] \in {late[cur], late[cur] \cup {Identify}}
            /\ late'[cur] = late[cur] \/ lost'[cur]
            /\ cur \in broken'
        BY <1>1, <1>2, <3>3, Identified
      <4>2. /\ io_cq' \in QueueTables /\ io_sq' \in QueueTables
            /\ late' \in [Ctrl -> SUBSET Commands] /\ lost' \in [Ctrl -> BOOLEAN]
            /\ faults' \in 0 .. MaxFaults
            /\ broken \subseteq broken' /\ broken' \subseteq broken \cup {cur}
            /\ enabled' = enabled
            /\ \A d \in Ctrl \ {cur} : SameHw(d)
        BY <1>1, <3>3, Commanded, CommandIs
      <4>3. HwTypes'
        BY <1>1, <2>2, <3>3, <4>2 DEF HwTypes
      <4>4. \A d \in Ctrl \ {cur} : SameCtrl(d)
        BY <1>1, <2>2, <3>3, <4>2 DEF SameCtrl
      <4>5. pc' = "bring"
        BY <3>3 DEF SkipController, Goto
      <4>6. \A d \in Ctrl : lost[d] => lost'[d]
        BY <1>2, <4>2 DEF SameHw
      <4> QED
        BY <1>2, <2>2, <3>3, <4>1, <4>2, <4>3, <4>4, <4>5, <4>6
    <3> QED
      BY <2>6, <3>2, <3>3 DEF InitIdentifies
  <2> QED
    BY <2>3, <2>4, <2>5, <2>6 DEF InitNVMe
<1> HIDE DEF Moved, Stays, Goes, Skips
<1>5. pc' \in {"init", "irq", "bring"}
  BY <1>4 DEF Stays, Goes, Skips
<1>6. MemoryAll'
  BY MemoryStep
<1>7. ASSUME NEW c \in Ctrl, c # cur
      PROVE  EnabledAt(c)' /\ FailureAt(c)' /\ QueueAt(c)' /\ PublishAt(c)'
  <2>1. SameCtrl(c) /\ c \in Nat /\ cur \in Nat
    BY <1>1, <1>4, <1>7 DEF Moved
  <2>2. \A q, n \in Nsid : /\ UnitOwns(c, q, n) => UnitOwns(c, q, n)'
                           /\ Creating(c, q, n) => Creating(c, q, n)'
    BY <1>1 DEF UnitOwns, Creating
  <2>3. ptr'[c] = ptr[c]
    <3>1. ptr \in [Ctrl -> SUBSET (Vectors \cup Entries)]
      BY <1>1 DEF TypeOK
    <3> QED
      BY <1>7, <3>1 DEF InitNVMe, InitAcquires, InitWaits, InitFails, InitIdentifies, InitErr
  <2>4. EnabledAt(c)'
    <3>1. Untried(c)' => Untried(c)
      BY <1>1, <1>5, <2>1 DEF Untried, Opening, Loop, AtController
    <3>2. c # cur' /\ ~InInit(c) /\ ~InInit(c)'
      BY <1>1, <1>7 DEF InInit
    <3> QED
      BY <2>1, <2>3, <3>1, <3>2, EnabledKept
  <2>5. FailureAt(c)'
    BY <1>1, <1>5, <2>1, FailureKept DEF Loop, AtController
  <2>6. PublishAt(c)'
    <3>1. Tried(c)' => Tried(c)
      BY <1>1, <1>5, <1>7, <2>1 DEF Tried
    <3>2. Listed(c)' = Listed(c) /\ Awaited(c) = {}
      BY <1>1 DEF Listed, Awaited, UnitsOf
    <3> QED
      BY <2>1, <3>1, <3>2, PublishKept DEF SameCtrl, SameHw
  <2> QED
    BY <2>1, <2>2, <2>4, <2>5, <2>6, QueueKept DEF SameCtrl, SameHw
<1>8. ASSUME NEW c \in Ctrl, c = cur
      PROVE  EnabledAt(c)' /\ FailureAt(c)' /\ QueueAt(c)' /\ PublishAt(c)'
  <2>1. c = cur' /\ c \in Nat /\ ~Untried(c)'
    BY <1>1, <1>5, <1>8 DEF Untried, Opening, Loop, AtController
  <2>2. \A q \in Nsid : io_cq'[c][q] = 0 /\ io_sq'[c][q] = 0
    BY <1>2, <1>4, <1>8 DEF Moved, Untouched
  <2>3. CASE Stays
    <3>1. /\ pc' = "init" /\ Untouched(c)' /\ (enabled'[c] <=> step' > 8)
      BY <1>1, <1>8, <2>3 DEF Stays, Untouched
    <3>2. EnabledAt(c)'
      BY <2>1, <3>1 DEF EnabledAt, InInit
    <3>3. FailureAt(c)' /\ QueueAt(c)'
      BY <3>1 DEF FailureAt, QueueAt, Untouched
    <3>4. PublishAt(c)'
      BY <2>1, <3>1 DEF PublishAt, Tried
    <3> QED
      BY <3>2, <3>3, <3>4
  <2>4. CASE Goes
    <3>1. /\ pc' = "irq" /\ Untouched(c)' /\ enabled'[c]
      BY <1>1, <1>8, <2>4 DEF Goes, Untouched
    <3>2. ptr'[c] = AdminPointers
      BY <1>6, <2>1, <3>1 DEF MemoryAll, MemoryInv
    <3>3. EnabledAt(c)'
      BY <2>1, <3>1, <3>2 DEF EnabledAt, InInit
    <3>4. FailureAt(c)' /\ QueueAt(c)'
      BY <3>1 DEF FailureAt, QueueAt, Untouched
    <3>5. PublishAt(c)'
      BY <3>1 DEF PublishAt, Untouched
    <3> QED
      BY <3>3, <3>4, <3>5
  <2>5. CASE Skips
    <3>1. /\ pc' = "bring" /\ c \in broken'
          /\ late'[c] # {} => lost'[c]
          /\ enabled'[c] => c \in abandoned'
      BY <1>8, <2>5 DEF Skips
    <3>2. EnabledAt(c)'
      BY <2>1, <3>1 DEF EnabledAt, InInit
    <3>3. FailureAt(c)'
      BY <3>1 DEF FailureAt
    <3>4. QueueAt(c)'
      BY <2>2, <3>1 DEF QueueAt
    <3>5. PublishAt(c)'
      BY <3>1 DEF PublishAt
    <3> QED
      BY <3>2, <3>3, <3>4, <3>5
  <2> QED
    BY <1>4, <2>3, <2>4, <2>5
<1>9. ServedInv'
  <2>1. \A d \in Ctrl : Lasting(d)
    BY <1>4 DEF Moved, Lasting
  <2>2. pc \in Loop \cup {"loaded"} /\ pc' # "unit"
    BY <1>1, <1>5 DEF Loop, AtController
  <2>3. \A i \in DOMAIN global_units' :
          global_units'[i].queue_id \in Nsid /\ Served(global_units[i])'
    BY <1>1, <2>1, <2>2, ServedKept
  <2> QED
    BY <2>2, <2>3 DEF ServedInv
<1> QED
  BY <1>4, <1>7, <1>8, <1>9 DEF HwAll, EnabledInv, FailureInv, QueueInv, PublishInv, Moved

\* The namespaces of a controller are listed.
LEMMA ListHardware ==
  ASSUME BringupInv, [Next]_vars, ListNamespaces
  PROVE  HwAll'
<1>1. /\ HwTypes /\ pc = "list" /\ step' = 1 /\ cur \in Ctrl /\ Ctrl \subseteq Nat
      /\ UNCHANGED <<cur, num_controllers, ptr, global_units, abandoned>>
      /\ pc' \in {"unit", "bring"} /\ MemoryInv
  <2>1. pc = "list" /\ pc' \in {"unit", "bring"} /\ step' = 1
    BY DEF ListNamespaces, DiscoverUnitsReturns, Goto
  <2>2. UNCHANGED <<cur, num_controllers, ptr, global_units, abandoned>>
    BY DEF ListNamespaces, libVars, ctrlVars
  <2> QED
    BY <2>1, <2>2, TypesAre, Current DEF BringupInv, AtController
<1>2. /\ enabled[cur] /\ late[cur] = {} /\ ~lost[cur] /\ cur \notin abandoned
      /\ \A q \in Nsid : io_cq[cur][q] = 0 /\ io_sq[cur][q] = 0
      /\ nsids[cur] = {}
  <2>1. EnabledAt(cur)
    BY <1>1 DEF BringupInv, EnabledInv
  <2> QED
    BY <1>1, <2>1 DEF EnabledAt, Untouched
<1>3. PICK ok \in BOOLEAN :
        /\ AdminCmd(cur, Identify, ok)
        /\ \/ /\ ok /\ pc' = "unit"
              /\ \E n \in Room : /\ ns' = [i \in 1 .. n |-> i]
                                 /\ nsids' = [nsids EXCEPT ![cur] = 1 .. n]
           \/ UNCHANGED nsids /\ pc' = "bring"
  BY DEF ListNamespaces, DiscoverUnitsReturns, Goto
<1>4. /\ io_cq' \in QueueTables /\ io_sq' \in QueueTables
      /\ late' \in [Ctrl -> SUBSET Commands] /\ lost' \in [Ctrl -> BOOLEAN]
      /\ faults' \in 0 .. MaxFaults
      /\ broken \subseteq broken' /\ broken' \subseteq broken \cup {cur}
      /\ enabled' = enabled
      /\ \A d \in Ctrl \ {cur} : SameHw(d)
  BY <1>1, <1>3, Commanded, CommandIs
<1>5. /\ \A q \in Nsid : io_cq'[cur][q] = 0 /\ io_sq'[cur][q] = 0
      /\ late'[cur] \subseteq {Identify}
      /\ late'[cur] # {} => lost'[cur]
      /\ lost'[cur] => cur \in broken'
      /\ ~ok => cur \in broken'
  BY <1>1, <1>2, <1>3, Identified
<1>6. /\ nsids' \in [Ctrl -> SUBSET Nsid]
      /\ \A d \in Ctrl \ {cur} : nsids'[d] = nsids[d]
      /\ \/ nsids'[cur] = {}
         \/ pc' = "unit" /\ nsids'[cur] \subseteq {ns'[k] : k \in DOMAIN ns'}
  <2>1. CASE pc' = "unit"
    <3>1. PICK n \in Room : /\ ns' = [i \in 1 .. n |-> i]
                            /\ nsids' = [nsids EXCEPT ![cur] = 1 .. n]
      BY <1>3, <2>1
    <3>2. 1 .. n \subseteq Nsid
      BY <3>1, Numbers DEF Room, Nsid
    <3>3. {ns'[k] : k \in DOMAIN ns'} = 1 .. n
      BY <3>1
    <3> QED
      BY <1>1, <1>3, <2>1, <3>1, <3>2, <3>3 DEF HwTypes
  <2>2. CASE UNCHANGED nsids
    BY <1>1, <1>2, <2>2 DEF HwTypes
  <2> QED
    BY <1>3, <2>1, <2>2
<1>7. HwTypes'
  BY <1>1, <1>4, <1>6 DEF HwTypes
<1>8. \A d \in Ctrl \ {cur} : SameCtrl(d)
  BY <1>1, <1>4, <1>6 DEF SameCtrl
<1>9. MemoryAll'
  BY MemoryStep
<1>10. ASSUME NEW c \in Ctrl, c # cur
       PROVE  EnabledAt(c)' /\ FailureAt(c)' /\ QueueAt(c)' /\ PublishAt(c)'
  <2>1. SameCtrl(c) /\ c # cur' /\ ptr'[c] = ptr[c] /\ c \in Nat /\ cur \in Nat
    BY <1>1, <1>8, <1>10
  <2>2. \A q, n \in Nsid : /\ UnitOwns(c, q, n) => UnitOwns(c, q, n)'
                           /\ Creating(c, q, n) => Creating(c, q, n)'
    BY <1>1 DEF UnitOwns, Creating
  <2>3. /\ Untried(c)' => Untried(c)
        /\ Tried(c)' => Tried(c)
        /\ ~InInit(c) /\ ~InInit(c)'
    BY <1>1, <2>1 DEF Untried, Tried, InInit, Opening, Loop, AtController
  <2>4. Listed(c)' = Listed(c) /\ Awaited(c) = {}
    BY <1>1 DEF Listed, Awaited, UnitsOf
  <2>5. pc \in Loop
    BY <1>1 DEF Loop, AtController
  <2> QED
    BY <2>1, <2>2, <2>3, <2>4, <2>5, EnabledKept, FailureKept, QueueKept, PublishKept DEF SameCtrl, SameHw
<1>11. ASSUME NEW c \in Ctrl, c = cur
       PROVE  EnabledAt(c)' /\ FailureAt(c)' /\ QueueAt(c)' /\ PublishAt(c)'
  <2>1. ptr[c] = AdminPointers /\ ptr' = ptr /\ enabled'[c] /\ c = cur' /\ c \in Nat
    BY <1>1, <1>2, <1>4, <1>11 DEF MemoryInv
  <2>2. EnabledAt(c)'
    BY <1>1, <2>1 DEF EnabledAt, Untried, InInit, Opening, Loop, AtController
  <2>3. FailureAt(c)'
    BY <1>1, <1>2, <1>5, <1>11 DEF FailureAt
  <2>4. QueueAt(c)'
    <3>1. \A q, n : /\ <<"cq", q, n>> \notin late'[c]
                    /\ <<"sq", q, n>> \notin late'[c]
      BY <1>5, <1>11 DEF Identify
    <3> QED
      BY <1>5, <1>11, <3>1 DEF QueueAt
  <2>5. PublishAt(c)'
    BY <1>6, <1>11, <2>1 DEF PublishAt, Awaited
  <2> QED
    BY <2>2, <2>3, <2>4, <2>5
<1>12. ServedInv'
  <2>1. Lasting(cur)
    BY <1>2, <1>4, <1>5 DEF Lasting
  <2>2. \A d \in Ctrl : Lasting(d)
    BY <1>4, <2>1, SameLasts
  <2>3. pc \in Loop \cup {"loaded"}
    BY <1>1 DEF Loop, AtController
  <2>4. \A i \in DOMAIN global_units' :
          global_units'[i].queue_id \in Nsid /\ Served(global_units[i])'
    BY <1>1, <2>2, <2>3, ServedKept
  <2> QED
    BY <1>1, <2>4 DEF ServedInv
<1> QED
  BY <1>7, <1>10, <1>11, <1>12 DEF HwAll, EnabledInv, FailureInv, QueueInv, PublishInv

-----------------------------------------------------------------------------
(* The turns of the loop over the namespaces, as the controller sees them. *)

TurnCommands ==
  {Identify, <<"cq", QueueId, Head(ns)>>, <<"sq", QueueId, Head(ns)>>}

\* What a turn that may have sent cmd has done to its controller.
Within(cmd) ==
  /\ Lasting(cur)
  /\ \A q \in Nsid \ {QueueId} : /\ io_cq'[cur][q] = io_cq[cur][q]
                                 /\ io_sq'[cur][q] = io_sq[cur][q]
  /\ io_cq'[cur][QueueId] # io_cq[cur][QueueId] =>
       /\ cmd[1] = "cq" /\ io_cq[cur][QueueId] = 0
       /\ io_cq'[cur][QueueId] = Head(ns)
  /\ io_sq'[cur][QueueId] # io_sq[cur][QueueId] =>
       /\ cmd[1] = "sq" /\ io_cq[cur][QueueId] # 0
       /\ io_sq'[cur][QueueId] = Head(ns)
  /\ late'[cur] \subseteq late[cur] \cup {cmd}
  /\ late'[cur] # {} => lost'[cur]
  /\ lost'[cur] => cur \in broken'

LEMMA SameWithin ==
  ASSUME BringupInv, cur \in Ctrl, QueueId \in Nsid, SameHw(cur), broken \subseteq broken'
  PROVE  Within(Identify)
<1>1. FailureAt(cur) /\ Lasting(cur)
  BY SameLasts DEF BringupInv, FailureInv
<1> QED
  BY <1>1 DEF Within, SameHw, FailureAt

LEMMA TurnCommand ==
  ASSUME BringupInv, pc = "unit", step > 1, NEW cmd \in TurnCommands, NEW ok \in BOOLEAN,
         AdminCmd(cur, cmd, ok), cmd[1] = "sq" <=> step = 12
  PROVE  /\ Within(cmd)
         /\ ~ok => cur \in broken'
         /\ ok /\ ~lost'[cur] =>
              /\ UNCHANGED <<late, lost, broken>>
              /\ cmd[1] = "cq" => io_cq'[cur][QueueId] = Head(ns)
              /\ cmd[1] = "sq" => io_sq'[cur][QueueId] = Head(ns)
<1> DEFINE q == QueueId
           h == Head(ns)
<1>1. /\ cur \in Ctrl /\ q \in Nsid /\ h \in Nsid /\ h # 0 /\ HwTypes
      /\ cur \notin broken =>
           /\ ~lost[cur] /\ cur \notin abandoned
           /\ io_sq[cur][q] = 0 /\ (step # 12 => io_cq[cur][q] = 0)
           /\ step = 12 => io_cq[cur][q] = h
  BY Fresh, TypesAre
<1>2. FailureAt(cur)
  BY <1>1 DEF BringupInv, FailureInv
<1>3. /\ cmd \in Commands /\ cmd[1] \in {"identify", "cq", "sq"}
      /\ cmd[1] # "identify" => cmd[2] = q /\ cmd[3] = h
  BY <1>1, CommandIs DEF TurnCommands
<1> HIDE DEF q, h
<1>4. /\ Done(cur, cmd, ok) \/ Refused(cur, cmd, ok) \/ GivenUp(cur, cmd, ok)
      /\ broken \subseteq broken'
  BY <1>1, <1>3, Commanded
<1>5. cur \notin broken => Feasible(cur, cmd)
  BY <1>1, <1>3 DEF Feasible
<1>6. enabled' = enabled
  BY DEF AdminCmd
<1>7. CASE Done(cur, cmd, ok)
  <2>1. /\ \A p \in Nsid :
             /\ io_cq'[cur][p] = IF cmd[1] = "cq" /\ p = cmd[2] THEN cmd[3] ELSE io_cq[cur][p]
             /\ io_sq'[cur][p] = IF cmd[1] = "sq" /\ p = cmd[2] THEN cmd[3] ELSE io_sq[cur][p]
        /\ Feasible(cur, cmd) /\ (ok \/ lost[cur])
        /\ UNCHANGED <<late, lost, broken>>
    BY <1>1, <1>3, <1>7, Carried DEF Done
  <2>2. \A p \in Nsid :
          /\ io_cq[cur][p] # 0 => io_cq'[cur][p] = io_cq[cur][p]
          /\ io_sq[cur][p] # 0 => io_sq'[cur][p] = io_sq[cur][p]
    BY <2>1 DEF Feasible
  <2>3. Lasting(cur)
    BY <1>6, <2>1, <2>2 DEF Lasting
  <2>4. /\ io_cq'[cur][q] # io_cq[cur][q] =>
             cmd[1] = "cq" /\ io_cq[cur][q] = 0 /\ io_cq'[cur][q] = h
        /\ io_sq'[cur][q] # io_sq[cur][q] =>
             cmd[1] = "sq" /\ io_cq[cur][q] # 0 /\ io_sq'[cur][q] = h
        /\ cmd[1] = "cq" => io_cq'[cur][q] = h
        /\ cmd[1] = "sq" => io_sq'[cur][q] = h
    BY <1>1, <1>3, <2>1 DEF Feasible
  <2>5. \A p \in Nsid \ {q} : io_cq'[cur][p] = io_cq[cur][p] /\ io_sq'[cur][p] = io_sq[cur][p]
    BY <1>3, <2>1
  <2>6. ~ok => cur \in broken'
    BY <1>2, <1>4, <2>1 DEF FailureAt
  <2>7. Within(cmd)
    BY <1>2, <2>1, <2>3, <2>4, <2>5 DEF Within, FailureAt, q, h
  <2> QED
    BY <2>1, <2>4, <2>6, <2>7 DEF q, h
<1>8. CASE Refused(cur, cmd, ok)
  <2>1. /\ UNCHANGED <<io_cq, io_sq, late, lost>> /\ cur \in broken'
        /\ ok => lost'[cur]
    BY <1>1, <1>2, <1>4, <1>5, <1>8 DEF Refused, FailureAt
  <2>2. Within(cmd)
    BY <1>2, <1>6, <2>1 DEF Within, Lasting, FailureAt
  <2> QED
    BY <2>1, <2>2
<1>9. CASE GivenUp(cur, cmd, ok)
  <2>1. /\ UNCHANGED <<io_cq, io_sq>> /\ cur \in broken' /\ lost'[cur]
        /\ late'[cur] = late[cur] \cup {cmd}
    BY <1>2, <1>4, <1>9 DEF GivenUp, FailureAt
  <2>2. Within(cmd)
    BY <1>6, <2>1 DEF Within, Lasting
  <2> QED
    BY <2>1, <2>2
<1> QED
  BY <1>4, <1>7, <1>8, <1>9

\* Whose the queues are after a turn.
LEMMA TurnQueues ==
  ASSUME BringupInv, pc = "unit", step > 1 \/ ns # <<>>, UNCHANGED cur, enabled' = enabled,
         abandoned \subseteq abandoned', NEW cmd \in TurnCommands, Within(cmd),
         NEW c, NEW k, NEW h, c = cur, k = QueueId, h = Head(ns),
         \A q, n \in Nsid : UnitOwns(c, q, n) => UnitOwns(c, q, n)',
         \/ UnitOwns(c, k, h)'
         \/ Creating(c, k, h)' /\ cmd[1] # "sq" /\ step # 12
         \/ c \notin abandoned' => /\ io_cq'[c][k] # h
                                   /\ \A x \in late'[c] : x[3] # h
         \/ cmd = Identify /\ step # 12
  PROVE  QueueAt(c)'
<1>1. /\ c \in Ctrl /\ k \in Nsid /\ h \in Nsid /\ h # 0 /\ enabled[c]
      /\ c \notin abandoned =>
           /\ io_sq[c][k] = 0
           /\ step # 12 => io_cq[c][k] = 0
           /\ io_cq[c][k] \in {0, h}
  BY Fresh
<1>2. QueueAt(c)
  BY <1>1 DEF BringupInv, QueueInv
<1>3. /\ \A q \in Nsid \ {k} : io_cq'[c][q] = io_cq[c][q] /\ io_sq'[c][q] = io_sq[c][q]
      /\ io_cq'[c][k] # io_cq[c][k] =>
           cmd[1] = "cq" /\ io_cq[c][k] = 0 /\ io_cq'[c][k] = h
      /\ io_sq'[c][k] # io_sq[c][k] =>
           cmd[1] = "sq" /\ io_cq[c][k] # 0 /\ io_sq'[c][k] = h
      /\ late'[c] \subseteq late[c] \cup {cmd}
      /\ \A q \in Nsid : io_cq[c][q] # 0 => io_cq'[c][q] # 0
  BY DEF Within, Lasting
<1>4. \A q, n : Creating(c, q, n) => step = 12 /\ q = k /\ n = h
  BY DEF Creating
<1>5. /\ cmd = Identify => cmd[1] # "cq" /\ cmd[1] # "sq"
      /\ cmd # Identify => cmd[2] = k /\ cmd[3] = h /\ cmd = <<cmd[1], k, h>>
      /\ \A x \in {"cq", "sq"} : \A q, n : /\ <<x, q, n>>[1] = x /\ <<x, q, n>>[2] = q
                                       /\ <<x, q, n>>[3] = n /\ <<x, q, n>> # Identify
  BY DEF TurnCommands, Identify
<1>6. io_cq \in QueueTables /\ io_sq \in QueueTables
  BY TypesAre DEF HwTypes
<1> SUFFICES ASSUME NEW q \in Nsid
             PROVE  /\ io_sq'[c][q] # 0 => io_cq'[c][q] # 0
                    /\ enabled'[c] /\ c \notin abandoned' =>
                         /\ io_cq'[c][q] # 0 =>
                              UnitOwns(c, q, io_cq[c][q])' \/ Creating(c, q, io_cq[c][q])'
                         /\ io_sq'[c][q] # 0 => UnitOwns(c, q, io_sq[c][q])'
                         /\ \A n \in Nsid :
                              /\ <<"cq", q, n>> \in late'[c] =>
                                   UnitOwns(c, q, n)' \/ Creating(c, q, n)'
                              /\ <<"sq", q, n>> \in late'[c] => UnitOwns(c, q, n)'
  BY DEF QueueAt
<1>7. io_sq'[c][q] # 0 => io_cq'[c][q] # 0
  BY <1>2, <1>3 DEF QueueAt
<1>8. CASE c \notin abandoned'
  <2>0. c \notin abandoned
    BY <1>8
  <2>1. /\ io_cq[c][q] # 0 => UnitOwns(c, q, io_cq[c][q]) \/ Creating(c, q, io_cq[c][q])
        /\ io_sq[c][q] # 0 => UnitOwns(c, q, io_sq[c][q])
        /\ \A n \in Nsid :
             /\ <<"cq", q, n>> \in late[c] => UnitOwns(c, q, n) \/ Creating(c, q, n)
             /\ <<"sq", q, n>> \in late[c] => UnitOwns(c, q, n)
    BY <1>1, <1>2, <2>0 DEF QueueAt
  <2>2. /\ io_cq[c][q] # 0 => io_cq[c][q] \in Nsid
        /\ io_sq[c][q] # 0 => io_sq[c][q] \in Nsid
    BY <1>1, <1>6, Numbers DEF QueueTables, Nsid
  <2>3. io_cq'[c][k] \in {0, h} /\ (io_sq'[c][k] # 0 => io_sq'[c][k] = h /\ io_cq[c][k] = h
                                                    /\ io_cq'[c][k] = h /\ cmd[1] = "sq")
    <3>1. cmd[1] = "sq" => cmd[1] # "cq"
      OBVIOUS
    <3> QED
      BY <1>1, <1>3, <2>0, <3>1
  <2> DEFINE Own(n) == UnitOwns(c, q, n)'
             Cre(n) == Creating(c, q, n)'
  <2>4. ASSUME NEW n, n = io_cq'[c][q], n # 0
        PROVE  UnitOwns(c, q, n)' \/ Creating(c, q, n)'
    <3>1. CASE q # k
      <4>1. UnitOwns(c, q, n) /\ n \in Nsid
        BY <1>3, <1>4, <2>1, <2>2, <2>4, <3>1
      <4> QED
        BY <4>1
    <3>2. CASE q = k
      <4>1. n = h
        BY <2>3, <2>4, <3>2
      <4>2. ~(cmd = Identify /\ step # 12)
        BY <1>1, <1>3, <1>5, <2>0, <2>4, <3>2
      <4> QED
        BY <1>8, <2>4, <3>2, <4>1, <4>2
    <3> QED
      BY <3>1, <3>2
  <2>5. ASSUME NEW n, n = io_sq'[c][q], n # 0
        PROVE  UnitOwns(c, q, n)'
    <3>1. CASE q # k
      <4>1. UnitOwns(c, q, n) /\ n \in Nsid
        BY <1>3, <2>1, <2>2, <2>5, <3>1
      <4> QED
        BY <4>1
    <3>2. CASE q = k
      BY <1>5, <1>8, <2>3, <2>5, <3>2
    <3> QED
      BY <3>1, <3>2
  <2>6. ASSUME NEW n \in Nsid, <<"cq", q, n>> \in late'[c]
        PROVE  UnitOwns(c, q, n)' \/ Creating(c, q, n)'
    <3>1. CASE UnitOwns(c, q, n)
      BY <3>1
    <3>2. CASE ~UnitOwns(c, q, n)
      <4> DEFINE x == <<"cq", q, n>>
      <4>1. x[1] = "cq" /\ x[2] = q /\ x[3] = n /\ x # Identify /\ x \in late'[c]
        BY <1>5, <2>6
      <4>2. x \in late[c] => q = k /\ n = h /\ step = 12
        <5>1. x \in late[c] => Creating(c, q, n)
          BY <2>1, <3>2
        <5>2. Creating(c, q, n) => q = k /\ n = h /\ step = 12
          BY <1>4
        <5> QED
          BY <5>1, <5>2
      <4> HIDE DEF x
      <4>3. q = k /\ n = h /\ (cmd = Identify => step = 12)
        BY <1>3, <1>5, <4>1, <4>2
      <4> QED
        BY <1>8, <4>1, <4>3
    <3> QED
      BY <3>1, <3>2
  <2>7. ASSUME NEW n \in Nsid, <<"sq", q, n>> \in late'[c]
        PROVE  UnitOwns(c, q, n)'
    <3>1. CASE UnitOwns(c, q, n)
      BY <3>1
    <3>2. CASE ~UnitOwns(c, q, n)
      <4> DEFINE x == <<"sq", q, n>>
      <4>1. x[1] = "sq" /\ x[2] = q /\ x[3] = n /\ x # Identify /\ x \in late'[c]
        BY <1>5, <2>7
      <4>2. x \in late[c] => FALSE
        BY <1>4, <2>1, <3>2
      <4> HIDE DEF x
      <4>3. q = k /\ n = h /\ cmd # Identify /\ cmd[1] = "sq"
        BY <1>3, <1>5, <4>1, <4>2
      <4> QED
        BY <1>8, <4>1, <4>3
    <3> QED
      BY <3>1, <3>2
  <2>8. io_cq'[c][q] # 0 => UnitOwns(c, q, io_cq[c][q])' \/ Creating(c, q, io_cq[c][q])'
    BY <2>4 DEF UnitOwns, Creating
  <2>9. io_sq'[c][q] # 0 => UnitOwns(c, q, io_sq[c][q])'
    BY <2>5 DEF UnitOwns
  <2> QED
    BY <1>7, <2>6, <2>7, <2>8, <2>9
<1> QED
  BY <1>7, <1>8

\* The place of the loader, its table and the failures after a turn.
TurnGoes ==
  \/ pc' = "bring" /\ ns = <<>>
  \/ UNCHANGED <<pc, ns>> /\ step # 12 /\ step' # 12

\* A turn that sends no command.
QuietTurn ==
  /\ UNCHANGED <<enabled, io_cq, io_sq, late, lost>>
  /\ broken \subseteq broken' /\ broken' \subseteq broken \cup {cur}
  /\ faults' \in 0 .. MaxFaults

LEMMA HwTurns ==
  ASSUME BringupInv, [Next]_vars, pc = "unit", DiscoverUnits
  PROVE  /\ UNCHANGED <<cur, num_controllers, ptr>> /\ step \in 1 .. 12
         /\ \/ /\ QuietTurn /\ TurnGoes /\ UNCHANGED <<global_units, abandoned, nsids>>
            \/ /\ step = 2 /\ AdminCmd(cur, Identify, TRUE)
               /\ TurnGoes /\ UNCHANGED <<global_units, abandoned, nsids>>
            \/ /\ step = 11 /\ AdminCmd(cur, <<"cq", QueueId, Head(ns)>>, TRUE)
               /\ step' = 12 /\ UNCHANGED <<pc, ns, global_units, abandoned, nsids>>
            \/ /\ step = 12 /\ AdminCmd(cur, <<"sq", QueueId, Head(ns)>>, TRUE)
               /\ Register(QueueId) /\ NextNamespace /\ UNCHANGED <<pc, abandoned, nsids>>
            \/ /\ DropNamespace /\ UNCHANGED <<pc, global_units>> /\ ns # <<>>
               /\ \/ QuietTurn /\ cur \in broken' /\ UNCHANGED nsids
                  \/ /\ step = 2 /\ AdminCmd(cur, Identify, TRUE)
                     /\ nsids' = [nsids EXCEPT ![cur] = @ \ {Head(ns)}]
                  \/ step = 2 /\ AdminCmd(cur, Identify, FALSE) /\ UNCHANGED nsids
                  \/ /\ step = 11 /\ AdminCmd(cur, <<"cq", QueueId, Head(ns)>>, FALSE)
                     /\ UNCHANGED nsids
                  \/ /\ step = 12 /\ AdminCmd(cur, <<"sq", QueueId, Head(ns)>>, FALSE)
                     /\ UNCHANGED nsids
<1>1. /\ TypeOK /\ PlaceInv /\ TurnInv /\ RoomInv /\ HwTypes /\ step \in 1 .. 12
      /\ cur \in Ctrl /\ MaxFaults \in Nat /\ (step > 1 => ns # <<>>)
  <2>1. TypeOK /\ PlaceInv /\ TurnInv /\ RoomInv /\ HwTypes
    BY TypesAre DEF BringupInv
  <2>2. step \in 1 .. 12 /\ (step > 1 => ns # <<>>)
    BY <2>1, InitStepsAre DEF TypeOK, PlaceInv, TurnInv
  <2>3. cur \in Ctrl /\ MaxFaults \in Nat
    BY <2>1, Current, Numbers DEF AtController
  <2> QED
    BY <2>1, <2>2, <2>3
<1>2. /\ UNCHANGED <<cur, num_controllers, ptr>>
      /\ \/ EndOfNamespaces
         \/ /\ UNCHANGED <<pc, ctrls_up>>
            /\ \/ UnitAcquires \/ UnitAllocFails \/ UnitChecks \/ UnitIdentifies
               \/ CreateIOCQ \/ CreateIOSQ
  BY DEF DiscoverUnits, ListNamespaces, libVars, ctrlVars
<1>3. /\ UNCHANGED <<hwVars, faults, broken>> => QuietTurn
      /\ UNCHANGED hwVars /\ Failure(cur) => QuietTurn /\ cur \in broken'
  BY <1>1 DEF QuietTurn, hwVars, HwTypes, Failure, Fault
<1>4. CASE EndOfNamespaces
  <2>1. ns = <<>>
    <3>1. CASE TableFull
      <4>1. /\ Len(global_units) >= MaxGlobalUnits
            /\ Len(global_units) + Len(ns) <= cur * MaxNamespaces
        BY <1>1, <3>1 DEF TableFull, RoomInv, Loop, AtController, Reserved
      <4>2. /\ cur * MaxNamespaces <= MaxGlobalUnits
            /\ cur * MaxNamespaces \in Nat /\ MaxGlobalUnits \in Nat
        BY <1>1, Numbers DEF Ctrl
      <4> DEFINE P == cur * MaxNamespaces
      <4> HIDE DEF P
      <4>3. Len(global_units) \in Nat /\ Len(ns) \in Nat /\ ns \in Seq(Nsid)
        BY <1>1, TableEntries DEF TypeOK
      <4>4. Len(ns) = 0
        BY <4>1, <4>2, <4>3 DEF P
      <4> QED
        BY <4>3, <4>4
    <3>2. CASE ~TableFull
      BY <1>4, <3>2 DEF EndOfNamespaces
    <3> QED
      BY <3>1, <3>2
  <2>2. pc' = "bring" /\ UNCHANGED <<hwVars, faults, broken, global_units, abandoned, nsids>>
    BY <1>4 DEF EndOfNamespaces, DiscoverUnitsReturns, Goto
  <2> QED
    BY <1>1, <1>2, <1>3, <2>1, <2>2 DEF TurnGoes
<1>5. CASE UNCHANGED pc /\ UnitAcquires
  <2>1. step \in {1, 3, 4, 6, 7, 8, 9} /\ step' = step + 1
    BY <1>1, <1>5, StepNumbers DEF UnitAcquires, Proceed
  <2>2. UNCHANGED <<ns, hwVars, faults, broken, global_units, abandoned, nsids>>
    BY <1>5 DEF UnitAcquires, Proceed
  <2>3. TurnGoes /\ QuietTurn
    BY <1>3, <1>5, <2>1, <2>2 DEF TurnGoes
  <2> QED
    BY <1>1, <1>2, <2>2, <2>3
<1>6. CASE UNCHANGED pc /\ UnitAllocFails
  <2>1. /\ step \in {1, 3, 4, 6, 7, 8, 9} /\ ns # <<>>
        /\ UnitStep \in IfThere <=> step \in {3, 4, 7, 9}
    BY <1>1, <1>6, StepNumbers DEF UnitAllocFails
  <2>2. /\ UNCHANGED hwVars /\ Failure(cur) /\ UNCHANGED <<global_units, nsids>>
        /\ IF UnitStep \in IfThere THEN Proceed /\ UNCHANGED abandoned ELSE DropNamespace
    BY <1>6 DEF UnitAllocFails
  <2>3. CASE UnitStep \in IfThere
    <3>1. TurnGoes
      BY <1>6, <2>1, <2>2, <2>3 DEF TurnGoes, Proceed
    <3> QED
      BY <1>1, <1>2, <1>3, <2>2, <2>3, <3>1
  <2>4. CASE UnitStep \notin IfThere
    BY <1>1, <1>2, <1>3, <1>6, <2>1, <2>2, <2>4
  <2> QED
    BY <2>3, <2>4
<1>7. CASE UNCHANGED pc /\ UnitChecks
  <2>1. /\ UNCHANGED <<hwVars, global_units, nsids, faults, broken>>
        /\ UnitStep \in {"queues", "entries"}
    BY <1>7 DEF UnitChecks
  <2>2. /\ UnitStep = "queues" <=> step = 5
        /\ UnitStep = "entries" <=> step = 10
    BY <1>1, StepNumbers
  <2>3. step \in {5, 10} /\ ns # <<>>
    BY <1>1, <2>1, <2>2
  <2> DEFINE Need == IF UnitStep = "queues" THEN {"io_sq", "io_cq"} ELSE UnitEntries
  <2>4. CASE Need \subseteq local
    <3>1. Proceed /\ UNCHANGED abandoned
      BY <1>7, <2>4 DEF UnitChecks
    <3>2. TurnGoes /\ QuietTurn
      BY <1>3, <1>7, <2>1, <2>3, <3>1 DEF TurnGoes, Proceed
    <3> QED
      BY <1>1, <1>2, <2>1, <3>1, <3>2
  <2>5. CASE ~(Need \subseteq local)
    <3>1. DropNamespace
      BY <1>7, <2>5 DEF UnitChecks
    <3>2. Need \subseteq Passed(step)
      BY <2>2, <2>3, PassedIs
    <3>3. cur \in broken
      BY <1>1, <2>5, <3>2 DEF TurnInv
    <3> QED
      BY <1>1, <1>2, <1>3, <1>7, <2>1, <2>3, <3>1, <3>3
  <2> QED
    BY <2>4, <2>5
<1>8. CASE UNCHANGED pc /\ UnitIdentifies
  <2>1. step = 2 /\ ns # <<>> /\ UNCHANGED global_units
    BY <1>1, <1>8, StepNumbers DEF UnitIdentifies
  <2>2. \/ AdminCmd(cur, Identify, TRUE) /\ Proceed /\ UNCHANGED <<abandoned, nsids>>
        \/ /\ AdminCmd(cur, Identify, TRUE) /\ DropNamespace
           /\ nsids' = [nsids EXCEPT ![cur] = @ \ {Head(ns)}]
        \/ AdminCmd(cur, Identify, FALSE) /\ DropNamespace /\ UNCHANGED nsids
    BY <1>8 DEF UnitIdentifies
  <2>3. Proceed => TurnGoes
    BY <1>8, <2>1 DEF Proceed, TurnGoes
  <2> QED
    BY <1>1, <1>2, <1>8, <2>1, <2>2, <2>3
<1>9. CASE UNCHANGED pc /\ CreateIOCQ
  <2>1. step = 11 /\ ns # <<>> /\ UNCHANGED <<global_units, nsids>>
    BY <1>1, <1>9, StepNumbers DEF CreateIOCQ
  <2>2. \/ /\ AdminCmd(cur, <<"cq", QueueId, Head(ns)>>, TRUE)
           /\ Proceed /\ UNCHANGED abandoned
        \/ AdminCmd(cur, <<"cq", QueueId, Head(ns)>>, FALSE) /\ DropNamespace
    BY <1>9 DEF CreateIOCQ
  <2>3. Proceed => step' = 12 /\ UNCHANGED ns
    BY <2>1 DEF Proceed
  <2> QED
    BY <1>1, <1>2, <1>9, <2>1, <2>2, <2>3
<1>10. CASE UNCHANGED pc /\ CreateIOSQ
  <2>1. step = 12 /\ ns # <<>> /\ UNCHANGED nsids
    BY <1>1, <1>10, StepNumbers DEF CreateIOSQ
  <2>2. \/ /\ AdminCmd(cur, <<"sq", QueueId, Head(ns)>>, TRUE)
           /\ Register(QueueId) /\ NextNamespace /\ UNCHANGED abandoned
        \/ /\ AdminCmd(cur, <<"sq", QueueId, Head(ns)>>, FALSE) /\ DropNamespace
           /\ UNCHANGED global_units
    BY <1>10 DEF CreateIOSQ
  <2> QED
    BY <1>1, <1>2, <1>10, <2>1, <2>2
<1> QED
  BY <1>2, <1>4, <1>5, <1>6, <1>7, <1>8, <1>9, <1>10

LEMMA AwaitedTail ==
  ASSUME ns \in Seq(Nsid), ns # <<>>, ns' = Tail(ns)
  PROVE  {ns[k] : k \in DOMAIN ns} \subseteq {Head(ns)} \cup {ns'[k] : k \in DOMAIN ns'}
<1> SUFFICES ASSUME NEW k \in DOMAIN ns, k # 1
             PROVE  \E j \in DOMAIN Tail(ns) : Tail(ns)[j] = ns[k]
  <2>1. Head(ns) = ns[1]
    BY TailIs
  <2> QED
    BY <2>1
<1>1. k \in 1 .. Len(ns) /\ Len(ns) \in Nat
  OBVIOUS
<1>2. k - 1 \in DOMAIN Tail(ns) /\ Tail(ns)[k - 1] = ns[k]
  BY <1>1
<1> QED
  BY <1>2

\* The table only grows.
UnitsStay == \A i \in DOMAIN global_units :
               i \in DOMAIN global_units' /\ global_units'[i] = global_units[i]

LEMMA UnitsStayOwned ==
  ASSUME UnitsStay, NEW c
  PROVE  /\ \A q, n : UnitOwns(c, q, n) => UnitOwns(c, q, n)'
         /\ Listed(c) \subseteq Listed(c)'
  BY DEF UnitsStay, UnitOwns, Listed, UnitsOf

\* What a turn has done to its controller, and what it finds.
TurnDone ==
  /\ HwTypes' /\ UnitsStay /\ enabled' = enabled /\ pc' \in {"unit", "bring"}
  /\ \A d \in Ctrl \ {cur} : SameCtrl(d)
  /\ Lasting(cur)
  /\ late'[cur] # {} => lost'[cur]
  /\ lost'[cur] => cur \in broken'
  /\ cur \in abandoned' => cur \in broken'
  /\ pc' = "unit" /\ step' = 12 =>
       /\ UNCHANGED <<ns, global_units>>
       /\ lost'[cur] \/ io_cq'[cur][QueueId] = Head(ns)
TurnListed(c) == QueueAt(c)' /\ PublishAt(c)'

LEMMA QuietTurnDone ==
  ASSUME BringupInv, pc = "unit", UNCHANGED <<cur, num_controllers>>,
         QuietTurn, TurnGoes, UNCHANGED <<global_units, abandoned, nsids>>,
         NEW c \in Ctrl, c = cur
  PROVE  TurnDone /\ TurnListed(c)
<1>1. /\ HwTypes /\ FailureAt(c) /\ TurnInv /\ step \in Nat
      /\ UNCHANGED <<enabled, io_cq, io_sq, late, lost>>
      /\ broken \subseteq broken' /\ broken' \subseteq broken \cup {cur}
      /\ faults' \in 0 .. MaxFaults
  <2>1. HwTypes /\ FailureAt(c) /\ TurnInv /\ TypeOK
    BY TypesAre DEF BringupInv, FailureInv
  <2>2. step \in Nat
    BY <2>1, InitStepsAre DEF TypeOK
  <2> QED
    BY <2>1, <2>2 DEF QuietTurn
<1>2. \A d \in Ctrl : SameHw(d) /\ (d # cur => SameCtrl(d))
  BY <1>1 DEF SameHw, SameCtrl
<1>3. HwTypes' /\ UnitsStay
  BY <1>1 DEF HwTypes, UnitsStay
<1>4. /\ pc' \in {"unit", "bring"} /\ ~(pc' = "unit" /\ step' = 12) /\ step # 12
      /\ Awaited(c) \subseteq Awaited(c)'
  <2>1. CASE pc' = "bring" /\ ns = <<>>
    BY <1>1, <2>1 DEF Awaited, TurnInv
  <2>2. CASE UNCHANGED <<pc, ns>> /\ step # 12 /\ step' # 12
    BY <2>2 DEF Awaited
  <2> QED
    BY <2>1, <2>2 DEF TurnGoes
<1>5. TurnDone
  BY <1>1, <1>2, <1>3, <1>4, SameLasts DEF TurnDone, FailureAt, Loop, AtController
<1>6. QueueAt(c)'
  <2>1. \A q, n \in Nsid : ~Creating(c, q, n)
    BY <1>4 DEF Creating
  <2> QED
    BY <1>2, <1>3, <2>1, UnitsStayOwned, QueueKept
<1>7. PublishAt(c)'
  <2>1. Tried(c)' => Tried(c)
    BY <1>4 DEF Tried
  <2> QED
    BY <1>1, <1>3, <1>4, <2>1, UnitsStayOwned, PublishKept
<1> QED
  BY <1>5, <1>6, <1>7 DEF TurnListed

\* The commands a turn may send.
LEMMA TurnSends ==
  ASSUME BringupInv, pc = "unit", step > 1, NEW cmd \in TurnCommands, NEW ok \in BOOLEAN,
         AdminCmd(cur, cmd, ok)
  PROVE  /\ io_cq' \in QueueTables /\ io_sq' \in QueueTables
         /\ late' \in [Ctrl -> SUBSET Commands] /\ lost' \in [Ctrl -> BOOLEAN]
         /\ faults' \in 0 .. MaxFaults
         /\ broken \subseteq broken' /\ broken' \subseteq broken \cup {cur}
         /\ enabled' = enabled
         /\ \A d \in Ctrl \ {cur} : SameHw(d)
<1>1. cur \in Ctrl /\ QueueId \in Nsid /\ Head(ns) \in Nsid
  BY Fresh
<1>2. cmd \in Commands
  BY <1>1, CommandIs DEF TurnCommands
<1> QED
  BY <1>1, <1>2, Commanded

LEMMA TurnCommandsAre ==
  /\ Identify \in TurnCommands /\ Identify[1] = "identify"
  /\ <<"cq", QueueId, Head(ns)>> \in TurnCommands
  /\ <<"sq", QueueId, Head(ns)>> \in TurnCommands
  /\ <<"cq", QueueId, Head(ns)>>[1] = "cq" /\ <<"sq", QueueId, Head(ns)>>[1] = "sq"
  BY DEF TurnCommands, Identify

\* A turn whose command succeeds and that goes on.
LEMMA SentTurnDone ==
  ASSUME BringupInv, pc = "unit", UNCHANGED <<cur, num_controllers>>,
         NEW cmd \in TurnCommands, AdminCmd(cur, cmd, TRUE),
         \/ step = 2 /\ cmd = Identify /\ TurnGoes
         \/ /\ step = 11 /\ cmd = <<"cq", QueueId, Head(ns)>>
            /\ step' = 12 /\ UNCHANGED <<pc, ns>>,
         UNCHANGED <<global_units, abandoned, nsids>>,
         NEW c \in Ctrl, c = cur
  PROVE  TurnDone /\ TurnListed(c)
<1>1. /\ HwTypes /\ FailureAt(c) /\ TurnInv /\ step > 1 /\ step \in {2, 11}
      /\ cmd[1] # "sq" /\ ns # <<>>
  BY TypesAre, TurnCommandsAre DEF BringupInv, FailureInv, TurnInv
<1>2. /\ Within(cmd)
      /\ ~lost'[cur] /\ cmd[1] = "cq" => io_cq'[cur][QueueId] = Head(ns)
  <2>1. cmd[1] = "sq" <=> step = 12
    BY <1>1
  <2>2. step > 1 /\ TRUE \in BOOLEAN
    BY <1>1
  <2> QED
    BY <2>1, <2>2, TurnCommand
<1>3. /\ io_cq' \in QueueTables /\ io_sq' \in QueueTables
      /\ late' \in [Ctrl -> SUBSET Commands] /\ lost' \in [Ctrl -> BOOLEAN]
      /\ faults' \in 0 .. MaxFaults
      /\ broken \subseteq broken' /\ broken' \subseteq broken \cup {cur}
      /\ enabled' = enabled
      /\ \A d \in Ctrl \ {cur} : SameHw(d)
  BY <1>1, TurnSends
<1>4. HwTypes' /\ UnitsStay /\ \A d \in Ctrl \ {cur} : SameCtrl(d)
  BY <1>1, <1>3 DEF HwTypes, UnitsStay, SameCtrl
<1>5. UNCHANGED <<pc, ns>> /\ (step' = 12 => cmd[1] = "cq")
  BY <1>1, TurnCommandsAre DEF TurnGoes
<1>6. TurnDone
  BY <1>1, <1>2, <1>3, <1>4, <1>5 DEF TurnDone, Within, FailureAt, Loop, AtController
<1>7. QueueAt(c)'
  <2>1. \A q, n \in Nsid : UnitOwns(c, q, n) => UnitOwns(c, q, n)'
    BY <1>4, UnitsStayOwned
  <2>2. step # 12
    BY <1>1
  <2>3. ASSUME NEW k, NEW h, k = QueueId, h = Head(ns)
        PROVE  Creating(c, k, h)' \/ cmd = Identify
    BY <1>5, <2>3 DEF Creating, QueueId, UnitsOf
  <2>4. ASSUME NEW k, NEW h, k = QueueId, h = Head(ns)
        PROVE  QueueAt(c)'
    BY <1>1, <1>2, <1>3, <2>1, <2>2, <2>3, <2>4, TurnQueues
  <2> QED
    BY <2>4
<1>8. PublishAt(c)'
  <2>1. (Tried(c)' => Tried(c)) /\ Awaited(c) = Awaited(c)'
    BY <1>5 DEF Tried, Awaited
  <2> QED
    BY <1>3, <1>4, <2>1, UnitsStayOwned, PublishKept
<1> QED
  BY <1>6, <1>7, <1>8 DEF TurnListed

\* A unit is announced.
LEMMA RegisteredTurnDone ==
  ASSUME BringupInv, pc = "unit", UNCHANGED <<pc, cur, num_controllers>>, step = 12,
         AdminCmd(cur, <<"sq", QueueId, Head(ns)>>, TRUE),
         Register(QueueId), NextNamespace, UNCHANGED <<abandoned, nsids>>,
         NEW c \in Ctrl, c = cur
  PROVE  /\ TurnDone /\ TurnListed(c)
         /\ QueueId \in Nsid
         /\ LET u == [ctrl |-> cur, nsid |-> Head(ns), queue_id |-> QueueId]
            IN /\ \A i \in DOMAIN global_units' \ DOMAIN global_units : global_units'[i] = u
               /\ \/ lost'[cur]
                  \/ /\ enabled'[cur] /\ io_cq'[cur][QueueId] = Head(ns)
                     /\ io_sq'[cur][QueueId] = Head(ns)
<1> DEFINE cmd == <<"sq", QueueId, Head(ns)>>
           u == [ctrl |-> cur, nsid |-> Head(ns), queue_id |-> QueueId]
<1>0. cmd \in TurnCommands /\ cmd[1] = "sq" /\ AdminCmd(cur, cmd, TRUE)
  BY TurnCommandsAre
<1> HIDE DEF cmd
<1>1. /\ HwTypes /\ FailureAt(c) /\ TypeOK /\ TurnInv /\ step > 1
      /\ cur \in Ctrl /\ ns # <<>> /\ ns \in Seq(Nsid) /\ ns' = Tail(ns) /\ step' = 1
      /\ lost[cur] \/ io_cq[cur][QueueId] = Head(ns)
  <2>1. HwTypes /\ FailureAt(c) /\ TypeOK /\ TurnInv /\ ServedInv /\ step > 1
    BY TypesAre DEF BringupInv, FailureInv
  <2>2. cur \in Ctrl /\ ns # <<>> /\ ns \in Seq(Nsid)
    BY <2>1 DEF TypeOK, TurnInv
  <2> QED
    BY <2>1, <2>2 DEF ServedInv, NextNamespace
<1>2. /\ Within(cmd)
      /\ ~lost'[cur] => io_sq'[cur][QueueId] = Head(ns)
  BY <1>0, <1>1, TurnCommand
<1>3. /\ io_cq' \in QueueTables /\ io_sq' \in QueueTables
      /\ late' \in [Ctrl -> SUBSET Commands] /\ lost' \in [Ctrl -> BOOLEAN]
      /\ faults' \in 0 .. MaxFaults
      /\ broken \subseteq broken' /\ broken' \subseteq broken \cup {cur}
      /\ enabled' = enabled
      /\ \A d \in Ctrl \ {cur} : SameHw(d)
  BY <1>0, <1>1, TurnSends
<1>4. /\ Len(global_units') \in DOMAIN global_units'
      /\ DOMAIN global_units' \ DOMAIN global_units = {Len(global_units')}
      /\ \A i \in DOMAIN global_units : i \in DOMAIN global_units' /\ global_units'[i] = global_units[i]
      /\ global_units'[Len(global_units')] = u
      /\ UnitsOf(c)' = UnitsOf(c) \cup {Len(global_units')}
  BY <1>1, Registered
<1>5. HwTypes' /\ UnitsStay /\ \A d \in Ctrl \ {cur} : SameCtrl(d)
  BY <1>1, <1>3, <1>4 DEF HwTypes, UnitsStay, SameCtrl
<1>6. TurnDone
  BY <1>1, <1>2, <1>3, <1>5 DEF TurnDone, Within, FailureAt, Loop, AtController
<1>7. QueueId \in Nsid /\ Head(ns) # 0 /\ enabled[cur]
  BY <1>1, Fresh
<1>8. \/ lost'[cur]
      \/ /\ enabled'[cur] /\ io_cq'[cur][QueueId] = Head(ns)
         /\ io_sq'[cur][QueueId] = Head(ns)
  BY <1>1, <1>2, <1>3, <1>7 DEF Within, Lasting
<1>9. QueueAt(c)'
  <2>1. \A q, n \in Nsid : UnitOwns(c, q, n) => UnitOwns(c, q, n)'
    BY <1>5, UnitsStayOwned
  <2>2. ASSUME NEW k, NEW h, k = QueueId, h = Head(ns)
        PROVE  UnitOwns(c, k, h)'
    BY <1>4, <2>2 DEF UnitOwns
  <2>3. ASSUME NEW k, NEW h, k = QueueId, h = Head(ns)
        PROVE  QueueAt(c)'
    BY <1>0, <1>1, <1>2, <1>3, <2>1, <2>2, <2>3, TurnQueues
  <2> QED
    BY <2>3
<1>10. PublishAt(c)'
  <2>1. Tried(c)' => Tried(c)
    BY DEF Tried
  <2>2. Awaited(c) \subseteq {Head(ns)} \cup Awaited(c)'
    BY <1>1, AwaitedTail DEF Awaited
  <2>3. Head(ns) \in Listed(c)'
    <3>1. u.nsid = Head(ns)
      OBVIOUS
    <3> HIDE DEF u
    <3> QED
      BY <1>4, <3>1 DEF Listed
  <2>4. Listed(c) \subseteq Listed(c)'
    BY <1>5, UnitsStayOwned
  <2>5. PublishAt(c)
    BY DEF BringupInv, PublishInv
  <2> QED
    BY <1>3, <2>1, <2>2, <2>3, <2>4, <2>5 DEF PublishAt
<1> QED
  BY <1>4, <1>6, <1>7, <1>8, <1>9, <1>10 DEF TurnListed

\* A namespace is given up, because something has failed or it has no capacity.
LEMMA DroppedTurnDone ==
  ASSUME BringupInv, pc = "unit", UNCHANGED <<pc, cur, num_controllers, global_units>>,
         DropNamespace, ns # <<>>,
         \/ QuietTurn /\ cur \in broken' /\ UNCHANGED nsids
         \/ /\ step = 2 /\ AdminCmd(cur, Identify, TRUE)
            /\ nsids' = [nsids EXCEPT ![cur] = @ \ {Head(ns)}]
         \/ step = 2 /\ AdminCmd(cur, Identify, FALSE) /\ UNCHANGED nsids
         \/ /\ step = 11 /\ AdminCmd(cur, <<"cq", QueueId, Head(ns)>>, FALSE)
            /\ UNCHANGED nsids
         \/ /\ step = 12 /\ AdminCmd(cur, <<"sq", QueueId, Head(ns)>>, FALSE)
            /\ UNCHANGED nsids,
         NEW c \in Ctrl, c = cur
  PROVE  TurnDone /\ TurnListed(c)
<1>1. /\ HwTypes /\ FailureAt(c) /\ TypeOK /\ ns \in Seq(Nsid)
      /\ ns' = Tail(ns) /\ step' = 1
      /\ abandoned \subseteq abandoned' /\ abandoned' \subseteq abandoned \cup {cur}
      /\ cur \notin abandoned' => /\ io_cq'[cur][QueueId] # Head(ns)
                                  /\ \A x \in late'[cur] : x[3] # Head(ns)
      /\ io_cq'[cur][QueueId] # Head(ns) /\ late'[cur] = {} => abandoned' = abandoned
      /\ UnitsStay
  <2>1. HwTypes /\ FailureAt(c) /\ TypeOK
    BY TypesAre DEF BringupInv, FailureInv
  <2>2. ns \in Seq(Nsid)
    BY <2>1 DEF TypeOK
  <2>3. ns' = Tail(ns) /\ step' = 1
    BY DEF DropNamespace, NextNamespace
  <2>4. abandoned' = IF io_cq'[cur][QueueId] = Head(ns)
                          \/ \E x \in late'[cur] : x[3] = Head(ns)
                     THEN abandoned \cup {cur} ELSE abandoned
    BY DEF DropNamespace
  <2>5. UnitsStay
    BY DEF UnitsStay
  <2> QED
    BY <2>1, <2>2, <2>3, <2>4, <2>5
<1>2. /\ cur \in Ctrl /\ QueueId \in Nsid /\ Head(ns) \in Nsid /\ Head(ns) # 0
      /\ cur \notin broken =>
           cur \notin abandoned /\ late[cur] = {} /\ (step # 12 => io_cq[cur][QueueId] = 0)
  BY Fresh
<1> DEFINE Sent(cmd) ==
             /\ Within(cmd)
             /\ io_cq' \in QueueTables /\ io_sq' \in QueueTables
             /\ late' \in [Ctrl -> SUBSET Commands] /\ lost' \in [Ctrl -> BOOLEAN]
             /\ faults' \in 0 .. MaxFaults
             /\ broken \subseteq broken' /\ broken' \subseteq broken \cup {cur}
             /\ enabled' = enabled
             /\ \A d \in Ctrl \ {cur} : SameHw(d)
           Why == \/ cur \in broken' /\ UNCHANGED nsids
                  \/ /\ nsids' = [nsids EXCEPT ![cur] = @ \ {Head(ns)}]
                     /\ cur \notin broken' => abandoned' = abandoned
           Ok == \E cmd \in TurnCommands : Sent(cmd) /\ Why
<1>3. ASSUME QuietTurn, cur \in broken', UNCHANGED nsids
      PROVE  Ok
  <2>1. /\ \A d \in Ctrl : SameHw(d)
        /\ UNCHANGED <<enabled, io_cq, io_sq, late, lost>>
        /\ broken \subseteq broken' /\ broken' \subseteq broken \cup {cur}
        /\ faults' \in 0 .. MaxFaults
    BY <1>3 DEF QuietTurn, SameHw
  <2>2. Within(Identify) /\ Identify \in TurnCommands
    BY <1>2, <2>1, SameWithin, TurnCommandsAre
  <2>3. Sent(Identify)
    BY <1>1, <2>1, <2>2 DEF HwTypes
  <2> QED
    BY <1>3, <2>2, <2>3
<1>4. ASSUME NEW cmd \in TurnCommands, NEW ok \in BOOLEAN, AdminCmd(cur, cmd, ok),
             step > 1, cmd[1] = "sq" <=> step = 12
      PROVE  /\ Sent(cmd)
             /\ ~ok => cur \in broken'
             /\ ok /\ ~lost'[cur] => UNCHANGED <<late, lost, broken>>
  <2>1. /\ Within(cmd)
        /\ ~ok => cur \in broken'
        /\ ok /\ ~lost'[cur] => UNCHANGED <<late, lost, broken>>
    BY <1>4, TurnCommand
  <2> QED
    BY <1>4, <2>1, TurnSends
<1>5. ASSUME NEW cmd \in TurnCommands, AdminCmd(cur, cmd, FALSE), UNCHANGED nsids,
             step > 1, cmd[1] = "sq" <=> step = 12
      PROVE  Ok
  <2>1. Sent(cmd) /\ cur \in broken'
    BY <1>4, <1>5
  <2> QED
    BY <1>5, <2>1
<1>6. ASSUME step = 2, AdminCmd(cur, Identify, TRUE),
             nsids' = [nsids EXCEPT ![cur] = @ \ {Head(ns)}]
      PROVE  Ok
  <2>1. Identify \in TurnCommands /\ Identify[1] # "sq" /\ Identify[1] # "cq"
    BY TurnCommandsAre
  <2>2. Sent(Identify) /\ (~lost'[cur] => UNCHANGED <<late, lost, broken>>)
    <3>1. step > 1 /\ (Identify[1] = "sq" <=> step = 12) /\ TRUE \in BOOLEAN
      BY <1>6, <2>1
    <3> HIDE DEF Sent
    <3> QED
      BY <1>4, <1>6, <2>1, <3>1
  <2>3. cur \notin broken' => abandoned' = abandoned
    <3>1. SUFFICES ASSUME cur \notin broken' PROVE abandoned' = abandoned
      OBVIOUS
    <3>2. ~lost'[cur] /\ UNCHANGED <<late, lost, broken>>
      BY <2>2, <3>1 DEF Within
    <3>3. late'[cur] = {} /\ io_cq'[cur][QueueId] = 0
      BY <1>2, <1>6, <2>1, <2>2, <3>1, <3>2 DEF Within
    <3> QED
      BY <1>1, <1>2, <3>3
  <2> QED
    BY <1>6, <2>1, <2>2, <2>3
<1>7. Ok
  <2>1. CASE QuietTurn /\ cur \in broken' /\ UNCHANGED nsids
    BY <1>3, <2>1
  <2>2. CASE /\ step = 2 /\ AdminCmd(cur, Identify, TRUE)
             /\ nsids' = [nsids EXCEPT ![cur] = @ \ {Head(ns)}]
    BY <1>6, <2>2
  <2>3. CASE step = 2 /\ AdminCmd(cur, Identify, FALSE) /\ UNCHANGED nsids
    <3>1. step > 1 /\ (Identify[1] = "sq" <=> step = 12) /\ Identify \in TurnCommands
      BY <2>3, TurnCommandsAre
    <3> QED
      BY <1>5, <2>3, <3>1
  <2>4. CASE /\ step = 11 /\ AdminCmd(cur, <<"cq", QueueId, Head(ns)>>, FALSE)
             /\ UNCHANGED nsids
    <3> DEFINE cmd == <<"cq", QueueId, Head(ns)>>
    <3>1. cmd \in TurnCommands /\ AdminCmd(cur, cmd, FALSE) /\ UNCHANGED nsids
      BY <2>4, TurnCommandsAre
    <3>2. cmd[1] = "cq"
      OBVIOUS
    <3> HIDE DEF cmd
    <3>3. step > 1 /\ (cmd[1] = "sq" <=> step = 12)
      BY <2>4, <3>2
    <3> QED
      BY <1>5, <3>1, <3>3
  <2>5. CASE /\ step = 12 /\ AdminCmd(cur, <<"sq", QueueId, Head(ns)>>, FALSE)
             /\ UNCHANGED nsids
    <3> DEFINE cmd == <<"sq", QueueId, Head(ns)>>
    <3>1. cmd \in TurnCommands /\ AdminCmd(cur, cmd, FALSE) /\ UNCHANGED nsids
      BY <2>5, TurnCommandsAre
    <3>2. cmd[1] = "sq"
      OBVIOUS
    <3> HIDE DEF cmd
    <3>3. step > 1 /\ (cmd[1] = "sq" <=> step = 12)
      BY <2>5, <3>2
    <3> QED
      BY <1>5, <3>1, <3>3
  <2> QED
    BY <2>1, <2>2, <2>3, <2>4, <2>5
<1>8. PICK cmd \in TurnCommands : Sent(cmd) /\ Why
  BY <1>7
<1> HIDE DEF Ok
<1>9. /\ nsids' \in [Ctrl -> SUBSET Nsid]
      /\ \A d \in Ctrl \ {cur} : nsids'[d] = nsids[d]
      /\ cur \notin broken' => Head(ns) \notin nsids'[cur] /\ nsids'[cur] \subseteq nsids[cur]
      /\ cur \in abandoned' => cur \in broken'
  <2>1. cur \in abandoned => cur \in broken
    BY <1>1 DEF FailureAt, Loop, AtController
  <2> QED
    BY <1>1, <1>2, <1>8, <2>1 DEF HwTypes
<1>10. HwTypes' /\ \A d \in Ctrl \ {cur} : SameCtrl(d)
  BY <1>1, <1>2, <1>8, <1>9 DEF HwTypes, SameCtrl
<1>11. TurnDone
  BY <1>1, <1>8, <1>9, <1>10 DEF TurnDone, Within
<1>12. QueueAt(c)'
  <2>1. \A q, n \in Nsid : UnitOwns(c, q, n) => UnitOwns(c, q, n)'
    BY <1>1, UnitsStayOwned
  <2>2. ASSUME NEW k, NEW h, k = QueueId, h = Head(ns)
        PROVE  QueueAt(c)'
    BY <1>1, <1>8, <2>1, <2>2, TurnQueues
  <2> QED
    BY <2>2
<1>13. PublishAt(c)'
  <2>1. Tried(c)' => Tried(c)
    BY DEF Tried
  <2>2. Awaited(c) \subseteq {Head(ns)} \cup Awaited(c)'
    BY <1>1, AwaitedTail DEF Awaited
  <2>3. Listed(c) \subseteq Listed(c)'
    BY <1>1, UnitsStayOwned
  <2>4. PublishAt(c)
    BY DEF BringupInv, PublishInv
  <2> QED
    BY <1>8, <1>9, <2>1, <2>2, <2>3, <2>4 DEF PublishAt
<1> QED
  BY <1>11, <1>12, <1>13 DEF TurnListed

LEMMA UnitHardware ==
  ASSUME BringupInv, [Next]_vars, pc = "unit", DiscoverUnits
  PROVE  HwAll'
<1>1. /\ UNCHANGED <<cur, num_controllers, ptr>> /\ step \in 1 .. 12
      /\ cur \in Ctrl /\ Ctrl \subseteq Nat /\ MemoryInv
  <2>1. TypeOK /\ PlaceInv /\ MemoryInv
    BY DEF BringupInv
  <2> QED
    BY <2>1, Current, HwTurns DEF AtController
<1>2. ASSUME NEW c \in Ctrl, c = cur
      PROVE  /\ TurnDone /\ TurnListed(c)
             /\ \/ UNCHANGED global_units
                \/ /\ QueueId \in Nsid
                   /\ LET u == [ctrl |-> cur, nsid |-> Head(ns), queue_id |-> QueueId]
                      IN /\ \A i \in DOMAIN global_units' \ DOMAIN global_units :
                              global_units'[i] = u
                         /\ \/ lost'[cur]
                            \/ /\ enabled'[cur] /\ io_cq'[cur][QueueId] = Head(ns)
                               /\ io_sq'[cur][QueueId] = Head(ns)
  <2>1. CASE QuietTurn /\ TurnGoes /\ UNCHANGED <<global_units, abandoned, nsids>>
    BY <1>1, <1>2, <2>1, QuietTurnDone
  <2>2. CASE /\ step = 2 /\ AdminCmd(cur, Identify, TRUE)
             /\ TurnGoes /\ UNCHANGED <<global_units, abandoned, nsids>>
    BY <1>1, <1>2, <2>2, SentTurnDone, TurnCommandsAre
  <2>3. CASE /\ step = 11 /\ AdminCmd(cur, <<"cq", QueueId, Head(ns)>>, TRUE)
             /\ step' = 12 /\ UNCHANGED <<pc, ns, global_units, abandoned, nsids>>
    BY <1>1, <1>2, <2>3, SentTurnDone, TurnCommandsAre
  <2>4. CASE /\ step = 12 /\ AdminCmd(cur, <<"sq", QueueId, Head(ns)>>, TRUE)
             /\ Register(QueueId) /\ NextNamespace /\ UNCHANGED <<pc, abandoned, nsids>>
    BY <1>1, <1>2, <2>4, RegisteredTurnDone
  <2>5. CASE /\ DropNamespace /\ UNCHANGED <<pc, global_units>> /\ ns # <<>>
             /\ \/ QuietTurn /\ cur \in broken' /\ UNCHANGED nsids
                \/ /\ step = 2 /\ AdminCmd(cur, Identify, TRUE)
                   /\ nsids' = [nsids EXCEPT ![cur] = @ \ {Head(ns)}]
                \/ step = 2 /\ AdminCmd(cur, Identify, FALSE) /\ UNCHANGED nsids
                \/ /\ step = 11 /\ AdminCmd(cur, <<"cq", QueueId, Head(ns)>>, FALSE)
                   /\ UNCHANGED nsids
                \/ /\ step = 12 /\ AdminCmd(cur, <<"sq", QueueId, Head(ns)>>, FALSE)
                   /\ UNCHANGED nsids
    BY <1>1, <1>2, <2>5, DroppedTurnDone
  <2> QED
    BY Zenon, <2>1, <2>2, <2>3, <2>4, <2>5, HwTurns
<1>3. TurnDone
  BY <1>1, <1>2
<1>4. pc' \in {"unit", "bring"} /\ UnitsStay /\ \A d \in Ctrl \ {cur} : SameCtrl(d)
  BY <1>3 DEF TurnDone
<1>5. ASSUME NEW c \in Ctrl, c # cur
      PROVE  EnabledAt(c)' /\ FailureAt(c)' /\ QueueAt(c)' /\ PublishAt(c)'
  <2>1. SameCtrl(c) /\ c # cur' /\ ptr'[c] = ptr[c] /\ c \in Nat /\ cur \in Nat
    BY <1>1, <1>4, <1>5
  <2>2. \A q, n \in Nsid : /\ UnitOwns(c, q, n) => UnitOwns(c, q, n)'
                           /\ Creating(c, q, n) => Creating(c, q, n)'
    BY <1>4, <1>5, UnitsStayOwned DEF Creating
  <2>3. /\ Untried(c)' => Untried(c)
        /\ Tried(c)' => Tried(c)
        /\ ~InInit(c) /\ ~InInit(c)'
    BY <1>1, <1>4, <2>1 DEF Untried, Tried, InInit, Opening, Loop, AtController
  <2>4. Listed(c) \subseteq Listed(c)' /\ Awaited(c) = {}
    BY <1>4, <1>5, UnitsStayOwned DEF Awaited
  <2>5. pc \in Loop
    BY DEF Loop, AtController
  <2>6. EnabledAt(c)' /\ FailureAt(c)'
    BY <1>4, <2>1, <2>3, <2>5, EnabledKept, FailureKept
  <2>7. QueueAt(c)' /\ PublishAt(c)'
    BY <2>1, <2>2, <2>3, <2>4, QueueKept, PublishKept DEF SameCtrl, SameHw
  <2> QED
    BY <2>6, <2>7
<1>6. ASSUME NEW c \in Ctrl, c = cur
      PROVE  EnabledAt(c)' /\ FailureAt(c)' /\ QueueAt(c)' /\ PublishAt(c)'
  <2>1. QueueAt(c)' /\ PublishAt(c)'
    BY <1>2, <1>6 DEF TurnListed
  <2>2. FailureAt(c)'
    BY <1>3, <1>6 DEF TurnDone, FailureAt
  <2>3. enabled'[c] /\ ptr'[c] = AdminPointers
    <3>1. EnabledAt(c)
      BY DEF BringupInv, EnabledInv
    <3> QED
      BY <1>1, <1>3, <1>6, <3>1 DEF TurnDone, MemoryInv, EnabledAt
  <2>4. EnabledAt(c)'
    BY <1>1, <1>4, <1>6, <2>3 DEF EnabledAt, Untried, InInit, Opening, Loop, AtController
  <2> QED
    BY <2>1, <2>2, <2>4
<1>7. ServedInv'
  <2>1. \A d \in Ctrl : Lasting(d)
    BY <1>3, SameLasts DEF TurnDone, SameCtrl
  <2>2. ASSUME NEW i \in DOMAIN global_units'
        PROVE  global_units'[i].queue_id \in Nsid /\ Served(global_units[i])'
    <3>1. CASE i \in DOMAIN global_units
      <4>1. global_units'[i] = global_units[i]
        BY <1>4, <3>1 DEF UnitsStay
      <4>2. Served(global_units[i])' /\ global_units[i].queue_id \in Nsid
        BY <2>1, <3>1, <4>1, ServedKept DEF Loop, AtController
      <4> QED
        BY <4>1, <4>2
    <3>2. CASE i \notin DOMAIN global_units
      <4> DEFINE v == global_units'[i]
      <4>1. /\ v.ctrl = cur /\ v.nsid = Head(ns) /\ v.queue_id = QueueId
            /\ QueueId \in Nsid
            /\ \/ lost'[cur]
               \/ /\ enabled'[cur] /\ io_cq'[cur][QueueId] = Head(ns)
                  /\ io_sq'[cur][QueueId] = Head(ns)
        BY <1>1, <1>2, <2>2, <3>2
      <4> QED
        BY <4>1 DEF Served
    <3> QED
      BY <3>1, <3>2
  <2>3. pc' = "unit" /\ step' = 12 => lost'[cur'] \/ io_cq'[cur'][QueueId'] = Head(ns')
    <3>1. SUFFICES ASSUME pc' = "unit", step' = 12
                   PROVE  lost'[cur'] \/ io_cq'[cur'][QueueId'] = Head(ns')
      OBVIOUS
    <3>2. UNCHANGED <<ns, global_units, cur>> /\ (lost'[cur] \/ io_cq'[cur][QueueId] = Head(ns))
      BY <1>1, <1>3, <3>1 DEF TurnDone
    <3>3. QueueId' = QueueId
      BY <3>2 DEF QueueId, UnitsOf
    <3> QED
      BY <3>2, <3>3
  <2> QED
    BY <2>2, <2>3 DEF ServedInv
<1> QED
  BY <1>3, <1>5, <1>6, <1>7
     DEF HwAll, EnabledInv, FailureInv, QueueInv, PublishInv, TurnDone

LEMMA HardwareStep ==
  ASSUME BringupInv, [Next]_vars
  PROVE  HwAll'
<1>1. CASE InitNVMe
  BY <1>1, InitHardware
<1>2. CASE DiscoverUnits
  BY <1>2, ListHardware, UnitHardware DEF DiscoverUnits
<1>3. CASE Quiesce \/ FreeUnits
  BY <1>3, QuiesceHardware, FreeHardware
<1>4. CASE \E c \in Ctrl : Late(c)
  BY <1>4, LateHardware
<1>5. CASE \/ OpenLibrary \/ DiscoverNVMe \/ BringUp \/ InstallNVMeInterrupt
           \/ Expunge \/ Leave
  BY <1>5, HardwareElsewhere
<1>6. CASE UNCHANGED vars
  <2>1. /\ UNCHANGED <<pc, cur, step, ns, num_controllers, ptr, enabled, io_cq, io_sq, late,
                       lost, faults, broken, abandoned, nsids, global_units>>
    BY <1>6 DEF vars, placeVars, libVars, ctrlVars, unitVars, hwVars
  <2>2. HwTypes /\ EnabledInv /\ FailureInv /\ QueueInv /\ ServedInv /\ PublishInv
    BY TypesAre DEF BringupInv
  <2>3. HwTypes'
    BY <2>1, <2>2 DEF HwTypes
  <2>4. EnabledInv' /\ FailureInv'
    BY <2>1, <2>2 DEF EnabledInv, EnabledAt, FailureInv, FailureAt, Untried, Untouched, InInit
  <2>5. QueueInv'
    <3>1. ASSUME NEW c \in Ctrl
          PROVE  QueueAt(c)'
      <4>1. \A q, n \in Nsid : /\ UnitOwns(c, q, n) => UnitOwns(c, q, n)'
                               /\ Creating(c, q, n) => Creating(c, q, n)'
        BY <2>1 DEF UnitOwns, Creating, QueueId, UnitsOf
      <4>2. SameHw(c) /\ (c \in abandoned' <=> c \in abandoned)
        BY <2>1 DEF SameHw
      <4> QED
        BY <4>1, <4>2, QueueKept
    <3> QED
      BY <3>1 DEF QueueInv
  <2>6. ServedInv'
    BY <2>1, <2>2 DEF ServedInv, Served, QueueId, UnitsOf
  <2>7. PublishInv'
    BY <2>1, <2>2 DEF PublishInv, PublishAt, Tried, Listed, Awaited, UnitsOf
  <2> QED
    BY <2>3, <2>4, <2>5, <2>6, <2>7 DEF HwAll
<1> QED
  BY <1>1, <1>2, <1>3, <1>4, <1>5, <1>6 DEF Next

-----------------------------------------------------------------------------
(* The invariant.                                                          *)

LEMMA BringupStarts ==
  ASSUME Init
  PROVE  BringupInv
<1>1. /\ MaxControllers \in Nat \ {0} /\ MaxGlobalUnits \in Nat \ {0} /\ MaxFaults \in Nat
      /\ MaxNamespaces \in Nat \ {0}
  BY Numbers
<1>2. TypeOK
  <2>1. PlaceTypes
    BY <1>1 DEF Init, PlaceTypes, Places
  <2>2. HwTypes
    BY <1>1 DEF Init, HwTypes, QueueTables, Nsid
  <2>3. TableTypes
    BY <1>1 DEF Init, TableTypes
  <2>4. MemoryTypes /\ count \in [Resource -> Int] /\ unheld \subseteq Resource
    BY DEF Init, MemoryTypes
  <2> QED
    BY <2>1, <2>2, <2>3, <2>4, InitStepsAre
       DEF TypeOK, PlaceTypes, HwTypes, TableTypes, MemoryTypes, QueueTables, AdminPointers
<1>3. pc = "expansion" /\ global_units = <<>> /\ ns = <<>> /\ local = {}
  BY DEF Init
<1>4. PlaceInv /\ HaveInv /\ MemoryInv
  BY <1>1 DEF Init, PlaceInv, HaveInv, MemoryInv, InInit, Libraries, AtController
<1>5. BusCounts /\ IrqCounts /\ AdminCounts /\ UnitCounts
  <2>1. \A r \in Resource : count[r] = 0
    BY DEF Init
  <2>2. BusCounts
    BY <2>1, IsResource DEF Init, BusCounts, One, Ctrl
  <2>3. IrqCounts
    BY <2>1, IsResource DEF Init, IrqCounts, One
  <2>4. AdminCounts
    BY <2>1, IsResource DEF Init, AdminCounts, OwnedBy, InInit, One
  <2>5. UnitCounts
    <3>1. Len(global_units) = 0 /\ FirstUnit = 1
      BY <1>3 DEF FirstUnit
    <3>2. FirstUnit .. Len(global_units) = {}
      BY <3>1
    <3>3. \A c, n, x : ~HasUnit(x, c, n)
      BY <1>3, <3>2 DEF HasUnit, InTable
    <3> QED
      BY <2>1, <3>3, IsResource DEF UnitCounts, One
  <2> QED
    BY <2>2, <2>3, <2>4, <2>5
<1>6. TurnInv /\ RoomInv /\ TableInv /\ PendingInv
  BY <1>3 DEF Init, TurnInv, RoomInv, TableInv, PendingInv, Loop, AtController
<1>7. EnabledInv /\ FailureInv
  BY <1>3 DEF Init, EnabledInv, EnabledAt, Untouched, FailureInv, FailureAt, InInit
<1>8. QueueInv /\ ServedInv /\ PublishInv
  BY <1>3 DEF Init, QueueInv, QueueAt, ServedInv, Loop, AtController, PublishInv,
     PublishAt, Tried
<1>9. UnheldInv
  BY DEF Init, UnheldInv
<1> QED
  BY <1>2, <1>4, <1>5, <1>6, <1>7, <1>8, <1>9 DEF BringupInv

\* Only InitNVMe, when it gives up, can add to what is unheld.
LEMMA UnheldStep ==
  ASSUME BringupInv, [Next]_vars
  PROVE  UnheldInv' /\ unheld' \subseteq Resource
<1>1. /\ unheld \subseteq Resource /\ UnheldInv /\ TypeOK /\ PlaceInv
      /\ broken \subseteq broken'
  BY TypesAre, BrokenGrows DEF BringupInv, TypeOK
<1>2. CASE UNCHANGED unheld
  BY <1>1, <1>2 DEF UnheldInv
<1>3. CASE InitNVMe
  <2>1. /\ pc = "init" /\ cur \in Ctrl
        /\ InitAcquires \/ InitWaits \/ InitFails \/ InitIdentifies
    BY <1>1, <1>3, Current DEF InitNVMe, AtController
  <2>2. CASE unheld' \subseteq unheld \cup Of(Pins, cur, 0) /\ Failure(cur)
    <3>1. cur \in broken' /\ Of(Pins, cur, 0) \subseteq Resource
      BY <2>1, <2>2, IsResource DEF Failure, Of, AdminMemory
    <3> QED
      BY <1>1, <2>2, <3>1 DEF UnheldInv
  <2>3. CASE InitAcquires \/ InitWaits
    BY <1>2, <2>3 DEF InitAcquires, InitWaits
  <2> QED
    BY <1>2, <2>1, <2>2, <2>3, InitGivesUp
<1>4. CASE ~InitNVMe
  <2>1. CASE DiscoverUnits
    BY <1>1, <1>2, <2>1, UnitsFrame DEF BringupInv, ctrlVars
  <2>2. CASE ~DiscoverUnits
    BY <1>2, <1>4, <2>2 DEF Next, OpenLibrary, DiscoverNVMe, BringUp, InstallNVMeInterrupt,
       Expunge, Quiesce, FreeUnits, Leave, Late, ctrlVars, vars
  <2> QED
    BY <2>1, <2>2
<1> QED
  BY <1>3, <1>4

LEMMA BringupSteps ==
  ASSUME BringupInv, [Next]_vars
  PROVE  BringupInv'
<1>1. PlaceTypes' /\ PlaceInv' /\ HaveInv'
  BY PlaceStep DEF PlaceAll
<1>2. MemoryTypes' /\ MemoryInv'
  BY MemoryStep DEF MemoryAll
<1>3. count' \in [Resource -> Int] /\ BusCounts' /\ IrqCounts' /\ AdminCounts'
  BY OthersStep DEF OtherCounts
<1>4. UnitCounts'
  BY UnitStepCounts
<1>5. TableTypes' /\ TurnInv' /\ RoomInv' /\ TableInv' /\ PendingInv'
  BY TableStep DEF TableAll
<1>6. HwTypes' /\ EnabledInv' /\ FailureInv' /\ QueueInv' /\ ServedInv' /\ PublishInv'
  BY HardwareStep DEF HwAll
<1>7. UnheldInv' /\ unheld' \subseteq Resource
  BY UnheldStep
<1>8. TypeOK'
  BY <1>1, <1>2, <1>3, <1>5, <1>6, <1>7, InitStepsAre
     DEF TypeOK, PlaceTypes, HwTypes, TableTypes, MemoryTypes, QueueTables, AdminPointers
<1> QED
  BY <1>1, <1>2, <1>3, <1>4, <1>5, <1>6, <1>7, <1>8 DEF BringupInv

(* At every place of the load, its unwinding and the unload, each counter  *)
(* is what the loader's flags, pointers and table say it holds, and each   *)
(* queue a running controller knows belongs to a unit of the table, or to  *)
(* the one that is about to be announced.  What its error path releases    *)
(* beyond that is a pin InitNVMe was refused, of a controller that failed. *)
THEOREM BringupInvariant == Spec => []BringupInv
<1>1. Init => BringupInv
  BY BringupStarts
<1>2. BringupInv /\ [Next]_vars => BringupInv'
  BY BringupSteps
<1> QED
  BY <1>1, <1>2, PTL DEF Spec

-----------------------------------------------------------------------------
(* What follows from it.                                                   *)

\* Every variable keeps its type; the table of units never outgrows its array
\* (unit_discovery.c:47), however many namespaces the controllers report.
THEOREM BringupTypeCorrect == Spec => []TypeOK
<1>1. BringupInv => TypeOK
  BY DEF BringupInv
<1> QED
  BY <1>1, BringupInvariant, PTL

LEMMA AllBalanced ==
  ASSUME BringupInv
  PROVE  Balanced
<1>1. /\ BusCounts /\ IrqCounts /\ AdminCounts /\ UnitCounts /\ TableInv /\ TurnInv
      /\ MemoryInv /\ UnheldInv
  BY DEF BringupInv
<1>2. ASSUME NEW r \in Resource
      PROVE  count[r] \in {0, 1} /\ (pc \in Down => count[r] = 0)
  <2>1. CASE \E x \in Libraries : r = <<x, 0, 0>>
    BY <1>1, <2>1 DEF BusCounts, One
  <2>2. CASE \E x \in {"pcidev", "resource", "irq"}, c \in Ctrl : r = <<x, c, 0>>
    <3>1. PICK x \in {"pcidev", "resource", "irq"}, c \in Ctrl : r = <<x, c, 0>>
      BY <2>2
    <3>2. CASE x = "irq"
      <4>1. count[r] = One(irq_installed[c])
        BY <1>1, <3>1, <3>2 DEF IrqCounts
      <4>2. pc \in Down => ~irq_installed[c]
        BY <1>1 DEF MemoryInv, MayHold, Down, Loop, AtController
      <4> QED
        BY <4>1, <4>2 DEF One
    <3>3. CASE x \in {"pcidev", "resource"}
      BY <1>1, <3>1, <3>3 DEF BusCounts, One
    <3> QED
      BY <3>2, <3>3
  <2>3. CASE \E x \in AdminMemory, c \in Ctrl : r = <<x, c, 0>>
    <3>1. PICK x \in AdminMemory, c \in Ctrl : r = <<x, c, 0>>
      BY <2>3
    <3>2. count[r] = One(x \in OwnedBy(c))
      BY <1>1, <3>1 DEF AdminCounts
    <3>3. pc \in Down => OwnedBy(c) = {}
      BY <1>1 DEF MemoryInv, MayHold, Down, Loop, AtController, OwnedBy, InInit
    <3> QED
      BY <3>2, <3>3 DEF One
  <2>4. CASE \E x \in UnitMemory \cup UnitEntries, c \in Ctrl, n \in Nsid :
               r = <<x, c, n>>
    <3>1. PICK x \in UnitMemory \cup UnitEntries, c \in Ctrl, n \in Nsid :
            r = <<x, c, n>>
      BY <2>4
    <3>2. count[r] = One(HasUnit(x, c, n))
      BY <1>1, <3>1 DEF UnitCounts
    <3>3. pc \in Down => ~HasUnit(x, c, n)
      BY <1>1 DEF TableInv, TurnInv, Down, HasUnit, InTable, FirstUnit
    <3> QED
      BY <3>2, <3>3 DEF One
  <2> QED
    BY <2>1, <2>2, <2>3, <2>4, ResourceIs
<1> QED
  BY <1>1, <1>2 DEF Balanced, Down, UnheldInv

(* Whatever fails, and wherever, no counter leaves zero and one, a load    *)
(* that fails or an unload leaves none above zero (nvme_leak.h:7-11), and  *)
(* nothing is released that was not held but a pin that StartDMA refused   *)
(* to InitNVMe (nvme_init.c:138-141, 150-153, 216-219), which is given to  *)
(* EndDMA all the same (nvme_init.c:239-242, 253-256, 262-265).            *)
THEOREM BringupBalanced == Spec => []Balanced
<1>1. BringupInv => Balanced
  BY AllBalanced
<1> QED
  BY <1>1, BringupInvariant, PTL

\* The objects of a unit in the table are held while units may be used.
LEMMA UnitHeld ==
  ASSUME BringupInv, NEW c \in Ctrl, MayHold(c), NEW i \in UnitsOf(c), NEW x \in UnitMemory
  PROVE  /\ global_units[i].nsid \in Nsid
         /\ count[<<x, c, global_units[i].nsid>>] = 1
<1>1. TypeOK /\ UnitCounts
  BY DEF BringupInv
<1>2. FirstUnit = 1
  BY DEF MayHold, FirstUnit, Loop, AtController
<1> DEFINE n == global_units[i].nsid
<1>3. n \in Nsid /\ i \in 1 .. Len(global_units) /\ global_units[i].ctrl = c
  BY <1>1, TableEntries DEF UnitsOf
<1>4. HasUnit(x, c, n)
  BY <1>2, <1>3 DEF HasUnit, InTable
<1> QED
  BY <1>1, <1>3, <1>4 DEF UnitCounts, One

LEMMA HandlerIsSafe ==
  ASSUME BringupInv
  PROVE  HandlerSafe
<1> SUFFICES ASSUME NEW c \in Ctrl, irq_installed[c]
             PROVE  /\ Held(Of({"pcidev", "resource"}, c, 0))
                    /\ \A i \in UnitsOf(c) :
                         Held(Of({"unit", "io_cq"}, c, global_units[i].nsid))
  BY DEF HandlerSafe
<1>1. TypeOK /\ PlaceInv /\ MemoryInv /\ BusCounts
  BY DEF BringupInv
<1>2. MayHold(c)
  BY <1>1 DEF MemoryInv
<1>3. c <= num_controllers /\ pc \notin Down
  <2>1. cur \in Nat /\ num_controllers \in Nat /\ c \in Nat
    BY <1>1, Current
  <2> QED
    BY <1>1, <1>2, <2>1 DEF MayHold, PlaceInv, Loop, AtController, Down
<1>4. \A x \in {"pcidev", "resource"} : count[<<x, c, 0>>] = 1
  BY <1>1, <1>3 DEF BusCounts, One
<1>5. ASSUME NEW i \in UnitsOf(c), NEW x \in {"unit", "io_cq"}
      PROVE  count[<<x, c, global_units[i].nsid>>] = 1
  <2>1. x \in UnitMemory
    BY DEF UnitMemory
  <2> QED
    BY <1>2, <2>1, UnitHeld
<1> QED
  BY <1>4, <1>5 DEF Held, Of

(* While a controller's interrupt handler is installed, its registers and  *)
(* the unit and completion queue of each of its units are held             *)
(* (nvme_irq.c:49-60, 132-136): RemoveNVMeInterrupt comes before anything  *)
(* that the handler reads is freed.                                        *)
THEOREM BringupHandlerSafe == Spec => []HandlerSafe
<1>1. BringupInv => HandlerSafe
  BY HandlerIsSafe
<1> QED
  BY <1>1, BringupInvariant, PTL

\* The memory behind a queue that a running controller knows.
LEMMA QueueHeld ==
  ASSUME BringupInv, NEW c \in Ctrl, enabled[c], c \notin abandoned,
         NEW q \in Nsid, NEW n, NEW x \in UnitMemory,
         UnitOwns(c, q, n) \/ Creating(c, q, n)
  PROVE  count[<<x, c, n>>] = 1
<1>1. TypeOK /\ PlaceInv /\ TurnInv /\ UnitCounts
  BY DEF BringupInv
<1>2. CASE UnitOwns(c, q, n)
  <2>1. PICK i \in DOMAIN global_units :
          global_units[i] = [ctrl |-> c, nsid |-> n, queue_id |-> q]
    BY <1>2 DEF UnitOwns
  <2>2. i \in UnitsOf(c) /\ global_units[i].nsid = n
    BY <2>1 DEF UnitsOf
  <2>3. MayHold(c)
    <3>1. CASE InInit(c)
      <4>1. c = cur /\ pc \in AtController
        BY <3>1 DEF InInit, AtController
      <4>2. cur \in Nat
        BY <1>1, Current
      <4> QED
        BY <4>1, <4>2 DEF MayHold, Loop
    <3>2. CASE ~InInit(c)
      BY <3>2, RunningHas
    <3> QED
      BY <3>1, <3>2
  <2> QED
    BY <2>2, <2>3, UnitHeld
<1>3. CASE Creating(c, q, n)
  <2>1. pc = "unit" /\ step = 12 /\ c = cur /\ n = Head(ns)
    BY <1>3 DEF Creating
  <2>2. n \in Nsid
    BY <2>1, Fresh
  <2>3. x \in local
    <3>1. Passed(12) \ Gaps(12) \subseteq local
      BY <1>1, <2>1 DEF TurnInv
    <3>2. Passed(12) = UnitMemory /\ Gaps(12) = UnitEntries
      BY PassedIs DEF Gaps
    <3> QED
      BY <3>1, <3>2, KindsDiffer
  <2> QED
    BY <1>1, <2>1, <2>2, <2>3 DEF UnitCounts, HasUnit, One
<1> QED
  BY <1>2, <1>3

LEMMA AllHeld ==
  ASSUME BringupInv
  PROVE  UsesHeldMemory
<1> SUFFICES ASSUME NEW c \in Ctrl \ abandoned, enabled[c]
             PROVE  Held(InUse(c))
  BY DEF UsesHeldMemory, InUse, Held
<1>1. /\ TypeOK /\ MemoryInv /\ AdminCounts /\ step \in 1 .. 13 /\ EnabledAt(c) /\ QueueAt(c)
      /\ HwTypes
  BY TypesAre, InitStepsAre DEF BringupInv, TypeOK, EnabledInv, QueueInv
<1> DEFINE First == {"admin_sq", "admin_sq_pin", "admin_cq", "admin_cq_pin"}
           Buffer == {"identify_buf", "identify_pin"}
<1>2. First \subseteq AdminMemory /\ Buffer \subseteq AdminMemory
  BY DEF AdminMemory, Vectors, Pins
<1>3. \A x \in First : x \in OwnedBy(c)
  <2>1. CASE InInit(c)
    <3>1. step > 8
      BY <1>1, <2>1 DEF EnabledAt
    <3>2. \A x \in AdminMemory \cap First : x \in Taken(AdminMemory)
      BY <1>1, <3>1, TakenIs
    <3> QED
      BY <1>2, <2>1, <3>2 DEF OwnedBy
  <2>2. CASE ~InInit(c)
    <3>1. ptr[c] # {}
      BY <2>2, RunningHas DEF AdminPointers, Vectors
    <3> QED
      BY <1>2, <2>2, <3>1 DEF OwnedBy
  <2> QED
    BY <2>1, <2>2
<1>4. Identify \in late[c] => \A x \in Buffer : x \in OwnedBy(c)
  <2>1. SUFFICES ASSUME Identify \in late[c]
                 PROVE  \A x \in Buffer : x \in OwnedBy(c)
    OBVIOUS
  <2>2. ~InInit(c)
    BY <1>1, <2>1 DEF EnabledAt, InInit, Untouched
  <2>3. ptr[c] # {}
    BY <2>2, RunningHas DEF AdminPointers, Vectors
  <2> QED
    BY <1>2, <2>2, <2>3 DEF OwnedBy
<1>5. /\ Held(Of(First, c, 0))
      /\ Identify \in late[c] => Held(Of(Buffer, c, 0))
  BY <1>1, <1>2, <1>3, <1>4 DEF AdminCounts, One, Held, Of
<1>6. ASSUME NEW q \in Nsid, io_cq[c][q] # 0
      PROVE  Held(Of({"io_cq", "cq_pin"}, c, io_cq[c][q]))
  <2> DEFINE n == io_cq[c][q]
  <2>1. UnitOwns(c, q, n) \/ Creating(c, q, n)
    BY <1>1, <1>6 DEF QueueAt
  <2> HIDE DEF n
  <2>2. ASSUME NEW x \in {"io_cq", "cq_pin"}
        PROVE  count[<<x, c, n>>] = 1
    <3>1. x \in UnitMemory /\ c \in Ctrl /\ c \notin abandoned
      BY DEF UnitMemory
    <3> QED
      BY <2>1, <3>1, QueueHeld
  <2>3. Held(Of({"io_cq", "cq_pin"}, c, n))
    BY <2>2 DEF Held, Of
  <2> QED
    BY <2>3 DEF n
<1>7. ASSUME NEW q \in Nsid, io_sq[c][q] # 0
      PROVE  Held(Of({"io_sq", "sq_pin"}, c, io_sq[c][q]))
  <2> DEFINE n == io_sq[c][q]
  <2>1. UnitOwns(c, q, n)
    BY <1>1, <1>7 DEF QueueAt
  <2> HIDE DEF n
  <2>2. ASSUME NEW x \in {"io_sq", "sq_pin"}
        PROVE  count[<<x, c, n>>] = 1
    <3>1. x \in UnitMemory /\ c \in Ctrl /\ c \notin abandoned
      BY DEF UnitMemory
    <3> QED
      BY <2>1, <3>1, QueueHeld
  <2>3. Held(Of({"io_sq", "sq_pin"}, c, n))
    BY <2>2 DEF Held, Of
  <2> QED
    BY <2>3 DEF n
<1> QED
  <2> DEFINE A == Of(First, c, 0)
             B == IF Identify \in late[c] THEN Of(Buffer, c, 0) ELSE {}
             Q(p) == Of({"io_cq", "cq_pin"}, c, io_cq[c][p])
             S(p) == Of({"io_sq", "sq_pin"}, c, io_sq[c][p])
  <2>1. InUse(c) = A \cup B
                     \cup (UNION {Q(q) : q \in {p \in Nsid : io_cq[c][p] # 0}})
                     \cup (UNION {S(q) : q \in {p \in Nsid : io_sq[c][p] # 0}})
    BY DEF InUse
  <2>2. /\ \A r \in A : count[r] = 1
        /\ \A r \in B : count[r] = 1
        /\ \A q \in Nsid : io_cq[c][q] # 0 => \A r \in Q(q) : count[r] = 1
        /\ \A q \in Nsid : io_sq[c][q] # 0 => \A r \in S(q) : count[r] = 1
    BY <1>5, <1>6, <1>7 DEF Held
  <2> HIDE DEF A, B, Q, S
  <2> QED
    BY <2>1, <2>2 DEF Held

(* A controller that runs, with nothing freed under it, only knows memory  *)
(* that is allocated and pinned: quiescing comes before freeing            *)
(* (Expunge.c:51-59).                                                      *)
THEOREM BringupUsesHeldMemory == Spec => []UsesHeldMemory
<1>1. BringupInv => UsesHeldMemory
  BY AllHeld
<1> QED
  BY <1>1, BringupInvariant, PTL

(* A unit that can be opened has both its queues, under its queue id and   *)
(* in its memory, unless an admin command of its controller has timed out  *)
(* (unit_discovery.c:66, 161-172).                                         *)
THEOREM BringupUnitsServed == Spec => []UnitsServed
<1>1. BringupInv => UnitsServed
  BY DEF BringupInv, ServedInv, Served, UnitsServed
<1> QED
  BY <1>1, BringupInvariant, PTL

(* The failure of one controller does not hide another (Init.c:12, 108):   *)
(* whichever has not failed runs and has all its namespaces published, and *)
(* a load is given up only when there is nothing to publish.               *)
THEOREM BringupPublishes == Spec => []GoodControllersPublished
<1>1. BringupInv => GoodControllersPublished
  <2> SUFFICES ASSUME BringupInv, pc = "loaded" \/ (pc = "undo" /\ cur = 1),
                      NEW c \in 1 .. num_controllers, c \notin broken
               PROVE  Published(c)
    BY DEF GoodControllersPublished
  <2>1. c \in Ctrl /\ c <= num_controllers
    BY Numbers DEF BringupInv, TypeOK, Ctrl
  <2>2. Tried(c) /\ Awaited(c) = {}
    BY <2>1 DEF Tried, Awaited
  <2>3. PublishAt(c)
    BY <2>1 DEF BringupInv, PublishInv
  <2> QED
    BY <2>2, <2>3 DEF PublishAt, Published, Listed
<1> QED
  BY <1>1, BringupInvariant, PTL

=============================================================================

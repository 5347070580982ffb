----------------------------- MODULE BringupInv -----------------------------
(***************************************************************************)
(* The inductive invariant of Bringup: who holds each object that a leak   *)
(* counter counts, at every place of the load, of its unwinding and of the *)
(* unload, and which namespace each queue a controller knows belongs to.   *)
(***************************************************************************)
EXTENDS Bringup

Opening == {"expansion", "ipci", "pci", "utility", "iutility"}
AtController == {"init", "irq", "list", "unit"}
Loop == {"bring"} \cup AtController
Down == {"failed", "gone"}

AdminMemory == Vectors \cup Pins \cup Entries
AdminPointers == Vectors \cup Entries

-----------------------------------------------------------------------------
(* Where the loader is: the range of each loop's variable.                 *)
PlaceInv ==
  /\ pc \in Libraries => cur = 0
  /\ pc = "pci" => num_controllers <= cur /\ cur <= MaxControllers
  /\ pc = "bring" => cur <= num_controllers
  /\ pc \in AtController => cur \in 1 .. num_controllers
  /\ pc \in {"undo", "quiesce"} => cur \in 1 .. num_controllers + 1
  /\ pc = "free" => cur \in 1 .. Len(global_units) + 1
  /\ pc = "unit" => step <= Len(UnitSteps)

(* A library is not opened twice, and whoever has PCI objects has noted    *)
(* that there is a list of them to release.                                *)
HaveInv ==
  /\ pc = "expansion" => have = {}
  /\ pc = "ipci" => have \subseteq {"expansion"}
  /\ pc \in {"pci", "utility"} => have \cap {"utility", "iutility"} = {}
  /\ pc = "iutility" => "iutility" \notin have
  /\ pc # "pci" => "discovery" \in have \/ num_controllers = 0
  /\ pc \in Libraries \ {"utility", "iutility"} => num_controllers = 0

-----------------------------------------------------------------------------
(* Controllers.                                                            *)

\* The controllers that may have memory or an interrupt handler.
MayHold(c) ==
  \/ pc \in Loop /\ c <= cur
  \/ pc = "loaded" /\ c <= num_controllers
  \/ pc \in {"undo", "quiesce"} /\ c >= cur /\ c <= num_controllers

\* What InitNVMe has acquired when it comes to its present step.
Taken(S) == {x \in S : \E k \in 1 .. step - 1 : InitSteps[k] = x}

InInit(c) == pc = "init" /\ c = cur

MemoryInv ==
  \A c \in Ctrl :
    /\ MayHold(c) \/ (ptr[c] = {} /\ ~irq_installed[c])
    /\ InInit(c) \/ ptr[c] \in {{}, AdminPointers}
    /\ InInit(c) => /\ ptr[c] = Taken(AdminPointers)
                    /\ flags = Taken(Vectors \cup Pins)
    /\ pc \in {"irq", "list", "unit"} /\ c = cur => ptr[c] = AdminPointers
    /\ pc \in {"init", "irq"} /\ c = cur => ~irq_installed[c]

-----------------------------------------------------------------------------
(* The counters: each is one if somebody holds the object, else zero.      *)

One(b) == IF b THEN 1 ELSE 0

BusCounts ==
  /\ \A x \in Libraries : count[<<x, 0, 0>>] = One(pc \notin Down /\ x \in have)
  /\ \A c \in Ctrl, x \in {"pcidev", "resource"} :
       count[<<x, c, 0>>] = One(pc \notin Down /\ c <= num_controllers)

IrqCounts == \A c \in Ctrl : count[<<"irq", c, 0>>] = One(irq_installed[c])

OwnedBy(c) ==
  IF InInit(c) THEN Taken(AdminMemory)
  ELSE IF ptr[c] = {} THEN {} ELSE AdminMemory

AdminCounts ==
  \A c \in Ctrl, x \in AdminMemory : count[<<x, c, 0>>] = One(x \in OwnedBy(c))

\* The units of the table that have not been freed.
FirstUnit == IF pc = "free" THEN cur ELSE 1

InTable(c, n) ==
  \E i \in FirstUnit .. Len(global_units) :
    global_units[i].ctrl = c /\ global_units[i].nsid = n

HasUnit(x, c, n) ==
  \/ x \in UnitMemory /\ InTable(c, n)
  \/ x \in local /\ c = cur /\ n = Head(ns)

UnitCounts ==
  \A c \in Ctrl, n \in Nsid, x \in UnitMemory \cup UnitEntries :
    count[<<x, c, n>>] = One(HasUnit(x, c, n))

\* The one thing that is released without being held.
UnheldInv == unheld \subseteq UNION {Of(Pins, c, 0) : c \in broken}

-----------------------------------------------------------------------------
(* The loop over the namespaces, and the table it fills.                   *)

\* What a turn of the loop that has come to step s has acquired and kept.
Passed(s) ==
  {x \in UnitMemory \cup UnitEntries : \E k \in 1 .. s - 1 : UnitSteps[k] = x}
    \ (IF s > 10 THEN UnitEntries ELSE {})

\* What may be missing of it: a failure that is not noticed yet.
Gaps(s) == UnitEntries \cup (IF s <= 5 THEN {"io_sq", "io_cq"} ELSE {})

TurnInv ==
  /\ pc # "unit" => ns = <<>> /\ local = {}
  /\ pc = "unit" =>
       /\ local \subseteq Passed(step)
       /\ Passed(step) \ Gaps(step) \subseteq local
       /\ cur \notin broken => Passed(step) \subseteq local
       /\ step > 1 => ns # <<>>

(* The table has room, for every controller at its turn.                   *)
Reserved == IF pc \in {"init", "irq", "list"} THEN cur - 1 ELSE cur

RoomInv ==
  /\ pc \in Loop => /\ Len(global_units) + Len(ns) <= Reserved * MaxNamespaces
                    /\ ctrls_up <= IF pc = "bring" THEN cur ELSE cur - 1
  /\ pc = "unit" => Cardinality(UnitsOf(cur)) + Len(ns) <= MaxNamespaces

TableInv ==
  /\ pc \in Opening \cup {"undo", "err", "release"} \cup Down =>
       global_units = <<>>
  /\ pc \in Opening => ctrls_up = 0
  /\ ctrls_up = 0 => global_units = <<>> \/ pc = "unit"
  /\ \A i, j \in DOMAIN global_units :
       /\ global_units[i].ctrl = global_units[j].ctrl
       /\ global_units[i].nsid = global_units[j].nsid
       => i = j
  /\ \A i \in DOMAIN global_units :
       /\ pc \in Loop => global_units[i].ctrl <= Reserved
       /\ global_units[i].queue_id \in 1 .. Cardinality(UnitsOf(global_units[i].ctrl))

PendingInv ==
  /\ \A j, k \in DOMAIN ns : ns[j] = ns[k] => j = k
  /\ \A i \in DOMAIN global_units, k \in DOMAIN ns :
       global_units[i].ctrl = cur => global_units[i].nsid # ns[k]

-----------------------------------------------------------------------------
(* The controllers' own state.                                             *)

\* Nothing has happened to c yet.
Untried(c) == pc \in Opening \/ (pc \in Loop /\ c > cur)

Untouched(c) ==
  /\ late[c] = {} /\ ~lost[c]
  /\ \A q \in Nsid : io_cq[c][q] = 0 /\ io_sq[c][q] = 0
  /\ c \notin broken /\ c \notin abandoned
  /\ nsids[c] = {}

EnabledAt(c) ==
  /\ Untried(c) => Untouched(c) /\ ~enabled[c]
  /\ pc \in {"init", "irq", "list"} /\ c = cur => Untouched(c)
  /\ InInit(c) => (enabled[c] <=> step > 8)
  /\ pc \in {"irq", "list", "unit"} /\ c = cur => enabled[c]
  /\ enabled[c] => c \in abandoned \/ InInit(c) \/ ptr[c] = AdminPointers

(* A controller whose answers are off has failed once, and so has one whose *)
(* memory has been freed under it before the driver is taken down.          *)
FailureAt(c) ==
  /\ late[c] # {} => lost[c]
  /\ lost[c] => c \in broken
  /\ pc \in Opening \cup Loop \cup {"loaded"} =>
       (c \in abandoned => c \in broken)

\* Queue q of c belongs to namespace n: a unit's, or about to be one's.
UnitOwns(c, q, n) ==
  \E i \in DOMAIN global_units :
    global_units[i] = [ctrl |-> c, nsid |-> n, queue_id |-> q]
Creating(c, q, n) ==
  pc = "unit" /\ step = 12 /\ c = cur /\ q = QueueId /\ n = Head(ns)

QueueAt(c) ==
  \A q \in Nsid :
    /\ io_sq[c][q] # 0 => io_cq[c][q] # 0
    /\ enabled[c] /\ c \notin abandoned =>
         /\ io_cq[c][q] # 0 =>
              UnitOwns(c, q, io_cq[c][q]) \/ Creating(c, q, io_cq[c][q])
         /\ io_sq[c][q] # 0 => UnitOwns(c, q, io_sq[c][q])
         /\ \A n \in Nsid :
              /\ <<"cq", q, n>> \in late[c] =>
                   UnitOwns(c, q, n) \/ Creating(c, q, n)
              /\ <<"sq", q, n>> \in late[c] => UnitOwns(c, q, n)

\* A unit has its queues, unless the answers of its controller are off.
Served(u) ==
  \/ lost[u.ctrl]
  \/ /\ enabled[u.ctrl]
     /\ io_cq[u.ctrl][u.queue_id] = u.nsid
     /\ io_sq[u.ctrl][u.queue_id] = u.nsid

ServedInv ==
  /\ pc \in Loop \cup {"loaded"} =>
       \A i \in DOMAIN global_units :
         global_units[i].queue_id \in Nsid /\ Served(global_units[i])
  /\ pc = "unit" /\ step = 12 => lost[cur] \/ io_cq[cur][QueueId] = Head(ns)

\* The loader is done with c, or past listing its namespaces.
Tried(c) ==
  /\ c <= num_controllers
  /\ \/ pc \in {"bring", "irq", "list", "unit"} /\ c <= cur
     \/ pc = "init" /\ c < cur
     \/ pc = "loaded"
     \/ pc = "undo" /\ cur = 1

Awaited(c) == IF pc = "unit" /\ c = cur THEN {ns[k] : k \in DOMAIN ns} ELSE {}
Listed(c) == {global_units[i].nsid : i \in UnitsOf(c)}

PublishAt(c) ==
  c \notin broken /\ Tried(c) =>
    enabled[c] /\ nsids[c] \subseteq Listed(c) \cup Awaited(c)

EnabledInv == \A c \in Ctrl : EnabledAt(c)
FailureInv == \A c \in Ctrl : FailureAt(c)
QueueInv == \A c \in Ctrl : QueueAt(c)
PublishInv == \A c \in Ctrl : PublishAt(c)

-----------------------------------------------------------------------------
BringupInv ==
  /\ TypeOK
  /\ PlaceInv /\ HaveInv
  /\ MemoryInv
  /\ BusCounts /\ IrqCounts /\ AdminCounts /\ UnitCounts /\ UnheldInv
  /\ TurnInv /\ RoomInv /\ TableInv /\ PendingInv
  /\ EnabledInv /\ FailureInv /\ QueueInv /\ ServedInv /\ PublishInv

=============================================================================

------------------------------ MODULE Bringup -------------------------------
(***************************************************************************)
(* How the driver comes up and goes: _manager_Init (src/src/Init.c) with   *)
(* DiscoverNVMe, InitNVMe, InstallNVMeInterrupt and DiscoverUnits, and     *)
(* _manager_Expunge (src/src/Expunge.c) with RemoveNVMeInterrupt and       *)
(* CleanupNVMe, where any step may fail, beside controllers that go on     *)
(* using the memory they were given.                                       *)
(*                                                                         *)
(* pc is the place of the task that loads or unloads the driver:           *)
(*   expansion, ipci, pci, utility, iutility   Init.c (1) to (3)           *)
(*   bring         the loop over the controllers, at `cur'                 *)
(*   init          InitNVMe, at `step' of InitSteps                        *)
(*   irq, list     InstallNVMeInterrupt, Identify of the namespaces        *)
(*   unit          the loop over the namespaces, at `ns' and `step'        *)
(*   undo, err     the unwinding of a load that has failed                 *)
(*   loaded        Init has returned the library                           *)
(*   quiesce, free, release    the three loops of Expunge                  *)
(*   failed, gone  not loaded, unloaded                                    *)
(***************************************************************************)
EXTENDS Integers, Sequences, FiniteSets

CONSTANTS
  MaxControllers,  \* NVME_MAX_CONTROLLERS
  MaxNamespaces,   \* NVME_MAX_UNITS_PER_CTRL
  MaxFaults        \* bound on steps that fail

ASSUME BringupAssumption ==
  /\ {MaxControllers, MaxNamespaces} \subseteq Nat \ {0}
  /\ MaxFaults \in Nat

Ctrl == 1 .. MaxControllers
Nsid == 1 .. MaxNamespaces
MaxGlobalUnits == MaxControllers * MaxNamespaces

\* What is acquired and released, each under its own counter.
Libraries == {"expansion", "ipci", "utility", "iutility"}
Vectors == {"admin_sq", "admin_cq", "identify_buf"}
Pins == {"admin_sq_pin", "admin_cq_pin", "identify_pin"}
Entries == {"admin_sq_dma", "admin_cq_dma", "identify_dma"}
UnitMemory == {"unit", "io_sq", "io_cq", "sq_pin", "cq_pin"}
UnitEntries == {"sq_dma", "cq_dma"}

Of(names, c, n) == {<<x, c, n>> : x \in names}
Resource ==
  (Libraries \X {0} \X {0})
    \cup (({"pcidev", "resource", "irq"} \cup Vectors \cup Pins \cup Entries)
            \X Ctrl \X {0})
    \cup ((UnitMemory \cup UnitEntries) \X Ctrl \X Nsid)

\* An admin command that uses or hands over memory: Identify into
\* identify_buf, Create I/O CQ and SQ with a queue id and a namespace's memory.
Identify == <<"identify", 0, 0>>
Commands == {Identify} \cup ({"cq", "sq"} \X Nsid \X Nsid)

VARIABLES
  pc, cur, step, ns,
  count,            \* the nvme_leak counters, for each object
  num_controllers, ctrls_up, global_units,
  have,             \* the have_... flags of _manager_Init
  ptr,              \* ptr[c]: pointers of struct NVMeController, not NULL
  flags,            \* the have_... flags of InitNVMe
  local,            \* what this turn of the namespace loop holds
  irq_installed,
  enabled,          \* the controller runs with our queues
  io_cq, io_sq,     \* its queues: queue id -> the namespace whose memory it is
  late,             \* commands given up on that it may still carry out
  lost,             \* it has not answered in time: answers are off by one
  faults,           \* history: steps that have failed,
  broken,           \* those that hit each controller,
  abandoned,        \* memory that was freed with a controller still using it,
  unheld,           \* objects that were released without being held,
  nsids             \* and the namespaces each has listed with a capacity

placeVars == <<pc, cur, step, ns>>
hwVars == <<enabled, io_cq, io_sq, late, lost>>
libVars == <<have, num_controllers>>
ctrlVars == <<ptr, flags, irq_installed, unheld>>
unitVars == <<global_units, ctrls_up, local, nsids>>
vars == <<placeVars, count, libVars, ctrlVars, unitVars, hwVars, faults,
          broken, abandoned>>

Places == {"expansion", "ipci", "pci", "utility", "iutility", "bring", "init",
           "irq", "list", "unit", "undo", "err", "loaded", "quiesce", "free",
           "release", "failed", "gone"}

InitSteps == <<"disable", "admin_sq", "admin_cq", "admin_sq_pin",
               "admin_sq_dma", "admin_cq_pin", "admin_cq_dma", "enable",
               "ready", "identify_buf", "identify_pin", "identify_dma",
               "identify">>
UnitSteps == <<"unit", "identify", "io_sq", "io_cq", "queues", "sq_pin",
               "sq_dma", "cq_pin", "cq_dma", "entries", "create_cq",
               "create_sq">>

(* Types; the tables of namespaces and units do not outgrow their arrays   *)
(* (nvme_admin.c:295, unit_discovery.c:36-37, 171-172).                    *)
TypeOK ==
  /\ pc \in Places
  /\ cur \in 0 .. MaxControllers + MaxGlobalUnits
  /\ step \in 1 .. Len(InitSteps)
  /\ ns \in Seq(Nsid)
  /\ ctrls_up \in 0 .. MaxControllers
  /\ count \in [Resource -> Int]
  /\ num_controllers \in 0 .. MaxControllers
  /\ global_units \in Seq([ctrl : Ctrl, nsid : Nsid, queue_id : Nat])
  /\ Len(global_units) <= MaxGlobalUnits
  /\ have \subseteq Libraries \cup {"discovery"}
  /\ ptr \in [Ctrl -> SUBSET (Vectors \cup Entries)]
  /\ flags \subseteq Vectors \cup Pins
  /\ local \subseteq UnitMemory \cup UnitEntries
  /\ irq_installed \in [Ctrl -> BOOLEAN]
  /\ enabled \in [Ctrl -> BOOLEAN]
  /\ io_cq \in [Ctrl -> [Nsid -> 0 .. MaxNamespaces]]
  /\ io_sq \in [Ctrl -> [Nsid -> 0 .. MaxNamespaces]]
  /\ late \in [Ctrl -> SUBSET Commands]
  /\ lost \in [Ctrl -> BOOLEAN]
  /\ faults \in 0 .. MaxFaults
  /\ broken \subseteq Ctrl /\ abandoned \subseteq Ctrl
  /\ unheld \subseteq Resource
  /\ nsids \in [Ctrl -> SUBSET Nsid]

Init ==
  /\ pc = "expansion" /\ cur = 0 /\ step = 1 /\ ns = <<>>
  /\ ctrls_up = 0
  /\ count = [r \in Resource |-> 0]
  /\ num_controllers = 0 /\ global_units = <<>>
  /\ have = {}
  /\ ptr = [c \in Ctrl |-> {}] /\ flags = {} /\ local = {}
  /\ irq_installed = [c \in Ctrl |-> FALSE]
  /\ enabled = [c \in Ctrl |-> FALSE]
  /\ io_cq = [c \in Ctrl |-> [q \in Nsid |-> 0]]
  /\ io_sq = [c \in Ctrl |-> [q \in Nsid |-> 0]]
  /\ late = [c \in Ctrl |-> {}] /\ lost = [c \in Ctrl |-> FALSE]
  /\ faults = 0 /\ broken = {} /\ abandoned = {} /\ unheld = {}
  /\ nsids = [c \in Ctrl |-> {}]

Goto(place) == pc' = place

Acquire(S) == count' = [r \in Resource |-> count[r] + IF r \in S THEN 1 ELSE 0]
Release(S) == count' = [r \in Resource |-> count[r] - IF r \in S THEN 1 ELSE 0]
AcquireThenRelease(S, T) ==
  count' = [r \in Resource |-> count[r] + (IF r \in S THEN 1 ELSE 0)
                                       - (IF r \in T THEN 1 ELSE 0)]

Fault == faults < MaxFaults /\ faults' = faults + 1

-----------------------------------------------------------------------------
(* Libraries, interfaces and the PCI bus.                                  *)

After == [expansion |-> "ipci", ipci |-> "pci",
          utility |-> "iutility", iutility |-> "bring"]

OpenLibrary ==
  /\ pc \in Libraries
  /\ \/ Acquire({<<pc, 0, 0>>}) /\ have' = have \cup {pc} /\ Goto(After[pc])
        /\ UNCHANGED faults
     \/ Fault /\ Goto("err") /\ UNCHANGED <<count, have>>
  /\ UNCHANGED <<cur, step, ns, num_controllers, ctrlVars, unitVars, hwVars,
                 broken, abandoned>>

PciObjects(C) == UNION {Of({"pcidev", "resource"}, c, 0) : c \in C}

\* A controller of the bus with a usable BAR 0 that passes the probe.
FoundController ==
  /\ num_controllers' = num_controllers + 1
  /\ Acquire(PciObjects({num_controllers + 1}))
  /\ cur' = cur + 1
  /\ UNCHANGED <<pc, have, faults>>

\* One that is skipped: its range and its device are released at once.
SkippedController ==
  /\ Fault
  /\ cur' = cur + 1
  /\ UNCHANGED <<pc, num_controllers, have, count>>

EndOfBus ==
  /\ cur' = 0
  /\ IF num_controllers = 0
     THEN Goto("err") /\ UNCHANGED have
     ELSE Goto("utility") /\ have' = have \cup {"discovery"}
  /\ UNCHANGED <<num_controllers, count, faults>>

DiscoverNVMe ==
  /\ pc = "pci"
  /\ \/ cur < MaxControllers /\ (FoundController \/ SkippedController)
     \/ EndOfBus
  /\ UNCHANGED <<step, ns, ctrlVars, unitVars, hwVars, broken, abandoned>>

(* The loop over the controllers; at its end a driver without units is     *)
(* taken down again.                                                       *)
BringUp ==
  /\ pc = "bring"
  /\ IF cur < num_controllers
     THEN cur' = cur + 1 /\ Goto("init")
     ELSE IF ctrls_up = 0 \/ global_units = <<>>
     THEN cur' = 1 /\ Goto("undo")
     ELSE UNCHANGED cur /\ Goto("loaded")
  /\ step' = 1
  /\ flags' = {}
  /\ UNCHANGED <<ns, count, libVars, ptr, irq_installed, unheld, unitVars,
                 hwVars, faults, broken, abandoned>>

-----------------------------------------------------------------------------
(* Admin commands of the loader, which is alone in using the queue.        *)

\* The controller can carry out cmd: a queue id is free, an SQ has its CQ.
Feasible(c, cmd) ==
  /\ cmd[1] = "cq" => io_cq[c][cmd[2]] = 0
  /\ cmd[1] = "sq" => io_cq[c][cmd[2]] # 0 /\ io_sq[c][cmd[2]] = 0

\* It does.
CarryOut(c, cmd) ==
  /\ io_cq' = IF cmd[1] = "cq" THEN [io_cq EXCEPT ![c][cmd[2]] = cmd[3]]
                               ELSE io_cq
  /\ io_sq' = IF cmd[1] = "sq" THEN [io_sq EXCEPT ![c][cmd[2]] = cmd[3]]
                               ELSE io_sq

Failure(c) == Fault /\ broken' = broken \cup {c}

(* NVMe_AdminCmd returns whether cmd has succeeded.  Once a poll has given *)
(* up on a command, each answer is the answer to an earlier one.           *)
AdminCmd(c, cmd, ok) ==
  /\ \/ /\ Feasible(c, cmd) /\ CarryOut(c, cmd)
        /\ ok \/ lost[c]
        /\ UNCHANGED <<late, lost, faults, broken>>
     \/ /\ ~ok \/ lost[c]
        /\ IF Feasible(c, cmd) THEN Failure(c)
                               ELSE UNCHANGED <<faults, broken>>
        /\ UNCHANGED <<io_cq, io_sq, late, lost>>
     \/ /\ late' = [late EXCEPT ![c] = @ \cup {cmd}]
        /\ IF lost[c] THEN UNCHANGED <<faults, broken>> ELSE ~ok /\ Failure(c)
        /\ lost' = [lost EXCEPT ![c] = TRUE]
        /\ UNCHANGED <<io_cq, io_sq>>
  /\ UNCHANGED enabled

(* The controller carries out, or refuses, a command nobody waits for.     *)
Late(c) ==
  /\ enabled[c]
  /\ \E cmd \in late[c] :
       /\ late' = [late EXCEPT ![c] = @ \ {cmd}]
       /\ IF Feasible(c, cmd) THEN CarryOut(c, cmd)
                              ELSE UNCHANGED <<io_cq, io_sq>>
  /\ UNCHANGED <<placeVars, count, libVars, ctrlVars, unitVars, enabled, lost,
                 faults, broken, abandoned>>

-----------------------------------------------------------------------------
(* InitNVMe.                                                               *)

InitStep == InitSteps[step]

\* A buffer, its pin or its DMA entries.
InitAcquires ==
  /\ InitStep \in Vectors \cup Pins \cup Entries
  /\ Acquire({<<InitStep, cur, 0>>})
  /\ ptr' = [ptr EXCEPT ![cur] = @ \cup ({InitStep} \ Pins)]
  /\ flags' = flags \cup ({InitStep} \ Entries)
  /\ step' = step + 1
  /\ UNCHANGED <<pc, cur, unheld, hwVars, faults, broken, abandoned>>

\* CSTS.RDY has followed CC.EN; and the enabling itself.
InitWaits ==
  /\ InitStep \in {"disable", "enable", "ready"}
  /\ enabled' = [enabled EXCEPT ![cur] = @ \/ InitStep = "enable"]
  /\ step' = step + 1
  /\ UNCHANGED <<pc, cur, count, ptr, flags, unheld, io_cq, io_sq, late, lost,
                 faults, broken, abandoned>>

(* The `err' label, which does not disable the controller.  A pin is       *)
(* counted and its flag raised before the answer of StartDMA is looked at: *)
(* one that was refused is released like the others.                       *)
Ended(refused) == Of(flags \cup refused \cup (ptr[cur] \cap Entries), cur, 0)

BadInitErr(refused) ==  \* forgets the entries of the completion queue
  /\ AcquireThenRelease(Of(refused, cur, 0),
                        Ended(refused) \ Of({"admin_cq_dma"}, cur, 0))
  /\ unheld' = unheld \cup {r \in Ended(refused) : count[r] = 0}
  /\ ptr' = [ptr EXCEPT ![cur] = {}]
  /\ abandoned' = IF enabled[cur] THEN abandoned \cup {cur} ELSE abandoned

InitErr(refused) ==
  /\ AcquireThenRelease(Of(refused, cur, 0), Ended(refused))
  /\ unheld' = unheld \cup {r \in Ended(refused) : count[r] = 0}
  /\ ptr' = [ptr EXCEPT ![cur] = {}]
  /\ abandoned' = IF enabled[cur] THEN abandoned \cup {cur} ELSE abandoned

\* Back in _manager_Init: on to the next controller.
BadSkipController ==  \* gives up on the rest of the controllers
  Goto("bring") /\ cur' = num_controllers

SkipController == Goto("bring") /\ UNCHANGED cur

InitFails ==
  /\ InitStep \notin {"enable", "identify"}
  /\ Failure(cur)
  /\ InitErr({InitStep} \cap Pins)
  /\ SkipController
  /\ UNCHANGED <<step, flags, hwVars>>

InitIdentifies ==
  /\ InitStep = "identify"
  /\ \/ /\ AdminCmd(cur, Identify, TRUE)
        /\ Goto("irq")
        /\ UNCHANGED <<cur, count, ptr, unheld, abandoned>>
     \/ AdminCmd(cur, Identify, FALSE) /\ InitErr({}) /\ SkipController
  /\ UNCHANGED <<step, flags>>

InitNVMe ==
  /\ pc = "init"
  /\ InitAcquires \/ InitWaits \/ InitFails \/ InitIdentifies
  /\ UNCHANGED <<ns, libVars, irq_installed, unitVars>>

(* Without an interrupt the units poll.                                    *)
InstallNVMeInterrupt ==
  /\ pc = "irq"
  /\ \E installed \in BOOLEAN :
       /\ irq_installed' = [irq_installed EXCEPT ![cur] = installed]
       /\ Acquire(IF installed THEN {<<"irq", cur, 0>>} ELSE {})
  /\ Goto("list")
  /\ UNCHANGED <<cur, step, ns, libVars, ptr, flags, unheld, unitVars, hwVars,
                 faults, broken, abandoned>>

-----------------------------------------------------------------------------
(* DiscoverUnits.                                                          *)

\* Back in _manager_Init, however many units there are.
DiscoverUnitsReturns ==
  /\ ctrls_up' = ctrls_up + 1
  /\ ns' = <<>>
  /\ Goto("bring")

\* How many namespaces the loader has room for.
BadRoom == 1 .. MaxNamespaces + 1  \* one too many
Room == 1 .. MaxNamespaces

\* The namespaces of the controller; there may be none.
ListNamespaces ==
  /\ pc = "list"
  /\ \/ /\ AdminCmd(cur, Identify, TRUE)
        /\ \E n \in Room :
             /\ ns' = [i \in 1 .. n |-> i]
             /\ nsids' = [nsids EXCEPT ![cur] = 1 .. n]
        /\ Goto("unit")
        /\ UNCHANGED ctrls_up
     \/ /\ \E ok \in BOOLEAN : AdminCmd(cur, Identify, ok)
        /\ DiscoverUnitsReturns
        /\ UNCHANGED nsids
  /\ step' = 1
  /\ local' = {}
  /\ UNCHANGED <<cur, count, libVars, ctrlVars, global_units, abandoned>>

UnitStep == UnitSteps[step]

UnitsOf(c) == {i \in DOMAIN global_units : global_units[i].ctrl = c}
QueueId == Cardinality(UnitsOf(cur)) + 1

\* The next turn of the loop.
NextNamespace ==
  /\ ns' = Tail(ns)
  /\ step' = 1
  /\ local' = {}

Proceed == step' = step + 1 /\ UNCHANGED ns

Here(names) == Of(names, cur, Head(ns))

\* What each error path frees; some of it only if it is there.
UnitFrees ==
  CASE UnitStep = "identify" -> {"unit"}
    [] UnitStep \in {"queues", "sq_pin"} -> {"unit", "io_sq", "io_cq"}
    [] UnitStep = "cq_pin" -> {"unit", "io_sq", "io_cq", "sq_pin", "sq_dma"}
    [] UnitStep = "entries" -> UnitMemory \cup UnitEntries
    [] UnitStep \in {"create_cq", "create_sq"} -> UnitMemory
    [] OTHER -> {}
IfThere == {"io_sq", "io_cq", "sq_dma", "cq_dma"}

\* The namespace is given up.  A queue that the controller has been given is
\* not deleted.
DropNamespace ==
  /\ Release(Here(UnitFrees \ (IfThere \ local)))
  /\ abandoned' = IF io_cq'[cur][QueueId] = Head(ns)
                       \/ \E cmd \in late'[cur] : cmd[3] = Head(ns)
                  THEN abandoned \cup {cur} ELSE abandoned
  /\ NextNamespace

\* Never, as the array has room for every namespace of every controller.
TableFull == Len(global_units) >= MaxGlobalUnits

EndOfNamespaces ==
  /\ UnitStep = "unit"
  /\ ns = <<>> \/ TableFull
  /\ DiscoverUnitsReturns
  /\ UNCHANGED <<step, count, local, global_units, nsids, hwVars, faults,
                 broken, abandoned>>

\* An allocation or a pin.
UnitAcquires ==
  /\ UnitStep \in UnitMemory \cup UnitEntries
  /\ UnitStep = "unit" => ns # <<>> /\ ~TableFull
  /\ Acquire(Here({UnitStep}))
  /\ local' = local \cup {UnitStep}
  /\ Proceed
  /\ UNCHANGED <<global_units, nsids, hwVars, faults, broken, abandoned>>

\* One that fails, and is noticed at once or later.
UnitAllocFails ==
  /\ UnitStep \in UnitMemory \cup UnitEntries
  /\ UnitStep = "unit" => ns # <<>> /\ ~TableFull
  /\ Failure(cur)
  /\ UNCHANGED hwVars
  /\ IF UnitStep \in IfThere
     THEN Proceed /\ UNCHANGED <<count, local, abandoned>>
     ELSE DropNamespace
  /\ UNCHANGED <<global_units, nsids>>

\* The two checks; with both physical addresses known the entries go.
UnitChecks ==
  /\ UnitStep \in {"queues", "entries"}
  /\ UNCHANGED hwVars
  /\ IF (IF UnitStep = "queues" THEN {"io_sq", "io_cq"} ELSE UnitEntries)
          \subseteq local
     THEN /\ Release(Here(local \cap UnitEntries))
          /\ local' = local \ UnitEntries
          /\ Proceed
          /\ UNCHANGED abandoned
     ELSE DropNamespace
  /\ UNCHANGED <<global_units, nsids, faults, broken>>

UnitIdentifies ==
  /\ UnitStep = "identify"
  /\ \/ /\ AdminCmd(cur, Identify, TRUE)
        /\ \/ Proceed /\ UNCHANGED <<count, local, abandoned, nsids>>
           \/ \* no capacity
              /\ DropNamespace
              /\ nsids' = [nsids EXCEPT ![cur] = @ \ {Head(ns)}]
     \/ AdminCmd(cur, Identify, FALSE) /\ DropNamespace /\ UNCHANGED nsids
  /\ UNCHANGED global_units

CreateIOCQ ==
  /\ UnitStep = "create_cq"
  /\ LET cmd == <<"cq", QueueId, Head(ns)>>
     IN \/ /\ AdminCmd(cur, cmd, TRUE)
           /\ Proceed
           /\ UNCHANGED <<count, local, abandoned>>
        \/ AdminCmd(cur, cmd, FALSE) /\ DropNamespace
  /\ UNCHANGED <<global_units, nsids>>

\* Announced units are those of the table.
Register(id) ==
  global_units' =
    Append(global_units, [ctrl |-> cur, nsid |-> Head(ns), queue_id |-> id])

BadCreateIOSQ ==  \* takes the completion queue for both
  /\ UnitStep = "create_sq"
  /\ \E ok \in BOOLEAN : AdminCmd(cur, <<"sq", QueueId, Head(ns)>>, ok)
  /\ Register(QueueId)
  /\ NextNamespace
  /\ UNCHANGED <<count, abandoned, nsids>>

CreateIOSQ ==
  /\ UnitStep = "create_sq"
  /\ LET cmd == <<"sq", QueueId, Head(ns)>>
     IN \/ /\ AdminCmd(cur, cmd, TRUE)
           /\ Register(QueueId)
           /\ NextNamespace
           /\ UNCHANGED <<count, abandoned>>
        \/ AdminCmd(cur, cmd, FALSE) /\ DropNamespace /\ UNCHANGED global_units
  /\ UNCHANGED nsids

DiscoverUnits ==
  \/ ListNamespaces
  \/ /\ pc = "unit"
     /\ \/ EndOfNamespaces
        \/ /\ UNCHANGED <<pc, ctrls_up>>
           /\ \/ UnitAcquires \/ UnitAllocFails \/ UnitChecks \/ UnitIdentifies
              \/ CreateIOCQ \/ CreateIOSQ
     /\ UNCHANGED <<cur, libVars, ctrlVars>>

-----------------------------------------------------------------------------
(* Taking the driver down.                                                 *)

\* What CleanupNVMe frees; nothing without an admin queue.
CleanupFrees(c) ==
  IF "admin_sq" \notin ptr[c] THEN {}
  ELSE ptr[c]
         \cup (IF "identify_buf" \in ptr[c] THEN {"identify_pin"} ELSE {})
         \cup (IF "admin_sq_dma" \in ptr[c] THEN {"admin_sq_pin"} ELSE {})
         \cup (IF "admin_cq_dma" \in ptr[c] THEN {"admin_cq_pin"} ELSE {})

\* CC.SHN, and the controller has stopped or the poll gives up.
BadShutdown(c) == UNCHANGED <<enabled, faults, abandoned>>  \* does not ask

Shutdown(c) ==
  \/ /\ enabled' = [enabled EXCEPT ![c] = @ /\ "admin_sq" \notin ptr[c]]
     /\ UNCHANGED <<faults, abandoned>>
  \/ /\ "admin_sq" \in ptr[c]
     /\ Fault
     /\ abandoned' = abandoned \cup {c}
     /\ UNCHANGED enabled

\* RemoveNVMeInterrupt and CleanupNVMe of one controller.
BadQuiesceOne(c) ==  \* leaves the interrupt handler in place
  /\ UNCHANGED irq_installed
  /\ Shutdown(c)
  /\ Release(Of(CleanupFrees(c), c, 0))
  /\ ptr' = [ptr EXCEPT ![c] = {}]

QuiesceOne(c) ==
  /\ irq_installed' = [irq_installed EXCEPT ![c] = FALSE]
  /\ Shutdown(c)
  /\ Release(Of(CleanupFrees(c)
                  \cup (IF irq_installed[c] THEN {"irq"} ELSE {}), c, 0))
  /\ ptr' = [ptr EXCEPT ![c] = {}]

\* One turn of the loop over the controllers in _manager_Init and Expunge.
Quiesce ==
  /\ pc \in {"undo", "quiesce"}
  /\ IF cur <= num_controllers
     THEN QuiesceOne(cur) /\ cur' = cur + 1 /\ UNCHANGED pc
     ELSE /\ cur' = 1
          /\ Goto(IF pc = "undo" THEN "err" ELSE "free")
          /\ UNCHANGED <<count, ptr, irq_installed, enabled, faults,
                         abandoned>>
  /\ UNCHANGED <<step, ns, libVars, flags, unheld, unitVars, io_cq, io_sq, late,
                 lost, broken>>

(* The units' queues are freed, in the order of the flat table.            *)
FreeUnits ==
  /\ pc = "free"
  /\ IF cur <= Len(global_units)
     THEN /\ LET u == global_units[cur]
             IN Release(Of(UnitMemory, u.ctrl, u.nsid))
          /\ cur' = cur + 1
          /\ UNCHANGED <<pc, global_units>>
     ELSE /\ global_units' = <<>>
          /\ Goto("release")
          /\ UNCHANGED <<cur, count>>
  /\ UNCHANGED <<step, ns, libVars, ctrlVars, ctrls_up, local, nsids, hwVars,
                 faults, broken, abandoned>>

\* Libraries and interfaces, and the PCI objects of the controllers.
ReleaseAll ==
  Release(Of(have \cap Libraries, 0, 0)
            \cup (IF "discovery" \in have THEN PciObjects(1 .. num_controllers)
                                         ELSE {}))

(* The end of Expunge, and of an Init that failed.                         *)
Leave ==
  /\ pc \in {"release", "err"}
  /\ ReleaseAll
  /\ Goto(IF pc = "err" THEN "failed" ELSE "gone")
  /\ UNCHANGED <<cur, step, ns, libVars, ctrlVars, unitVars, hwVars, faults,
                 broken, abandoned>>

(* Nobody has the device open.                                             *)
Expunge ==
  /\ pc = "loaded"
  /\ Goto("quiesce")
  /\ cur' = 1
  /\ UNCHANGED <<step, ns, count, libVars, ctrlVars, unitVars, hwVars, faults,
                 broken, abandoned>>

-----------------------------------------------------------------------------
Next ==
  \/ OpenLibrary \/ DiscoverNVMe \/ BringUp \/ InitNVMe \/ InstallNVMeInterrupt
  \/ DiscoverUnits \/ Expunge \/ Quiesce \/ FreeUnits \/ Leave
  \/ \E c \in Ctrl : Late(c)

Spec == Init /\ [][Next]_vars

-----------------------------------------------------------------------------
(* Properties.                                                             *)

Held(S) == \A r \in S : count[r] = 1

(* No leak counter ever says that an object is held twice or released      *)
(* once too often, and a load that fails at any step, as well as an unload *)
(* after any failures, leaves none above zero (nvme_leak.h:7-11): what     *)
(* InitNVMe and DiscoverUnits acquire is what their error paths,           *)
(* CleanupNVMe, Init and Expunge release.  The counters do not tell a pin  *)
(* that InitNVMe was refused from one it got (nvme_init.c:138-141,         *)
(* 150-153, 216-219); such a pin, of a controller that is given up, is the *)
(* only thing that is ever released without being held.                    *)
Balanced ==
  /\ \A r \in Resource : count[r] \in {0, 1}
  /\ pc \in {"failed", "gone"} => \A r \in Resource : count[r] = 0
  /\ unheld \subseteq UNION {Of(Pins, c, 0) : c \in broken}

\* Memory that controller c may read or write now.
InUse(c) ==
  IF ~enabled[c] THEN {}
  ELSE Of({"admin_sq", "admin_sq_pin", "admin_cq", "admin_cq_pin"}, c, 0)
         \cup (IF Identify \in late[c]
               THEN Of({"identify_buf", "identify_pin"}, c, 0) ELSE {})
         \cup (UNION {Of({"io_cq", "cq_pin"}, c, io_cq[c][q])
                        : q \in {p \in Nsid : io_cq[c][p] # 0}})
         \cup (UNION {Of({"io_sq", "sq_pin"}, c, io_sq[c][q])
                        : q \in {p \in Nsid : io_sq[c][p] # 0}})

(* A controller uses only memory that is allocated and pinned, through     *)
(* discovery, a failed load and Expunge, which quiesces before it frees    *)
(* (Expunge.c:51-59).  The exceptions are the three places that free       *)
(* without having stopped it: InitNVMe after the enable, a namespace       *)
(* whose queues it has been given, and a shutdown it does not confirm.     *)
UsesHeldMemory == \A c \in Ctrl \ abandoned : Held(InUse(c))

(* While its interrupt handler is installed, everything the handler reads  *)
(* is there: the registers, and unit and completion queue of every unit    *)
(* (nvme_irq.c:49-60, 132-136).                                            *)
HandlerSafe ==
  \A c \in Ctrl : irq_installed[c] =>
    /\ Held(Of({"pcidev", "resource"}, c, 0))
    /\ \A i \in UnitsOf(c) :
         Held(Of({"unit", "io_cq"}, c, global_units[i].nsid))

(* A unit that can be opened has both its queues on its controller, under  *)
(* its queue id and in its memory, whichever namespaces before it were     *)
(* given up (unit_discovery.c:66, 161-172); not if a poll has timed out.   *)
UnitsServed ==
  pc = "loaded" =>
    \A i \in DOMAIN global_units :
      LET u == global_units[i]
      IN lost[u.ctrl] \/ /\ enabled[u.ctrl]
                         /\ io_cq[u.ctrl][u.queue_id] = u.nsid
                         /\ io_sq[u.ctrl][u.queue_id] = u.nsid

(* Init.c:12, 108: the failure of one controller does not hide another.    *)
(* One without failures runs, and what it lists is published, for which    *)
(* the table has room; the driver gives up only when there is nothing to   *)
(* publish.  Undo begins to take down at cur = 1.                          *)
Published(c) ==
  /\ enabled[c]
  /\ nsids[c] \subseteq {global_units[i].nsid : i \in UnitsOf(c)}

GoodControllersPublished ==
  pc = "loaded" \/ (pc = "undo" /\ cur = 1) =>
    \A c \in 1 .. num_controllers : c \in broken \/ Published(c)

(* Expunge.c:51-55: until the controller has been quiesced it may still    *)
(* write to the I/O completion queues, so the pages must stay mapped.      *)
PagesStayMapped ==
  \A c \in Ctrl : enabled[c] =>
    \A q \in Nsid :
      io_cq[c][q] # 0 => Held(Of({"io_cq", "cq_pin"}, c, io_cq[c][q]))

=============================================================================

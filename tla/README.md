# Verification of nvme.device

TLA+ models of the AmigaOS 4 NVMe driver in `src/`, TLC configurations that
check them on small instances, and TLAPS proofs of their invariants for every
instance. Paths below are relative to the repository.

## 1. The system

### Components, their state and operations

| Component | Source | State | Operations |
|---|---|---|---|
| Unit task | `src/unit_task.c` | the task, its port, pending signals, the loop's locals, `io_sq_tail` snapshot | event loop, port drain, `dispatch_ioreq`, `dispatch_rw` (one command or chunks), `wait_for_free_slot`, start, shutdown, exit |
| I/O queue pair | `src/nvme/nvme_io.c` | `inflight[]`, SQ ring and shadow tail, doorbell, CQ ring with head and phase, in-flight gauge, DMA pins | submit (with and without doorbell), ring, harvest, submit-and-wait, flush |
| Client entry points | `src/BeginIO.c` | the unit's port, `changeint_req`, `remove_req` | `BeginIO`, `AbortIO` |
| Interrupt handler | `src/nvme/nvme_irq.c` | INTMS | claim, mask, signal every unit of the controller |
| Admin queue | `src/nvme/nvme_admin.c` | `io_lock`, admin rings, `identify_buf`, MDTS, feature flags | `NVMe_AdminCmd`, Identify, Create queue, Set Features, `NVMe_RefreshSMART` |
| SMART cache, statistics | `src/nvme_stats.c` | `smart_cache`, counters | lazy refresh, snapshot |
| SCSI emulation | `src/unit_task.c`, `src/scsi_cmds/` | `vwc_enabled`, DSM buffer, `smart_cache` | TEST UNIT READY, INQUIRY, READ CAPACITY (10, 16), SYNCHRONIZE CACHE, UNMAP, MODE SENSE/SELECT, LOG SENSE, ATA PASS-THROUGH; there are no SCSI reads or writes |
| Open, Close, Expunge | `src/Open.c`, `Close.c`, `Expunge.c` | `lib_OpenCnt`, `LIBF_DELEXP`, `open_count` | the three vectors |
| Controller initialisation | `src/nvme/nvme_init.c`, `src/unit_discovery.c`, `src/Init.c` | controller registers, admin rings, units | `InitNVMe`, `CleanupNVMe`, `DiscoverUnits`, `_manager_Init` |
| PCI, MMU, platform | `src/pci/`, `src/nvme_mmu.c` | resources | enumeration |
| Leak counters, status table, libc | `src/nvme_leak.c`, `nvme_status.c`, `compat.c` | counters | |

### How they interact

A client calls `BeginIO` in its own task. Commands that move data are put on
the unit's message port; the unit task drains the port, writes submission
entries, rings the doorbell once per drain and replies requests when it
harvests their completions. The interrupt handler shares the completion ring
and the interrupt mask with the unit task. The admin queue is shared by every
task of a controller under the semaphore `io_lock`; its scratch buffer, the
SMART cache, `vwc_enabled` and the interrupt mask are shared without it.
`Open` creates the unit task and waits for its ready signal; the last `Close`
stops it and waits for its acknowledgement.

### What is hard

* The unit task never blocks on a completion it cannot poll for: signals are
  fetched and cleared by two calls, the line is masked by the handler and
  unmasked by the loop, the doorbell is written once for a batch.
* Three places poll with a bound (`dispatch_rw`, `NVMeIO_SubmitAndWait`,
  `NVMe_AdminCmd`) and give up on a command the controller may still complete.
* A reply is normally sent by the harvester, but left to the dispatcher for a
  chunk (`suppress_reply`).
* Clients abort requests that are being drained.
* Everything that starts can fail at each of its allocations.
* A transfer becomes LBAs and PRP entries through two paths, from buffers that
  exec may cut into pieces in any way, with a pin and an array to give back on
  every way out.
* A unit task that ends leaves its commands, rings and slots to the next one.
* Some state is shared with no lock at all.

### What makes each part correct

* Queue pair and unit task: each accepted request is replied exactly once,
  success only after its commands have been carried out; no lost wakeup,
  doorbell or unmask; slots, pins and the gauge agree; everything accepted is
  eventually replied.
* Data path: exactly the cells a request names are moved, from or to the memory
  its caller means; the controller only touches memory that is kept for it.
* SCSI: a handler writes within the buffer, reports what it wrote, and says
  nothing that is not so of capacity, write cache and health.
* Admin queue: a call gets the status of its own command and always returns;
  cache and write-cache flag are what the controller said.
* Life of a unit: whoever has it open is served; buffers outlive the task that
  uses them; nothing is leaked; a deferred expunge is carried out; held
  requests are replied once.

## 2. Modules

| Module | Models | |
|---|---|---|
| `IOQueues` | `nvme_io.c`: slots, both rings, submit, harvest, give-up; the controller | component |
| `UnitTask` | `unit_task.c` event loop and dispatch, `BeginIO`/`AbortIO`, `nvme_irq.c`; extends `IOQueues` | component, composition |
| `IORequests` | the promise to callers | abstract specification |
| `Transfer` | `dispatch_rw`'s chunks, `NVMeIO_SubmitNoRing` and `NVMeIO_Harvest` in full, `scsi_unmap.c`; the controller's DMA | component |
| `TransferInv`, `TransferProofs` | inductive invariants of pins, fields, commands under way, types, chunks and answers; theorems | proofs |
| `BlockDevice` | what a unit promises about data | abstract specification |
| `TaskLives` | one unit task after another on the same rings; extends `UnitTask` | composition |
| `Scsi` | `handle_scsi_cmd`, `scsi_mode.c`, `scsi_log_sense.c`, `scsi_ata_passthrough.c` | component |
| `ScsiInv`, `ScsiProofs` | inductive invariant, theorems | proofs |
| `TransferMC`, `TaskLivesMC`, `ScsiMC` | memory layout, requests, drives; a view | model checking |
| `UnitTaskInv`, `UnitTaskProofs` | the task, its port and its loop: inductive invariant, theorems | proofs |
| `CommandsInv`, `CommandsProofs` | rings, commands and what they achieve; the refinement of `IORequests` | proofs |
| `TaskLivesProofs` | the same over many lives of the task | proofs |
| `UnitTaskMC` | kinds of request per instance, a view | model checking |
| `AdminQueue` | `nvme_admin.c` at run time with its callers in `nvme_stats.c`, `scsi_mode.c`, `scsi_log_sense.c`, `scsi_ata_passthrough.c` | component |
| `AdminQueueInv`, `AdminQueueProofs` | inductive invariant, theorems | proofs |
| `AdminQueueMC` | the operation of each call | model checking |
| `Lifecycle` | `Open.c`, `Close.c`, `Expunge.c`, `UnitTask_Start`, `UnitTask_Shutdown`, the task's start and exit, held requests | component |
| `LifecycleInv`, `LifecycleProofs` | inductive invariants, theorems | proofs |
| `LifecycleMC` | which client owns which held request | model checking |
| `Bringup` | `Init.c`, `DiscoverNVMe`, `InitNVMe`, `CleanupNVMe`, installing and removing the interrupt, `DiscoverUnits`, the loops of `Expunge.c` | component |
| `BringupInv`, `BringupProofs` | inductive invariant, theorems | proofs |

Operators named `Bad...` stand beside the definition they are a mutation of;
no specification uses them. They are what a plausible slip would have made of
the code, and the properties must tell them from the real definition.

### IOQueues and UnitTask

A command is the pair of its request and the number of its chunk; LBAs, PRP
entries and data are abstracted to that pair, and `media` is the set of
commands carried out. One call to a primitive of `nvme_io.c` is one step, as
the unit task is its only caller; `NVMeIO_Harvest` takes one step per entry.
`pc` is the unit task's place in the loop (the table is in the module); every
call of `NVMeIO_Harvest` in the code has a place of its own (`yield`, `wake`,
`drained`, `full`, `poll`), and what follows the call (`EndYield`, `EndWake`,
`FullUnmask`, `PollUnmask`, ...) is the action that ends it. `dispatch_ioreq`
is reduced to six kinds of request: one command (`rw`), above MDTS (`split`),
`flush`, submit-and-wait (`sync`), length zero (`empty`) and answered from
memory (`inline`). The controller fetches in ring order, executes concurrently
and completes in any order, successfully or not.

The module models one unit of a controller. `intms` says who has set the
interrupt mask since it was last lifted. Three write it beside this task
(`MaskWriters`): the handler, which with further units (`OtherUnits`) also runs
for their completions and signals every task; the tasks of those units, which
lift it whenever they go round their loop (`OtherUnmask`); and
`NVMe_AdminCmd`, which sets it from any task at any time and leaves it so
(`AdminMask`: a client's NSCMD_NVME_GETSTATS, another unit's MODE SELECT). The
last may leave a sleeping task masked with no signal pending, so
`HandlerMaskLifted` speaks of the handler's mask only; nothing depends on the
other, because a task with a command in flight polls and does not sleep
(`NoLostWakeup`).

### Transfer and BlockDevice

The same task as in `UnitTask`, seen from the data: a command is a record with
its LBA, its number of blocks and its two PRPs, memory and disk are functions
from addresses to contents, and rings and signals are gone. `Frame` is the page
table of the callers' memory. `DmaLists` is what exec may answer to
`GetDMAList`: the entries break wherever the frames are not contiguous and may
break at every page. `Scan` is the walk over those entries as a set of
positions, `DirectRest` the PRP entries it emits. The controller follows the
PRPs as the NVMe specification says and refuses entries that are not
page-aligned. `faulted` and `giveups` are history: who met a refusal that was
not its own fault, and how many waits gave up. A pin is recorded with the
request it was taken for, as exec counts every pin of a buffer: two requests
may name the same memory.

`BlockDevice` knows requests, memory as its owner addresses it, and the disk:
between acceptance and answer a request may change its own cells to what it
asked for, and a success means that all of them have changed. It promises
nothing about two requests under way that share memory or blocks, nor (`trust`)
after a wait has given up, when the controller may still carry out a command
nobody waits for. In `Transfer` the refinement mapping reads memory through
`Phys`.

### TaskLives

`UnitTask` with `UnitTask_Shutdown` and `UnitTask_Start` around it. `Leave` ends
the loop where the code tests `task_shutdown` or sees Ctrl-C, `DrainPort`
aborts what is on the port, `Free` and `Start` exchange buffers and task, and
none of them touches the in-flight table, the rings or the doorbell. While no
task runs the interrupt handler has nobody to signal (`DeafInterrupt`). A
client may close with requests outstanding; nobody sends to a closed unit.

### Scsi

One client and one SCSICmd; one step of `HandleScsiCmd` is one call of a
handler. Contents that a property speaks of are kept (the caching page byte by
byte, capacities, temperature, the normalised health values), identification
strings are only counted. `SendBack` returns to MODE SELECT what MODE SENSE has
answered. `wanted` is the write cache as the successful MODE SELECTs asked for
it, computed from the pages they meant and not from the walk.

### AdminQueue

`pc[c]` is the place of each call from the test of the cache or of
`vwc_enabled` to the use of the result. `MaskIrq` and `UnmaskIrq` are what the
I/O side does to the same register. The controller may refuse a command,
complete it late, or never fetch it at all. The Identify and Create-queue
commands run before any unit exists and appear as the initial ring position
`AtInit` only.

### Lifecycle

One unit and its clients. Slots whose bounce buffer, PRP page or pool is
allocated are sets; `leak_dma` stands for `nvme_leak_dma` and the equal
`nvme_leak_vec` of these buffers, `leak_port` for port and signal.
Pointers keep whatever an earlier life of the unit left in them, as in the
code, so a start that overwrites them shows. The event loop is reduced to the
promise of `IORequests`: what it takes from the port it replies at some time.
A client may close with a request outstanding. exec is assumed to run one
vector of a device at a time (`vector`): the code has no lock of its own, and
two first opens at once would start two tasks.

### Bringup

One task loads and unloads the driver; `pc` is its place, `InitSteps` and
`UnitSteps` are the order of the steps inside `InitNVMe` and one turn of
`DiscoverUnits`, and each step that can fail may do so (`faults`). `count` has
one counter for each object that `nvme_leak.h` counts, for each controller and
namespace, so that a release of the wrong object shows; an object has the name
of the pointer or flag that remembers it. The pointers of `NVMeController`
outlive `InitNVMe`, because `CleanupNVMe` reads them again (`ptr`); `flags` and
`local` are the locals of the two functions. Beside the task runs the
controller: `io_cq` and `io_sq` say which memory it uses under which queue id,
it refuses an id that is taken and a submission queue without its completion
queue, and a command nobody waits for any more may still be carried out
(`late`). After such a timeout every answer belongs to an earlier command
(`lost`), because `NVMe_AdminCmd` takes whatever entry comes next. The error
path of `InitNVMe` is one step that takes the pin which was refused, if that is
why it is there: the code has counted and flagged it, so the path releases it
like the others, and `unheld` remembers every release of an object whose counter
said that it was not held. A namespace list may be empty after a success too.

### Findings that no run reports

In `UnitTask`, `AdminQueue` and `Lifecycle`: `UnitTask_Shutdown` can call
`Signal` on a task pointer that has become NULL, because the task also sees
`task_shutdown` at the top of its loop (`unit_task.c:1208-1211`; action
`Signal` then does nothing); `nvme_device.h:117-119` describes the
acknowledgement before `unit->task` is cleared, `unit_task.c:893-900` and
`docs/architecture.md:217` have it after; three overlapping MODE SELECTs can
leave `vwc_enabled` different from the controller for good; and with as many
poll timeouts as `queue_depth - MaxInflight` before the controller fetches,
the ring can wrap onto unfetched entries (`nvme.h:311-315`), which is why
`SqNeverFills` is checked with fewer.

In `AdminQueue`: `NVMe_RefreshSMART` clears `identify_buf` (429) before it
obtains `io_lock` (432) and parses it after the release (437, 447-468), so with
two overlapping refreshes one may clear what the other is about to parse and
`smart_cache` becomes a valid log of zeros; the comment at
`nvme_admin.c:411-413` says "admin commands are serialised under io_lock so no
race with any concurrent Identify". `CacheReal` therefore excludes overlapping
refreshes. The event loop unmasks the interrupt whether or not an admin command
is under way (`unit_task.c:860-863`; `UnmaskIrq`), while
`docs/architecture.md:237-238` says "The admin completion vector (`INTMS` bit 0)
stays **masked** for the life of the driver" and `nvme_admin.c:53-54` calls the
mask critical "for the duration of this admin command".

In `Lifecycle`: TD_ADDCHANGEINT tests and stores `changeint_req` without a lock
(`BeginIO.c:94`); with two clients at once the second store orphans the first
request, against the comment at `BeginIO.c:92-93`. `HeldOnce` is checked for
one owner.

In `TaskLives`: requests in flight at exit are neither replied nor aborted; a
later life completes them, copying a bounced read from the new bounce buffer
with success. `Free` may release memory that a command given up earlier is
still to use, which is why `FreedQuiet` has its two conditions.

In `Transfer` and the code beside it:

* With MDTS of 20 or more the shift at `nvme_admin.c:173` overflows and the
  limit is zero; a chunk of length zero gets -2 and the request is replied as
  done with nothing moved, which is what `nvme_io.c:165-167` means to rule out.
  Instances give `Mdts` the values controllers report.
* A CMD_READ or CMD_WRITE whose chunks pass 4 GiB wraps to the start of the
  disk, because only 64-bit commands have their high word read. `dispatch_rw`
  computes it for each chunk all the same.
* With a controller page larger than the host's, the walk over DMA entries
  emits entries that are not page-aligned (`nvme_io.c:403-434`). `nvme_init.c:72`
  takes the controller's minimum, 4 KiB for `MPSMIN` 0, and `nvme_admin.c:164`
  counts with 4 KiB; `MemoryAssumption` says that pages are no larger than exec's.
* On the fast path a refusal by StartDMA, GetDMAList or for want of a slot
  leaves `io_Actual` as the client sent it, the high word of an offset
  included (`Answer`).
* After an UNMAP has been given up the controller may read `dsm_buf` when the
  next UNMAP has rewritten it.
* The comment at `nvme_io.c:666` says that a timeout fabricates an
  IOERR_ABORTED; `NVMeIO_SubmitAndWait` returns a status and leaves `io_Error` alone, and the handlers set HFERR_BadStatus.
* The overflow guard of the bounce path is unreachable for the sizes the driver
  uses; `TransferAssumption` says so and the model omits it.
* `docs/architecture.md:149` calls CMD_FLUSH an inline no-op; the code queues a
  Flush command.

In `Scsi`:

* `nvme_scsi.h:56-57` says of other mode pages that "callers asking for them get
  an empty response of the right shape"; MODE SENSE answers CHECK CONDITION.
* READ CAPACITY and MODE SENSE refuse a short buffer without sense data (named
  in `DataReported`); failing handlers mostly leave `scsi_Actual` and
  `io_Actual` unset, and TEST UNIT READY leaves `io_Actual`.
* The comment at `scsi_mode.c:116-118` says the header references the full
  length; the code reports what it wrote (132-136).
* Attribute 194 truncates its raw temperature to a byte where LOG SENSE clamps,
  and from 182 degrees on crosses the threshold that `scsi_ata_passthrough.c:168`
  says it never does; a spare of 0 % is reported as 100 (192).
* MODE SELECT ignores one trailing byte; UNMAP uses the CDB's length only to
  test it for zero; INQUIRY ignores the CDB's allocation length.

In `Bringup`: `InitNVMe` raises `have_sq_dma`, `have_cq_dma` and `have_id_dma`
and counts the pin before it tests what StartDMA has answered
(`nvme_init.c:138-141`, `150-153`, `216-219`), so a refused pin is given to
EndDMA (`239-242`, `253-256`, `262-265`), against `nvme_leak.h:7-9`, which says
that a counter "increments on a successful acquisition and decrements on the
matching release"; `Balanced` excepts it by name (`unheld`). The error path of `InitNVMe` frees the admin queues of a
controller it has enabled and does not disable (`nvme_init.c:228-277`);
`CleanupNVMe` frees after a shutdown poll that has given up
(`nvme_init.c:291-299`); after `NVMe_CreateIOCQ` has succeeded and
`NVMe_CreateIOSQ` has not, every later namespace of that controller fails too,
because `num_units` has not grown and the queue id is asked for again
(`unit_discovery.c:66`). The first two, and the case `unmapped` reports, are
the only ways to free memory in use: `UsesHeldMemory` names them (`abandoned`)
and holds otherwise.

## 3. Runs

Every passing run is exhaustive. A run that must fail checks one statement
that the repository makes of itself and that the code does not keep.

| Run | Instance | Shows |
|---|---|---|
| `safety` | `rw`, `flush`, `split`, `inline`, 2 slots, ring of 4, interrupts, further units on the controller, one poll may give up | replies, gauges, wakeups, doorbells and unmasks of the unit task, whoever else masks; until the poll gives up, one command to a slot and implementation of `IORequests` |
| `lives` | `rw`, `split`, `sync`, the first two from buffers that are pinned, three lives, 1 slot, ring of 3, interrupts, one poll gives up | requests are replied once across lives, no task sleeps on an earlier one's commands, the submission ring never fills, a life that lasts replies everything, nothing is in flight when buffers are freed |
| `transfer` | three requests of every path, memory of nine scattered pages, 2 slots, pages of 4 cells, exec and controller may refuse anything, one wait gives up | pins, PRP lists, memory in use, answers; implementation of `BlockDevice` |
| `offsets` | one TD_FORMAT64 past 2^32 | violated: the high word is not read (`nvme_cmds.h:46`, `nvme_io.c:156`) |
| `scsi` | every command, 15 buffer and CDB lengths, six mode page lists cut anywhere, four sizes, three drives | what handlers write, report and say |
| `doorbell` | four `rw`, 2 slots, ring of 3 | violated: a drain that fills the ring once around does not ring (`unit_task.c:844`) |
| `stale` | one timeout, ring of 4 | violated: a late completion completes the next request in its slot (`nvme_io.c:686`) |
| `admin` | two SMART refreshes, MODE SELECT off and on, ring of 5 starting at 3 | safety and return of admin calls |
| `lifecycle` | two clients, two held requests of one of them, 2 slots, one failing allocation | safety and return of Open, Close, Expunge |
| `leak` | the same | violated: a start that fails in the task leaks its buffers (`nvme_leak.h:11`) |
| `bringup` | up to two controllers with up to two namespaces each, two failing steps | counters return to zero, only a refused pin is released unheld, memory outlives its users, units are served, a broken controller hides no other |
| `unmapped` | one controller, one namespace, one failing step | violated: a completion queue is freed under a running controller (`Expunge.c:51`, `unit_discovery.c:161`) |

Why the bounds are enough. Two slots are the least for which a slot, its
neighbour and a full table differ; a ring of three or four entries with three or
four requests of up to two chunks wraps, changes phase and can be full; the code
treats slots, ring positions and requests alike, and the proofs do not depend
on the numbers. One timeout shows each race with a late completion once; the
invariants that do not depend on the number of timeouts are proved for any. In
`admin` four calls over the last two positions and the first two of the ring
wrap both rings and the phase. In `lifecycle` clients reopen without bound and
the one failure is at every possible place, the acknowledgement signal
included; a second failure adds no new kind of state, since a start that meets
leftovers of a failed one is reached with the first. In `bringup` two
controllers and two namespaces are the least for which a failure has something
after it to spoil, and the table of units can be filled to its last entry; two
faults let a failed namespace be followed by a failed shutdown, or a late
command by another failure. One wait may give up in `safety`,
`stale`, `lives` and `transfer`, every poll in `admin`, every admin command and
the shutdown poll, up to the number of faults, in `bringup`; `doorbell` has
none, since its finding needs none. The proofs put no bound on them. In `transfer` three pages are a split transfer
of two chunks, two a direct one, one a bounced one, the sanity cap and the limit
of MDTS are both tried, and a request may start at an odd address, cross from a
contiguous page to a scattered one, and end on every remainder; the PRP list has
room for one entry more than the longest transfer needs when it is aligned, as
in the driver, so an odd address fills it. In `lives` the second and the
third life start from whatever the one before left at any of its steps. In `scsi` the lengths are those on either side of every comparison in the
code, 2^32 is 8, and commands follow each other without bound.

`UnitTaskMC!LiveView` identifies states that differ in ring entries nobody will
read again. `TaskLivesMC!LivesView` also leaves out the medium and the error of
every request but the one in dispatch, which no guard and none of the run's
properties reads, and the two gauges, which equal functions of the in-flight
table (`CountersCorrect`). Deadlock checking is off everywhere because the system stops when
all requests are replied, all calls have returned, or the device is unloaded.

### Fairness

* `UnitTask`: the scheduler runs the unit task, the controller fetches, and it
  completes every command it has fetched. Nothing is assumed of the interrupt,
  because the loop is written to work without one (`unit_task.c:758-777`), nor
  of clients. `TaskLives` adds that a task that has left its loop goes on to its
  end; nobody has to open or close a unit, so `EventuallyServed` speaks of a
  life that lasts.
* `Transfer` and `Scsi` have safety only.
* `AdminQueue`: every call is scheduled. Nothing is assumed of the controller,
  because the poll is bounded; which iteration is the last is not modelled.
* `Lifecycle`: a client goes on with a call it has begun; the unit task is
  scheduled unless a parent spins on it (`docs/history.md:576-585` reports that
  a spinning parent of equal priority starves it), and that case is excluded
  from `EveryCallReturns`.

## 4. Proofs

The theorems hold for every value of the constants that satisfies the module's
assumption: `QueueAssumption` and `TaskAssumption` (fewer slots than ring
entries, at least one chunk, kinds given), `LivesAssumption` (at least one
life), `AdminAssumption` (a ring of more than one entry),
`LifecycleAssumption` (at least one slot, owners given) and
`BringupAssumption` (at least one controller and one namespace),
`TransferAssumption` (a bounce buffer is a number of pages that one PRP list
can name), `ScsiAssumption` (lengths of two bytes, pages as SPC lays them out,
logs as the driver decodes them) and `MemoryAssumption` (the callers' buffers lie in memory, exec's
pages are a multiple of the controller's, and one list page names as many pages
as the cap of 2 MiB has, which is the arithmetic of `nvme_admin.c:161-170`). None of them
bounds the number of requests, calls, lives, timeouts, clients or faults. Other
hypotheses stand in the theorems that need them, because the code does not
ensure them or they are about the device: `MaxInflight + MaxTimeouts < QDepth`
(the ring has an entry for every slot and every command abandoned) in
`SqNeverFillsIfRoom` and `SqNeverFillsEver`; `OneSender` (one client sends every
TD_ADDCHANGEINT) in `NotesHeldOnce`; and in `AnswersAreRight` that offsets are
ones the driver decodes (`Addressable`: no high word in a 64-bit format command,
no 32-bit request past 4 GiB), that the limit of MDTS or the cap is a number of
whole blocks a command can name (`WholeBlocks`: both are multiples of the page
size, and 2 MiB is 4096 blocks of 512 bytes) and that `NULL` is no data
(`NullIsNoData`). `BlockDeviceRefinement` takes these three and says of the
callers that their pages have frames of their own (`FramesApart`: what exec's
page table ensures for memory that is not shared) and that no two requests of a
behaviour share cells that one of them reads into, or blocks that one of them
writes or discards (`RequestsApart`: the driver orders nothing between
requests, so what would be left there is the callers' business); and that no
operation is `NULL` (`NullIsNoOperation`). The instance of the run `transfer`
satisfies all six. Section 2 says what happens without those
of `SqNeverFillsIfRoom` and `NotesHeldOnce` and without `Addressable`. The
theorems of `ScsiProofs` take `NULL` to be neither a setting of the write cache
nor a list of settings (`NullIsNoSetting`).

* `UnitTaskProofs`. `TaskInv` is inductive: types; ring entries below the tail
  are written; a request is in the port, in dispatch or in a slot, once; the
  polled slot is the only one whose reply is left to the dispatcher; what each
  place of the loop still has to do before it may sleep. It is needed because
  `ExactlyOnce` alone does not say that the port and the table have no
  duplicates, nor `NoLostWakeup` that a drain follows the clearing of the port
  signal. `TaskInvariant` is proved by one step per action; `TypeCorrect`,
  `RepliedOnce`, `WakesUp`, `Unmasks` (`HandlerMaskLifted`: while the handler's
  mask stands, a signal is pending or the loop is on its way to lift it) and
  `CountersCorrect` follow.
* `CommandsProofs`. How the commands in the submission ring, in the controller
  and in the completion ring relate to the in-flight table. The phases of the
  completion ring (`RingPhases`) hold whatever happens. `CommandsBounded`, the
  controller owes at most the occupied slots and the abandoned commands, is
  preserved while the ring has room for as many (`RoomLeft`); it is what keeps
  the submission tail off the head and, since every command the controller holds
  counts too, an entry of the completion ring free for each (`CqHasRoom`):
  `NoOverrun`. Until the first poll gives up there are
  exactly as many commands as occupied slots and no two with one cid
  (`CommandsMatch`), from which `OneToOne` follows: `OneCommandPerSlot` alone is
  not inductive, since a second command with the cid of a live slot would pass
  it until it is harvested. `RungOutsideDrains` relates the tail to its
  snapshot modulo the ring's size and shows that the one exception to
  `DoorbellRung` is a drain that writes a multiple of `QDepth` entries, which
  the run `doorbell` exhibits. The lemmas underneath are about a ring's
  positions when its producer or its consumer advances (`RingPut`, `RingTake`).
  Its second part is about `ResultsInv`: until a poll gives up, each command carries the
  chunk its slot stands for, a completion without error comes after the effect
  on the medium, and dispatch has counted only chunks that are done. With it
  every step of the unit task is a step of `IORequests` or a stutter
  (`Refinement`), and a reply without an error tells the truth
  (`SuccessIsTrue`). The run `stale` shows that the condition is needed.
* `TaskLivesProofs`. `LivesInv` is `TaskInv` without the interrupt mask, which
  a handler may raise while there is no task to signal, and with the counters
  and the two invariants of the commands.
  Its wakeups hold where there is a task to wake: a task at work has them
  (`Awake`), one that is gone has left no message on its port, and nobody is
  inside the loop unless the unit is up (`TaskOutside`). Most steps are steps
  of `UnitTask` and follow from the lemmas of the modules above; the message
  that the exit replies leaves the port as one that is aborted does
  (`DrainIsAbort`). `LivesInvariant` proves it for any number of lives;
  `RepliedOnceEver`, `WakesUpEver`, `CountersOutlive`, `SqNeverFillsEver`,
  `NothingOwedWhenFreed` (`FreedQuiet`) and `RefinementEver` follow.
* `AdminQueueProofs`. `AdminInv` says that who is inside `NVMe_AdminCmd` owns
  `io_lock` (`LockHeld`), that without a timeout exactly the polling call has a
  command outstanding, in one of its three stages (`OneOutstanding`, which
  includes the phase of every completion entry), that calls of a kind that have
  not overlapped are busy one at a time (`BusyAlone`), and what buffer and
  setting are at each stage (`LogInBuffer`, `SelectLags`). `AdminInvariant`
  proves it; `AdminTypeCorrect`, `OwnAnswers`, `CacheHoldsLog`, `VwcFollows` and
  the action property `CompletionsAnswerOnce` follow. The conditions in the
  properties (no timeout, no overlap) are not
  conveniences: without them the code does not have the property.
* `LifecycleProofs`. `LifecycleInv` hangs everything on `Stage`, where the unit
  is between two opens: the counts are the clients at their places, and each
  stage says how far the handshake has come on both sides and which buffers
  there are. `NoUseAfterFree` is not inductive without the stages, since
  only the order of acknowledgement and freeing makes it true, nor `NoLeak`
  without `BuffersInv`, which ties each counter to the pointers until a start
  or shutdown has left something behind. `NotesInv`, on top of it, says what a
  TD_ADDCHANGEINT or TD_REMCHANGEINT has read and not yet used.
  `OpenIsServed`, `BuffersOutliveTask`, `NothingLeaks`, `UnloadsUnused`,
  `ExpungeRemembered` and `NotesHeldOnce` follow, for any number of clients,
  slots and failing allocations.
* `BringupProofs`. `BringupInv` says of every place of the load, its unwinding
  and the unload who holds each object: a leak counter is one exactly if the
  local flag, the pointer, the table of units or the current turn of a loop
  remembers the object, which is the only way to tell that an error path
  releases what was acquired (`Balanced` speaks only of the
  end). Nothing else is released but a pin that `InitNVMe` was refused: what its
  error path comes to, once the refused pin is counted and released again, is
  `InitErrUndoes`, and `UnheldInv` says whose pins those are. Without that
  exception the statement is false of the code. What a function has acquired is read from the order of its steps up to
  the present one (`Taken`, `Passed`), less what may have failed unnoticed
  (`Gaps`). The rest says where a queue that a controller knows belongs
  (`QueueInv`), which controllers have failed (`FailureInv`), and that the table
  has room for every controller at its turn (`RoomInv`). The proof goes in layers
  (the module's head), each using the ones before at the start of a step.
  `BringupBalanced`, `BringupHandlerSafe`, `BringupUsesHeldMemory`,
  `BringupUnitsServed` and `BringupPublishes` follow, for any number of
  controllers, namespaces and failing steps.

* `TransferProofs`. Eight invariants, each on top of the ones before.
  * `PinsInv` ties what is pinned to the slots. `PinsBalanced`
    alone is not inductive: if a request had commands in two slots the release
    of one pin would take both, so it needs that a request is on the port, in
    dispatch or in one slot (`OneOwner`), and that a transfer being prepared has
    a slot nobody else holds (`Prepared`). `EveryPinReleased` follows for
    requests of any shape, all sizes and any number of polls that give up; a
    late completion that hits the slot of another request is one of the steps.
  * `FieldsInv` says what a request in dispatch asks for: the fields its owner
    gave it until the first command is made, then a chunk no longer than the
    limit and inside its memory. `OneListPageIsEnough` (`ListFits`) follows with
    the arithmetic of the walk: wherever exec begins its entries, the walk stops
    at the ends of the controller's pages and nowhere else (`ScanIs`), so the
    position of the k-th PRP entry is at least k - 1 pages past the first page
    (`ScanFits`). The overflow branch is dead code for every size, placement
    and list.
  * `HeldInv` says that a slot belongs to one command or completion until that
    is harvested (`OneEach`), and that every command under way is `Named`: as
    the controller reads them now, its PRP entries lead to the cells of its
    slot, each to its own (`Place`). It has to follow the contents of the list pages, because
    `DeviceMemoryHeld` would survive a list page overwritten by another slot
    until the controller reads it. That a new command is named is
    `BounceNames` for the bounce path and `DirectNames` for the walk: the k-th
    entry is the address of the k-th page (`RestIs`), an entry of exec is
    contiguous (`EntryContiguous`), and a cell keeps its place in its page
    through `Phys` (`SamePage`). What the controller then reads is `CellsNamed`.
    `ControllerStaysInHeldMemory` follows, for any order of completions, until
    a wait gives up.
  * `RestTyped` completes the types (`TypesHold`): the 64-bit sum of a chunk's
    offset is split into two ULONGs (`ChunkTypes`), the counters count sets
    (`CountersTyped`).
  * `RepliesInv` follows a request home: everything but the one that is being cut
    has the fields it was sent with (`SentBack`), a reply is the last thing that
    happens to a request (`RepliedLast`), and what is suppressed in a slot is
    what dispatch polls for (`PolledSuppressed`), so that no request is replied
    by both.
  * `ChunkInv` says where the chunk in hand is: at the offset asked for plus
    what is done, in whole blocks, and short of the end unless it is the last.
    The wrap of the 32-bit fields is where `Addressable` is used (`ChunkPlace`).
  * `AnswersInv` carries the verdict from the command to the reply. What makes
    `AnswersRight` hold is spread over three actors, so each stage says the same
    of its own evidence: the blocks of a command exist exactly if what the
    request has reached is `Sound` (`CommandsTold`), a completion is good only
    for such a request and bad only for another or one that met a refusal
    (`CompletionsTold`), and so is what dispatch finds when its poll returns
    (`PolledTold`). `AnswersAreRight` follows.
  * `DataInv` says where the data is. A part of a request is in its slot
    (`Placed`), its command names the right blocks and, for a write that
    bounces, the bounce buffer still holds what the caller's memory holds
    (`CommandPlaced`, `Copied`); a completion without an error comes after the
    data (`CompletionsCarried`), a bounced read being in the bounce buffer only;
    and the request in hand has moved its first `done` cells (`Progress`). It is
    inductive because a step that moves cells for one slot changes none that
    another request names (`Alters`, `OthersLeft`), which needs `FramesApart` and
    `RequestsApart`. `BlockStep` then takes each step for one of `BlockDevice`:
    the controller and `Harvest` serve the owner of a slot (`SlotServed`), the
    request without a chunk left is answered when every cell is moved, and
    copying into a bounce buffer is not seen (`IssueLeaves`).
    `BlockDeviceRefinement` (`ImplementsBlockDevice`) follows: this is the
    theorem that splitting, bouncing, PRP lists and completions in any order
    add up to reads, writes and discards of what was asked.
* `ScsiProofs`. `ScsiInv` is needed because neither property says enough of the
  steps between two answers. `AnswersTrue` compares the write cache with
  `wanted`, which the client brings up to date only when it takes the answer;
  `WriteCacheDue` says what it will write there (`Due`), at every moment. A
  MODE SELECT holds a list in full, or bytes that MODE SENSE returned
  (`SelectSent`, `SenseReturned`): one says what the client asks for, the other
  that it asks for nothing. Each handler has its lemma (`InquiryKeeps` and so on),
  for every reply the forms `Good`, `Check` and the rest make (`GoodReports`,
  `CheckReports`, ...). The core is MODE SELECT: the handler walks over bytes,
  `Asked` speaks of pages. `PagesLaidOut` and `PageEnds` say where each page
  lies in the bytes; `WalkFinds`, by induction from the last page to the first,
  that from the start of each page the walk finds the settings of the caching
  pages that are complete, in order, or NULL if it meets one that is cut;
  `WalkAsked` draws the conclusion, and `SentBackWalk` that a list which MODE
  SENSE returned leads to the setting there is. `PageBytes`, `PageEnd` and
  `Walk` are recursive functions: that they exist and unfold as they are
  written is shown by induction over the numbers in a set
  (`NatInductionOnSet`, from the well-foundedness of `<`), since the library's
  induction on a predicate cannot be instantiated.

Each of the invariants was checked with TLC before it was proved; as they are
proved, the runs check what follows from them.

Only model-checked: liveness (`EventuallyServed`, `AllReturn`,
`EveryCallReturns`), which with `ENABLED` is beyond the prover. Every invariant,
action property and refinement that a passing run checks is a theorem.

Some definitions have a form chosen for the prover and mean what they did:
`UnitTask!status` is a chain of IFs, the type invariants of `Lifecycle` and
`Bringup` have a conjunct for each variable, `Bringup!Resource` is a union of
products, and `Transfer!DirectRest` takes the k-th of the walk's positions by
counting those below it (`Nth`) instead of sorting them, and `Scsi` names the
sets of bytes, which the prover would write out element by element.

## 5. Not modelled

* Of the data path: the dword alignment of a PRP, metadata and LBA formats, the
  cache maintenance that CachePreDMA implies, and any overlap between requests
  under way at once.
* The values of controller registers and Identify structures (stride, page
  size, LBA formats; MDTS, ONCS and VWC are in `Transfer` and `Scsi`), the
  configuration space of the PCI bus, the announcement of a new unit to
  `mounter.library`; `InstallNVMeInterrupt` that finds no vector is the case of a
  controller without an interrupt.
* Identification strings and sense codes of SCSI, statistics other than the
  in-flight gauge, the status table, platform detection, MMU attributes, libc
  substitutes, the installer: formatting, tables and straight-line input. CDB
  bytes that a handler reads are taken to be there; no handler compares them
  with `scsi_CmdLength`.
* A Ctrl-C sent to the unit task by anyone but `UnitTask_Shutdown`.

## 6. Plan

1. Done: `IOQueues`, `UnitTask`, `IORequests` (the data path comes first because
   a lost or wrongly completed request is a lost block); `AdminQueue`;
   `Lifecycle`; `Bringup`; `Transfer` and `BlockDevice`; `TaskLives`; `Scsi`.
2. Proofs done: `UnitTask` with its commands and its promise, `TaskLives`,
   `AdminQueue`, `Lifecycle`, `Bringup`, `Scsi`; `Transfer` with its invariants
   and the refinement of `BlockDevice`.
3. Left: what section 5 lists.

------------------------------ MODULE UnitTask ------------------------------
(***************************************************************************)
(* One unit of nvme.device at run time: the callers' side of the message   *)
(* port (src/src/BeginIO.c), the unit task's event loop and dispatcher     *)
(* (src/src/unit_task.c) over the queue pair of IOQueues, and the          *)
(* interrupt handler (src/src/nvme/nvme_irq.c).                            *)
(*                                                                         *)
(* pc is the place of the unit task in the loop:                           *)
(*   top    test of the in-flight table       wait   IExec->Wait           *)
(*   peek   first SetSignal                   clear  second SetSignal      *)
(*   yield, wake, drained, full, poll         a call of NVMeIO_Harvest     *)
(*   unmask, fullU, pollU                     the INTMC write after it     *)
(*   getmsg GetMsg loop                       dispatch  dispatch_ioreq     *)
(* Device start, shutdown and the admin queue are not part of this module. *)
(***************************************************************************)
EXTENDS IOQueues, SequencesExt

CONSTANTS
  Kind,          \* Kind[r]: how dispatch_ioreq treats r
  IrqInstalled,  \* ctrl->irq_installed
  OtherUnits     \* the controller has further units, with tasks of their own

\* rw     a transfer that fits one command      split  one above MDTS
\* flush  CMD_UPDATE, CMD_FLUSH, ETD_UPDATE     sync   SCSI SYNCHRONIZE CACHE, UNMAP
\* empty  a transfer of length 0                inline answered without a command
Kinds == {"rw", "split", "flush", "sync", "empty", "inline"}

ASSUME TaskAssumption ==
  Kind \in [Req -> Kinds] /\ IrqInstalled \in BOOLEAN /\ OtherUnits \in BOOLEAN

VARIABLES
  sent,         \* requests BeginIO has put on the port
  port,         \* unit->io_port
  sigs,         \* signals pending for the unit task
  pc, signals,  \* the loop's place and its local `signals'
  cur,          \* the request in dispatch_ioreq, or NULL
  done,         \* chunks of cur that have completed
  slot,         \* the slot dispatch polls
  tail_before,  \* snapshot of io_sq_tail at the start of a drain
  batch,        \* history: entries written since a snapshot with all rung
  intms         \* who has masked the controller's interrupt (INTMS bit 0)
                \* since the last write of INTMC

loopVars == <<pc, signals, cur, done, slot, tail_before, batch>>
clientVars == <<sent, port>>
vars == <<queueVars, clientVars, sigs, loopVars, intms>>

-----------------------------------------------------------------------------
HarvestPc == {"yield", "wake", "drained", "full", "poll"}
Pc == HarvestPc \cup {"top", "wait", "peek", "clear", "unmask", "fullU",
                      "pollU", "getmsg", "dispatch"}

\* The places inside the GetMsg loop and the dispatch of one of its requests.
BusyPc == {"dispatch", "full", "fullU", "poll", "pollU"}
DrainPc == BusyPc \cup {"getmsg"}

Commands(r) == CASE Kind[r] \in {"rw", "flush", "sync"} -> {1}
                 [] Kind[r] = "split" -> Chunk
                 [] OTHER -> {}

TaskTypeOK ==
  /\ sent \in SUBSET Req
  /\ port \in Seq(Req)
  /\ sigs \in SUBSET {"port", "isr", "ctrl_c"}
  /\ pc \in Pc
  /\ signals \in SUBSET {"port", "isr", "ctrl_c"}
  /\ cur \in Req \cup {NULL}
  /\ done \in 0 .. MaxChunk - 1
  /\ slot \in Slot
  /\ tail_before \in Index
  /\ batch \in Nat
  /\ intms \in SUBSET {"handler", "admin"}

(* Every variable keeps its type; in particular the controller only ever   *)
(* executes entries that the driver has written (nvme_io.c:129-135).       *)
TypeOK == QueueTypeOK /\ TaskTypeOK

Init ==
  /\ QueueInit
  /\ sent = {}
  /\ port = <<>>
  /\ sigs = {}
  /\ pc = "top"
  /\ signals = {}
  /\ cur = NULL
  /\ done = 0
  /\ slot = 1
  /\ tail_before = 0
  /\ batch = 0
  /\ intms = {"admin"}  \* the mask of InitNVMe and of its admin commands

-----------------------------------------------------------------------------
(* Callers.                                                                *)

(* BeginIO of a queued command: PutMsg appends and signals the owner. *)
BeginIO(r) ==
  /\ r \notin sent
  /\ sent' = sent \cup {r}
  /\ port' = Append(port, r)
  /\ sigs' = sigs \cup {"port"}
  /\ UNCHANGED <<queueVars, loopVars, intms>>

BadAbortIO(r) ==  \* a request that has left the port is replied too
  /\ r \in sent /\ replies[r] = 0
  /\ port' = SelectSeq(port, LAMBDA m : m # r)
  /\ Reply(r, TRUE)
  /\ UNCHANGED <<hostVars, devVars, sent, sigs, loopVars, intms>>

(* AbortIO: only a message still on the port is removed, and replied. *)
AbortIO(r) ==
  /\ \E i \in 1 .. Len(port) : port[i] = r /\ port' = RemoveAt(port, i)
  /\ Reply(r, TRUE)
  /\ UNCHANGED <<hostVars, devVars, sent, sigs, loopVars, intms>>

-----------------------------------------------------------------------------
(* The interrupt mask, which the handler and every task that uses the      *)
(* controller write.                                                       *)

(* The interrupt handler.  The line is shared with other devices, so it    *)
(* runs at any time, masked or not; it claims the interrupt when a         *)
(* completion is posted for any unit of the controller, masks, and signals *)
(* every unit's task.                                                      *)
Interrupt ==
  /\ IrqInstalled
  /\ CqeReady \/ OtherUnits
  /\ intms' = intms \cup {"handler"}
  /\ sigs' = sigs \cup {"isr"}
  /\ UNCHANGED <<queueVars, clientVars, loopVars>>

UnmaskIrq == intms' = IF IrqInstalled THEN {} ELSE intms

(* NVMe_AdminCmd masks and leaves it so, in a client's task                *)
(* (NSCMD_NVME_GETSTATS), in another unit's, or in this one amid the       *)
(* dispatch of an inline command (MODE SELECT, LOG SENSE).                 *)
AdminMask ==
  /\ intms' = intms \cup {"admin"}
  /\ UNCHANGED <<queueVars, clientVars, sigs, loopVars>>

(* Another unit's task goes round its loop. *)
OtherUnmask ==
  /\ OtherUnits
  /\ UnmaskIrq
  /\ UNCHANGED <<queueVars, clientVars, sigs, loopVars>>

MaskWriters == Interrupt \/ AdminMask \/ OtherUnmask

-----------------------------------------------------------------------------
(* The event loop.                                                         *)

Goto(next) == pc' = next /\ UNCHANGED <<signals, cur, done, slot,
                                        tail_before, batch>>

Top ==
  /\ pc = "top"
  /\ pc' = IF Occupied # {} THEN "peek" ELSE "wait"
  /\ signals' = {}
  /\ UNCHANGED <<queueVars, clientVars, sigs, intms, cur, done, slot,
                 tail_before, batch>>

(* IExec->Wait returns and clears the pending signals. *)
Wait ==
  /\ pc = "wait"
  /\ sigs # {}
  /\ signals' = sigs
  /\ sigs' = {}
  /\ pc' = "wake"
  /\ UNCHANGED <<queueVars, clientVars, intms, cur, done, slot, tail_before,
                 batch>>

(* The first SetSignal fetches and clears; the second clears again what    *)
(* the first one reported.                                                 *)
Peek ==
  /\ pc = "peek"
  /\ signals' = sigs
  /\ sigs' = {}
  /\ pc' = IF sigs = {} THEN "yield" ELSE "clear"
  /\ UNCHANGED <<queueVars, clientVars, intms, cur, done, slot, tail_before,
                 batch>>

BadClear ==  \* the second SetSignal clears the whole wait mask
  /\ pc = "clear"
  /\ sigs' = {}
  /\ Goto("wake")
  /\ UNCHANGED <<queueVars, clientVars, intms>>

Clear ==
  /\ pc = "clear"
  /\ sigs' = sigs \ signals
  /\ Goto("wake")
  /\ UNCHANGED <<queueVars, clientVars, intms>>

Harvest ==
  /\ pc \in HarvestPc
  /\ HarvestOne
  /\ UNCHANGED <<clientVars, sigs, loopVars, intms>>

BadEndYield ==  \* no unmask after a harvest without a signal
  /\ pc \in {"yield", "drained"}
  /\ ~CqeReady
  /\ Goto("top")
  /\ UNCHANGED <<queueVars, clientVars, sigs, intms>>

(* Harvest has found no further completion: back to its caller. *)
EndYield ==
  /\ pc \in {"yield", "drained"}
  /\ ~CqeReady
  /\ Goto("unmask")
  /\ UNCHANGED <<queueVars, clientVars, sigs, intms>>

EndWake ==
  /\ pc = "wake"
  /\ ~CqeReady
  /\ IF "port" \in signals
     THEN /\ pc' = "getmsg"
          /\ tail_before' = io_sq_tail
          /\ batch' = IF sq_doorbell = io_sq_tail THEN 0 ELSE batch
          /\ UNCHANGED <<signals, cur, done, slot>>
     ELSE Goto("unmask")
  /\ UNCHANGED <<queueVars, clientVars, sigs, intms>>

Unmask ==
  /\ pc = "unmask"
  /\ UnmaskIrq
  /\ Goto("top")
  /\ UNCHANGED <<queueVars, clientVars, sigs>>

GetMsg ==
  /\ pc = "getmsg"
  /\ port # <<>>
  /\ cur' = Head(port)
  /\ port' = Tail(port)
  /\ done' = 0
  /\ pc' = "dispatch"
  /\ UNCHANGED <<queueVars, sent, sigs, intms, signals, slot, tail_before,
                 batch>>

BadEndDrain ==  \* the ring after the drain is left to the next one
  /\ pc = "getmsg"
  /\ port = <<>>
  /\ pc' = "drained"
  /\ tail_before' = 0
  /\ signals' = {}
  /\ UNCHANGED <<queueVars, clientVars, sigs, intms, cur, done, slot, batch>>

(* The port is empty: ring once iff the tail differs from the snapshot,    *)
(* whose scope ends here.                                                  *)
EndDrain ==
  /\ pc = "getmsg"
  /\ port = <<>>
  /\ IF io_sq_tail # tail_before THEN RingSQ ELSE UNCHANGED sq_doorbell
  /\ pc' = "drained"
  /\ tail_before' = 0
  /\ signals' = {}
  /\ UNCHANGED <<cur, done, slot, batch>>
  /\ UNCHANGED <<inflight, inflight_current, leak_dma, io_sq, io_sq_tail,
                 io_cq_head, io_cq_phase, timeouts, reqVars, devVars,
                 clientVars, sigs, intms>>

-----------------------------------------------------------------------------
(* dispatch_ioreq.                                                         *)

\* The request leaves dispatch_ioreq and with it the locals of the dispatch;
\* the GetMsg loop goes on.
Dispatched ==
  /\ pc' = "getmsg"
  /\ cur' = NULL
  /\ done' = 0
  /\ slot' = 1
  /\ UNCHANGED <<signals, tail_before>>

\* Dispatch of cur ends with a reply.
Answer(err) ==
  /\ Reply(cur, err)
  /\ Dispatched
  /\ UNCHANGED <<clientVars, sigs, batch>>

(* TD_GETGEOMETRY, SEEK64, SCSI commands answered from memory, NOCMD. *)
DispatchInline(err) ==
  /\ pc = "dispatch"
  /\ Kind[cur] = "inline"
  /\ Answer(err)
  /\ UNCHANGED <<hostVars, devVars, intms>>

(* SubmitNoRing has a slot but no command to submit: nothing to transfer,  *)
(* or a bad address or length, a refused StartDMA, a PRP overflow.         *)
Refuse ==
  /\ pc = "dispatch"
  /\ Kind[cur] \in {"rw", "split", "empty"}
  /\ FreeSlot # {}
  /\ Answer(Kind[cur] # "empty")
  /\ UNCHANGED <<hostVars, devVars, intms>>

(* The fast path leaves the doorbell to the drain; Flush rings itself. *)
DispatchOne ==
  /\ pc = "dispatch"
  /\ Kind[cur] \in {"rw", "flush"}
  /\ Submit(cur, 1, FALSE, Kind[cur] = "rw" /\ cur \in Direct,
            Kind[cur] = "flush")
  /\ Dispatched
  /\ batch' = batch + 1
  /\ UNCHANGED <<clientVars, sigs, intms>>

(* One chunk of a split transfer, or SubmitAndWait: submit, ring, suppress *)
(* the reply and poll the slot.                                            *)
DispatchPolled ==
  /\ pc = "dispatch"
  /\ Kind[cur] \in {"split", "sync"}
  /\ Submit(cur, done + 1, TRUE, Kind[cur] = "split" /\ cur \in Direct, TRUE)
  /\ slot' = FirstFree
  /\ batch' = batch + 1
  /\ pc' = "poll"
  /\ UNCHANGED <<clientVars, sigs, intms, signals, cur, done, tail_before>>

BadFull ==  \* poll for a slot without publishing what is batched
  /\ pc = "dispatch"
  /\ Kind[cur] # "inline"
  /\ FreeSlot = {}
  /\ Goto("full")
  /\ UNCHANGED <<queueVars, clientVars, sigs, intms>>

(* No free slot: publish what is batched, then harvest until one frees. *)
Full ==
  /\ pc = "dispatch"
  /\ Kind[cur] # "inline"
  /\ FreeSlot = {}
  /\ RingSQ
  /\ Goto("full")
  /\ UNCHANGED <<inflight, inflight_current, leak_dma, io_sq, io_sq_tail,
                 io_cq_head, io_cq_phase, timeouts, reqVars, devVars,
                 clientVars, sigs, intms>>

(* SubmitAndWait tests for a slot before it unmasks, wait_for_free_slot    *)
(* after.                                                                  *)
EndFull ==
  /\ pc = "full"
  /\ ~CqeReady
  /\ Goto(IF Kind[cur] = "sync" /\ FreeSlot # {} THEN "dispatch" ELSE "fullU")
  /\ UNCHANGED <<queueVars, clientVars, sigs, intms>>

FullUnmask ==
  /\ pc = "fullU"
  /\ UnmaskIrq
  /\ Goto(IF FreeSlot # {} THEN "dispatch" ELSE "full")
  /\ UNCHANGED <<queueVars, clientVars, sigs>>

(* The budget is used up: IOERR_UNITBUSY.  wait_for_free_slot returns      *)
(* FALSE without looking at what its last harvest freed.                   *)
FullTimeout ==
  /\ pc = "fullU"
  /\ Kind[cur] = "sync" => FreeSlot = {}
  /\ timeouts < MaxTimeouts
  /\ timeouts' = timeouts + 1
  /\ UnmaskIrq
  /\ Answer(TRUE)
  /\ UNCHANGED <<inflight, inflight_current, leak_dma, io_sq, io_sq_tail,
                 sq_doorbell, io_cq_head, io_cq_phase, devVars>>

LastCommand == Kind[cur] = "sync" \/ done + 1 = MaxChunk

(* Harvest has released the polled slot: reply after an error or the last  *)
(* chunk, or go on with the next chunk.                                    *)
PollDone ==
  /\ pc = "poll"
  /\ ~CqeReady
  /\ inflight[slot].ioreq = NULL
  /\ IF io_Error[cur] \/ LastCommand
     THEN Answer(io_Error[cur])
     ELSE /\ done' = done + 1
          /\ pc' = "dispatch"
          /\ UNCHANGED <<reqVars, clientVars, sigs, signals, cur, slot,
                         tail_before, batch>>
  /\ UNCHANGED <<hostVars, devVars, intms>>

PollAgain ==
  /\ pc = "poll"
  /\ ~CqeReady
  /\ inflight[slot].ioreq # NULL
  /\ Goto("pollU")
  /\ UNCHANGED <<queueVars, clientVars, sigs, intms>>

PollUnmask ==
  /\ pc = "pollU"
  /\ UnmaskIrq
  /\ Goto("poll")
  /\ UNCHANGED <<queueVars, clientVars, sigs>>

(* The polled command has not completed in time. *)
PollTimeout ==
  /\ pc = "pollU"
  /\ UnmaskIrq
  /\ GiveUp(slot)
  /\ Dispatched
  /\ UNCHANGED <<clientVars, sigs, batch>>

-----------------------------------------------------------------------------
Dispatch ==
  \/ \E err \in BOOLEAN : DispatchInline(err)
  \/ Refuse \/ DispatchOne \/ DispatchPolled
  \/ Full \/ EndFull \/ FullUnmask \/ FullTimeout
  \/ PollDone \/ PollAgain \/ PollUnmask \/ PollTimeout

Task ==
  \/ Top \/ Wait \/ Peek \/ Clear
  \/ Harvest \/ EndYield \/ EndWake \/ Unmask
  \/ GetMsg \/ EndDrain
  \/ Dispatch

Device == Controller /\ UNCHANGED <<clientVars, sigs, loopVars, intms>>

Client == \E r \in Req : BeginIO(r) \/ AbortIO(r)

Next == Client \/ Task \/ Device \/ MaskWriters

(* The scheduler runs the unit task and the controller makes progress on   *)
(* every command it has fetched.  Nothing is assumed of the interrupt: the *)
(* loop must make progress without it (unit_task.c:758-777).               *)
Fairness ==
  /\ WF_vars(Task)
  /\ WF_vars(Fetch /\ UNCHANGED <<clientVars, sigs, loopVars, intms>>)
  /\ \A r \in Req : WF_vars(/\ \E c \in executing, ok \in BOOLEAN :
                                 c.ioreq = r /\ Complete(c, ok)
                            /\ UNCHANGED <<clientVars, sigs, loopVars, intms>>)

Spec == Init /\ [][Next]_vars
FairSpec == Spec /\ Fairness

-----------------------------------------------------------------------------
(* Properties.                                                             *)

OnPort(r) == r \in Range(port)

(* No request is lost and none is replied twice: what BeginIO has queued   *)
(* is on the port, in the hands of dispatch_ioreq, in a slot or replied,   *)
(* once, whatever the interleaving of AbortIO, the drain, completions that *)
(* Harvest replies and completions it leaves to a polling caller           *)
(* (unit_task.c:514-523, nvme_io.c:806-815).                               *)
ExactlyOnce ==
  \A r \in Req :
    /\ replies[r] <= 1 /\ (replies[r] = 1 => r \in sent)
    /\ r \in sent =>
         replies[r] = 1 \/ OnPort(r) \/ cur = r \/ Held(r)
    /\ replies[r] = 1 \/ r \notin sent =>
         ~OnPort(r) /\ cur # r /\ ~Held(r)
    /\ OnPort(r) => cur # r /\ ~Held(r)
    /\ cur = r /\ Held(r) => pc \in {"poll", "pollU"} /\ inflight[slot].suppress

(* While no poll has given up, the occupied slots are the cids of the      *)
(* commands the controller still owes, one command each: Harvest completes *)
(* a request only for its own command (nvme_io.c:730-738).                 *)
OneCommandPerSlot ==
  timeouts = 0 =>
    /\ LiveCids = Occupied
    /\ \A c \in executing : inflight[c.cid].ioreq = c.ioreq
    /\ Cardinality(Unfetched) + Cardinality(executing) + Cardinality(Unharvested)
         = Cardinality(Occupied)

(* A request replied without an error has had all its commands carried out *)
(* (what tests/stress_nvme.c and tests/test_nvme.c verify of the data).    *)
SuccessMeansDone ==
  \A r \in Req : replies[r] > 0 /\ ~io_Error[r] =>
    \A k \in Commands(r) : <<r, k>> \in media

(* The tail never catches up with what the controller has not fetched, so  *)
(* no unfetched entry is overwritten and a full ring never reads as empty  *)
(* (include/nvme.h:311-315).  It needs MaxInflight + MaxTimeouts < QDepth: *)
(* a poll that gives up frees its slot and leaves its entry in the ring.   *)
SqNeverFills == [][io_sq_tail' # io_sq_tail
                     => io_sq_tail' # dev_sq_head]_vars

(* Outside a drain every entry has been published, except after a drain    *)
(* that wrote a multiple of QDepth entries (unit_task.c:838-845).          *)
DoorbellMissed == /\ batch # 0 /\ batch % QDepth = 0
                  /\ sq_doorbell # io_sq_tail

DoorbellRung ==
  pc \notin DrainPc => sq_doorbell = io_sq_tail \/ DoorbellMissed

(* The unit task never sleeps on a queued message or on a command in       *)
(* flight, although it clears its signals twice (unit_task.c:792-796) and  *)
(* drains the port after clearing.                                         *)
NoLostWakeup == pc = "wait" /\ sigs = {} => port = <<>> /\ Occupied = {}

(* The mask by which the handler claims an interrupt never outlives the    *)
(* wakeup that comes with it: some task has lifted it before this one      *)
(* sleeps without a signal, also when a poll has already taken the         *)
(* completion and Harvest finds nothing (nvme_io.c:823-829).  Of the mask  *)
(* of an admin command this cannot be said: nvme_admin.c:62 announces it   *)
(* to nobody.                                                              *)
HandlerMaskLifted == pc = "wait" /\ sigs = {} => "handler" \notin intms

(* The in-flight gauge and the DMA pin counter agree with the table.       *)
CountersAgree ==
  /\ inflight_current = Cardinality(Occupied)
  /\ leak_dma = Cardinality(Pinned)
  /\ Pinned \subseteq Occupied

(* Until a poll gives up, the unit implements IORequests: status is what a *)
(* caller can tell of its request, media is the medium itself.  A poll     *)
(* that gives up leaves a command behind (nvme_io.c:686-688), and the      *)
(* late completion of it breaks the promise.                               *)
Promise == INSTANCE IORequests WITH
  status <- [r \in Req |-> IF r \notin sent        THEN "unused"
                           ELSE IF replies[r] = 0 THEN "pending"
                           ELSE IF io_Error[r]    THEN "failed"
                                                  ELSE "done"]

ImplementsPromise ==
  /\ Promise!Init
  /\ [][timeouts' = 0 => [Promise!Next]_(Promise!reqvars)]_vars

(* Every queued request is replied, as include/nvme_io.h:64-72 and         *)
(* unit_task.c:825-831 promise it.                                         *)
AlwaysReplied == \A r \in Req : r \in sent ~> replies[r] > 0

=============================================================================

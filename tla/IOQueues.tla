------------------------------ MODULE IOQueues ------------------------------
(***************************************************************************)
(* The I/O queue pair of one unit of nvme.device (src/src/nvme/nvme_io.c): *)
(* the in-flight table, the submission ring with its shadow tail and its   *)
(* doorbell, the completion ring with its phase bit, and the controller on *)
(* the other side of both rings.                                           *)
(*                                                                         *)
(* The host side is the C code.  It runs only on the unit task, so one     *)
(* call to a primitive of nvme_io.c is one step; NVMeIO_Harvest, a loop,   *)
(* takes one step per completion entry, because the controller may post    *)
(* between two of its iterations.  The controller is external: it fetches  *)
(* entries in ring order, executes them concurrently and posts completions *)
(* in any order, as nvme_io.c expects of it.                               *)
(*                                                                         *)
(* A command is the pair of the request it works for and the number of the *)
(* MDTS chunk it carries (1 for a request that is one command).  LBAs, PRP *)
(* entries and the bounce buffer are abstracted to that pair.              *)
(***************************************************************************)
EXTENDS Integers, FiniteSets

CONSTANTS
  Req,          \* the IORequests, one for each SendIO/DoIO of the run
  NULL,         \* no IORequest
  MaxInflight,  \* NVME_MAX_INFLIGHT
  QDepth,       \* NVME_IO_QUEUE_DEPTH
  MaxChunk,     \* most commands one request is split into
  Direct,       \* the requests whose transfer is pinned by StartDMA
  MaxTimeouts   \* bound on the number of polls that give up

\* include/nvme.h:311-327: fewer in-flight slots than ring entries.
ASSUME QueueAssumption ==
  /\ MaxInflight \in Nat \ {0}
  /\ QDepth \in Nat \ {0}
  /\ MaxInflight < QDepth
  /\ MaxChunk \in Nat \ {0}
  /\ MaxTimeouts \in Nat
  /\ NULL \notin Req
  /\ Direct \subseteq Req

VARIABLES
  inflight,          \* unit->inflight[]
  inflight_current,  \* unit->stats.inflight_current
  leak_dma,          \* nvme_leak_dma: StartDMA pins not yet ended
  io_sq, io_sq_tail, \* submission ring and shadow tail
  sq_doorbell,       \* the tail last published by NVMeIO_RingSQ
  io_cq, io_cq_head, io_cq_phase,
  io_Error,          \* a request's io_Error is nonzero
  replies,           \* ReplyMsg calls per request
  dev_sq_head, executing, dev_cq_tail, dev_cq_phase, \* the controller
  media,             \* commands the controller has carried out
  timeouts           \* polls given up so far

hostVars == <<inflight, inflight_current, leak_dma, io_sq, io_sq_tail,
              sq_doorbell, io_cq_head, io_cq_phase, timeouts>>
reqVars  == <<io_Error, replies>>
devVars  == <<dev_sq_head, executing, dev_cq_tail, dev_cq_phase, media, io_cq>>
queueVars == <<hostVars, reqVars, devVars>>

-----------------------------------------------------------------------------
Slot  == 1 .. MaxInflight          \* cid = slot index + 1
Index == 0 .. QDepth - 1
Chunk == 1 .. MaxChunk

\* A submission entry: the cid, and the transfer (request, chunk) it describes.
SQE   == [cid : Slot, ioreq : Req, chunk : Chunk]
\* Ring memory after memset 0.
NoSQE == [cid |-> 0, ioreq |-> NULL, chunk |-> 0]
CQE   == [cid : 0 .. MaxInflight, phase : {0, 1}, ok : BOOLEAN]

FreeInflight == [ioreq |-> NULL, suppress |-> FALSE, dma |-> FALSE]

QueueTypeOK ==
  /\ inflight \in [Slot -> [ioreq : Req \cup {NULL}, suppress : BOOLEAN,
                            dma : BOOLEAN]]
  /\ inflight_current \in Nat
  /\ leak_dma \in Int
  /\ io_sq \in [Index -> SQE \cup {NoSQE}]
  /\ io_sq_tail \in Index
  /\ sq_doorbell \in Index
  /\ io_cq \in [Index -> CQE]
  /\ io_cq_head \in Index
  /\ io_cq_phase \in {0, 1}
  /\ io_Error \in [Req -> BOOLEAN]
  /\ replies \in [Req -> Nat]
  /\ dev_sq_head \in Index
  /\ executing \in SUBSET SQE
  /\ dev_cq_tail \in Index
  /\ dev_cq_phase \in {0, 1}
  /\ media \in SUBSET (Req \X Chunk)
  /\ timeouts \in 0 .. MaxTimeouts

\* InitNVMe and DiscoverUnits leave both rings zeroed, io_cq_phase at 1.
QueueInit ==
  /\ inflight = [s \in Slot |-> FreeInflight]
  /\ inflight_current = 0
  /\ leak_dma = 0
  /\ io_sq = [i \in Index |-> NoSQE]
  /\ io_sq_tail = 0
  /\ sq_doorbell = 0
  /\ io_cq = [i \in Index |-> [cid |-> 0, phase |-> 0, ok |-> TRUE]]
  /\ io_cq_head = 0
  /\ io_cq_phase = 1
  /\ io_Error = [r \in Req |-> FALSE]
  /\ replies = [r \in Req |-> 0]
  /\ dev_sq_head = 0
  /\ executing = {}
  /\ dev_cq_tail = 0
  /\ dev_cq_phase = 1
  /\ media = {}
  /\ timeouts = 0

-----------------------------------------------------------------------------
\* Operators named Bad... are mutants of the definition below them: what a
\* plausible slip in the code would have made of it.
Succ(i) == (i + 1) % QDepth

Occupied == {s \in Slot : inflight[s].ioreq # NULL}

\* The slots whose buffer StartDMA has pinned.
Pinned == {s \in Slot : inflight[s].dma}

BadFreeSlot == Slot
FreeSlot == Slot \ Occupied

\* find_free_slot: the first one.
BadFirstFree == 1
FirstFree == CHOOSE s \in FreeSlot : \A t \in FreeSlot : s <= t

Held(r) == \E s \in Slot : inflight[s].ioreq = r

BadDec(n) == n
Dec(n) == IF n > 0 THEN n - 1 ELSE n

(* ReplyMsg of r, io_Error nonzero iff err. *)
Reply(r, err) ==
  /\ io_Error' = [io_Error EXCEPT ![r] = err]
  /\ replies'  = [replies EXCEPT ![r] = @ + 1]

-----------------------------------------------------------------------------
(* Host side: nvme_io.c.                                                   *)

RingSQ == sq_doorbell' = io_sq_tail

(* Claim the first free slot for chunk k of r, write the SQE at the shadow *)
(* tail and advance it; ring says whether the primitive also publishes the *)
(* tail (NVMeIO_Submit, NVMeIO_Flush, NVMeIO_SubmitAndWait) or not         *)
(* (NVMeIO_SubmitNoRing); dma whether StartDMA pinned the buffer.          *)
Submit(r, k, suppress, dma, ring) ==
  /\ FreeSlot # {}
  /\ inflight' = [inflight EXCEPT ![FirstFree] =
                    [ioreq |-> r, suppress |-> suppress, dma |-> dma]]
  /\ inflight_current' = inflight_current + 1
  /\ leak_dma' = IF dma THEN leak_dma + 1 ELSE leak_dma
  /\ io_sq' = [io_sq EXCEPT ![io_sq_tail] =
                 [cid |-> FirstFree, ioreq |-> r, chunk |-> k]]
  /\ io_sq_tail' = Succ(io_sq_tail)
  /\ sq_doorbell' = IF ring THEN Succ(io_sq_tail) ELSE sq_doorbell
  /\ UNCHANGED <<io_cq_head, io_cq_phase, timeouts, reqVars, devVars>>

(* The entry at the head belongs to the pass Harvest is in. *)
CqeReady == io_cq[io_cq_head].phase = io_cq_phase

(* The entry at the head carries the cid of an occupied slot. *)
Matched == io_cq[io_cq_head].cid \in Occupied

(* Harvest leaves the reply for slot s to the caller that polls it. *)
BadWasSuppressed(s) == FALSE
WasSuppressed(s) == inflight[s].suppress

(* One iteration of NVMeIO_Harvest: consume the entry at the head; if its  *)
(* cid names an occupied slot, complete that slot's request, end its DMA,  *)
(* free the slot and reply unless a synchronous caller will.               *)
HarvestOne ==
  /\ CqeReady
  /\ io_cq_head' = Succ(io_cq_head)
  /\ io_cq_phase' = IF Succ(io_cq_head) = 0 THEN 1 - io_cq_phase
                                            ELSE io_cq_phase
  /\ \/ /\ ~Matched
        /\ UNCHANGED <<inflight, inflight_current, leak_dma, reqVars>>
     \/ /\ Matched
        /\ LET s == io_cq[io_cq_head].cid
               r == inflight[s].ioreq
           IN  /\ inflight' = [inflight EXCEPT ![s] = FreeInflight]
               /\ leak_dma' = IF inflight[s].dma THEN leak_dma - 1
                                                 ELSE leak_dma
               /\ io_Error' = [io_Error EXCEPT ![r] = ~io_cq[io_cq_head].ok]
               /\ replies' = IF WasSuppressed(s) THEN replies
                             ELSE [replies EXCEPT ![r] = @ + 1]
        /\ inflight_current' = Dec(inflight_current)
  /\ UNCHANGED <<io_sq, io_sq_tail, sq_doorbell, timeouts, devVars>>

(* A poll for slot s has used up its budget: force the slot free, end its  *)
(* DMA and fail its request.  The command may still be in the ring, in     *)
(* execution or completed; nothing recalls it.                             *)
GiveUp(s) ==
  /\ timeouts < MaxTimeouts
  /\ timeouts' = timeouts + 1
  /\ inflight' = [inflight EXCEPT ![s] = FreeInflight]
  /\ inflight_current' = Dec(inflight_current)
  /\ leak_dma' = IF inflight[s].dma THEN leak_dma - 1 ELSE leak_dma
  /\ Reply(inflight[s].ioreq, TRUE)
  /\ UNCHANGED <<io_sq, io_sq_tail, sq_doorbell, io_cq_head, io_cq_phase,
                 devVars>>

-----------------------------------------------------------------------------
(* The controller.                                                         *)

(* Fetch the next published entry; the ring memory keeps it. *)
Fetch ==
  /\ dev_sq_head # sq_doorbell
  /\ executing' = executing \cup {io_sq[dev_sq_head]}
  /\ dev_sq_head' = Succ(dev_sq_head)
  /\ UNCHANGED <<hostVars, reqVars, dev_cq_tail, dev_cq_phase, media, io_cq>>

(* Finish command c, with its effect on the medium unless it fails, and    *)
(* post the completion.  The head doorbell that Harvest writes equals      *)
(* io_cq_head, and the controller does not post into a full ring.          *)
Complete(c, ok) ==
  /\ c \in executing
  /\ Succ(dev_cq_tail) # io_cq_head
  /\ executing' = executing \ {c}
  /\ media' = IF ok THEN media \cup {<<c.ioreq, c.chunk>>} ELSE media
  /\ io_cq' = [io_cq EXCEPT ![dev_cq_tail] =
                 [cid |-> c.cid, phase |-> dev_cq_phase, ok |-> ok]]
  /\ dev_cq_tail' = Succ(dev_cq_tail)
  /\ dev_cq_phase' = IF Succ(dev_cq_tail) = 0 THEN 1 - dev_cq_phase
                                              ELSE dev_cq_phase
  /\ UNCHANGED <<hostVars, reqVars, dev_sq_head>>

Controller == Fetch \/ \E c \in executing, ok \in BOOLEAN : Complete(c, ok)

-----------------------------------------------------------------------------
(* The positions of a ring between a consumer at h and a producer at t. *)
Between(h, t) == {i \in Index : IF h <= t THEN h <= i /\ i < t
                                          ELSE h <= i \/ i < t}

(* Submission entries written and not yet fetched, published or not. *)
Unfetched == Between(dev_sq_head, io_sq_tail)

(* Completion entries posted and not yet harvested. *)
Unharvested == Between(io_cq_head, dev_cq_tail)

(* The cids of the commands the controller still owes: written, executing  *)
(* or completed but unread.                                                *)
LiveCids == {io_sq[i].cid : i \in Unfetched} \cup {c.cid : c \in executing}
              \cup {io_cq[i].cid : i \in Unharvested}

=============================================================================

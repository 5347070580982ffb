------------------------------ MODULE Transfer ------------------------------
(***************************************************************************)
(* The data path of one unit: how dispatch_rw (src/src/unit_task.c) cuts a *)
(* request into commands, how NVMeIO_SubmitNoRing (src/src/nvme/nvme_io.c) *)
(* turns a command into LBAs and PRP entries through a bounce buffer or    *)
(* the caller's own memory, what NVMeIO_Harvest and a poll that gives up   *)
(* undo, and how UNMAP (src/src/scsi_cmds/scsi_unmap.c) becomes a Dataset  *)
(* Management command.  Rings, doorbells and interrupts are in IOQueues    *)
(* and UnitTask; here a command is with the controller from its submission *)
(* until its completion is on cq.                                          *)
(*                                                                         *)
(* Memory and disk are cells.  A cell is what a DMA address can tell       *)
(* apart; every size of the driver is a constant, so that an instance may  *)
(* scale all of them down.  pc is the place of the unit task:              *)
(*   loop      event loop: GetMsg, Harvest    dispatch  wants a slot       *)
(*   submit    NVMeIO_SubmitNoRing            pinned    past its StartDMA  *)
(*   poll      polls for a chunk or an UNMAP                               *)
(***************************************************************************)
EXTENDS Integers, FiniteSets, Sequences

CONSTANTS
  Req, NULL,
  Shapes,          \* Shapes[r]: what the owner of r may ask for with it
  MaxInflight,     \* NVME_MAX_INFLIGHT
  PageSize,        \* ctrl->page_size
  HostPage,        \* page of the host's memory
  BlockSize,       \* unit->block_size
  BounceSize,      \* NVME_BOUNCE_SIZE
  DirectMinPages,  \* NVME_DIRECT_MIN_PAGES
  MaxPrp,          \* entries of a PRP list page: page_size / 8
  SanityCap,       \* sanity_cap of NVMe_IdentifyController
  MaxNlb,          \* most blocks a command can name
  MaxRanges,       \* NVME_DSM_MAX_RANGES
  Word,            \* 2^32, the values of a ULONG
  Mdts,            \* values of id->mdts to consider
  Frame,           \* Frame[p]: the frame of the callers' page p
  DiskSize,
  MaxGiveUps       \* bound on the number of polls that give up

ASSUME TransferAssumption ==
  /\ {MaxInflight, PageSize, HostPage, BlockSize, MaxPrp, SanityCap, MaxNlb,
      MaxRanges, Word, DiskSize} \subseteq Nat \ {0}
  /\ {BounceSize, DirectMinPages, MaxGiveUps} \subseteq Nat
  /\ BounceSize % PageSize = 0
  /\ BounceSize <= (MaxPrp + 1) * PageSize
  /\ Mdts \subseteq Nat
  /\ NULL \notin Req \cup UNION {Shapes[r] : r \in Req}
  /\ Shapes \in [Req -> SUBSET [
       cmd : {"READ", "WRITE", "READ64", "WRITE64", "FORMAT64", "UNMAP"},
       offset : 0 .. Word - 1, actual : Nat, length : 0 .. Word - 1,
       data : Nat \cup {NULL}, ranges : Seq(Seq(Nat))]]

(* The callers' pages, and the buffers of their requests, lie in memory;   *)
(* exec's pages are not smaller than the controller's (4 KiB and MPSMIN 0, *)
(* the sizes the comment on the cap of 2 MiB names), and a list page names *)
(* as many pages as the cap has.                                           *)
ASSUME MemoryAssumption ==
  /\ IsFiniteSet(DOMAIN Frame)
  /\ Frame \in [0 .. Cardinality(DOMAIN Frame) - 1 -> Nat]
  /\ \A r \in Req : \A a \in Shapes[r] :
       a.data # NULL => a.data + a.length <= Cardinality(DOMAIN Frame) * HostPage
  /\ HostPage % PageSize = 0
  /\ SanityCap <= MaxPrp * PageSize

\* READ stands for CMD_READ and ETD_READ; WRITE for CMD_WRITE, ETD_WRITE,
\* TD_FORMAT and ETD_FORMAT; READ64, WRITE64 and FORMAT64 each for the TD_, the
\* NSCMD_TD_ and, but for TD_, the NSCMD_ETD_ command of that name.
Writes   == {"WRITE", "WRITE64", "FORMAT64"}
Decoded  == {"READ64", "WRITE64"}  \* whose high word SubmitNoRing reads
Wide     == Decoded \cup {"FORMAT64"}  \* 64-bit by include/nvme_cmds.h

VARIABLES
  max_transfer,   \* ctrl->max_transfer_bytes
  pool,           \* slots with a dma_entry_pool
  ask,            \* ask[r]: the IORequest as its owner sent it, or NULL
  io, io_Error,   \* its fields offset, actual, data, length; its error
  port, replied,  \* requests on the unit's port, requests replied
  pc, cur, done, slot,  \* the unit task and its locals
  inflight,       \* unit->inflight[]
  prp_list,       \* unit->prp_list_pages[]
  dsm_buf,        \* unit->dsm_buf; NULL also without ctrl->onc_dsm
  pinned,         \* buffers StartDMA has pinned, and for whom
  leak_dma, leak_dmaentry,  \* their count, and that of DMAEntry arrays
  issued, cq,     \* commands the controller has; completions posted
  mem, disk,      \* physical memory; the medium
  faulted,        \* history: requests that met a refusal of exec or controller
  giveups         \* polls given up so far

configVars == <<max_transfer, pool>>
reqVars  == <<ask, io, io_Error, port, replied>>
taskVars == <<pc, cur, done, slot>>
pathVars == <<inflight, prp_list, dsm_buf, pinned, leak_dma, leak_dmaentry>>
devVars  == <<issued, cq, mem, disk>>
vars == <<configVars, reqVars, taskVars, pathVars, devVars, faulted, giveups>>

-----------------------------------------------------------------------------
(* Addresses.  Physical memory holds the frames of the callers' pages, the *)
(* bounce buffers and, past what mem shows, the PRP list pages.            *)
Slot == 1 .. MaxInflight

UserSize == Cardinality(DOMAIN Frame) * HostPage
BouncePhys(s) == UserSize + (s - 1) * BounceSize
MemSize == UserSize + MaxInflight * BounceSize
PrpPhys(s) == MemSize + (s - 1) * PageSize

Phys(v) == Frame[v \div HostPage] * HostPage + (v % HostPage)

FreeInflight == [ioreq |-> NULL, suppress |-> FALSE, bounce |-> FALSE,
                 write |-> FALSE, buf |-> NULL, len |-> 0, own |-> FALSE]

(* The bytes MDTS allows are a product in a ULONG, which may wrap.         *)
MdtsBytes(mdts) == (2^mdts * PageSize) % Word

BadMaxTransfer(mdts) ==  \* room for pages that a PRP list cannot name
  IF mdts = 0 \/ MdtsBytes(mdts) >= SanityCap THEN SanityCap + 2 * PageSize
                                              ELSE MdtsBytes(mdts)

MaxTransferBytes(mdts) ==
  IF mdts = 0 \/ MdtsBytes(mdts) >= SanityCap THEN SanityCap
                                              ELSE MdtsBytes(mdts)

\* Entries of a pool: UnitTask_Start sizes it for one command.
Capacity == (max_transfer + PageSize - 1) \div PageSize + 1

Init ==
  /\ \E mdts \in Mdts : max_transfer = MaxTransferBytes(mdts)
  /\ pool \in {Slot, {}}
  /\ ask = [r \in Req |-> NULL]
  /\ io = [r \in Req |-> NULL]
  /\ io_Error = [r \in Req |-> "none"]
  /\ port = {} /\ replied = {}
  /\ pc = "loop" /\ cur = NULL /\ done = 0 /\ slot = 1
  /\ inflight = [s \in Slot |-> FreeInflight]
  /\ prp_list = [s \in Slot |-> <<>>]
  /\ dsm_buf \in {NULL, <<>>}
  /\ pinned = {} /\ leak_dma = 0
  /\ leak_dmaentry = Cardinality(pool)
  /\ issued = {} /\ cq = <<>>
  /\ mem = [a \in 0 .. MemSize - 1 |-> DiskSize + a]
  /\ disk = [b \in 0 .. DiskSize - 1 |-> b]
  /\ faulted = {}
  /\ giveups = 0

-----------------------------------------------------------------------------
(* One command: the decoding of its fields.                                *)

Fields(a) == [offset |-> a.offset, actual |-> a.actual, data |-> a.data,
              length |-> a.length]

ByteOffset(cmd, f) ==
  IF cmd \in Decoded THEN f.actual * Word + f.offset ELSE f.offset

BadMisaligned(cmd, f) == FALSE
Misaligned(cmd, f) == ByteOffset(cmd, f) % BlockSize # 0

WrongLength(f) ==
  \/ f.length % BlockSize # 0
  \/ f.length # 0 /\ f.data = NULL
  \/ f.length \div BlockSize > MaxNlb

BadUseBounce(f) ==  \* bounces whatever is not page-aligned
  f.length < DirectMinPages * PageSize \/ f.data % PageSize # 0

UseBounce(f) ==
  /\ f.length <= BounceSize
  /\ f.length < DirectMinPages * PageSize \/ f.data % PageSize # 0

-----------------------------------------------------------------------------
(* PRP entries.  rest is the sequence of pages after the first.            *)

Prp2(s, rest) == CASE rest = <<>>    -> 0
                   [] Len(rest) = 1  -> rest[1]
                   [] OTHER          -> PrpPhys(s)

BounceRest(s, len) ==
  [k \in 1 .. (len + PageSize - 1) \div PageSize - 1 |->
     BouncePhys(s) + k * PageSize]

(* What GetDMAList may return: where in the buffer its entries start.  exec *)
(* must begin one wherever the frames are not contiguous, and may begin    *)
(* one at every page.                                                      *)
DmaLists(f) ==
  LET pages  == {k \in 1 .. f.length - 1 : (f.data + k) % HostPage = 0}
      breaks == {k \in pages : Phys(f.data + k) # Phys(f.data + k - 1) + 1}
  IN  {{0} \cup breaks, {0} \cup pages}

FirstBytes(prp1) == PageSize - (prp1 % PageSize)

\* The entry that position p of the buffer lies in.
EntryOf(list, p) == CHOOSE g \in list : g <= p /\ \A h \in list : h <= p => h <= g

Start(list, p, first) ==
  IF EntryOf(list, p) < first THEN first ELSE EntryOf(list, p)

(* The positions at which the walk over the entries emits a PRP entry: from *)
(* the end of PRP1's page, or the start of the entry, in steps of a page.  *)
Scan(list, f) ==
  LET first == FirstBytes(Phys(f.data))
  IN  {p \in first .. f.length - 1 :
         (p - Start(list, p, first)) % PageSize = 0}

\* The k-th of these positions.
Nth(scan, k) == CHOOSE p \in scan : Cardinality({q \in scan : q < p}) = k - 1

DirectRest(list, f) ==
  LET scan == Scan(list, f)
      Entry(p) == Phys(f.data + EntryOf(list, p)) + (p - EntryOf(list, p))
  IN  [k \in 1 .. Cardinality(scan) |-> Entry(Nth(scan, k))]

-----------------------------------------------------------------------------
(* The owner of r sends it. *)
BeginIO(r) ==
  /\ ask[r] = NULL
  /\ \E a \in Shapes[r] : /\ ask' = [ask EXCEPT ![r] = a]
                          /\ io' = [io EXCEPT ![r] = Fields(a)]
  /\ io_Error' = [io_Error EXCEPT ![r] = "none"]
  /\ port' = port \cup {r}
  /\ UNCHANGED <<configVars, replied, taskVars, pathVars, devVars, faulted,
                 giveups>>

Occupied == {s \in Slot : inflight[s].ioreq # NULL}

FreeSlot == CHOOSE s \in Slot \ Occupied : \A t \in Slot \ Occupied : s <= t

Split(r) == ask[r].cmd # "UNMAP" /\ ask[r].length > max_transfer

GetMsg(r) ==
  /\ pc = "loop"
  /\ r \in port
  /\ port' = port \ {r}
  /\ cur' = r /\ done' = 0
  /\ pc' = "dispatch"
  /\ UNCHANGED <<configVars, ask, io, io_Error, replied, slot, pathVars,
                 devVars, faulted, giveups>>

BadReplyMsg(r, err, actual) ==  \* the fields of the last chunk stay
  /\ replied' = replied \cup {r}
  /\ io_Error' = [io_Error EXCEPT ![r] = err]
  /\ io' = [io EXCEPT ![r].actual = actual]

(* Reply r with its own fields again. *)
ReplyMsg(r, err, actual) ==
  /\ replied' = replied \cup {r}
  /\ io_Error' = [io_Error EXCEPT ![r] = err]
  /\ io' = [io EXCEPT ![r] = [Fields(ask[r]) EXCEPT !.actual = actual]]

BadDispatched ==  \* the request stays at hand
  pc' = "loop" /\ done' = 0 /\ slot' = 1 /\ UNCHANGED cur

Dispatched == pc' = "loop" /\ cur' = NULL /\ done' = 0 /\ slot' = 1

(* The dispatch of cur ends with a reply.  After a split transfer io_Actual *)
(* is the whole length or 0; otherwise it is what the failure left there.  *)
Answer(err, actual) ==
  /\ ReplyMsg(cur, err, IF ~Split(cur) THEN actual
                        ELSE IF err = "none" THEN ask[cur].length ELSE 0)
  /\ Dispatched
  /\ UNCHANGED <<ask, port>>

(* The fields of the next command of r: as sent, or one chunk.             *)
Chunk(r) ==
  IF ~Split(r) THEN io[r]
  ELSE LET off == ask[r].actual * Word + ask[r].offset + done
       IN  [offset |-> off % Word,
            actual |-> off \div Word,
            data   |-> IF ask[r].data = NULL THEN NULL ELSE ask[r].data + done,
            length |-> IF ask[r].length - done > max_transfer
                       THEN max_transfer ELSE ask[r].length - done]

(* find_free_slot finds a slot, perhaps after wait_for_free_slot.          *)
Dispatch ==
  /\ pc = "dispatch"
  /\ ask[cur].cmd # "UNMAP"
  /\ Occupied # Slot
  /\ slot' = FreeSlot
  /\ io' = [io EXCEPT ![cur] = Chunk(cur)]
  /\ pc' = "submit"
  /\ UNCHANGED <<configVars, ask, io_Error, port, replied, cur, done, pathVars,
                 devVars, faulted, giveups>>

(* The wait for a slot gives up. *)
Busy ==
  /\ pc = "dispatch"
  /\ Occupied = Slot
  /\ giveups < MaxGiveUps
  /\ giveups' = giveups + 1
  /\ IF ask[cur].cmd = "UNMAP" THEN Answer("badstatus", 0)
                               ELSE Answer("unitbusy", io[cur].actual)
  /\ UNCHANGED <<configVars, pathVars, devVars, faulted>>

-----------------------------------------------------------------------------
(* NVMeIO_SubmitNoRing.                                                    *)

(* Bad address, bad length, or nothing to do: no error in the last case.   *)
Reject ==
  /\ pc = "submit"
  /\ LET f == io[cur] cmd == ask[cur].cmd
     IN  \/ /\ Misaligned(cmd, f)
            /\ Answer("badaddress", 0)
         \/ /\ ~Misaligned(cmd, f) /\ WrongLength(f)
            /\ Answer("badlength", 0)
         \/ /\ ~Misaligned(cmd, f) /\ ~WrongLength(f) /\ f.length = 0
            /\ Answer("none", 0)
  /\ UNCHANGED <<configVars, pathVars, devVars, faulted, giveups>>

Accepts == /\ pc = "submit"
           /\ ~Misaligned(ask[cur].cmd, io[cur]) /\ ~WrongLength(io[cur])
           /\ io[cur].length # 0

\* The start of old overwritten with new.
Over(new, old) == new \o SubSeq(old, Len(new) + 1, Len(old))

(* Write the SQE of the transfer; then back to the loop, or poll for it.   *)
(* own: the array of its DMAEntries was allocated for it.                  *)
Issue(prp1, rest, bounce, own) ==
  /\ issued' = issued \cup
       {[cid  |-> slot, cmd |-> IF ask[cur].cmd \in Writes THEN "W" ELSE "R",
         slba |-> ByteOffset(ask[cur].cmd, io[cur]) \div BlockSize,
         nlb  |-> io[cur].length \div BlockSize,
         prp1 |-> prp1, prp2 |-> Prp2(slot, rest)]}
  /\ prp_list' = IF bounce /\ Len(rest) <= 1 THEN prp_list
                  ELSE [prp_list EXCEPT ![slot] = Over(rest, prp_list[slot])]
  /\ inflight' = [inflight EXCEPT ![slot] =
       [ioreq |-> cur, suppress |-> Split(cur), bounce |-> bounce,
        write |-> ask[cur].cmd \in Writes, buf |-> io[cur].data,
        len |-> io[cur].length, own |-> own]]
  /\ IF Split(cur) THEN pc' = "poll" /\ UNCHANGED <<cur, done, slot>>
                   ELSE Dispatched
  /\ UNCHANGED <<cq, disk, dsm_buf>>

\* CopyMem from the caller's cells at v, and to them.
CopyIn(v, b, len) ==
  [x \in DOMAIN mem |-> IF x \in b .. b + len - 1 THEN mem[Phys(v + x - b)]
                        ELSE mem[x]]
CopyOut(a, v, len) ==
  LET to == [x \in {Phys(v + k) : k \in 0 .. len - 1} |->
               CHOOSE k \in 0 .. len - 1 : Phys(v + k) = x]
  IN  [x \in DOMAIN mem |-> IF x \in DOMAIN to THEN mem[a + to[x]] ELSE mem[x]]

(* The bounce path. *)
SubmitBounce ==
  /\ Accepts
  /\ UseBounce(io[cur])
  /\ mem' = IF ask[cur].cmd \in Writes
            THEN CopyIn(io[cur].data, BouncePhys(slot), io[cur].length) ELSE mem
  /\ UNCHANGED leak_dmaentry
  /\ Issue(BouncePhys(slot), BounceRest(slot, io[cur].length), TRUE, FALSE)
  /\ UNCHANGED <<configVars, reqVars, pinned, leak_dma, faulted, giveups>>

Pin == <<cur, io[cur].data, io[cur].length, ask[cur].cmd \in Writes>>

(* The direct path: StartDMA. *)
StartDMA ==
  /\ Accepts
  /\ ~UseBounce(io[cur])
  /\ pinned' = pinned \cup {Pin}
  /\ leak_dma' = leak_dma + 1
  /\ pc' = "pinned"
  /\ UNCHANGED <<configVars, reqVars, cur, done, slot, inflight, prp_list,
                 dsm_buf, leak_dmaentry, devVars, faulted, giveups>>

StartDMARefused ==
  /\ Accepts
  /\ ~UseBounce(io[cur])
  /\ Answer("aborted", io[cur].actual)
  /\ faulted' = faulted \cup {cur}
  /\ UNCHANGED <<configVars, pathVars, devVars, giveups>>

\* The slot's pool holds the entries of this list.
Pooled(list) == slot \in pool /\ Cardinality(list) <= Capacity

EndDMA(pin) == pinned' = pinned \ {pin} /\ leak_dma' = leak_dma - 1

(* There is no array for the entries. *)
AllocFails ==
  /\ pc = "pinned"
  /\ \E list \in DmaLists(io[cur]) : ~Pooled(list)
  /\ EndDMA(Pin)
  /\ Answer("aborted", io[cur].actual)
  /\ faulted' = faulted \cup {cur}
  /\ UNCHANGED <<configVars, inflight, prp_list, dsm_buf, leak_dmaentry,
                 devVars, giveups>>

(* The walk over the entries.  More pages than a PRP list has entries for: *)
(* undo everything and reply.                                              *)
SubmitDirect ==
  /\ pc = "pinned"
  /\ \E list \in DmaLists(io[cur]) :
       LET rest == DirectRest(list, io[cur])
       IN  IF Len(rest) > MaxPrp
           THEN /\ prp_list' = [prp_list EXCEPT ![slot] =
                                 SubSeq(rest, 1, MaxPrp)]
                /\ EndDMA(Pin)
                /\ Answer("badlength", io[cur].actual)
                /\ UNCHANGED <<inflight, dsm_buf, leak_dmaentry, issued, cq,
                               disk>>
           ELSE /\ leak_dmaentry' = IF Pooled(list) THEN leak_dmaentry
                                                    ELSE leak_dmaentry + 1
                /\ Issue(Phys(io[cur].data), rest, FALSE, ~Pooled(list))
                /\ UNCHANGED <<reqVars, pinned, leak_dma>>
  /\ UNCHANGED <<configVars, mem, faulted, giveups>>

-----------------------------------------------------------------------------
(* UNMAP.                                                                  *)

(* Without Dataset Management, or with more descriptors than the buffer    *)
(* holds, it is refused; no descriptor at all is no work.                  *)
UnmapRefused ==
  /\ pc = "dispatch"
  /\ ask[cur].cmd = "UNMAP"
  /\ IF dsm_buf = NULL \/ Len(ask[cur].ranges) > MaxRanges
     THEN Answer("badstatus", io[cur].actual)
     ELSE ask[cur].ranges = <<>> /\ Answer("none", 0)
  /\ UNCHANGED <<configVars, pathVars, devVars, faulted, giveups>>

(* The descriptors become the ranges in dsm_buf; NVMeIO_SubmitAndWait has  *)
(* found a slot.                                                           *)
Unmap ==
  /\ pc = "dispatch"
  /\ ask[cur].cmd = "UNMAP"
  /\ dsm_buf # NULL
  /\ Len(ask[cur].ranges) \in 1 .. MaxRanges
  /\ Occupied # Slot
  /\ dsm_buf' = Over(ask[cur].ranges, dsm_buf)
  /\ slot' = FreeSlot
  /\ inflight' = [inflight EXCEPT ![FreeSlot] =
                    [FreeInflight EXCEPT !.ioreq = cur, !.suppress = TRUE]]
  /\ issued' = issued \cup {[cid |-> FreeSlot, cmd |-> "DSM",
                             nr |-> Len(ask[cur].ranges) - 1]}
  /\ pc' = "poll"
  /\ UNCHANGED <<configVars, reqVars, cur, done, prp_list, pinned, leak_dma,
                 leak_dmaentry, cq, mem, disk, faulted, giveups>>

-----------------------------------------------------------------------------
(* Completion.                                                             *)

\* What StartDMA has pinned for the command in slot s.
PinOf(s) ==
  <<inflight[s].ioreq, inflight[s].buf, inflight[s].len, inflight[s].write>>

\* End the DMA of slot s, if it has any.
EndSlotDMA(s) ==
  IF ~inflight[s].bounce /\ inflight[s].buf # NULL
  THEN /\ EndDMA(PinOf(s))
       /\ leak_dmaentry' = IF inflight[s].own THEN leak_dmaentry - 1
                                              ELSE leak_dmaentry
  ELSE UNCHANGED <<pinned, leak_dma, leak_dmaentry>>

(* NVMeIO_Harvest takes the next completion.                               *)
Harvest ==
  /\ \/ pc \in {"loop", "poll"}
     \/ pc = "dispatch" /\ Occupied = Slot  \* wait_for_free_slot
  /\ cq # <<>>
  /\ cq' = Tail(cq)
  /\ LET s == Head(cq).cid
         i == inflight[s]
         r == i.ioreq
         ok == Head(cq).ok
     IN  IF r = NULL
         THEN UNCHANGED <<io, io_Error, replied, pathVars, mem>>
         ELSE /\ inflight' = [inflight EXCEPT ![s] = FreeInflight]
              /\ EndSlotDMA(s)
              /\ mem' = IF i.bounce /\ ~i.write /\ ok
                        THEN CopyOut(BouncePhys(s), i.buf, i.len) ELSE mem
              /\ io_Error' = [io_Error EXCEPT ![r] = IF ok THEN "none"
                                                     ELSE "failed"]
              /\ io' = [io EXCEPT ![r].actual = IF ok THEN io[r].length ELSE 0]
              /\ replied' = IF i.suppress THEN replied ELSE replied \cup {r}
              /\ UNCHANGED <<prp_list, dsm_buf>>
  /\ UNCHANGED <<configVars, ask, port, taskVars, issued, disk, faulted,
                 giveups>>

(* The polled slot has been released: on with the next chunk, or reply.    *)
NextChunk ==
  /\ pc = "poll"
  /\ inflight[slot].ioreq = NULL
  /\ Split(cur) /\ io_Error[cur] = "none"
  /\ done + io[cur].length < ask[cur].length
  /\ done' = done + io[cur].length
  /\ pc' = "dispatch"
  /\ UNCHANGED <<configVars, reqVars, cur, slot, pathVars, devVars, faulted,
                 giveups>>

PollDone ==
  /\ pc = "poll"
  /\ inflight[slot].ioreq = NULL
  /\ \/ io_Error[cur] # "none"
     \/ ~Split(cur)
     \/ done + io[cur].length >= ask[cur].length
  /\ Answer(io_Error[cur], 0)
  /\ UNCHANGED <<configVars, pathVars, devVars, faulted, giveups>>

BadPollTimeout ==  \* the slot is released, the pin is not
  /\ pc = "poll"
  /\ inflight[slot].ioreq # NULL
  /\ giveups < MaxGiveUps
  /\ giveups' = giveups + 1
  /\ inflight' = [inflight EXCEPT ![slot] = FreeInflight]
  /\ Answer("aborted", 0)
  /\ UNCHANGED <<configVars, prp_list, dsm_buf, pinned, leak_dma,
                 leak_dmaentry, devVars, faulted>>

(* The poll gives up; the controller still has the command.                *)
PollTimeout ==
  /\ pc = "poll"
  /\ inflight[slot].ioreq # NULL
  /\ giveups < MaxGiveUps
  /\ giveups' = giveups + 1
  /\ EndSlotDMA(slot)
  /\ inflight' = [inflight EXCEPT ![slot] = FreeInflight]
  /\ Answer(IF ask[cur].cmd = "UNMAP" THEN "badstatus" ELSE "aborted", 0)
  /\ UNCHANGED <<configVars, prp_list, dsm_buf, devVars, faulted>>

-----------------------------------------------------------------------------
(* The controller (external).                                              *)

Cells(c) == c.nlb * BlockSize

\* PRP entries after the first that c needs, and those it finds.
Needed(c) == IF Cells(c) <= FirstBytes(c.prp1) THEN 0
             ELSE (Cells(c) - FirstBytes(c.prp1) + PageSize - 1) \div PageSize

Entries(c) ==
  IF Needed(c) <= 1 THEN <<c.prp2>>
  ELSE IF \E s \in Slot : PrpPhys(s) = c.prp2
       THEN prp_list[CHOOSE s \in Slot : PrpPhys(s) = c.prp2]
       ELSE <<>>

\* It refuses entries that are not page-aligned, and blocks it does not have.
Mapped(c) == /\ Len(Entries(c)) >= Needed(c)
             /\ \A k \in 1 .. Needed(c) : Entries(c)[k] % PageSize = 0

Valid(c) == /\ c.cmd # "DSM" => Mapped(c)
            /\ c.cmd # "DSM" => (c.slba + c.nlb) * BlockSize <= DiskSize

\* The address of cell i of the transfer.
Address(c, i) ==
  IF i < FirstBytes(c.prp1) THEN c.prp1 + i
  ELSE LET j == i - FirstBytes(c.prp1)
       IN  Entries(c)[j \div PageSize + 1] + (j % PageSize)

Touched(c) == {Address(c, i) : i \in 0 .. Cells(c) - 1}

Post(c, ok) ==
  /\ issued' = issued \ {c}
  /\ cq' = Append(cq, [cid |-> c.cid, ok |-> ok])
  /\ UNCHANGED <<configVars, reqVars, taskVars, pathVars, giveups>>

Read(c) ==
  /\ c.cmd = "R" /\ Valid(c)
  /\ LET at == [a \in Touched(c) |->
                  CHOOSE i \in 0 .. Cells(c) - 1 : Address(c, i) = a]
     IN  mem' = [a \in DOMAIN mem |->
                   IF a \in DOMAIN at THEN disk[c.slba * BlockSize + at[a]]
                                      ELSE mem[a]]
  /\ UNCHANGED disk
  /\ Post(c, TRUE)
  /\ UNCHANGED faulted

Write(c) ==
  /\ c.cmd = "W" /\ Valid(c)
  /\ disk' = [b \in DOMAIN disk |->
                IF b - c.slba * BlockSize \in 0 .. Cells(c) - 1
                THEN mem[Address(c, b - c.slba * BlockSize)] ELSE disk[b]]
  /\ UNCHANGED mem
  /\ Post(c, TRUE)
  /\ UNCHANGED faulted

\* Deallocated cells read as -1.
Discard(c) ==
  /\ c.cmd = "DSM"
  /\ disk' = [b \in DOMAIN disk |->
                IF \E k \in 1 .. c.nr + 1 :
                     b \div BlockSize - dsm_buf[k][1] \in 0 .. dsm_buf[k][2] - 1
                THEN -1 ELSE disk[b]]
  /\ UNCHANGED mem
  /\ Post(c, TRUE)
  /\ UNCHANGED faulted

(* It may fail any command; that is its own doing where the command is     *)
(* one it could have carried out.                                          *)
Fail(c) ==
  /\ Post(c, FALSE)
  /\ faulted' = IF Valid(c) THEN faulted \cup {inflight[c.cid].ioreq}
                            ELSE faulted
  /\ UNCHANGED <<mem, disk>>

-----------------------------------------------------------------------------
Controller == \E c \in issued : Read(c) \/ Write(c) \/ Discard(c) \/ Fail(c)

Task ==
  \/ \E r \in Req : GetMsg(r)
  \/ Dispatch \/ Busy \/ Reject \/ SubmitBounce
  \/ StartDMA \/ StartDMARefused \/ AllocFails \/ SubmitDirect
  \/ UnmapRefused \/ Unmap
  \/ Harvest \/ NextChunk \/ PollDone \/ PollTimeout

Next == Task \/ Controller \/ \E r \in Req : BeginIO(r)

Spec == Init /\ [][Next]_vars

-----------------------------------------------------------------------------
(* Properties.                                                             *)

(* Every variable keeps to its type.                                       *)
TypeOK ==
  /\ max_transfer \in Nat /\ pool \subseteq Slot
  /\ \A r \in Req :
       /\ ask[r] \in Shapes[r] \cup {NULL}
       /\ ask[r] # NULL =>
            /\ {io[r].offset, io[r].length} \subseteq 0 .. Word - 1
            /\ io[r].actual \in Nat
            /\ io[r].data \in Nat \cup {NULL}
       /\ io_Error[r] \in {"none", "badaddress", "badlength", "aborted",
                           "unitbusy", "badstatus", "failed"}
  /\ port \subseteq Req /\ replied \subseteq Req
  /\ pc \in {"loop", "dispatch", "submit", "pinned", "poll"}
  /\ cur \in Req \cup {NULL} /\ done \in Nat /\ slot \in Slot
  /\ pc # "loop" <=> cur # NULL
  /\ \A s \in Slot : /\ inflight[s].ioreq \in Req \cup {NULL}
                     /\ inflight[s].buf \in Nat \cup {NULL}
                     /\ inflight[s].len \in Nat
                     /\ prp_list[s] \in Seq(Nat) /\ Len(prp_list[s]) <= MaxPrp
  /\ dsm_buf # NULL => Len(dsm_buf) <= MaxRanges
  /\ leak_dma \in Nat /\ leak_dmaentry \in Nat
  /\ \A c \in issued : c.cid \in Slot
  /\ \A k \in DOMAIN cq : cq[k].cid \in Slot /\ cq[k].ok \in BOOLEAN
  /\ faulted \subseteq Req \cup {NULL}
  /\ giveups \in 0 .. MaxGiveUps

Direct == {s \in Occupied : ~inflight[s].bounce /\ inflight[s].buf # NULL}

(* What StartDMA pins, and the arrays allocated for it, are released once  *)
(* on every way out of a transfer, and the leak counters of nvme_stats.h   *)
(* say so: refusals, overflow, completions and polls that give up.         *)
PinsBalanced ==
  /\ pinned = {PinOf(s) : s \in Direct} \cup (IF pc = "pinned" THEN {Pin} ELSE {})
  /\ leak_dma = Cardinality(pinned)
  /\ leak_dmaentry = Cardinality(pool)
                       + Cardinality({s \in Direct : inflight[s].own})

(* The transfer limit of NVMe_IdentifyController and the single PRP list   *)
(* page fit together: however exec cuts a buffer into DMA entries, a       *)
(* command never needs more PRP entries than the page holds.               *)
ListFits ==
  pc = "pinned" =>
    \A list \in DmaLists(io[cur]) : Cardinality(Scan(list, io[cur])) <= MaxPrp

(* While the controller has a command, every cell it may touch is one the  *)
(* driver keeps for it: the bounce buffer of its slot, or a caller's       *)
(* memory that is still pinned; and the PRP entries of its slot are those  *)
(* written for it.  Nothing is known any more once a poll has given up.    *)
DeviceMemoryHeld ==
  giveups = 0 =>
    \A c \in issued :
      /\ inflight[c.cid].ioreq # NULL
      /\ c.cmd # "DSM" =>
           /\ Mapped(c)
           /\ LET i == inflight[c.cid]
              IN  Touched(c) \subseteq
                    IF i.bounce
                    THEN BouncePhys(c.cid) .. BouncePhys(c.cid) + BounceSize - 1
                    ELSE {Phys(i.buf + k) : k \in 0 .. i.len - 1}
           /\ inflight[c.cid].bounce \/ PinOf(c.cid) \in pinned

AskedOffset(a) ==
  IF a.cmd \in Wide THEN a.actual * Word + a.offset ELSE a.offset

WellFormed(a) ==
  IF a.cmd = "UNMAP"
  THEN dsm_buf # NULL /\ Len(a.ranges) <= MaxRanges
  ELSE /\ AskedOffset(a) % BlockSize = 0 /\ a.length % BlockSize = 0
       /\ a.data # NULL \/ a.length = 0
       /\ a.length = 0 \/ AskedOffset(a) + a.length <= DiskSize

(* A reply gives the caller its own request back, whatever chunks it went  *)
(* through.  As long as no wait has given up, it reports success only for  *)
(* a request that makes sense, with the whole length, and an error only    *)
(* for one that does not or after a refusal of exec or of the controller.  *)
AnswersRight ==
  \A r \in replied :
    /\ io[r] = [Fields(ask[r]) EXCEPT !.actual = io[r].actual]
    /\ giveups = 0 =>
         IF io_Error[r] = "none"
         THEN /\ WellFormed(ask[r])
              /\ io[r].actual = IF ask[r].cmd = "UNMAP" THEN 0 ELSE ask[r].length
         ELSE ~WellFormed(ask[r]) \/ r \in faulted

(* Each command of a read or a write stays within the blocks asked for, at *)
(* the 64-bit offset the command of that name takes.                       *)
OnlyAskedTouched ==
  giveups = 0 =>
    \A c \in issued : c.cmd # "DSM" =>
      LET a == ask[inflight[c.cid].ioreq]
      IN  /\ AskedOffset(a) <= c.slba * BlockSize
          /\ c.slba * BlockSize + Cells(c) <= AskedOffset(a) + a.length

(* The unit keeps the promises of BlockDevice.                             *)
Asked(a) ==
  IF a = NULL THEN NULL
  ELSE LET off == AskedOffset(a)
           end == a.length - 1
       IN  CASE a.cmd = "UNMAP" ->
                  [kind |-> "discard",
                   copy |-> [b \in {b \in 0 .. DiskSize - 1 :
                                      \E k \in DOMAIN a.ranges :
                                        b \div BlockSize - a.ranges[k][1]
                                          \in 0 .. a.ranges[k][2] - 1} |-> b]]
             [] a.cmd # "UNMAP" /\ a.data = NULL -> [kind |-> "none", copy |-> <<>>]
             [] a.cmd \in Writes /\ a.data # NULL ->
                  [kind |-> "write",
                   copy |-> [b \in off .. off + end |-> a.data + b - off]]
             [] OTHER ->
                  [kind |-> "read",
                   copy |-> [v \in a.data .. a.data + end |-> off + v - a.data]]

BD == INSTANCE BlockDevice WITH
  op     <- [r \in Req |-> Asked(ask[r])],
  answer <- [r \in Req |-> IF r \notin replied THEN "none"
                           ELSE IF io_Error[r] = "none" THEN "ok" ELSE "error"],
  ram    <- [v \in 0 .. UserSize - 1 |-> mem[Phys(v)]],
  trust  <- (giveups = 0)

ImplementsBlockDevice == BD!Spec

=============================================================================

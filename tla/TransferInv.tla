----------------------------- MODULE TransferInv -----------------------------
(***************************************************************************)
(* The inductive invariants of Transfer, in the order in which each builds *)
(* on the ones before: what is pinned and for whom, the fields of a        *)
(* request on its way, the commands under way and their PRP entries, the   *)
(* remaining types, who replies, where the chunk in hand is, what is known *)
(* of a request before its caller is told, and where the data is while it  *)
(* is on its way.                                                          *)
(***************************************************************************)
EXTENDS Transfer

-----------------------------------------------------------------------------
(* The inductive invariant behind PinsBalanced: one command at a time for  *)
(* each request, so that what is pinned for one is never what another has  *)
(* pinned.                                                                 *)

PathTypes ==
  /\ pool \subseteq Slot
  /\ DOMAIN ask = Req /\ DOMAIN io = Req
  /\ port \subseteq Req
  /\ pc \in {"loop", "dispatch", "submit", "pinned", "poll"}
  /\ cur \in Req \cup {NULL}
  /\ pc # "loop" => cur # NULL
  /\ slot \in Slot
  /\ DOMAIN inflight = Slot
  /\ \A s \in Slot : inflight[s].ioreq \in Req \cup {NULL}
  /\ \A c \in issued : c.cid \in Slot
  /\ cq \in Seq([cid : Slot, ok : BOOLEAN])
  /\ IsFiniteSet(pinned)

(* A request is on the port, in dispatch or in one slot; in dispatch and   *)
(* in a slot only while dispatch polls that slot.                          *)
OneOwner ==
  /\ \A r \in port : ask[r] # NULL
  /\ cur # NULL => ask[cur] # NULL /\ cur \notin port
  /\ \A s \in Occupied :
       /\ ask[inflight[s].ioreq] # NULL
       /\ inflight[s].ioreq \notin port
       /\ inflight[s].ioreq = cur => pc = "poll" /\ s = slot
  /\ \A s, t \in Occupied : inflight[s].ioreq = inflight[t].ioreq => s = t

\* The slot and the buffer a transfer is being prepared for.
Prepared ==
  /\ pc \in {"submit", "pinned"} => slot \notin Occupied
  /\ pc = "pinned" => io[cur].data # NULL

PinsInv == PathTypes /\ OneOwner /\ Prepared /\ PinsBalanced

-----------------------------------------------------------------------------
(* The inductive invariant behind ListFits: which fields a request has on  *)
(* its way.                                                                *)

InMemory(f) ==
  /\ f.length \in Nat
  /\ f.data # NULL => f.data \in Nat /\ f.data + f.length <= UserSize

(* A request reaches dispatch as it was sent; each command made from it is *)
(* no longer than the limit, and lies in its memory.                       *)
FieldsInv ==
  /\ max_transfer \in 0 .. SanityCap
  /\ done \in Nat
  /\ \A r \in Req : ask[r] \in Shapes[r] \cup {NULL}
  /\ \A r \in port : io[r] = Fields(ask[r])
  /\ pc # "loop" => InMemory(io[cur])
  /\ pc = "dispatch" => IF Split(cur) THEN done < ask[cur].length
                                       ELSE io[cur] = Fields(ask[cur])
  /\ pc \in {"submit", "pinned"} => io[cur].length <= max_transfer
  /\ pc = "pinned" => io[cur].length # 0 /\ io[cur].length % BlockSize = 0

-----------------------------------------------------------------------------
(* The inductive invariant behind DeviceMemoryHeld.                        *)

\* Where cell i of the transfer in slot s is.
Place(s, i) ==
  IF inflight[s].bounce THEN BouncePhys(s) + i ELSE Phys(inflight[s].buf + i)

(* As long as no wait has given up, a slot is taken until the one command  *)
(* or completion with its number has been harvested.                       *)
OneEach ==
  /\ \A c \in issued : c.cid \in Occupied
  /\ \A c, d \in issued : c.cid = d.cid => c = d
  /\ \A k \in DOMAIN cq : cq[k].cid \in Occupied
  /\ \A j, k \in DOMAIN cq : cq[j].cid = cq[k].cid => j = k
  /\ \A c \in issued : \A k \in DOMAIN cq : c.cid # cq[k].cid

ListsTyped ==
  /\ DOMAIN prp_list = Slot
  /\ \A s \in Slot : prp_list[s] \in Seq(Nat) /\ Len(prp_list[s]) <= MaxPrp

\* The entries of c are its own, and name the cells of its slot, one by one.
Named(c) ==
  /\ Mapped(c)
  /\ Needed(c) <= 1 \/ c.prp2 = PrpPhys(c.cid)
  /\ Cells(c) \in Nat /\ Cells(c) = inflight[c.cid].len
  /\ \A i \in 0 .. Cells(c) - 1 : Address(c, i) = Place(c.cid, i)
  /\ inflight[c.cid].bounce => Cells(c) <= BounceSize
  /\ inflight[c.cid].bounce \/ inflight[c.cid].buf # NULL

HeldInv ==
  /\ ListsTyped
  /\ giveups \in 0 .. MaxGiveUps
  /\ giveups = 0 => OneEach /\ \A c \in issued : c.cmd # "DSM" => Named(c)

-----------------------------------------------------------------------------
(* What TypeOK says beyond the invariants above.                           *)

Errors == {"none", "badaddress", "badlength", "aborted", "unitbusy",
           "badstatus", "failed"}

FieldTypes ==
  [offset : 0 .. Word - 1, actual : Nat, data : Nat \cup {NULL},
   length : 0 .. Word - 1]

AnswersTyped ==
  /\ io_Error \in [Req -> Errors]
  /\ replied \subseteq Req
  /\ faulted \subseteq Req \cup {NULL}

SlotsTyped ==
  \A s \in Slot : inflight[s].buf \in Nat \cup {NULL} /\ inflight[s].len \in Nat

RestTyped ==
  /\ AnswersTyped
  /\ \A r \in Req : ask[r] # NULL => io[r] \in FieldTypes
  /\ pc = "loop" => cur = NULL
  /\ SlotsTyped
  /\ dsm_buf # NULL => dsm_buf \in Seq(Seq(Nat)) /\ Len(dsm_buf) <= MaxRanges

-----------------------------------------------------------------------------
(* AnswersRight.  It holds for requests whose offset the driver decodes    *)
(* (a 64-bit format command has no high word, one with a 32-bit offset     *)
(* ends below Word), and with limits of whole blocks that a command can    *)
(* name.                                                                   *)

Addressable ==
  \A r \in Req : \A a \in Shapes[r] : a.cmd \notin Decoded =>
    /\ a.cmd = "FORMAT64" => a.actual = 0
    /\ a.offset + a.length <= Word

WholeBlocks ==
  \A mdts \in Mdts :
    LET limit == MaxTransferBytes(mdts)
    IN  /\ limit # 0 /\ limit % BlockSize = 0
        /\ limit \div BlockSize <= MaxNlb

NullIsNoData == NULL \notin Nat \cup Seq(Seq(Nat))

\* The first n cells of what a asks for make sense.
Sound(a, n) ==
  /\ AskedOffset(a) % BlockSize = 0 /\ n % BlockSize = 0
  /\ n # 0 => a.data # NULL /\ AskedOffset(a) + n <= DiskSize

\* How far r is with its present command, and whether that makes sense.
Reach(r) == (IF r = cur THEN done ELSE 0) + io[r].length

Good(r) ==
  IF ask[r].cmd = "UNMAP" THEN WellFormed(ask[r]) ELSE Sound(ask[r], Reach(r))

(* A request is back as it was sent, but for the one that is being cut;    *)
(* a reply is the last thing that happens to it; and the dispatcher        *)
(* replies what it polls for, the harvester everything else.               *)
SentBack ==
  \A r \in Req : ask[r] # NULL /\ (r = cur => ~Split(r)) =>
    io[r] = [Fields(ask[r]) EXCEPT !.actual = io[r].actual]

RepliedLast ==
  \A r \in replied : /\ ask[r] # NULL /\ r \notin port /\ r # cur
                     /\ \A s \in Slot : inflight[s].ioreq # r

PolledSuppressed ==
  \A s \in Occupied : inflight[s].suppress <=> inflight[s].ioreq = cur

RepliesInv == SentBack /\ RepliedLast /\ PolledSuppressed

(* Where the chunk in hand is. *)
ChunkInv ==
  /\ max_transfer # 0 /\ max_transfer % BlockSize = 0
  /\ max_transfer \div BlockSize <= MaxNlb
  /\ done % BlockSize = 0
  /\ pc # "loop" /\ ~Split(cur) => done = 0
  /\ pc \in {"submit", "pinned"} =>
       /\ ask[cur].cmd # "UNMAP"
       /\ ByteOffset(ask[cur].cmd, io[cur]) = AskedOffset(ask[cur]) + done
       /\ io[cur].data = NULL <=> ask[cur].data = NULL
       /\ ask[cur].data # NULL => io[cur].data = ask[cur].data + done
  /\ pc \in {"submit", "pinned", "poll"} /\ Split(cur) =>
       \/ io[cur].length = max_transfer /\ done + io[cur].length < ask[cur].length
       \/ done < ask[cur].length /\ done + io[cur].length = ask[cur].length

InDisk(c) == c.cmd = "DSM" \/ (c.slba + c.nlb) * BlockSize <= DiskSize

\* What can be told of r after a command of it has ended.
Ended(r, ok) == IF ok THEN Good(r) ELSE r \in faulted \/ ~Good(r)

CommandOf(c) == inflight[c.cid].ioreq

(* What is polled for is the request in hand, an UNMAP or a transfer that  *)
(* is cut; every UNMAP is polled for, and a transfer that is pinned has    *)
(* passed the check of its offset.                                         *)
Polling ==
  /\ pc = "poll" => /\ inflight[slot].ioreq \in {cur, NULL}
                    /\ ask[cur].cmd = "UNMAP" \/ Split(cur)
  /\ \A s \in Occupied :
       ask[inflight[s].ioreq].cmd = "UNMAP" => inflight[s].ioreq = cur
  /\ pc = "pinned" => ~Misaligned(ask[cur].cmd, io[cur])

\* A reply that says what AnswersRight asks for.
Told(r) ==
  IF io_Error[r] = "none"
  THEN /\ WellFormed(ask[r])
       /\ io[r].actual = IF ask[r].cmd = "UNMAP" THEN 0 ELSE ask[r].length
  ELSE ~WellFormed(ask[r]) \/ r \in faulted

CommandsTold == \A c \in issued : Good(CommandOf(c)) <=> InDisk(c)

CompletionsTold == \A k \in DOMAIN cq : Ended(CommandOf(cq[k]), cq[k].ok)

PolledTold ==
  pc = "poll" /\ inflight[slot].ioreq = NULL => Ended(cur, io_Error[cur] = "none")

AnswersInv ==
  /\ Polling
  /\ giveups = 0 => /\ CommandsTold /\ CompletionsTold /\ PolledTold
                    /\ \A r \in replied : Told(r)

-----------------------------------------------------------------------------
(* ImplementsBlockDevice.  It holds for callers whose pages have frames of *)
(* their own and whose requests share neither memory that one of them      *)
(* reads into nor blocks that one of them writes.                          *)

FramesApart ==
  /\ \A p, q \in DOMAIN Frame : Frame[p] = Frame[q] => p = q
  /\ \A p \in DOMAIN Frame : Frame[p] < Cardinality(DOMAIN Frame)

Reads(a) == a.cmd \notin Writes \cup {"UNMAP"}

\* The callers' cells and the cells of the disk that a names.
CallersOf(a) ==
  IF a.cmd = "UNMAP" \/ a.data = NULL THEN {} ELSE a.data .. a.data + a.length - 1

InRange(b, range) == b \div BlockSize - range[1] \in 0 .. range[2] - 1

BlocksOf(a) ==
  CASE a.cmd = "UNMAP" ->
         {b \in 0 .. DiskSize - 1 : \E k \in DOMAIN a.ranges : InRange(b, a.ranges[k])}
    [] a.cmd # "UNMAP" /\ a.data = NULL -> {}
    [] OTHER -> AskedOffset(a) .. AskedOffset(a) + a.length - 1

(* For all of the requests of a behaviour, not only those that are under   *)
(* way together.                                                           *)
RequestsApart ==
  \A r, q \in Req : r # q => \A a \in Shapes[r], b \in Shapes[q] :
    /\ Reads(a) => CallersOf(a) \cap CallersOf(b) = {}
    /\ ~Reads(a) => BlocksOf(a) \cap BlocksOf(b) = {}

\* NULL is not an operation of BlockDevice either.
NullIsNoOperation == \A r \in Req : \A a \in Shapes[r] : Asked(a) # NULL

(* The part of its request that a slot carries: the next one for the       *)
(* request in hand, all of it for another.                                 *)
BlockAt(s) ==
  LET a == ask[inflight[s].ioreq]
  IN  AskedOffset(a) + (inflight[s].buf - a.data)

Placed(s) ==
  LET i == inflight[s]
      a == ask[i.ioreq]
  IN  IF a.cmd = "UNMAP" THEN ~i.bounce
      ELSE /\ a.data \in Nat /\ i.buf \in Nat /\ i.len \in Nat \ {0}
           /\ a.data <= i.buf /\ i.buf + i.len <= a.data + a.length
           /\ i.write <=> a.cmd \in Writes
           /\ i.bounce => i.len <= BounceSize
           /\ i.buf = a.data + (IF i.ioreq = cur THEN done ELSE 0)
           /\ i.len = io[i.ioreq].length

\* What a write has copied from its caller stays there until it is harvested.
Copied(s) ==
  LET i == inflight[s]
  IN  i.bounce /\ i.write =>
        \A k \in 0 .. i.len - 1 : mem[BouncePhys(s) + k] = mem[Phys(i.buf + k)]

CommandPlaced(c) ==
  LET i == inflight[c.cid]
      a == ask[i.ioreq]
  IN  IF a.cmd = "UNMAP"
      THEN /\ c.cmd = "DSM" /\ c.nr + 1 = Len(a.ranges)
           /\ \A k \in 1 .. Len(a.ranges) : dsm_buf[k] = a.ranges[k]
      ELSE /\ c.cmd = IF i.write THEN "W" ELSE "R"
           /\ c.slba * BlockSize = BlockAt(c.cid)
           /\ Copied(c.cid)

\* The blocks of r are deallocated; its first n cells are moved.
Discarded(r) == \A b \in BlocksOf(ask[r]) : disk[b] = -1

Moved(r, n) ==
  LET a == ask[r]
  IN  /\ n # 0 => a.data \in Nat
      /\ \A k \in 0 .. n - 1 : /\ AskedOffset(a) + k < DiskSize
                               /\ disk[AskedOffset(a) + k] = mem[Phys(a.data + k)]

\* The part in slot s is moved, as far as the controller can: a read that
\* bounces has reached the bounce buffer.
Carried(s) ==
  LET i == inflight[s]
      Reached(k) == IF i.write THEN Phys(i.buf + k) ELSE Place(s, k)
  IN  IF ask[i.ioreq].cmd = "UNMAP" THEN Discarded(i.ioreq)
      ELSE \A k \in 0 .. i.len - 1 : /\ BlockAt(s) + k < DiskSize
                                     /\ disk[BlockAt(s) + k] = mem[Reached(k)]

\* The chunk in hand is polled for, and has come back without an error.
ChunkBack == pc = "poll" /\ inflight[slot].ioreq = NULL /\ io_Error[cur] = "none"

\* What the request in hand has moved so far.
Progress ==
  pc # "loop" =>
    IF ask[cur].cmd = "UNMAP" THEN ChunkBack => Discarded(cur)
    ELSE Moved(cur, IF ChunkBack THEN done + io[cur].length ELSE done)

\* A completion without an error comes after the data.
CompletionsCarried == \A k \in DOMAIN cq : cq[k].ok => Carried(cq[k].cid)

MediaTyped == DOMAIN mem = 0 .. MemSize - 1 /\ DOMAIN disk = 0 .. DiskSize - 1

(* Until a poll gives up, every part of a request is where its request and *)
(* its slot say, or has been moved.                                        *)
DataInv ==
  /\ MediaTyped
  /\ giveups = 0 =>
       /\ \A s \in Occupied : Placed(s)
       /\ \A c \in issued : CommandPlaced(c)
       /\ CompletionsCarried
       /\ Progress
=============================================================================

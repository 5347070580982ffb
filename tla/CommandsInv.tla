----------------------------- MODULE CommandsInv -----------------------------
(***************************************************************************)
(* The inductive invariants behind the theorems of CommandsProofs: how the *)
(* commands on both rings and in the controller relate to the in-flight    *)
(* table and to the request each of them works for.                        *)
(*                                                                         *)
(* A poll that gives up frees its slot while the controller still owes the *)
(* command that was in it.  RingPhases holds all the same, CommandsBounded *)
(* as long as the ring has room for the abandoned commands, and the rest   *)
(* until the first poll gives up.                                          *)
(***************************************************************************)
EXTENDS UnitTaskInv

(* The phase of every completion entry tells on which pass the controller  *)
(* has written it, and io_cq_phase is the phase of the pass in which the   *)
(* host reads (nvme_io.c:713-728).                                         *)
RingPhases ==
  /\ \A i \in Index : io_cq[i].phase = IF i < dev_cq_tail
                                       THEN dev_cq_phase ELSE 1 - dev_cq_phase
  /\ io_cq_phase = IF io_cq_head <= dev_cq_tail
                   THEN dev_cq_phase ELSE 1 - dev_cq_phase

Owed == Cardinality(Unfetched) + Cardinality(executing)
          + Cardinality(Unharvested)

\* The ring has an entry for every slot and every abandoned command.
RoomLeft == MaxInflight + timeouts < QDepth

(* The published tail lies between what is fetched and what is written.    *)
DoorbellInRing == sq_doorbell \in Unfetched \cup {io_sq_tail}

(* The controller owes at most the commands in slots and the abandoned.    *)
CommandsBounded ==
  /\ Owed <= Cardinality(Occupied) + timeouts
  /\ DoorbellInRing

(* The controller finds room on the completion ring for every command it   *)
(* has, so no completion waits for a harvest.                              *)
CqHasRoom == RoomLeft /\ executing # {} => Succ(dev_cq_tail) # io_cq_head

(* No two commands share a cid, wherever they are.                         *)
CidsDistinct ==
  /\ \A i, j \in Unfetched : io_sq[i].cid = io_sq[j].cid => i = j
  /\ \A c, d \in executing : c.cid = d.cid => c = d
  /\ \A i, j \in Unharvested : io_cq[i].cid = io_cq[j].cid => i = j
  /\ \A i \in Unfetched :
       /\ \A c \in executing : io_sq[i].cid # c.cid
       /\ \A j \in Unharvested : io_sq[i].cid # io_cq[j].cid
  /\ \A c \in executing : \A j \in Unharvested : c.cid # io_cq[j].cid

(* Every command works for the request in its slot.                        *)
WorksForSlot ==
  /\ \A i \in Unfetched : inflight[io_sq[i].cid].ioreq = io_sq[i].ioreq
  /\ \A c \in executing : inflight[c.cid].ioreq = c.ioreq

CommandsMatch ==
  /\ LiveCids = Occupied
  /\ CidsDistinct
  /\ Owed = Cardinality(Occupied)
  /\ WorksForSlot

CommandsInv ==
  /\ RingPhases
  /\ IsFiniteSet(executing)
  /\ RoomLeft => CommandsBounded
  /\ timeouts = 0 => CommandsMatch

(* Inside a drain the tail is ahead of its snapshot by what has been       *)
(* written since, around the ring; outside, everything has been published  *)
(* unless the entries written went round the ring exactly.                 *)
DoorbellInv ==
  IF pc \in DrainPc
  THEN /\ io_sq_tail = (tail_before + batch) % QDepth
       /\ batch = 0 => sq_doorbell = io_sq_tail
  ELSE sq_doorbell = io_sq_tail \/ DoorbellMissed

-----------------------------------------------------------------------------
(* What the commands have achieved.                                        *)

\* The chunk of its request that the command in slot s carries.
ChunkOf(s) == IF inflight[s].suppress THEN done + 1 ELSE 1

(* Every command carries the chunk that its slot stands for, and a         *)
(* completion without error comes after the effect on the medium.          *)
CarriesChunk ==
  /\ \A i \in Unfetched : io_sq[i].chunk = ChunkOf(io_sq[i].cid)
  /\ \A c \in executing : c.chunk = ChunkOf(c.cid)
  /\ \A i \in Unharvested : io_cq[i].ok =>
       <<inflight[io_cq[i].cid].ioreq, ChunkOf(io_cq[i].cid)>> \in media

(* Who replies a request depends on its kind: Harvest the single commands, *)
(* dispatch those it polls for.                                            *)
SlotKinds ==
  \A s \in Occupied : Kind[inflight[s].ioreq]
    \in IF inflight[s].suppress THEN {"split", "sync"} ELSE {"rw", "flush"}

(* Dispatch has counted only chunks that are done, and knows of the one it *)
(* has just polled for.                                                    *)
ChunksDone ==
  cur # NULL =>
    /\ \A k \in 1 .. done : <<cur, k>> \in media
    /\ Kind[cur] # "split" => done = 0
    /\ pc \in {"poll", "pollU"} => Kind[cur] \in {"split", "sync"}
    /\ pc = "poll" /\ slot \notin Occupied /\ ~io_Error[cur] =>
         <<cur, done + 1>> \in media

Results == CarriesChunk /\ SlotKinds /\ ChunksDone /\ SuccessMeansDone

ResultsInv == timeouts = 0 => Results

=============================================================================

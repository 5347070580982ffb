---------------------------- MODULE LifecycleInv ----------------------------
(***************************************************************************)
(* The inductive invariant of Lifecycle.  Everything hangs on where the    *)
(* unit is between two opens: the counts say how many clients use it, and  *)
(* each stage says how far the start or the shutdown has come on both      *)
(* sides, parent and task, and which buffers there are.                    *)
(***************************************************************************)
EXTENDS Lifecycle

\* Places of a client that has the unit open, and of one inside a vector.
UserPc == {"open", "hold", "drop"}
VectorPc == {"alloc", "launch", "ready", "signal", "ack", "spin"}

Users == {c \in Clients : pc[c] \in UserPc}

\* Where the unit is in its life.
Stage == IF vector # NULL THEN pc[vector]
         ELSE IF open_count = 0 THEN "idle" ELSE "up"

(* A client is inside Open or Close exactly if the device runs a vector    *)
(* for it, and nobody has the unit open then; the counts are the users.    *)
CountsInv ==
  /\ \A c \in Clients : vector = c <=> pc[c] \in VectorPc
  /\ vector # NULL => open_count = 0
  /\ IsFiniteSet(Users)
  /\ open_count = Cardinality(Users)
  /\ lib_OpenCnt = open_count + (IF vector = NULL THEN 0 ELSE 1)

(* The handshake of a start, seen from the parent: the task is being       *)
(* created, has signalled, or has failed.                                  *)
Starting ==
  \/ tpc = "init" /\ task /\ ~io_port /\ ~ready
  \/ tpc \in {"top", "wait"} /\ task /\ io_port /\ ready
  \/ tpc = "none" /\ ~task /\ ~io_port /\ ready

(* The handshake of a shutdown: the port and unit->task go in this order,  *)
(* and the parent is signalled last, if it asked for it.                   *)
Stopping ==
  /\ tpc # "init" /\ ~ready
  /\ task <=> tpc \in {"top", "wait", "drain", "port", "clear"}
  /\ io_port <=> tpc \in {"top", "wait", "drain", "port"}
  /\ tpc \in {"clear", "ack"} => ack_task = shutdown_ack_task
  /\ tpc = "ack" => shutdown_ack_task # NULL
  /\ acked <=> tpc = "none" /\ shutdown_ack_task # NULL

HandshakeInv ==
  /\ Stage \in {"idle", "alloc", "launch"} =>
       tpc = "none" /\ ~task /\ ~io_port /\ ~ready
  /\ Stage = "ready" => Starting
  /\ Stage = "up" => tpc \in {"top", "wait"} /\ task /\ io_port /\ ~ready
  /\ Stage \in {"ready", "up"} => ~task_shutdown /\ ~ctrl_c
  /\ Stage \in {"idle", "alloc", "launch", "ready", "up"} =>
       ~acked /\ shutdown_ack_task = NULL
  /\ Stage \in {"signal", "ack", "spin"} => Stopping
  /\ Stage = "ack" => shutdown_ack_task # NULL
  /\ Stage = "spin" => shutdown_ack_task = NULL
  /\ leak_port = IF io_port THEN 1 ELSE 0

(* Until a start or a shutdown has left buffers behind, the counters are   *)
(* exactly the buffers the unit points to; afterwards they are at least    *)
(* that.  The task runs on complete sets of buffers in any case.           *)
BuffersInv ==
  /\ leak_dma >= Pins /\ leak_dmaentry >= Entries
  /\ Stage = "alloc" =>
       0 .. next - 1 \subseteq bounce_bufs \cap prp_list_pages
  /\ Stage \notin {"idle", "alloc"} =>
       bounce_bufs = Slot /\ prp_list_pages = Slot
  /\ ~kept =>
       /\ leak_dma = Pins /\ leak_dmaentry = Entries
       /\ Stage = "idle" => bounce_bufs = {} /\ prp_list_pages = {}
       /\ Stage = "alloc" =>
            bounce_bufs = 0 .. next - 1 /\ prp_list_pages = 0 .. next - 1
       /\ Stage \in {"idle", "alloc", "launch"} =>
            ~dsm_buf /\ dma_entry_pool = {}

(* The device is loaded while anyone is in it, a deferred Expunge waits    *)
(* only while the unit is open or closing, and only then is a request held.*)
LoadInv ==
  /\ ~loaded => Stage = "idle"
  /\ Stage = "idle" /\ loaded => ~delexp
  /\ Stage \in {"alloc", "launch", "ready"} => ~delexp
  /\ Stage # "up" => changeint_req = NULL

LifecycleInv ==
  TypeOK /\ CountsInv /\ HandshakeInv /\ BuffersInv /\ LoadInv

-----------------------------------------------------------------------------
(* The held requests, when one client sends them all.                      *)

OneSender == \E c \in Clients : \A n \in Notes : Owner[n] = c

\* A TD_ADDCHANGEINT has not yet put n into the slot.
Arriving(n) == \E c \in Clients : pc[c] = "hold" /\ note[c] = n

(* What a call has read is still in the slot, and a request that is no     *)
(* longer there has been replied once.                                     *)
NotesInv ==
  /\ changeint_req \in sent \cup {NULL}
  /\ \A c \in Clients : pc[c] \in {"hold", "drop"} =>
       seen[c] = changeint_req /\ \E n \in Notes : Owner[n] = c
  /\ \A c \in Clients : pc[c] = "drop" => changeint_req # NULL
  /\ \A c \in Clients : pc[c] = "hold" =>
       note[c] \in sent /\ note[c] # changeint_req
  /\ \A n \in Notes : replies[n] =
       IF n \in sent /\ n # changeint_req /\ ~Arriving(n) THEN 1 ELSE 0

=============================================================================

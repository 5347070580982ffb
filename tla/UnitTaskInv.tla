----------------------------- MODULE UnitTaskInv -----------------------------
(***************************************************************************)
(* The inductive invariant behind the theorems of UnitTaskProofs: what     *)
(* must be true of every intermediate state of the unit task for TypeOK,   *)
(* ExactlyOnce, NoLostWakeup and HandlerMaskLifted to hold.                *)
(***************************************************************************)
EXTENDS UnitTask

(* The controller never sees a ring entry that the driver has not written: *)
(* either the whole ring has been written, or the ring has not wrapped and *)
(* everything below the tail has been.                                     *)
RingWritten ==
  \/ \A i \in Index : io_sq[i] \in SQE
  \/ /\ dev_sq_head <= sq_doorbell /\ sq_doorbell <= io_sq_tail
     /\ \A i \in Index : i < io_sq_tail => io_sq[i] \in SQE

(* A request is in dispatch exactly while the task is inside it. *)
CurWhileBusy == cur # NULL <=> pc \in BusyPc

(* No request is on the port twice. *)
PortDistinct ==
  \A i, j \in 1 .. Len(port) : port[i] = port[j] => i = j

(* No request is in two slots. *)
SlotsDistinct ==
  \A s, t \in Slot : inflight[s].ioreq = inflight[t].ioreq
                       => s = t \/ inflight[s].ioreq = NULL

(* The only slot whose reply Harvest leaves to somebody else is the one    *)
(* being polled, and only that slot holds the request in dispatch.         *)
PolledSlot ==
  /\ \A s \in Occupied :
       inflight[s].suppress \/ inflight[s].ioreq = cur =>
         /\ pc \in {"poll", "pollU"}
         /\ s = slot
         /\ inflight[s].suppress
         /\ inflight[s].ioreq = cur
  /\ pc \in {"poll", "pollU"} /\ slot \in Occupied => inflight[slot].suppress
  /\ pc = "pollU" => slot \in Occupied

(* A message on the port has a wakeup pending, or the task knows of it and *)
(* is on its way to GetMsg, or the GetMsg loop is running.                 *)
PortWakeup ==
  port # <<>> =>
    \/ "port" \in sigs
    \/ "port" \in signals /\ pc \in {"clear", "wake"}
    \/ pc \in DrainPc

(* The task goes to sleep only with an empty in-flight table. *)
SleepsIdle == pc = "wait" => Occupied = {}

(* Only an installed handler masks, and between an unmask and the next     *)
(* harvest its mask comes with a signal.                                   *)
MaskSignalled ==
  "handler" \in intms =>
    IrqInstalled /\ (pc \in {"top", "wait", "peek"} => sigs # {})

(* All of it. *)
TaskInv ==
  /\ TypeOK
  /\ RingWritten
  /\ CurWhileBusy
  /\ PortDistinct
  /\ SlotsDistinct
  /\ PolledSlot
  /\ ExactlyOnce
  /\ PortWakeup
  /\ SleepsIdle
  /\ MaskSignalled

=============================================================================

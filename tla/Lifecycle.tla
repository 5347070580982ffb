----------------------------- MODULE Lifecycle ------------------------------
(***************************************************************************)
(* The life of one unit: Open, Close and Expunge of the device             *)
(* (src/src/Open.c, Close.c, Expunge.c), UnitTask_Start and                *)
(* UnitTask_Shutdown with the start and the exit of the unit task          *)
(* (src/src/unit_task.c), and the requests that BeginIO holds until the    *)
(* last close (src/src/BeginIO.c).                                         *)
(*                                                                         *)
(* pc[c] is the place of client c:                                         *)
(*   closed, open   outside the vectors                                    *)
(*   alloc          UnitTask_Start: the loop over the slots, at `next'     *)
(*   launch         its tail: DSM buffer, pools, CreateTask                *)
(*   ready          Wait for the ready signal                              *)
(*   signal         UnitTask_Shutdown: task_shutdown is set                *)
(*   ack, spin      Wait for the acknowledgement, the fallback loop        *)
(*   hold, drop     BeginIO: TD_ADDCHANGEINT, TD_REMCHANGEINT past the     *)
(*                  test of changeint_req                                  *)
(* tpc is the place of the unit task:                                      *)
(*   none, init     not running, before its port and signal                *)
(*   top, wait      test of task_shutdown, Wait                            *)
(*   drain, port    exit: the port's messages, the port itself             *)
(*   clear, ack     exit: unit->task, the acknowledgement                  *)
(* exec runs one vector of a device at a time; `vector' is whose.          *)
(***************************************************************************)
EXTENDS Naturals, FiniteSets

CONSTANTS
  Clients,       \* tasks that open the unit
  Notes, Owner,  \* TD_ADDCHANGEINT requests, each sent once, and who sends it
  NULL,
  MaxInflight,   \* NVME_MAX_INFLIGHT
  MaxFaults      \* bound on allocations that fail

ASSUME LifecycleAssumption ==
  /\ Owner \in [Notes -> Clients]
  /\ NULL \notin Clients \cup Notes
  /\ MaxInflight \in Nat \ {0}
  /\ MaxFaults \in Nat

Slot == 0 .. MaxInflight - 1

VARIABLES
  pc, vector, next, note, seen,    \* clients
  lib_OpenCnt, delexp, loaded,     \* the library base
  open_count, task, io_port, task_shutdown, shutdown_ack_task,  \* the unit
  bounce_bufs, prp_list_pages, dma_entry_pool, dsm_buf,  \* its buffers: non-NULL
  changeint_req,                   \* its held request
  leak_dma,       \* pinned buffers (nvme_leak_dma; nvme_leak_vec alike)
  leak_dmaentry, leak_port,        \* nvme_leak_port; nvme_leak_signal alike
  tpc, ack_task,                   \* the unit task and its local variable
  ctrl_c, ready, acked,            \* pending signals
  req,            \* req[c]: c's I/O request: none, queued or busy
  sent, replies,  \* history: notification requests sent, how often each was replied
  faults,         \* history: allocations that have failed
  kept            \* history: a start or a shutdown left the buffers allocated

clientVars == <<pc, vector, next, note, seen>>
libVars == <<lib_OpenCnt, delexp, loaded>>
bufVars == <<bounce_bufs, prp_list_pages, dma_entry_pool, dsm_buf,
             leak_dma, leak_dmaentry>>
heldVars == <<changeint_req, sent, replies>>
taskVars == <<tpc, ack_task, leak_port>>
unitVars == <<open_count, task, io_port, task_shutdown, shutdown_ack_task>>
vars == <<clientVars, libVars, bufVars, heldVars, taskVars, unitVars,
          ctrl_c, ready, acked, req, faults, kept>>

Pc == {"closed", "alloc", "launch", "ready", "open", "signal", "ack", "spin",
       "hold", "drop"}
TaskPc == {"none", "init", "top", "wait", "drain", "port", "clear", "ack"}

(* Every variable keeps its type; in particular the open counts do not go  *)
(* below zero (Open.c:61-72, Close.c:32-53).                               *)
TypeOK ==
  /\ pc \in [Clients -> Pc]
  /\ vector \in Clients \cup {NULL}
  /\ next \in Slot
  /\ note \in [Clients -> Notes \cup {NULL}]
  /\ seen \in [Clients -> Notes \cup {NULL}]
  /\ lib_OpenCnt \in Nat /\ open_count \in Nat
  /\ delexp \in BOOLEAN /\ loaded \in BOOLEAN
  /\ task \in BOOLEAN /\ io_port \in BOOLEAN /\ task_shutdown \in BOOLEAN
  /\ shutdown_ack_task \in Clients \cup {NULL}
  /\ bounce_bufs \in SUBSET Slot /\ prp_list_pages \in SUBSET Slot
  /\ dma_entry_pool \in SUBSET Slot /\ dsm_buf \in BOOLEAN
  /\ changeint_req \in Notes \cup {NULL}
  /\ leak_dma \in Nat /\ leak_dmaentry \in Nat /\ leak_port \in Nat
  /\ tpc \in TaskPc /\ ack_task \in Clients \cup {NULL}
  /\ ctrl_c \in BOOLEAN /\ ready \in BOOLEAN /\ acked \in BOOLEAN
  /\ kept \in BOOLEAN
  /\ req \in [Clients -> {"none", "queued", "busy"}]
  /\ sent \in SUBSET Notes
  /\ replies \in [Notes -> 0 .. 2]
  /\ faults \in 0 .. MaxFaults

Init ==
  /\ pc = [c \in Clients |-> "closed"]
  /\ vector = NULL
  /\ next = 0
  /\ note = [c \in Clients |-> NULL]
  /\ seen = [c \in Clients |-> NULL]
  /\ lib_OpenCnt = 0 /\ open_count = 0
  /\ delexp = FALSE /\ loaded = TRUE
  /\ task = FALSE /\ io_port = FALSE /\ task_shutdown = FALSE
  /\ bounce_bufs = {} /\ prp_list_pages = {} /\ dma_entry_pool = {}
  /\ dsm_buf = FALSE
  /\ shutdown_ack_task = NULL
  /\ changeint_req = NULL
  /\ leak_dma = 0 /\ leak_dmaentry = 0 /\ leak_port = 0
  /\ tpc = "none" /\ ack_task = NULL
  /\ ctrl_c = FALSE /\ ready = FALSE /\ acked = FALSE
  /\ req = [c \in Clients |-> "none"]
  /\ sent = {}
  /\ replies = [n \in Notes |-> 0]
  /\ faults = 0
  /\ kept = FALSE

-----------------------------------------------------------------------------
(* Open, and UnitTask_Start in it.                                         *)

Goto(c, place) == pc' = [pc EXCEPT ![c] = place]

(* exec enters a vector of the device for c. *)
Enter(c) == vector = NULL /\ loaded /\ vector' = c

\* The last lines of a successful Open.
Opened(c) ==
  /\ open_count' = open_count + 1
  /\ delexp' = FALSE
  /\ vector' = NULL
  /\ Goto(c, "open")

\* Its bail-out.
NotOpened(c) ==
  /\ lib_OpenCnt' = lib_OpenCnt - 1
  /\ vector' = NULL
  /\ Goto(c, "closed")

(* The unit is in use: count. *)
OpenMore(c) ==
  /\ pc[c] = "closed"
  /\ vector = NULL /\ loaded
  /\ open_count > 0
  /\ lib_OpenCnt' = lib_OpenCnt + 1
  /\ Opened(c)
  /\ UNCHANGED <<next, note, seen, loaded, bufVars, heldVars, taskVars, task,
                 io_port, task_shutdown, shutdown_ack_task, ctrl_c, ready,
                 acked, req, faults, kept>>

(* The first open starts the unit task. *)
OpenFirst(c) ==
  /\ pc[c] = "closed"
  /\ Enter(c)
  /\ open_count = 0
  /\ lib_OpenCnt' = lib_OpenCnt + 1
  /\ next' = 0
  /\ Goto(c, "alloc")
  /\ UNCHANGED <<note, seen, delexp, loaded, bufVars, heldVars, taskVars,
                 unitVars, ctrl_c, ready, acked, req, faults, kept>>

(* One turn of the allocation loop: bounce buffer and PRP page of a slot.  *)
AllocSlot(c) ==
  /\ pc[c] = "alloc"
  /\ bounce_bufs' = bounce_bufs \cup {next}
  /\ prp_list_pages' = prp_list_pages \cup {next}
  /\ leak_dma' = leak_dma + 2
  /\ IF next + 1 \in Slot THEN next' = next + 1 /\ UNCHANGED pc
                          ELSE UNCHANGED next /\ Goto(c, "launch")
  /\ UNCHANGED <<vector, note, seen, libVars, dma_entry_pool, dsm_buf,
                 leak_dmaentry, heldVars, taskVars, unitVars, ctrl_c, ready,
                 acked, req, faults, kept>>

Dsm(present) == IF present THEN 1 ELSE 0

\* Free every buffer the unit points to, given these pointers and the number
\* of pins: the `fail' label and the end of UnitTask_Shutdown.
BadFree(bounce, prp, dsm, pool, pins) ==  \* leaves the PRP pointers
  /\ leak_dma' = pins - Cardinality(bounce) - Cardinality(prp) - Dsm(dsm)
  /\ leak_dmaentry' = leak_dmaentry - Cardinality(pool)
  /\ bounce_bufs' = {} /\ prp_list_pages' = prp /\ dma_entry_pool' = {}
  /\ dsm_buf' = FALSE

Free(bounce, prp, dsm, pool, pins) ==
  /\ leak_dma' = pins - Cardinality(bounce) - Cardinality(prp) - Dsm(dsm)
  /\ leak_dmaentry' = leak_dmaentry - Cardinality(pool)
  /\ bounce_bufs' = {} /\ prp_list_pages' = {} /\ dma_entry_pool' = {}
  /\ dsm_buf' = FALSE

BadFail(c, bounce, prp, dsm, pool, pins) ==  \* frees the bounce buffers only
  /\ faults < MaxFaults
  /\ faults' = faults + 1
  /\ Free(bounce, {}, dsm, pool, pins)
  /\ NotOpened(c)

Fail(c, bounce, prp, dsm, pool, pins) ==
  /\ faults < MaxFaults
  /\ faults' = faults + 1
  /\ Free(bounce, prp, dsm, pool, pins)
  /\ NotOpened(c)

(* The bounce buffer or the PRP page of this slot cannot be had or pinned: *)
(* its pointer is NULL, whatever it was, and all the others are freed.     *)
AllocFails(c) ==
  /\ pc[c] = "alloc"
  /\ \/ Fail(c, bounce_bufs \ {next}, prp_list_pages, dsm_buf, dma_entry_pool,
             leak_dma)
     \/ Fail(c, bounce_bufs \cup {next}, prp_list_pages \ {next}, dsm_buf,
             dma_entry_pool, leak_dma + 1)
  /\ UNCHANGED <<next, note, seen, delexp, loaded, heldVars, taskVars,
                 unitVars, ctrl_c, ready, acked, req, kept>>

\* The DSM buffer and the pools: each of them is optional.
Optional ==
  \E dsm \in BOOLEAN, pool \in SUBSET Slot :
    /\ dsm_buf' = dsm
    /\ leak_dma' = leak_dma + Dsm(dsm)
    /\ dma_entry_pool' = pool
    /\ leak_dmaentry' = leak_dmaentry + Cardinality(pool)

BadLaunch(c) ==  \* does not clear task_shutdown
  /\ pc[c] = "launch"
  /\ Optional
  /\ task' = TRUE
  /\ tpc' = "init"
  /\ ctrl_c' = FALSE
  /\ Goto(c, "ready")
  /\ UNCHANGED <<vector, next, note, seen, libVars, bounce_bufs,
                 prp_list_pages, heldVars, ack_task, leak_port, open_count,
                 io_port, task_shutdown, shutdown_ack_task, ready, acked, req,
                 faults, kept>>

(* The rest of the buffers; then the task is created.                      *)
Launch(c) ==
  /\ pc[c] = "launch"
  /\ Optional
  /\ task' = TRUE
  /\ task_shutdown' = FALSE
  /\ tpc' = "init"
  /\ ctrl_c' = FALSE
  /\ Goto(c, "ready")
  /\ UNCHANGED <<vector, next, note, seen, libVars, bounce_bufs,
                 prp_list_pages, heldVars, ack_task, leak_port, open_count,
                 io_port, shutdown_ack_task, ready, acked, req, faults, kept>>

(* No signal bit or no task: the DSM buffer and the pools just allocated    *)
(* are freed again.                                                        *)
LaunchFails(c) ==
  /\ pc[c] = "launch"
  /\ Fail(c, bounce_bufs, prp_list_pages, FALSE, {}, leak_dma)
  /\ UNCHANGED <<next, note, seen, delexp, loaded, heldVars, taskVars,
                 unitVars, ctrl_c, ready, acked, req, kept>>

(* The task is ready or has failed, which its port tells; in the latter    *)
(* case UnitTask_Start returns without a word about the buffers.           *)
Started(c) ==
  /\ pc[c] = "ready"
  /\ ready
  /\ ready' = FALSE
  /\ \/ io_port /\ Opened(c) /\ UNCHANGED <<lib_OpenCnt, task, kept>>
     \/ /\ ~io_port
        /\ NotOpened(c)
        /\ task' = FALSE
        /\ kept' = TRUE
        /\ UNCHANGED <<open_count, delexp>>
  /\ UNCHANGED <<next, note, seen, loaded, bufVars, heldVars, taskVars,
                 io_port, task_shutdown, shutdown_ack_task, ctrl_c, acked,
                 req, faults>>

Open(c) ==
  OpenMore(c) \/ OpenFirst(c) \/ AllocSlot(c) \/ AllocFails(c) \/ Launch(c)
    \/ LaunchFails(c) \/ Started(c)

-----------------------------------------------------------------------------
(* Close, with UnitTask_Shutdown, and Expunge.                             *)

\* The end of Close: the last one performs a deferred Expunge.
BadCloseEnd(c) ==  \* compares before it counts
  /\ lib_OpenCnt' = lib_OpenCnt - 1
  /\ loaded' = ~(lib_OpenCnt = 0 /\ delexp)
  /\ vector' = NULL
  /\ Goto(c, "closed")

CloseEnd(c) ==
  /\ lib_OpenCnt' = lib_OpenCnt - 1
  /\ loaded' = ~(lib_OpenCnt' = 0 /\ delexp)
  /\ vector' = NULL
  /\ Goto(c, "closed")

(* Others still use the unit. *)
CloseMore(c) ==
  /\ pc[c] = "open"
  /\ vector = NULL
  /\ open_count > 1
  /\ open_count' = open_count - 1
  /\ CloseEnd(c)
  /\ UNCHANGED <<next, note, seen, delexp, bufVars, heldVars, taskVars, task,
                 io_port, task_shutdown, shutdown_ack_task, ctrl_c, ready,
                 acked, req, faults, kept>>

\* Reply a held request.
ReplyMsg(n) ==
  replies' = IF n = NULL THEN replies
             ELSE [replies EXCEPT ![n] = IF @ = 2 THEN 2 ELSE @ + 1]

\* UnitTask_Shutdown up to Signal: with a signal bit, and without one.
Ask(c, ack) ==
  /\ shutdown_ack_task' = ack
  /\ task_shutdown' = TRUE
  /\ Goto(c, "signal")

(* The last close replies the held request and stops the task.             *)
CloseLast(c) ==
  /\ pc[c] = "open"
  /\ Enter(c)
  /\ open_count = 1
  /\ open_count' = 0
  /\ ReplyMsg(changeint_req)
  /\ changeint_req' = NULL
  /\ \/ Ask(c, c) /\ UNCHANGED faults
     \/ faults < MaxFaults /\ faults' = faults + 1 /\ Ask(c, NULL)
  /\ UNCHANGED <<next, note, seen, libVars, bufVars, sent, taskVars, task,
                 io_port, ctrl_c, ready, acked, req, kept>>

BadSignal(c) ==  \* expects the task to look at task_shutdown by itself
  /\ pc[c] = "signal"
  /\ Goto(c, IF shutdown_ack_task = NULL THEN "spin" ELSE "ack")
  /\ UNCHANGED <<vector, next, note, seen, libVars, bufVars, heldVars,
                 taskVars, unitVars, ctrl_c, ready, acked, req, faults, kept>>

(* Ctrl-C wakes the task; it may be gone, for it sees task_shutdown too.   *)
Signal(c) ==
  /\ pc[c] = "signal"
  /\ ctrl_c' = (ctrl_c \/ task)
  /\ Goto(c, IF shutdown_ack_task = NULL THEN "spin" ELSE "ack")
  /\ UNCHANGED <<vector, next, note, seen, libVars, bufVars, heldVars,
                 taskVars, unitVars, ready, acked, req, faults, kept>>

BadStopped(c) ==  \* does not wait for the acknowledgement
  /\ pc[c] = "ack"
  /\ acked' = FALSE
  /\ shutdown_ack_task' = NULL
  /\ Free(bounce_bufs, prp_list_pages, dsm_buf, dma_entry_pool, leak_dma)
  /\ CloseEnd(c)
  /\ UNCHANGED <<next, note, seen, delexp, heldVars, taskVars, open_count,
                 task, io_port, task_shutdown, ctrl_c, ready, req, faults,
                 kept>>

(* The task has stopped: free its buffers. *)
Stopped(c) ==
  /\ pc[c] = "ack"
  /\ acked
  /\ acked' = FALSE
  /\ shutdown_ack_task' = NULL
  /\ Free(bounce_bufs, prp_list_pages, dsm_buf, dma_entry_pool, leak_dma)
  /\ CloseEnd(c)
  /\ UNCHANGED <<next, note, seen, delexp, heldVars, taskVars, open_count,
                 task, io_port, task_shutdown, ctrl_c, ready, req, faults,
                 kept>>

(* The fallback returns when the task has gone, and frees nothing.         *)
Spun(c) ==
  /\ pc[c] = "spin"
  /\ ~task
  /\ kept' = TRUE
  /\ CloseEnd(c)
  /\ UNCHANGED <<next, note, seen, delexp, bufVars, heldVars, taskVars,
                 unitVars, ctrl_c, ready, acked, req, faults>>

Close(c) == CloseMore(c) \/ CloseLast(c) \/ Signal(c) \/ Stopped(c) \/ Spun(c)

(* exec needs memory.  Nothing is open: the unit task has gone long ago    *)
(* and UnitTask_Shutdown returns at once.                                  *)
BadExpunge ==  \* unloads in any case
  /\ vector = NULL /\ loaded
  /\ loaded' = FALSE
  /\ UNCHANGED <<clientVars, lib_OpenCnt, delexp, bufVars, heldVars, taskVars,
                 unitVars, ctrl_c, ready, acked, req, faults, kept>>

Expunge ==
  /\ vector = NULL /\ loaded
  /\ \/ lib_OpenCnt # 0 /\ delexp' = TRUE /\ UNCHANGED loaded
     \/ lib_OpenCnt = 0 /\ loaded' = FALSE /\ UNCHANGED delexp
  /\ UNCHANGED <<clientVars, lib_OpenCnt, bufVars, heldVars, taskVars,
                 unitVars, ctrl_c, ready, acked, req, faults, kept>>

-----------------------------------------------------------------------------
(* BeginIO and AbortIO.                                                    *)

(* Put a request on the port.  It stays there after its owner has closed   *)
(* the unit, if it does not wait.                                          *)
BeginIO(c) ==
  /\ pc[c] = "open"
  /\ req[c] = "none"
  /\ io_port
  /\ req' = [req EXCEPT ![c] = "queued"]
  /\ UNCHANGED <<clientVars, libVars, bufVars, heldVars, taskVars, unitVars,
                 ctrl_c, ready, acked, faults, kept>>

(* Take it off again. *)
AbortIO(c) ==
  /\ pc[c] = "open"
  /\ req[c] = "queued"
  /\ io_port
  /\ req' = [req EXCEPT ![c] = "none"]
  /\ UNCHANGED <<clientVars, libVars, bufVars, heldVars, taskVars, unitVars,
                 ctrl_c, ready, acked, faults, kept>>

(* TD_ADDCHANGEINT: is a request held?  Nothing locks the answer.          *)
AddChangeInt(c, n) ==
  /\ pc[c] = "open"
  /\ n \notin sent /\ Owner[n] = c
  /\ sent' = sent \cup {n}
  /\ note' = [note EXCEPT ![c] = n]
  /\ seen' = [seen EXCEPT ![c] = changeint_req]
  /\ Goto(c, "hold")
  /\ UNCHANGED <<vector, next, libVars, bufVars, changeint_req, replies,
                 taskVars, unitVars, ctrl_c, ready, acked, req, faults, kept>>

\* The end of both calls: their local variables are gone.
Return(c) ==
  /\ note' = [note EXCEPT ![c] = NULL]
  /\ seen' = [seen EXCEPT ![c] = NULL]
  /\ Goto(c, "open")

BadHold(c) ==  \* overwrites the held request without a reply
  /\ pc[c] = "hold"
  /\ changeint_req' = note[c]
  /\ Return(c)
  /\ UNCHANGED <<vector, next, libVars, bufVars, sent, replies,
                 taskVars, unitVars, ctrl_c, ready, acked, req, faults, kept>>

(* Reply it, and hold the new one in its place. *)
Hold(c) ==
  /\ pc[c] = "hold"
  /\ ReplyMsg(seen[c])
  /\ changeint_req' = note[c]
  /\ Return(c)
  /\ UNCHANGED <<vector, next, libVars, bufVars, sent, taskVars,
                 unitVars, ctrl_c, ready, acked, req, faults, kept>>

(* TD_REMCHANGEINT, from a client that uses TD_ADDCHANGEINT: if a request   *)
(* is held,                                                                *)
RemChangeInt(c) ==
  /\ pc[c] = "open"
  /\ \E n \in Notes : Owner[n] = c
  /\ changeint_req # NULL
  /\ seen' = [seen EXCEPT ![c] = changeint_req]
  /\ Goto(c, "drop")
  /\ UNCHANGED <<vector, next, note, libVars, bufVars, heldVars, taskVars,
                 unitVars, ctrl_c, ready, acked, req, faults, kept>>

(* reply it, and hold none. *)
Drop(c) ==
  /\ pc[c] = "drop"
  /\ ReplyMsg(seen[c])
  /\ changeint_req' = NULL
  /\ Return(c)
  /\ UNCHANGED <<vector, next, libVars, bufVars, sent, taskVars,
                 unitVars, ctrl_c, ready, acked, req, faults, kept>>

-----------------------------------------------------------------------------
(* The unit task.                                                          *)

TaskGoto(place) == tpc' = place

Queued == {c \in Clients : req[c] = "queued"}
Busy == {c \in Clients : req[c] = "busy"}

(* The port and the signal bit, then the ready signal. *)
TaskStarts ==
  /\ tpc = "init"
  /\ io_port' = TRUE
  /\ leak_port' = leak_port + 1
  /\ ready' = TRUE
  /\ TaskGoto("top")
  /\ UNCHANGED <<clientVars, libVars, bufVars, heldVars, ack_task, open_count,
                 task, task_shutdown, shutdown_ack_task, ctrl_c, acked, req,
                 faults, kept>>

(* One of them cannot be had. *)
TaskFails ==
  /\ tpc = "init"
  /\ faults < MaxFaults
  /\ faults' = faults + 1
  /\ task' = FALSE
  /\ ready' = TRUE
  /\ TaskGoto("none")
  /\ UNCHANGED <<clientVars, libVars, bufVars, heldVars, ack_task, leak_port,
                 open_count, io_port, task_shutdown, shutdown_ack_task, ctrl_c,
                 acked, req, kept>>

Top ==
  /\ tpc = "top"
  /\ TaskGoto(IF task_shutdown THEN "drain" ELSE "wait")
  /\ UNCHANGED <<clientVars, libVars, bufVars, heldVars, ack_task, leak_port,
                 unitVars, ctrl_c, ready, acked, req, faults, kept>>

(* A signal arrives, or a command is in flight and the task does not       *)
(* sleep.  Ctrl-C ends the loop; otherwise every message is dispatched.    *)
Wake ==
  /\ tpc = "wait"
  /\ ctrl_c \/ Queued # {} \/ Busy # {}
  /\ ctrl_c' = FALSE
  /\ IF ctrl_c
     THEN TaskGoto("drain") /\ UNCHANGED req
     ELSE /\ TaskGoto("top")
          /\ req' = [c \in Clients |-> IF c \in Queued THEN "busy" ELSE req[c]]
  /\ UNCHANGED <<clientVars, libVars, bufVars, heldVars, ack_task, leak_port,
                 unitVars, ready, acked, faults, kept>>

(* Harvest the completion of c's request, and reply it. *)
Harvest(c) ==
  /\ tpc \in {"top", "wait"}
  /\ req[c] = "busy"
  /\ req' = [req EXCEPT ![c] = "none"]
  /\ UNCHANGED <<clientVars, libVars, bufVars, heldVars, taskVars, unitVars,
                 ctrl_c, ready, acked, faults, kept>>

(* Exit: reply what is on the port with IOERR_ABORTED. *)
Drain ==
  /\ tpc = "drain"
  /\ req' = [c \in Clients |-> IF c \in Queued THEN "none" ELSE req[c]]
  /\ TaskGoto("port")
  /\ UNCHANGED <<clientVars, libVars, bufVars, heldVars, ack_task, leak_port,
                 unitVars, ctrl_c, ready, acked, faults, kept>>

(* Free port and signal, and look who waits. *)
FreePort ==
  /\ tpc = "port"
  /\ io_port' = FALSE
  /\ leak_port' = leak_port - 1
  /\ ack_task' = shutdown_ack_task
  /\ TaskGoto("clear")
  /\ UNCHANGED <<clientVars, libVars, bufVars, heldVars, open_count, task,
                 task_shutdown, shutdown_ack_task, ctrl_c, ready, acked, req,
                 faults, kept>>

(* Clear unit->task; in the fallback that is all. *)
ClearTask ==
  /\ tpc = "clear"
  /\ task' = FALSE
  /\ TaskGoto(IF ack_task = NULL THEN "none" ELSE "ack")
  /\ UNCHANGED <<clientVars, libVars, bufVars, heldVars, ack_task, leak_port,
                 open_count, io_port, task_shutdown, shutdown_ack_task, ctrl_c,
                 ready, acked, req, faults, kept>>

(* Signal the waiting parent. *)
Acknowledge ==
  /\ tpc = "ack"
  /\ acked' = TRUE
  /\ TaskGoto("none")
  /\ UNCHANGED <<clientVars, libVars, bufVars, heldVars, ack_task, leak_port,
                 unitVars, ctrl_c, ready, req, faults, kept>>

Task ==
  \/ TaskStarts \/ TaskFails \/ Top \/ Wake \/ \E c \in Clients : Harvest(c)
  \/ Drain \/ FreePort \/ ClearTask \/ Acknowledge

-----------------------------------------------------------------------------
Client(c) ==
  \/ Open(c) \/ Close(c) \/ BeginIO(c) \/ AbortIO(c)
  \/ \E n \in Notes : AddChangeInt(c, n)
  \/ RemChangeInt(c) \/ Hold(c) \/ Drop(c)

Next == Task \/ Expunge \/ \E c \in Clients : Client(c)

\* A client inside a call of the device.
Inside(c) == pc[c] \notin {"closed", "open"}

Spinning == \E c \in Clients : pc[c] = "spin"

(* A client goes on with a call it has begun.  The unit task is scheduled, *)
(* except beside a parent of the same priority that spins.                 *)
Fairness ==
  /\ \A c \in Clients : WF_vars(Inside(c) /\ Client(c))
  /\ WF_vars(Task /\ ~Spinning)

Spec == Init /\ [][Next]_vars
FairSpec == Spec /\ Fairness

-----------------------------------------------------------------------------
(* Properties.                                                             *)

\* Pins and arrays the unit has pointers to.
Pins == Cardinality(bounce_bufs) + Cardinality(prp_list_pages) + Dsm(dsm_buf)
Entries == Cardinality(dma_entry_pool)

(* Whoever has the unit open has a running task with a port, whatever      *)
(* opens, closes and failed starts came before: no shutdown is left over   *)
(* from an earlier life (Open.c:53-60, unit_task.c:1095).                  *)
OpenMeansServed ==
  \A c \in Clients : pc[c] \in {"open", "hold", "drop"} =>
    task /\ io_port /\ ~task_shutdown /\ ~ctrl_c /\ tpc \in {"top", "wait"}

(* The task never works, and never empties its port, on buffers that the   *)
(* parent has not pinned yet or has already freed: they go only after the  *)
(* acknowledgement (unit_task.c:1211-1253).                                *)
NoUseAfterFree ==
  tpc \in {"init", "top", "wait", "drain"} =>
    bounce_bufs = Slot /\ prp_list_pages = Slot

(* Unless a start failed in the task or a shutdown fell back to the spin,  *)
(* the leak counters are the buffers the unit points to, and there are     *)
(* none while the unit is closed, wherever an allocation failed            *)
(* (unit_task.c:1128-1164, 1221-1253).                                     *)
NoLeak ==
  ~kept => /\ leak_dma = Pins /\ leak_dmaentry = Entries
           /\ vector = NULL /\ open_count = 0 =>
                leak_dma = 0 /\ leak_dmaentry = 0 /\ leak_port = 0

(* The device is not unloaded while anyone uses it: no client is inside,   *)
(* no task runs, no port and no held request is left, although Expunge may *)
(* be asked for at any time and be deferred to a close (Expunge.c:35-42,   *)
(* Close.c:53-59).                                                         *)
NoUnloadWhileUsed ==
  ~loaded => /\ \A c \in Clients : pc[c] = "closed"
             /\ ~task /\ ~io_port /\ changeint_req = NULL

(* An Expunge that was deferred is carried out by the last close or        *)
(* cancelled by a later open, never forgotten.                             *)
DeferredNotForgotten == vector = NULL /\ lib_OpenCnt = 0 /\ loaded => ~delexp

(* Every TD_ADDCHANGEINT is held or has been replied, once, by a later     *)
(* one, by TD_REMCHANGEINT or by the last close (BeginIO.c:92-98,          *)
(* Close.c:35-39), as long as one client at a time uses them.              *)
HeldOnce ==
  \A n \in sent :
    \/ \E c \in Clients : Inside(c) /\ note[c] = n /\ pc[c] = "hold"
    \/ \E c \in Clients : pc[c] = "drop" /\ seen[c] = n
    \/ changeint_req = n /\ replies[n] = 0
    \/ changeint_req # n /\ replies[n] = 1

(* Every call returns, Open and Close with all their handshakes included,  *)
(* except a shutdown that found no signal bit and spins.                   *)
EveryCallReturns ==
  \A c \in Clients : Inside(c) ~> (~Inside(c) \/ pc[c] = "spin")

(* nvme_leak.h:11: a clean shutdown leaves every counter at zero.          *)
CleanShutdown == ~loaded => leak_dma = 0 /\ leak_dmaentry = 0 /\ leak_port = 0

=============================================================================

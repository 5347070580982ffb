----------------------------- MODULE TaskLives ------------------------------
(***************************************************************************)
(* The unit task of UnitTask over its lives: the last CloseDevice stops it *)
(* (UnitTask_Shutdown), the next OpenDevice starts another                 *)
(* (UnitTask_Start), and what outlives a task is whatever neither of them  *)
(* resets: the in-flight table, both rings with their positions and        *)
(* doorbell, and the commands the controller has.  The handshakes of start *)
(* and shutdown and their failures are in Lifecycle.                       *)
(*                                                                         *)
(* A client may close with requests outstanding; it sends nothing and      *)
(* aborts nothing afterwards, and while the unit is closed nobody does.    *)
(***************************************************************************)
EXTENDS UnitTask

CONSTANT MaxLives  \* bound on the number of tasks

ASSUME LivesAssumption == MaxLives \in Nat \ {0}

VARIABLES
  life,           \* up, drain (after the loop), down (unit->task is NULL) or
                  \* closed (the buffers are freed)
  task_shutdown,  \* unit->task_shutdown
  lives           \* tasks started

lifeVars == <<life, task_shutdown, lives>>
allVars == <<vars, lifeVars>>

LivesInit ==
  /\ Init
  /\ life = "up"
  /\ task_shutdown = FALSE
  /\ lives = 1

\* The loop ends at its test of task_shutdown, or on Ctrl-C before Harvest.
LoopEnds == \/ pc = "top" /\ task_shutdown
            \/ pc = "wake" /\ "ctrl_c" \in signals

LiveTask == life = "up" /\ ~LoopEnds /\ Task /\ UNCHANGED lifeVars

LiveClient == life = "up" /\ ~task_shutdown /\ Client /\ UNCHANGED lifeVars

(* UnitTask_Shutdown: task_shutdown, then Ctrl-C. *)
Shutdown ==
  /\ life = "up" /\ ~task_shutdown
  /\ task_shutdown' = TRUE
  /\ sigs' = sigs \cup {"ctrl_c"}
  /\ UNCHANGED <<queueVars, clientVars, loopVars, intms, life, lives>>

BadLeave ==  \* the task aborts what is in flight
  /\ life = "up" /\ LoopEnds
  /\ life' = "drain"
  /\ inflight' = [s \in Slot |-> FreeInflight]
  /\ inflight_current' = 0
  /\ leak_dma' = 0
  /\ replies' = [r \in Req |-> IF Held(r) THEN replies[r] + 1 ELSE replies[r]]
  /\ io_Error' = [r \in Req |-> Held(r) \/ io_Error[r]]
  /\ pc' = "top" /\ signals' = {}
  /\ UNCHANGED <<io_sq, io_sq_tail, sq_doorbell, io_cq_head, io_cq_phase,
                 timeouts, devVars, clientVars, sigs, cur, done, slot,
                 tail_before, batch, intms, task_shutdown, lives>>

(* The loop ends; commands in flight stay in their slots. *)
Leave ==
  /\ life = "up" /\ LoopEnds
  /\ life' = "drain"
  /\ pc' = "top" /\ signals' = {}
  /\ UNCHANGED <<queueVars, clientVars, sigs, cur, done, slot, tail_before,
                 batch, intms, task_shutdown, lives>>

(* What is still on the port is replied with IOERR_ABORTED. *)
DrainPort ==
  /\ life = "drain"
  /\ port # <<>>
  /\ port' = Tail(port)
  /\ Reply(Head(port), TRUE)
  /\ UNCHANGED <<hostVars, devVars, sent, sigs, loopVars, intms, lifeVars>>

BadGone ==  \* the task goes without emptying its port
  /\ life = "drain"
  /\ life' = "down"
  /\ sigs' = {}
  /\ UNCHANGED <<queueVars, clientVars, loopVars, intms, task_shutdown, lives>>

(* The port and the signals go with the task.                              *)
Gone ==
  /\ life = "drain"
  /\ port = <<>>
  /\ life' = "down"
  /\ sigs' = {}
  /\ UNCHANGED <<queueVars, clientVars, loopVars, intms, task_shutdown, lives>>

(* UnitTask_Shutdown has its acknowledgement and frees bounce buffers, PRP *)
(* pages, DSM buffer and pools.                                            *)
Free ==
  /\ life = "down"
  /\ life' = "closed"
  /\ UNCHANGED <<vars, task_shutdown, lives>>

BadStart ==  \* starts with an empty in-flight table
  /\ life = "closed"
  /\ lives < MaxLives
  /\ life' = "up" /\ lives' = lives + 1
  /\ task_shutdown' = FALSE
  /\ inflight' = [s \in Slot |-> FreeInflight]
  /\ UNCHANGED <<inflight_current, leak_dma, io_sq, io_sq_tail, sq_doorbell,
                 io_cq_head, io_cq_phase, timeouts, reqVars, devVars,
                 clientVars, sigs, loopVars, intms>>

(* UnitTask_Start: new buffers, a new task at the top of its loop.         *)
Start ==
  /\ life = "closed"
  /\ lives < MaxLives
  /\ life' = "up" /\ lives' = lives + 1
  /\ task_shutdown' = FALSE
  /\ UNCHANGED vars

(* The handler stays installed; without io_wait_task it does not signal    *)
(* this unit's task.                                                       *)
LiveInterrupt ==
  /\ Interrupt /\ life \in {"up", "drain"}
  /\ UNCHANGED lifeVars

DeafInterrupt ==
  /\ IrqInstalled
  /\ CqeReady \/ OtherUnits
  /\ life \in {"down", "closed"}
  /\ intms' = intms \cup {"handler"}
  /\ UNCHANGED <<queueVars, clientVars, sigs, loopVars, lifeVars>>

OtherMask == (AdminMask \/ OtherUnmask) /\ UNCHANGED lifeVars

Exit == Leave \/ DrainPort \/ Gone

LivesNext ==
  \/ LiveTask \/ LiveClient
  \/ LiveInterrupt \/ DeafInterrupt \/ OtherMask
  \/ Device /\ UNCHANGED lifeVars
  \/ Shutdown \/ Exit \/ Free \/ Start

(* As in UnitTask; nobody has to open or close a unit.                     *)
LivesFairness ==
  /\ WF_allVars(LiveTask)
  /\ WF_allVars(Exit)
  /\ WF_allVars(/\ Fetch
                /\ UNCHANGED <<clientVars, sigs, loopVars, intms, lifeVars>>)
  /\ \A r \in Req :
       WF_allVars(/\ \E c \in executing, ok \in BOOLEAN :
                       c.ioreq = r /\ Complete(c, ok)
                  /\ UNCHANGED <<clientVars, sigs, loopVars, intms, lifeVars>>)

LivesSpec == LivesInit /\ [][LivesNext]_allVars /\ LivesFairness

-----------------------------------------------------------------------------
(* Properties, with ExactlyOnce, NoLostWakeup and SqNeverFills of UnitTask, *)
(* which must survive the exit.                                            *)

(* UnitTask_Shutdown frees memory that commands in flight would use        *)
(* (unit_task.c:1222-1252) and asks nobody about them.  That is safe if    *)
(* every request has been replied and no wait has given up: then the       *)
(* controller has no command and no completion is unread.                  *)
FreedQuiet ==
  life = "closed" /\ timeouts = 0 /\ (\A r \in sent : replies[r] > 0) =>
    Occupied = {} /\ LiveCids = {}

(* A life that is not ended serves every request, also those that an       *)
(* earlier life has left in flight (unit_task.c:866-873 aborts only what   *)
(* is on the port), unless the doorbell was missed.                        *)
EventuallyServed ==
  \A r \in Req : []<>(\/ r \notin sent \/ replies[r] > 0 \/ DoorbellMissed
                      \/ life # "up" \/ task_shutdown)

=============================================================================

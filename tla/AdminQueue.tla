----------------------------- MODULE AdminQueue -----------------------------
(***************************************************************************)
(* The admin queue of one controller at run time                           *)
(* (src/src/nvme/nvme_admin.c): tasks that refresh the SMART cache         *)
(* (NSCMD_NVME_GETSTATS in the caller's task, LOG SENSE and ATA            *)
(* PASS-THROUGH in a unit task) or set the write cache (MODE SELECT in a   *)
(* unit task) share io_lock, the admin rings, identify_buf, smart_cache    *)
(* and vwc_enabled, while unit tasks and the interrupt handler write the   *)
(* same interrupt mask.                                                    *)
(*                                                                         *)
(* Every call is one task's; pc[c] is its place:                           *)
(*   start  before the test of the cache or of vwc_enabled                 *)
(*   obtain ObtainSemaphore     issue  the call of NVMe_AdminCmd           *)
(*   poll   its polling loop    release  ReleaseSemaphore                  *)
(*   apply  use of the status and of identify_buf          done            *)
(***************************************************************************)
EXTENDS Naturals

CONSTANTS
  Calls,         \* admin calls, each from a task of its own
  Op,            \* Op[c]: what c does
  NULL,          \* no call
  ADepth,        \* NVME_ADMIN_QUEUE_DEPTH
  AtInit,        \* number of commands device initialisation sent, mod ADepth
  IrqInstalled   \* ctrl->irq_installed

\* smart     NVMe_RefreshSMART behind the test of the cache's age
\* wce, wcd  MODE SELECT that enables, disables the write cache
Ops == {"smart", "wce", "wcd"}

ASSUME AdminAssumption ==
  /\ Op \in [Calls -> Ops]
  /\ NULL \notin Calls
  /\ ADepth \in Nat /\ ADepth > 1
  /\ AtInit \in 0 .. ADepth - 1
  /\ IrqInstalled \in BOOLEAN

VARIABLES
  pc, status,     \* place and NVMe status of each call
  answered,       \* history: whose command the status of the call belongs to
  overlapped,     \* history: kinds of call that have overlapped one another
  io_lock,        \* owner of ctrl->io_lock
  admin_sq, admin_sq_tail, admin_cq_head, admin_cq_phase,
  identify_buf,   \* what the scratch buffer holds
  smart_cache,    \* what the cache was parsed from, "none" if not valid
  vwc_enabled,
  intms,          \* the interrupt mask, bit 0
  dev_sq_head, working, admin_cq, dev_cq_tail, dev_cq_phase,  \* controller
  dev_wce         \* the controller's write cache setting

callVars == <<pc, status, answered, overlapped>>
ringVars == <<admin_sq, admin_sq_tail, admin_cq_head, admin_cq_phase>>
cacheVars == <<smart_cache, vwc_enabled>>
devVars == <<dev_sq_head, working, admin_cq, dev_cq_tail, dev_cq_phase, dev_wce>>
vars == <<callVars, io_lock, ringVars, identify_buf, cacheVars, intms, devVars>>

AIndex == 0 .. ADepth - 1
Data == {"identify", "zero", "log"}
Pc == {"start", "obtain", "issue", "poll", "release", "apply", "done"}
AdminCQE == [call : Calls \cup {NULL}, phase : {0, 1}, ok : BOOLEAN]

(* Every variable keeps its type; in particular the controller executes    *)
(* only entries a call has written (nvme_admin.c:73-83).                   *)
TypeOK ==
  /\ pc \in [Calls -> Pc]
  /\ status \in [Calls -> {"none", "ok", "error", "timeout"}]
  /\ answered \in [Calls -> Calls \cup {NULL}]
  /\ overlapped \in SUBSET {"smart", "select"}
  /\ io_lock \in Calls \cup {NULL}
  /\ admin_sq \in [AIndex -> Calls \cup {NULL}]
  /\ admin_sq_tail \in AIndex /\ admin_cq_head \in AIndex
  /\ admin_cq_phase \in {0, 1}
  /\ identify_buf \in Data
  /\ smart_cache \in Data \cup {"none"}
  /\ vwc_enabled \in BOOLEAN /\ intms \in BOOLEAN
  /\ dev_sq_head \in AIndex /\ dev_cq_tail \in AIndex
  /\ working \in SUBSET Calls
  /\ admin_cq \in [AIndex -> AdminCQE]
  /\ dev_cq_phase \in {0, 1}
  /\ dev_wce \in BOOLEAN

(* After device initialisation: its commands have gone through the rings,  *)
(* the write cache is on and the mask is set.                              *)
Init ==
  /\ pc = [c \in Calls |-> "start"]
  /\ status = [c \in Calls |-> "none"]
  /\ answered = [c \in Calls |-> NULL]
  /\ overlapped = {}
  /\ io_lock = NULL
  /\ admin_sq = [i \in AIndex |-> NULL]
  /\ admin_sq_tail = AtInit
  /\ admin_cq_head = AtInit
  /\ dev_sq_head = AtInit
  /\ dev_cq_tail = AtInit
  /\ admin_cq_phase = 1
  /\ dev_cq_phase = 1
  /\ admin_cq = [i \in AIndex |->
       [call |-> NULL, phase |-> IF i < AtInit THEN 1 ELSE 0, ok |-> TRUE]]
  /\ working = {}
  /\ identify_buf = "identify"
  /\ smart_cache = "none"
  /\ vwc_enabled = TRUE
  /\ dev_wce = TRUE
  /\ intms = TRUE

-----------------------------------------------------------------------------
(* The calls.                                                              *)

\* Operators named Bad... are mutants of the definition below them: what a
\* plausible slip in the code would have made of it.
BadSucc(i) == i + 1
Succ(i) == (i + 1) % ADepth

Goto(c, next) == pc' = [pc EXCEPT ![c] = next]

KindOf(c) == IF Op[c] = "smart" THEN "smart" ELSE "select"

\* Calls of a kind that have tested their condition and not yet applied the
\* result.
Busy(kind) == {c \in Calls : KindOf(c) = kind /\ pc[c] \notin {"start", "done"}}

\* Call c goes past its test.
Enter(c) ==
  /\ Goto(c, "obtain")
  /\ overlapped' = IF Busy(KindOf(c)) = {} THEN overlapped
                                           ELSE overlapped \cup {KindOf(c)}

(* The cache is valid and young enough: no command. *)
Fresh(c) ==
  /\ pc[c] = "start"
  /\ Op[c] = "smart"
  /\ smart_cache # "none"
  /\ Goto(c, "done")
  /\ UNCHANGED <<status, answered, overlapped, io_lock, ringVars, identify_buf,
                 cacheVars, intms, devVars>>

(* RefreshSMART clears the scratch buffer before it obtains the semaphore. *)
Refresh(c) ==
  /\ pc[c] = "start"
  /\ Op[c] = "smart"
  /\ identify_buf' = "zero"
  /\ Enter(c)
  /\ UNCHANGED <<status, answered, io_lock, ringVars, cacheVars, intms, devVars>>

\* The state a MODE SELECT asks for.
Wce(c) == Op[c] = "wce"

BadModeSelect(c) ==  \* records the setting before the controller has it
  /\ pc[c] = "start"
  /\ Op[c] # "smart"
  /\ IF Wce(c) = vwc_enabled
     THEN Goto(c, "done") /\ UNCHANGED <<overlapped, vwc_enabled>>
     ELSE Enter(c) /\ vwc_enabled' = Wce(c)
  /\ UNCHANGED <<status, answered, io_lock, ringVars, identify_buf,
                 smart_cache, intms, devVars>>

(* MODE SELECT sends Set Features only if the setting would change. *)
ModeSelect(c) ==
  /\ pc[c] = "start"
  /\ Op[c] # "smart"
  /\ IF Wce(c) = vwc_enabled THEN Goto(c, "done") /\ UNCHANGED overlapped
                             ELSE Enter(c)
  /\ UNCHANGED <<status, answered, io_lock, ringVars, identify_buf, cacheVars,
                 intms, devVars>>

BadObtain(c) ==  \* no mutual exclusion
  /\ pc[c] = "obtain"
  /\ io_lock' = c
  /\ Goto(c, "issue")
  /\ UNCHANGED <<status, answered, overlapped, ringVars, identify_buf,
                 cacheVars, intms, devVars>>

Obtain(c) ==
  /\ pc[c] = "obtain"
  /\ io_lock = NULL
  /\ io_lock' = c
  /\ Goto(c, "issue")
  /\ UNCHANGED <<status, answered, overlapped, ringVars, identify_buf,
                 cacheVars, intms, devVars>>

(* NVMe_AdminCmd: mask, write the entry, ring the doorbell with the tail. *)
Issue(c) ==
  /\ pc[c] = "issue"
  /\ intms' = TRUE
  /\ admin_sq' = [admin_sq EXCEPT ![admin_sq_tail] = c]
  /\ admin_sq_tail' = Succ(admin_sq_tail)
  /\ Goto(c, "poll")
  /\ UNCHANGED <<status, answered, overlapped, io_lock, admin_cq_head,
                 admin_cq_phase, identify_buf, cacheVars, devVars>>

CqeReady == admin_cq[admin_cq_head].phase = admin_cq_phase

BadConsume(c) ==  \* the expected phase does not change with the pass
  /\ pc[c] = "poll"
  /\ CqeReady
  /\ status' = [status EXCEPT ![c] =
                  IF admin_cq[admin_cq_head].ok THEN "ok" ELSE "error"]
  /\ answered' = [answered EXCEPT ![c] = admin_cq[admin_cq_head].call]
  /\ admin_cq_head' = Succ(admin_cq_head)
  /\ Goto(c, "release")
  /\ UNCHANGED <<overlapped, io_lock, admin_sq, admin_sq_tail, admin_cq_phase,
                 identify_buf, cacheVars, intms, devVars>>

(* The entry at the head is of this pass: it is taken for the answer,      *)
(* whatever its cid.                                                       *)
Consume(c) ==
  /\ pc[c] = "poll"
  /\ CqeReady
  /\ status' = [status EXCEPT ![c] =
                  IF admin_cq[admin_cq_head].ok THEN "ok" ELSE "error"]
  /\ answered' = [answered EXCEPT ![c] = admin_cq[admin_cq_head].call]
  /\ admin_cq_head' = Succ(admin_cq_head)
  /\ admin_cq_phase' = IF Succ(admin_cq_head) = 0 THEN 1 - admin_cq_phase
                                                  ELSE admin_cq_phase
  /\ Goto(c, "release")
  /\ UNCHANGED <<overlapped, io_lock, admin_sq, admin_sq_tail, identify_buf,
                 cacheVars, intms, devVars>>

BadGiveUp(c) ==  \* the timeout returns past ReleaseSemaphore
  /\ pc[c] = "poll"
  /\ ~CqeReady
  /\ status' = [status EXCEPT ![c] = "timeout"]
  /\ Goto(c, "apply")
  /\ UNCHANGED <<answered, overlapped, io_lock, ringVars, identify_buf,
                 cacheVars, intms, devVars>>

(* The polls are used up, or CSTS.CFS is set: 0xFFFF. *)
GiveUp(c) ==
  /\ pc[c] = "poll"
  /\ ~CqeReady
  /\ status' = [status EXCEPT ![c] = "timeout"]
  /\ Goto(c, "release")
  /\ UNCHANGED <<answered, overlapped, io_lock, ringVars, identify_buf,
                 cacheVars, intms, devVars>>

Release(c) ==
  /\ pc[c] = "release"
  /\ io_lock' = NULL
  /\ Goto(c, "apply")
  /\ UNCHANGED <<status, answered, overlapped, ringVars, identify_buf,
                 cacheVars, intms, devVars>>

BadSucceeded(c) == status[c] # "timeout"
Succeeded(c) == status[c] = "ok"

(* After the semaphore: parse identify_buf into the cache, or record the   *)
(* new setting; after a failure, neither.                                  *)
Apply(c) ==
  /\ pc[c] = "apply"
  /\ smart_cache' = IF Succeeded(c) /\ Op[c] = "smart" THEN identify_buf
                                                       ELSE smart_cache
  /\ vwc_enabled' = IF Succeeded(c) /\ Op[c] # "smart" THEN Wce(c)
                                                       ELSE vwc_enabled
  /\ Goto(c, "done")
  /\ UNCHANGED <<status, answered, overlapped, io_lock, ringVars, identify_buf,
                 intms, devVars>>

Call(c) ==
  \/ Fresh(c) \/ Refresh(c) \/ ModeSelect(c)
  \/ Obtain(c) \/ Issue(c) \/ Consume(c) \/ GiveUp(c) \/ Release(c)
  \/ Apply(c)

-----------------------------------------------------------------------------
(* The I/O side of the same controller: the handler masks when a unit has  *)
(* a completion, every unit task unmasks when it goes round its loop.      *)
MaskIrq ==
  /\ IrqInstalled
  /\ intms' = TRUE
  /\ UNCHANGED <<callVars, io_lock, ringVars, identify_buf, cacheVars, devVars>>

UnmaskIrq ==
  /\ IrqInstalled
  /\ intms' = FALSE
  /\ UNCHANGED <<callVars, io_lock, ringVars, identify_buf, cacheVars, devVars>>

-----------------------------------------------------------------------------
(* The controller.                                                         *)

Fetch ==
  /\ dev_sq_head # admin_sq_tail
  /\ working' = working \cup {admin_sq[dev_sq_head]}
  /\ dev_sq_head' = Succ(dev_sq_head)
  /\ UNCHANGED <<callVars, io_lock, ringVars, identify_buf, cacheVars, intms,
                 admin_cq, dev_cq_tail, dev_cq_phase, dev_wce>>

(* Carry out c's command, successfully or not, and post the completion. *)
Complete(c, ok) ==
  /\ c \in working
  /\ Succ(dev_cq_tail) # admin_cq_head
  /\ working' = working \ {c}
  /\ identify_buf' = IF ok /\ Op[c] = "smart" THEN "log" ELSE identify_buf
  /\ dev_wce' = IF ok /\ Op[c] # "smart" THEN Wce(c) ELSE dev_wce
  /\ admin_cq' = [admin_cq EXCEPT ![dev_cq_tail] =
                    [call |-> c, phase |-> dev_cq_phase, ok |-> ok]]
  /\ dev_cq_tail' = Succ(dev_cq_tail)
  /\ dev_cq_phase' = IF Succ(dev_cq_tail) = 0 THEN 1 - dev_cq_phase
                                              ELSE dev_cq_phase
  /\ UNCHANGED <<callVars, io_lock, ringVars, cacheVars, intms, dev_sq_head>>

-----------------------------------------------------------------------------
Next ==
  \/ \E c \in Calls : Call(c) \/ \E ok \in BOOLEAN : Complete(c, ok)
  \/ MaskIrq \/ UnmaskIrq \/ Fetch

(* Every task is scheduled.  Nothing is assumed of the controller: the     *)
(* polling loop is bounded.                                                *)
Fairness == \A c \in Calls : WF_vars(Call(c))

Spec == Init /\ [][Next]_vars
FairSpec == Spec /\ Fairness

-----------------------------------------------------------------------------
(* Properties.                                                             *)

TimedOut == {c \in Calls : status[c] = "timeout"}

(* As long as no poll has given up, the status a task gets is that of its  *)
(* own command, although NVMe_AdminCmd looks at nothing but the phase bit  *)
(* (nvme_admin.c:88-104): io_lock leaves one command outstanding and the   *)
(* rings stay in step, however often they wrap.                            *)
AnswersOwn ==
  TimedOut = {} => \A c \in Calls : status[c] # "none" => answered[c] = c

(* Every answer is a completion posted for one of the calls, late ones     *)
(* after a timeout included, and none is taken twice: the phase bit tells  *)
(* an entry of this pass from the one read there before                    *)
(* (nvme_admin.c:99-101).                                                  *)
EachCompletionOnce ==
  \A c \in Calls : status[c] \in {"ok", "error"} =>
    /\ answered[c] # NULL
    /\ \A d \in Calls \ {c} : answered[d] # answered[c]

(* A valid SMART cache was parsed from a health log, not from the cleared  *)
(* or the Identify buffer, as long as no poll gave up and no two refreshes *)
(* overlapped: commands of other kinds may come between the clearing, the  *)
(* command and the parse (nvme_admin.c:429-468).                           *)
CacheReal ==
  TimedOut = {} /\ "smart" \notin overlapped => smart_cache \in {"none", "log"}

(* When no MODE SELECT is under way, vwc_enabled is what the controller    *)
(* uses, if none has overlapped another and no poll gave up: a refused Set *)
(* Features changes neither (scsi_mode.c:250-259).                         *)
VwcTracks ==
  /\ TimedOut = {}
  /\ "select" \notin overlapped
  /\ Busy("select") = {}
  => vwc_enabled = dev_wce

(* Every call comes back, whatever the others do and even if the           *)
(* controller is dead: the poll is bounded and every way out of            *)
(* NVMe_AdminCmd passes ReleaseSemaphore (nvme_admin.c:88-121).            *)
AllReturn == \A c \in Calls : <>(pc[c] = "done")

=============================================================================

--------------------------- MODULE AdminQueueInv ----------------------------
(***************************************************************************)
(* The inductive invariant of AdminQueue.                                  *)
(***************************************************************************)
EXTENDS AdminQueue

\* The positions of the submission ring from the controller's head to the tail.
Between(h, t) == {i \in AIndex : IF h <= t THEN h <= i /\ i < t
                                          ELSE h <= i \/ i < t}

(* The controller finds a call in every entry it may still fetch. *)
RingWritten == \A i \in Between(dev_sq_head, admin_sq_tail) : admin_sq[i] \in Calls

(* Inside NVMe_AdminCmd a call owns io_lock. *)
LockHeld == \A c \in Calls : pc[c] \in {"issue", "poll", "release"} => io_lock = c

(* A call has no status before its poll has ended. *)
NoStatusYet ==
  \A c \in Calls : pc[c] \in {"start", "obtain", "issue", "poll"} => status[c] = "none"

\* The phase bits of a completion ring whose consumer is at h in pass p.
PhasesFrom(h, p, i) == admin_cq[i].phase = IF i < h THEN p ELSE 1 - p

(* The completion ring is empty and both sides are in the same pass. *)
CqEmpty ==
  /\ dev_cq_tail = admin_cq_head
  /\ dev_cq_phase = admin_cq_phase
  /\ \A i \in AIndex : PhasesFrom(admin_cq_head, admin_cq_phase, i)

(* It holds the completion of c and nothing else. *)
CqHolds(c) ==
  /\ dev_cq_tail = Succ(admin_cq_head)
  /\ dev_cq_phase = IF Succ(admin_cq_head) = 0 THEN 1 - admin_cq_phase
                                               ELSE admin_cq_phase
  /\ CqeReady
  /\ admin_cq[admin_cq_head].call = c
  /\ \A i \in AIndex \ {admin_cq_head} :
       PhasesFrom(admin_cq_head, admin_cq_phase, i)

(* No command is outstanding. *)
Quiet == dev_sq_head = admin_sq_tail /\ working = {} /\ CqEmpty

(* The one outstanding command is c's: written, in execution or completed. *)
Outstanding(c) ==
  \/ /\ admin_sq_tail = Succ(dev_sq_head) /\ admin_sq[dev_sq_head] = c
     /\ working = {}
     /\ CqEmpty
  \/ /\ dev_sq_head = admin_sq_tail
     /\ working = {c}
     /\ CqEmpty
  \/ /\ dev_sq_head = admin_sq_tail
     /\ working = {}
     /\ CqHolds(c)

(* As long as no poll has given up, the only outstanding command is that   *)
(* of the call that polls.                                                 *)
OneOutstanding ==
  TimedOut = {} =>
    \/ Quiet /\ \A c \in Calls : pc[c] # "poll"
    \/ \E c \in Calls : pc[c] = "poll" /\ Outstanding(c)

\* The controller has carried out c's command successfully and c has not yet
\* applied the result.
Succeeding(c) ==
  \/ pc[c] = "poll" /\ CqeReady /\ admin_cq[admin_cq_head].ok
  \/ pc[c] \in {"release", "apply"} /\ Succeeded(c)

\* Calls of this kind have gone one after the other, and no poll gave up.
OneByOne(kind) == TimedOut = {} /\ kind \notin overlapped

(* Calls of a kind that has not overlapped are busy one at a time. *)
BusyAlone ==
  \A kind \in {"smart", "select"} : kind \notin overlapped =>
    \A c, d \in Busy(kind) : c = d

(* What a refresh is about to parse is the log. *)
LogInBuffer ==
  OneByOne("smart") => \A c \in Busy("smart") : Succeeding(c) => identify_buf = "log"

(* vwc_enabled lags behind the controller exactly while a successful MODE  *)
(* SELECT has not recorded its result.                                     *)
SelectLags ==
  OneByOne("select") => \A c \in Busy("select") :
    dev_wce = IF Succeeding(c) THEN Wce(c) ELSE vwc_enabled

(* All of it. *)
AdminInv ==
  /\ TypeOK
  /\ RingWritten
  /\ LockHeld
  /\ NoStatusYet
  /\ OneOutstanding
  /\ AnswersOwn
  /\ BusyAlone
  /\ LogInBuffer
  /\ CacheReal
  /\ SelectLags
  /\ VwcTracks

-----------------------------------------------------------------------------
(* Where the command of a call is.  None of this needs the polls to end    *)
(* well: completions that nobody waits for any more, and a submission ring *)
(* overrun behind a dead controller, are included.                         *)

Submitted == Between(dev_sq_head, admin_sq_tail)
Posted == Between(admin_cq_head, dev_cq_tail)

(* The phase bits tell how far the controller is, and whether it is one    *)
(* pass ahead of the calls.                                                *)
PhasesInv ==
  /\ dev_cq_phase = IF admin_cq_head <= dev_cq_tail THEN admin_cq_phase
                                                    ELSE 1 - admin_cq_phase
  /\ \A i \in AIndex : PhasesFrom(dev_cq_tail, dev_cq_phase, i)

\* The places where the command of c may be.
InRing(c) == \E i \in Submitted : admin_sq[i] = c
InPosted(c) == \E i \in Posted : admin_cq[i].call = c
Answered(c) == \E d \in Calls : answered[d] = c

(* A command is in one place at a time, once, and in none before its call  *)
(* has issued it.                                                          *)
OnePlace ==
  /\ \A i, j \in Submitted : admin_sq[i] = admin_sq[j] => i = j
  /\ \A i, j \in Posted : admin_cq[i].call = admin_cq[j].call => i = j
  /\ \A i \in Posted : admin_cq[i].call \in Calls
  /\ \A c, d \in Calls : answered[c] = answered[d] /\ answered[c] # NULL => c = d
  /\ \A c \in Calls :
       /\ InRing(c) => c \notin working /\ ~InPosted(c) /\ ~Answered(c)
       /\ c \in working => ~InPosted(c) /\ ~Answered(c)
       /\ InPosted(c) => ~Answered(c)
       /\ pc[c] \in {"start", "obtain", "issue"} =>
            ~InRing(c) /\ c \notin working /\ ~InPosted(c) /\ ~Answered(c)

AnswersInv ==
  /\ PhasesInv
  /\ OnePlace
  /\ \A c \in Calls : status[c] \in {"ok", "error"} => answered[c] # NULL

=============================================================================

---------------------------- MODULE TaskLivesMC -----------------------------
(***************************************************************************)
(* Instances of TaskLives.                                                 *)
(***************************************************************************)
EXTENDS TaskLives, TLC

CONSTANTS r1, r2, r3

\* A transfer and the two kinds that are polled for.
PolledKinds == r1 :> "rw" @@ r2 :> "split" @@ r3 :> "sync"

\* States that differ only in ring entries nobody will read again are one, as
\* are states that differ in what no step or property can depend on: the
\* medium, the interrupt mask, and the error of a request that is not being
\* polled for.
LivesView ==
  <<[i \in Index |-> IF i \in Unfetched THEN io_sq[i] ELSE NoSQE],
    [i \in Index |-> IF i \in Unharvested THEN io_cq[i]
                                          ELSE [phase |-> io_cq[i].phase]],
    inflight, io_sq_tail, sq_doorbell, io_cq_head, io_cq_phase, timeouts,
    IF cur = NULL THEN FALSE ELSE io_Error[cur], replies, dev_sq_head,
    executing, dev_cq_tail, dev_cq_phase, clientVars, sigs, pc, signals, cur,
    done, slot, tail_before, batch, lifeVars>>

=============================================================================

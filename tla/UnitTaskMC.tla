----------------------------- MODULE UnitTaskMC -----------------------------
(***************************************************************************)
(* Instances of UnitTask: which request is of which kind.                  *)
(***************************************************************************)
EXTENDS UnitTaskInv

CONSTANTS r1, r2, r3, r4

\* A transfer of one command, a flush, one above MDTS and one that needs no
\* command.
MixedKinds == r1 :> "rw" @@ r2 :> "flush" @@ r3 :> "split" @@ r4 :> "inline"

\* Two transfers and a SYNCHRONIZE CACHE beside a command answered from memory.
SyncKinds == r1 :> "rw" @@ r2 :> "rw" @@ r3 :> "sync" @@ r4 :> "inline"

\* Only transfers of one command.
PlainKinds == r1 :> "rw" @@ r2 :> "rw" @@ r3 :> "rw" @@ r4 :> "rw"

\* States that differ only in ring entries nobody will read again are one.
\* The phase bit of a consumed completion entry is read, so it stays.  Of the
\* interrupt mask, which no step reads, the handler's part is kept, the only
\* one a property is about.
LiveView ==
  LET unfetched   == Unfetched
      unharvested == Unharvested
  IN <<[i \in unfetched |-> io_sq[i]], [i \in unharvested |-> io_cq[i]],
       [i \in Index |-> io_cq[i].phase],
       inflight, inflight_current, leak_dma, io_sq_tail, sq_doorbell, io_cq_head,
       io_cq_phase, timeouts, io_Error, replies, dev_sq_head, executing,
       dev_cq_tail, dev_cq_phase, media, clientVars, sigs, loopVars,
       "handler" \in intms>>

=============================================================================

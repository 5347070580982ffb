---------------------------- MODULE AdminQueueMC ----------------------------
(***************************************************************************)
(* Instances of AdminQueue: which call does what.                          *)
(***************************************************************************)
EXTENDS AdminQueueInv, TLC

CONSTANTS s1, s2, m1, m2

\* Two refreshes of the SMART cache and two opposite MODE SELECTs.
MixedOps == s1 :> "smart" @@ s2 :> "smart" @@ m1 :> "wcd" @@ m2 :> "wce"

=============================================================================

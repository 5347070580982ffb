---------------------------- MODULE LifecycleMC -----------------------------
(***************************************************************************)
(* Instances of Lifecycle: who sends the TD_ADDCHANGEINT requests.         *)
(***************************************************************************)
EXTENDS Lifecycle, TLC

CONSTANTS c1, c2, n1, n2

\* Both requests from one client.
OneOwner == n1 :> c1 @@ n2 :> c1

=============================================================================

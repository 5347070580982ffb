---------------------------- MODULE BlockDevice -----------------------------
(***************************************************************************)
(* What a unit promises about data: a request moves cells between the      *)
(* caller's memory, at the addresses the caller knows, and the part of the *)
(* disk it names, and nothing else ever changes either; it does so only    *)
(* between its acceptance and its answer; and an answer without an error   *)
(* comes when every cell it asked for has been moved.                      *)
(*                                                                         *)
(* Requests under way together share neither memory nor blocks: what they  *)
(* would leave there is not promised.  trust is given up when a command of *)
(* a controller that stopped answering may still be carried out.           *)
(***************************************************************************)
EXTENDS Integers

CONSTANTS Req, NULL

VARIABLES
  op,      \* op[r]: NULL, or what r asks for; op[r].copy gives the source of
           \* every cell to be changed, in ram (read) or on disk
  answer,  \* answer[r]: none, ok or error
  ram, disk, trust

bdvars == <<op, answer, ram, disk, trust>>

Deallocated == -1

Init ==
  /\ op = [r \in Req |-> NULL]
  /\ answer = [r \in Req |-> "none"]
  /\ trust = TRUE

Accept(r) ==
  /\ op[r] = NULL
  /\ \A q \in Req : q # r => op'[q] = op[q]
  /\ UNCHANGED <<answer, ram, disk, trust>>

\* The content of cell x once request o has been carried out on it.
Wanted(o, x) == CASE o.kind = "read"  -> disk[o.copy[x]]
                  [] o.kind = "write" -> ram[o.copy[x]]
                  [] OTHER            -> Deallocated

ChangedRam  == {v \in DOMAIN ram : ram'[v] # ram[v]}
ChangedDisk == {b \in DOMAIN disk : disk'[b] # disk[b]}

(* r's cells, or some of them, are moved, or it is answered, or both.      *)
Serve(r) ==
  /\ op[r] # NULL
  /\ answer[r] = "none"
  /\ ChangedRam \subseteq IF op[r].kind = "read" THEN DOMAIN op[r].copy ELSE {}
  /\ ChangedDisk \subseteq IF op[r].kind = "read" THEN {} ELSE DOMAIN op[r].copy
  /\ \A v \in ChangedRam : ram'[v] = Wanted(op[r], v)
  /\ \A b \in ChangedDisk : disk'[b] = Wanted(op[r], b)
  /\ \E a \in {"none", "ok", "error"} : answer' = [answer EXCEPT ![r] = a]
  /\ answer'[r] = "ok" =>
       \A x \in DOMAIN op[r].copy :
         IF op[r].kind = "read" THEN x \in DOMAIN ram /\ ram'[x] = Wanted(op[r], x)
                                ELSE x \in DOMAIN disk /\ disk'[x] = Wanted(op[r], x)
  /\ UNCHANGED <<op, trust>>

Next == ~trust' \/ \E r \in Req : Accept(r) \/ Serve(r)

Spec == Init /\ [][Next]_bdvars

=============================================================================

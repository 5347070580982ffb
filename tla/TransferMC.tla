----------------------------- MODULE TransferMC -----------------------------
(***************************************************************************)
(* Instances of Transfer: callers' memory of nine pages that are not in    *)
(* order, and what the requests r1, r2 and r3 may carry.                   *)
(***************************************************************************)
EXTENDS Transfer, TLC

CONSTANTS r1, r2, r3

Pages == 0 :> 8 @@ 1 :> 7 @@ 2 :> 1 @@ 3 :> 2 @@ 4 :> 0 @@ 5 :> 5 @@ 6 :> 6
           @@ 7 :> 3 @@ 8 :> 4

Rw(cmd, high, offset, data, length) ==
  [cmd |-> cmd, offset |-> offset, actual |-> high, data |-> data,
   length |-> length, ranges |-> <<>>]

Discards(ranges) == [Rw("UNMAP", 0, 0, 0, 0) EXCEPT !.ranges = ranges]

(* r1: split, past Word, from memory that is not page-aligned; a bounced   *)
(* read with a PRP list; direct ones of two pages and of the most a        *)
(* command takes, from an odd address; and what is refused or does         *)
(* nothing.  r2: short transfers and UNMAPs.  r3: a misaligned one, which  *)
(* waits for a slot like any other.                                        *)
Mixed ==
  r1 :> {Rw("WRITE64", 1, 2, 9, 20), Rw("READ64", 1, 2, 9, 20),
         Rw("READ", 7, 4, 9, 12), Rw("READ", 0, 4, 8, 8),
         Rw("READ", 0, 4, 9, 16), Rw("WRITE", 0, 4, 8, 5),
         Rw("READ", 0, 4, NULL, 8), Rw("READ", 0, 4, 8, 0),
         Rw("READ64", 1, 26, 8, 8)}
  @@ r2 :> {Rw("FORMAT64", 0, 24, 1, 4), Rw("READ", 0, 24, 0, 8),
            Discards(<<>>), Discards(<<<<12, 1>>, <<14, 2>>>>),
            Discards(<<<<12, 1>>, <<13, 1>>, <<14, 1>>>>)}
  @@ r3 :> {Rw("WRITE", 0, 21, 33, 2)}

\* A disk longer than Word, formatted past it.
Formats == r1 :> {Rw("FORMAT64", 1, 2, 8, 4)}

=============================================================================

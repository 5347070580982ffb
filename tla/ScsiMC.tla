------------------------------- MODULE ScsiMC -------------------------------
(***************************************************************************)
(* An instance of Scsi: namespaces around 2^32 blocks, here 8, drives that *)
(* are new, warm, worn out and hot, and mode pages before, after and       *)
(* instead of a caching page.                                              *)
(***************************************************************************)
EXTENDS ScsiInv

Log(warning, temp_k, media, spare, life) ==
  [warning |-> warning, temp_k |-> temp_k, media_errors |-> media,
   spare_pct |-> spare, life_used_pct |-> life]

Drives == {Log(FALSE, 0, 0, 100, 0), Log(TRUE, 310, 3, 5, 90),
           Log(TRUE, 600, 0, 0, 255)}

Page(code, len, wce) == [code |-> code, len |-> len, wce |-> wce]

Lists == {<<>>, <<Page(8, 18, TRUE)>>, <<Page(8, 18, FALSE)>>,
          <<Page(8, 1, TRUE), Page(1, 2, TRUE)>>,
          <<Page(10, 1, TRUE), Page(8, 2, FALSE)>>,
          <<Page(8, 1, FALSE), Page(8, 0, TRUE), Page(8, 1, TRUE)>>}

=============================================================================

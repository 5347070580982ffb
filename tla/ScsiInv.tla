------------------------------- MODULE ScsiInv -------------------------------
(***************************************************************************)
(* The inductive invariant behind the theorems of ScsiProofs: what a       *)
(* command in the hands of the unit task is, and how the write cache, the  *)
(* controller's feature and what the client has asked for relate while an  *)
(* answer is on its way.                                                   *)
(***************************************************************************)
EXTENDS Scsi

\* NULL is neither a setting of the write cache nor the result of a walk.
NullIsNoSetting == NULL \notin BOOLEAN \cup Seq(BOOLEAN)

ModePage == [code : PageCode, len : Byte, wce : BOOLEAN]

Op == {"SHORT", "EMPTY", "TUR", "INQUIRY", "VPD", "CAPACITY10", "CAPACITY16",
       "SERVICE", "SYNC", "ANCHOR", "OTHER", "UNMAP", "MODESENSE", "MODESELECT",
       "LOGSENSE", "ATA"}

Command ==
  [op : Op, buffer : Nat \cup {NULL}, page : Nat, len : Nat,
   is10 : BOOLEAN, in : Seq(Nat), bd : {0, 8}, pages : Seq(ModePage),
   room : BOOLEAN]

TypeOK ==
  /\ total_blocks \in Totals
  /\ vwc_present \in BOOLEAN /\ dsm \in BOOLEAN
  /\ vwc_enabled \in BOOLEAN /\ feature \in BOOLEAN /\ wanted \in BOOLEAN
  /\ smart_cache \in Logs \cup {NULL}
  /\ pc \in {"ready", "sent", "answered"}
  /\ pc # "ready" => cmd \in Command

(* The n bytes that MODE SENSE returns with status GOOD while the write    *)
(* cache is as it is now: a header that is cut, or a whole one and as much *)
(* of the caching page as the client had room for.                         *)
Returned(bytes, n) ==
  \/ n \in 0 .. HeaderLen(cmd.is10) - 1 /\ bytes = Zeros(n)
  \/ \E room \in 0 .. 20 :
       /\ n = HeaderLen(cmd.is10) + room
       /\ bytes = ModeHeader(n) \o SubSeq(CachingPage, 1, room)

(* A MODE SELECT holds a parameter list in full, of which the CDB may      *)
(* count less, or what a MODE SENSE has returned.                          *)
SelectSent ==
  pc = "sent" /\ cmd.op = "MODESELECT" =>
    \/ cmd.in = ListBytes(cmd.is10, cmd.bd, cmd.pages)
       /\ cmd.buffer = Len(cmd.in)
    \/ cmd.pages = <<>> /\ Returned(cmd.in, cmd.len)

(* A MODE SENSE brings no pages of its own, and its answer is what         *)
(* Returned says.                                                          *)
SensePlain == pc # "ready" /\ cmd.op = "MODESENSE" => cmd.pages = <<>>

SenseReturned ==
  pc = "answered" /\ cmd.op = "MODESENSE" /\ scsi.Status = 0 =>
    Returned(answer.vals, scsi.Actual)

(* What the client will have wanted once it has taken the answer.          *)
Due ==
  IF /\ pc = "answered" /\ cmd.op = "MODESELECT" /\ cmd.pages # <<>>
     /\ scsi.Status = 0 /\ vwc_present /\ Asked # NULL
  THEN Asked ELSE wanted

WriteCacheDue == feature = vwc_enabled /\ vwc_enabled = Due

\* The first half of AnswersTrue; WriteCacheDue implies the second.
Told ==
  pc = "answered" /\ scsi.Status = 0 => CapacityTrue /\ ModeTrue /\ HealthTrue

ScsiInv ==
  /\ TypeOK
  /\ SelectSent
  /\ SensePlain
  /\ SenseReturned
  /\ WriteCacheDue
  /\ DataReported
  /\ Told

=============================================================================

-------------------------------- MODULE Scsi --------------------------------
(***************************************************************************)
(* HD_SCSICMD as one client sees it: handle_scsi_cmd (src/src/unit_task.c) *)
(* and the handlers in src/src/scsi_cmds/, which answer from what the unit *)
(* knows of its namespace, its write cache and its health.  The client has *)
(* one SCSICmd and one IOStdReq and sends one command after another; NULL  *)
(* in a field means that no handler has set it for this command.           *)
(*                                                                         *)
(* The data of an answer is a sequence of the values a client reads from   *)
(* it: bytes for MODE SENSE, decoded fields for the rest; how much of it   *)
(* has been written into scsi_Data is counted in bytes.  How SYNCHRONIZE   *)
(* CACHE and UNMAP wait for the queue pair is in UnitTask and Transfer,    *)
(* how Set Features and the SMART refresh share the admin queue is in      *)
(* AdminQueue; here they succeed or fail.                                  *)
(***************************************************************************)
EXTENDS Integers, Sequences, FiniteSets

CONSTANTS
  NULL,
  Word,        \* 2^32, the values of a ULONG
  Totals,      \* sizes of namespace to consider, in blocks
  Logs,        \* health logs to consider
  SerialLen, NsidDigits,  \* characters of ctrl->serial and of the NSID
  MaxRanges,   \* NVME_DSM_MAX_RANGES
  Lengths,     \* lengths of buffers and lengths in CDBs that clients use
  PageLists    \* mode pages clients send: sequences of [code, len, wce]

\* The values of a byte, of two bytes, and of the code of a mode page.
Byte     == 0 .. 255
TwoBytes == 0 .. 65535
PageCode == 0 .. 63

ASSUME ScsiAssumption ==
  /\ Word \in Nat \ {0} /\ Totals \subseteq Nat \ {0}
  /\ SerialLen \in Nat /\ NsidDigits \in 1 .. 10 /\ MaxRanges \in Nat
  /\ Lengths \subseteq TwoBytes
  /\ Logs \subseteq [warning : BOOLEAN, temp_k : TwoBytes, media_errors : Nat,
                     spare_pct : Byte, life_used_pct : Byte]
  /\ PageLists \subseteq Seq([code : PageCode, len : Byte, wce : BOOLEAN])

VARIABLES
  total_blocks, vwc_present,
  dsm,          \* ctrl->onc_dsm and unit->dsm_buf
  vwc_enabled,  \* ctrl->vwc_enabled
  feature,      \* the controller's Volatile Write Cache feature
  smart_cache,  \* NULL while it is not valid
  pc,           \* ready, sent or answered
  cmd,          \* the command, or NULL
  scsi,         \* scsi_Status, scsi_Actual and the key in the sense data
  io,           \* io_Error and io_Actual
  answer,       \* bytes written into scsi_Data, and the values they hold
  wanted        \* history: the write cache as the last successful MODE SELECT
                \* asked for it, or as it was at first

config   == <<total_blocks, vwc_present, dsm>>
unitVars == <<vwc_enabled, feature, smart_cache>>
cmdVars  == <<pc, cmd, scsi, io, answer>>
vars == <<config, unitVars, cmdVars, wanted>>

NoAnswer == [written |-> 0, vals |-> <<>>]

Init ==
  /\ total_blocks \in Totals
  /\ vwc_present \in BOOLEAN
  /\ vwc_enabled \in BOOLEAN /\ (vwc_enabled => vwc_present)
  /\ dsm \in BOOLEAN
  /\ feature = vwc_enabled
  /\ smart_cache \in Logs \cup {NULL}
  /\ pc = "ready" /\ cmd = NULL
  /\ scsi = [Status |-> 0, Actual |-> NULL, sense |-> "none"]
  /\ io = [Error |-> "none", Actual |-> NULL]
  /\ answer = NoAnswer
  /\ wanted = vwc_enabled

-----------------------------------------------------------------------------
(* What a client sends: buffer is scsi_Length, or NULL without scsi_Data;  *)
(* len is the length in the CDB; room says that the sense buffer has 18    *)
(* bytes.  SHORT and EMPTY lack the SCSICmd or its CDB; SERVICE is a       *)
(* service action other than READ CAPACITY(16); page 217 of ATA stands for *)
(* every ATA command but SMART READ DATA and READ THRESHOLDS.              *)
Zeros(n) == [k \in 1 .. n |-> 0]

\* The bytes of mode pages.
PageBytes(pages) ==
  LET bytes[k \in 0 .. Len(pages)] ==
        IF k = 0 THEN <<>>
        ELSE bytes[k - 1] \o <<pages[k].code, pages[k].len>>
               \o [b \in 1 .. pages[k].len |->
                     IF b = 1 /\ pages[k].wce THEN 4 ELSE 0]
  IN  bytes[Len(pages)]

HeaderLen(is10) == IF is10 THEN 8 ELSE 4

\* A mode parameter list with bd bytes of block descriptors.
ListBytes(is10, bd, pages) ==
  (IF is10 THEN <<0, 0, 0, 0, 0, 0, bd \div 256, bd % 256>> ELSE <<0, 0, 0, bd>>)
    \o Zeros(bd) \o PageBytes(pages)

Plain(op, buffer, page) ==
  [op |-> op, buffer |-> buffer, page |-> page, len |-> 0, is10 |-> FALSE,
   in |-> <<>>, bd |-> 0, pages |-> <<>>, room |-> TRUE]

Buffers == Lengths \cup {NULL}

\* The lengths that fit the 8 or 16 bits of a CDB.
CdbLengths(is10) == {n \in Lengths : is10 \/ n < 256}

PlainCommands ==
  {Plain(op, NULL, 0) : op \in {"SHORT", "EMPTY", "TUR", "SYNC", "ANCHOR",
                                "OTHER"}}
  \cup {Plain("INQUIRY", b, 0) : b \in Buffers}
  \cup {Plain("VPD", b, p) : b \in Buffers, p \in {0, 128, 131, 176}}
  \cup {Plain(op, b, 0) : op \in {"CAPACITY10", "CAPACITY16", "SERVICE"},
                          b \in Buffers}
  \cup {Plain("LOGSENSE", b, p) : b \in Buffers, p \in {0, 47, 13}}
  \cup {Plain("ATA", b, p) : b \in Buffers, p \in {208, 209, 217}}
  \cup {[Plain("UNMAP", b, n) EXCEPT !.len = l] :
          b \in Buffers, n \in 0 .. MaxRanges + 1, l \in {0, 8}}

SenseOf(t, b, p, n) ==
  [Plain("MODESENSE", b, p) EXCEPT !.len = n, !.is10 = t]

SenseCommands ==
  UNION {{SenseOf(t, b, p, n) :
            b \in Buffers, p \in {8, 63, 10}, n \in CdbLengths(t)} :
           t \in BOOLEAN}

\* A parameter list that the CDB cuts after any of Lengths.
SelectOf(t, bd, l, n) ==
  [Plain("MODESELECT", Len(ListBytes(t, bd, l)), 0) EXCEPT
     !.len = n, !.is10 = t, !.in = ListBytes(t, bd, l), !.bd = bd, !.pages = l]

SelectCommands ==
  UNION {{SelectOf(t, bd, l, n) :
            bd \in {0, 8}, l \in PageLists, n \in CdbLengths(t)} :
           t \in BOOLEAN}

Submit(c) ==
  /\ pc' = "sent"
  /\ \E r \in BOOLEAN : cmd' = [c EXCEPT !.room = r]
  /\ scsi' = [Status |-> 0, Actual |-> NULL, sense |-> "none"]
  /\ io' = [Error |-> "none", Actual |-> NULL]
  /\ answer' = NoAnswer
  /\ UNCHANGED <<config, unitVars, wanted>>

Send ==
  /\ pc = "ready"
  /\ \E c \in PlainCommands \cup SenseCommands \cup SelectCommands : Submit(c)

(* The client sends back, as they are, the bytes that MODE SENSE returned. *)
SendBack ==
  /\ pc = "answered" /\ cmd.op = "MODESENSE" /\ scsi.Status = 0
  /\ Submit([cmd EXCEPT !.op = "MODESELECT", !.len = scsi.Actual,
                        !.in = answer.vals])

-----------------------------------------------------------------------------
(* Answers.                                                                *)

Is(op) == pc = "sent" /\ cmd.op = op

Least(a, b) == IF a < b THEN a ELSE b

Reply(status, actual, sense, err, ioActual, written, vals) ==
  /\ pc' = "answered"
  /\ scsi' = [Status |-> status, Actual |-> actual, sense |-> sense]
  /\ io' = [Error |-> err, Actual |-> ioActual]
  /\ answer' = [written |-> written, vals |-> vals]
  /\ UNCHANGED <<config, cmd, wanted>>

\* Status GOOD and n bytes of data.
Good(n, vals) == Reply(0, n, "none", "none", n, n, vals)

\* NVMe_SCSI_FillSense.
FillSense(key) == IF cmd.room THEN key ELSE "none"

\* CHECK CONDITION, and w bytes written before.
Check(key, w) == Reply(2, NULL, FillSense(key), "badstatus", NULL, w, <<>>)

\* The same from a handler that sets no sense data, or sets scsi_Actual.
CheckBare  == Reply(2, NULL, "none", "badstatus", NULL, 0, <<>>)
CheckEmpty == Reply(2, 0, FillSense("illegal"), "badstatus", NULL, 0, <<>>)

\* No buffer for the answer, or one of less than n bytes.
NoRoomFor(n) == IF cmd.buffer = NULL THEN TRUE ELSE cmd.buffer < n

(* A command that waits for the queue pair; no answer leaves io_Error.     *)
Waits ==
  \/ Reply(0, 0, "none", "none", 0, 0, <<>>)
  \/ Reply(2, NULL, FillSense("medium"), "failed", 0, 0, <<>>)
  \/ Reply(2, NULL, FillSense("medium"), "badstatus", 0, 0, <<>>)

Malformed ==
  /\ \/ Is("SHORT") /\ Reply(0, NULL, "none", "badlength", NULL, 0, <<>>)
     \/ Is("EMPTY") /\ Reply(0, NULL, "none", "badstatus", NULL, 0, <<>>)
  /\ UNCHANGED unitVars

TestUnitReady ==
  /\ Is("TUR")
  /\ Reply(0, 0, "none", "none", NULL, 0, <<>>)
  /\ UNCHANGED unitVars

\* Bytes of the VPD pages: supported pages, serial number, identification.
VpdLength ==
  [p \in {0, 128, 131} |->
     CASE p = 0   -> 7
       [] p = 128 -> 4 + (IF SerialLen = 0 THEN 4 ELSE Least(SerialLen, 20))
                       + 3 + NsidDigits
       [] p = 131 -> 8 + 24 + 2 + NsidDigits]

Inquiry ==
  /\ \/ Is("INQUIRY") \/ Is("VPD")
  /\ \/ /\ \/ NoRoomFor(1)
           \/ cmd.op = "VPD" /\ cmd.page \notin DOMAIN VpdLength
        /\ Check("illegal", 0)
     \/ /\ ~NoRoomFor(1) /\ cmd.op = "INQUIRY"
        /\ Good(Least(cmd.buffer, 36), <<>>)
     \/ /\ ~NoRoomFor(1) /\ cmd.op = "VPD" /\ cmd.page \in DOMAIN VpdLength
        /\ Good(Least(cmd.buffer, VpdLength[cmd.page]), <<>>)
  /\ UNCHANGED unitVars

LastLba10 ==
  IF total_blocks > Word - 1 THEN Word - 1 ELSE (total_blocks - 1) % Word

ReadCapacity10 ==
  /\ Is("CAPACITY10")
  /\ IF NoRoomFor(8) THEN CheckBare ELSE Good(8, <<LastLba10>>)
  /\ UNCHANGED unitVars

ReadCapacity16 ==
  /\ \/ Is("SERVICE") /\ Check("illegal", 0)
     \/ Is("CAPACITY16") /\ NoRoomFor(32) /\ CheckBare
     \/ Is("CAPACITY16") /\ ~NoRoomFor(32) /\ Good(32, <<total_blocks - 1>>)
  /\ UNCHANGED unitVars

SynchronizeCache == Is("SYNC") /\ Waits /\ UNCHANGED unitVars

(* page counts the descriptors that the header of the list declares.       *)
Unmap ==
  /\ \/ Is("ANCHOR") /\ Check("illegal", 0)
     \/ Is("UNMAP") /\ ~dsm /\ Check("illegal", 0)
     \/ /\ Is("UNMAP") /\ dsm
        /\ \/ /\ \/ cmd.len = 0
                 \/ ~NoRoomFor(8) /\ cmd.page = 0
              /\ Good(0, <<>>)
           \/ /\ cmd.len # 0
              /\ \/ NoRoomFor(8) \/ cmd.page > MaxRanges
                 \/ NoRoomFor(8 + cmd.page * 16)
              /\ Check("illegal", 0)
           \/ /\ cmd.len # 0 /\ cmd.page \in 1 .. MaxRanges
              /\ ~NoRoomFor(8 + cmd.page * 16)
              /\ Waits
  /\ UNCHANGED unitVars

Unsupported == Is("OTHER") /\ Check("illegal", 0) /\ UNCHANGED unitVars

-----------------------------------------------------------------------------
(* MODE SENSE and MODE SELECT.                                             *)

CachingPage == <<8, 18, IF vwc_enabled THEN 4 ELSE 0>> \o Zeros(17)

\* The header: what follows its length field, and no block descriptors.
ModeHeader(total) ==
  IF cmd.is10 THEN <<(total - 2) \div 256, (total - 2) % 256>> \o Zeros(6)
              ELSE <<(total - 1) % 256, 0, 0, 0>>

BadBody(room) == CachingPage  \* the page whole, whether it fits or not

Body(room) == SubSeq(CachingPage, 1, Least(room, 20))

ModeSense ==
  /\ Is("MODESENSE")
  /\ LET header == HeaderLen(cmd.is10)
         body   == Body(cmd.len - header)
         total  == header + Len(body)
     IN  \/ /\ NoRoomFor(cmd.len)
            /\ CheckBare
         \/ /\ ~NoRoomFor(cmd.len) /\ cmd.len < header
            /\ Good(cmd.len, Zeros(cmd.len))
         \/ /\ ~NoRoomFor(cmd.len) /\ cmd.len >= header
            /\ cmd.page \notin {8, 63}
            /\ Check("illegal", header)
         \/ /\ ~NoRoomFor(cmd.len) /\ cmd.len >= header
            /\ cmd.page \in {8, 63}
            /\ Good(total, ModeHeader(total) \o body)
  /\ UNCHANGED unitVars

\* Byte k of scsi_Data, counted from 0.
In(k) == cmd.in[k + 1]

BdLen == IF cmd.is10 THEN In(6) * 256 + In(7) ELSE In(3)

BadWalk(off) == LET walk[o \in Nat] ==  \* a page that is cut is taken as it is
  IF o + 2 > cmd.len THEN <<>>
  ELSE (IF In(o) % 64 = 8 /\ In(o + 1) >= 1 /\ o + 2 < Len(cmd.in)
        THEN <<(In(o + 2) \div 4) % 2 = 1>> ELSE <<>>) \o walk[o + 2 + In(o + 1)]
  IN  walk[off]

(* The walk over the mode pages from offset off on: NULL if a page does    *)
(* not fit, otherwise the WCE bits of the caching pages in order.          *)
Walk(off) == LET walk[o \in Nat] ==
  IF o + 2 > cmd.len THEN <<>>
  ELSE IF o + 2 + In(o + 1) > cmd.len THEN NULL
  ELSE LET rest == walk[o + 2 + In(o + 1)]
       IN  IF rest = NULL THEN NULL
           ELSE IF In(o) % 64 = 8 /\ In(o + 1) >= 1
           THEN <<(In(o + 2) \div 4) % 2 = 1>> \o rest ELSE rest
  IN  walk[off]

\* The parameter list is refused before any page is looked at.
BadList ==
  \/ NoRoomFor(cmd.len)
  \/ cmd.len < HeaderLen(cmd.is10)
  \/ HeaderLen(cmd.is10) + BdLen > cmd.len

ModeSelect ==
  /\ Is("MODESELECT")
  /\ UNCHANGED smart_cache
  /\ IF cmd.len = 0 THEN Good(0, <<>>) /\ UNCHANGED <<vwc_enabled, feature>>
     ELSE IF BadList
     THEN Check("illegal", 0) /\ UNCHANGED <<vwc_enabled, feature>>
     ELSE LET wce == Walk(HeaderLen(cmd.is10) + BdLen)
          IN  IF wce = NULL
              THEN Check("illegal", 0) /\ UNCHANGED <<vwc_enabled, feature>>
              ELSE IF wce # <<>> /\ vwc_present /\ wce[Len(wce)] # vwc_enabled
              THEN \/ /\ feature' = wce[Len(wce)]
                      /\ vwc_enabled' = wce[Len(wce)]
                      /\ Reply(0, cmd.len, "none", "none", cmd.len, 0, <<>>)
                   \/ /\ Check("medium", 0)  \* Set Features is refused
                      /\ UNCHANGED <<vwc_enabled, feature>>
              ELSE /\ Reply(0, cmd.len, "none", "none", cmd.len, 0, <<>>)
                   /\ UNCHANGED <<vwc_enabled, feature>>

-----------------------------------------------------------------------------
(* Health: LOG SENSE and SMART READ through ATA PASS-THROUGH.              *)

Most(a, b) == IF a < b THEN b ELSE a

\* The cache as it is, or after NVMe_RefreshSMART.
Refreshed == smart_cache' \in Logs \cup {smart_cache}

Celsius(log) == Most(log.temp_k - 273, 0)

LogSense ==
  /\ Is("LOGSENSE")
  /\ \/ /\ NoRoomFor(1) \/ cmd.page \notin {0, 47}
        /\ CheckEmpty
        /\ UNCHANGED smart_cache
     \/ /\ ~NoRoomFor(1) /\ cmd.page = 0
        /\ Good(Least(cmd.buffer, 6), <<>>)
        /\ UNCHANGED smart_cache
     \/ /\ ~NoRoomFor(1) /\ cmd.page = 47
        /\ Refreshed
        /\ Good(Least(cmd.buffer, 12),
                IF smart_cache' = NULL THEN <<0, 0>>
                ELSE <<IF smart_cache'.warning THEN 93 ELSE 0,
                       Least(Celsius(smart_cache'), 255)>>)
  /\ UNCHANGED <<vwc_enabled, feature>>

\* clamp_normalised.
Clamp(v) == Least(Most(v, 1), 253)

Attribute(current, raw) == [current |-> current, raw |-> raw]

\* Power-on hours, power cycles and unsafe shutdowns (9, 12, 192) are always
\* at 100; their raw values are left out.
Attributes(log) ==
  IF log = NULL
  THEN [id \in {9, 12, 194, 197, 198} |->
          IF id = 194 THEN Attribute(120, 30) ELSE Attribute(100, 0)]
  ELSE [id \in {9, 12, 192, 194, 196, 231, 233} |->
          CASE id \in {9, 12, 192} -> Attribute(100, 0)
            [] id = 194 -> Attribute(Clamp(100 - Celsius(log) \div 2),
                                     Celsius(log) % 256)
            [] id = 196 -> Attribute(IF log.media_errors = 0 THEN 100 ELSE 50,
                                     log.media_errors)
            [] id = 231 -> Attribute(IF log.spare_pct = 0 THEN 100
                                     ELSE Clamp(log.spare_pct), log.spare_pct)
            [] id = 233 -> Attribute(Clamp(100 - log.life_used_pct),
                                     log.life_used_pct)]

Threshold == 10

AtaPassThrough ==
  /\ Is("ATA")
  /\ \/ /\ NoRoomFor(512) \/ cmd.page \notin {208, 209}
        /\ CheckEmpty
        /\ UNCHANGED smart_cache
     \/ /\ ~NoRoomFor(512) /\ cmd.page \in {208, 209}
        /\ Refreshed
        /\ LET attrs == Attributes(smart_cache')
           IN  Good(512, IF cmd.page = 208 THEN attrs
                         ELSE [id \in DOMAIN attrs |-> Threshold])
  /\ UNCHANGED <<vwc_enabled, feature>>

-----------------------------------------------------------------------------
(* What the pages a client sent in full ask of the write cache: NULL, or   *)
(* the bit of the last caching page.                                       *)
PageEnd(k) ==
  LET end[j \in 0 .. k] == IF j = 0 THEN HeaderLen(cmd.is10) + cmd.bd
                           ELSE end[j - 1] + 2 + cmd.pages[j].len
  IN  end[k]

Asked ==
  LET caching == {k \in DOMAIN cmd.pages :
                    /\ PageEnd(k) <= cmd.len
                    /\ cmd.pages[k].code = 8 /\ cmd.pages[k].len >= 1}
  IN  IF caching = {} THEN NULL
      ELSE cmd.pages[CHOOSE k \in caching : \A j \in caching : j <= k].wce

(* The client takes note of the answer. *)
Take ==
  /\ pc = "answered"
  /\ wanted' = IF /\ cmd.op = "MODESELECT" /\ cmd.pages # <<>>
                  /\ scsi.Status = 0 /\ vwc_present /\ Asked # NULL
               THEN Asked ELSE wanted
  /\ pc' = "ready" /\ cmd' = NULL /\ answer' = NoAnswer
  /\ scsi' = [Status |-> 0, Actual |-> NULL, sense |-> "none"]
  /\ io' = [Error |-> "none", Actual |-> NULL]
  /\ UNCHANGED <<config, unitVars>>

HandleScsiCmd ==
  \/ Malformed \/ TestUnitReady \/ Inquiry \/ ReadCapacity10 \/ ReadCapacity16
  \/ SynchronizeCache \/ Unmap \/ Unsupported \/ ModeSense \/ ModeSelect
  \/ LogSense \/ AtaPassThrough

Next == Send \/ SendBack \/ Take \/ HandleScsiCmd

Spec == Init /\ [][Next]_vars

-----------------------------------------------------------------------------
(* Properties.                                                             *)

DataIn == {"INQUIRY", "VPD", "CAPACITY10", "CAPACITY16", "MODESENSE",
           "LOGSENSE", "ATA"}

(* No SCSI handler writes past scsi_Length, nor MODE SENSE past the length *)
(* in its CDB; a command with status GOOD reports in both Actual           *)
(* fields exactly the bytes it has written; scsi_Status and io_Error agree *)
(* on whether the command has failed, except where there was no CDB; and   *)
(* sense data, where there is room for it, says why, except that READ      *)
(* CAPACITY and MODE SENSE do not say that the buffer is too short.        *)
DataReported ==
  pc = "answered" =>
    /\ answer.written <= IF cmd.buffer = NULL THEN 0 ELSE cmd.buffer
    /\ cmd.op = "MODESENSE" => answer.written <= cmd.len
    /\ cmd.op \in DataIn /\ scsi.Status = 0 =>
         /\ scsi.Actual = answer.written
         /\ io.Actual = answer.written
    /\ cmd.op \notin {"SHORT", "EMPTY"} =>
         (scsi.Status = 0 <=> io.Error = "none")
    /\ scsi.Status = 2 /\ cmd.room /\ scsi.sense = "none" =>
         \/ cmd.op = "CAPACITY10" /\ NoRoomFor(8)
         \/ cmd.op = "CAPACITY16" /\ NoRoomFor(32)
         \/ cmd.op = "MODESENSE" /\ NoRoomFor(cmd.len)

(* READ CAPACITY(10) tells a client the size of the namespace or sends it  *)
(* to READ CAPACITY(16), which always does.                                *)
CapacityTrue ==
  /\ cmd.op = "CAPACITY10" =>
       \/ answer.vals[1] + 1 = total_blocks
       \/ answer.vals[1] = Word - 1 /\ total_blocks >= Word
  /\ cmd.op = "CAPACITY16" => answer.vals[1] + 1 = total_blocks

(* A complete caching page shows the controller's setting.                 *)
ModeTrue ==
  cmd.op = "MODESENSE" /\ answer.written >= HeaderLen(cmd.is10) + 3 =>
    (answer.vals[HeaderLen(cmd.is10) + 3] = 4 <=> feature)

(* A drive that has used up its life, or that warns, is seen to.           *)
HealthTrue ==
  smart_cache # NULL =>
    /\ cmd.op = "LOGSENSE" /\ cmd.page = 47 /\ answer.written = 12 =>
         (answer.vals[1] # 0 <=> smart_cache.warning)
    /\ cmd.op = "ATA" /\ cmd.page = 208 =>
         (answer.vals[233].current <= Threshold
            <=> smart_cache.life_used_pct >= 100 - Threshold)

(* MODE SELECT does all or nothing: the write cache of a controller that   *)
(* has one is as the last successful MODE SELECT asked, with the last of   *)
(* its caching pages.                                                      *)
SelectTrue ==
  pc # "answered" => vwc_enabled = wanted /\ feature = wanted

(* What a client is told with status GOOD is so, after any sequence of     *)
(* commands: the size of the namespace, by one READ CAPACITY or the other  *)
(* (unit_task.c:269-342); the setting of the write cache, which a MODE     *)
(* SELECT that is refused, cut in a page or rejected by the controller     *)
(* leaves alone, as does one that sends back what MODE SENSE returned      *)
(* (scsi_mode.c); and the health of the drive (scsi_log_sense.c,           *)
(* scsi_ata_passthrough.c).                                                *)
AnswersTrue ==
  /\ pc = "answered" /\ scsi.Status = 0 => CapacityTrue /\ ModeTrue /\ HealthTrue
  /\ SelectTrue

=============================================================================

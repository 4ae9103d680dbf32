----------------------------- MODULE IapSession -----------------------------
(***************************************************************************)
(* The command session of the BLE upgrade programs (BackupUpgrade_OTA and    *)
(* OnlyUpdateApp_IAP), on the image a new version is downloaded to.          *)
(*                                                                          *)
(* A host writes commands to one characteristic (INFO, ERASE, PROM, VERIFY,  *)
(* END) and polls the same characteristic for the reply, which is held in    *)
(* one buffer until it is read.  ERASE is carried out one block at a time by *)
(* a scheduler event that runs between commands; PROM collects the data to   *)
(* whole pages.  The link may drop anywhere, which resets nothing.           *)
(*                                                                          *)
(* The host is not part of the repository.  It does what the command set is  *)
(* made for: erase all, program in order, verify all, END when every reply   *)
(* was good, from the start again when one was not.                         *)
(*                                                                          *)
(* An image is a sequence of ImageUnits units of data; unit n of version v   *)
(* is <<v, n>>.                                                             *)
(***************************************************************************)
EXTENDS FlashImage, Sequences

CONSTANTS PageUnits,   \* units of a page (256 bytes)
          Chunk,       \* units of a PROM or VERIFY (at most 243 bytes)
          ImageUnits,  \* units of an image
          EraseSizes,  \* numbers of blocks the host may ask to erase
          PromReplies, \* what a PROM may be answered
          MaxTrouble   \* bound on dropped links, failing and refused erases, wrong replies

AllPages == Blocks * Pages

ASSUME UnitAssumption == PageUnits \in Nat /\ Chunk \in 1 .. PageUnits - 1
ASSUME ImageAssumption == ImageUnits \in (AllPages - 1) * PageUnits + 1 .. AllPages * PageUnits
ASSUME EraseAssumption == Blocks \in EraseSizes /\ EraseSizes \subseteq Nat \ 0 .. Blocks - 1
ASSUME PromAssumption == "ok" \in PromReplies /\ PromReplies \subseteq {"ok", "err"}
ASSUME TroubleAssumption == MaxTrouble \in Nat

VARIABLES image,         \* the image that is downloaded to
          eraseEvt,      \* OTA_FLASH_ERASE_EVT is set
          EraseBlockNum, EraseBlockCnt,  \* blocks to erase, blocks erased
          block_buf,     \* the data collected (its length is block_buf_len)
          prom_addr,     \* the next page of the image to program
          VerifyStatus,
          reply,         \* OTAProfileReadBuf, "none" when OTAProfileReadLen is 0
          evtServed,     \* the erase event was served since the last command
          host, waiting, \* the host's next command; it polls for a reply
          hostPos,       \* the next unit the host sends
          want,          \* the version the host sends
          clean,         \* ghost: block_buf was empty at the last ERASE, which did not fail
          troubles

erasing == <<eraseEvt, EraseBlockNum, EraseBlockCnt>>
device == <<erasing, block_buf, prom_addr, VerifyStatus, evtServed>>
hostVars == <<host, waiting, hostPos, want>>
session == <<device, reply, hostVars, clean, troubles>>

NoAddr == AllPages + 1   \* flash address 0, where prom_addr is after a VERIFY

SessionTypeOK ==
  /\ eraseEvt \in BOOLEAN /\ evtServed \in BOOLEAN
  /\ EraseBlockNum \in EraseSizes \cup {0} /\ EraseBlockCnt \in 0 .. EraseBlockNum
  /\ block_buf \in Seq(Versions \X (0 .. ImageUnits - 1)) /\ Len(block_buf) < PageUnits
  /\ prom_addr \in 0 .. AllPages \cup {NoAddr}
  /\ VerifyStatus \in {"ok", "err"}
  /\ reply \in {"none", "ok", "err", "info"}
  /\ host \in {"idle", "unknown", "info", "erase", "prom", "verify", "end"}
  /\ waiting \in BOOLEAN
  /\ hostPos \in 0 .. ImageUnits
  /\ want \in Versions
  /\ clean \in BOOLEAN
  /\ troubles \in 0 .. MaxTrouble

(* The initial values of the program's variables; no host is connected. *)
SessionInit ==
  /\ eraseEvt = FALSE /\ EraseBlockNum = 0 /\ EraseBlockCnt = 0 /\ evtServed = TRUE
  /\ block_buf = <<>>
  /\ prom_addr = NoAddr
  /\ VerifyStatus = "ok"
  /\ reply = "none"
  /\ host = "idle" /\ waiting = FALSE /\ hostPos = 0
  /\ want \in Versions
  /\ clean = TRUE
  /\ troubles = 0

(* A reset clears RAM and ends the link. *)
RamReset ==
  /\ eraseEvt' = FALSE /\ EraseBlockNum' = 0 /\ EraseBlockCnt' = 0 /\ evtServed' = TRUE
  /\ block_buf' = <<>>
  /\ prom_addr' = NoAddr
  /\ VerifyStatus' = "ok"
  /\ reply' = "none"
  /\ host' = "idle" /\ waiting' = FALSE /\ hostPos' = 0
  /\ clean' = TRUE
  /\ UNCHANGED <<want, troubles>>

-----------------------------------------------------------------------------
(* Data. *)

NextPos == IF hostPos + Chunk < ImageUnits THEN hostPos + Chunk ELSE ImageUnits
ChunkData == [k \in 1 .. NextPos - hostPos |-> <<want, hostPos + k - 1>>]

(* What page addr of the image is when the units of buf are programmed to it. *)
PageData(addr, buf) ==
  LET Is(v) == \A k \in 1 .. PageUnits :
                 LET n == addr * PageUnits + k - 1
                 IN n < ImageUnits => k <= Len(buf) /\ buf[k] = <<v, n>>
  IN IF \E v \in Versions : Is(v) THEN CHOOSE v \in Versions : Is(v) ELSE Torn

(* FLASH_ProgramPage_Fast(prom_addr, block_buf); past the image it changes *)
(* nothing that is modelled.                                               *)
Program(buf) ==
  IF prom_addr < AllPages
    THEN image' = [image EXCEPT ![prom_addr \div Pages][prom_addr % Pages]
                                  = ProgramPage(@, PageData(prom_addr, buf))]
    ELSE image' = image

(* The pages of the chunk at hostPos hold what the host compares them with. *)
ChunkMatches(flash) ==
  \A n \in hostPos .. NextPos - 1 :
    LET addr == n \div PageUnits IN flash[addr \div Pages][addr % Pages] = want

-----------------------------------------------------------------------------
(* Rec_OTA_IAP_DataDeal and the erase event. *)

(* The host writes a command.  The scheduler serves the erase event between *)
(* two commands.                                                            *)
Command(cmd) ==
  /\ host = cmd /\ ~waiting
  /\ eraseEvt => evtServed
  /\ evtServed' = FALSE
  /\ UNCHANGED <<want, host>>

(* A command that is answered at once and changes nothing. *)
Answer(cmd, status) ==
  /\ Command(cmd)
  /\ reply' = status
  /\ waiting' = TRUE
  /\ UNCHANGED <<image, erasing, block_buf, prom_addr, VerifyStatus, hostPos, clean, troubles>>

Info == Answer("info", "info")

(* An unknown command (OTA_IAP_CMDErrDeal). *)
Unknown == Answer("unknown", "err")

(* Mutant: the verification of the download before is not forgotten. *)
MutSetUpErase(n) ==
  /\ EraseBlockNum' = n
  /\ EraseBlockCnt' = 0
  /\ VerifyStatus' = VerifyStatus
  /\ prom_addr' = 0

(* The erase is set up before its range is looked at. *)
SetUpErase(n) ==
  /\ EraseBlockNum' = n
  /\ EraseBlockCnt' = 0
  /\ VerifyStatus' = "ok"
  /\ prom_addr' = 0

(* The range check: the block after the last one passes. *)
InRange(n) == n - 1 <= Blocks

(* CMD_IAP_ERASE of all of the image; the reply comes when the last block is *)
(* erased.  block_buf_len is left alone.                                     *)
Erase ==
  /\ Command("erase")
  /\ \E n \in EraseSizes : InRange(n) /\ SetUpErase(n)
  /\ eraseEvt' = TRUE
  /\ waiting' = TRUE
  /\ clean' = (block_buf = <<>>)
  /\ UNCHANGED <<image, block_buf, reply, hostPos, troubles>>

(* A range outside the image is refused; an erase event that is set stays set. *)
EraseRefused ==
  /\ Command("erase")
  /\ troubles < MaxTrouble
  /\ troubles' = troubles + 1
  /\ \E n \in EraseSizes : ~InRange(n) /\ SetUpErase(n)
  /\ reply' = "err"
  /\ waiting' = TRUE
  /\ clean' = (block_buf = <<>>)
  /\ UNCHANGED <<image, eraseEvt, block_buf, hostPos>>

(* Mutant: the rest of the data is dropped when a page was programmed. *)
MutRestOfData(buf) == <<>>

(* The data that is left when a page was programmed moves to the front. *)
RestOfData(buf) == SubSeq(buf, PageUnits + 1, Len(buf))

(* CMD_IAP_PROM. *)
Prom ==
  /\ Command("prom")
  /\ LET buf == block_buf \o ChunkData
     IN IF Len(buf) >= PageUnits
          THEN /\ Program(buf)
               /\ block_buf' = RestOfData(buf)
               /\ prom_addr' = IF prom_addr < AllPages THEN prom_addr + 1 ELSE prom_addr
          ELSE /\ block_buf' = buf
               /\ UNCHANGED <<image, prom_addr>>
  /\ reply' \in PromReplies
  /\ IF reply' = "ok" THEN UNCHANGED troubles
     ELSE troubles < MaxTrouble /\ troubles' = troubles + 1
  /\ waiting' = TRUE
  /\ hostPos' = NextPos
  /\ UNCHANGED <<erasing, VerifyStatus, clean>>

(* Mutant: VERIFY does not program the data that is left. *)
MutFlush == UNCHANGED <<image, block_buf, prom_addr>>

(* The first VERIFY programs the data that is left. *)
Flush ==
  IF block_buf # <<>>
    THEN Program(block_buf) /\ block_buf' = <<>> /\ prom_addr' = NoAddr
    ELSE UNCHANGED <<image, block_buf, prom_addr>>

(* Mutant: the outcome of a comparison is the reply to it alone. *)
MutVerified(same) == IF same THEN "ok" ELSE VerifyStatus

(* A comparison that fails is remembered until the next ERASE. *)
Verified(same) == IF same THEN VerifyStatus ELSE "err"

(* CMD_IAP_VERIFY. *)
Verify ==
  /\ Command("verify")
  /\ Flush
  /\ VerifyStatus' = Verified(ChunkMatches(image'))
  /\ reply' = VerifyStatus'
  /\ waiting' = TRUE
  /\ hostPos' = NextPos
  /\ UNCHANGED <<erasing, clean, troubles>>

(* CMD_IAP_END: no reply, the handler does not return. *)
EndCommand ==
  /\ host = "end" /\ ~waiting
  /\ eraseEvt => evtServed
  /\ host' = "idle"
  /\ UNCHANGED <<image, device, reply, waiting, hostPos, want, clean, troubles>>

(* Mutant: one block too many. *)
MutErased == EraseBlockCnt >= EraseBlockNum

Erased == EraseBlockCnt + 1 >= EraseBlockNum

(* OTA_FLASH_ERASE_EVT: a block is erased; the event stays set until the last. *)
EraseEvent ==
  /\ eraseEvt
  /\ image' = IF EraseBlockCnt < Blocks THEN [image EXCEPT ![EraseBlockCnt] = BlankBlock]
                                        ELSE image
  /\ EraseBlockCnt' = EraseBlockCnt + 1
  /\ eraseEvt' = ~Erased
  /\ reply' = IF Erased THEN "ok" ELSE reply
  /\ evtServed' = TRUE
  /\ UNCHANGED <<EraseBlockNum, block_buf, prom_addr, VerifyStatus, hostVars, clean, troubles>>

(* The block is not erased: the status is replied and the event ends. *)
EraseFails ==
  /\ eraseEvt
  /\ troubles < MaxTrouble
  /\ troubles' = troubles + 1
  /\ eraseEvt' = FALSE
  /\ reply' = "err"
  /\ clean' = FALSE
  /\ UNCHANGED <<image, EraseBlockNum, EraseBlockCnt, block_buf, prom_addr, VerifyStatus,
                 evtServed, hostVars>>

-----------------------------------------------------------------------------
(* The host. *)

(* A user starts a download. *)
Start ==
  /\ host = "idle"
  /\ host' \in {"unknown", "info", "erase"}
  /\ hostPos' = 0
  /\ UNCHANGED <<image, device, reply, waiting, want, clean, troubles>>

(* What follows a reply. *)
AfterReply ==
  CASE host \in {"unknown", "info"} -> "erase"
    [] host \notin {"unknown", "info"} /\ reply # "ok" -> "idle"
    [] host = "erase" /\ reply = "ok" -> "prom"
    [] host = "prom" /\ reply = "ok" -> IF hostPos = ImageUnits THEN "verify" ELSE "prom"
    [] host = "verify" /\ reply = "ok" -> IF hostPos = ImageUnits THEN "end" ELSE "verify"
    [] OTHER -> "idle"

(* OTAProfile_ReadAttrCB: a reply is read once; before it is there, nothing. *)
ReadReply ==
  /\ waiting /\ reply # "none"
  /\ reply' = "none"
  /\ waiting' = FALSE
  /\ host' = AfterReply
  /\ hostPos' = IF AfterReply = host THEN hostPos ELSE 0
  /\ UNCHANGED <<image, device, want, clean, troubles>>

(* The link is lost.  GAPROLE_WAITING starts advertising and resets nothing; *)
(* the user may choose another version.                                      *)
Drop ==
  /\ host # "idle"
  /\ troubles < MaxTrouble
  /\ troubles' = troubles + 1
  /\ host' = "idle" /\ waiting' = FALSE /\ hostPos' = 0
  /\ want' \in Versions
  /\ UNCHANGED <<image, device, reply, clean>>

-----------------------------------------------------------------------------
(* The commands whose effects a program that keeps this session adds nothing to. *)
Commands == Unknown \/ Info \/ EraseRefused \/ Prom \/ Verify

-----------------------------------------------------------------------------
(* Properties, of every program that keeps this session. *)

(* END commits exactly the version the host sent, complete: whatever the     *)
(* sessions before left in block_buf, in the reply buffer or in the erase    *)
(* event, and although END looks at nothing itself.                          *)
CommitsWhatWasSent == host = "end" => image = Complete(want)

(* A download that began with an empty buffer does not fail to verify unless *)
(* flash failed: only what an abandoned download left in block_buf can spoil  *)
(* the next one -- not its reply, its erase event or its pages.               *)
CleanDownloadVerifies == clean => VerifyStatus = "ok"

(* The erase event stays inside the image: what an ERASE that is refused left *)
(* in EraseBlockNum does not reach an event that was set before it.           *)
ErasesOnlyTheImage == EraseBlockCnt <= Blocks

(* Everything the host was told is programmed is in flash or in block_buf    *)
(* when the last PROM was answered: of such a download nothing is missing    *)
(* but the page the first VERIFY programs.                                   *)
NothingMissing ==
  (host = "verify" /\ clean /\ ~waiting /\ hostPos = 0) =>
    \A addr \in 0 .. AllPages - 1 :
      \/ image[addr \div Pages][addr % Pages] = want
      \/ addr = prom_addr /\ PageData(addr, block_buf) = want

=============================================================================

-------------------------- MODULE OtaSession_proofs --------------------------
(***************************************************************************)
(* Proofs about the backup upgrade as a whole, for images of any size, any   *)
(* number of power failures, dropped links and failing erases.              *)
(*                                                                          *)
(* The session keeps SessionInv while the application runs; the bootloader   *)
(* changes image B too, but only when no host is connected (HostOnlyInApp).  *)
(* END is then a step of BackupBoot, since what it commits is complete.     *)
(***************************************************************************)
EXTENDS OtaSession, IapSession_proofs

HostOnlyInApp == pc # "app" => host = "idle"

OtaInv == SessionInv /\ HostOnlyInApp

-----------------------------------------------------------------------------
\* BackupBoot speaks of the same flash.
LEMMA SameFlash ==
  /\ B!BlockIx = BlockIx /\ B!PageIx = PageIx /\ B!Block = Block
  /\ B!BlankBlock = BlankBlock /\ B!TornBlock = TornBlock
  /\ \A im : B!IsComplete(im) <=> IsComplete(im)
<1>1. B!BlockIx = BlockIx /\ B!PageIx = PageIx
  BY DEF B!BlockIx, B!PageIx, BlockIx, PageIx
<1>2. B!Block = Block
  BY <1>1 DEF B!Block, Block, B!Content, Content
<1>3. B!BlankBlock = BlankBlock /\ B!TornBlock = TornBlock
  BY <1>1 DEF B!BlankBlock, B!TornBlock, BlankBlock, TornBlock
<1>4. \A v : B!Complete(v) = Complete(v)
  BY <1>1 DEF B!Complete, Complete
<1> QED BY <1>1, <1>2, <1>3, <1>4 DEF B!IsComplete, IsComplete

LEMMA BlockTypes == BlankBlock \in Block /\ TornBlock \in Block
BY DEF BlankBlock, TornBlock, Block, Content

\* What power cut short in image B is still an image.
LEMMA TornBType == image \in Image => B!TornB \subseteq Image
<1> SUFFICES ASSUME image \in Image PROVE B!TornB \subseteq Image
  OBVIOUS
<1>1. \A b : [image EXCEPT ![b] = TornBlock] \in Image
  BY BlockTypes, SessionBlockWrite
<1>2. \A b \in BlockIx, p \in PageIx : [image EXCEPT ![b][p] = Torn] \in Image
  BY SessionPageWrite DEF Content
<1>3. B!TornImages(image) \subseteq Image
  BY <1>1, <1>2, SameFlash DEF B!TornImages
<1>4. {image, [image EXCEPT ![i] = B!TornBlock]} \subseteq Image
  BY <1>1, SameFlash
<1> QED BY <1>3, <1>4 DEF B!TornB

\* The bootloader changes image B by erasing a block of it.
LEMMA BootloaderImage ==
  B!Bootloader => image' = image \/ \E b : image' = [image EXCEPT ![b] = BlankBlock]
<1> SUFFICES ASSUME B!Bootloader
             PROVE  image' = image \/ \E b : image' = [image EXCEPT ![b] = BlankBlock]
  OBVIOUS
<1>1. CASE B!DestroyBackup
  BY <1>1, SameFlash DEF B!DestroyBackup
<1>2. CASE B!Boot \/ B!EraseBlock \/ B!CopyPage \/ B!EraseFlag \/ B!ProgramFlag \/ B!Jump
  BY <1>2 DEF B!Boot, B!EraseBlock, B!CopyPage, B!EraseFlag, B!ProgramFlag, B!Jump, B!flash
<1> QED BY <1>1, <1>2 DEF B!Bootloader

\* While no host is connected the session does not depend on the image.
LEMMA IdleKeeps ==
  ASSUME SessionInv, host = "idle", image' \in Image, UNCHANGED session
  PROVE  SessionInv'
BY DEF SessionInv, SessionTypeOK, HostInv, EraseInv, VerifyInv, session, device, erasing, hostVars

-----------------------------------------------------------------------------
(* The invariant. *)

SessionStep == Commands \/ Erase \/ EraseEvent \/ EraseFails \/ Start \/ ReadReply \/ Drop

LEMMA SessionStepKeeps == SessionInv /\ SessionStep => SessionInv'
BY CommandsKeep, EraseKeeps, EraseEventKeeps, EraseFailsKeeps, StartKeeps, ReadReplyKeeps, DropKeeps
   DEF SessionStep

LEMMA InAppSteps ==
  OtaNext => InApp(SessionStep) \/ AppEnd \/ OtaBoot \/ OtaReset \/ OtaPowerFail
BY DEF OtaNext, AppCommand, AppEraseEvent, AppEraseFails, HostStart, HostReads, LinkDrops, InApp, SessionStep

LEMMA OtaStarts == OtaInit => OtaInv
<1> SUFFICES ASSUME OtaInit PROVE OtaInv
  OBVIOUS
<1>1. image \in Image
  BY SameFlash, BlockTypes DEF OtaInit, B!Init, Image
<1>2. host = "idle"
  BY DEF OtaInit, SessionInit
<1> QED BY <1>1, <1>2, SessionStarts DEF OtaInit, OtaInv, HostOnlyInApp

LEMMA OtaStep == OtaInv /\ [OtaNext]_allVars => OtaInv'
<1> SUFFICES ASSUME OtaInv, [OtaNext]_allVars PROVE OtaInv'
  OBVIOUS
<1>1. CASE UNCHANGED allVars
  <2>1. SessionInv'
    BY <1>1, SessionStutters DEF allVars, OtaInv
  <2>2. HostOnlyInApp'
    BY <1>1 DEF allVars, boot, session, hostVars, OtaInv, HostOnlyInApp
  <2> QED BY <2>1, <2>2 DEF OtaInv
<1>2. CASE InApp(SessionStep)
  <2>1. SessionInv'
    BY <1>2, SessionStepKeeps DEF InApp, OtaInv
  <2>2. HostOnlyInApp'
    BY <1>2 DEF InApp, boot, HostOnlyInApp
  <2> QED BY <2>1, <2>2 DEF OtaInv
<1>3. CASE AppEnd
  <2>1. SessionInv'
    BY <1>3, EndKeeps DEF AppEnd, OtaInv
  <2>2. HostOnlyInApp'
    BY <1>3 DEF AppEnd, EndCommand, HostOnlyInApp
  <2> QED BY <2>1, <2>2 DEF OtaInv
<1>4. CASE OtaBoot
  <2>1. pc # "app" /\ host' = host
    BY <1>4 DEF OtaBoot, B!Bootloader, B!Boot, B!EraseBlock, B!CopyPage, B!EraseFlag, B!ProgramFlag,
                B!DestroyBackup, B!Jump, session, hostVars
  <2>2. host = "idle"
    BY <2>1 DEF OtaInv, HostOnlyInApp
  <2>3. image' \in Image
    <3>1. image \in Image
      BY DEF OtaInv, SessionInv
    <3>2. \A b : [image EXCEPT ![b] = BlankBlock] \in Image
      BY <3>1, BlockTypes, SessionBlockWrite
    <3> QED BY <1>4, <3>1, <3>2, BootloaderImage DEF OtaBoot
  <2>4. SessionInv'
    BY <1>4, <2>2, <2>3, IdleKeeps DEF OtaBoot, OtaInv
  <2> QED BY <2>1, <2>2, <2>4 DEF OtaInv, HostOnlyInApp
<1>5. CASE OtaReset
  <2>1. image' = image /\ host' = "idle"
    BY <1>5 DEF OtaReset, B!EndReset, RamReset
  <2> QED BY <1>5, <2>1, ResetKeeps DEF OtaReset, OtaInv, SessionInv, HostOnlyInApp
<1>6. CASE OtaPowerFail
  <2>1. image' \in Image
    BY <1>6, TornBType DEF OtaPowerFail, B!PowerFail, OtaInv, SessionInv
  <2>2. host' = "idle"
    BY <1>6 DEF OtaPowerFail, RamReset
  <2> QED BY <1>6, <2>1, <2>2, ResetKeeps DEF OtaPowerFail, OtaInv, HostOnlyInApp
<1> QED BY <1>1, <1>2, <1>3, <1>4, <1>5, <1>6, InAppSteps

LEMMA OtaAlways == OtaSpec => []OtaInv
BY OtaStarts, OtaStep, PTL DEF OtaSpec

\* The session's variables keep their types, through every power failure.
THEOREM OtaTypeCorrect == OtaSpec => []SessionTypeOK
<1>1. OtaInv => SessionTypeOK
  BY DEF OtaInv, SessionInv
<1> QED BY <1>1, OtaAlways, PTL

\* END commits exactly the version the host sent, complete: whatever abandoned downloads left in the
\* device, and although the bootloader writes image B too.
THEOREM OtaCommitsWhatWasSent == OtaSpec => []CommitsWhatWasSent
<1>1. OtaInv => CommitsWhatWasSent
  BY SessionInvCommits DEF OtaInv
<1> QED BY <1>1, OtaAlways, PTL

-----------------------------------------------------------------------------
(* Downloads that began with an empty buffer.  The bootloader changes image B *)
(* only while no host is connected, so it takes no data away.                *)

LEMMA SessionStepDownloads == SessionInv /\ DownloadInv /\ SessionStep => DownloadInv'
BY CommandsDownload, EraseDownloads, EraseEventDownloads, OtherDownloads, ReadReplyDownloads
   DEF SessionStep

LEMMA OtaDownloadStep == OtaInv /\ DownloadInv /\ [OtaNext]_allVars => DownloadInv'
<1> SUFFICES ASSUME OtaInv, DownloadInv, [OtaNext]_allVars PROVE DownloadInv'
  OBVIOUS
<1>1. CASE UNCHANGED allVars
  BY <1>1, DownloadStutters DEF allVars
<1>2. CASE InApp(SessionStep)
  BY <1>2, SessionStepDownloads DEF InApp, OtaInv
<1>3. CASE AppEnd
  BY <1>3, OtherDownloads DEF AppEnd, OtaInv
<1>4. CASE OtaBoot
  <2>1. pc # "app"
    BY <1>4 DEF OtaBoot, B!Bootloader, B!Boot, B!EraseBlock, B!CopyPage, B!EraseFlag, B!ProgramFlag,
                B!DestroyBackup, B!Jump
  <2>2. host = "idle"
    BY <2>1 DEF OtaInv, HostOnlyInApp
  <2> QED BY <1>4, <2>2, IdleDownloads DEF OtaBoot
<1>5. CASE OtaReset \/ OtaPowerFail
  BY <1>5, ResetDownloads DEF OtaReset, OtaPowerFail
<1> QED BY <1>1, <1>2, <1>3, <1>4, <1>5, InAppSteps

LEMMA OtaDownloadAlways == OtaSpec => [](OtaInv /\ DownloadInv)
<1>1. OtaInit => DownloadInv
  BY DownloadStarts DEF OtaInit
<1> QED BY <1>1, OtaStarts, OtaStep, OtaDownloadStep, PTL DEF OtaSpec

\* A download that began with an empty buffer verifies, unless flash failed: neither the reply, nor the
\* erase event, nor the pages an abandoned download left behind can spoil it.
THEOREM OtaCleanDownloadVerifies == OtaSpec => []CleanDownloadVerifies
<1>1. DownloadInv => CleanDownloadVerifies
  BY DownloadInvVerifies
<1> QED BY <1>1, OtaDownloadAlways, PTL

\* When the last PROM of such a download was answered, all that was sent is in flash or in block_buf.
THEOREM OtaNothingMissing == OtaSpec => []NothingMissing
<1>1. OtaInv /\ DownloadInv => NothingMissing
  BY DownloadInvComplete DEF OtaInv
<1> QED BY <1>1, OtaDownloadAlways, PTL

-----------------------------------------------------------------------------
(* The refinement. *)

\* A block of image B is written, or nothing.
Writes == image' = image \/ \E b \in BlockIx, new \in Block : image' = [image EXCEPT ![b] = new]

LEMMA ProgramWrites ==
  ASSUME SessionInv, NEW buf, Program(buf)
  PROVE  Writes
<1>1. CASE prom_addr < AllPages
  <2>1. prom_addr \in 0..AllPages - 1
    BY <1>1, PageCount DEF SessionInv, SessionTypeOK, NoAddr
  <2> DEFINE b == prom_addr \div Pages
             p == prom_addr % Pages
             c == ProgramPage(image[b][p], PageData(prom_addr, buf))
  <2>2. b \in BlockIx /\ p \in PageIx
    BY <2>1, AddrRange
  <2>3. c \in Content
    BY PageDataType
  <2>4. image' = [image EXCEPT ![b][p] = c]
    BY <1>1 DEF Program
  <2> HIDE DEF b, p, c
  <2>5. image' = [image EXCEPT ![b] = [image[b] EXCEPT ![p] = c]]
    BY <2>4
  <2>6. [image[b] EXCEPT ![p] = c] \in Block
    BY <2>2, <2>3 DEF SessionInv, Image, Block
  <2> QED BY <2>2, <2>5, <2>6 DEF Writes
<1>2. CASE ~(prom_addr < AllPages)
  BY <1>2 DEF Program, Writes
<1> QED BY <1>1, <1>2

LEMMA SessionWrites ==
  ASSUME SessionInv, SessionStep
  PROVE  Writes
<1>1. CASE Info \/ Unknown \/ Erase \/ EraseRefused \/ EraseFails \/ Start \/ ReadReply \/ Drop
  BY <1>1 DEF Info, Unknown, Answer, Erase, EraseRefused, EraseFails, Start, ReadReply, Drop, Writes
<1>2. CASE Prom
  BY <1>2, ProgramWrites DEF Prom, Writes
<1>3. CASE Verify
  BY <1>3, ProgramWrites DEF Verify, Flush, Writes
<1>4. CASE EraseEvent
  <2>1. EraseBlockCnt \in Nat
    <3>1. EraseBlockNum \in Nat /\ EraseBlockCnt \in 0..EraseBlockNum
      BY EraseSizeType DEF SessionInv, SessionTypeOK
    <3> QED BY <3>1
  <2>2. EraseBlockCnt < Blocks => EraseBlockCnt \in BlockIx
    BY <2>1, SizeAssumption DEF BlockIx
  <2> QED BY <1>4, <2>2, BlockTypes DEF EraseEvent, Writes
<1> QED BY <1>1, <1>2, <1>3, <1>4 DEF SessionStep, Commands

LEMMA OtaStepImplements == OtaInv /\ [OtaNext]_allVars => [B!Next]_(B!vars)
<1> SUFFICES ASSUME OtaInv, [OtaNext]_allVars PROVE [B!Next]_(B!vars)
  OBVIOUS
<1>1. CASE UNCHANGED allVars
  BY <1>1 DEF allVars, boot, B!vars
<1>2. CASE InApp(SessionStep)
  <2>1. pc = "app" /\ UNCHANGED <<imageA, imageFlag, pc, i, page_count, flash_Data, crashes>> /\ Writes
    BY <1>2, SessionWrites DEF InApp, boot, OtaInv
  <2>2. CASE image' = image
    BY <2>1, <2>2 DEF B!vars
  <2>3. CASE \E b \in BlockIx, new \in Block : image' = [image EXCEPT ![b] = new]
    BY <2>1, <2>3, SameFlash DEF B!WriteBackup, B!Next
  <2> QED BY <2>1, <2>2, <2>3 DEF Writes
<1>3. CASE AppEnd
  <2>1. host = "end" /\ image' = image
    BY <1>3 DEF AppEnd, EndCommand
  <2>2. IsComplete(image)
    BY <2>1, SessionInvCommits DEF OtaInv, SessionInv, SessionTypeOK, CommitsWhatWasSent, IsComplete
  <2>3. B!End
    BY <1>3, <2>1, <2>2, SameFlash DEF AppEnd, EndFlash, B!End
  <2> QED BY <2>3 DEF B!Next
<1>4. CASE OtaBoot \/ OtaReset \/ OtaPowerFail
  BY <1>4 DEF OtaBoot, OtaReset, OtaPowerFail, B!Next
<1> QED BY <1>1, <1>2, <1>3, <1>4, InAppSteps

\* The session and the bootloader together implement BackupBoot: END comes only when image B is
\* complete, so what is proved of BackupBoot holds of the upgrade as a whole.
THEOREM OtaImplementsBackupBoot == OtaSpec => IsBackupBoot
<1>1. OtaInit => B!Init
  BY DEF OtaInit
<1> QED BY <1>1, OtaAlways, OtaStepImplements, PTL DEF OtaSpec, IsBackupBoot, B!Spec

BP == INSTANCE BackupBoot_proofs WITH imageB <- image

\* The two instances of BackupBoot are the same.
LEMMA SameBoot ==
  /\ B!Init <=> BP!Init
  /\ [B!Next]_(B!vars) <=> [BP!Next]_(BP!vars)
  /\ B!OneCompleteImage <=> BP!OneCompleteImage
<1>1. B!Init <=> BP!Init
  BY DEF
    B!Init, BP!Init, B!BlockIx, BP!BlockIx, B!PageIx, BP!PageIx, B!Block, BP!Block, B!Content,
    BP!Content, B!BlankBlock, BP!BlankBlock, B!Complete, BP!Complete
<1>2. B!Next <=> BP!Next
  BY DEF B!Next, BP!Next,
    B!Bootloader, BP!Bootloader, B!Boot, BP!Boot, B!EraseBlock, BP!EraseBlock, B!CopyPage,
    BP!CopyPage, B!EraseFlag, BP!EraseFlag, B!ProgramFlag, BP!ProgramFlag, B!DestroyBackup,
    BP!DestroyBackup, B!Jump, BP!Jump, B!WriteBackup, BP!WriteBackup, B!End, BP!End, B!EndReset,
    BP!EndReset, B!PowerFail, BP!PowerFail, B!TornA, BP!TornA, B!TornB, BP!TornB, B!TornImages,
    BP!TornImages, B!flash, BP!flash, B!BlockIx, BP!BlockIx, B!PageIx, BP!PageIx, B!Block,
    BP!Block, B!Content, BP!Content, B!BlankBlock, BP!BlankBlock, B!TornBlock, BP!TornBlock,
    B!Complete, BP!Complete, B!IsComplete, BP!IsComplete, B!CurrImageFlag, BP!CurrImageFlag,
    B!LastPage, BP!LastPage, B!LastBlock, BP!LastBlock, B!ProgramPage, BP!ProgramPage
<1>3. B!OneCompleteImage <=> BP!OneCompleteImage
  BY DEF
    B!OneCompleteImage, BP!OneCompleteImage, B!IsComplete, BP!IsComplete, B!Complete, BP!Complete,
    B!BlockIx, BP!BlockIx, B!PageIx, BP!PageIx
<1> QED BY <1>1, <1>2, <1>3 DEF B!vars, BP!vars

\* Flash always holds a complete application that the next boot finds, whatever the session does.
THEOREM OtaAlwaysComplete == OtaSpec => []B!OneCompleteImage
<1>1. BP!Spec => []BP!OneCompleteImage
  BY BP!AlwaysOneCompleteImage, SizeAssumption, VersionAssumption, PageAssumption, CrashAssumption
<1>2. B!Init => BP!Init
  BY SameBoot
<1>3. [B!Next]_(B!vars) => [BP!Next]_(BP!vars)
  BY SameBoot
<1>4. BP!OneCompleteImage => B!OneCompleteImage
  BY SameBoot
<1> QED BY <1>1, <1>2, <1>3, <1>4, OtaImplementsBackupBoot, PTL DEF IsBackupBoot, B!Spec, BP!Spec
=============================================================================

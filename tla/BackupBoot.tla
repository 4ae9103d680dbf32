----------------------------- MODULE BackupBoot -----------------------------
(***************************************************************************)
(* The IAP bootloader of BLE/BackupUpgrade_IAP, with power failures.        *)
(*                                                                          *)
(* Flash holds image A (the application that runs), image B (the backup a   *)
(* new version is downloaded to) and a flag page.  After a reset main()     *)
(* reads the flag; when it says IAP, jump_APP copies B over A block by      *)
(* block, switches the flag to A, erases B, and jumps to A.  Power may fail *)
(* before, during or after every flash operation: an erase or a program it  *)
(* cuts short leaves a torn page, and RAM is lost.                          *)
(*                                                                          *)
(* The application (BLE/BackupUpgrade_OTA) appears by what it does to this  *)
(* flash: it writes image B in any order, and END sets the flag to IAP once *)
(* the host has verified image B.                                           *)
(***************************************************************************)
EXTENDS FlashImage

CONSTANT MaxCrash  \* bound on power failures

ASSUME CrashAssumption == MaxCrash \in Nat

VARIABLES imageA, imageB,  \* [block -> [page -> content]]
          imageFlag,       \* "A", "IAP", or "none": the marks 0x5A are missing
          pc,              \* what the processor does next
          i, page_count,   \* jump_APP's loop counters
          flash_Data,      \* jump_APP's copy of block i of image B
          crashes          \* power failures so far

flash == <<imageA, imageB, imageFlag>>
vars == <<imageA, imageB, imageFlag, pc, i, page_count, flash_Data, crashes>>

TypeOK ==
  /\ imageA \in Image /\ imageB \in Image
  /\ imageFlag \in {"A", "IAP", "none"}
  /\ pc \in {"reset", "erase", "program", "unflag", "reflag", "destroy", "jump",
             "app", "ending"}
  /\ i \in BlockIx /\ page_count \in PageIx
  /\ flash_Data \in Block
  /\ crashes \in 0 .. MaxCrash

Init ==
  /\ \E v \in Versions : imageA = Complete(v)
  /\ imageB = [b \in BlockIx |-> BlankBlock]
  /\ imageFlag = "none"
  /\ pc = "reset"
  /\ i = 0 /\ page_count = 0
  /\ flash_Data = BlankBlock
  /\ crashes = 0

-----------------------------------------------------------------------------
(* The bootloader. *)

(* Mutant: an unmarked page starts the copy. *)
MutCurrImageFlag == IF imageFlag = "none" THEN "IAP" ELSE imageFlag

(* An unmarked flag page stands for image A. *)
CurrImageFlag == IF imageFlag = "none" THEN "A" ELSE imageFlag

(* Mutant: the flag is switched to A when a copy starts, not when it ends. *)
MutBoot ==
  /\ pc = "reset"
  /\ pc' = IF CurrImageFlag = "IAP" THEN "erase" ELSE "jump"
  /\ imageFlag' = "A"
  /\ i' = 0
  /\ UNCHANGED <<imageA, imageB, page_count, flash_Data, crashes>>

(* main: ReadImageFlag, then jump_APP up to its first flash operation. *)
Boot ==
  /\ pc = "reset"
  /\ pc' = IF CurrImageFlag = "IAP" THEN "erase" ELSE "jump"
  /\ i' = 0
  /\ UNCHANGED <<flash, page_count, flash_Data, crashes>>

(* Mutant: the block is not erased before it is programmed. *)
MutEraseBlock ==
  /\ pc = "erase"
  /\ flash_Data' = imageB[i]
  /\ page_count' = 0
  /\ pc' = "program"
  /\ UNCHANGED <<imageA, imageB, imageFlag, i, crashes>>

(* Block i of image A is erased and block i of image B read to RAM. *)
EraseBlock ==
  /\ pc = "erase"
  /\ imageA' = [imageA EXCEPT ![i] = BlankBlock]
  /\ flash_Data' = imageB[i]
  /\ page_count' = 0
  /\ pc' = "program"
  /\ UNCHANGED <<imageB, imageFlag, i, crashes>>

(* Mutants: one page too many is looked for; the last block is left out. *)
MutLastPage == page_count = Pages
MutLastBlock == i + 1 >= Blocks - 1

LastPage == page_count = Pages - 1
LastBlock == i = Blocks - 1

(* Mutant: the loop over the blocks does not advance i. *)
MutCopyPage ==
  /\ pc = "program"
  /\ imageA' = [imageA EXCEPT ![i][page_count] = ProgramPage(@, flash_Data[page_count])]
  /\ page_count' = IF LastPage THEN 0 ELSE page_count + 1
  /\ pc' = IF LastPage THEN "erase" ELSE "program"
  /\ UNCHANGED <<imageB, imageFlag, i, flash_Data, crashes>>

(* A page of block i of image A is programmed. *)
CopyPage ==
  /\ pc = "program"
  /\ imageA' = [imageA EXCEPT ![i][page_count] = ProgramPage(@, flash_Data[page_count])]
  /\ page_count' = IF LastPage THEN 0 ELSE page_count + 1
  /\ i' = CASE ~LastPage -> i
            [] LastPage /\ ~LastBlock -> i + 1
            [] OTHER -> 0
  /\ pc' = CASE ~LastPage -> "program"
             [] LastPage /\ ~LastBlock -> "erase"
             [] OTHER -> "unflag"
  /\ UNCHANGED <<imageB, imageFlag, flash_Data, crashes>>

(* SwitchImageFlag(IMAGE_A_FLAG): the flag page is erased, then programmed. *)
EraseFlag ==
  /\ pc = "unflag"
  /\ imageFlag' = "none"
  /\ pc' = "reflag"
  /\ UNCHANGED <<imageA, imageB, i, page_count, flash_Data, crashes>>

ProgramFlag ==
  /\ pc = "reflag"
  /\ imageFlag' = "A"
  /\ pc' = "destroy"
  /\ UNCHANGED <<imageA, imageB, i, page_count, flash_Data, crashes>>

(* The backup is erased, a block at a time. *)
DestroyBackup ==
  /\ pc = "destroy"
  /\ imageB' = [imageB EXCEPT ![i] = BlankBlock]
  /\ i' = IF LastBlock THEN 0 ELSE i + 1
  /\ pc' = IF LastBlock THEN "jump" ELSE "destroy"
  /\ UNCHANGED <<imageA, imageFlag, page_count, flash_Data, crashes>>

(* jumpApp(). *)
Jump ==
  /\ pc = "jump"
  /\ pc' = "app"
  /\ UNCHANGED <<flash, i, page_count, flash_Data, crashes>>

-----------------------------------------------------------------------------
(* The application, as far as this flash is concerned. *)

(* ERASE, PROM and VERIFY change image B, a block of it at a time, and only *)
(* image B.                                                                  *)
WriteBackup ==
  /\ pc = "app"
  /\ \E b \in BlockIx, new \in Block : imageB' = [imageB EXCEPT ![b] = new]
  /\ UNCHANGED <<imageA, imageFlag, pc, i, page_count, flash_Data, crashes>>

(* END: SwitchImageFlag(IMAGE_IAP_FLAG) erases the flag page and programs it, *)
(* and the chip is reset.  The host sends END after a VERIFY of all of B.     *)
End ==
  /\ pc = "app"
  /\ IsComplete(imageB)
  /\ imageFlag' = "none"
  /\ pc' = "ending"
  /\ UNCHANGED <<imageA, imageB, i, page_count, flash_Data, crashes>>

EndReset ==
  /\ pc = "ending"
  /\ imageFlag' = "IAP"
  /\ pc' = "reset"
  /\ UNCHANGED <<imageA, imageB, i, page_count, flash_Data, crashes>>

-----------------------------------------------------------------------------
(* Power fails, in the middle of the next flash operation if there is one.    *)
(* A flag page cut short reads as its value before or after the operation:    *)
(* its four bytes are one word.                                               *)
TornA ==
  CASE pc = "erase" -> {imageA, [imageA EXCEPT ![i] = TornBlock]}
    [] pc = "program" -> {imageA, [imageA EXCEPT ![i][page_count] = Torn]}
    [] OTHER -> {imageA}

TornB ==
  CASE pc = "destroy" -> {imageB, [imageB EXCEPT ![i] = TornBlock]}
    [] pc = "app" -> TornImages(imageB)
    [] OTHER -> {imageB}

PowerFail ==
  /\ crashes < MaxCrash
  /\ crashes' = crashes + 1
  /\ imageA' \in TornA
  /\ imageB' \in TornB
  /\ pc' = "reset"
  /\ i' = 0 /\ page_count' = 0
  /\ flash_Data' = BlankBlock
  /\ UNCHANGED imageFlag

Bootloader ==
  \/ Boot \/ EraseBlock \/ CopyPage \/ EraseFlag \/ ProgramFlag \/ DestroyBackup \/ Jump

Next == Bootloader \/ WriteBackup \/ End \/ EndReset \/ PowerFail

Spec == Init /\ [][Next]_vars

(* The bootloader runs with nothing to wait for, and END goes on to its reset. *)
FairSpec == Spec /\ WF_vars(Bootloader) /\ WF_vars(EndReset)

-----------------------------------------------------------------------------
(* Properties. *)

(* Flash always holds a complete application that the next boot finds: image *)
(* B while the flag asks for the copy, image A otherwise -- through every    *)
(* erase, every torn page and the two steps of a flag switch.                *)
OneCompleteImage ==
  IF imageFlag = "IAP" THEN IsComplete(imageB) ELSE IsComplete(imageA)

(* The bootloader jumps to, and the processor runs, only a complete image A: *)
(* a copy that power cut short is never run.                                 *)
RunsCompleteImage == pc \in {"jump", "app", "ending"} => IsComplete(imageA)

(* jump_APP's copy programs erased pages only: without a power failure since *)
(* the block was erased no page of image A is torn by programming it twice.  *)
CopiesToBlankPages == pc = "program" => imageA[i][page_count] = Blank

(* The bootloader carries out Upgrade: one complete version runs, and a boot *)
(* runs the version committed last, whichever step power failed in.          *)
VersionOf(image) ==
  IF IsComplete(image) THEN CHOOSE v \in Versions : image = Complete(v) ELSE NoVersion
Up == INSTANCE Upgrade WITH
        running <- IF pc \in {"app", "ending"} THEN VersionOf(imageA) ELSE NoVersion,
        next <- IF imageFlag = "IAP" THEN VersionOf(imageB) ELSE VersionOf(imageA)
IsUpgrade == Up!UpgradeSpec

(* A version END committed runs in the end, if power stops failing: the copy *)
(* starts over after each failure and its loops end.                         *)
CommittedRuns ==
  \A v \in Versions :
    (imageFlag = "IAP" /\ imageB = Complete(v)) ~> (pc = "app" /\ imageA = Complete(v))

=============================================================================

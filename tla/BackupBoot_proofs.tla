-------------------------- MODULE BackupBoot_proofs --------------------------
(***************************************************************************)
(* Proofs about the backup bootloader, for images of any size, any set of  *)
(* versions and any number of power failures.                              *)
(*                                                                         *)
(* BootInv is the inductive invariant: OneCompleteImage alone is not, since *)
(* it does not say how far the copy is when it hands over from B to A.      *)
(***************************************************************************)
EXTENDS BackupBoot, TLAPS

USE SizeAssumption, VersionAssumption, PageAssumption, CrashAssumption

(* The flag and the images agree with the step the processor is at. *)
PhaseInv ==
  /\ pc \in {"erase", "program", "unflag"} => imageFlag = "IAP"
  /\ pc \in {"reflag", "destroy", "jump", "app", "ending"} =>
       imageFlag # "IAP" /\ IsComplete(imageA)
  /\ pc = "ending" => IsComplete(imageB)

(* What jump_APP copied so far equals the backup, what it erased is blank. *)
CopyInv ==
  /\ pc \in {"erase", "program"} => \A b \in 0 .. (i - 1) : imageA[b] = imageB[b]
  /\ pc = "program" =>
       /\ flash_Data = imageB[i]
       /\ \A p \in PageIx : imageA[i][p] = IF p < page_count THEN imageB[i][p] ELSE Blank
  /\ pc = "unflag" => imageA = imageB

BootInv == OneCompleteImage /\ PhaseInv /\ CopyInv

-----------------------------------------------------------------------------
(* The types. *)

(* A complete image is an image. *)
LEMMA CompleteType == \A v \in Versions : Complete(v) \in Image
  BY DEF Complete, Image, Block, Content

(* Initial states are well typed. *)
LEMMA InitType == Init => TypeOK
  <1> SUFFICES ASSUME Init PROVE TypeOK
    OBVIOUS
  <1>1. imageA \in Image
    BY CompleteType DEF Init
  <1>2. BlankBlock \in Block
    BY DEF BlankBlock, Block, Content
  <1>3. imageB \in Image
    BY <1>2 DEF Init, Image
  <1> QED
    BY <1>1, <1>2, <1>3 DEF Init, TypeOK, BlockIx, PageIx

(* Overwriting a block of an image gives an image. *)
LEMMA BlockWrite ==
  ASSUME NEW image \in Image, NEW b \in BlockIx, NEW block \in Block
  PROVE  [image EXCEPT ![b] = block] \in Image
  BY DEF Image

(* Overwriting a page of an image gives an image. *)
LEMMA PageWrite ==
  ASSUME NEW image \in Image, NEW b \in BlockIx, NEW p \in PageIx, NEW c \in Content
  PROVE  [image EXCEPT ![b][p] = c] \in Image
  BY DEF Image, Block

(* Every step keeps the types. *)
LEMMA StepType == TypeOK /\ [Next]_vars => TypeOK'
  <1> SUFFICES ASSUME TypeOK, [Next]_vars PROVE TypeOK'
    OBVIOUS
  <1> USE DEF TypeOK
  <1>0. BlankBlock \in Block /\ TornBlock \in Block
    BY DEF BlankBlock, TornBlock, Block, Content
  <1>1. CASE Boot
    BY <1>1 DEF Boot, flash, BlockIx
  <1>2. CASE EraseBlock
    <2>1. imageA' \in Image
      BY <1>0, <1>2, BlockWrite DEF EraseBlock
    <2>2. imageB[i] \in Block
      BY DEF Image
    <2> QED
      BY <1>2, <2>1, <2>2 DEF EraseBlock, PageIx
  <1>3. CASE CopyPage
    <2>1. flash_Data[page_count] \in Content
      BY DEF Block
    <2>2. \A old : ProgramPage(old, flash_Data[page_count]) \in Content
      BY <2>1 DEF ProgramPage, Content
    <2>3. imageA' \in Image
      BY <1>3, <2>2, PageWrite DEF CopyPage
    <2>4. page_count' \in PageIx /\ i' \in BlockIx
      BY <1>3 DEF CopyPage, LastPage, LastBlock, PageIx, BlockIx
    <2>5. pc' \in {"program", "erase", "unflag"}
      BY <1>3 DEF CopyPage
    <2> QED
      BY <1>3, <2>3, <2>4, <2>5 DEF CopyPage
  <1>4. CASE EraseFlag
    BY <1>4 DEF EraseFlag
  <1>5. CASE ProgramFlag
    BY <1>5 DEF ProgramFlag
  <1>6. CASE DestroyBackup
    <2>1. imageB' \in Image
      BY <1>0, <1>6, BlockWrite DEF DestroyBackup
    <2>2. i' \in BlockIx
      BY <1>6 DEF DestroyBackup, LastBlock, BlockIx
    <2> QED
      BY <1>6, <2>1, <2>2 DEF DestroyBackup
  <1>7. CASE Jump
    BY <1>7 DEF Jump, flash
  <1>8. CASE WriteBackup
    <2>1. PICK b \in BlockIx, new \in Block : imageB' = [imageB EXCEPT ![b] = new]
      BY <1>8 DEF WriteBackup
    <2>2. imageB' \in Image
      BY <2>1, BlockWrite
    <2> QED
      BY <1>8, <2>2 DEF WriteBackup
  <1>9. CASE End
    BY <1>9 DEF End
  <1>10. CASE EndReset
    BY <1>10 DEF EndReset
  <1>11. CASE PowerFail
    <2>1. [imageA EXCEPT ![i] = TornBlock] \in Image
          /\ [imageB EXCEPT ![i] = TornBlock] \in Image
      BY <1>0, BlockWrite
    <2>2. [imageA EXCEPT ![i][page_count] = Torn] \in Image
      BY PageWrite DEF Content
    <2>3. imageA' \in Image
      BY <1>11, <2>1, <2>2 DEF PowerFail, TornA
    <2>4. /\ \A b \in BlockIx : [imageB EXCEPT ![b] = TornBlock] \in Image
          /\ \A b \in BlockIx, p \in PageIx : [imageB EXCEPT ![b][p] = Torn] \in Image
      <3>1. Torn \in Content
        BY DEF Content
      <3>2. ASSUME NEW b \in BlockIx
            PROVE  [imageB EXCEPT ![b] = TornBlock] \in Image
        BY <1>0, BlockWrite
      <3>3. ASSUME NEW b \in BlockIx, NEW p \in PageIx
            PROVE  [imageB EXCEPT ![b][p] = Torn] \in Image
        BY <3>1, PageWrite
      <3> QED
        BY <3>2, <3>3
    <2>5. TornB \subseteq Image
      <3>1. CASE pc = "app"
        <4>1. TornB = {imageB} \cup {[imageB EXCEPT ![b] = TornBlock] : b \in BlockIx}
                      \cup {[imageB EXCEPT ![b][p] = Torn] : b \in BlockIx, p \in PageIx}
          BY <3>1 DEF TornB, TornImages
        <4> QED
          BY <2>4, <4>1
      <3>2. CASE pc # "app"
        BY <2>1, <3>2 DEF TornB
      <3> QED
        BY <3>1, <3>2
    <2>6. imageB' \in Image
      BY <1>11, <2>5 DEF PowerFail
    <2> QED
      BY <1>0, <1>11, <2>3, <2>6 DEF PowerFail, BlockIx, PageIx
  <1>12. CASE UNCHANGED vars
    BY <1>12 DEF vars
  <1> QED
    BY <1>1, <1>2, <1>3, <1>4, <1>5, <1>6, <1>7, <1>8, <1>9, <1>10, <1>11, <1>12
       DEF Next, Bootloader

(* Every reachable state of the bootloader and of its flash is well typed. *)
THEOREM BootTypeCorrect == Spec => []TypeOK
  BY InitType, StepType, PTL DEF Spec

-----------------------------------------------------------------------------
(* The images. *)

(* The invariant holds initially: image A is complete and nothing is copied. *)
LEMMA InitBoot == Init => BootInv
  BY DEF Init, BootInv, OneCompleteImage, PhaseInv, CopyInv, IsComplete

(* A step of the processor outside the copy keeps the invariant. *)
LEMMA QuietStep ==
  ASSUME TypeOK, BootInv,
         Boot \/ EraseFlag \/ ProgramFlag \/ DestroyBackup \/ Jump \/ WriteBackup
           \/ End \/ EndReset \/ UNCHANGED vars
  PROVE  BootInv'
  <1> USE DEF BootInv, OneCompleteImage, PhaseInv, CopyInv, IsComplete
  <1>1. CASE Boot
    BY <1>1 DEF Boot, flash, CurrImageFlag, TypeOK
  <1>2. CASE EraseFlag
    BY <1>2 DEF EraseFlag
  <1>3. CASE ProgramFlag
    BY <1>3 DEF ProgramFlag
  <1>4. CASE DestroyBackup
    BY <1>4 DEF DestroyBackup
  <1>5. CASE Jump
    BY <1>5 DEF Jump, flash
  <1>6. CASE WriteBackup
    BY <1>6 DEF WriteBackup
  <1>7. CASE End
    BY <1>7 DEF End
  <1>8. CASE EndReset
    BY <1>8 DEF EndReset
  <1>9. CASE UNCHANGED vars
    BY <1>9 DEF vars
  <1> QED
    BY <1>1, <1>2, <1>3, <1>4, <1>5, <1>6, <1>7, <1>8, <1>9

(* Erasing a block leaves it blank and the blocks before it copied. *)
LEMMA EraseStep == ASSUME TypeOK, BootInv, EraseBlock PROVE BootInv'
  <1>1. imageA' = [imageA EXCEPT ![i] = BlankBlock] /\ flash_Data' = imageB[i]
        /\ page_count' = 0 /\ pc = "erase" /\ pc' = "program"
        /\ UNCHANGED <<imageB, imageFlag, i>>
    BY DEF EraseBlock
  <1>2. imageFlag = "IAP" /\ IsComplete(imageB)
    BY <1>1 DEF BootInv, PhaseInv, OneCompleteImage
  <1>3. \A p \in PageIx : imageA'[i][p] = Blank
    BY <1>1 DEF TypeOK, Image, BlankBlock
  <1>4. \A b \in 0 .. (i - 1) : imageA'[b] = imageB[b]
    <2> TAKE b \in 0 .. (i - 1)
    <2>1. b \in BlockIx /\ b # i
      BY DEF TypeOK, BlockIx
    <2>2. imageA[b] = imageB[b]
      BY <1>1 DEF BootInv, CopyInv
    <2> QED
      BY <1>1, <2>1, <2>2 DEF TypeOK, Image
  <1>5. CopyInv'
    BY <1>1, <1>3, <1>4 DEF CopyInv, PageIx
  <1> QED
    BY <1>1, <1>2, <1>5 DEF BootInv, PhaseInv, OneCompleteImage, IsComplete

(* Programming a page copies it; after the last one the block is copied, and *)
(* after the last block the image is.                                        *)
LEMMA CopyStep == ASSUME TypeOK, BootInv, CopyPage PROVE BootInv'
  <1>1. /\ imageA' = [imageA EXCEPT ![i][page_count] =
                        ProgramPage(@, flash_Data[page_count])]
        /\ pc = "program"
        /\ UNCHANGED <<imageB, imageFlag, flash_Data>>
    BY DEF CopyPage
  <1>2. imageFlag = "IAP" /\ IsComplete(imageB)
    BY <1>1 DEF BootInv, PhaseInv, OneCompleteImage
  <1>3. /\ flash_Data = imageB[i]
        /\ \A p \in PageIx : imageA[i][p] = IF p < page_count THEN imageB[i][p] ELSE Blank
        /\ \A b \in 0 .. (i - 1) : imageA[b] = imageB[b]
    BY <1>1 DEF BootInv, CopyInv
  <1>4. ~(page_count < page_count)
    BY DEF TypeOK, PageIx
  <1>5. imageA' = [imageA EXCEPT ![i][page_count] = imageB[i][page_count]]
    BY <1>1, <1>3, <1>4 DEF ProgramPage, TypeOK, Image
  <1>6. imageA' \in Image /\ imageB \in Image
    <2>1. imageB[i][page_count] \in Content
      BY DEF TypeOK, Image, Block
    <2> QED
      BY <1>5, <2>1, PageWrite DEF TypeOK
  <1>7. \A b \in 0 .. (i - 1) : imageA'[b] = imageB[b]
    <2> TAKE b \in 0 .. (i - 1)
    <2>1. b \in BlockIx /\ b # i
      BY DEF TypeOK, BlockIx
    <2> QED
      BY <1>3, <1>5, <2>1 DEF TypeOK, Image
  <1>8. \A p \in PageIx : imageA'[i][p] =
          IF p < page_count + 1 THEN imageB[i][p] ELSE Blank
    <2> TAKE p \in PageIx
    <2>1. p < page_count + 1 <=> p < page_count \/ p = page_count
      BY DEF TypeOK, PageIx
    <2>2. imageA'[i][p] = IF p = page_count THEN imageB[i][page_count] ELSE imageA[i][p]
      BY <1>5 DEF TypeOK, Image, Block
    <2> QED
      BY <1>3, <2>1, <2>2
  <1>9. LastPage => imageA'[i] = imageB[i]
    <2> SUFFICES ASSUME LastPage PROVE imageA'[i] = imageB[i]
      OBVIOUS
    <2>1. \A p \in PageIx : p < page_count + 1
      BY DEF LastPage, PageIx, TypeOK
    <2>2. \A p \in PageIx : imageA'[i][p] = imageB[i][p]
      BY <1>8, <2>1
    <2>3. imageA'[i] \in Block /\ imageB[i] \in Block
      BY <1>6 DEF Image, TypeOK
    <2> QED
      BY <2>2, <2>3 DEF Block
  <1>10. CASE ~LastPage
    BY <1>1, <1>2, <1>3, <1>7, <1>8, <1>10
       DEF CopyPage, BootInv, PhaseInv, CopyInv, OneCompleteImage, IsComplete
  <1>11. LastPage => \A b \in 0 .. i : imageA'[b] = imageB[b]
    BY <1>7, <1>9 DEF TypeOK, BlockIx
  <1>12. CASE LastPage /\ ~LastBlock
    <2>1. pc' = "erase" /\ i' = i + 1
      BY <1>12 DEF CopyPage
    <2>2. 0 .. (i' - 1) = 0 .. i
      BY <2>1 DEF TypeOK, BlockIx
    <2>3. CopyInv'
      BY <1>1, <1>11, <1>12, <2>1, <2>2 DEF CopyInv
    <2> QED
      BY <1>1, <1>2, <2>1, <2>3 DEF BootInv, PhaseInv, OneCompleteImage, IsComplete
  <1>13. CASE LastPage /\ LastBlock
    <2>1. pc' = "unflag"
      BY <1>13 DEF CopyPage
    <2>2. \A b \in BlockIx : imageA'[b] = imageB[b]
      BY <1>11, <1>13 DEF LastBlock, BlockIx
    <2>3. imageA' = imageB
      BY <1>6, <2>2 DEF Image
    <2>4. CopyInv'
      BY <1>1, <2>1, <2>3 DEF CopyInv
    <2> QED
      BY <1>1, <1>2, <2>1, <2>4 DEF BootInv, PhaseInv, OneCompleteImage, IsComplete
  <1> QED
    BY <1>10, <1>12, <1>13

(* A power failure tears image A only while the flag says IAP, and image B *)
(* only while it does not.                                                 *)
LEMMA CrashStep == ASSUME TypeOK, BootInv, PowerFail PROVE BootInv'
  <1>1. pc' = "reset" /\ imageFlag' = imageFlag
    BY DEF PowerFail
  <1>2. imageFlag # "IAP" => imageA' = imageA
    BY DEF PowerFail, TornA, BootInv, PhaseInv
  <1>3. imageFlag = "IAP" => imageB' = imageB
    BY DEF PowerFail, TornB, BootInv, PhaseInv
  <1> QED
    BY <1>1, <1>2, <1>3 DEF BootInv, PhaseInv, CopyInv, OneCompleteImage, IsComplete

(* BootInv is an invariant. *)
LEMMA BootInductive == Spec => [](TypeOK /\ BootInv)
  <1>1. TypeOK /\ BootInv /\ [Next]_vars => BootInv'
    BY QuietStep, EraseStep, CopyStep, CrashStep DEF Next, Bootloader
  <1> QED
    BY <1>1, InitType, StepType, InitBoot, PTL DEF Spec

(* Flash always holds a complete application that the next boot finds. *)
THEOREM AlwaysOneCompleteImage == Spec => []OneCompleteImage
  <1>1. BootInv => OneCompleteImage
    BY DEF BootInv
  <1> QED
    BY <1>1, BootInductive, PTL

(* The processor runs only complete images. *)
THEOREM AlwaysRunsCompleteImage == Spec => []RunsCompleteImage
  <1>1. BootInv => RunsCompleteImage
    BY DEF BootInv, PhaseInv, RunsCompleteImage
  <1> QED
    BY <1>1, BootInductive, PTL

(* The copy programs blank pages only. *)
THEOREM CopyFindsBlankPages == Spec => []CopiesToBlankPages
  <1>1. TypeOK /\ BootInv => CopiesToBlankPages
    BY DEF BootInv, CopyInv, CopiesToBlankPages, TypeOK, PageIx
  <1> QED
    BY <1>1, BootInductive, PTL

-----------------------------------------------------------------------------
(* Refinement. *)

(* A complete image has a version, which is the one it is complete for. *)
LEMMA VersionOfComplete ==
  \A image : IsComplete(image) => VersionOf(image) \in Versions
  BY DEF IsComplete, VersionOf

(* Every step is a step of Upgrade, or leaves what it speaks of alone. *)
LEMMA StepUpgrade ==
  ASSUME TypeOK, BootInv, BootInv', [Next]_vars
  PROVE  [Up!Next]_<<IF pc \in {"app", "ending"} THEN VersionOf(imageA) ELSE NoVersion,
                     IF imageFlag = "IAP" THEN VersionOf(imageB) ELSE VersionOf(imageA)>>
  <1> DEFINE running == IF pc \in {"app", "ending"} THEN VersionOf(imageA) ELSE NoVersion
             next == IF imageFlag = "IAP" THEN VersionOf(imageB) ELSE VersionOf(imageA)
  <1> USE DEF OneCompleteImage, PhaseInv
  <1>1. next \in Versions /\ next' \in Versions
    BY VersionOfComplete DEF BootInv
  <1>2. CASE Jump
    <2>1. running = NoVersion /\ running' = next /\ next' = next
      BY <1>2 DEF Jump, flash, BootInv
    <2> QED
      BY <2>1 DEF Up!Next, Up!Boot
  <1>3. CASE PowerFail
    <2>1. imageFlag # "IAP" => imageA' = imageA
      BY <1>3 DEF PowerFail, TornA, BootInv
    <2>2. imageFlag = "IAP" => imageB' = imageB
      BY <1>3 DEF PowerFail, TornB, BootInv
    <2>3. running' = NoVersion /\ next' = next
      BY <1>3, <2>1, <2>2 DEF PowerFail
    <2> QED
      BY <2>3 DEF Up!Next, Up!GoDown
  <1>4. CASE EndReset
    <2>1. running # NoVersion /\ running' = NoVersion
      BY <1>4, VersionOfComplete DEF EndReset, BootInv
    <2> QED
      BY <1>1, <2>1 DEF Up!Next, Up!Commit
  <1>5. CASE Boot \/ EraseBlock \/ CopyPage \/ EraseFlag \/ ProgramFlag \/ DestroyBackup
    <2>1. running = NoVersion /\ running' = NoVersion
      BY <1>5 DEF Boot, EraseBlock, CopyPage, EraseFlag, ProgramFlag, DestroyBackup
    <2>2. next' = next
      BY <1>5 DEF Boot, EraseBlock, CopyPage, EraseFlag, ProgramFlag, DestroyBackup,
                  flash, BootInv, CopyInv
    <2> QED
      BY <2>1, <2>2
  <1>6. CASE WriteBackup \/ End \/ UNCHANGED vars
    <2>1. running' = running /\ next' = next
      BY <1>6 DEF WriteBackup, End, vars, BootInv
    <2> QED
      BY <2>1
  <1> QED
    BY <1>2, <1>3, <1>4, <1>5, <1>6 DEF Next, Bootloader

(* The bootloader implements Upgrade. *)
THEOREM BootIsUpgrade == Spec => IsUpgrade
  <1>1. Init => Up!Init
    BY VersionOfComplete DEF Init, Up!Init, IsComplete
  <1> QED
    BY <1>1, StepUpgrade, BootInductive, PTL DEF Spec, IsUpgrade, Up!UpgradeSpec
=============================================================================

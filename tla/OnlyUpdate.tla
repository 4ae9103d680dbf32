----------------------------- MODULE OnlyUpdate -----------------------------
(***************************************************************************)
(* BLE/OnlyUpdateApp_IAP: an upgrade in place, without a backup, under power *)
(* failures; and Jump_OTA of OnlyUpdateApp_Peripheral, which enters it.      *)
(*                                                                          *)
(* Flash holds the application and a flag page.  After a reset the bootloader *)
(* jumps to the application, unless the flag says that an erase was begun    *)
(* (IAP) or the application asked for an upgrade (OTA) by a software reset.   *)
(* While the bootloader stays, a host drives the command session of          *)
(* IapSession on the application's own flash.  ERASE switches the flag to    *)
(* IAP, END switches it to A and jumps.  A switch erases the flag page, then *)
(* programs it; an empty page stands for A.                                  *)
(***************************************************************************)
EXTENDS IapSession

CONSTANTS MaxCrash,     \* bound on power failures and presses of the reset button
          CutsRepeated  \* power may fail in the flag switch of a repeated ERASE

ASSUME CrashAssumption == MaxCrash \in Nat /\ CutsRepeated \in BOOLEAN

VARIABLES imageFlag,  \* "A", "IAP", "OTA", or "none": the marks 0x5A are missing
          pc,         \* where the processor is
          sftrst,     \* RCC_FLAG_SFTRST
          crashes

boot == <<imageFlag, pc, sftrst, crashes>>
vars == <<boot, image, session>>

TypeOK ==
  /\ image \in Image
  /\ imageFlag \in {"A", "IAP", "OTA", "none"}
  /\ pc \in {"reset", "app", "leaving", "iap", "marking", "ending"}
  /\ sftrst \in BOOLEAN
  /\ crashes \in 0 .. MaxCrash
  /\ SessionTypeOK

Init ==
  /\ \E v \in Versions : image = Complete(v)
  /\ imageFlag = "none"
  /\ pc = "reset"
  /\ sftrst = FALSE
  /\ crashes = 0
  /\ SessionInit

-----------------------------------------------------------------------------
(* The bootloader's main and the application's request. *)

(* Mutants: only an erase keeps the bootloader; only a request does. *)
MutStays == imageFlag = "IAP"
MutStaysOnRequest == imageFlag = "OTA" /\ sftrst

(* A software reset after the application's request does not jump back to it. *)
Stays == imageFlag = "IAP" \/ (imageFlag = "OTA" /\ sftrst)

Boot ==
  /\ pc = "reset"
  /\ pc' = IF Stays THEN "iap" ELSE "app"
  /\ UNCHANGED <<image, imageFlag, sftrst, crashes, session>>

(* The user wants another version: Jump_OTA erases the flag page, ... *)
JumpOta ==
  /\ pc = "app"
  /\ host = "idle" /\ image # Complete(want)
  /\ imageFlag' = "none"
  /\ pc' = "leaving"
  /\ UNCHANGED <<image, sftrst, crashes, session>>

(* ... programs it and resets. *)
JumpOtaReset ==
  /\ pc = "leaving"
  /\ imageFlag' = "OTA"
  /\ pc' = "reset"
  /\ sftrst' = TRUE
  /\ UNCHANGED <<image, crashes, session>>

-----------------------------------------------------------------------------
(* The command session. *)

InIap(A) == pc = "iap" /\ A /\ UNCHANGED boot

(* Mutant: ERASE leaves the flag alone. *)
MutEraseCommand == InIap(Erase)

(* ERASE of a good range: SwitchImageFlag(IMAGE_IAP_FLAG), then the event. *)
EraseCommand ==
  /\ pc = "iap"
  /\ Erase
  /\ imageFlag' = "none"
  /\ pc' = "marking"
  /\ UNCHANGED <<sftrst, crashes>>

EraseMarked ==
  /\ pc = "marking"
  /\ imageFlag' = "IAP"
  /\ pc' = "iap"
  /\ UNCHANGED <<image, sftrst, crashes, session>>

(* END: SwitchImageFlag(IMAGE_A_FLAG), then the jump to the application. *)
End ==
  /\ pc = "iap"
  /\ EndCommand
  /\ imageFlag' = "none"
  /\ pc' = "ending"
  /\ UNCHANGED <<image, sftrst, crashes>>

EndJump ==
  /\ pc = "ending"
  /\ imageFlag' = "A"
  /\ pc' = "app"
  /\ RamReset
  /\ UNCHANGED <<image, sftrst, crashes>>

IapCommand == InIap(Commands) \/ EraseCommand \/ End

-----------------------------------------------------------------------------
(* Power fails, or the reset button is pressed, which leaves RCC_FLAG_SFTRST. *)

(* The block being erased or the page being programmed may be torn. *)
CutShort ==
  LET block == {EraseBlockCnt} \cap BlockIx
      page == IF prom_addr < AllPages THEN {prom_addr} ELSE {}
  IN {image}
     \cup {[image EXCEPT ![b] = TornBlock] : b \in IF eraseEvt THEN block ELSE {}}
     \cup {[image EXCEPT ![a \div Pages][a % Pages] = Torn] :
             a \in IF host \in {"prom", "verify"} THEN page ELSE {}}

PowerFail ==
  /\ crashes < MaxCrash
  /\ pc = "marking" => CutsRepeated \/ IsComplete(image)
  /\ crashes' = crashes + 1
  /\ image' \in IF pc = "iap" THEN CutShort ELSE {image}
  /\ sftrst' \in {FALSE, sftrst}
  /\ pc' = "reset"
  /\ RamReset
  /\ UNCHANGED imageFlag

Next ==
  \/ Boot \/ JumpOta \/ JumpOtaReset
  \/ IapCommand \/ EraseMarked \/ EndJump
  \/ InIap(EraseEvent) \/ InIap(EraseFails)
  \/ InIap(Start) \/ InIap(ReadReply) \/ InIap(Drop)
  \/ PowerFail

Spec == Init /\ [][Next]_vars

(* The processor goes on with what it began, the scheduler serves commands *)
(* and the erase event, and the user and the host go on with the upgrade.  *)
FairSpec ==
  /\ Spec
  /\ WF_vars(Boot \/ JumpOtaReset \/ EraseMarked \/ EndJump)
  /\ WF_vars(JumpOta \/ IapCommand \/ InIap(Start) \/ InIap(ReadReply))
  /\ WF_vars(InIap(EraseEvent))

-----------------------------------------------------------------------------
(* Properties. *)

(* Whenever the next boot would jump to the application there is a complete  *)
(* one: from before the first block is erased until after the last page is   *)
(* verified the flag says IAP, through abandoned downloads and power failures. *)
FlagTellsImage == (pc # "marking" /\ imageFlag # "IAP") => IsComplete(image)

(* The processor runs only a complete application. *)
RunsCompleteImage == pc \in {"app", "leaving", "ending"} => IsComplete(image)

(* The version the user wants runs in the end. *)
UpdateArrives == <>[](pc = "app" /\ image = Complete(want))

=============================================================================

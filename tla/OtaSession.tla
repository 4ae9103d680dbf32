----------------------------- MODULE OtaSession -----------------------------
(***************************************************************************)
(* A firmware download to BLE/BackupUpgrade_OTA, and the reboot that         *)
(* installs it: the command session of IapSession on image B, composed with  *)
(* the bootloader of BackupBoot.  Power may fail anywhere.                   *)
(***************************************************************************)
EXTENDS IapSession

CONSTANT MaxCrash  \* bound on power failures

ASSUME CrashAssumption == MaxCrash \in Nat
ASSUME AnswerAssumption == PromReplies = {"ok"}  \* whatever a program was, it replies 0

VARIABLES imageA, imageFlag, pc, i, page_count, flash_Data, crashes

B == INSTANCE BackupBoot WITH imageB <- image

boot == <<imageA, imageFlag, pc, i, page_count, flash_Data, crashes>>
allVars == <<boot, image, session>>

OtaInit == B!Init /\ SessionInit

(* The application runs and serves a command or the erase event. *)
InApp(A) == pc = "app" /\ A /\ UNCHANGED boot

(* CMD_IAP_END: SwitchImageFlag erases the flag page. *)
EndFlash ==
  /\ pc = "app"
  /\ imageFlag' = "none"
  /\ pc' = "ending"
  /\ UNCHANGED <<imageA, i, page_count, flash_Data, crashes>>

AppEnd == EndCommand /\ EndFlash
AppCommand == InApp(Commands) \/ InApp(Erase) \/ AppEnd
AppEraseEvent == InApp(EraseEvent)
AppEraseFails == InApp(EraseFails)

(* A user who sees that another version runs starts a download. *)
HostStart == InApp(Start) /\ imageA # Complete(want)
HostReads == InApp(ReadReply)
LinkDrops == InApp(Drop)

(* The bootloader; a reset clears RAM and ends the link. *)
OtaBoot == B!Bootloader /\ UNCHANGED session
OtaReset == B!EndReset /\ RamReset
OtaPowerFail == B!PowerFail /\ RamReset

OtaNext ==
  \/ AppCommand \/ AppEraseEvent \/ AppEraseFails
  \/ HostStart \/ HostReads \/ LinkDrops
  \/ OtaBoot \/ OtaReset \/ OtaPowerFail

OtaSpec == OtaInit /\ [][OtaNext]_allVars

(* The scheduler goes on serving commands and the erase event, the host goes *)
(* on with its session, and the bootloader with its work.                    *)
FairOta ==
  /\ OtaSpec
  /\ WF_allVars(HostStart \/ HostReads \/ AppCommand)
  /\ WF_allVars(AppEraseEvent)
  /\ WF_allVars(OtaBoot)
  /\ WF_allVars(OtaReset)

-----------------------------------------------------------------------------
(* Properties, besides those IapSession states of the session. *)

(* The session and the bootloader together implement BackupBoot: the flash   *)
(* changes only as it says, and END comes only when image B is complete.     *)
IsBackupBoot == B!Spec

(* The version the host wants runs in the end: a download spoilt by an       *)
(* abandoned one is found out, and the next one is not spoilt.               *)
UpdateArrives == <>[](pc = "app" /\ imageA = Complete(want))

=============================================================================

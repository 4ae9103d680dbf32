-------------------------- MODULE OnlyUpdate_proofs --------------------------
(***************************************************************************)
(* Proofs about the upgrade in place, for images of any size, any number of *)
(* power failures, resets, dropped links and failing erases.                *)
(*                                                                          *)
(* The flag says IAP from before the first block is erased: until then the  *)
(* session is Untouched, it has no erase event, no reply that would make the *)
(* host send data, and has sent none.  This needs the power not to fail     *)
(* between the two steps of the flag switch while the image is incomplete    *)
(* (CutsRepeated = FALSE).                                                  *)
(***************************************************************************)
EXTENDS OnlyUpdate, IapSession_proofs

BootType ==
  /\ imageFlag \in {"A", "IAP", "OTA", "none"}
  /\ pc \in {"reset", "app", "leaving", "iap", "marking", "ending"}
  /\ sftrst \in BOOLEAN
  /\ crashes \in 0..MaxCrash

TypeInv == SessionInv /\ BootType

\* Nothing in the session can change the image.
Untouched ==
  ~eraseEvt /\ reply # "ok" /\ host \in {"idle", "unknown", "info", "erase"}

FlagInv ==
  /\ FlagTellsImage /\ RunsCompleteImage
  /\ pc \in {"reset", "app", "leaving"} => Untouched
  /\ pc = "iap" /\ imageFlag # "IAP" => Untouched

LEMMA OnlyInit == Init => TypeInv /\ FlagInv
<1> SUFFICES ASSUME Init PROVE TypeInv /\ FlagInv
  OBVIOUS
<1>1. PICK v \in Versions : image = Complete(v)
  BY DEF Init
<1>2. image \in Image
  BY <1>1 DEF Complete, Image, Block, Content
<1>3. SessionInv
  BY <1>2, SessionStarts DEF Init
<1>4. BootType
  <2>1. MaxCrash \in Nat
    BY CrashAssumption
  <2>2. imageFlag = "none" /\ pc = "reset" /\ crashes = 0 /\ sftrst = FALSE
    BY DEF Init
  <2>3. sftrst \in BOOLEAN
    BY <2>2
  <2>4. crashes \in 0..MaxCrash
    BY <2>1, <2>2
  <2> QED BY <2>2, <2>3, <2>4 DEF BootType
<1>5. FlagInv
  BY DEF Init, FlagInv, FlagTellsImage, RunsCompleteImage, IsComplete, Untouched, SessionInit
<1> QED BY <1>3, <1>4, <1>5 DEF TypeInv

\* What power cut short is still an image.
LEMMA CutShortType == ASSUME SessionInv PROVE CutShort \subseteq Image
<1>1. TornBlock \in Block /\ Torn \in Content /\ image \in Image
  BY DEF TornBlock, Block, Content, SessionInv
<1>2. ASSUME NEW b PROVE [image EXCEPT ![b] = TornBlock] \in Image
  BY <1>1, SessionBlockWrite
<1>3. ASSUME NEW a \in 0..AllPages - 1
      PROVE  [image EXCEPT ![a \div Pages][a % Pages] = Torn] \in Image
  <2>1. a \div Pages \in BlockIx /\ a % Pages \in PageIx
    BY AddrRange
  <2> DEFINE b == a \div Pages
             p == a % Pages
  <2> HIDE DEF b, p
  <2>2. [image EXCEPT ![b][p] = Torn] \in Image
    BY <1>1, <2>1, SessionPageWrite DEF b, p
  <2> QED BY <2>2 DEF b, p
<1>4. prom_addr < AllPages => prom_addr \in 0..AllPages - 1
  BY PageCount DEF SessionInv, SessionTypeOK, NoAddr
<1> DEFINE block == {EraseBlockCnt} \cap BlockIx
           page == IF prom_addr < AllPages THEN {prom_addr} ELSE {}
           blocks == IF eraseEvt THEN block ELSE {}
           addrs == IF host \in {"prom", "verify"} THEN page ELSE {}
<1>5. \A a \in addrs : a \in 0..AllPages - 1
  BY <1>4
<1> HIDE DEF blocks, addrs
<1>6. CutShort = {image} \cup {[image EXCEPT ![b] = TornBlock] : b \in blocks}
                 \cup {[image EXCEPT ![a \div Pages][a % Pages] = Torn] : a \in addrs}
  BY DEF CutShort, blocks, addrs
<1> QED BY <1>1, <1>2, <1>3, <1>5, <1>6

LEMMA CutShortUntouched == Untouched => CutShort = {image}
BY DEF Untouched, CutShort

LEMMA PowerFailStep == TypeInv /\ PowerFail => TypeInv'
<1> SUFFICES ASSUME TypeInv, PowerFail PROVE TypeInv'
  OBVIOUS
<1>1. image' \in Image
  BY CutShortType DEF PowerFail, TypeInv, SessionInv
<1>2. SessionInv'
  BY <1>1, ResetKeeps DEF PowerFail, TypeInv
<1>3. crashes' \in 0..MaxCrash
  BY CrashAssumption DEF PowerFail, TypeInv, BootType
<1> QED BY <1>2, <1>3 DEF PowerFail, TypeInv, BootType

\* A step of the session in the bootloader.
SessionStep == Commands \/ EraseEvent \/ EraseFails \/ Start \/ ReadReply \/ Drop

LEMMA SessionStepKeeps == SessionInv /\ SessionStep => SessionInv'
BY CommandsKeep, EraseEventKeeps, EraseFailsKeeps, StartKeeps, ReadReplyKeeps, DropKeeps DEF SessionStep

LEMMA TypeStep == TypeInv /\ [Next]_vars => TypeInv'
<1> SUFFICES ASSUME TypeInv, [Next]_vars PROVE TypeInv'
  OBVIOUS
<1>1. CASE Boot \/ JumpOta \/ JumpOtaReset \/ EraseMarked \/ UNCHANGED vars
  <2>1. SessionInv'
    BY <1>1, SessionStutters DEF Boot, JumpOta, JumpOtaReset, EraseMarked, vars, TypeInv
  <2>2. BootType'
    BY <1>1 DEF Boot, JumpOta, JumpOtaReset, EraseMarked, vars, boot, TypeInv, BootType
  <2> QED BY <2>1, <2>2 DEF TypeInv
<1>2. CASE EraseCommand \/ End
  <2>1. SessionInv'
    BY <1>2, EraseKeeps, EndKeeps DEF EraseCommand, End, TypeInv
  <2>2. BootType'
    BY <1>2 DEF EraseCommand, End, TypeInv, BootType
  <2> QED BY <2>1, <2>2 DEF TypeInv
<1>3. CASE EndJump
  <2>1. SessionInv'
    BY <1>3, ResetKeeps DEF EndJump, TypeInv, SessionInv
  <2>2. BootType'
    BY <1>3 DEF EndJump, TypeInv, BootType
  <2> QED BY <2>1, <2>2 DEF TypeInv
<1>4. CASE InIap(SessionStep)
  <2>1. SessionInv'
    BY <1>4, SessionStepKeeps DEF InIap, TypeInv
  <2>2. BootType'
    BY <1>4 DEF InIap, boot, TypeInv, BootType
  <2> QED BY <2>1, <2>2 DEF TypeInv
<1>5. InIap(Commands) \/ InIap(EraseEvent) \/ InIap(EraseFails) \/ InIap(Start) \/ InIap(ReadReply)
        \/ InIap(Drop) => InIap(SessionStep)
  BY DEF InIap, SessionStep
<1> QED BY <1>1, <1>2, <1>3, <1>4, <1>5, PowerFailStep DEF Next, IapCommand

\* Before an ERASE is accepted the session leaves the image alone and stays as it is.
LEMMA UntouchedStep ==
  ASSUME Untouched, SessionInv, SessionStep
  PROVE  image' = image /\ Untouched'
<1>1. host \in {"idle", "unknown", "info", "erase"} /\ ~eraseEvt /\ reply # "ok"
  BY DEF Untouched
<1>2. CASE Info \/ Unknown
  BY <1>1, <1>2 DEF Info, Unknown, Answer, Command, erasing, Untouched
<1>3. CASE EraseRefused
  BY <1>1, <1>3 DEF EraseRefused, Command, Untouched
<1>4. CASE Start \/ Drop
  BY <1>1, <1>4 DEF Start, Drop, device, erasing, Untouched
<1>5. CASE ReadReply
  BY <1>1, <1>5 DEF ReadReply, AfterReply, device, erasing, Untouched
<1>6. ~Prom /\ ~Verify /\ ~EraseEvent /\ ~EraseFails
  BY <1>1 DEF Prom, Verify, Command, EraseEvent, EraseFails
<1> QED BY <1>2, <1>3, <1>4, <1>5, <1>6 DEF SessionStep, Commands

LEMMA FlagStep ==
  ASSUME CutsRepeated = FALSE
  PROVE  TypeInv /\ FlagInv /\ [Next]_vars => FlagInv'
<1> SUFFICES ASSUME TypeInv, FlagInv, [Next]_vars PROVE FlagInv'
  OBVIOUS
<1> USE DEF FlagTellsImage, RunsCompleteImage
<1>1. CASE UNCHANGED vars
  BY <1>1 DEF vars, boot, session, device, erasing, hostVars, FlagInv, Untouched, IsComplete
<1>2. CASE Boot
  <2>1. UNCHANGED <<image, imageFlag, eraseEvt, reply, host>> /\ pc = "reset"
        /\ pc' \in {"iap", "app"} /\ (pc' = "app" => imageFlag # "IAP")
    BY <1>2 DEF Boot, Stays, session, device, erasing, hostVars
  <2> QED BY <2>1 DEF FlagInv, Untouched, IsComplete
<1>3. CASE JumpOta \/ JumpOtaReset
  <2>1. UNCHANGED <<image, eraseEvt, reply, host>> /\ pc \in {"app", "leaving"}
        /\ pc' \in {"leaving", "reset"} /\ imageFlag' # "IAP"
    BY <1>3 DEF JumpOta, JumpOtaReset, session, device, erasing, hostVars
  <2> QED BY <2>1 DEF FlagInv, Untouched, IsComplete
<1>4. CASE EraseCommand
  BY <1>4 DEF EraseCommand, FlagInv
<1>5. CASE EraseMarked
  BY <1>5 DEF EraseMarked, FlagInv
<1>6. CASE End
  <2>1. host = "end" /\ image' = image /\ pc' = "ending"
    BY <1>6 DEF End, EndCommand
  <2>2. IsComplete(image)
    BY <2>1, SessionInvCommits DEF TypeInv, SessionInv, SessionTypeOK, CommitsWhatWasSent, IsComplete
  <2> QED BY <2>1, <2>2 DEF FlagInv, IsComplete
<1>7. CASE EndJump
  <2>1. image' = image /\ pc = "ending" /\ pc' = "app"
    BY <1>7 DEF EndJump
  <2>2. Untouched'
    BY <1>7 DEF EndJump, RamReset, Untouched
  <2> QED BY <2>1, <2>2 DEF FlagInv, IsComplete
<1>8. CASE InIap(SessionStep)
  <2>1. pc = "iap" /\ SessionStep /\ UNCHANGED <<imageFlag, pc>>
    BY <1>8 DEF InIap, boot
  <2>2. CASE imageFlag = "IAP"
    BY <2>1, <2>2 DEF FlagInv
  <2>3. CASE imageFlag # "IAP"
    <3>1. image' = image /\ Untouched'
      BY <2>1, <2>3, UntouchedStep DEF FlagInv, TypeInv
    <3> QED BY <2>1, <2>3, <3>1 DEF FlagInv, IsComplete
  <2> QED BY <2>2, <2>3
<1>9. CASE PowerFail
  <2>1. /\ pc' = "reset" /\ imageFlag' = imageFlag
        /\ image' \in IF pc = "iap" THEN CutShort ELSE {image}
        /\ pc = "marking" => IsComplete(image)
    BY <1>9 DEF PowerFail
  <2>2. Untouched'
    BY <1>9 DEF PowerFail, RamReset, Untouched
  <2>3. imageFlag # "IAP" => IsComplete(image) /\ image' = image
    BY <2>1, CutShortUntouched DEF FlagInv
  <2> QED BY <2>1, <2>2, <2>3 DEF FlagInv, IsComplete
<1>10. InIap(Commands) \/ InIap(EraseEvent) \/ InIap(EraseFails) \/ InIap(Start) \/ InIap(ReadReply)
         \/ InIap(Drop) => InIap(SessionStep)
  BY DEF InIap, SessionStep
<1> QED BY <1>1, <1>2, <1>3, <1>4, <1>5, <1>6, <1>7, <1>8, <1>9, <1>10 DEF Next, IapCommand

LEMMA OnlyTypeInv == Spec => []TypeInv
<1>1. Init => TypeInv
  BY OnlyInit
<1> QED BY <1>1, TypeStep, PTL DEF Spec

\* Flash, flag and session are well typed in every reachable state: block_buf never holds a
\* page, an erase does not count past its end, whatever is refused, repeated or cut short.
THEOREM OnlyTypeCorrect == Spec => []TypeOK
<1>1. TypeInv => TypeOK
  BY DEF TypeInv, BootType, SessionInv, TypeOK
<1> QED BY <1>1, OnlyTypeInv, PTL

\* END commits exactly the version the host sent, complete, whatever abandoned sessions left behind.
THEOREM OnlyCommitsWhatWasSent == Spec => []CommitsWhatWasSent
<1>1. TypeInv => CommitsWhatWasSent
  BY SessionInvCommits DEF TypeInv
<1> QED BY <1>1, OnlyTypeInv, PTL

LEMMA DownloadStep == TypeInv /\ DownloadInv /\ [Next]_vars => DownloadInv'
<1> SUFFICES ASSUME TypeInv, DownloadInv, [Next]_vars PROVE DownloadInv'
  OBVIOUS
<1>1. CASE Boot \/ JumpOta \/ JumpOtaReset \/ EraseMarked \/ UNCHANGED vars
  BY <1>1, DownloadStutters DEF Boot, JumpOta, JumpOtaReset, EraseMarked, vars
<1>2. CASE EraseCommand \/ End
  BY <1>2, EraseDownloads, OtherDownloads DEF EraseCommand, End, TypeInv
<1>3. CASE EndJump \/ PowerFail
  BY <1>3, ResetDownloads DEF EndJump, PowerFail
<1>4. CASE InIap(Commands)
  BY <1>4, CommandsDownload DEF InIap, TypeInv
<1>5. CASE InIap(EraseEvent)
  BY <1>5, EraseEventDownloads DEF InIap, TypeInv
<1>6. CASE InIap(EraseFails) \/ InIap(Start) \/ InIap(Drop)
  BY <1>6, OtherDownloads DEF InIap, TypeInv
<1>7. CASE InIap(ReadReply)
  BY <1>7, ReadReplyDownloads DEF InIap, TypeInv
<1> QED BY <1>1, <1>2, <1>3, <1>4, <1>5, <1>6, <1>7 DEF Next, IapCommand

LEMMA OnlyDownloadInv == Spec => [](TypeInv /\ DownloadInv)
<1>1. Init => DownloadInv
  BY DownloadStarts DEF Init
<1>2. Init => TypeInv
  BY OnlyInit
<1> QED BY <1>1, <1>2, TypeStep, DownloadStep, PTL DEF Spec

\* A download in place that began with an empty buffer verifies, unless flash failed.
THEOREM OnlyCleanDownloadVerifies == Spec => []CleanDownloadVerifies
<1>1. DownloadInv => CleanDownloadVerifies
  BY DownloadInvVerifies
<1> QED BY <1>1, OnlyDownloadInv, PTL

\* When the last PROM of such a download was answered, all that was sent is in flash or in block_buf.
THEOREM OnlyNothingMissing == Spec => []NothingMissing
<1>1. TypeInv /\ DownloadInv => NothingMissing
  BY DownloadInvComplete DEF TypeInv
<1> QED BY <1>1, OnlyDownloadInv, PTL

\* The next boot jumps to the application only when it is complete, unless power fails in the flag
\* switch of a repeated ERASE.
THEOREM FlagAlwaysTellsImage ==
  ASSUME CutsRepeated = FALSE
  PROVE  Spec => []FlagTellsImage
<1>1. TypeInv /\ FlagInv /\ [Next]_vars => FlagInv'
  BY FlagStep
<1>2. FlagInv => FlagTellsImage
  BY DEF FlagInv
<1> QED BY <1>1, <1>2, OnlyInit, OnlyTypeInv, PTL DEF Spec

\* The processor runs complete applications only, under the same condition.
THEOREM OnlyRunsCompleteImage ==
  ASSUME CutsRepeated = FALSE
  PROVE  Spec => []RunsCompleteImage
<1>1. TypeInv /\ FlagInv /\ [Next]_vars => FlagInv'
  BY FlagStep
<1>2. FlagInv => RunsCompleteImage
  BY DEF FlagInv
<1> QED BY <1>1, <1>2, OnlyInit, OnlyTypeInv, PTL DEF Spec
=============================================================================

--------------------------- MODULE CdcDown_proofs ---------------------------
(***************************************************************************)
(* Proofs about CdcDown, for every ring size, packet size and set of       *)
(* packet lengths: the type invariant without further assumption; the ring,*)
(* flow control and ordering invariants, and the refinement of OrderedPipe,*)
(* for a host that resets the bridge at safe points only and clears a halt *)
(* at most twice.                                                          *)
(***************************************************************************)
EXTENDS CdcDown, TLAPS

\* Slot s lies in the part of the ring that waits to be sent.
Occupied(s) == IF s >= Tx_DealNum THEN s - Tx_DealNum < Tx_RemainNum
                                  ELSE s + NumMax - Tx_DealNum < Tx_RemainNum

\* Occupancy is bounded while the endpoint accepts data.
FlowInv ==
  /\ clears <= MaxClear
  /\ USB_Down_StopFlag = 0 => Tx_RemainNum < NumMax - 2
  /\ USB_Down_StopFlag = 1 => Tx_RemainNum <= NumMax - 2 + clears
  /\ USB_Down_StopFlag = 1 /\ UEP2_RX = "ACK" => Tx_RemainNum <= NumMax - 3 + clears
  /\ NakHasStopFlag

\* The packets in the ring are consecutive pieces of the accepted stream.
ChainInv ==
  /\ Tx_RemainNum = 0 => delivered = accepted
  /\ \A s \in Slots : Occupied(s) =>
       /\ base[s] + Tx_PackLen[s] <= accepted
       /\ IF NextSlot(s) = Tx_LoadNum
            THEN base[s] + Tx_PackLen[s] = accepted
            ELSE base[NextSlot(s)] = base[s] + Tx_PackLen[s]

\* The main loop is between starting a transfer and charging it.
Sending == \/ pc \in {"tc", "account", "started"}
           \/ pc = "flag" /\ Tx_Flag = 1

\* The rest of the packet at the head of the ring, from ptrOff on, is unsent.
Cut == /\ Tx_RemainNum > 0 /\ ptrSlot = Tx_DealNum
       /\ ptrOff + Tx_CurPackLen = Tx_PackLen[Tx_DealNum]

LoopInv ==
  /\ pc \in {"load", "arm", "account", "started"} => Tx_Flag = 0
  /\ pc = "tc" => Tx_Flag = 1
  /\ pc \in {"load", "arm"} => Tx_RemainNum > 0
  /\ pc = "account" => dmaReq = 0
  /\ Sending => /\ Cut /\ dmaSlot = Tx_DealNum
                /\ CNTR <= Tx_CurPackLen
                /\ dmaOff = ptrOff + Tx_CurPackLen - CNTR
                /\ delivered = base[Tx_DealNum] + dmaOff
  /\ ~Sending =>
       /\ dmaReq = 1 => CNTR = 0
       /\ pc = "arm" \/ Tx_CurPackLen # 0 =>
            Cut /\ delivered = base[Tx_DealNum] + ptrOff
       /\ pc # "arm" /\ Tx_CurPackLen = 0 /\ Tx_RemainNum > 0 =>
            delivered = base[Tx_DealNum]

SafeInv == RingConsistent /\ FlowInv /\ ChainInv /\ LoopInv

USE NumMaxAssumption, PackSizeAssumption, WidthAssumption, OutLensAssumption,
    BoundAssumption

-----------------------------------------------------------------------------
(* Type correctness.                                                       *)

LEMMA NextSlotType == ASSUME NEW s \in Slots PROVE NextSlot(s) \in Slots
  BY DEF Slots, NextSlot

LEMMA TypeInit == Init => TypeOK
  BY DEF Init, TypeOK, Bit, Slots, U16

LEMMA TypeMainLoop == TypeOK /\ MainLoop => TypeOK'
<1> SUFFICES ASSUME TypeOK, MainLoop PROVE TypeOK'
  OBVIOUS
<1> USE DEF TypeOK, Bit, ringVars, usbVars, dmaVars, lineVars, pipeVars, envVars
<1>1. CASE PollFlag            BY <1>1 DEF PollFlag
<1>2. CASE TransmissionPending BY <1>2 DEF TransmissionPending
<1>3. CASE TransmissionComplete BY <1>3 DEF TransmissionComplete
<1>4. CASE Account
  <2>1. Tx_DealNum' \in Slots
    BY <1>4, NextSlotType DEF Account
  <2>2. Tx_RemainNum' \in U16 /\ ptrOff' \in U16
    BY <1>4 DEF Account, U16, Wrap
  <2>3. Tx_PackLen' \in [Slots -> 0..PackSize]
    BY <1>4 DEF Account
  <2> QED BY <1>4, <2>1, <2>2, <2>3 DEF Account
<1>5. CASE PollIdle   BY <1>5 DEF PollIdle, vars, loopVars
<1>6. CASE PollRemain BY <1>6 DEF PollRemain
<1>7. CASE LoadPacket
  <2>1. Tx_PackLen[Tx_DealNum] \in 0..PackSize
    OBVIOUS
  <2> QED BY <1>7, <2>1 DEF LoadPacket, NeedsLoad, U16
<1>8. CASE ArmDma     BY <1>8 DEF ArmDma, U16
<1>9. CASE SetFlag    BY <1>9 DEF SetFlag
<1> QED BY <1>1, <1>2, <1>3, <1>4, <1>5, <1>6, <1>7, <1>8, <1>9 DEF MainLoop

LEMMA TypeHardware == TypeOK /\ Hardware => TypeOK'
<1> SUFFICES ASSUME TypeOK, Hardware PROVE TypeOK'
  OBVIOUS
<1> USE DEF TypeOK, Bit, loopVars, ringVars, usbVars, dmaVars, pipeVars, envVars
<1>1. CASE DmaByte   BY <1>1 DEF DmaByte
<1>2. CASE FrameDone BY <1>2 DEF FrameDone
<1> QED BY <1>1, <1>2 DEF Hardware

LEMMA TypeHost == TypeOK /\ Host => TypeOK'
<1> SUFFICES ASSUME TypeOK, Host PROVE TypeOK'
  OBVIOUS
<1> USE DEF TypeOK, Bit, loopVars, ringVars, dmaVars, lineVars, pipeVars, envVars
<1>1. ASSUME NEW n \in OutLens, OutPacket(n) PROVE TypeOK'
  <2>1. Tx_LoadNum' \in Slots /\ UEP2_DMA' \in Slots
    BY <1>1, NextSlotType DEF OutPacket
  <2>2. Tx_RemainNum' \in U16 /\ accepted' \in Nat
    BY <1>1 DEF OutPacket, U16, Wrap
  <2>3. base' \in [Slots -> Nat] /\ Tx_PackLen' \in [Slots -> 0..PackSize]
    BY <1>1 DEF OutPacket
  <2> QED BY <1>1, <2>1, <2>2, <2>3 DEF OutPacket
<1>2. CASE SetLineCoding
  BY <1>2 DEF SetLineCoding, ParaInit, RestartRing, RestartEndpoint, Slots, U16
<1>3. CASE BusReset
  BY <1>3 DEF BusReset, ParaInit, RestartRing, RestartEndpoint, Slots, U16
<1>4. CASE SetHalt   BY <1>4 DEF SetHalt
<1>5. CASE ClearHalt BY <1>5 DEF ClearHalt
<1> QED BY <1>1, <1>2, <1>3, <1>4, <1>5 DEF Host

\* Every variable of the direction stays within its declared width and range,
\* also when the host resets the bridge at the worst moment.
THEOREM TypeCorrect == Spec => []TypeOK
<1>1. TypeOK /\ [Next]_vars => TypeOK'
  <2> SUFFICES ASSUME TypeOK, [Next]_vars PROVE TypeOK'
    OBVIOUS
  <2>1. CASE UNCHANGED vars
    BY <2>1 DEF TypeOK, vars, loopVars, ringVars, usbVars, dmaVars, lineVars,
                pipeVars, envVars
  <2> QED BY <2>1, TypeMainLoop, TypeHardware, TypeHost DEF Next
<1> QED BY TypeInit, <1>1, PTL DEF Spec

-----------------------------------------------------------------------------
(* Steps that leave the ring alone: only LoopInv has to be looked at.      *)

Untouched == UNCHANGED <<ringVars, usbVars, accepted, clears>>

LEMMA RingUntouched ==
  ASSUME TypeOK, RingConsistent, FlowInv, Untouched
  PROVE  RingConsistent' /\ FlowInv'
  BY DEF RingConsistent, FlowInv, NakHasStopFlag, Untouched, ringVars, usbVars

LEMMA ChainUntouched ==
  ASSUME ChainInv, Untouched, Tx_RemainNum = 0 => UNCHANGED delivered
  PROVE  ChainInv'
  BY DEF ChainInv, Occupied, NextSlot, Untouched, ringVars, usbVars

LEMMA LoopQuietSteps ==
  ASSUME TypeOK, SafeInv,
         \/ PollFlag \/ TransmissionPending \/ TransmissionComplete
         \/ PollIdle \/ PollRemain \/ SetFlag \/ FrameDone
  PROVE  SafeInv'
<1> USE DEF ringVars, usbVars, dmaVars, lineVars, pipeVars, envVars
<1>1. Untouched /\ UNCHANGED delivered
  BY DEF PollFlag, TransmissionPending, TransmissionComplete, PollIdle,
         PollRemain, SetFlag, FrameDone, Untouched, vars
<1>2. LoopInv'
  <2> USE DEF SafeInv, LoopInv, Sending, Cut, TypeOK, Bit, U16
  <2>1. CASE PollFlag            BY <2>1 DEF PollFlag
  <2>2. CASE TransmissionPending BY <2>2 DEF TransmissionPending
  <2>3. CASE TransmissionComplete BY <2>3 DEF TransmissionComplete
  <2>4. CASE PollIdle            BY <2>4 DEF PollIdle, vars, loopVars
  <2>5. CASE PollRemain          BY <2>5 DEF PollRemain, PacketWaits
  <2>6. CASE SetFlag             BY <2>6 DEF SetFlag
  <2>7. CASE FrameDone           BY <2>7 DEF FrameDone, loopVars
  <2> QED BY <2>1, <2>2, <2>3, <2>4, <2>5, <2>6, <2>7
<1> QED BY <1>1, <1>2, RingUntouched, ChainUntouched DEF SafeInv

LEMMA LoadPacketStep == ASSUME TypeOK, SafeInv, LoadPacket PROVE SafeInv'
<1> USE DEF ringVars, usbVars, dmaVars, lineVars, pipeVars, envVars
<1>1. Untouched /\ UNCHANGED delivered
  BY DEF LoadPacket, Untouched
<1>2. Tx_PackLen[Tx_DealNum] \in 0..PackSize
  BY DEF TypeOK
<1>3. LoopInv'
  BY <1>2 DEF LoadPacket, NeedsLoad, SafeInv, LoopInv, Sending, Cut, TypeOK, Bit, U16
<1> QED BY <1>1, <1>3, RingUntouched, ChainUntouched DEF SafeInv

LEMMA ArmDmaStep == ASSUME TypeOK, SafeInv, ArmDma PROVE SafeInv'
<1> USE DEF ringVars, usbVars, dmaVars, lineVars, pipeVars, envVars
<1>1. Untouched /\ UNCHANGED delivered
  BY DEF ArmDma, Untouched
<1>2. LoopInv'
  BY DEF ArmDma, SafeInv, LoopInv, Sending, Cut, TypeOK, Bit, U16
<1> QED BY <1>1, <1>2, RingUntouched, ChainUntouched DEF SafeInv

LEMMA DmaByteStep == ASSUME TypeOK, SafeInv, DmaByte PROVE SafeInv'
<1> USE DEF loopVars, ringVars, usbVars, envVars
<1>1. Untouched
  BY DEF DmaByte, Untouched
<1>2. Sending /\ Tx_RemainNum > 0
  BY DEF DmaByte, SafeInv, LoopInv, Cut
<1>3. LoopInv'
  BY <1>2 DEF DmaByte, SafeInv, LoopInv, Sending, Cut, TypeOK, Bit, U16
<1> QED BY <1>1, <1>2, <1>3, RingUntouched, ChainUntouched DEF SafeInv

-----------------------------------------------------------------------------
(* Charging a transfer: the head packet is cut short, or its slot released.*)

LEMMA CutStep ==
  ASSUME TypeOK, SafeInv, Account, CNTR # 0
  PROVE  SafeInv'
<1> USE DEF Account, PacketDone, dmaVars, lineVars, pipeVars, envVars
<1>1. UNCHANGED <<Tx_LoadNum, Tx_DealNum, Tx_RemainNum, Tx_PackLen, base, accepted,
                  delivered, UEP2_DMA, clears>>
  OBVIOUS
<1>2. RingConsistent' /\ ChainInv'
  BY <1>1 DEF SafeInv, RingConsistent, ChainInv, Occupied, NextSlot
<1>3. FlowInv'
  BY DEF SafeInv, FlowInv, NakHasStopFlag, ResumeAt, TypeOK, U16
<1>4. LoopInv'
  BY DEF SafeInv, LoopInv, Sending, Cut, Wrap, TypeOK, Bit, U16
<1> QED BY <1>2, <1>3, <1>4 DEF SafeInv

LEMMA ReleaseStep ==
  ASSUME TypeOK, SafeInv, Account, CNTR = 0, MaxClear <= 2
  PROVE  SafeInv'
<1> USE DEF Account, PacketDone, dmaVars, lineVars, pipeVars, envVars
<1>1. /\ Tx_RemainNum \in 1..NumMax /\ Tx_RemainNum' = Tx_RemainNum - 1
      /\ Tx_DealNum' = NextSlot(Tx_DealNum)
      /\ delivered = base[Tx_DealNum] + Tx_PackLen[Tx_DealNum]
      /\ UNCHANGED <<Tx_LoadNum, base, accepted, delivered, UEP2_DMA, clears>>
  BY DEF SafeInv, RingConsistent, LoopInv, Sending, Cut, Wrap, TypeOK, U16
<1>2. RingConsistent'
  BY <1>1, SMTT(30) DEF SafeInv, RingConsistent, NextSlot, TypeOK, Slots
<1>3. FlowInv'
  BY <1>1 DEF SafeInv, FlowInv, NakHasStopFlag, ResumeAt, TypeOK, U16
<1>4. Occupied(Tx_DealNum)
  BY <1>1 DEF Occupied, TypeOK, Slots
<1>5. \/ NextSlot(Tx_DealNum) = Tx_LoadNum /\ delivered = accepted
      \/ delivered = base[NextSlot(Tx_DealNum)]
  BY <1>1, <1>4 DEF SafeInv, ChainInv, TypeOK
<1>6. Tx_RemainNum' = 0 <=> Tx_RemainNum = 1
  BY <1>1
<1>7. Tx_RemainNum = 1 => NextSlot(Tx_DealNum) = Tx_LoadNum
  BY <1>1 DEF SafeInv, RingConsistent, NextSlot, TypeOK, Slots
<1>8. Tx_RemainNum # 1 => NextSlot(Tx_DealNum) # Tx_LoadNum
  BY <1>1, SMTT(30) DEF SafeInv, RingConsistent, NextSlot, TypeOK, Slots
<1>9. ASSUME NEW s \in Slots, Occupied(s)'
      PROVE  Occupied(s) /\ Tx_PackLen'[s] = Tx_PackLen[s]
  <2> HIDE DEF Account
  <2>1. Tx_DealNum' \in Slots /\ Tx_DealNum \in Slots
    BY <1>1, NextSlotType DEF TypeOK
  <2>2. s # Tx_DealNum /\ Occupied(s)
    BY <1>1, <1>9, <2>1 DEF Occupied, NextSlot, Slots
  <2>3. Tx_PackLen' = [Tx_PackLen EXCEPT ![Tx_DealNum] = 0]
    BY DEF Account
  <2> QED BY <2>2, <2>3 DEF TypeOK
<1>10. ChainInv'
  <2>1. Tx_RemainNum' = 0 => delivered' = accepted'
    BY <1>1, <1>4, <1>6, <1>7 DEF SafeInv, ChainInv, TypeOK
  <2>2. ASSUME NEW s \in Slots, Occupied(s)'
        PROVE  /\ base'[s] + Tx_PackLen'[s] <= accepted'
               /\ IF NextSlot(s) = Tx_LoadNum'
                    THEN base'[s] + Tx_PackLen'[s] = accepted'
                    ELSE base'[NextSlot(s)] = base'[s] + Tx_PackLen'[s]
    BY <1>1, <1>9, <2>2 DEF SafeInv, ChainInv
  <2> QED BY <2>1, <2>2 DEF ChainInv, NextSlot
<1>11. LoopInv'
  BY <1>1, <1>5, <1>6, <1>8 DEF SafeInv, LoopInv, Sending, Cut, TypeOK, Bit, U16
<1> QED BY <1>2, <1>3, <1>10, <1>11 DEF SafeInv

-----------------------------------------------------------------------------
(* The USBFS interrupt.                                                    *)

LEMMA OutPacketStep ==
  ASSUME TypeOK, SafeInv, NEW n \in OutLens, OutPacket(n), MaxClear <= 2
  PROVE  SafeInv'
<1> USE DEF OutPacket, loopVars, dmaVars, lineVars, envVars
<1>1. Tx_RemainNum < NumMax
  BY DEF SafeInv, FlowInv, TypeOK, U16, Bit
<1>2. /\ Tx_RemainNum' = Tx_RemainNum + 1
      /\ n \in Nat /\ UEP2_DMA = Tx_LoadNum
      /\ Tx_LoadNum' = NextSlot(Tx_LoadNum) /\ UEP2_DMA' = Tx_LoadNum'
      /\ accepted' = accepted + n
      /\ UNCHANGED <<Tx_DealNum, delivered, clears>>
      /\ base' = [base EXCEPT ![Tx_LoadNum] = accepted]
      /\ Tx_PackLen' = [Tx_PackLen EXCEPT ![Tx_LoadNum] = n]
  BY <1>1 DEF SafeInv, RingConsistent, Wrap, TypeOK, U16
<1>3. RingConsistent'
  <2> HIDE DEF OutPacket
  <2>1. \/ Tx_LoadNum = Tx_DealNum + Tx_RemainNum
        \/ Tx_LoadNum = Tx_DealNum + Tx_RemainNum - NumMax
    BY DEF SafeInv, RingConsistent
  <2>2. /\ Tx_LoadNum \in Slots /\ Tx_DealNum \in Slots /\ Tx_RemainNum \in Nat
    BY DEF TypeOK, U16
  <2> QED BY <1>1, <1>2, <2>1, <2>2 DEF RingConsistent, NextSlot, Slots
<1>4. FlowInv'
  BY <1>1, <1>2 DEF SafeInv, FlowInv, NakHasStopFlag, StopAt, TypeOK, U16, Bit
<1>5. ~Occupied(Tx_LoadNum)
  BY <1>1 DEF SafeInv, RingConsistent, Occupied, TypeOK, Slots, U16
<1>6. NextSlot(Tx_LoadNum) # Tx_LoadNum
  BY DEF NextSlot, TypeOK, Slots
<1>7. ASSUME NEW s \in Slots, Occupied(s)', s # Tx_LoadNum PROVE Occupied(s)
  BY <1>1, <1>2, <1>7 DEF SafeInv, RingConsistent, Occupied, TypeOK, Slots, U16
<1>8. ASSUME NEW s \in Slots, Occupied(s) PROVE NextSlot(s) # NextSlot(Tx_LoadNum)
  BY <1>5, <1>8, SMTT(30) DEF NextSlot, TypeOK, Slots
<1>9. ChainInv'
  <2>1. Tx_RemainNum' # 0
    BY <1>2 DEF TypeOK, U16
  <2>2. ASSUME NEW s \in Slots, Occupied(s)'
        PROVE  /\ base'[s] + Tx_PackLen'[s] <= accepted'
               /\ IF NextSlot(s) = Tx_LoadNum'
                    THEN base'[s] + Tx_PackLen'[s] = accepted'
                    ELSE base'[NextSlot(s)] = base'[s] + Tx_PackLen'[s]
    <3>1. CASE s = Tx_LoadNum
      BY <1>2, <3>1 DEF TypeOK
    <3>2. CASE s # Tx_LoadNum
      <4>1. /\ base[s] + Tx_PackLen[s] <= accepted
            /\ IF NextSlot(s) = Tx_LoadNum
                 THEN base[s] + Tx_PackLen[s] = accepted
                 ELSE base[NextSlot(s)] = base[s] + Tx_PackLen[s]
        BY <1>7, <2>2, <3>2 DEF SafeInv, ChainInv
      <4>2. base'[s] = base[s] /\ Tx_PackLen'[s] = Tx_PackLen[s]
        BY <1>2, <3>2 DEF TypeOK
      <4>3. base'[NextSlot(s)] = IF NextSlot(s) = Tx_LoadNum THEN accepted
                                 ELSE base[NextSlot(s)]
        BY <1>2, NextSlotType DEF TypeOK
      <4>4. base[s] \in Nat /\ Tx_PackLen[s] \in Nat /\ accepted \in Nat
        BY DEF TypeOK
      <4>5. NextSlot(s) # Tx_LoadNum'
        BY <1>2, <1>7, <1>8, <2>2, <3>2
      <4> QED BY <1>2, <4>1, <4>2, <4>3, <4>4, <4>5
    <3> QED BY <3>1, <3>2
  <2> QED BY <2>1, <2>2 DEF ChainInv, NextSlot
<1>10. LoopInv'
  <2>1. CASE Tx_RemainNum = 0
    BY <1>2, <2>1 DEF SafeInv, RingConsistent, ChainInv, LoopInv, Sending, Cut,
                      TypeOK, Slots, U16, Bit
  <2>2. CASE Tx_RemainNum # 0
    <3>1. Tx_DealNum # Tx_LoadNum
      BY <1>1, <2>2 DEF SafeInv, RingConsistent, TypeOK, Slots, U16
    <3>2. base'[Tx_DealNum] = base[Tx_DealNum]
          /\ Tx_PackLen'[Tx_DealNum] = Tx_PackLen[Tx_DealNum]
      BY <1>2, <3>1 DEF TypeOK
    <3> QED BY <1>2, <2>2, <3>2 DEF SafeInv, LoopInv, Sending, Cut, TypeOK, U16, Bit
  <2> QED BY <2>1, <2>2
<1> QED BY <1>3, <1>4, <1>9, <1>10 DEF SafeInv

\* SET_LINE_CODING and a bus reset at a safe point empty the ring.
LEMMA ResetStep ==
  ASSUME TypeOK, SafeInv, Quiet, SetLineCoding \/ BusReset
  PROVE  SafeInv'
<1>1. /\ pc = "flag" /\ pc' = "flag" /\ CNTR' = 0
      /\ ParaInit /\ RestartRing /\ RestartEndpoint /\ clears' = clears
  BY DEF SetLineCoding, BusReset, InWindow, ParaInit, dmaVars, TypeOK
<1>2. RingConsistent' /\ FlowInv'
  BY <1>1 DEF ParaInit, RestartRing, RestartEndpoint, SafeInv, RingConsistent,
              FlowInv, NakHasStopFlag, TypeOK, U16
<1>3. ChainInv'
  BY <1>1 DEF ParaInit, RestartRing, ChainInv, Occupied, Slots
<1>4. LoopInv'
  BY <1>1 DEF ParaInit, RestartRing, LoopInv, Sending, Cut
<1> QED BY <1>2, <1>3, <1>4 DEF SafeInv

LEMMA HaltStep ==
  ASSUME TypeOK, SafeInv, SetHalt \/ ClearHalt
  PROVE  SafeInv'
<1> USE DEF SetHalt, ClearHalt, loopVars, ringVars, dmaVars, lineVars, pipeVars,
            envVars
<1>1. RingConsistent' /\ FlowInv'
  BY DEF SafeInv, RingConsistent, FlowInv, NakHasStopFlag, TypeOK, U16, Bit
<1>2. ChainInv'
  BY DEF SafeInv, ChainInv, Occupied, NextSlot
<1>3. LoopInv'
  BY DEF SafeInv, LoopInv, Sending, Cut
<1> QED BY <1>1, <1>2, <1>3 DEF SafeInv

-----------------------------------------------------------------------------
(* The theorems.                                                           *)

LEMMA SafeInit == Init => SafeInv
  BY DEF Init, SafeInv, RingConsistent, FlowInv, NakHasStopFlag, ChainInv,
         Occupied, LoopInv, Sending, Cut, Slots

LEMMA SafeStep ==
  ASSUME TypeOK, SafeInv, [Next]_vars, Quiet, MaxClear <= 2
  PROVE  SafeInv'
<1>1. CASE MainLoop
  BY <1>1, LoopQuietSteps, LoadPacketStep, ArmDmaStep, CutStep, ReleaseStep
     DEF MainLoop
<1>2. CASE Hardware
  BY <1>2, LoopQuietSteps, DmaByteStep DEF Hardware
<1>3. CASE Host
  BY <1>3, OutPacketStep, ResetStep, HaltStep DEF Host
<1>4. CASE UNCHANGED vars
  BY <1>4 DEF vars, loopVars, ringVars, usbVars, dmaVars, lineVars, pipeVars, envVars,
              SafeInv, RingConsistent, FlowInv, NakHasStopFlag, ChainInv, Occupied,
              NextSlot, LoopInv, Sending, Cut
<1> QED BY <1>1, <1>2, <1>3, <1>4 DEF Next

\* The strengthening: ring, occupancy, packet chain and transfer in progress.
THEOREM Inductive ==
  ASSUME Quiet, MaxClear <= 2
  PROVE  Spec => [](TypeOK /\ SafeInv)
<1>1. TypeOK /\ SafeInv /\ [Next]_vars => SafeInv'
  BY SafeStep
<1>2. Spec => []TypeOK
  BY TypeCorrect
<1> QED BY <1>1, <1>2, SafeInit, PTL DEF Spec

\* The endpoint's DMA slot and the three ring counters always agree.
THEOREM RingAgrees ==
  ASSUME Quiet, MaxClear <= 2
  PROVE  Spec => []RingConsistent
<1>1. TypeOK /\ SafeInv => RingConsistent
  BY DEF SafeInv
<1> QED BY <1>1, Inductive, PTL

\* An OUT packet never lands in a slot that still waits to be sent.
THEOREM RingNeverOverrun ==
  ASSUME Quiet, MaxClear <= 2
  PROVE  Spec => []NoOverrun
<1>1. TypeOK /\ SafeInv => NoOverrun
  BY DEF SafeInv, FlowInv, NoOverrun, TypeOK, U16, Bit
<1> QED BY <1>1, Inductive, PTL

\* An endpoint that refuses data will be restarted by the main loop.
THEOREM NakImpliesStop ==
  ASSUME Quiet, MaxClear <= 2
  PROVE  Spec => []NakHasStopFlag
<1>1. TypeOK /\ SafeInv => NakHasStopFlag
  BY DEF SafeInv, FlowInv
<1> QED BY <1>1, Inductive, PTL

LEMMA NextByte == ASSUME TypeOK, SafeInv PROVE InOrder
<1> SUFFICES ASSUME dmaReq = 1, CNTR > 0
             PROVE  base[dmaSlot] + dmaOff = delivered /\ delivered < accepted
  BY DEF InOrder
<1>1. /\ Tx_RemainNum > 0 /\ dmaSlot = Tx_DealNum
      /\ dmaOff < Tx_PackLen[Tx_DealNum]
      /\ delivered = base[Tx_DealNum] + dmaOff
  BY DEF SafeInv, LoopInv, Sending, Cut, TypeOK, U16
<1>2. base[Tx_DealNum] + Tx_PackLen[Tx_DealNum] <= accepted
  BY <1>1 DEF SafeInv, ChainInv, Occupied, TypeOK, Slots, U16
<1> QED BY <1>1, <1>2 DEF TypeOK

\* The transmit DMA always takes the oldest byte that has not been sent.
THEOREM BytesInOrder ==
  ASSUME Quiet, MaxClear <= 2
  PROVE  Spec => []InOrder
<1>1. TypeOK /\ SafeInv => InOrder
  BY NextByte
<1> QED BY <1>1, Inductive, PTL

\* A slot is released only when its last byte has been sent.
THEOREM SlotReleasedWhenSent ==
  ASSUME Quiet, MaxClear <= 2
  PROVE  Spec => ReleasedWhenSent
<1>1. TypeOK /\ SafeInv /\ [Next]_vars =>
        [Account /\ Tx_DealNum' # Tx_DealNum
         => delivered = base[Tx_DealNum] + Tx_PackLen[Tx_DealNum]]_vars
  BY DEF SafeInv, LoopInv, Sending, Cut, Account, PacketDone, TypeOK, U16
<1> QED BY <1>1, Inductive, PTL DEF Spec, ReleasedWhenSent

-----------------------------------------------------------------------------
(* Refinement.                                                             *)

LEMMA PipeStep ==
  ASSUME TypeOK, SafeInv, [Next]_vars
  PROVE  [Pipe!PipeNext]_(Pipe!pipeVars)
<1> USE DEF Pipe!PipeNext, Pipe!pipeVars, Pipe!Put, Pipe!Get, Pipe!Discard
<1>1. CASE DmaByte
  BY <1>1, NextByte DEF DmaByte, InOrder
<1>2. ASSUME NEW n \in OutLens, OutPacket(n) PROVE Pipe!Put
  BY <1>2 DEF OutPacket, TypeOK
<1>3. CASE SetLineCoding \/ BusReset
  BY <1>3 DEF SetLineCoding, BusReset, ParaInit
<1>4. CASE MainLoop \/ FrameDone \/ SetHalt \/ ClearHalt \/ UNCHANGED vars
  BY <1>4 DEF MainLoop, PollFlag, TransmissionPending, TransmissionComplete, Account,
              PollIdle, PollRemain, LoadPacket, ArmDma, SetFlag, FrameDone, SetHalt,
              ClearHalt, vars, pipeVars
<1> QED BY <1>1, <1>2, <1>3, <1>4 DEF Next, Hardware, Host

\* The USB-to-UART direction implements the ordered byte pipe.
THEOREM DownIsOrderedPipe ==
  ASSUME Quiet, MaxClear <= 2
  PROVE  Spec => IsOrderedPipe
<1>1. Init => Pipe!PipeInit
  BY DEF Init, Pipe!PipeInit
<1>2. TypeOK /\ SafeInv /\ [Next]_vars => [Pipe!PipeNext]_(Pipe!pipeVars)
  BY PipeStep
<1> QED BY <1>1, <1>2, Inductive, PTL DEF Spec, IsOrderedPipe, Pipe!PipeSpec
=============================================================================

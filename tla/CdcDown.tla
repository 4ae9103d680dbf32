------------------------------ MODULE CdcDown ------------------------------
(***************************************************************************)
(* USB-to-UART direction of the SimulateCDC bridge: bulk OUT packets are   *)
(* stored by the USBFS interrupt in a ring of NumMax packet slots, the     *)
(* main loop hands the slots one after the other to the UART transmit DMA. *)
(*                                                                         *)
(* Three parties interleave: UART2_DataTx_Deal on the main loop (pc names  *)
(* the statement it has reached; what runs with the USBFS interrupt        *)
(* disabled is one step), the USBFS interrupt handler (each handler is one *)
(* step: nothing preempts it that touches this state), and the DMA with    *)
(* the UART transmitter.                                                   *)
(*                                                                         *)
(* A slot's contents are the number of its first byte (see OrderedPipe):   *)
(* base[s] + k is the byte at offset k of slot s.  A pointer into the      *)
(* transmit buffer is kept as slot and offset.                             *)
(***************************************************************************)
EXTENDS Integers

CONSTANTS NumMax,     \* DEF_UARTx_TX_BUF_NUM_MAX, slots of the ring (16)
          PackSize,   \* DEF_USB_FS_PACK_LEN, bytes of a slot (64)
          MaxU16,     \* largest value of a 16-bit counter (65535)
          OutLens,    \* lengths of the packets the host sends
          MaxBytes,   \* bound: bytes the host sends in a behaviour
          MaxReset,   \* bound: SET_LINE_CODING requests and bus resets
          MaxClear,   \* bound: CLEAR_FEATURE(ENDPOINT_HALT) on endpoint 2
          Quiet       \* TRUE: the host resets the bridge only at a safe point

ASSUME NumMaxAssumption   == NumMax \in Nat /\ NumMax >= 4
ASSUME PackSizeAssumption == PackSize \in Nat /\ PackSize >= 1
ASSUME WidthAssumption    == /\ MaxU16 \in Nat
                             /\ NumMax <= MaxU16 /\ PackSize <= MaxU16
ASSUME OutLensAssumption  == OutLens \subseteq 0..PackSize
ASSUME BoundAssumption    == /\ MaxBytes \in Nat /\ MaxReset \in Nat
                             /\ MaxClear \in Nat /\ Quiet \in BOOLEAN

VARIABLES
  pc,                  \* next statement of UART2_DataTx_Deal
  Tx_LoadNum, Tx_DealNum, Tx_RemainNum, Tx_PackLen,
  Tx_Flag, Tx_CurPackLen, ptrSlot, ptrOff,      \* ptr: Tx_CurPackPtr
  USB_Down_StopFlag,
  UEP2_RX, UEP2_DMA,   \* endpoint 2: handshake response, slot of its DMA
  CNTR, dmaSlot, dmaOff, dmaReq,                \* UART transmit DMA
  TC, shifting,        \* transmission complete flag; a frame is on the line
  base,                \* ghost: first byte number of each slot
  accepted, delivered, wire,                    \* ghost: see OrderedPipe
  resets, clears       \* how many of the bounded requests were made

loopVars == <<pc, Tx_Flag, Tx_CurPackLen, ptrSlot, ptrOff>>
ringVars == <<Tx_LoadNum, Tx_DealNum, Tx_RemainNum, Tx_PackLen, base>>
usbVars  == <<USB_Down_StopFlag, UEP2_RX, UEP2_DMA>>
dmaVars  == <<CNTR, dmaSlot, dmaOff, dmaReq>>
lineVars == <<TC, shifting>>
pipeVars == <<accepted, delivered, wire>>
envVars  == <<resets, clears>>

vars == <<loopVars, ringVars, usbVars, dmaVars, lineVars, pipeVars, envVars>>

Slots == 0..(NumMax - 1)
Bit   == {0, 1}
U16   == 0..MaxU16

\* A 16-bit counter after one addition or subtraction.
Wrap(n) == IF n < 0 THEN n + MaxU16 + 1
           ELSE IF n > MaxU16 THEN n - MaxU16 - 1 ELSE n

MutNextSlot(s) == IF s + 1 > NumMax THEN 0 ELSE s + 1

\* The slot after s, as Tx_LoadNum and Tx_DealNum are advanced.
NextSlot(s) == IF s + 1 >= NumMax THEN 0 ELSE s + 1

MutStopAt(remain)   == remain > NumMax - 2
MutResumeAt(remain) == remain > 2

\* The ring is nearly full: refuse packets.  It has drained: take them again.
StopAt(remain)   == remain >= NumMax - 2
ResumeAt(remain) == remain < 2

MutPacketWaits == Tx_RemainNum > 1
MutNeedsLoad   == TRUE
MutPacketDone  == CNTR <= 1

\* A packet waits in the ring; no packet is half sent; nothing is left of it.
PacketWaits == Tx_RemainNum # 0
NeedsLoad   == Tx_CurPackLen = 0
PacketDone  == CNTR = 0

Init ==
  /\ pc = "flag"
  /\ Tx_LoadNum = 0 /\ Tx_DealNum = 0 /\ Tx_RemainNum = 0
  /\ Tx_PackLen = [s \in Slots |-> 0]
  /\ Tx_Flag = 0 /\ Tx_CurPackLen = 0 /\ ptrSlot = 0 /\ ptrOff = 0
  /\ USB_Down_StopFlag = 0 /\ UEP2_RX = "ACK" /\ UEP2_DMA = 0
  /\ CNTR = 0 /\ dmaSlot = 0 /\ dmaOff = 0 /\ dmaReq = 0
  /\ TC = 0 /\ shifting \in Bit
  /\ base = [s \in Slots |-> 0]
  /\ accepted = 0 /\ delivered = 0 /\ wire = -1
  /\ resets = 0 /\ clears = 0

-----------------------------------------------------------------------------
(* UART2_DataTx_Deal, on the main loop.                                    *)

\* A transfer was started: go and look at the transmission complete flag.
PollFlag ==
  /\ pc = "flag" /\ Tx_Flag = 1
  /\ pc' = "tc"
  /\ UNCHANGED <<Tx_Flag, Tx_CurPackLen, ptrSlot, ptrOff>>
  /\ UNCHANGED <<ringVars, usbVars, dmaVars, lineVars, pipeVars, envVars>>

TransmissionPending ==
  /\ pc = "tc" /\ TC = 0
  /\ pc' = "flag"
  /\ UNCHANGED <<Tx_Flag, Tx_CurPackLen, ptrSlot, ptrOff>>
  /\ UNCHANGED <<ringVars, usbVars, dmaVars, lineVars, pipeVars, envVars>>

TransmissionComplete ==
  /\ pc = "tc" /\ TC = 1
  /\ TC' = 0 /\ dmaReq' = 0 /\ Tx_Flag' = 0
  /\ pc' = "account"
  /\ UNCHANGED <<Tx_CurPackLen, ptrSlot, ptrOff, CNTR, dmaSlot, dmaOff, shifting>>
  /\ UNCHANGED <<ringVars, usbVars, pipeVars, envVars>>

\* With the USBFS interrupt disabled: charge what was sent, release the slot
\* when nothing of it is left, restart the downlink when the ring has drained.
Account ==
  /\ pc = "account"
  /\ pc' = "flag"
  /\ Tx_CurPackLen' = CNTR
  /\ ptrOff' = Wrap(ptrOff + Tx_CurPackLen - CNTR)
  /\ IF PacketDone
       THEN /\ Tx_PackLen' = [Tx_PackLen EXCEPT ![Tx_DealNum] = 0]
            /\ Tx_DealNum' = NextSlot(Tx_DealNum)
            /\ Tx_RemainNum' = Wrap(Tx_RemainNum - 1)
       ELSE UNCHANGED <<Tx_PackLen, Tx_DealNum, Tx_RemainNum>>
  /\ IF USB_Down_StopFlag = 1 /\ ResumeAt(Tx_RemainNum')
       THEN UEP2_RX' = "ACK" /\ USB_Down_StopFlag' = 0
       ELSE UNCHANGED <<UEP2_RX, USB_Down_StopFlag>>
  /\ UNCHANGED <<Tx_Flag, ptrSlot, Tx_LoadNum, base, UEP2_DMA>>
  /\ UNCHANGED <<dmaVars, lineVars, pipeVars, envVars>>

\* Nothing is being sent and nothing waits: the main loop goes round.
PollIdle ==
  /\ pc = "flag" /\ Tx_Flag = 0 /\ ~PacketWaits
  /\ UNCHANGED vars

\* Nothing is being sent and a packet waits.
PollRemain ==
  /\ pc = "flag" /\ Tx_Flag = 0 /\ PacketWaits
  /\ pc' = "load"
  /\ UNCHANGED <<Tx_Flag, Tx_CurPackLen, ptrSlot, ptrOff>>
  /\ UNCHANGED <<ringVars, usbVars, dmaVars, lineVars, pipeVars, envVars>>

\* Continue the packet that was interrupted, or take the next slot.
LoadPacket ==
  /\ pc = "load"
  /\ pc' = "arm"
  /\ IF NeedsLoad
       THEN /\ Tx_CurPackLen' = Tx_PackLen[Tx_DealNum]
            /\ ptrSlot' = Tx_DealNum /\ ptrOff' = 0
       ELSE UNCHANGED <<Tx_CurPackLen, ptrSlot, ptrOff>>
  /\ UNCHANGED <<Tx_Flag, ringVars, usbVars, dmaVars, lineVars, pipeVars, envVars>>

ArmDma ==
  /\ pc = "arm"
  /\ pc' = "started"
  /\ TC' = 0
  /\ dmaSlot' = ptrSlot /\ dmaOff' = ptrOff /\ CNTR' = Tx_CurPackLen
  /\ dmaReq' = 1
  /\ UNCHANGED <<Tx_Flag, Tx_CurPackLen, ptrSlot, ptrOff, shifting>>
  /\ UNCHANGED <<ringVars, usbVars, pipeVars, envVars>>

SetFlag ==
  /\ pc = "started"
  /\ pc' = "flag"
  /\ Tx_Flag' = 1
  /\ UNCHANGED <<Tx_CurPackLen, ptrSlot, ptrOff>>
  /\ UNCHANGED <<ringVars, usbVars, dmaVars, lineVars, pipeVars, envVars>>

-----------------------------------------------------------------------------
(* The DMA and the UART transmitter.                                       *)

\* The DMA moves one byte to the transmitter.
DmaByte ==
  /\ dmaReq = 1 /\ CNTR > 0
  /\ CNTR' = CNTR - 1 /\ dmaOff' = dmaOff + 1
  /\ shifting' = 1
  /\ wire' = base[dmaSlot] + dmaOff
  /\ delivered' = delivered + 1
  /\ UNCHANGED <<dmaSlot, dmaReq, TC, accepted>>
  /\ UNCHANGED <<loopVars, ringVars, usbVars, envVars>>

\* A frame has left the line and no other followed it: all were sent, or the
\* DMA was late and more are to come.
FrameDone ==
  /\ shifting = 1
  /\ shifting' = 0 /\ TC' = 1
  /\ UNCHANGED <<loopVars, ringVars, usbVars, dmaVars, pipeVars, envVars>>

-----------------------------------------------------------------------------
(* USBFS_IRQHandler.                                                       *)

\* A bulk OUT packet of n bytes.  The endpoint answers only ACK with data.
OutPacket(n) ==
  /\ UEP2_RX = "ACK"
  /\ accepted + n <= MaxBytes
  /\ accepted' = accepted + n
  /\ base' = [base EXCEPT ![UEP2_DMA] = accepted]
  /\ Tx_PackLen' = [Tx_PackLen EXCEPT ![Tx_LoadNum] = n]
  /\ Tx_LoadNum' = NextSlot(Tx_LoadNum)
  /\ UEP2_DMA' = NextSlot(Tx_LoadNum)
  /\ Tx_RemainNum' = Wrap(Tx_RemainNum + 1)
  /\ IF StopAt(Tx_RemainNum')
       THEN UEP2_RX' = "NAK" /\ USB_Down_StopFlag' = 1
       ELSE UNCHANGED <<UEP2_RX, USB_Down_StopFlag>>
  /\ UNCHANGED <<Tx_DealNum, delivered, wire>>
  /\ UNCHANGED <<loopVars, dmaVars, lineVars, envVars>>

MutRestartRing == Tx_LoadNum' = 0 /\ Tx_DealNum' = 0 /\ UNCHANGED Tx_RemainNum

RestartRing == Tx_LoadNum' = 0 /\ Tx_DealNum' = 0 /\ Tx_RemainNum' = 0

\* UART2_ParaInit: every counter of the direction restarts; what was accepted
\* and not sent is gone.
ParaInit ==
  /\ RestartRing
  /\ Tx_PackLen' = [s \in Slots |-> 0]
  /\ Tx_Flag' = 0 /\ Tx_CurPackLen' = 0 /\ ptrSlot' = 0 /\ ptrOff' = 0
  /\ USB_Down_StopFlag' = 0
  /\ delivered' = accepted
  /\ UNCHANGED <<base, accepted, wire>>

\* The statements of UART2_DataTx_Deal that run with the USBFS interrupt
\* enabled and act on what they read before.
InWindow == pc \in {"tc", "account", "load", "arm", "started"}

MutRestartEndpoint == UEP2_DMA' = 0 /\ UNCHANGED UEP2_RX

\* Endpoint 2 accepts packets again, into the first slot.
RestartEndpoint == UEP2_DMA' = 0 /\ UEP2_RX' = "ACK"

\* CDC SET_LINE_CODING, data stage: UART2_USB_Init reprograms the UART and
\* both DMA channels and re-enables the endpoint.  Enabling the transmitter
\* may put an idle frame on the line.
SetLineCoding ==
  /\ resets < MaxReset /\ resets' = resets + 1
  /\ Quiet => ~InWindow
  /\ ParaInit
  /\ CNTR' = 0 /\ dmaSlot' = 0 /\ dmaOff' = 0
  /\ TC' = 0 /\ shifting' \in Bit
  /\ RestartEndpoint
  /\ UNCHANGED <<pc, dmaReq, clears>>

\* USB bus reset: the endpoints and the counters restart, the DMA does not.
BusReset ==
  /\ resets < MaxReset /\ resets' = resets + 1
  /\ Quiet => ~InWindow /\ CNTR = 0
  /\ ParaInit
  /\ RestartEndpoint
  /\ UNCHANGED <<pc, dmaVars, lineVars, clears>>

SetHalt ==
  /\ clears < MaxClear
  /\ UEP2_RX' = "STALL"
  /\ UNCHANGED <<USB_Down_StopFlag, UEP2_DMA>>
  /\ UNCHANGED <<loopVars, ringVars, dmaVars, lineVars, pipeVars, envVars>>

ClearHalt ==
  /\ clears < MaxClear /\ clears' = clears + 1
  /\ UEP2_RX' = "ACK"
  /\ UNCHANGED <<resets, USB_Down_StopFlag, UEP2_DMA>>
  /\ UNCHANGED <<loopVars, ringVars, dmaVars, lineVars, pipeVars>>

-----------------------------------------------------------------------------
MainLoop == \/ PollFlag \/ TransmissionPending \/ TransmissionComplete \/ Account
            \/ PollIdle \/ PollRemain \/ LoadPacket \/ ArmDma \/ SetFlag

Hardware == DmaByte \/ FrameDone

Host == \/ \E n \in OutLens : OutPacket(n)
        \/ SetLineCoding \/ BusReset \/ SetHalt \/ ClearHalt

Next == MainLoop \/ Hardware \/ Host

Spec == Init /\ [][Next]_vars

\* The main loop never blocks and nothing else runs on it, the DMA and the
\* transmitter keep running; the host owes nothing.
Fairness == WF_vars(MainLoop) /\ WF_vars(DmaByte) /\ WF_vars(FrameDone)

FairSpec == Spec /\ Fairness

-----------------------------------------------------------------------------
(* Properties.                                                             *)

\* Every variable keeps the width and the range its declaration gives it; the
\* ring indices never leave the slots of the transmit buffer.
TypeOK ==
  /\ pc \in {"flag", "tc", "account", "load", "arm", "started"}
  /\ Tx_LoadNum \in Slots /\ Tx_DealNum \in Slots /\ UEP2_DMA \in Slots
  /\ Tx_RemainNum \in U16 /\ Tx_PackLen \in [Slots -> 0..PackSize]
  /\ Tx_Flag \in {0, 1} /\ Tx_CurPackLen \in 0..PackSize
  /\ ptrSlot \in Slots /\ ptrOff \in U16
  /\ USB_Down_StopFlag \in {0, 1} /\ UEP2_RX \in {"ACK", "NAK", "STALL"}
  /\ CNTR \in 0..PackSize /\ dmaSlot \in Slots /\ dmaOff \in Nat
  /\ dmaReq \in Bit /\ TC \in Bit /\ shifting \in Bit
  /\ base \in [Slots -> Nat]
  /\ accepted \in Nat /\ delivered \in Nat /\ wire \in Int
  /\ resets \in Nat /\ clears \in Nat

\* The three ring counters agree, and the endpoint's DMA points at the slot
\* whose length the next OUT interrupt will record.
RingConsistent ==
  /\ UEP2_DMA = Tx_LoadNum
  /\ Tx_RemainNum <= NumMax
  /\ \/ Tx_LoadNum = Tx_DealNum + Tx_RemainNum
     \/ Tx_LoadNum = Tx_DealNum + Tx_RemainNum - NumMax

\* While the endpoint accepts packets there is a free slot: an OUT packet never
\* lands in a slot that still waits to be sent.  Two CLEAR_FEATURE(HALT)
\* requests, each of which lets one packet past the stop, use up the margin.
NoOverrun == UEP2_RX = "ACK" => Tx_RemainNum < NumMax

\* The byte the DMA takes next from the transmit buffer is the oldest byte that
\* has not been sent, whatever arrived or was restarted meanwhile.
InOrder == dmaReq = 1 /\ CNTR > 0 => /\ base[dmaSlot] + dmaOff = delivered
                                /\ delivered < accepted

\* Only the stop flag makes the main loop re-enable the endpoint, so an endpoint
\* that refuses data must have it set, or the downlink is refused for good.
NakHasStopFlag == UEP2_RX = "NAK" => USB_Down_StopFlag = 1

\* UART2_DataTx_Deal releases a slot only after its last byte was sent, also
\* when the transfer was cut into several by a late DMA.
ReleasedWhenSent ==
  [][ Account /\ Tx_DealNum' # Tx_DealNum
      => delivered = base[Tx_DealNum] + Tx_PackLen[Tx_DealNum] ]_vars

\* The direction is an ordered pipe: nothing lost, repeated or overtaken except
\* by a reset of the session.
Pipe == INSTANCE OrderedPipe
IsOrderedPipe == Pipe!PipeSpec

\* Every byte the device accepted is sent, or dropped by a reset.
EveryByteSent == \A k \in 1..MaxBytes : accepted >= k ~> delivered >= k

\* A downlink that was suspended is restarted.
DownlinkRestarts == USB_Down_StopFlag = 1 ~> USB_Down_StopFlag = 0
=============================================================================

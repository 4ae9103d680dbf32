---------------------------- MODULE CdcUp_proofs ----------------------------
(***************************************************************************)
(* Proofs about CdcUp, for every buffer and packet size and every timer:   *)
(* the type invariant, the accounting of the receive buffer and the order  *)
(* of what the host is given, under the assumptions of the run cdc_up: the *)
(* host resets the bridge at safe points, and the loop keeps up with the   *)
(* line.                                                                   *)
(***************************************************************************)
EXTENDS CdcUp, TLAPS

USE SizeAssumption, TimerAssumption, BoundAssumption

\* The length that was decided is there when it is loaded, in one piece.
LoadInv ==
  pc = "load" => /\ packlen \in 1..PackSize
                 /\ packlen <= Rx_RemainLen
                 /\ Rx_DealPtr + packlen <= RxLen

TypeInv == TypeOK /\ LoadInv

-----------------------------------------------------------------------------
(* Type correctness.                                                       *)

LEMMA NewBytesType ==
  ASSUME NEW last \in 0..RxLen, NEW cur \in 1..RxLen
  PROVE  NewBytes(last, cur) \in 0..RxLen
BY DEF NewBytes

LEMMA UploadLengthFits ==
  ASSUME TypeOK, UploadLength # 0
  PROVE  /\ UploadLength \in 1..PackSize
         /\ UploadLength <= Rx_RemainLen
         /\ Rx_DealPtr + UploadLength <= RxLen
BY DEF TypeOK, UploadLength, Clip

\* What Load puts into the endpoint.
Packet == [i \in 1..packlen |-> rbuf[(Rx_DealPtr + i - 1) % RxLen]]

LEMMA PacketType ==
  ASSUME TypeOK PROVE Packet \in Seq(Int) /\ Len(Packet) = packlen
<1>1. packlen \in Nat
  BY DEF TypeOK
<1>2. \A i \in 1..packlen : rbuf[(Rx_DealPtr + i - 1) % RxLen] \in Int
  <2> TAKE i \in 1..packlen
  <2>1. Rx_DealPtr + i - 1 \in Int
    BY DEF TypeOK
  <2>2. (Rx_DealPtr + i - 1) % RxLen \in 0..RxLen-1
    BY <2>1
  <2> QED BY <2>2 DEF TypeOK
<1> QED BY <1>1, <1>2 DEF Packet

LEMMA TypeInit == Init => TypeInv
BY DEF Init, TypeInv, TypeOK, LoadInv, Bit

LEMMA TypeMainLoop == TypeInv /\ MainLoop => TypeInv'
<1> SUFFICES ASSUME TypeInv, MainLoop PROVE TypeInv'
  OBVIOUS
<1> USE DEF TypeInv, LoadInv, TypeOK, Bit, dmaVars, ringVars, upVars, timeVars,
            epVars, envVars, LookedAtTimers
<1>1. CASE Poll
  <2>1. NewBytes(UARTx_Rx_DMALastCount, CNTR) \in 0..RxLen
    BY NewBytesType
  <2> QED BY <1>1, <2>1, SMTT(30) DEF Poll
<1>2. CASE DecideUpload
  <2>1. UploadLength # 0 => packlen' \in 1..PackSize /\ packlen' <= Rx_RemainLen
                            /\ Rx_DealPtr + packlen' <= RxLen
    BY <1>2, UploadLengthFits DEF DecideUpload
  <2>2. packlen' \in 0..PackSize
    BY <1>2, <2>1 DEF DecideUpload
  <2> QED BY <1>2, <2>1, <2>2 DEF DecideUpload
<1>3. CASE GiveUp          BY <1>3 DEF GiveUp
<1>4. CASE NothingToDecide BY <1>4 DEF NothingToDecide
<1>5. CASE Load
  <2>1. Rx_RemainLen' \in 0..RxLen
    BY <1>5 DEF Load, Wrap16
  <2>2. Rx_DealPtr' \in 0..RxLen-1 /\ taken' \in Nat
    BY <1>5 DEF Load
  <2>3. UEP3_TX' \in {"ACK", "NAK", "STALL"} /\ Busy' \in Bit
    BY <1>5 DEF Load, DataUp
  <2>4. ep' \in Seq(Int) /\ Len(ep') <= PackSize
    <3>1. ep' = Packet \/ ep' = ep
      BY <1>5 DEF Load, DataUp, Packet
    <3>2. Packet \in Seq(Int) /\ Len(Packet) = packlen
      BY PacketType
    <3> QED BY <3>1, <3>2
  <2> HIDE DEF DataUp
  <2> QED BY <1>5, <2>1, <2>2, <2>3, <2>4 DEF Load
<1>6. CASE DecideZlp       BY <1>6 DEF DecideZlp
<1>7. CASE LoadZlp
  <2>1. ep' \in Seq(Int) /\ Len(ep') <= PackSize
    <3>1. ep' = <<>> \/ ep' = ep
      BY <1>7 DEF LoadZlp, DataUp
    <3>2. ep \in Seq(Int) /\ Len(ep) <= PackSize
      OBVIOUS
    <3>3. <<>> \in Seq(Int) /\ Len(<<>>) <= PackSize
      OBVIOUS
    <3> HIDE DEF TypeInv
    <3> QED BY <3>1, <3>2, <3>3
  <2>2. UEP3_TX' \in {"ACK", "NAK", "STALL"} /\ Busy' \in Bit
    BY <1>7 DEF LoadZlp, DataUp
  <2> QED BY <1>7, <2>1, <2>2 DEF LoadZlp
<1> QED BY <1>1, <1>2, <1>3, <1>4, <1>5, <1>6, <1>7 DEF MainLoop

LEMMA TypeOutside == TypeInv /\ (UartByte \/ Tick \/ HostRead \/ InInterrupt) => TypeInv'
<1> SUFFICES ASSUME TypeInv, UartByte \/ Tick \/ HostRead \/ InInterrupt PROVE TypeInv'
  OBVIOUS
<1> USE DEF TypeInv, LoadInv, TypeOK, Bit, loopVars, dmaVars, ringVars, upVars, timeVars,
            epVars, envVars
<1>1. CASE UartByte
  <2>1. Pos \in 0..RxLen-1
    BY DEF Pos
  <2>2. rbuf' \in [0..RxLen-1 -> Int]
    BY <1>1, <2>1 DEF UartByte
  <2> QED BY <1>1, <2>2 DEF UartByte
<1>2. CASE Tick        BY <1>2 DEF Tick
<1>3. CASE HostRead
  <2>1. hostNext' \in Int
    <3>1. CASE ep = <<>>
      BY <1>3, <3>1 DEF HostRead
    <3>2. CASE ep # <<>>
      <4>1. Len(ep) \in 1..Len(ep)
        BY <3>2
      <4>2. ep[Len(ep)] \in Int
        BY <4>1
      <4> QED BY <1>3, <3>2, <4>2 DEF HostRead
    <3> QED BY <3>1, <3>2
  <2> QED BY <1>3, <2>1 DEF HostRead
<1>4. CASE InInterrupt BY <1>4 DEF InInterrupt
<1> QED BY <1>1, <1>2, <1>3, <1>4

LEMMA TypeHost ==
  ASSUME Quiet
  PROVE  TypeInv /\ (SetLineCoding \/ BusReset \/ SetHalt \/ ClearHalt) => TypeInv'
<1> SUFFICES ASSUME TypeInv, SetLineCoding \/ BusReset \/ SetHalt \/ ClearHalt PROVE TypeInv'
  OBVIOUS
<1> USE DEF TypeInv, LoadInv, TypeOK, Bit, loopVars, dmaVars, ringVars, upVars, timeVars,
            epVars, envVars
<1>1. CASE SetLineCoding BY <1>1 DEF SetLineCoding, ParaInit, RestartDma, SafePoint
<1>2. CASE BusReset      BY <1>2 DEF BusReset, ParaInit, SafePoint
<1>3. CASE SetHalt       BY <1>3 DEF SetHalt
<1>4. CASE ClearHalt     BY <1>4 DEF ClearHalt
<1> QED BY <1>1, <1>2, <1>3, <1>4

LEMMA TypeStep == ASSUME Quiet PROVE TypeInv /\ [Next]_vars => TypeInv'
<1> SUFFICES ASSUME TypeInv, [Next]_vars PROVE TypeInv'
  OBVIOUS
<1>1. CASE UNCHANGED vars
  BY <1>1 DEF TypeInv, LoadInv, TypeOK, vars, loopVars, dmaVars, ringVars, upVars, timeVars,
              epVars, envVars
<1> QED BY <1>1, TypeMainLoop, TypeOutside, TypeHost DEF Next, Usb

\* Every variable of the direction keeps its declared width and the buffer indices stay
\* inside, for a host that resets the bridge while no upload is being prepared.
THEOREM UpTypeCorrect == ASSUME Quiet PROVE Spec => []TypeOK
<1>1. TypeInv => TypeOK
  BY DEF TypeInv
<1> QED BY TypeInit, TypeStep, <1>1, PTL DEF Spec

-----------------------------------------------------------------------------
(* The receive buffer.                                                     *)

\* Fewer bytes wait than the buffer holds, and they end where the DMA writes next.
SpanInv ==
  /\ Waiting \in 0..RxLen-1
  /\ RemainIsUnprocessed
  /\ Rx_DealPtr + Waiting = Pos \/ Rx_DealPtr + Waiting = Pos + RxLen

BufferInv == TypeInv /\ SpanInv /\ WaitingIntact

LEMMA ModBelow == \A a \in 0..RxLen-1 : a % RxLen = a
OBVIOUS

LEMMA ModAbove == \A a \in 0..RxLen-1 : (a + RxLen) % RxLen = a
OBVIOUS

\* A place counted from Rx_DealPtr, as an offset in the buffer.
LEMMA Place ==
  ASSUME NEW p \in 0..RxLen-1, NEW i \in 0..RxLen-1
  PROVE  (p + i) % RxLen = IF p + i < RxLen THEN p + i ELSE p + i - RxLen
<1>1. CASE p + i < RxLen
  BY <1>1, ModBelow
<1>2. CASE p + i >= RxLen
  <2>1. p + i - RxLen \in 0..RxLen-1
    BY <1>2
  <2>2. p + i = (p + i - RxLen) + RxLen
    OBVIOUS
  <2> QED BY <1>2, <2>1, <2>2, ModAbove
<1> QED BY <1>1, <1>2

LEMMA SpanInit == Init => SpanInv
BY DEF Init, SpanInv, Waiting, RemainIsUnprocessed, NewBytes, Pos

LEMMA SpanPoll == TypeInv /\ SpanInv /\ Poll => SpanInv'
<1> SUFFICES ASSUME TypeInv, SpanInv, Poll PROVE SpanInv'
  OBVIOUS
<1> DEFINE n == NewBytes(UARTx_Rx_DMALastCount, CNTR)
<1>1. n \in 0..RxLen
  BY NewBytesType DEF TypeInv, TypeOK
<1>2. Waiting \in 0..RxLen-1 /\ Rx_RemainLen + n = Waiting
  BY DEF SpanInv, RemainIsUnprocessed
<1>3. NewBytes(CNTR, CNTR) = 0
  BY DEF NewBytes, TypeInv, TypeOK
<1>4. UNCHANGED <<CNTR, Waiting, Pos, Rx_DealPtr>>
  BY DEF Poll, dmaVars, Waiting, Pos
<1>5. CASE UARTx_Rx_DMALastCount = CNTR
  <2>1. UNCHANGED <<UARTx_Rx_DMALastCount, Rx_RemainLen>>
    BY <1>5 DEF Poll
  <2> QED BY <1>4, <2>1 DEF SpanInv, RemainIsUnprocessed, NewBytes
<1>6. CASE UARTx_Rx_DMALastCount # CNTR
  <2>1. UARTx_Rx_DMALastCount' = CNTR
        /\ Rx_RemainLen' = IF Rx_RemainLen + n > RxLen THEN Rx_RemainLen ELSE Rx_RemainLen + n
    BY <1>6 DEF Poll
  <2>2. Rx_RemainLen' = Waiting
    BY <2>1, <1>1, <1>2 DEF TypeInv, TypeOK
  <2>3. RemainIsUnprocessed'
    BY <2>1, <2>2, <1>2, <1>3, <1>4 DEF RemainIsUnprocessed, NewBytes
  <2> QED BY <2>3, <1>4 DEF SpanInv
<1> QED BY <1>5, <1>6

LEMMA SpanLoad == TypeInv /\ SpanInv /\ Load => SpanInv'
BY DEF TypeInv, TypeOK, LoadInv, SpanInv, Waiting, RemainIsUnprocessed, NewBytes, Pos, Load,
       Wrap16, dmaVars

LEMMA SpanByte ==
  ASSUME KeepUp PROVE TypeInv /\ SpanInv /\ UartByte => SpanInv'
BY DEF TypeInv, TypeOK, SpanInv, Waiting, RemainIsUnprocessed, NewBytes, Pos, UartByte, ringVars

LEMMA SpanReset ==
  ASSUME Quiet PROVE TypeInv /\ SpanInv /\ (SetLineCoding \/ BusReset) => SpanInv'
BY DEF TypeInv, TypeOK, SpanInv, Waiting, RemainIsUnprocessed, NewBytes, Pos, SetLineCoding,
       BusReset, ParaInit, RestartDma, dmaVars

\* The steps that touch neither the buffer nor what accounts for it.
LEMMA BufferUntouched ==
  UNCHANGED <<dmaVars, ringVars>> /\ SpanInv /\ WaitingIntact => SpanInv' /\ WaitingIntact'
BY DEF dmaVars, ringVars, SpanInv, WaitingIntact, Waiting, RemainIsUnprocessed, NewBytes, Pos

LEMMA IntactByte ==
  ASSUME KeepUp, BufferInv, UartByte PROVE WaitingIntact'
<1> USE DEF BufferInv, TypeInv, TypeOK, SpanInv
<1>1. Waiting < RxLen - 1 /\ Waiting' = Waiting + 1 /\ taken' = taken /\ Rx_DealPtr' = Rx_DealPtr
  BY DEF UartByte, Waiting, ringVars
<1>2. Pos \in 0..RxLen-1
  BY DEF Pos
<1>3. rbuf' = [rbuf EXCEPT ![Pos] = taken + Waiting]
  BY DEF UartByte, Waiting
<1>4. (Rx_DealPtr + Waiting) % RxLen = Pos
  <2>1. Rx_DealPtr \in 0..RxLen-1 /\ Waiting \in 0..RxLen-1
    OBVIOUS
  <2>2. (Rx_DealPtr + Waiting) % RxLen
          = IF Rx_DealPtr + Waiting < RxLen THEN Rx_DealPtr + Waiting
                                            ELSE Rx_DealPtr + Waiting - RxLen
    BY <2>1, Place
  <2>3. Rx_DealPtr + Waiting = Pos \/ Rx_DealPtr + Waiting = Pos + RxLen
    OBVIOUS
  <2> HIDE DEF BufferInv
  <2>4. RxLen \in Nat
    OBVIOUS
  <2> QED BY <2>1, <2>2, <2>3, <2>4, <1>2
<1> SUFFICES ASSUME NEW i \in 0..Waiting
             PROVE  rbuf'[(Rx_DealPtr + i) % RxLen] = taken + i
  BY <1>1 DEF WaitingIntact
<1>5. CASE i = Waiting
  BY <1>2, <1>3, <1>4, <1>5
<1>6. CASE i # Waiting
  <2>1. i \in 0..Waiting-1 /\ i \in 0..RxLen-1
    BY <1>6
  <2>2. (Rx_DealPtr + i) % RxLen # Pos
    <3>1. Rx_DealPtr \in 0..RxLen-1 /\ Waiting \in 0..RxLen-1
      OBVIOUS
    <3>2. (Rx_DealPtr + i) % RxLen
            = IF Rx_DealPtr + i < RxLen THEN Rx_DealPtr + i ELSE Rx_DealPtr + i - RxLen
      BY <2>1, <3>1, Place
    <3>3. Rx_DealPtr + Waiting = Pos \/ Rx_DealPtr + Waiting = Pos + RxLen
      OBVIOUS
    <3> HIDE DEF BufferInv
    <3> QED BY <2>1, <3>1, <3>2, <3>3, <1>1, <1>2
  <2>3. (Rx_DealPtr + i) % RxLen \in 0..RxLen-1
    BY <2>1, Place
  <2>4. rbuf'[(Rx_DealPtr + i) % RxLen] = rbuf[(Rx_DealPtr + i) % RxLen]
    BY <1>3, <2>2, <2>3
  <2> QED BY <2>1, <2>4 DEF WaitingIntact
<1> QED BY <1>5, <1>6

LEMMA IntactLoad ==
  ASSUME BufferInv, Load PROVE WaitingIntact'
<1> USE DEF BufferInv, TypeInv, TypeOK, LoadInv, SpanInv
<1>1. packlen \in 1..PackSize /\ packlen <= Rx_RemainLen /\ Rx_DealPtr + packlen <= RxLen
  BY DEF Load
<1>2. rbuf' = rbuf /\ taken' = taken + packlen /\ Waiting' = Waiting - packlen
  BY <1>1 DEF Load, dmaVars, Waiting
<1>3. Rx_DealPtr' \in 0..RxLen-1 /\ (Rx_DealPtr' = Rx_DealPtr + packlen
                                    \/ Rx_DealPtr' = Rx_DealPtr + packlen - RxLen)
  BY <1>1 DEF Load
<1> SUFFICES ASSUME NEW i \in 0..Waiting'-1
             PROVE  rbuf[(Rx_DealPtr' + i) % RxLen] = taken' + i
  BY <1>2 DEF WaitingIntact
<1>4. i + packlen \in 0..Waiting-1 /\ i \in 0..RxLen-1 /\ i + packlen \in 0..RxLen-1
  BY <1>1, <1>2
<1>5. (Rx_DealPtr' + i) % RxLen = (Rx_DealPtr + (i + packlen)) % RxLen
  <2>1. (Rx_DealPtr' + i) % RxLen
          = IF Rx_DealPtr' + i < RxLen THEN Rx_DealPtr' + i ELSE Rx_DealPtr' + i - RxLen
    BY <1>3, <1>4, Place
  <2>2. (Rx_DealPtr + (i + packlen)) % RxLen
          = IF Rx_DealPtr + (i + packlen) < RxLen THEN Rx_DealPtr + (i + packlen)
                                                  ELSE Rx_DealPtr + (i + packlen) - RxLen
    BY <1>4, Place
  <2>3. Rx_DealPtr \in 0..RxLen-1 /\ packlen \in Nat
    BY <1>1
  <2> HIDE DEF BufferInv
  <2>4. CASE Rx_DealPtr' = Rx_DealPtr + packlen
    BY <2>1, <2>2, <2>3, <2>4, <1>3, <1>4
  <2>5. CASE Rx_DealPtr' = Rx_DealPtr + packlen - RxLen
    BY <2>1, <2>2, <2>3, <2>5, <1>1, <1>3, <1>4
  <2> QED BY <1>3, <2>4, <2>5
<1>6. rbuf[(Rx_DealPtr + (i + packlen)) % RxLen] = taken + (i + packlen)
  BY <1>4 DEF WaitingIntact
<1> QED BY <1>2, <1>4, <1>5, <1>6

LEMMA BufferStep ==
  ASSUME Quiet, KeepUp PROVE BufferInv /\ [Next]_vars => BufferInv'
<1> SUFFICES ASSUME BufferInv, [Next]_vars PROVE SpanInv' /\ WaitingIntact'
  BY TypeStep DEF BufferInv
<1>1. CASE Poll
  <2>1. UNCHANGED <<rbuf, Rx_DealPtr, received, taken>>
    BY <1>1 DEF Poll, dmaVars
  <2> QED BY <1>1, <2>1, SpanPoll DEF BufferInv, WaitingIntact, Waiting
<1>2. CASE Load
  BY <1>2, SpanLoad, IntactLoad DEF BufferInv
<1>3. CASE UartByte
  BY <1>3, SpanByte, IntactByte DEF BufferInv
<1>4. CASE SetLineCoding \/ BusReset
  <2>1. Waiting' = 0
    BY <1>4 DEF SetLineCoding, BusReset, ParaInit, dmaVars, Waiting, BufferInv, TypeInv, TypeOK
  <2>2. WaitingIntact'
    BY <2>1 DEF WaitingIntact
  <2> QED BY <1>4, <2>2, SpanReset DEF BufferInv
<1>5. CASE UNCHANGED <<dmaVars, ringVars>>
  BY <1>5, BufferUntouched DEF BufferInv
<1>6. \/ Poll \/ Load \/ UartByte \/ SetLineCoding \/ BusReset
      \/ UNCHANGED <<dmaVars, ringVars>>
  BY DEF Next, MainLoop, Usb, vars, DecideUpload, GiveUp, NothingToDecide, DecideZlp, LoadZlp,
         Tick, HostRead, InInterrupt, SetHalt, ClearHalt
<1> QED BY <1>1, <1>2, <1>3, <1>4, <1>5, <1>6

LEMMA BufferInit == Init => BufferInv
<1>1. Init => WaitingIntact
  BY DEF Init, WaitingIntact, Waiting
<1> QED BY <1>1, TypeInit, SpanInit DEF BufferInv

\* UART2_DataRx_Deal accounts for every byte off the line, laps of the buffer and bytes
\* that are stored while it works included.
THEOREM UpRemainCorrect == ASSUME Quiet, KeepUp PROVE Spec => []RemainIsUnprocessed
<1>1. BufferInv => RemainIsUnprocessed
  BY DEF BufferInv, SpanInv
<1> QED BY BufferInit, BufferStep, <1>1, PTL DEF Spec

\* What was received and not uploaded is still in the buffer, in its order.
THEOREM UpWaitingIntact == ASSUME Quiet, KeepUp PROVE Spec => []WaitingIntact
<1>1. BufferInv => WaitingIntact
  BY DEF BufferInv
<1> QED BY BufferInit, BufferStep, <1>1, PTL DEF Spec

-----------------------------------------------------------------------------
(* The order of the host's bytes.                                          *)

\* The endpoint holds one run of bytes that have left the buffer, and the host is not
\* ahead of the buffer.
EndpointInv ==
  /\ hostNext <= taken
  /\ ep # <<>> => ep[Len(ep)] < taken
  /\ \A i \in 1..Len(ep) : ep[i] = ep[1] + i - 1

OrderInv == BufferInv /\ EndpointInv /\ HostInOrder

\* What Load takes is the next run of bytes.
LEMMA PacketIsNext ==
  ASSUME BufferInv, Load
  PROVE  /\ Packet \in Seq(Int) /\ Len(Packet) = packlen /\ packlen \in 1..PackSize
         /\ \A i \in 1..packlen : Packet[i] = taken + i - 1
<1> USE DEF BufferInv, TypeInv, TypeOK
<1>1. packlen \in 1..PackSize /\ packlen <= Waiting
  <2>1. packlen \in 1..PackSize /\ packlen <= Rx_RemainLen
    BY DEF Load, LoadInv
  <2>2. NewBytes(UARTx_Rx_DMALastCount, CNTR) \in 0..RxLen
    BY NewBytesType
  <2>3. Rx_RemainLen + NewBytes(UARTx_Rx_DMALastCount, CNTR) = Waiting
    BY DEF SpanInv, RemainIsUnprocessed
  <2>4. Rx_RemainLen \in 0..RxLen
    OBVIOUS
  <2> QED BY <2>1, <2>2, <2>3, <2>4
<1>2. \A i \in 1..packlen : Packet[i] = taken + i - 1
  <2> TAKE i \in 1..packlen
  <2>1. i - 1 \in 0..Waiting-1
    BY <1>1 DEF SpanInv
  <2>2. rbuf[(Rx_DealPtr + (i - 1)) % RxLen] = taken + (i - 1)
    BY <2>1 DEF WaitingIntact
  <2>3. Packet[i] = rbuf[(Rx_DealPtr + i - 1) % RxLen]
    BY DEF Packet
  <2>4. Rx_DealPtr + i - 1 = Rx_DealPtr + (i - 1) /\ taken + i - 1 = taken + (i - 1)
    OBVIOUS
  <2> QED BY <2>2, <2>3, <2>4
<1> QED BY <1>1, <1>2, PacketType

LEMMA OrderLoad ==
  ASSUME OrderInv, Load PROVE EndpointInv' /\ HostInOrder'
<1>1. /\ taken \in Nat /\ hostNext \in Int /\ ep \in Seq(Int)
      /\ BufferInv /\ EndpointInv /\ HostInOrder
  BY DEF OrderInv, BufferInv, TypeInv, TypeOK
<1>2. packlen \in Nat \ {0} /\ taken' = taken + packlen
      /\ hostNext' = hostNext /\ inPending' = inPending
  BY <1>1, PacketIsNext DEF Load
<1>3. CASE Busy = 0
  <2>1. ep' = Packet
    BY <1>3 DEF Load, DataUp, Packet
  <2>2. Len(ep') = packlen /\ \A i \in 1..packlen : ep'[i] = taken + i - 1
    BY <1>1, <2>1, PacketIsNext
  <2>3. ep'[1] = taken /\ ep'[Len(ep')] = taken + packlen - 1
    BY <1>1, <1>2, <2>2
  <2> QED BY <1>1, <1>2, <2>2, <2>3 DEF EndpointInv, HostInOrder
<1>4. CASE Busy # 0
  <2>1. UNCHANGED <<ep, UEP3_TX>>
    BY <1>4 DEF Load, DataUp
  <2>2. ep # <<>> => ep[Len(ep)] \in Int
    <3> HAVE ep # <<>>
    <3>1. Len(ep) \in 1..Len(ep)
      BY <1>1
    <3> QED BY <1>1, <3>1
  <2> QED BY <1>1, <1>2, <2>1, <2>2 DEF EndpointInv, HostInOrder
<1> QED BY <1>3, <1>4

LEMMA OrderRead ==
  ASSUME OrderInv, HostRead PROVE EndpointInv' /\ HostInOrder'
<1>1. /\ taken \in Nat /\ hostNext \in Int /\ ep \in Seq(Int) /\ EndpointInv
  BY DEF OrderInv, BufferInv, TypeInv, TypeOK
<1>2. taken' = taken /\ ep' = ep /\ inPending'
  BY DEF HostRead, ringVars
<1>3. hostNext' <= taken
  <2>1. CASE ep = <<>>
    BY <2>1, <1>1 DEF HostRead, EndpointInv
  <2>2. CASE ep # <<>>
    <3>1. ep[Len(ep)] \in Int
      <4>1. Len(ep) \in 1..Len(ep)
        BY <1>1, <2>2
      <4> QED BY <1>1, <4>1
    <3>2. hostNext' = ep[Len(ep)] + 1
      BY <2>2 DEF HostRead
    <3> QED BY <1>1, <2>2, <3>1, <3>2 DEF EndpointInv
  <2> QED BY <2>1, <2>2
<1> QED BY <1>1, <1>2, <1>3 DEF EndpointInv, HostInOrder

\* Steps that fill nothing into the endpoint, arm nothing, and take bytes at most.
LEMMA OrderDisarm ==
  ASSUME OrderInv, taken' \in Nat, taken' >= taken, hostNext' = hostNext,
         ep' = ep \/ ep' = <<>>,
         \/ UEP3_TX' \in {"NAK", "STALL"}
         \/ ep' = <<>>
         \/ UNCHANGED <<ep, UEP3_TX, inPending>>
  PROVE  EndpointInv' /\ HostInOrder'
<1>1. /\ taken \in Nat /\ hostNext \in Int /\ ep \in Seq(Int)
      /\ EndpointInv /\ HostInOrder
  BY DEF OrderInv, BufferInv, TypeInv, TypeOK
<1>2. ep # <<>> => ep[Len(ep)] \in Int
  <2> HAVE ep # <<>>
  <2>1. Len(ep) \in 1..Len(ep)
    BY <1>1
  <2> QED BY <1>1, <2>1
<1>3. CASE ep' = <<>>
  <2>1. Len(ep') = 0
    BY <1>3
  <2> QED BY <1>1, <1>3, <2>1 DEF EndpointInv, HostInOrder
<1>4. CASE ep' = ep
  <2>1. EndpointInv'
    BY <1>1, <1>2, <1>4 DEF EndpointInv
  <2>2. HostInOrder'
    BY <1>1, <1>4 DEF HostInOrder
  <2> QED BY <2>1, <2>2
<1> QED BY <1>3, <1>4

LEMMA OrderInit == Init => OrderInv
<1>1. Init => EndpointInv /\ HostInOrder
  BY DEF Init, EndpointInv, HostInOrder
<1> QED BY <1>1, BufferInit DEF OrderInv

LEMMA OrderStep ==
  ASSUME Quiet, KeepUp PROVE OrderInv /\ [Next]_vars => OrderInv'
<1> SUFFICES ASSUME OrderInv, [Next]_vars PROVE EndpointInv' /\ HostInOrder'
  BY BufferStep DEF OrderInv
<1>1. taken \in Nat /\ received \in Nat /\ received >= taken
  BY DEF OrderInv, BufferInv, TypeInv, TypeOK, SpanInv, Waiting
<1>2. CASE Load     BY <1>2, OrderLoad
<1>3. CASE HostRead BY <1>3, OrderRead
<1>4. CASE LoadZlp
  <2>1. taken' = taken /\ hostNext' = hostNext
        /\ (ep' = <<>> \/ UNCHANGED <<ep, UEP3_TX, inPending>>)
    BY <1>4 DEF LoadZlp, DataUp, ringVars
  <2> QED BY <1>1, <2>1, OrderDisarm
<1>5. CASE SetLineCoding
  <2>1. taken' = received /\ UNCHANGED <<hostNext, ep, UEP3_TX, inPending>>
    BY <1>5 DEF SetLineCoding, ParaInit, epVars
  <2> QED BY <1>1, <2>1, OrderDisarm
<1>6. CASE BusReset
  <2>1. taken' = received /\ UNCHANGED <<hostNext, ep>> /\ UEP3_TX' = "NAK"
    BY <1>6 DEF BusReset, ParaInit
  <2> QED BY <1>1, <2>1, OrderDisarm
<1>7. CASE GiveUp \/ InInterrupt \/ SetHalt \/ ClearHalt
  <2>1. taken' = taken /\ UNCHANGED <<hostNext, ep>>
        /\ (UEP3_TX' \in {"NAK", "STALL"} \/ UNCHANGED <<ep, UEP3_TX, inPending>>)
    BY <1>7 DEF GiveUp, InInterrupt, SetHalt, ClearHalt, ringVars
  <2> QED BY <1>1, <2>1, OrderDisarm
<1>8. CASE UNCHANGED <<epVars, taken>>
  <2>1. taken' = taken /\ UNCHANGED <<hostNext, ep, UEP3_TX, inPending>>
    BY <1>8 DEF epVars
  <2> QED BY <1>1, <2>1, OrderDisarm
<1>9. \/ Load \/ HostRead \/ LoadZlp \/ SetLineCoding \/ BusReset
      \/ GiveUp \/ InInterrupt \/ SetHalt \/ ClearHalt
      \/ UNCHANGED <<epVars, taken>>
  BY DEF Next, MainLoop, Usb, vars, Poll, DecideUpload, NothingToDecide, DecideZlp,
         UartByte, Tick, ringVars
<1> QED BY <1>2, <1>3, <1>4, <1>5, <1>6, <1>7, <1>8, <1>9

\* The host is given the bytes of the line in their order and none of them twice, across
\* uploads that are given up, halted endpoints, ZLPs and resets.
THEOREM UpHostInOrder == ASSUME Quiet, KeepUp PROVE Spec => []HostInOrder
<1>1. OrderInv => HostInOrder
  BY DEF OrderInv
<1> QED BY OrderInit, OrderStep, <1>1, PTL DEF Spec
=============================================================================

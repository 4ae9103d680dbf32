-------------------------------- MODULE CdcUp --------------------------------
(***************************************************************************)
(* UART-to-USB direction of the SimulateCDC bridge.  A circular DMA fills  *)
(* UART2_Rx_Buf without any interrupt; UART2_DataRx_Deal on the main loop  *)
(* measures its progress, uploads full packets at once and the rest after  *)
(* a pause of the line, and owes the host a zero-length packet (ZLP) after *)
(* a full one.  The TIM2 interrupt counts 100 us ticks, the USBFS          *)
(* interrupt ends an upload, gives up everything on SET_LINE_CODING and on *)
(* a bus reset.                                                            *)
(*                                                                         *)
(* The bytes of the line are numbered; rbuf holds byte numbers (-1: none). *)
(* A statement sequence that runs with the USBFS interrupt disabled is one *)
(* step; the others are preempted by the interrupt as soon as it is        *)
(* pending, hence their guard ~inPending.                                  *)
(***************************************************************************)
EXTENDS Integers, Sequences

CONSTANTS RxLen,         \* DEF_UARTx_RX_BUF_LEN (2048)
          PackSize,      \* DEF_USBD_FS_PACK_SIZE (64)
          RxTimeOutMax,  \* Uart.Rx_TimeOutMax, pause that ends a packet (30)
          ZlpTimeOut,    \* DEF_UARTx_RX_TIMEOUT * 20, delay of the ZLP (600)
          UpTimeOutMax,  \* DEF_UARTx_USB_UP_TIMEOUT (60000)
          MaxU8, MaxU16, \* largest values of the two tick counters
          MaxBytes,      \* bound: bytes the line delivers
          MaxReset,      \* bound: SET_LINE_CODING requests
          MaxBusReset,   \* bound: bus resets
          MaxClear,      \* bound: CLEAR_FEATURE(ENDPOINT_HALT) on endpoint 3
          KeepUp,        \* TRUE: fewer than RxLen bytes ever wait
          Prompt,        \* TRUE: at most one tick passes during a pass of the loop
          Quiet          \* TRUE: resets only when the main loop is at a safe point

ASSUME SizeAssumption  == /\ RxLen \in Nat /\ PackSize \in Nat
                          /\ PackSize > 0 /\ RxLen > PackSize /\ RxLen <= MaxU16
ASSUME TimerAssumption == /\ MaxU8 \in Nat /\ MaxU16 \in Nat
                          /\ RxTimeOutMax \in 1..MaxU8
                          /\ ZlpTimeOut \in 1..MaxU16 /\ UpTimeOutMax \in 1..MaxU16
ASSUME BoundAssumption == /\ MaxBytes \in Nat /\ MaxReset \in Nat
                          /\ MaxBusReset \in Nat /\ MaxClear \in Nat
                          /\ {KeepUp, Prompt, Quiet} \subseteq BOOLEAN

VARIABLES
  pc, packlen,                     \* UART2_DataRx_Deal: next step, its local
  CNTR, rbuf,                      \* receive DMA: bytes to the end, buffer
  UARTx_Rx_DMALastCount, Rx_RemainLen, Rx_DealPtr, Rx_TimeOut,
  USB_Up_IngFlag, USB_Up_TimeOut, USB_Up_Pack0_Flag,
  Busy, UEP3_TX, ep,               \* endpoint 3: busy mark, handshake, contents
  inPending,                       \* an IN transaction waits for the interrupt
  received, taken, hostNext,       \* ghost: bytes off the line, bytes out of
                                   \* rbuf, 1 + last byte the host was given
  lag,                             \* ticks since the loop looked at the timers
  resets, busResets, clears

loopVars  == <<pc, packlen>>
dmaVars   == <<CNTR, rbuf, received>>
ringVars  == <<UARTx_Rx_DMALastCount, Rx_RemainLen, Rx_DealPtr, taken>>
upVars    == <<USB_Up_IngFlag, USB_Up_Pack0_Flag>>
timeVars  == <<Rx_TimeOut, USB_Up_TimeOut, lag>>
epVars    == <<Busy, UEP3_TX, ep, inPending, hostNext>>
envVars   == <<resets, busResets, clears>>

vars == <<loopVars, dmaVars, ringVars, upVars, timeVars, epVars, envVars>>

Bit == {0, 1}
Pos == RxLen - CNTR                \* where the DMA writes next

Wrap16(n) == IF n < 0 THEN n + MaxU16 + 1 ELSE IF n > MaxU16 THEN n - MaxU16 - 1 ELSE n

MutNewBytes(last, cur) == IF last >= cur THEN last - cur ELSE RxLen - cur

\* Bytes between two readings of the DMA counter; a whole lap reads as none.
NewBytes(last, cur) == IF last >= cur THEN last - cur ELSE RxLen - cur + last

MutClip(n) == n

\* An upload is one contiguous piece of the buffer.
Clip(n) == IF n > RxLen - Rx_DealPtr THEN RxLen - Rx_DealPtr ELSE n

MutExpired == USB_Up_TimeOut > MaxU16
MutZlpDue  == USB_Up_TimeOut > MaxU16

Paused     == Rx_TimeOut >= RxTimeOutMax
Expired    == USB_Up_TimeOut >= UpTimeOutMax
ZlpDue     == USB_Up_TimeOut >= ZlpTimeOut

MutUploadLength ==
  Clip(IF Rx_RemainLen >= PackSize \/ Paused THEN PackSize ELSE 0)

\* How much UART2_DataRx_Deal uploads now.
UploadLength ==
  Clip(IF Rx_RemainLen >= PackSize THEN PackSize
       ELSE IF Paused THEN Rx_RemainLen ELSE 0)

Init ==
  /\ pc = "poll" /\ packlen = 0
  /\ CNTR = RxLen /\ rbuf = [p \in 0..RxLen-1 |-> -1]
  /\ UARTx_Rx_DMALastCount = 0 /\ Rx_RemainLen = 0 /\ Rx_DealPtr = 0
  /\ Rx_TimeOut = 0 /\ USB_Up_IngFlag = 0 /\ USB_Up_TimeOut = 0
  /\ USB_Up_Pack0_Flag = 0
  /\ Busy = 0 /\ UEP3_TX = "NAK" /\ ep = <<>> /\ inPending = FALSE
  /\ received = 0 /\ taken = 0 /\ hostNext = 0
  /\ lag = 0 /\ resets = 0 /\ busResets = 0 /\ clears = 0

-----------------------------------------------------------------------------
(* UART2_DataRx_Deal.                                                      *)

\* Account for what the DMA has stored since the last time; when that does not
\* fit, the bytes are not counted.
Poll ==
  /\ pc = "poll" /\ pc' = "decide"
  /\ IF UARTx_Rx_DMALastCount = CNTR
       THEN UNCHANGED <<UARTx_Rx_DMALastCount, Rx_RemainLen, Rx_TimeOut>>
       ELSE LET n == NewBytes(UARTx_Rx_DMALastCount, CNTR) IN
            /\ UARTx_Rx_DMALastCount' = CNTR
            /\ Rx_RemainLen' = IF Rx_RemainLen + n > RxLen THEN Rx_RemainLen
                               ELSE Rx_RemainLen + n
            /\ Rx_TimeOut' = 0
  /\ UNCHANGED <<packlen, Rx_DealPtr, taken, USB_Up_TimeOut, lag>>
  /\ UNCHANGED <<dmaVars, upVars, epVars, envVars>>

LookedAtTimers == lag' = 0 /\ UNCHANGED <<Rx_TimeOut, USB_Up_TimeOut>>

\* Something waits and no upload is under way.
DecideUpload ==
  /\ pc = "decide" /\ ~inPending
  /\ Rx_RemainLen # 0 /\ USB_Up_IngFlag = 0
  /\ packlen' = UploadLength
  /\ pc' = IF UploadLength # 0 THEN "load" ELSE "zlp"
  /\ LookedAtTimers
  /\ UNCHANGED <<dmaVars, ringVars, upVars, epVars, envVars>>

\* An upload the host does not fetch is given up after UpTimeOutMax ticks.
GiveUp ==
  /\ pc = "decide" /\ ~inPending /\ pc' = "zlp"
  /\ Rx_RemainLen # 0 /\ USB_Up_IngFlag # 0 /\ Expired
  /\ USB_Up_IngFlag' = 0 /\ Busy' = 0
  /\ LookedAtTimers
  /\ UNCHANGED <<packlen, USB_Up_Pack0_Flag, UEP3_TX, ep, inPending, hostNext>>
  /\ UNCHANGED <<dmaVars, ringVars, envVars>>

NothingToDecide ==
  /\ pc = "decide" /\ ~inPending /\ pc' = "zlp"
  /\ Rx_RemainLen = 0 \/ (USB_Up_IngFlag # 0 /\ ~Expired)
  /\ LookedAtTimers
  /\ UNCHANGED <<packlen, dmaVars, ringVars, upVars, epVars, envVars>>

\* USBFS_Endp_DataUp: fill and arm the endpoint unless it is busy.
DataUp(bytes) ==
  IF Busy = 0 THEN Busy' = 1 /\ UEP3_TX' = "ACK" /\ ep' = bytes
              ELSE UNCHANGED <<Busy, UEP3_TX, ep>>

\* The result of DataUp is not looked at: the bytes count as uploaded.
Load ==
  /\ pc = "load" /\ pc' = "zlp"
  /\ USB_Up_IngFlag' = 1 /\ USB_Up_TimeOut' = 0
  /\ DataUp([i \in 1..packlen |-> rbuf[(Rx_DealPtr + i - 1) % RxLen]])
  /\ Rx_RemainLen' = Wrap16(Rx_RemainLen - packlen)
  /\ Rx_DealPtr' = IF Rx_DealPtr + packlen >= RxLen THEN 0 ELSE Rx_DealPtr + packlen
  /\ taken' = taken + packlen
  /\ USB_Up_Pack0_Flag' = IF packlen = PackSize THEN 1 ELSE USB_Up_Pack0_Flag
  /\ UNCHANGED <<packlen, UARTx_Rx_DMALastCount, Rx_TimeOut, lag, inPending,
                 hostNext>>
  /\ UNCHANGED <<dmaVars, envVars>>

ZlpOwed == USB_Up_Pack0_Flag = 1 /\ USB_Up_IngFlag = 0 /\ ZlpDue

DecideZlp ==
  /\ pc = "zlp" /\ ~inPending
  /\ pc' = IF ZlpOwed THEN "loadzlp" ELSE "poll"
  /\ UNCHANGED <<packlen, dmaVars, ringVars, upVars, timeVars, epVars, envVars>>

\* The flag is taken back at once: nothing remembers that the ZLP is in the
\* endpoint, except the busy mark.
LoadZlp ==
  /\ pc = "loadzlp" /\ pc' = "poll"
  /\ USB_Up_TimeOut' = 0
  /\ DataUp(<<>>)
  /\ USB_Up_IngFlag' = 0 /\ USB_Up_Pack0_Flag' = 0
  /\ UNCHANGED <<packlen, Rx_TimeOut, lag, inPending, hostNext>>
  /\ UNCHANGED <<dmaVars, ringVars, envVars>>

-----------------------------------------------------------------------------
(* The UART and its receive DMA, the timer, the host.                      *)

UartByte ==
  /\ received < MaxBytes
  /\ KeepUp => received - taken < RxLen - 1
  /\ rbuf' = [rbuf EXCEPT ![Pos] = received]
  /\ CNTR' = IF CNTR = 1 THEN RxLen ELSE CNTR - 1
  /\ received' = received + 1
  /\ UNCHANGED <<loopVars, ringVars, upVars, timeVars, epVars, envVars>>

\* TIM2_IRQHandler.
Tick ==
  /\ Prompt => lag = 0
  /\ lag' = 1
  /\ Rx_TimeOut' = (Rx_TimeOut + 1) % (MaxU8 + 1)
  /\ USB_Up_TimeOut' = (USB_Up_TimeOut + 1) % (MaxU16 + 1)
  /\ UNCHANGED <<loopVars, dmaVars, ringVars, upVars, epVars, envVars>>

\* The host fetches what the endpoint holds; the interrupt becomes pending and
\* the endpoint answers NAK until it was served.
HostRead ==
  /\ UEP3_TX = "ACK" /\ ~inPending
  /\ inPending' = TRUE
  /\ hostNext' = IF ep = <<>> THEN hostNext ELSE ep[Len(ep)] + 1
  /\ UNCHANGED <<Busy, UEP3_TX, ep>>
  /\ UNCHANGED <<loopVars, dmaVars, ringVars, upVars, timeVars, envVars>>

\* USBFS_IRQHandler, endpoint 3 IN.
InInterrupt ==
  /\ inPending /\ inPending' = FALSE
  /\ UEP3_TX' = "NAK" /\ Busy' = 0 /\ USB_Up_IngFlag' = 0
  /\ UNCHANGED <<ep, hostNext, USB_Up_Pack0_Flag>>
  /\ UNCHANGED <<loopVars, dmaVars, ringVars, timeVars, envVars>>

\* UART2_ParaInit: what was received and not uploaded is dropped.
ParaInit ==
  /\ UARTx_Rx_DMALastCount' = 0 /\ Rx_RemainLen' = 0 /\ Rx_DealPtr' = 0
  /\ Rx_TimeOut' = 0 /\ USB_Up_IngFlag' = 0 /\ USB_Up_TimeOut' = 0
  /\ USB_Up_Pack0_Flag' = 0
  /\ taken' = received

SafePoint == pc \in {"poll", "decide", "zlp"}

MutRestartDma == UNCHANGED CNTR

\* UART2_DMAInit(1, ...) starts the receive DMA at the head of the buffer.
RestartDma == CNTR' = RxLen

\* SET_LINE_CODING: UART2_USB_Init.  Endpoint 3 is left as it is.
SetLineCoding ==
  /\ ~inPending /\ resets < MaxReset /\ resets' = resets + 1
  /\ Quiet => SafePoint
  /\ ParaInit /\ RestartDma
  /\ UNCHANGED <<loopVars, rbuf, received, lag, epVars, busResets, clears>>

\* USB bus reset: the receive DMA goes on where it is.  A quiet one comes, as at
\* enumeration, while the DMA stands at the head of the buffer.
BusReset ==
  /\ ~inPending /\ busResets < MaxBusReset /\ busResets' = busResets + 1
  /\ Quiet => SafePoint /\ CNTR = RxLen
  /\ ParaInit
  /\ UEP3_TX' = "NAK" /\ Busy' = 0
  /\ UNCHANGED <<loopVars, dmaVars, ep, inPending, hostNext, lag, resets, clears>>

SetHalt ==
  /\ ~inPending /\ clears < MaxClear
  /\ UEP3_TX' = "STALL"
  /\ UNCHANGED <<Busy, ep, inPending, hostNext>>
  /\ UNCHANGED <<loopVars, dmaVars, ringVars, upVars, timeVars, envVars>>

\* Clearing the halt leaves the endpoint without the packet it was armed with.
ClearHalt ==
  /\ ~inPending /\ clears < MaxClear /\ clears' = clears + 1
  /\ UEP3_TX' = "NAK"
  /\ UNCHANGED <<Busy, ep, inPending, hostNext, resets, busResets>>
  /\ UNCHANGED <<loopVars, dmaVars, ringVars, upVars, timeVars>>

-----------------------------------------------------------------------------
MainLoop == \/ Poll \/ DecideUpload \/ GiveUp \/ NothingToDecide \/ Load
            \/ DecideZlp \/ LoadZlp

Usb == HostRead \/ InInterrupt \/ SetLineCoding \/ BusReset \/ SetHalt \/ ClearHalt

Next == MainLoop \/ UartByte \/ Tick \/ Usb

Spec == Init /\ [][Next]_vars

\* The main loop and the timer never stop and an interrupt is served.  The host
\* need not read anything.
Fairness == WF_vars(MainLoop) /\ WF_vars(Tick) /\ WF_vars(InInterrupt)

FairSpec == Spec /\ Fairness

-----------------------------------------------------------------------------
(* Properties.                                                             *)

\* Every variable keeps its declared width; the buffer indices stay inside.
TypeOK ==
  /\ pc \in {"poll", "decide", "load", "zlp", "loadzlp"}
  /\ packlen \in 0..PackSize
  /\ CNTR \in 1..RxLen /\ rbuf \in [0..RxLen-1 -> Int]
  /\ UARTx_Rx_DMALastCount \in 0..RxLen
  /\ Rx_RemainLen \in 0..RxLen /\ Rx_DealPtr \in 0..RxLen-1
  /\ Rx_TimeOut \in 0..MaxU8 /\ USB_Up_TimeOut \in 0..MaxU16
  /\ USB_Up_IngFlag \in Bit /\ USB_Up_Pack0_Flag \in Bit /\ Busy \in Bit
  /\ UEP3_TX \in {"ACK", "NAK", "STALL"}
  /\ ep \in Seq(Int) /\ Len(ep) <= PackSize
  /\ inPending \in BOOLEAN /\ lag \in Bit
  /\ received \in Nat /\ taken \in Nat /\ hostNext \in Int

Waiting == received - taken

\* Rx_RemainLen, with what the DMA stored since it was last updated, is the
\* number of bytes that were received and not processed.
RemainIsUnprocessed ==
  Rx_RemainLen + NewBytes(UARTx_Rx_DMALastCount, CNTR) = Waiting

\* The unprocessed bytes lie at Rx_DealPtr onwards and none was overwritten.
WaitingIntact ==
  \A i \in 0..Waiting-1 : rbuf[(Rx_DealPtr + i) % RxLen] = taken + i

\* The host is never given a byte twice, or out of order.
HostInOrder ==
  UEP3_TX = "ACK" /\ ~inPending /\ ep # <<>> =>
    /\ ep[1] >= hostNext
    /\ \A i \in 1..Len(ep) : ep[i] = ep[1] + i - 1

\* Bytes that leave the receive buffer were put into the endpoint.
UploadNotDropped == [][taken' > taken /\ Load => ep' # ep /\ UEP3_TX' = "ACK"]_vars

\* Every byte off the line leaves the receive buffer, even if the host stops
\* reading: the upload timeout frees the way.
BufferDrains == \A k \in 1..MaxBytes : received >= k ~> taken >= k

\* A host that has the port open: it keeps reading endpoint 3 and has no reason
\* to reset or halt it.
HostReads == /\ [](busResets = 0 /\ clears = 0 /\ UEP3_TX # "STALL")
             /\ []<>(UEP3_TX # "ACK" \/ inPending)

\* With a host that reads, a full packet is followed by the ZLP (or by the end of
\* the session): the host's transfer does not stay open.
ZlpSent == HostReads => (USB_Up_Pack0_Flag = 1 ~> USB_Up_Pack0_Flag = 0)
=============================================================================

------------------------------- MODULE BleUsb -------------------------------
(***************************************************************************)
(* BLE/BLE_USB: a bridge between a USB host (bulk endpoint 2) and a phone.   *)
(*                                                                          *)
(* The USB interrupt writes OUT packets to the ring RingMemUSB; an event of  *)
(* the TMOS task empties it by notifications, a while loop whose statements  *)
(* the interrupt may come between (pc).  What the phone writes goes to the   *)
(* ring RingMemBLE in the TMOS task itself; another event, repeated every    *)
(* five ticks, moves it to the IN endpoint.                                  *)
(*                                                                          *)
(* The ring functions disable interrupts and enable them again, except when  *)
(* the length does not fit: then interrupts stay disabled (irq).             *)
(*                                                                          *)
(* The controller raises one interrupt for a transaction and answers NAK     *)
(* until it is served (pend).  Bytes are numbered in each direction.         *)
(***************************************************************************)
EXTENDS RingMem, Integers

CONSTANTS OutLens,         \* lengths of the packets of the USB host (at most 64)
          WriteLens,       \* lengths of the writes of the phone
          SendMax,         \* most bytes of an IN packet (32)
          Payloads,        \* peripheralMTU - 3
          DefaultPayload,  \* ATT_MTU_SIZE - 3 (20)
          MaxUsb, MaxBle,  \* bounds on the bytes of each direction
          MaxTrouble       \* bound on lost handshakes, bus resets and dropped links

ASSUME LenAssumption == /\ SendMax \in Nat \ {0}
                        /\ OutLens \cup WriteLens \cup Payloads \subseteq Nat \ {0}
                        /\ DefaultPayload \in Payloads
ASSUME BoundAssumption == {MaxUsb, MaxBle, MaxTrouble} \subseteq Nat

VARIABLES RingMemUSB, RingMemBLE,
          irq,              \* interrupts are enabled
          evtUSB, evtBLE,   \* SBP_PROCESS_USBDATA_EVT and ..BLEDATA_EVT are set
          timerUSB, timerBLE, \* tmos_start_task will set them
          pc, all, buf,     \* the event handler: next statement, branch, buffer
          conn, payload,    \* connHandle is valid; peripheralMTU - 3
          pend,             \* transaction whose interrupt is not served
          outBuf, tokenTog, \* OUT packet and its toggle
          rxTog,            \* USBFS_UEP_R_TOG of endpoint 2
          inBuf, inLen, txRes, \* IN buffer, UEP2_TX_LEN, response
          hostTog, hostUnacked, \* host: toggle, length of the packet to repeat
          hostSent, phoneSent, \* bytes sent by the USB host, bytes written by the phone
          owedUSB, owedBLE, \* ghosts: bytes that entered the rings and were not notified
                            \* to the phone, not fetched by the host
          appended,         \* ghost: a packet entered between two readings of CurrentLen
          overwritten,      \* ghost: an IN packet was replaced before it was fetched
          troubles

rings == <<RingMemUSB, RingMemBLE, owedUSB, owedBLE>>
task == <<pc, all, buf>>
events == <<evtUSB, evtBLE, timerUSB, timerBLE>>
link == <<conn, payload>>
outEp == <<outBuf, tokenTog, rxTog>>
inEp == <<inBuf, inLen, txRes>>
usbHost == <<hostTog, hostUnacked, hostSent>>
marks == <<appended, overwritten>>
vars == <<rings, irq, task, events, link, pend, outEp, inEp, usbHost, phoneSent, troubles,
          marks>>

(* After Peripheral_Init and the bus reset of the enumeration; no phone yet. *)
Init ==
  /\ RingMemUSB = EmptyRing /\ RingMemBLE = EmptyRing
  /\ owedUSB = <<>> /\ owedBLE = <<>>
  /\ irq = TRUE
  /\ evtUSB = FALSE /\ evtBLE = FALSE /\ timerUSB = FALSE /\ timerBLE = FALSE
  /\ pc = "idle" /\ all = FALSE /\ buf = <<>>
  /\ conn = FALSE /\ payload = DefaultPayload
  /\ pend = "none" /\ outBuf = <<>> /\ tokenTog = 0 /\ rxTog = 0
  /\ inBuf = <<>> /\ inLen = 0 /\ txRes = "NAK"
  /\ hostTog = 0 /\ hostUnacked = 0 /\ hostSent = 0 /\ phoneSent = 0
  /\ troubles = 0
  /\ appended = FALSE /\ overwritten = FALSE

-----------------------------------------------------------------------------
(* The USB host and its controller. *)

Numbers(first, n) == [i \in 1 .. n |-> first + i - 1]

(* An OUT packet.  When its handshake is lost the host repeats it with the *)
(* same toggle.                                                            *)
HostOut(n) ==
  /\ pend = "none"
  /\ hostSent + n <= MaxUsb
  /\ hostUnacked \in {0, n}
  /\ pend' = "out"
  /\ outBuf' = Numbers(hostSent + 1, n)
  /\ tokenTog' = hostTog
  /\ \/ /\ hostTog' = 1 - hostTog /\ hostSent' = hostSent + n /\ hostUnacked' = 0
        /\ UNCHANGED troubles
     \/ /\ troubles < MaxTrouble /\ troubles' = troubles + 1
        /\ hostUnacked' = n
        /\ UNCHANGED <<hostTog, hostSent>>
  /\ UNCHANGED <<rings, irq, task, events, link, rxTog, inEp, phoneSent, marks>>

HostIn ==
  /\ pend = "none" /\ txRes = "ACK"
  /\ pend' = "in"
  /\ owedBLE' = SubSeq(owedBLE, inLen + 1, Len(owedBLE))
  /\ UNCHANGED <<RingMemUSB, RingMemBLE, owedUSB, irq, task, events, link, outEp, inEp, usbHost,
                 phoneSent, troubles, marks>>

(* A bus reset: the host gives up a packet it would repeat. *)
HostReset ==
  /\ pend = "none" /\ troubles < MaxTrouble
  /\ troubles' = troubles + 1
  /\ pend' = "reset"
  /\ hostTog' = 0 /\ hostUnacked' = 0 /\ hostSent' = hostSent + hostUnacked
  /\ UNCHANGED <<rings, irq, task, events, link, outEp, inEp, phoneSent, marks>>

-----------------------------------------------------------------------------
(* USBFS_IRQHandler. *)

(* The handler reads CurrentLen several times for one notification of all   *)
(* there is.  A packet that arrives while interrupts are disabled by an      *)
(* overflow is served when RingMemCopy enables them, in the midst of that.   *)
InWindow == all /\ pc \in {"copy", "notify", "delete"}

Due == irq /\ pend # "none"

(* Mutant: the toggle is not looked at. *)
MutTogOk == TRUE

(* USBFS_UIS_TOG_OK: the packet is not a repeated one. *)
TogOk == tokenTog = rxTog

(* DevEP2_OUT_Deal: a packet that does not fit is dropped, and interrupts stay off. *)
OutInterrupt ==
  /\ Due /\ pend = "out"
  /\ pend' = "none"
  /\ IF TogOk
       THEN /\ rxTog' = 1 - rxTog
            /\ evtUSB' = TRUE
            /\ irq' = Fits(RingMemUSB, Len(outBuf))
            /\ IF Fits(RingMemUSB, Len(outBuf))
                 THEN /\ RingMemUSB' = Write(RingMemUSB, outBuf)
                      /\ appended' = (appended \/ InWindow)
                      /\ owedUSB' = IF appended' THEN <<>> ELSE owedUSB \o outBuf
                 ELSE UNCHANGED <<RingMemUSB, owedUSB, appended>>
       ELSE UNCHANGED <<rxTog, evtUSB, irq, RingMemUSB, owedUSB, appended>>
  /\ outBuf' = <<>> /\ tokenTog' = 0
  /\ UNCHANGED <<RingMemBLE, owedBLE, task, evtBLE, timerUSB, timerBLE, link, inEp, usbHost,
                 phoneSent, troubles, overwritten>>

(* Mutant: the endpoint goes on answering with the packet that was fetched. *)
MutInInterrupt ==
  /\ Due /\ pend = "in"
  /\ pend' = "none"
  /\ UNCHANGED <<rings, irq, task, events, link, outEp, inEp, usbHost, phoneSent, troubles, marks>>

InInterrupt ==
  /\ Due /\ pend = "in"
  /\ pend' = "none"
  /\ txRes' = "NAK"
  /\ UNCHANGED <<rings, irq, task, events, link, outEp, inBuf, inLen, usbHost, phoneSent, troubles, marks>>

(* The bytes of an IN packet that the host has not fetched. *)
Unfetched == CASE pc = "send" -> buf
               [] pc # "send" /\ txRes = "ACK" /\ pend # "in" -> SubSeq(inBuf, 1, inLen)
               [] OTHER -> <<>>

(* USBFS_UIF_BUS_RST: a packet in the IN endpoint is given up. *)
ResetInterrupt ==
  /\ Due /\ pend = "reset"
  /\ pend' = "none"
  /\ rxTog' = 0 /\ txRes' = "NAK"
  /\ owedBLE' = IF overwritten THEN <<>> ELSE (IF pc = "send" THEN buf ELSE <<>>) \o Contents(RingMemBLE)
  /\ UNCHANGED <<RingMemUSB, RingMemBLE, owedUSB, irq, task, events, link, outBuf, tokenTog,
                 inBuf, inLen, usbHost, phoneSent, troubles, marks>>

-----------------------------------------------------------------------------
(* The event SBP_PROCESS_USBDATA_EVT. *)

Step(from, to) == ~Due /\ pc = from /\ pc' = to

Rest == UNCHANGED <<link, pend, outEp, usbHost, troubles, marks>>

(* The locals of the handler are gone. *)
EndOfScope == all' = FALSE /\ buf' = <<>>

(* An event that is set is served: set_event by an interrupt or a callback, or *)
(* the timer of tmos_start_task that ran out, or both.                          *)
Served(event, timer, newEvent, newTimer) ==
  /\ event \/ timer
  /\ newEvent = FALSE
  /\ newTimer \in {FALSE, timer /\ event}

UsbEvent ==
  /\ Step("idle", "while")
  /\ Served(evtUSB, timerUSB, evtUSB', timerUSB')
  /\ UNCHANGED <<rings, irq, all, buf, evtBLE, timerBLE, inEp, phoneSent>> /\ Rest

WhileData ==
  /\ RingMemUSB.CurrentLen # 0
  /\ Step("while", "copy")
  /\ all' = (RingMemUSB.CurrentLen <= payload)
  /\ UNCHANGED <<rings, irq, buf, events, inEp, phoneSent>> /\ Rest

WhileEnds ==
  /\ RingMemUSB.CurrentLen = 0
  /\ Step("while", "idle")
  /\ UNCHANGED <<rings, irq, all, buf, events, inEp, phoneSent>> /\ Rest

(* The length each statement passes on: all there is by now, or a full one. *)
Length == IF all THEN RingMemUSB.CurrentLen ELSE payload

CopyData ==
  /\ Step("copy", "notify")
  /\ buf' = Copy(RingMemUSB, Length)
  /\ irq' = TRUE
  /\ UNCHANGED <<rings, all, events, inEp, phoneSent>> /\ Rest

(* The stack takes the notification: as many bytes as there are by now, some *)
(* of which were never copied.                                               *)
Notify ==
  /\ conn /\ Length <= payload
  /\ Step("notify", "delete")
  /\ owedUSB' = SubSeq(owedUSB, Length + 1, Len(owedUSB))
  /\ UNCHANGED <<RingMemUSB, RingMemBLE, owedBLE, irq, all, buf, events, inEp, phoneSent>> /\ Rest

(* No connection, no buffer, notifications disabled, or too long: try again later. *)
NotifyFails ==
  /\ Step("notify", "idle")
  /\ timerUSB' = TRUE
  /\ EndOfScope
  /\ UNCHANGED <<rings, irq, evtUSB, evtBLE, timerBLE, inEp, phoneSent>> /\ Rest

DeleteData ==
  /\ Step("delete", "while")
  /\ RingMemUSB' = Delete(RingMemUSB, Length)
  /\ irq' = TRUE
  /\ EndOfScope
  /\ UNCHANGED <<RingMemBLE, owedUSB, owedBLE, events, inEp, phoneSent>> /\ Rest

-----------------------------------------------------------------------------
(* The event SBP_PROCESS_BLEDATA_EVT. *)

(* Mutant: the test as it was meant. *)
MutEndpointBusy == txRes = "ACK"

(* USBSendData asks UEP2_TX_CTRL & USBFS_UEP_T_RES_MASK == USBFS_UEP_T_RES_ACK, *)
(* which is UEP2_TX_CTRL & (MASK == ACK), that is, UEP2_TX_CTRL & 0.            *)
EndpointBusy == FALSE

Fetched == txRes # "ACK" \/ pend \in {"in", "reset"}

BleEvent ==
  /\ \E timer \in BOOLEAN :
       /\ Served(evtBLE, timerBLE, evtBLE', timer)
       /\ IF RingMemBLE.CurrentLen = 0 \/ EndpointBusy
            THEN /\ Step("idle", "idle")
                 /\ UNCHANGED overwritten
                 /\ timerBLE' = (timer \/ RingMemBLE.CurrentLen # 0)
                 /\ UNCHANGED <<rings, irq, inBuf, buf>>
            ELSE LET n == IF RingMemBLE.CurrentLen > SendMax THEN SendMax
                                                             ELSE RingMemBLE.CurrentLen
                 IN /\ Step("idle", "send")
                    /\ overwritten' = (overwritten \/ ~Fetched)
                    /\ owedBLE' = IF overwritten' THEN <<>> ELSE owedBLE
                    /\ timerBLE' = timer
                    /\ buf' = Copy(RingMemBLE, n)
                    /\ inBuf' = buf' \o SubSeq(inBuf, n + 1, Len(inBuf))
                    /\ RingMemBLE' = Delete(RingMemBLE, n)
                    /\ irq' = TRUE
                    /\ UNCHANGED <<RingMemUSB, owedUSB>>
  /\ UNCHANGED <<all, evtUSB, timerUSB, inLen, txRes, phoneSent, link, pend, outEp, usbHost, troubles,
                 appended>>

(* Mutant: the event is not started again. *)
MutInDeal ==
  /\ Step("send", "idle")
  /\ inLen' = Len(buf)
  /\ txRes' = "ACK"
  /\ EndOfScope
  /\ UNCHANGED <<rings, irq, events, inBuf, phoneSent>> /\ Rest

(* DevEP2_IN_Deal, and the event again in five ticks. *)
InDeal ==
  /\ Step("send", "idle")
  /\ inLen' = Len(buf)
  /\ txRes' = "ACK"
  /\ timerBLE' = TRUE
  /\ EndOfScope
  /\ UNCHANGED <<rings, irq, evtUSB, evtBLE, timerUSB, inBuf, phoneSent>> /\ Rest

-----------------------------------------------------------------------------
(* The rest of the TMOS task: connection, the phone's writes. *)

(* Peripheral_LinkEstablished, ATT_MTU_UPDATED_EVENT, Peripheral_LinkTerminated. *)
LinkEvent ==
  /\ Step("idle", "idle")
  /\ \/ ~conn /\ conn' = TRUE /\ payload' = DefaultPayload /\ UNCHANGED troubles
     \/ conn /\ payload' \in {p \in Payloads : p > payload} /\ UNCHANGED <<conn, troubles>>
     \/ conn /\ troubles < MaxTrouble /\ troubles' = troubles + 1 /\ conn' = FALSE /\ UNCHANGED payload
  /\ UNCHANGED <<rings, irq, all, buf, events, pend, outEp, inEp, usbHost, phoneSent, marks>>

(* ble_usb_ServiceEvt: what does not fit is dropped, and interrupts stay off. *)
PhoneWrite(n) ==
  /\ Step("idle", "idle")
  /\ conn /\ phoneSent + n <= MaxBle
  /\ phoneSent' = phoneSent + n
  /\ evtBLE' = TRUE
  /\ irq' = Fits(RingMemBLE, n)
  /\ IF Fits(RingMemBLE, n)
       THEN /\ RingMemBLE' = Write(RingMemBLE, Numbers(phoneSent + 1, n))
            /\ owedBLE' = IF overwritten THEN <<>> ELSE owedBLE \o Numbers(phoneSent + 1, n)
       ELSE UNCHANGED <<RingMemBLE, owedBLE>>
  /\ UNCHANGED <<RingMemUSB, owedUSB, all, buf, evtUSB, timerUSB, timerBLE, inEp>> /\ Rest

-----------------------------------------------------------------------------
Interrupt == OutInterrupt \/ InInterrupt \/ ResetInterrupt
Host == (\E n \in OutLens : HostOut(n)) \/ HostIn \/ HostReset
Loop == WhileData \/ WhileEnds \/ CopyData \/ Notify \/ NotifyFails \/ DeleteData \/ InDeal

Next ==
  \/ Host \/ Interrupt \/ Loop
  \/ UsbEvent \/ BleEvent \/ LinkEvent
  \/ \E n \in WriteLens : PhoneWrite(n)

Spec == Init /\ [][Next]_vars

(* Enabled interrupts are served and the task goes on with its handler.  The  *)
(* scheduler serves every event that is set: a retry waits 80 ticks, so a       *)
(* handler that runs again and again leaves time for the others.  The host     *)
(* reads the IN endpoint; of the notifications that are tried again and again  *)
(* the stack takes one.                                                       *)
FairSpec ==
  /\ Spec
  /\ WF_vars(Interrupt \/ Loop) /\ WF_vars(HostIn)
  /\ SF_vars(UsbEvent) /\ SF_vars(BleEvent) /\ SF_vars(Notify)

-----------------------------------------------------------------------------
(* Properties. *)

TypeOK ==
  /\ RingOK(RingMemUSB) /\ RingOK(RingMemBLE)
  /\ {irq, evtUSB, evtBLE, timerUSB, timerBLE, all, conn} \subseteq BOOLEAN
  /\ pc \in {"idle", "while", "copy", "notify", "delete", "send"}
  /\ payload \in Payloads
  /\ pend \in {"none", "in", "out", "reset"}
  /\ {tokenTog, rxTog, hostTog} \subseteq {0, 1}
  /\ txRes \in {"ACK", "NAK"}
  /\ inLen <= Len(inBuf)
  /\ hostSent \in 0 .. MaxUsb /\ phoneSent \in 0 .. MaxBle

Increasing(s) == \A i \in 1 .. Len(s) - 1 : s[i] < s[i + 1]

(* The bytes that entered the ring and were not notified yet wait there in    *)
(* their order, each once, with retries, repeated packets and changes of the   *)
(* MTU, and the oldest are what is notified next.  Only a packet that enters    *)
(* between two readings of CurrentLen may break it.                           *)
UsbToBle ==
  LET rest == Contents(RingMemUSB)
  IN appended
     \/ /\ Increasing(owedUSB)
        /\ owedUSB = IF pc = "delete" THEN SubSeq(rest, Length + 1, Len(rest)) ELSE rest
        /\ pc = "notify" => buf = SubSeq(owedUSB, 1, Length)

(* The bytes that entered the other ring and were not fetched yet are, each    *)
(* once and in order, in the endpoint and in the ring.  Only a packet that      *)
(* replaces one the host has not fetched may break it.                         *)
BleToUsb ==
  overwritten
  \/ /\ Increasing(owedBLE)
     /\ pend # "reset" => Unfetched \o Contents(RingMemBLE) = owedBLE

(* A ring that overflows leaves interrupts disabled: whoever reads a ring next *)
(* enables them again, and somebody does, although no interrupt is served.     *)
InterruptsReturn == ~irq ~> irq

(* Both rings are emptied: no event is missed between the interrupt that sets *)
(* it and the handler that ends.                                              *)
RingsDrain == <>[](RingMemBLE.CurrentLen = 0) /\ ([]<>~conn \/ <>[](RingMemUSB.CurrentLen = 0))

==============================================================================

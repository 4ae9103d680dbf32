------------------------------- MODULE BleUart -------------------------------
(***************************************************************************)
(* BLE/BLE_UART: a bridge between a serial line (USART3) and a phone.        *)
(*                                                                          *)
(* The USART3 interrupt pushes the bytes of the line to app_uart_rx_fifo; a  *)
(* TMOS event takes them out in packets and notifies the phone, with a       *)
(* retry for what the stack refuses.  What the phone writes goes to          *)
(* app_uart_tx_fifo, which the main loop empties to the line, and back to    *)
(* app_uart_rx_fifo ("notify back test"), which so has two producers.        *)
(*                                                                          *)
(* The main loop runs TMOS and app_uart_process in turn, one thread; the     *)
(* interrupt comes between any two accesses to app_uart_rx_fifo (pc).        *)
(***************************************************************************)
EXTENDS AppFifo

CONSTANTS MtuData,    \* ATT_GetMTU - 3 (20, a constant of the build)
          Retries,    \* passes that wait for a full packet (10)
          WriteLens,  \* lengths of the writes of the phone
          MaxUart, MaxPhone, \* bounds on the bytes of the line and of the phone
          MaxLinks,   \* bound on dropped connections and disabled notifications
          Start       \* bytes that went through each FIFO before

ASSUME PacketAssumption == /\ MtuData \in 1 .. Size /\ Retries \in Nat
                           /\ WriteLens \subseteq Nat \ {0}
ASSUME BoundAssumption == {MaxUart, MaxPhone, MaxLinks, Start} \subseteq Nat

VARIABLES rx, tx,             \* app_uart_rx_fifo, app_uart_tx_fifo
          uart_rx_flag,
          timer, evt,         \* tmos_start_task was called; UART_TO_BLE_SEND_EVT is set
          send_to_ble_state,
          cnt,                \* uart_to_ble_send_evt_cnt
          packet,             \* the read_length bytes of to_test_buffer
          conn, notify,       \* connHandle is valid; notifications are enabled
          pc,                 \* the next statement of the thread
          todo, reg,          \* bytes left to read or write; index in a register
          uartSent, phoneSent,
          owed, owedTx,       \* ghosts: bytes that entered rx and were neither notified
                              \* nor flushed; bytes that entered tx and were not sent
          collided,           \* ghost: the interrupt pushed while the callback did
          links

fifos == <<rx, tx>>
events == <<timer, evt>>
sender == <<send_to_ble_state, cnt, packet>>
link == <<conn, notify, links>>
thread == <<pc, todo, reg>>
sent == <<uartSent, phoneSent>>
ghosts == <<owed, owedTx, collided>>
vars == <<fifos, uart_rx_flag, events, sender, link, thread, sent, ghosts>>

Failed == {"ALLOC_FAILED", "SEND_FAILED"}

(* The FIFOs are empty, as after app_uart_init or when some bytes went through. *)
Init ==
  /\ rx = UsedFifo(Start) /\ tx = UsedFifo(Start)
  /\ uart_rx_flag = FALSE /\ timer = FALSE /\ evt = FALSE
  /\ send_to_ble_state = "TO_SEND" /\ cnt = 0 /\ packet = <<>>
  /\ conn = FALSE /\ notify = FALSE /\ links = 0
  /\ pc = "idle" /\ todo = <<>> /\ reg = 0
  /\ uartSent = 0 /\ phoneSent = 0
  /\ owed = <<>> /\ owedTx = <<>>
  /\ collided = FALSE

-----------------------------------------------------------------------------
(* The interrupt. *)

(* The callback is writing to app_uart_rx_fifo. *)
CallbackWrites == pc \in {"load", "put", "increment", "store"}

(* USART3_IRQHandler: a byte that finds the FIFO full is dropped. *)
UartByte ==
  /\ uartSent < MaxUart
  /\ uartSent' = uartSent + 1
  /\ uart_rx_flag' = TRUE
  /\ IF Available(rx) # 0
       THEN rx' = Push(rx, uartSent') /\ owed' = Append(owed, uartSent')
       ELSE UNCHANGED <<rx, owed>>
  /\ collided' = (collided \/ CallbackWrites)
  /\ UNCHANGED <<tx, events, sender, link, thread, phoneSent, owedTx>>

-----------------------------------------------------------------------------
(* app_uart_process. *)

Step(from, to) == pc = from /\ pc' = to

(* The flag is tested with interrupts disabled. *)
TestFlag ==
  /\ uart_rx_flag \/ Length(tx) # 0
  /\ Step("idle", "drain")
  /\ timer' = (timer \/ uart_rx_flag)
  /\ uart_rx_flag' = FALSE
  /\ UNCHANGED <<fifos, evt, sender, link, todo, reg, sent, ghosts>>

(* One byte to the line, then wait for TXE. *)
SendByte ==
  /\ pc = "drain" /\ Length(tx) # 0
  /\ owedTx' = SubSeq(owedTx, 2, Len(owedTx))
  /\ tx' = [tx EXCEPT !.begin = Next16(@)]
  /\ UNCHANGED <<rx, uart_rx_flag, events, sender, link, thread, sent, owed, collided>>

Drained ==
  /\ Step("drain", "idle")
  /\ Length(tx) = 0
  /\ UNCHANGED <<fifos, uart_rx_flag, events, sender, link, todo, reg, sent, ghosts>>

-----------------------------------------------------------------------------
(* The event UART_TO_BLE_SEND_EVT. *)

(* The timer of tmos_start_task runs out. *)
Expire ==
  /\ timer /\ timer' = FALSE /\ evt' = TRUE
  /\ UNCHANGED <<fifos, uart_rx_flag, sender, link, thread, sent, ghosts>>

Serve == pc = "idle" /\ evt /\ evt' = FALSE

(* Mutant: a packet that is not full is sent only when the next byte comes. *)
MutWaitForMore ==
  /\ Serve /\ send_to_ble_state = "TO_SEND" /\ notify
  /\ Length(rx) < MtuData /\ cnt <= Retries
  /\ cnt' = cnt + 1
  /\ UNCHANGED <<fifos, uart_rx_flag, timer, send_to_ble_state, packet, link, thread, sent,
                 ghosts>>

(* Less than a packet: look again in four ticks. *)
WaitForMore ==
  /\ Serve /\ send_to_ble_state = "TO_SEND" /\ notify
  /\ Length(rx) < MtuData /\ cnt <= Retries
  /\ cnt' = cnt + 1
  /\ timer' = TRUE
  /\ UNCHANGED <<fifos, uart_rx_flag, send_to_ble_state, packet, link, thread, sent, ghosts>>

(* Mutant: the result of app_drv_fifo_read is not looked at. *)
MutReadPacket ==
  /\ Serve /\ send_to_ble_state = "TO_SEND" /\ notify
  /\ Length(rx) >= MtuData \/ cnt > Retries
  /\ cnt' = 0
  /\ packet' = <<>>
  /\ reg' = IF Length(rx) < MtuData THEN Length(rx) ELSE MtuData
  /\ pc' = IF reg' = 0 THEN "notify" ELSE "take"
  /\ UNCHANGED <<fifos, uart_rx_flag, timer, send_to_ble_state, link, todo, sent, ghosts>>

(* A full packet, or what there is after enough passes: app_drv_fifo_read. *)
ReadPacket ==
  /\ Serve /\ send_to_ble_state = "TO_SEND" /\ notify
  /\ Length(rx) >= MtuData \/ cnt > Retries
  /\ cnt' = 0
  /\ packet' = <<>>
  /\ reg' = IF Length(rx) < MtuData THEN Length(rx) ELSE MtuData
  /\ pc' = IF reg' = 0 THEN "idle" ELSE "take"
  /\ UNCHANGED <<fifos, uart_rx_flag, timer, send_to_ble_state, link, todo, sent, ghosts>>

(* data[index] = fifo->data[fifo->begin & fifo->size_mask]. *)
TakeByte ==
  /\ Step("take", "pop")
  /\ packet' = Append(packet, First(rx))
  /\ UNCHANGED <<fifos, uart_rx_flag, events, send_to_ble_state, cnt, link, todo, reg, sent,
                 ghosts>>

(* fifo->begin++. *)
PopByte ==
  /\ pc = "pop"
  /\ rx' = [rx EXCEPT !.begin = Next16(@)]
  /\ pc' = IF Len(packet) = reg THEN "notify" ELSE "take"
  /\ reg' = IF Len(packet) = reg THEN 0 ELSE reg
  /\ UNCHANGED <<tx, uart_rx_flag, events, sender, link, todo, sent, ghosts>>

(* Mutant: the packet is read anew after a failure. *)
MutRetry ==
  /\ Serve /\ send_to_ble_state \in Failed
  /\ send_to_ble_state' = "TO_SEND"
  /\ timer' = TRUE
  /\ UNCHANGED <<fifos, uart_rx_flag, cnt, packet, link, thread, sent, ghosts>>

(* A packet that failed is tried again. *)
Retry ==
  /\ Serve /\ send_to_ble_state \in Failed
  /\ pc' = "notify"
  /\ UNCHANGED <<fifos, uart_rx_flag, timer, sender, link, todo, reg, sent, ghosts>>

(* ble_uart_notify succeeds. *)
Notified ==
  /\ Step("notify", "idle")
  /\ conn /\ notify
  /\ owed' = SubSeq(owed, Len(packet) + 1, Len(owed))
  /\ packet' = <<>>
  /\ send_to_ble_state' = "TO_SEND"
  /\ timer' = TRUE
  /\ UNCHANGED <<fifos, uart_rx_flag, evt, cnt, link, todo, reg, sent, owedTx, collided>>

(* No buffer, or ble_uart_notify fails. *)
NotNotified ==
  /\ Step("notify", "idle")
  /\ send_to_ble_state' \in Failed
  /\ timer' = TRUE
  /\ UNCHANGED <<fifos, uart_rx_flag, evt, cnt, packet, link, todo, reg, sent, ghosts>>

(* Notifications are disabled: the bytes wait for the next event. *)
NotReady ==
  /\ Serve /\ send_to_ble_state = "TO_SEND" /\ ~notify /\ conn
  /\ UNCHANGED <<fifos, uart_rx_flag, timer, sender, link, thread, sent, ghosts>>

(* The connection is lost: app_drv_fifo_flush, begin first ... *)
Flush ==
  /\ Serve /\ send_to_ble_state = "TO_SEND" /\ ~notify /\ ~conn
  /\ rx' = [rx EXCEPT !.begin = 0]
  /\ pc' = "flush"
  /\ UNCHANGED <<tx, uart_rx_flag, timer, sender, link, todo, reg, sent, ghosts>>

(* ... then end, and with it a byte that came in between. *)
FlushEnd ==
  /\ Step("flush", "idle")
  /\ rx' = [rx EXCEPT !.end = 0]
  /\ owed' = <<>>
  /\ UNCHANGED <<tx, uart_rx_flag, events, sender, link, todo, reg, sent, owedTx, collided>>

-----------------------------------------------------------------------------
(* on_bleuartServiceEvt: the phone writes. *)

PhoneBytes(n) == [i \in 1 .. n |-> MaxUart + phoneSent + i]

(* app_drv_fifo_write to app_uart_rx_fifo looks at the room once.  The write to  *)
(* app_uart_tx_fifo, which no interrupt touches, is made with it.               *)
PhoneWrite(n) ==
  /\ pc = "idle" /\ conn
  /\ phoneSent + n <= MaxPhone
  /\ phoneSent' = phoneSent + n
  /\ todo' = Accepted(rx, PhoneBytes(n))
  /\ pc' = IF todo' = <<>> THEN "written" ELSE "load"
  /\ tx' = WriteAll(tx, Accepted(tx, PhoneBytes(n)))
  /\ owedTx' = owedTx \o Accepted(tx, PhoneBytes(n))
  /\ UNCHANGED <<rx, uart_rx_flag, events, sender, link, reg, uartSent, owed, collided>>

(* fifo->data[fifo->end & fifo->size_mask] = data[index], ... *)
LoadEnd ==
  /\ Step("load", "put")
  /\ reg' = rx.end
  /\ UNCHANGED <<fifos, uart_rx_flag, events, sender, link, todo, sent, ghosts>>

PutByte ==
  /\ Step("put", "increment")
  /\ rx' = Put(rx, reg, Head(todo))
  /\ UNCHANGED <<tx, uart_rx_flag, events, sender, link, todo, reg, sent, ghosts>>

(* ... then fifo->end++. *)
ReloadEnd ==
  /\ Step("increment", "store")
  /\ reg' = rx.end
  /\ UNCHANGED <<fifos, uart_rx_flag, events, sender, link, todo, sent, ghosts>>

StoreEnd ==
  /\ pc = "store"
  /\ rx' = [rx EXCEPT !.end = Next16(reg)]
  /\ owed' = Append(owed, Head(todo))
  /\ todo' = Tail(todo)
  /\ reg' = 0
  /\ pc' = IF Len(todo) = 1 THEN "written" ELSE "load"
  /\ UNCHANGED <<tx, uart_rx_flag, events, sender, link, sent, owedTx, collided>>

(* tmos_start_task(.., UART_TO_BLE_SEND_EVT, 2). *)
WriteDone ==
  /\ Step("written", "idle")
  /\ timer' = TRUE
  /\ UNCHANGED <<fifos, uart_rx_flag, evt, sender, link, todo, reg, sent, ghosts>>

-----------------------------------------------------------------------------
(* Connections and the client configuration of the notification. *)

Connect ==
  /\ pc = "idle" /\ ~conn
  /\ conn' = TRUE
  /\ UNCHANGED <<fifos, uart_rx_flag, events, sender, notify, links, thread, sent, ghosts>>

EnableNotify ==
  /\ pc = "idle" /\ conn /\ ~notify
  /\ notify' = TRUE
  /\ UNCHANGED <<fifos, uart_rx_flag, events, sender, conn, links, thread, sent, ghosts>>

(* Peripheral_LinkTerminated, or only the client configuration is reset. *)
Disconnect ==
  /\ pc = "idle" /\ conn /\ links < MaxLinks
  /\ links' = links + 1
  /\ notify' = FALSE
  /\ conn' \in BOOLEAN
  /\ UNCHANGED <<fifos, uart_rx_flag, events, sender, thread, sent, ghosts>>

-----------------------------------------------------------------------------
Process == TestFlag \/ SendByte \/ Drained
SendEvent == WaitForMore \/ ReadPacket \/ Retry \/ NotReady \/ Flush
Continue == TakeByte \/ PopByte \/ Notified \/ NotNotified \/ FlushEnd
            \/ LoadEnd \/ PutByte \/ ReloadEnd \/ StoreEnd \/ WriteDone

Next ==
  \/ UartByte
  \/ Process \/ Expire \/ SendEvent \/ Continue
  \/ \E n \in WriteLens : PhoneWrite(n)
  \/ Connect \/ EnableNotify \/ Disconnect

Spec == Init /\ [][Next]_vars

(* The main loop runs TMOS and app_uart_process in turn, so that the latter    *)
(* comes round however often an event is tried again; timers run out, a        *)
(* handler goes on.  Of the notifications that are tried again and again the *)
(* stack takes one.                                                          *)
FairSpec ==
  /\ Spec
  /\ WF_vars(Process) /\ WF_vars(Expire) /\ WF_vars(SendEvent) /\ WF_vars(Continue)
  /\ SF_vars(TestFlag) /\ SF_vars(Notified)

-----------------------------------------------------------------------------
(* Properties. *)

Byte == 1 .. MaxUart + MaxPhone

TypeOK ==
  /\ {rx.begin, rx.end, tx.begin, tx.end, reg} \subseteq 0 .. IndexMod - 1
  /\ \A a \in 0 .. Size - 1 : {rx.data[a], tx.data[a]} \subseteq Byte \cup {Blank}
  /\ {uart_rx_flag, timer, evt, conn, notify, collided} \subseteq BOOLEAN
  /\ send_to_ble_state \in Failed \cup {"TO_SEND"}
  /\ cnt \in 0 .. Retries + 1
  /\ Len(packet) <= MtuData
  /\ pc \in {"idle", "drain", "take", "pop", "notify", "flush",
             "load", "put", "increment", "store", "written"}
  /\ (send_to_ble_state \in Failed \/ pc = "notify") => packet # <<>>

(* The bytes taken from the line and not notified yet are, in their order, the  *)
(* packet and what waits in the FIFO: none is lost or notified twice through     *)
(* retries, lost connections and the interrupt at every statement of the reader. *)
(* Only an interrupt that pushes while the callback writes may break it.         *)
UartToBle ==
  LET rest == Waiting(rx)
  IN collided \/ pc = "flush"
     \/ packet \o (IF pc = "pop" THEN Tail(rest) ELSE rest) = owed

(* What the line is sent next is the oldest byte the phone wrote and the FIFO *)
(* had room for, also when its indices wrap.                                  *)
BleToUart == Waiting(tx) = owedTx

(* Neither FIFO loses, repeats or reorders a byte. *)
FifosKeepOrder == UartToBle /\ BleToUart

(* A byte that comes while notifications are enabled is notified, also one    *)
(* that does not fill a packet, one that comes while the event is served, and *)
(* after a collision; unless notifications are disabled first.                *)
BytesNotified == (uart_rx_flag /\ notify) ~> (~notify \/ (Length(rx) = 0 /\ packet = <<>>))

(* What the phone writes reaches the line. *)
LineServed == (Length(tx) # 0) ~> (Length(tx) = 0)

(* Both directions go on. *)
BytesServed == BytesNotified /\ LineServed

==============================================================================

# TLA+ models of the CH32V208 examples

This directory models, checks and proves properties of the programs in
`src/EVT/EXAM` that carry logic of their own. The repository is WCH's evaluation
package for the CH32V208 (a RISC-V microcontroller with USB, Ethernet and BLE):
some three hundred example programs around one peripheral library, two protocol
stacks delivered as binaries (BLE and WCHNET TCP/IP), and ports of third-party
kernels. Most examples are straight-line register demonstrations. The ones
modelled here are those in which several parties share state: an interrupt, the
main loop and a DMA; an interrupt and a scheduler's events; or flash and a power
failure.

Paths below are relative to `src/EVT/EXAM`.

| Path | Short name |
|---|---|
| `USB/USBFS/DEVICE/SimulateCDC/User/UART/UART.c` | UART.c |
| `USB/USBFS/DEVICE/SimulateCDC/User/USB_Device/ch32v20x_usbfs_device.c` | usbfs_device.c |
| `USB/USBFS/DEVICE/SimulateCDC/User/ch32v20x_it.c` | it.c |
| `BLE/BackupUpgrade_IAP/APP/peripheral_main.c` | the bootloader |
| `BLE/BackupUpgrade_OTA/APP/peripheral.c` | the OTA application |
| `BLE/BackupUpgrade_OTA/Profile/OTAprofile.c` | OTAprofile.c |
| `BLE/OnlyUpdateApp_IAP/APP/peripheral_main.c`, `peripheral.c` | the in-place bootloader: main, session |
| `BLE/OnlyUpdateApp_Peripheral/APP/peripheral.c` | the in-place application |
| `BLE/BLE_USB/APP/RingMem.c`, `peripheral.c`, `ch32v20x_usbfs_device.c` | RingMem.c, the USB task, the USB interrupt |
| `BLE/BLE_UART/APP/app_drv_fifo/app_drv_fifo.c`, `app_uart.c`, `peripheral.c` | app_drv_fifo.c, app_uart.c, the UART task |

## 1. Inventory

### SimulateCDC: a USB-to-UART bridge

The chip is a CDC serial port; bytes go both ways between a USB host and USART2.

*State.* One structure `Uart` (UART.h:49-76) that the main loop and two interrupt
handlers share, a transmit buffer used as a ring of 16 slots of 64 bytes, a
2048-byte circular receive buffer, the control registers of bulk endpoints 2
(OUT) and 3 (IN), two DMA channels, `USBFS_Endp_Busy`.

*Parties.* `main` calls `UART2_DataRx_Deal` and `UART2_DataTx_Deal` for ever.
`USBFS_IRQHandler` stores OUT packets, ends IN packets, serves SET_LINE_CODING
(reprograms UART and DMA, clears every counter), endpoint halts and bus resets.
`TIM2_IRQHandler` counts 100 us ticks. The transmit DMA takes a slot's bytes, the
receive DMA fills the circular buffer without any interrupt.

*Hard behaviour.* Parts of the main-loop functions run with the USBFS interrupt
disabled, the statements before them do not; the length of received data is
inferred from two readings of a counter that wraps; flow control is a flag, a
handshake register and a count that must stay in step; uploads time out, and a
full packet is followed by a zero-length one after a delay.

*Correct when:* the ring counters agree and no slot is overwritten before it was
sent; bytes leave in the order of acceptance, once; an endpoint told to refuse is
told to accept again; the receive length and pointer denote exactly the bytes not
uploaded yet; everything received is uploaded or given up in bounded time.

### Firmware upgrade with a backup image (BackupUpgrade_IAP, BackupUpgrade_OTA)

*State.* Flash: image A (runs), image B (backup), a flag page. The bootloader has
loop counters and one 4K buffer. The OTA application keeps a 512-byte assembly
buffer with its length, a program address, the erase progress and a verification
status.

*Operations.* Bootloader: read the flag; when it says IAP, copy B over A block by
block, switch the flag to A, erase B; jump to A. Application: ERASE (one block per
scheduler event), PROM, VERIFY, END (set the flag, reset), over a BLE
characteristic.

*Hard behaviour.* Power may fail in any flash operation, twice in a row, also
between the erase and the programming of the flag page. A download may be
abandoned and started again without a reset.

*Correct when:* whatever happens, the next boot finds a complete image; the
committed version runs in the end; what is committed is what the host sent.

### Firmware upgrade in place (OnlyUpdateApp_IAP, OnlyUpdateApp_Peripheral)

The same command session on the application's own flash: there is no backup, and
the bootloader itself holds the BLE connection. The application asks for an
upgrade by a flag and a software reset (`Jump_OTA`); ERASE marks the application
as incomplete, END marks it as complete and jumps. *Hard behaviour.* Each mark is
an erase and a program of a flag page; `RCC_FLAG_SFTRST` says whether the last
reset was a request, and nothing clears it. *Correct when* the next boot never
jumps to an incomplete application and the wanted version runs in the end.

### BLE_USB bridge

*State.* Two rings (`RingMem`), one per direction, with lengths kept beside the
pointers; the global interrupt enable; two scheduler events with timers; endpoint
2 with its toggle. *Parties.* The USB interrupt writes OUT packets to one ring; an
event copies, notifies, then deletes, and tries again after 80 ticks when the stack
refuses. What the phone writes goes to the other ring, and an event that comes back
every five ticks moves it to the IN endpoint. *Hard behaviour.* The length is read
again by each of the three statements. The ring functions disable interrupts and
return on the length error without enabling them. *Correct when* each byte is
notified or sent once and in order, interrupts come back on every path, and the
rings drain.

### BLE_UART bridge

*State.* Two FIFOs with free-running 16-bit indices (`app_drv_fifo`), a scheduler
event with its timer, a packet that a failed notification keeps, a state and a
counter. *Parties.* The USART3 interrupt fills the receive FIFO, the BLE callback
writes what the phone sends to both FIFOs, the event empties the receive FIFO, the
main loop the transmit FIFO. *Hard behaviour.* Nothing protects the indices: the
interrupt comes between any two accesses of the reader, the flush or the second
producer. *Correct when* neither FIFO loses, repeats or reorders a byte, a failed
notification is tried again with the same bytes, and both directions go on.

### Ethernet MAC driver (`ETH/NetLib/eth_driver.c`)

A ring of receive descriptors handed from `WCHNET_ETHIsr` to the binary library
by the OWN bit, one transmit descriptor, and a PHY link state machine polled every
50 ms. *Correct when* a descriptor has one owner, no received frame is overwritten
before the library has read it, and a link that negotiates is reported.

### Not candidates

Enumeration and descriptors; the binary stacks; the kernels; mass storage, HID,
CH372 and host examples; the other bootloaders; the single-peripheral examples.
`PROJECT.json` lists each with its reason.

## 2. Plan

Modules, in the order of the importance of what they model. An abstract
specification comes before the module that implements it.

| # | Module | Models | Composes / implements | Status |
|---|---|---|---|---|
| 1 | `OrderedPipe` | abstract: an ordered, lossless pipe with session resets | | done |
| 2 | `CdcDown` | USB to UART | implements `OrderedPipe` | done |
| 3 | `CdcDown_proofs` | proofs of 2 | | done |
| 4 | `CdcUp` | UART to USB | | done |
| 5 | `CdcUp_proofs` | proofs of 4 | | done |
| 6 | `Upgrade` | abstract: one complete version runs, the one committed last | | done |
| 7 | `FlashImage` | images, blocks, pages, what power cuts short | used by 8, 10 | done |
| 8 | `BackupBoot` | the bootloader under power failures | implements `Upgrade` | done |
| 9 | `BackupBoot_proofs` | proofs of 8 | | done |
| 10 | `IapSession` | the command session of both upgrade programs, with its host | extends 7 | done |
| 11 | `OtaSession` | the backup upgrade as a whole | composes 8 and 10, implements 8 | done |
| 12 | `OnlyUpdate` | the upgrade in place | extends 10 | done |
| 13 | `RingMem` | the ring's functions as operators | | done |
| 14 | `BleUsb` | both directions of the BLE_USB bridge | extends 13 | done |
| 15 | `AppFifo` | the FIFO's functions as operators | | done |
| 16 | `BleUart` | both directions of the BLE_UART bridge | extends 15 | done |
| 17 | `BleUsb_proofs` | proofs of 13 and 14: contents of the ring, order in both directions | | done |
| 18 | `BleUart_proofs` | proofs of 15 and 16: contents of the FIFO, order in both directions | | done |
| 19 | `IapSession_proofs` | the session's two invariants, one lemma for each step | | done |
| 20 | `OtaSession_proofs`, `OnlyUpdate_proofs` | proofs of 11 and 12, with the refinement of 8 | extend 19 | done |
| 21 | `EthDriver` | descriptor ownership, ISR, link machine | | dropped, see section 7 |

Every safety invariant, action property and refinement a passing run checks is also a
theorem; what is left to TLC alone is liveness (section 5).

## 3. Modules and code

### OrderedPipe

Bytes have no payload: byte *k* is the *k*-th byte ever accepted. A pipe is three
numbers: how many were accepted, how many have left or were discarded, and which
byte left last. `Put`, `Get` (the oldest byte, exactly once), `Discard` (everything
inside, at a session reset).

### CdcDown

`pc` names the statement `UART2_DataTx_Deal` has reached; a statement or group of
statements that nothing else can be seen to interleave with is one action.

| Actions | Code |
|---|---|
| `PollFlag`, `TransmissionPending`, `TransmissionComplete` | UART.c:343-351, interrupt enabled |
| `Account` | UART.c:353-379, interrupt disabled: charge, release the slot, resume the endpoint |
| `PollIdle`, `PollRemain`, `LoadPacket`, `ArmDma`, `SetFlag` | UART.c:382-402, interrupt enabled |
| `DmaByte`, `FrameDone` | the transmit DMA and the UART's transmission-complete flag |
| `OutPacket(n)` | usbfs_device.c:374-391 |
| `SetLineCoding`, `BusReset` | `UART2_USB_Init` (UART.c:312-329), usbfs_device.c:760-772 |
| `SetHalt`, `ClearHalt` | the endpoint-2 cases of SET_FEATURE and CLEAR_FEATURE |

Variables have the fields' names. `Tx_CurPackPtr` and the DMA address are kept as a
slot and an offset (`ptrSlot`, `ptrOff`, `dmaSlot`, `dmaOff`), so that products with
the slot size do not appear. 16-bit counters wrap (`Wrap`). `TC` is set whenever the
line falls idle, also in the middle of a packet when the DMA is late; that is what
the partial count at UART.c:357-359 is for. Ghost variables: `base` (number of the
first byte in each slot), `accepted`, `delivered`, `wire`.

`Quiet` and `MaxClear` say what the host does. With `Quiet`, SET_LINE_CODING and
bus resets come only while the main loop is not between a test and the use of what
it tested (and, for a bus reset, while no transfer is under way). The safety
properties hold under it; the run `cdc_down_race` shows that one of them does not
without it.

### CdcUp

| Actions | Code |
|---|---|
| `Poll` | UART.c:419-449, interrupt disabled: new bytes from the DMA counter, overflow |
| `DecideUpload`, `GiveUp`, `NothingToDecide` | UART.c:453-475 and 501-509, interrupt enabled |
| `Load` | UART.c:479-498, with `DataUp` = `USBFS_Endp_DataUp` |
| `DecideZlp`, `LoadZlp` | UART.c:514-530 |
| `UartByte` | the receive DMA storing one byte |
| `Tick` | `TIM2_IRQHandler`, both counters with their widths |
| `HostRead`, `InInterrupt` | the host's IN transaction, then usbfs_device.c:308-313 |
| `SetLineCoding`, `BusReset`, `SetHalt`, `ClearHalt` | as above, for the receive side and endpoint 3 |

`rbuf` holds the numbers of the bytes stored, `taken` counts the bytes that left
the buffer, `hostNext` is one more than the last byte the host was given.
`HostRead` and `InInterrupt` are two steps, and an interrupt that is pending is
served before any statement that runs with it enabled (guard `~inPending`).
The two-argument comparison of DMA counters (`NewBytes`) cannot see a whole lap; the
constant `KeepUp` says the loop polls often enough that less than a buffer waits.

### Upgrade, FlashImage and BackupBoot

`Upgrade` has two variables: the version running, if any, and the version the next
boot runs. `FlashImage` describes flash page by page; a page is blank, torn, or a page
of a version, and programming a page that is not blank tears it (`ProgramPage`).
`TornImages` is what a power failure may leave of an image. `BackupBoot` is the
bootloader on it.

| Actions | Code |
|---|---|
| `Boot` | `main`, `ReadImageFlag` (bootloader 126-157) |
| `EraseBlock`, `CopyPage` | the copy loop of `jump_APP` (95-105) |
| `EraseFlag`, `ProgramFlag` | `SwitchImageFlag(IMAGE_A_FLAG)` (55-76), in two steps: power can fail between them |
| `DestroyBackup`, `Jump` | 107-115 |
| `WriteBackup` | what the OTA application does to image B: one block of it gets any contents |
| `End`, `EndReset` | END: `SwitchImageFlag(IMAGE_IAP_FLAG)` in two steps, then the reset |
| `PowerFail` | power lost before, during or after the flash operation `pc` names |

A flag page cut short reads as before or as after: its four bytes are one word and its
mark is checked. `End` is guarded by a complete image B. The code has no such check, it
is the host's duty to send END after a VERIFY of everything; that this is enough is what
the refinement `OtaSession!IsBackupBoot` shows.

### IapSession, OtaSession and OnlyUpdate

`IapSession` is the command session that both upgrade programs share, on an image that
is a sequence of data units (a page has `PageUnits`, a PROM or VERIFY carries at most
`Chunk`, and the last page is not full).

| Actions | Code (BackupUpgrade_OTA peripheral.c) |
|---|---|
| `Info`, `Unknown` | 751-777, `OTA_IAP_CMDErrDeal` |
| `Erase`, `EraseRefused` | CMD_IAP_ERASE, 668-697: set up first, range check after |
| `EraseEvent`, `EraseFails` | `OTA_FLASH_ERASE_EVT`, 365-392, one block per event |
| `Prom` | CMD_IAP_PROM, 638-666: collect to a page, program it, keep the rest |
| `Verify` | CMD_IAP_VERIFY, 699-732: the first one programs what is left |
| `EndCommand` | CMD_IAP_END |
| `ReadReply` | OTAprofile.c, the reply is read once; nothing before it is there |
| `Start`, `Drop`, `AfterReply` | the host, external: it does what the command set is made for |

`OtaSession` puts it beside an instance of `BackupBoot` whose image B is the session's
image: each command is a step of the application (`pc = "app"`), END begins the flag
switch, a reset or a power failure clears RAM.
`OnlyUpdate` runs the same session in the bootloader itself, on the application's own
flash, with the choice of `main` after a reset (`Stays`), `Jump_OTA`, the two flash
operations of each flag switch, power failures and the reset button.

The scheduler serves the erase event at least once between two commands (`evtServed`):
an event that is set is served in the next turn of the TMOS loop, and a command comes at
most once per connection interval.

### RingMem and BleUsb

`RingMem` gives the ring's functions as operators on records. The pointers are offsets
that may stand on the end of the buffer, as in the code; the lengths are kept beside them.

| Actions | Code |
|---|---|
| `HostOut`, `HostIn`, `HostReset` | the host and the controller: one interrupt per transaction, NAK until it is served; a lost handshake makes the host repeat a packet |
| `OutInterrupt`, `InInterrupt`, `ResetInterrupt` | the USB interrupt, endpoint 2 and bus reset |
| `UsbEvent`, `WhileData`, `WhileEnds`, `CopyData`, `Notify`, `NotifyFails`, `DeleteData` | the USB task, 379-406, statement by statement: the interrupt comes between them |
| `BleEvent`, `InDeal` | the event that moves RingMemBLE to the IN endpoint, `USBSendData` |
| `LinkEvent`, `PhoneWrite` | connection, MTU and write callbacks |

`irq` is the interrupt enable that a refused length leaves cleared. `EndpointBusy` is
`FALSE`: `a & MASK == ACK` is `a & (MASK == ACK)`. `owedUSB` and `owedBLE` are ghosts:
what entered a ring and has not left the bridge. Two things the code allows break the
order or lose bytes, and two further ghosts name the moment after which the order is no
longer claimed: `appended` (a packet enters the ring between two readings of its length
for one notification of "all there is") and `overwritten` (an IN packet is replaced
before the host has fetched it). Everything else is claimed with them included: the
types, the rings' consistency, that interrupts come back, that the rings drain. In the
first case the code copies more than the `MTU-3` bytes of its buffer may hold; what that
overwrites is not modelled.

### AppFifo and BleUart

`AppFifo` gives the FIFO's functions as operators on records with indices modulo
`IndexMod`. The functions protect nothing, so `BleUart` makes one step of each access
the interrupt can be seen to come between.

| Actions | Code |
|---|---|
| `UartByte` | `USART3_IRQHandler` (app_uart.c) |
| `TestFlag`, `SendByte`, `Drained` | `app_uart_process`, called from the main loop |
| `Expire` | a timer of `tmos_start_task` |
| `WaitForMore`, `ReadPacket`, `TakeByte`, `PopByte` | the event, 331-373, and `app_drv_fifo_read` |
| `Notified`, `NotNotified`, `Retry` | the notification and the two failure states, 374-438 |
| `NotReady`, `Flush`, `FlushEnd` | the event without notifications or connection, `app_drv_fifo_flush` |
| `PhoneWrite`, `LoadEnd`, `PutByte`, `ReloadEnd`, `StoreEnd`, `WriteDone` | `on_bleuartServiceEvt`: the load, store and increment of `end` for each byte |
| `Connect`, `EnableNotify`, `Disconnect` | link and client configuration |

`owed` and `owedTx` are the bytes that entered a FIFO and have neither left it nor been
flushed; `collided` marks that the interrupt pushed while the callback was pushing, after
which the receive FIFO's order is not claimed (that it drains still is).

## 4. Runs

| Run | Bounds | Shows |
|---|---|---|
| `cdc_down` | ring of 4, slots of 2 bytes, packets of 1 and 2, 6 bytes, 1 reset, 2 cleared halts | safety, refinement and liveness of the downlink |
| `cdc_down_race` | ring of 5, 4 bytes, 1 reset at any statement | expected violation, see section 6 |
| `cdc_up` | buffer of 4, packets of 2, 6 bytes, 1 of each reset, 1 cleared halt | safety of the uplink |
| `cdc_up_live` | buffer of 3, packets of 2, 4 bytes, the same host | the buffer drains with any host; the zero-length packet is loaded for one that reads |
| `cdc_up_loss` | buffer of 4, 7 bytes | expected violation |
| `backup_boot` | 3 blocks of 2 pages, 2 versions, 2 power failures | safety, refinement and liveness of the upgrade |
| `ota_session` | 2 blocks of 2 pages of 3 units, chunks of 2, image of 11 units, 2 versions, 2 troubles, 1 power failure | what is committed is what was sent; refinement of the bootloader's environment; the update arrives |
| `ota_erase_stale` | the same | expected violation |
| `only_update` | the same image, 2 troubles, 2 power failures or resets, wrong PROM replies | the flag tells whether the application is complete; the update arrives |
| `only_update_cut` | power may also fail in the flag switch of a repeated ERASE | expected violation |
| `ble_usb` | rings of 2 bytes, packets of 1 and 2, payloads of 1 and 2, 3 bytes from the USB host, 4 from the phone, 1 trouble | order, no loss, interrupts return, the rings drain |
| `ble_uart` | FIFOs of 2 bytes, indices modulo 4 starting at 3, packets of 2, 2 bytes from each side, 1 lost connection | order, no loss, both directions go on |

Why the bounds are enough. A ring of 4 reaches the stop mark (2 packets), exceeds it
by the two packets that two cleared halts let through, and wraps. Packets of one and two
bytes differ in length and can be cut by a late DMA. A receive buffer of 4 with packets
of 2 wraps within 6 bytes, one of 3 makes uploads end at the edge of the buffer (`Clip`).
The timers' widths exceed the largest timeout by a little, so that they wrap. Three
blocks have a first, a middle and a last one; two failures interrupt a copy and the copy
that repairs it. Two versions tell old from new. Chunks of 2 units and pages of 3 make a
PROM fill a page and leave a rest, or leave a page open, and the last page of 11 units is
programmed by VERIFY. `EraseSizes` {2, 4} holds the size of the image and one the range
check refuses. Two troubles abandon a download and disturb the next. Rings of 2 bytes
overflow, wrap and hold less than two packets. The BLE_UART indices wrap at once.

Fairness. `CdcDown!Fairness` and `CdcUp!Fairness` say that the main loop goes on (it
never blocks: `main` calls two functions that contain no loop that waits, and nothing
else runs on it), that DMA, line and timer go on, and that a pending interrupt is
served. Nothing is assumed of the host; `ZlpSent` has its assumption (`HostReads`) in
the formula. `Prompt` (`cdc_up_live` only) says that a pass of the main loop takes less
than a tick of 100 us, so that the loop looks at each value of the timers: `Rx_TimeOut`
is compared with `>=` and wraps after 256 ticks. In `BackupBoot` the bootloader has
nothing to wait for, and an END that began goes on to its reset; no fairness is assumed
of the application. In `OtaSession` and `OnlyUpdate` the scheduler goes on serving, and
the user and the host go on with an upgrade that is not finished; power failures and
other troubles are bounded. In `BleUsb`, enabled interrupts are served and a handler goes
on (weak); the scheduler serves every event that is set however often another comes back,
since a retry waits 80 ticks (strong); the host reads the IN endpoint; of notifications
tried again and again the stack takes one (strong). In `BleUart`, the main loop runs TMOS
and `app_uart_process` in turn, so the latter comes round however often an event is tried
again (strong, `TestFlag`); timers run out and handlers go on (weak); one of the repeated
notifications is taken (strong). A line that never pauses may postpone the timer of
`tmos_start_task` for ever; the bytes of the model are finitely many.

Deadlock is checked where a loop never rests (`cdc_*`, `backup_boot`). In the other runs
the system rests when the update has arrived or the bounded bytes are through
(`CHECK_DEADLOCK FALSE`); their liveness properties say that it rests in a good state.

## 5. Proofs

Eight modules, all leaves checked by tlapm: `CdcDown_proofs`, `CdcUp_proofs`,
`BackupBoot_proofs`, `BleUsb_proofs`, `BleUart_proofs`, `IapSession_proofs` (lemmas only),
`OtaSession_proofs` and `OnlyUpdate_proofs`. Every inductive invariant was checked with
TLC before it was proved.

*Downlink.* `TypeCorrect` holds for every ring size of at least 4, every slot size,
every set of packet lengths, and any host. The other theorems assume `Quiet` and
`MaxClear <= 2`: the two slots of margin in the stop condition are what the two
cleared halts use up, and with a third `RingNeverOverrun` is false. The invariant is
`SafeInv`, which adds to `RingConsistent`:

- `FlowInv`: how full the ring may be, as a function of the stop flag, the endpoint's
  response and the halts cleared so far. `NoOverrun` alone is not inductive, since it
  says nothing while the endpoint refuses data.
- `ChainInv`: the packets in the ring are consecutive pieces of the accepted stream and
  the last one ends at `accepted`.
- `LoopInv`: at each statement of the main loop, how the current packet, the DMA and
  the slot at `Tx_DealNum` relate, in particular that what the DMA has left and what
  was delivered add up to the packet.

`InOrder`, `ReleasedWhenSent` and the refinement of `OrderedPipe` follow from it.

*Uplink.* `UpTypeCorrect` assumes `Quiet`, the other theorems also `KeepUp`, as the run
does. `LoadInv` carries what was decided to where it is loaded: the length is still there
and in one piece. `SpanInv` ties the length, the DMA counter and `Rx_DealPtr` to the
number of bytes waiting; `WaitingIntact` is inductive with it because a byte is stored at
the one place modulo the buffer that no waiting byte has. `EndpointInv` (the endpoint
holds one run of bytes that left the buffer, and the host is not ahead of the buffer)
makes `HostInOrder` inductive: the packet loaded next starts at `taken`.

*Bootloader.* `BootInv` adds to `OneCompleteImage` which values the flag has at each
step (`PhaseInv`) and how far the copy is (`CopyInv`: the blocks before `i` equal the
backup, in block `i` the pages before `page_count` do and the others are blank). It
is preserved because a failure tears image A only while the flag says IAP and image B
only while it does not. The theorems hold for images of any size, any set of versions
and any number of failures.

*BLE_USB bridge.* The first part of `BleUsb_proofs` says what the ring's functions do to
the contents, wherever the pointers stand: a copy shows the front, a write appends, a
delete removes the front. The rest sees the rings through these facts only. `UsbInv` adds to
`UsbToBle` the toggles (`ProtoInv`: a repeated packet has the toggle the bridge does not
expect) and states the order over `Left`, the contents without the bytes that were
notified and are still to be deleted, and `Got`, what the bridge has accepted. `BleInv`
speaks of `Waiting`, the endpoint followed by the ring, and of the moment between the
deletion from the ring and the load (`SendInv`). Both hold for every ring size, MTU and
packet length; the two named races are the ghosts `appended` and `overwritten`, as in the
runs.

*BLE_UART bridge.* The indices of the FIFO run through a range that the size divides, so a
place is a remainder of an index and the length a difference of two: the first part of
`BleUart_proofs` derives from this that a push appends (`PushAppends`), a pop removes the
first byte (`PopRemovesFirst`) and a write of as many bytes as there is room for appends
them in order (`WriteAllAppends`), wherever the indices stand and across their overflow.
`UartTypeCorrect` needs more than `TypeOK`, since a step may use what another left behind
(`TypeInv`). `UartFifosKeepOrder` is proved for `TxInv` (what waits for the UART is what
is owed to it) and `OrderInv`. Of its parts `ReadInv` says that the bytes the main loop
still has to read are there although the interrupt may have changed the FIFO between two of
its accesses, `WriteInv` that the callback's index is still the end and its byte lies there,
`FlushInv` that a flush is between its two assignments, when the FIFO is no queue, and
`PacketInv` that bytes are held back only while a packet is read or after a failure. From
the first push of the interrupt into a write of the callback on (`collided`) nothing is
claimed of that direction.

*Session of the upgrades.* `SessionInv` holds for images, pages and chunks of any size and
any number of troubles. `VerifyInv` is what `CommitsWhatWasSent` needs: while every VERIFY
was answered well, the pages of the units compared so far hold what the host sends. A page
once compared must not change any more; PROM has ended, and of the erase event this is
`EraseInv`: the event is served between two commands, a page is longer than a chunk, so a
download has at least as many PROMs as the image has blocks, and an erase that goes on
because the host took a stale reply for its own is through with the image when the first
VERIFY comes. The range check lets one block too many pass; its service, which does not
touch the image, may be left until then.

`DownloadInv` is inductive with it and says what `CleanDownloadVerifies` and
`NothingMissing` need: of a download that began with an empty `block_buf`, `DataInv` accounts
for every unit that was sent. The pages before `prom_addr` hold the host's version,
`block_buf` goes on with the unit after them, and the pages from there on are blank as far
as the erase has come. A PROM finds its page erased, and the erase event finds no page that
was programmed, for the reason of `EraseInv`: a block for each chunk, while a page takes more
than a chunk. At the last PROM all that can be left is the last page (`LastPage`), so the
first VERIFY completes the image and no comparison fails. The lemma that a page is the
host's when all its units are (`PageDataWant`) is where a unit's position matters: one unit
of an abandoned download in front shifts all that follows. Both upgrades have the two
theorems; nothing is assumed of the number of dropped links and wrong replies.

*Backup upgrade.* The bootloader changes image B too, but only while no host is connected
(`HostOnlyInApp`). `OtaImplementsBackupBoot` needs `CommitsWhatWasSent` for one thing: END
is the step of `BackupBoot` that has a complete image B as its guard. `OtaAlwaysComplete`
carries a theorem of `BackupBoot_proofs` over to the composition.

*Upgrade in place.* `FlagAlwaysTellsImage` and `OnlyRunsCompleteImage` assume
`CutsRepeated = FALSE`, as `only_update` does (`only_update_cut` shows why). `FlagInv` adds
that before the flag says IAP the session is `Untouched`: it has no erase event, no reply
that would make the host send data, and no data was sent.

*Only model-checked.* The liveness properties: they rest on fairness and ENABLED, which the
provers installed with TLAPS do not reason about.

## 6. Disagreements between code and comments

Each is a run that TLC must find violated.

- `cdc_down_race`: the transmission-complete flag is tested with the USBFS interrupt
  enabled and used after it was disabled; a SET_LINE_CODING in between makes
  `Tx_RemainNum` meaningless (65535).
- `cdc_up_loss`: an upload while the endpoint is busy with an unread zero-length packet
  removes bytes from the buffer that are not sent.
- `ota_erase_stale`: an ERASE that is refused while an erase is under way makes that
  erase go on behind image B.
- `only_update_cut`: a power failure in the flag switch of a second ERASE makes the next
  boot jump to a half-erased application.

Hazards that a constant or a ghost keeps out of the passing runs, for the reader to let in:

- `OutLens` with 0 in `CdcDown`: a zero-length OUT packet wedges the downlink
  (`DownlinkRestarts`).
- `KeepUp = FALSE` in `CdcUp`: after the overflow branch, length and pointer no longer
  describe the buffer (`WaitingIntact`).
- `Quiet = FALSE` in `CdcUp`: a SET_LINE_CODING between the computation of `packlen` and
  its use, or a bus reset while the receive DMA goes on (`RemainIsUnprocessed`).
- `EraseSizes` with 3 in `OtaSession` and `OnlyUpdate`: the range check looks at the
  start of the last block only, and the block behind the image passes
  (`ErasesOnlyTheImage`).
- without `appended` in `BleUsb!UsbToBle`, `overwritten` in `BleToUsb`, `collided` in
  `BleUart!UartToBle`: the races named in section 3.

Seen while modelling and not stated as a property: in BLE_UART the retry states do not
flush on a lost connection ("connection lost, flush rx fifo here", peripheral.c:345), so
the packet of one session may go to the next; bytes received while notifications are
disabled wait for the next byte.

## 7. Not modelled

In the USB bridge: byte values, baud rate and framing, endpoint 0 and enumeration, data
toggles, suspend, lost USB handshakes. In the upgrades: wear and read errors of flash, a
page that fails to program without a power failure (the programs ignore the status). In
BLE_USB: enumeration, the ring functions nobody calls; the `uint8_t` length of
`app_usb_notify` cannot be exceeded with the MTU of the build. In BLE_UART: the other
three builds of the service, RSSI and parameter callbacks.

*Ethernet driver.* Descriptors are handed between the interrupt and the binary WCHNET
library; the library's half, which decides when a descriptor is given back and when the
transmit descriptor is used again, is not in the repository.

*USB and UART bootloaders, ETH_IAP, the USBD variant of SimulateCDC.* They repeat the
patterns of `BackupBoot`, `OnlyUpdate` and `CdcDown` with less concurrency.

*Everything else.* Of the repository's 618000 lines of C, most are third-party kernels
(FreeRTOS, RT-Thread, LiteOS-M, TencentOS tiny), headers of register definitions,
headers of binary libraries, web pages kept as arrays, and hundreds of copies of the same
start-up code and of register demonstrations without shared state. They are listed in
`PROJECT.json` with their reasons. The models cover the examples that have logic of their
own and concurrency or crashes to get wrong.

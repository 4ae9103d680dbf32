------------------------------- MODULE AppFifo -------------------------------
(***************************************************************************)
(* The byte FIFO of the BLE_UART bridge (app_drv_fifo.c) as operators on     *)
(* records.  begin and end run freely through the range of a uint16_t; the   *)
(* size of the buffer, a power of two, divides it.                           *)
(*                                                                          *)
(* The functions do not protect themselves: where an interrupt may come      *)
(* between two accesses, BleUart makes each access a step of its own.        *)
(***************************************************************************)
EXTENDS Integers, Sequences

CONSTANTS Size,     \* bytes of a buffer (2048 and 512)
          IndexMod, \* range of a uint16_t (65536)
          Blank     \* what a buffer holds at first, not a byte

ASSUME FifoAssumption == /\ Size \in Nat \ {0} /\ IndexMod \in Nat
                         /\ IndexMod % Size = 0 /\ IndexMod > Size

(* app_drv_fifo_init, and n bytes that came and went. *)
UsedFifo(n) == [begin |-> n % IndexMod, end |-> n % IndexMod,
                data |-> [a \in 0 .. Size - 1 |-> Blank]]

(* fifo_length. *)
Length(fifo) == (fifo.end - fifo.begin) % IndexMod

(* available_count. *)
Available(fifo) == (Size - Length(fifo)) % IndexMod

Next16(index) == (index + 1) % IndexMod

(* data[index & size_mask] = byte. *)
Put(fifo, index, byte) == [fifo EXCEPT !.data[index % Size] = byte]

(* fifo->data[fifo->end & fifo->size_mask] = byte; fifo->end++. *)
Push(fifo, byte) == [Put(fifo, fifo.end, byte) EXCEPT !.end = Next16(@)]

First(fifo) == fifo.data[fifo.begin % Size]

(* What is pushed and not popped. *)
Waiting(fifo) == [i \in 1 .. Length(fifo) |-> fifo.data[(fifo.begin + i - 1) % Size]]

(* app_drv_fifo_write when nothing comes between: what does not fit is left out. *)
Accepted(fifo, bytes) ==
  SubSeq(bytes, 1, IF Len(bytes) < Available(fifo) THEN Len(bytes) ELSE Available(fifo))

WriteAll(fifo, bytes) ==
  [begin |-> fifo.begin,
   end   |-> (fifo.end + Len(bytes)) % IndexMod,
   data  |-> [a \in 0 .. Size - 1 |->
                LET i == (a - fifo.end) % Size
                IN IF i < Len(bytes) THEN bytes[i + 1] ELSE fifo.data[a]]]

==============================================================================

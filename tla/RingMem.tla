------------------------------- MODULE RingMem -------------------------------
(***************************************************************************)
(* The byte ring of the BLE_USB bridge (RingMem.c) as operators on records. *)
(* pData and pEnd are the offsets 0 and MaxLen; pWrite and pRead may stand   *)
(* on pEnd, from where the next access goes back to pData.                   *)
(*                                                                          *)
(* Write, Copy and Delete are what the functions do when the length fits;    *)
(* Fits and Holds are the tests before that.  Each function runs with        *)
(* interrupts disabled, whoever calls it: its callers make it one step.      *)
(***************************************************************************)
EXTENDS Naturals, Sequences

CONSTANTS MaxLen,  \* size of a ring (2048)
          Junk     \* what memory holds at first, not a byte

ASSUME MaxLenAssumption == MaxLen \in Nat \ {0}

Offset == 0 .. MaxLen - 1

(* RingMemInit. *)
EmptyRing == [data |-> [a \in Offset |-> Junk], pWrite |-> 0, pRead |-> 0,
              RemanentLen |-> MaxLen, CurrentLen |-> 0]

Fits(ring, len)  == len <= ring.RemanentLen
Holds(ring, len) == len <= ring.CurrentLen

(* Mutant: a pointer on pEnd stays there. *)
MutAdvance(p, len) == IF p + len > MaxLen THEN MaxLen ELSE p + len

(* A pointer moved on by len, which is at most MaxLen. *)
Advance(p, len) == IF len > MaxLen - p THEN len - (MaxLen - p) ELSE p + len

(* How far offset a lies behind pointer p. *)
Behind(p, a) == IF a >= p THEN a - p ELSE a + MaxLen - p

Write(ring, bytes) ==
  [data |-> [a \in Offset |-> IF Behind(ring.pWrite, a) < Len(bytes)
                                THEN bytes[Behind(ring.pWrite, a) + 1] ELSE ring.data[a]],
   pWrite |-> Advance(ring.pWrite, Len(bytes)),
   pRead |-> ring.pRead,
   RemanentLen |-> ring.RemanentLen - Len(bytes),
   CurrentLen |-> ring.CurrentLen + Len(bytes)]

Copy(ring, len) ==
  [i \in 1 .. len |-> ring.data[IF ring.pRead + i - 1 >= MaxLen THEN ring.pRead + i - 1 - MaxLen
                                                              ELSE ring.pRead + i - 1]]

Delete(ring, len) ==
  [data |-> ring.data,
   pWrite |-> ring.pWrite,
   pRead |-> Advance(ring.pRead, len),
   RemanentLen |-> ring.RemanentLen + len,
   CurrentLen |-> ring.CurrentLen - len]

(* What is written and not deleted. *)
Contents(ring) == Copy(ring, ring.CurrentLen)

(* The two lengths add up and lie between the two pointers. *)
RingOK(ring) ==
  /\ ring.pWrite \in 0 .. MaxLen /\ ring.pRead \in 0 .. MaxLen
  /\ ring.CurrentLen \in 0 .. MaxLen /\ ring.RemanentLen = MaxLen - ring.CurrentLen
  /\ \/ ring.pWrite = ring.pRead + ring.CurrentLen
     \/ ring.pWrite = ring.pRead + ring.CurrentLen - MaxLen

==============================================================================

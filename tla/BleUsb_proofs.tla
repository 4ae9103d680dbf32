---------------------------- MODULE BleUsb_proofs ----------------------------
(***************************************************************************)
(* Proofs about BleUsb, for every size of the rings, every MTU, every length *)
(* of packets and any number of troubles: the type invariant, with which no  *)
(* ring function is asked for more than there is, and the order of both      *)
(* directions.  First what the functions of RingMem do to the contents of a  *)
(* ring: a write appends, a copy shows the front, a delete removes it.       *)
(***************************************************************************)
EXTENDS BleUsb, SequenceTheorems, TLAPS

-----------------------------------------------------------------------------
(* The functions of RingMem. *)

Cell == Nat \cup {Junk}

Ring == [data: [Offset -> Cell], pWrite: 0..MaxLen, pRead: 0..MaxLen,
         RemanentLen: 0..MaxLen, CurrentLen: 0..MaxLen]

WellFormed(ring) == ring \in Ring /\ RingOK(ring)

\* The offset of the i-th byte from pointer p.
At(p, i) == IF p + i - 1 >= MaxLen THEN p + i - 1 - MaxLen ELSE p + i - 1

\* Where the two pointers stand when c bytes are in the ring.
Span(w, p, c) == w = p + c \/ w = p + c - MaxLen

LEMMA AtOffset ==
  ASSUME NEW p \in 0..MaxLen, NEW i \in 1..MaxLen PROVE At(p, i) \in Offset
BY MaxLenAssumption DEF At, Offset

LEMMA EmptyRingWellFormed ==
  WellFormed(EmptyRing) /\ EmptyRing.CurrentLen = 0
BY MaxLenAssumption DEF WellFormed, Ring, RingOK, EmptyRing, Cell

\* The arithmetic of the offsets: what is in the ring is not within n bytes of the write
\* pointer, the bytes to come are, in their order.
LEMMA OldIsBehind ==
  ASSUME NEW w \in 0..MaxLen, NEW p \in 0..MaxLen, NEW c \in 0..MaxLen, Span(w, p, c),
         NEW n \in 0..MaxLen - c, NEW i \in 1..c
  PROVE  ~(Behind(w, At(p, i)) < n)
BY MaxLenAssumption DEF Span, Behind, At

LEMMA NewIsBehind ==
  ASSUME NEW w \in 0..MaxLen, NEW p \in 0..MaxLen, NEW c \in 0..MaxLen, Span(w, p, c),
         NEW n \in 0..MaxLen - c, NEW i \in c + 1..c + n
  PROVE  Behind(w, At(p, i)) = i - c - 1
BY MaxLenAssumption DEF Span, Behind, At

LEMMA SpanWrite ==
  ASSUME NEW w \in 0..MaxLen, NEW p \in 0..MaxLen, NEW c \in 0..MaxLen, Span(w, p, c),
         NEW n \in 0..MaxLen - c
  PROVE  Advance(w, n) \in 0..MaxLen /\ Span(Advance(w, n), p, c + n)
BY MaxLenAssumption DEF Span, Advance

LEMMA SpanDelete ==
  ASSUME NEW w \in 0..MaxLen, NEW p \in 0..MaxLen, NEW c \in 0..MaxLen, Span(w, p, c),
         NEW n \in 0..c
  PROVE  Advance(p, n) \in 0..MaxLen /\ Span(w, Advance(p, n), c - n)
BY MaxLenAssumption DEF Span, Advance

LEMMA AtAdvance ==
  ASSUME NEW p \in 0..MaxLen, NEW c \in 0..MaxLen, NEW n \in 0..c, NEW i \in 1..c - n
  PROVE  At(Advance(p, n), i) = At(p, n + i)
BY MaxLenAssumption DEF At, Advance

\* RingMemCopy copies the front of the contents.
LEMMA CopyElements ==
  ASSUME NEW ring, WellFormed(ring), NEW len \in 0..ring.CurrentLen
  PROVE  /\ Copy(ring, len) \in Seq(Cell) /\ Len(Copy(ring, len)) = len
         /\ \A i \in 1..len : /\ At(ring.pRead, i) \in Offset
                              /\ Copy(ring, len)[i] = ring.data[At(ring.pRead, i)]
<1>1. /\ ring.pRead \in 0..MaxLen /\ ring.data \in [Offset -> Cell]
      /\ len \in Nat /\ len <= MaxLen
  BY MaxLenAssumption DEF WellFormed, Ring
<1>2. \A i \in 1..len : At(ring.pRead, i) \in Offset
  BY <1>1, AtOffset, MaxLenAssumption
<1>3. Copy(ring, len) = [i \in 1..len |-> ring.data[At(ring.pRead, i)]]
  BY DEF Copy, At
<1>4. \A i \in 1..len : ring.data[At(ring.pRead, i)] \in Cell
  BY <1>1, <1>2
<1> HIDE DEF Cell
<1>5. Copy(ring, len) \in [1..len -> Cell]
  BY <1>3, <1>4
<1>6. Copy(ring, len) \in Seq(Cell) /\ Len(Copy(ring, len)) = len
  BY <1>1, <1>5
<1> QED BY <1>2, <1>3, <1>6

LEMMA ContentsElements ==
  ASSUME NEW ring, WellFormed(ring)
  PROVE  /\ Contents(ring) \in Seq(Cell) /\ Len(Contents(ring)) = ring.CurrentLen
         /\ \A i \in 1..ring.CurrentLen :
              /\ At(ring.pRead, i) \in Offset
              /\ Contents(ring)[i] = ring.data[At(ring.pRead, i)]
<1>1. ring.CurrentLen \in 0..ring.CurrentLen
  BY DEF WellFormed, Ring
<1> QED BY <1>1, CopyElements DEF Contents

\* RingMemCopy shows the front of what waits, whether it wraps or not.
THEOREM CopyIsFront ==
  ASSUME NEW ring, WellFormed(ring), NEW len \in 0..ring.CurrentLen
  PROVE  Copy(ring, len) = SubSeq(Contents(ring), 1, len)
<1>1. ring.CurrentLen \in Nat /\ len \in Nat
  BY DEF WellFormed, Ring
<1>2. Contents(ring) \in Seq(Cell) /\ Len(Contents(ring)) = ring.CurrentLen
  BY ContentsElements
<1>3. \A i \in 1..len : Contents(ring)[i] \in Cell
  BY <1>1, <1>2, ElementOfSeq
<1>4. /\ SubSeq(Contents(ring), 1, len) \in Seq(Cell)
      /\ Len(SubSeq(Contents(ring), 1, len)) = len
      /\ \A i \in 1..len : SubSeq(Contents(ring), 1, len)[i] = Contents(ring)[i]
  <2>1. /\ SubSeq(Contents(ring), 1, len) \in Seq(Cell)
        /\ Len(SubSeq(Contents(ring), 1, len)) = IF 1 <= len THEN len - 1 + 1 ELSE 0
        /\ \A i \in 1..len - 1 + 1 : SubSeq(Contents(ring), 1, len)[i] = Contents(ring)[1 + i - 1]
    BY <1>1, <1>3, SubSeqProperties
  <2> QED BY <1>1, <2>1
<1>5. /\ Copy(ring, len) \in Seq(Cell) /\ Len(Copy(ring, len)) = len
      /\ \A i \in 1..len : Copy(ring, len)[i] = Contents(ring)[i]
  BY <1>1, CopyElements, ContentsElements
<1> QED BY <1>4, <1>5, SeqEqual

\* RingMemWrite: what fits goes behind all that waits, wherever the pointers stand and
\* however the bytes wrap; nothing else changes.
THEOREM WriteAppends ==
  ASSUME NEW ring, WellFormed(ring), NEW bytes \in Seq(Nat), Fits(ring, Len(bytes))
  PROVE  /\ WellFormed(Write(ring, bytes))
         /\ Write(ring, bytes).CurrentLen = ring.CurrentLen + Len(bytes)
         /\ Contents(Write(ring, bytes)) = Contents(ring) \o bytes
<1> DEFINE w == Write(ring, bytes)
           n == Len(bytes)
<1>1. /\ ring.data \in [Offset -> Cell]
      /\ ring.pWrite \in 0..MaxLen /\ ring.pRead \in 0..MaxLen
      /\ ring.CurrentLen \in 0..MaxLen /\ ring.RemanentLen = MaxLen - ring.CurrentLen
      /\ \/ ring.pWrite = ring.pRead + ring.CurrentLen
         \/ ring.pWrite = ring.pRead + ring.CurrentLen - MaxLen
      /\ n \in Nat /\ n <= MaxLen - ring.CurrentLen
  BY DEF WellFormed, Ring, RingOK, Fits
<1>2. /\ w.pWrite = Advance(ring.pWrite, n) /\ w.pRead = ring.pRead
      /\ w.RemanentLen = ring.RemanentLen - n /\ w.CurrentLen = ring.CurrentLen + n
      /\ w.data = [a \in Offset |-> IF Behind(ring.pWrite, a) < n
                                      THEN bytes[Behind(ring.pWrite, a) + 1] ELSE ring.data[a]]
      /\ w = [data |-> w.data, pWrite |-> w.pWrite, pRead |-> w.pRead,
              RemanentLen |-> w.RemanentLen, CurrentLen |-> w.CurrentLen]
  BY DEF Write
<1>3. w.data \in [Offset -> Cell]
  <2> SUFFICES ASSUME NEW a \in Offset
               PROVE  (IF Behind(ring.pWrite, a) < n THEN bytes[Behind(ring.pWrite, a) + 1]
                                                     ELSE ring.data[a]) \in Cell
    BY <1>2
  <2>1. Behind(ring.pWrite, a) \in Nat
    BY <1>1, MaxLenAssumption, SMTT(30) DEF Behind, Offset
  <2>2. CASE Behind(ring.pWrite, a) < n
    <3>1. Behind(ring.pWrite, a) + 1 \in 1..Len(bytes)
      BY <1>1, <2>1, <2>2
    <3>2. bytes[Behind(ring.pWrite, a) + 1] \in Nat
      BY <3>1, ElementOfSeq
    <3> QED BY <2>2, <3>2 DEF Cell
  <2>3. CASE ~(Behind(ring.pWrite, a) < n)
    BY <1>1, <2>3
  <2> QED BY <2>2, <2>3
<1>4. WellFormed(w)
  <2>1. w.pWrite \in 0..MaxLen /\ Span(w.pWrite, w.pRead, w.CurrentLen)
    <3>1. Span(ring.pWrite, ring.pRead, ring.CurrentLen) /\ n \in 0..MaxLen - ring.CurrentLen
      BY <1>1, MaxLenAssumption DEF Span
    <3>2. /\ Advance(ring.pWrite, n) \in 0..MaxLen
          /\ Span(Advance(ring.pWrite, n), ring.pRead, ring.CurrentLen + n)
      <4> HIDE DEF n
      <4> QED BY <1>1, <3>1, SpanWrite
    <3> QED BY <1>2, <3>2
  <2>2. /\ w.pRead \in 0..MaxLen /\ w.CurrentLen \in 0..MaxLen
        /\ w.RemanentLen = MaxLen - w.CurrentLen /\ w.RemanentLen \in 0..MaxLen
    BY <1>1, <1>2, MaxLenAssumption
  <2>3. w.pWrite = w.pRead + w.CurrentLen \/ w.pWrite = w.pRead + w.CurrentLen - MaxLen
    BY <2>1 DEF Span
  <2> HIDE DEF w
  <2>4. w \in Ring
    BY <1>2, <1>3, <2>1, <2>2 DEF Ring
  <2> QED BY <2>1, <2>2, <2>3, <2>4 DEF WellFormed, RingOK
<1>5. /\ Contents(ring) \in Seq(Cell) /\ Len(Contents(ring)) = ring.CurrentLen
      /\ \A i \in 1..ring.CurrentLen : Contents(ring)[i] = ring.data[At(ring.pRead, i)]
  BY ContentsElements
<1>6. /\ Contents(w) \in Seq(Cell) /\ Len(Contents(w)) = ring.CurrentLen + n
      /\ \A i \in 1..ring.CurrentLen + n : /\ At(ring.pRead, i) \in Offset
                                           /\ Contents(w)[i] = w.data[At(ring.pRead, i)]
  <2> HIDE DEF w
  <2> QED BY <1>2, <1>4, ContentsElements
<1>7. bytes \in Seq(Cell)
  <2>1. Nat \subseteq Cell
    BY DEF Cell
  <2> QED BY <2>1, SeqMonotonic
<1>8. /\ Contents(ring) \o bytes \in Seq(Cell)
      /\ Len(Contents(ring) \o bytes) = ring.CurrentLen + n
      /\ \A i \in 1..ring.CurrentLen + n :
           (Contents(ring) \o bytes)[i]
             = IF i <= ring.CurrentLen THEN Contents(ring)[i] ELSE bytes[i - ring.CurrentLen]
  BY <1>5, <1>7, ConcatProperties, SMTT(30)
<1>9. ASSUME NEW i \in 1..ring.CurrentLen + n
      PROVE  Contents(w)[i] = (Contents(ring) \o bytes)[i]
  <2> DEFINE a == At(ring.pRead, i)
  <2>0. Span(ring.pWrite, ring.pRead, ring.CurrentLen) /\ n \in 0..MaxLen - ring.CurrentLen
    BY <1>1, MaxLenAssumption DEF Span
  <2>1. a \in Offset /\ Contents(w)[i] = w.data[a]
    BY <1>6, <1>9
  <2>2. w.data[a] = IF Behind(ring.pWrite, a) < n THEN bytes[Behind(ring.pWrite, a) + 1]
                                                  ELSE ring.data[a]
    BY <1>2, <2>1
  <2>3. i \in Int /\ i >= 1 /\ i <= ring.CurrentLen + n
    BY <1>1, <1>9
  <2>4. CASE i <= ring.CurrentLen
    <3>1. i \in 1..ring.CurrentLen
      BY <1>1, <2>3, <2>4
    <3>2. ~(Behind(ring.pWrite, a) < n)
      <4> HIDE DEF n
      <4> QED BY <1>1, <2>0, <3>1, OldIsBehind
    <3>3. Contents(ring)[i] = ring.data[a]
      BY <1>5, <3>1
    <3>4. (Contents(ring) \o bytes)[i] = Contents(ring)[i]
      BY <1>8, <1>9, <2>4
    <3> QED BY <2>1, <2>2, <3>2, <3>3, <3>4
  <2>5. CASE ~(i <= ring.CurrentLen)
    <3>1. Behind(ring.pWrite, a) = i - ring.CurrentLen - 1
      <4>1. i \in ring.CurrentLen + 1..ring.CurrentLen + n
        BY <1>1, <2>3, <2>5
      <4> HIDE DEF n
      <4> QED BY <1>1, <2>0, <4>1, NewIsBehind
    <3>2. Behind(ring.pWrite, a) < n /\ Behind(ring.pWrite, a) + 1 = i - ring.CurrentLen
      BY <1>1, <2>3, <3>1
    <3>3. (Contents(ring) \o bytes)[i] = bytes[i - ring.CurrentLen]
      BY <1>8, <1>9, <2>5
    <3> QED BY <2>1, <2>2, <3>2, <3>3
  <2> QED BY <2>4, <2>5
<1> HIDE DEF w, n
<1>10. Contents(w) = Contents(ring) \o bytes
  BY <1>6, <1>8, <1>9, SeqEqual
<1> QED BY <1>2, <1>4, <1>10 DEF w, n

\* RingMemDelete removes as many bytes as it is told from the front and no others.
THEOREM DeleteRemovesFront ==
  ASSUME NEW ring, WellFormed(ring), NEW len \in 0..ring.CurrentLen
  PROVE  /\ WellFormed(Delete(ring, len))
         /\ Delete(ring, len).CurrentLen = ring.CurrentLen - len
         /\ Contents(Delete(ring, len)) = SubSeq(Contents(ring), len + 1, ring.CurrentLen)
<1> DEFINE d == Delete(ring, len)
           cl == ring.CurrentLen
<1>1. /\ ring.data \in [Offset -> Cell]
      /\ ring.pWrite \in 0..MaxLen /\ ring.pRead \in 0..MaxLen
      /\ cl \in 0..MaxLen /\ ring.RemanentLen = MaxLen - cl
      /\ \/ ring.pWrite = ring.pRead + cl
         \/ ring.pWrite = ring.pRead + cl - MaxLen
  BY DEF WellFormed, Ring, RingOK
<1>2. len \in 0..MaxLen /\ len <= cl
  BY <1>1, MaxLenAssumption
<1>3. /\ d.pWrite = ring.pWrite /\ d.pRead = Advance(ring.pRead, len) /\ d.data = ring.data
      /\ d.RemanentLen = ring.RemanentLen + len /\ d.CurrentLen = cl - len
      /\ d = [data |-> d.data, pWrite |-> d.pWrite, pRead |-> d.pRead,
              RemanentLen |-> d.RemanentLen, CurrentLen |-> d.CurrentLen]
  BY DEF Delete
<1>4. d.pRead \in 0..MaxLen /\ Span(d.pWrite, d.pRead, d.CurrentLen)
  <2>1. Span(ring.pWrite, ring.pRead, cl)
    BY <1>1 DEF Span
  <2>2. Advance(ring.pRead, len) \in 0..MaxLen
        /\ Span(ring.pWrite, Advance(ring.pRead, len), cl - len)
    <3> HIDE DEF cl
    <3> QED BY <1>1, <1>2, <2>1, SpanDelete
  <2> QED BY <1>3, <2>2
<1>5. WellFormed(d)
  <2>1. /\ d.CurrentLen \in 0..MaxLen
        /\ d.RemanentLen = MaxLen - d.CurrentLen /\ d.RemanentLen \in 0..MaxLen
    BY <1>1, <1>2, <1>3, MaxLenAssumption
  <2>2. d.pWrite = d.pRead + d.CurrentLen \/ d.pWrite = d.pRead + d.CurrentLen - MaxLen
    BY <1>4 DEF Span
  <2> HIDE DEF d
  <2>3. d \in Ring
    BY <1>1, <1>3, <1>4, <2>1 DEF Ring
  <2> QED BY <1>1, <1>3, <1>4, <2>1, <2>2, <2>3 DEF WellFormed, RingOK
<1>6. /\ Contents(ring) \in Seq(Cell) /\ Len(Contents(ring)) = cl
      /\ \A i \in 1..cl : Contents(ring)[i] = ring.data[At(ring.pRead, i)]
  BY ContentsElements
<1>7. /\ Contents(d) \in Seq(Cell) /\ Len(Contents(d)) = cl - len
      /\ \A i \in 1..cl - len : /\ At(d.pRead, i) \in Offset
                                /\ Contents(d)[i] = ring.data[At(d.pRead, i)]
  <2> HIDE DEF d
  <2> QED BY <1>3, <1>5, ContentsElements
<1>8. /\ SubSeq(Contents(ring), len + 1, cl) \in Seq(Cell)
      /\ Len(SubSeq(Contents(ring), len + 1, cl)) = cl - len
      /\ \A i \in 1..cl - len : SubSeq(Contents(ring), len + 1, cl)[i] = Contents(ring)[len + i]
  <2>1. len + 1 \in Int /\ cl \in Int
    BY <1>1, <1>2
  <2>2. \A i \in len + 1..cl : Contents(ring)[i] \in Cell
    <3> TAKE i \in len + 1..cl
    <3>1. i \in 1..Len(Contents(ring))
      BY <1>1, <1>2, <1>6
    <3> QED BY <1>6, <3>1, ElementOfSeq
  <2>3. /\ SubSeq(Contents(ring), len + 1, cl) \in Seq(Cell)
        /\ Len(SubSeq(Contents(ring), len + 1, cl)) = IF len + 1 <= cl THEN cl - (len + 1) + 1 ELSE 0
        /\ \A i \in 1..cl - (len + 1) + 1 :
             SubSeq(Contents(ring), len + 1, cl)[i] = Contents(ring)[len + 1 + i - 1]
    BY <2>1, <2>2, SubSeqProperties
  <2>4. cl - (len + 1) + 1 = cl - len /\ \A i \in 1..cl - len : len + 1 + i - 1 = len + i
    BY <1>1, <1>2
  <2>5. (IF len + 1 <= cl THEN cl - (len + 1) + 1 ELSE 0) = cl - len
    BY <1>1, <1>2
  <2> HIDE DEF cl
  <2> QED BY <2>3, <2>4, <2>5
<1>9. ASSUME NEW i \in 1..cl - len
      PROVE  Contents(d)[i] = SubSeq(Contents(ring), len + 1, cl)[i]
  <2>1. len + i \in 1..cl
    BY <1>1, <1>2, <1>9
  <2>2. At(d.pRead, i) = At(ring.pRead, len + i)
    <3>1. len \in 0..cl
      BY <1>2
    <3> HIDE DEF cl
    <3> QED BY <1>1, <1>3, <1>9, <3>1, AtAdvance
  <2> QED BY <1>6, <1>7, <1>8, <1>9, <2>1, <2>2
<1>10. Contents(d) = SubSeq(Contents(ring), len + 1, cl)
  <2> HIDE DEF d, cl
  <2> QED BY <1>7, <1>8, <1>9, SeqEqual
<1> QED BY <1>3, <1>5, <1>10

-----------------------------------------------------------------------------
(* The invariant of the types. *)

USE LenAssumption, BoundAssumption

Flags ==
  /\ irq \in BOOLEAN /\ evtUSB \in BOOLEAN /\ evtBLE \in BOOLEAN
  /\ timerUSB \in BOOLEAN /\ timerBLE \in BOOLEAN
  /\ all \in BOOLEAN /\ conn \in BOOLEAN

Endpoint ==
  /\ pend \in {"none", "in", "out", "reset"}
  /\ tokenTog \in {0, 1} /\ rxTog \in {0, 1} /\ hostTog \in {0, 1}
  /\ txRes \in {"ACK", "NAK"}

\* The bytes in the buffers; a packet the host may repeat was counted in its bound.
Buffers ==
  /\ outBuf \in Seq(Nat) /\ inBuf \in Seq(Cell) /\ buf \in Seq(Cell)
  /\ inLen \in Nat /\ inLen <= Len(inBuf)
  /\ pc = "send" => Len(buf) <= Len(inBuf)

Counters ==
  /\ hostSent \in Nat /\ hostUnacked \in Nat /\ hostSent + hostUnacked <= MaxUsb
  /\ phoneSent \in Nat /\ phoneSent <= MaxBle

\* The branch for a long ring is taken, and gone on with, only while the ring is longer
\* than what is notified.
BranchInv == pc \in {"copy", "notify", "delete"} /\ ~all => payload <= RingMemUSB.CurrentLen

TypeInv ==
  /\ WellFormed(RingMemUSB) /\ WellFormed(RingMemBLE)
  /\ Flags /\ Endpoint /\ Buffers /\ Counters /\ BranchInv
  /\ pc \in {"idle", "while", "copy", "notify", "delete", "send"}
  /\ payload \in Payloads

LEMMA TypeInvIsTypeOK == TypeInv => TypeOK
BY DEF TypeInv, TypeOK, WellFormed, Flags, Endpoint, Buffers, Counters

-----------------------------------------------------------------------------
(* Type correctness. *)

LEMMA PayloadPositive == TypeInv => payload \in Nat \ {0}
BY DEF TypeInv

LEMMA CurrentLenType ==
  ASSUME NEW ring, WellFormed(ring)
  PROVE  ring.CurrentLen \in Nat /\ ring.CurrentLen \in 0..ring.CurrentLen
BY DEF WellFormed, Ring

\* Copy, notify and delete ask for no more than the ring holds.
LEMMA LengthFits ==
  ASSUME TypeInv, pc \in {"copy", "notify", "delete"}
  PROVE  Length \in 0..RingMemUSB.CurrentLen
<1>1. RingMemUSB.CurrentLen \in Nat /\ payload \in Nat
  BY CurrentLenType, PayloadPositive DEF TypeInv
<1>2. all \in BOOLEAN /\ (~all => payload <= RingMemUSB.CurrentLen)
  BY DEF TypeInv, BranchInv, Flags
<1> QED BY <1>1, <1>2 DEF Length

LEMMA NumbersType ==
  ASSUME NEW first \in Nat, NEW n \in Nat
  PROVE  Numbers(first, n) \in Seq(Nat) /\ Len(Numbers(first, n)) = n
<1>1. \A i \in 1..n : first + i - 1 \in Nat
  OBVIOUS
<1>2. Numbers(first, n) \in [1..n -> Nat]
  BY <1>1 DEF Numbers
<1> QED BY <1>2

LEMMA AtMost ==
  ASSUME NEW x, NEW a \in Nat, NEW b \in Nat, x = (a <= b)
  PROVE  x \in BOOLEAN /\ (~x => b <= a)
<1>1. x \in BOOLEAN
  OBVIOUS
<1>2. CASE a <= b
  <2>1. x = TRUE
    BY <1>2
  <2> QED BY <2>1
<1>3. CASE ~(a <= b)
  BY <1>1, <1>3
<1> QED BY <1>2, <1>3

LEMMA FitsType ==
  ASSUME NEW ring, NEW len PROVE Fits(ring, len) \in BOOLEAN
BY DEF Fits

LEMMA TypeInit == Init => TypeInv
<1> SUFFICES ASSUME Init PROVE TypeInv
  OBVIOUS
<1>1. WellFormed(RingMemUSB) /\ WellFormed(RingMemBLE)
  BY EmptyRingWellFormed DEF Init
<1>2. Buffers
  <2>1. <<>> \in Seq(Nat) /\ <<>> \in Seq(Cell) /\ Len(<<>>) = 0
    BY EmptySeq
  <2> QED BY <2>1 DEF Init, Buffers
<1>3. Flags /\ Endpoint /\ BranchInv
  BY DEF Init, Flags, Endpoint, BranchInv
<1>4. Counters
  <2>1. MaxUsb \in Nat /\ MaxBle \in Nat
    OBVIOUS
  <2> QED BY <2>1 DEF Init, Counters
<1> QED BY <1>1, <1>2, <1>3, <1>4 DEF Init, TypeInv

\* The host and its controller.
LEMMA TypeHost == TypeInv /\ Host => TypeInv'
<1> SUFFICES ASSUME TypeInv, Host PROVE TypeInv'
  OBVIOUS
<1>1. UNCHANGED <<RingMemUSB, RingMemBLE, irq, task, events, link, rxTog, inEp, phoneSent>>
  BY DEF Host, HostOut, HostIn, HostReset, rings, outEp
<1>2. outBuf' \in Seq(Nat)
  <2>1. CASE \E n \in OutLens : HostOut(n)
    <3>1. PICK n \in OutLens : HostOut(n)
      BY <2>1
    <3>2. hostSent + 1 \in Nat /\ n \in Nat
      BY DEF TypeInv, Counters
    <3> QED BY <3>1, <3>2, NumbersType DEF HostOut
  <2>2. CASE HostIn \/ HostReset
    BY <2>2 DEF HostIn, HostReset, outEp, TypeInv, Buffers
  <2> QED BY <2>1, <2>2 DEF Host
<1>3. Counters' /\ Endpoint'
  <2>1. CASE \E n \in OutLens : HostOut(n)
    <3>1. PICK n \in OutLens : HostOut(n)
      BY <2>1
    <3>2. n \in Nat \ {0}
      OBVIOUS
    <3>3. Counters'
      BY <1>1, <3>1, <3>2 DEF HostOut, TypeInv, Counters
    <3>4. Endpoint'
      BY <1>1, <3>1 DEF HostOut, TypeInv, Endpoint, inEp
    <3> QED BY <3>3, <3>4
  <2>2. CASE HostIn
    BY <2>2 DEF HostIn, TypeInv, Counters, Endpoint, outEp, inEp, usbHost
  <2>3. CASE HostReset
    BY <2>3 DEF HostReset, TypeInv, Counters, Endpoint, outEp, inEp
  <2> QED BY <2>1, <2>2, <2>3 DEF Host
<1>4. UNCHANGED <<RingMemUSB, RingMemBLE, irq, evtUSB, evtBLE, timerUSB, timerBLE, pc, all, buf,
                  conn, payload, inBuf, inLen>>
  BY <1>1 DEF task, events, link, inEp
<1> QED BY <1>2, <1>3, <1>4 DEF TypeInv, Flags, Buffers, BranchInv

\* The interrupt.
LEMMA TypeInterrupt == TypeInv /\ Interrupt => TypeInv'
<1> SUFFICES ASSUME TypeInv, Interrupt PROVE TypeInv'
  OBVIOUS
<1>1. CASE OutInterrupt
  <2>1. UNCHANGED <<RingMemBLE, evtBLE, timerUSB, timerBLE, pc, all, buf, conn, payload,
                    inBuf, inLen, txRes, hostTog, hostUnacked, hostSent, phoneSent>>
    BY <1>1 DEF OutInterrupt, task, link, inEp, usbHost
  <2>2. /\ pend' = "none" /\ outBuf' = <<>> /\ tokenTog' = 0
        /\ rxTog' \in {rxTog, 1 - rxTog}
    BY <1>1 DEF OutInterrupt
  <2>7. evtUSB' \in BOOLEAN /\ irq' \in BOOLEAN
    <3>1. irq \in BOOLEAN /\ evtUSB \in BOOLEAN
      BY DEF TypeInv, Flags
    <3>2. \/ evtUSB' = TRUE /\ irq' = Fits(RingMemUSB, Len(outBuf))
          \/ evtUSB' = evtUSB /\ irq' = irq
      BY <1>1 DEF OutInterrupt
    <3> QED BY <3>1, <3>2, FitsType
  <2>3. WellFormed(RingMemUSB') /\ RingMemUSB'.CurrentLen >= RingMemUSB.CurrentLen
    <3>1. RingMemUSB.CurrentLen \in Nat
      BY CurrentLenType DEF TypeInv
    <3>2. CASE RingMemUSB' = RingMemUSB
      BY <3>1, <3>2 DEF TypeInv
    <3>3. CASE RingMemUSB' # RingMemUSB
      <4>1. RingMemUSB' = Write(RingMemUSB, outBuf) /\ Fits(RingMemUSB, Len(outBuf))
        BY <1>1, <3>3 DEF OutInterrupt
      <4>2. outBuf \in Seq(Nat) /\ WellFormed(RingMemUSB)
        BY DEF TypeInv, Buffers
      <4>3. Len(outBuf) \in Nat
        BY <4>2, LenProperties
      <4> QED BY <3>1, <4>1, <4>2, <4>3, WriteAppends
    <3> QED BY <3>2, <3>3
  <2>4. BranchInv'
    <3>1. RingMemUSB.CurrentLen \in Nat /\ RingMemUSB'.CurrentLen \in Nat /\ payload \in Nat
      BY <2>3, CurrentLenType, PayloadPositive DEF TypeInv
    <3> QED BY <2>1, <2>3, <3>1 DEF BranchInv, TypeInv
  <2>5. Buffers'
    <3>1. outBuf' \in Seq(Nat)
      BY <2>2, EmptySeq
    <3> QED BY <2>1, <3>1 DEF TypeInv, Buffers
  <2>6. Flags' /\ Endpoint' /\ Counters'
    <3>1. Flags'
      BY <2>1, <2>7 DEF TypeInv, Flags
    <3>2. Endpoint'
      BY <2>1, <2>2 DEF TypeInv, Endpoint
    <3>3. Counters'
      BY <2>1 DEF TypeInv, Counters
    <3> QED BY <3>1, <3>2, <3>3
  <2> QED BY <2>1, <2>3, <2>4, <2>5, <2>6 DEF TypeInv
<1>2. CASE InInterrupt \/ ResetInterrupt
  <2>1. /\ UNCHANGED <<RingMemUSB, RingMemBLE, irq, evtUSB, evtBLE, timerUSB, timerBLE, pc, all,
                       buf, conn, payload, outBuf, tokenTog, inBuf, inLen, hostTog, hostUnacked,
                       hostSent, phoneSent>>
        /\ pend' = "none" /\ txRes' = "NAK" /\ rxTog' \in {0, rxTog}
    BY <1>2 DEF InInterrupt, ResetInterrupt, rings, task, events, link, outEp, usbHost
  <2> QED BY <2>1 DEF TypeInv, Flags, Endpoint, Buffers, Counters, BranchInv
<1> QED BY <1>1, <1>2 DEF Interrupt

\* The event that empties RingMemUSB.
LEMMA TypeUsbTask ==
  TypeInv /\ (UsbEvent \/ WhileData \/ WhileEnds \/ CopyData \/ Notify \/ NotifyFails \/ DeleteData)
    => TypeInv'
<1> SUFFICES ASSUME TypeInv, UsbEvent \/ WhileData \/ WhileEnds \/ CopyData \/ Notify
                             \/ NotifyFails \/ DeleteData
             PROVE  TypeInv'
  OBVIOUS
<1>1. UNCHANGED <<RingMemBLE, evtBLE, timerBLE, conn, payload, pend, outBuf, tokenTog, rxTog,
                  inBuf, inLen, txRes, hostTog, hostUnacked, hostSent, phoneSent>>
  BY DEF UsbEvent, WhileData, WhileEnds, CopyData, Notify, NotifyFails, DeleteData, Rest, rings,
         events, link, outEp, inEp, usbHost
<1>2. Endpoint' /\ Counters' /\ WellFormed(RingMemBLE')
  BY <1>1 DEF TypeInv, Endpoint, Counters
<1>3. CASE UsbEvent \/ WhileEnds \/ Notify
  <2>1. /\ UNCHANGED <<RingMemUSB, irq, all, buf>>
        /\ evtUSB' \in BOOLEAN /\ timerUSB' \in BOOLEAN
        /\ pc' \in {"while", "idle", "delete"} /\ (pc' = "delete" => pc = "notify")
    BY <1>3 DEF UsbEvent, WhileEnds, Notify, Served, Step, rings, events, TypeInv, Flags
  <2> QED BY <1>1, <1>2, <2>1 DEF TypeInv, Flags, Buffers, BranchInv
<1>4. CASE WhileData
  <2>1. /\ UNCHANGED <<RingMemUSB, irq, buf, evtUSB, timerUSB>>
        /\ pc' = "copy" /\ all' = (RingMemUSB.CurrentLen <= payload)
    BY <1>4 DEF WhileData, Step, rings, events
  <2>2. RingMemUSB.CurrentLen \in Nat /\ payload \in Nat
    BY CurrentLenType, PayloadPositive DEF TypeInv
  <2>4. all' \in BOOLEAN /\ (~all' => payload <= RingMemUSB.CurrentLen)
    <3>1. all' = (RingMemUSB.CurrentLen <= payload)
      BY <2>1
    <3> QED BY <2>2, <3>1, AtMost
  <2>3. BranchInv' /\ all' \in BOOLEAN
    BY <1>1, <2>1, <2>4 DEF BranchInv
  <2> QED BY <1>1, <1>2, <2>1, <2>3 DEF TypeInv, Flags, Buffers
<1>5. CASE CopyData
  <2>1. /\ UNCHANGED <<RingMemUSB, all, evtUSB, timerUSB>>
        /\ pc = "copy" /\ pc' = "notify" /\ irq' = TRUE /\ buf' = Copy(RingMemUSB, Length)
    BY <1>5 DEF CopyData, Step, rings, events
  <2>2. buf' \in Seq(Cell)
    BY <2>1, LengthFits, CopyElements DEF TypeInv
  <2> QED BY <1>1, <1>2, <2>1, <2>2 DEF TypeInv, Flags, Buffers, BranchInv
<1>6. CASE NotifyFails \/ DeleteData
  <2>1. /\ pc' \in {"idle", "while"} /\ all' = FALSE /\ buf' = <<>>
        /\ irq' \in BOOLEAN /\ evtUSB' = evtUSB /\ timerUSB' \in BOOLEAN
    BY <1>6 DEF NotifyFails, DeleteData, Step, EndOfScope, events, TypeInv, Flags
  <2>2. WellFormed(RingMemUSB')
    <3>1. CASE NotifyFails
      BY <3>1 DEF NotifyFails, rings, TypeInv
    <3>2. CASE DeleteData
      <4>1. pc = "delete" /\ RingMemUSB' = Delete(RingMemUSB, Length)
        BY <3>2 DEF DeleteData, Step
      <4> QED BY <4>1, LengthFits, DeleteRemovesFront DEF TypeInv
    <3> QED BY <1>6, <3>1, <3>2
  <2>3. Buffers'
    <3>1. <<>> \in Seq(Cell)
      BY EmptySeq
    <3> QED BY <1>1, <2>1, <3>1 DEF TypeInv, Buffers
  <2> QED BY <1>1, <1>2, <2>1, <2>2, <2>3 DEF TypeInv, Flags, BranchInv
<1> QED BY <1>3, <1>4, <1>5, <1>6

\* What an IN packet takes from RingMemBLE.
SendLength == IF RingMemBLE.CurrentLen > SendMax THEN SendMax ELSE RingMemBLE.CurrentLen

\* The two outcomes of the event.
LEMMA BleEventCases ==
  ASSUME BleEvent
  PROVE  /\ pc = "idle" /\ ~Due /\ evtBLE' = FALSE /\ timerBLE' \in BOOLEAN
         /\ UNCHANGED <<RingMemUSB, all, evtUSB, timerUSB, inLen, txRes, phoneSent, conn, payload,
                        pend, outBuf, tokenTog, rxTog, hostTog, hostUnacked, hostSent, appended,
                        owedUSB>>
         /\ \/ /\ pc' = "idle"
               /\ UNCHANGED <<RingMemBLE, owedBLE, irq, inBuf, buf, overwritten>>
            \/ /\ pc' = "send" /\ RingMemBLE.CurrentLen # 0
               /\ overwritten' = (overwritten \/ ~Fetched)
               /\ owedBLE' = IF overwritten' THEN <<>> ELSE owedBLE
               /\ buf' = Copy(RingMemBLE, SendLength)
               /\ inBuf' = buf' \o SubSeq(inBuf, SendLength + 1, Len(inBuf))
               /\ RingMemBLE' = Delete(RingMemBLE, SendLength)
               /\ irq' = TRUE
BY DEF BleEvent, Served, Step, SendLength, rings, link, outEp, usbHost

LEMMA SendLengthFits ==
  ASSUME TypeInv, RingMemBLE.CurrentLen # 0
  PROVE  SendLength \in 1..RingMemBLE.CurrentLen
<1>1. RingMemBLE.CurrentLen \in Nat \ {0} /\ SendMax \in Nat \ {0}
  BY CurrentLenType DEF TypeInv
<1> QED BY <1>1 DEF SendLength

\* The rest of the TMOS task.
LEMMA TypeBleTask ==
  TypeInv /\ (BleEvent \/ InDeal \/ LinkEvent \/ \E n \in WriteLens : PhoneWrite(n)) => TypeInv'
<1> SUFFICES ASSUME TypeInv, BleEvent \/ InDeal \/ LinkEvent \/ \E n \in WriteLens : PhoneWrite(n)
             PROVE  TypeInv'
  OBVIOUS
<1>1. CASE BleEvent
  <2>1. /\ pc = "idle" /\ evtBLE' = FALSE /\ timerBLE' \in BOOLEAN
        /\ UNCHANGED <<RingMemUSB, all, evtUSB, timerUSB, inLen, txRes, phoneSent, conn, payload,
                       pend, outBuf, tokenTog, rxTog, hostTog, hostUnacked, hostSent>>
    BY <1>1, BleEventCases
  <2>2. Endpoint' /\ Counters' /\ WellFormed(RingMemUSB')
    BY <2>1 DEF TypeInv, Endpoint, Counters
  <2>3. CASE pc' = "idle" /\ UNCHANGED <<RingMemBLE, irq, inBuf, buf>>
    BY <2>1, <2>2, <2>3 DEF TypeInv, Flags, Buffers, BranchInv
  <2>4. CASE /\ pc' = "send" /\ RingMemBLE.CurrentLen # 0
             /\ buf' = Copy(RingMemBLE, SendLength)
             /\ inBuf' = buf' \o SubSeq(inBuf, SendLength + 1, Len(inBuf))
             /\ RingMemBLE' = Delete(RingMemBLE, SendLength)
             /\ irq' = TRUE
    <3>1. SendLength \in Nat /\ SendLength \in 0..RingMemBLE.CurrentLen
      BY <2>4, SendLengthFits, CurrentLenType DEF TypeInv
    <3>2. WellFormed(RingMemBLE')
      BY <2>4, <3>1, DeleteRemovesFront DEF TypeInv
    <3>3. buf' \in Seq(Cell) /\ Len(buf') = SendLength
      BY <2>4, <3>1, CopyElements DEF TypeInv
    <3>4. inBuf \in Seq(Cell) /\ Len(inBuf) \in Nat /\ inLen \in Nat /\ inLen <= Len(inBuf)
      BY LenProperties DEF TypeInv, Buffers
    <3>5. /\ SubSeq(inBuf, SendLength + 1, Len(inBuf)) \in Seq(Cell)
          /\ Len(SubSeq(inBuf, SendLength + 1, Len(inBuf)))
               = IF SendLength + 1 <= Len(inBuf) THEN Len(inBuf) - SendLength ELSE 0
      <4>1. \A i \in SendLength + 1..Len(inBuf) : inBuf[i] \in Cell
        BY <3>1, <3>4, ElementOfSeq
      <4>2. /\ SubSeq(inBuf, SendLength + 1, Len(inBuf)) \in Seq(Cell)
            /\ Len(SubSeq(inBuf, SendLength + 1, Len(inBuf)))
                 = IF SendLength + 1 <= Len(inBuf) THEN Len(inBuf) - (SendLength + 1) + 1 ELSE 0
        BY <3>1, <3>4, <4>1, SubSeqProperties
      <4> QED BY <3>1, <3>4, <4>2
    <3>6. /\ inBuf' \in Seq(Cell)
          /\ Len(inBuf') = SendLength + Len(SubSeq(inBuf, SendLength + 1, Len(inBuf)))
      BY <2>4, <3>3, <3>5, ConcatProperties
    <3>7. Len(inBuf') \in Nat /\ Len(inBuf') >= SendLength /\ Len(inBuf') >= Len(inBuf)
      BY <3>1, <3>4, <3>5, <3>6
    <3>8. Buffers'
      BY <2>1, <3>1, <3>3, <3>4, <3>6, <3>7 DEF TypeInv, Buffers
    <3> QED BY <2>1, <2>2, <2>4, <3>2, <3>8 DEF TypeInv, Flags, BranchInv
  <2> QED BY <1>1, <2>3, <2>4, BleEventCases
<1>2. CASE InDeal
  <2>1. /\ UNCHANGED <<RingMemUSB, RingMemBLE, irq, evtUSB, evtBLE, timerUSB, conn, payload, pend,
                       outBuf, tokenTog, rxTog, inBuf, hostTog, hostUnacked, hostSent, phoneSent>>
        /\ pc = "send" /\ pc' = "idle" /\ timerBLE' = TRUE /\ txRes' = "ACK" /\ inLen' = Len(buf)
        /\ all' = FALSE /\ buf' = <<>>
    BY <1>2 DEF InDeal, Step, EndOfScope, Rest, rings, link, outEp, usbHost
  <2>2. <<>> \in Seq(Cell) /\ Len(buf) \in Nat
    BY EmptySeq, LenProperties DEF TypeInv, Buffers
  <2>3. Buffers'
    BY <2>1, <2>2 DEF TypeInv, Buffers
  <2> QED BY <2>1, <2>3 DEF TypeInv, Flags, Endpoint, Counters, BranchInv
<1>3. CASE LinkEvent
  <2>1. /\ UNCHANGED <<RingMemUSB, RingMemBLE, irq, all, buf, evtUSB, evtBLE, timerUSB, timerBLE,
                       pend, outBuf, tokenTog, rxTog, inBuf, inLen, txRes, hostTog, hostUnacked,
                       hostSent, phoneSent>>
        /\ pc' = "idle" /\ conn' \in BOOLEAN /\ payload' \in Payloads
    BY <1>3 DEF LinkEvent, Step, rings, events, outEp, inEp, usbHost, TypeInv, Flags
  <2> QED BY <2>1 DEF TypeInv, Flags, Endpoint, Buffers, Counters, BranchInv
<1>4. CASE \E n \in WriteLens : PhoneWrite(n)
  <2>1. PICK n \in WriteLens : PhoneWrite(n)
    BY <1>4
  <2>2. /\ UNCHANGED <<RingMemUSB, all, buf, evtUSB, timerUSB, timerBLE, conn, payload, pend, outBuf,
                       tokenTog, rxTog, inBuf, inLen, txRes, hostTog, hostUnacked, hostSent>>
        /\ pc' = "idle" /\ evtBLE' = TRUE /\ irq' = Fits(RingMemBLE, n)
        /\ phoneSent' = phoneSent + n /\ phoneSent + n <= MaxBle
    BY <2>1 DEF PhoneWrite, Step, Rest, link, outEp, inEp, usbHost
  <2>5. irq' \in BOOLEAN
    BY <2>2, FitsType
  <2>3. n \in Nat /\ phoneSent + 1 \in Nat /\ phoneSent \in Nat
    BY DEF TypeInv, Counters
  <2>4. WellFormed(RingMemBLE')
    <3>1. CASE Fits(RingMemBLE, n)
      <4>1. Numbers(phoneSent + 1, n) \in Seq(Nat) /\ Len(Numbers(phoneSent + 1, n)) = n
        BY <2>3, NumbersType
      <4>2. RingMemBLE' = Write(RingMemBLE, Numbers(phoneSent + 1, n))
        BY <2>1, <3>1 DEF PhoneWrite
      <4> QED BY <3>1, <4>1, <4>2, WriteAppends DEF TypeInv
    <3>2. CASE ~Fits(RingMemBLE, n)
      BY <2>1, <3>2 DEF PhoneWrite, TypeInv
    <3> QED BY <3>1, <3>2
  <2> QED BY <2>2, <2>3, <2>4, <2>5 DEF TypeInv, Flags, Endpoint, Buffers, Counters, BranchInv
<1> QED BY <1>1, <1>2, <1>3, <1>4

LEMMA TypeStep == TypeInv /\ [Next]_vars => TypeInv'
<1> SUFFICES ASSUME TypeInv, [Next]_vars PROVE TypeInv'
  OBVIOUS
<1>1. CASE UNCHANGED vars
  BY <1>1 DEF TypeInv, Flags, Endpoint, Buffers, Counters, BranchInv, vars, rings, task, events,
              link, outEp, inEp, usbHost
<1> QED BY <1>1, TypeHost, TypeInterrupt, TypeUsbTask, TypeBleTask DEF Next, Loop

\* Pointers and lengths of the rings agree at every moment, the USB interrupt between any
\* two statements included: no ring function is ever asked for bytes that are not there.
THEOREM UsbTypeCorrect == Spec => []TypeOK
BY TypeInit, TypeStep, TypeInvIsTypeOK, PTL DEF Spec
-----------------------------------------------------------------------------
(* Fronts and rests of sequences. *)

LEMMA FrontAndRest ==
  ASSUME NEW S, NEW s \in Seq(S), NEW n \in 0..Len(s)
  PROVE  /\ SubSeq(s, 1, n) \in Seq(S) /\ Len(SubSeq(s, 1, n)) = n
         /\ \A i \in 1..n : SubSeq(s, 1, n)[i] = s[i]
         /\ SubSeq(s, n + 1, Len(s)) \in Seq(S) /\ Len(SubSeq(s, n + 1, Len(s))) = Len(s) - n
         /\ \A i \in 1..Len(s) - n : SubSeq(s, n + 1, Len(s))[i] = s[n + i]
<1>1. Len(s) \in Nat /\ n \in Nat /\ n <= Len(s) /\ n + 1 \in Int
  BY LenProperties
<1>2. \A i \in 1..Len(s) : s[i] \in S
  BY ElementOfSeq
<1>3. (\A i \in 1..n : s[i] \in S) /\ (\A i \in n + 1..Len(s) : s[i] \in S)
  BY <1>1, <1>2
<1>4. /\ SubSeq(s, 1, n) \in Seq(S)
      /\ Len(SubSeq(s, 1, n)) = IF 1 <= n THEN n - 1 + 1 ELSE 0
      /\ \A i \in 1..n - 1 + 1 : SubSeq(s, 1, n)[i] = s[1 + i - 1]
  BY <1>1, <1>3, SubSeqProperties
<1>5. /\ SubSeq(s, n + 1, Len(s)) \in Seq(S)
      /\ Len(SubSeq(s, n + 1, Len(s))) = IF n + 1 <= Len(s) THEN Len(s) - (n + 1) + 1 ELSE 0
      /\ \A i \in 1..Len(s) - (n + 1) + 1 : SubSeq(s, n + 1, Len(s))[i] = s[n + 1 + i - 1]
  BY <1>1, <1>3, SubSeqProperties
<1>6. \A i \in 1..n : SubSeq(s, 1, n)[i] = s[i]
  <2> TAKE i \in 1..n
  <2>1. i \in 1..n - 1 + 1 /\ 1 + i - 1 = i
    BY <1>1
  <2> QED BY <1>4, <2>1
<1>7. \A i \in 1..Len(s) - n : SubSeq(s, n + 1, Len(s))[i] = s[n + i]
  <2> TAKE i \in 1..Len(s) - n
  <2>1. i \in 1..Len(s) - (n + 1) + 1 /\ n + 1 + i - 1 = n + i
    BY <1>1
  <2> QED BY <1>5, <2>1
<1> QED BY <1>1, <1>4, <1>5, <1>6, <1>7

LEMMA FrontAppend ==
  ASSUME NEW S, NEW s \in Seq(S), NEW t \in Seq(S), NEW n \in 0..Len(s)
  PROVE  SubSeq(s \o t, 1, n) = SubSeq(s, 1, n)
<1>1. Len(s) \in Nat /\ Len(t) \in Nat
  BY LenProperties
<1>2. /\ s \o t \in Seq(S) /\ Len(s \o t) = Len(s) + Len(t)
      /\ \A i \in 1..Len(s) + Len(t) : (s \o t)[i] = IF i <= Len(s) THEN s[i] ELSE t[i - Len(s)]
  BY ConcatProperties
<1>3. n \in 0..Len(s \o t)
  BY <1>1, <1>2
<1>4. /\ SubSeq(s \o t, 1, n) \in Seq(S) /\ Len(SubSeq(s \o t, 1, n)) = n
      /\ \A i \in 1..n : SubSeq(s \o t, 1, n)[i] = (s \o t)[i]
  BY <1>2, <1>3, FrontAndRest
<1>5. /\ SubSeq(s, 1, n) \in Seq(S) /\ Len(SubSeq(s, 1, n)) = n
      /\ \A i \in 1..n : SubSeq(s, 1, n)[i] = s[i]
  BY FrontAndRest
<1>6. \A i \in 1..n : (s \o t)[i] = s[i]
  BY <1>1, <1>2
<1> QED BY <1>4, <1>5, <1>6, SeqEqual

LEMMA RestAppend ==
  ASSUME NEW S, NEW s \in Seq(S), NEW t \in Seq(S), NEW n \in 0..Len(s)
  PROVE  SubSeq(s \o t, n + 1, Len(s) + Len(t)) = SubSeq(s, n + 1, Len(s)) \o t
<1> DEFINE l == Len(s)
           m == Len(t)
           left == SubSeq(s \o t, n + 1, l + m)
           r == SubSeq(s, n + 1, l)
<1>1. l \in Nat /\ m \in Nat /\ n \in Nat /\ n <= l
  BY LenProperties
<1>2. /\ s \o t \in Seq(S) /\ Len(s \o t) = l + m
      /\ \A i \in 1..l + m : (s \o t)[i] = IF i <= l THEN s[i] ELSE t[i - l]
  BY ConcatProperties
<1>3. n \in 0..Len(s \o t)
  BY <1>1, <1>2
<1>4. /\ left \in Seq(S) /\ Len(left) = l + m - n
      /\ \A i \in 1..l + m - n : left[i] = (s \o t)[n + i]
  BY <1>2, <1>3, FrontAndRest, SMTT(30)
<1>5. r \in Seq(S) /\ Len(r) = l - n /\ \A i \in 1..l - n : r[i] = s[n + i]
  BY FrontAndRest
<1>6. /\ r \o t \in Seq(S) /\ Len(r \o t) = Len(r) + m
      /\ \A i \in 1..Len(r) + m : (r \o t)[i] = IF i <= Len(r) THEN r[i] ELSE t[i - Len(r)]
  <2>1. r \in Seq(S)
    BY <1>5
  <2> HIDE DEF r
  <2> QED BY <2>1, ConcatProperties
<1> HIDE DEF left, r, l, m
<1>7. \A i \in 1..l + m - n : left[i] = (r \o t)[i]
  <2> TAKE i \in 1..l + m - n
  <2>1. n + i \in 1..l + m /\ i \in 1..Len(r) + m
    BY <1>1, <1>5
  <2>4. left[i] = (s \o t)[n + i]
    BY <1>4
  <2>2. CASE i <= l - n
    <3>1. n + i <= l /\ i \in 1..l - n /\ i <= Len(r)
      BY <1>1, <1>5, <2>2
    <3>2. (s \o t)[n + i] = s[n + i]
      BY <1>2, <2>1, <3>1
    <3>3. (r \o t)[i] = r[i]
      BY <1>6, <2>1, <3>1
    <3> QED BY <1>5, <2>4, <3>1, <3>2, <3>3
  <2>3. CASE ~(i <= l - n)
    <3>1. ~(n + i <= l) /\ (n + i) - l = i - Len(r) /\ ~(i <= Len(r))
      BY <1>1, <1>5, <2>3
    <3>2. (s \o t)[n + i] = t[(n + i) - l]
      BY <1>1, <1>2, <2>1, <3>1
    <3>3. (r \o t)[i] = t[i - Len(r)]
      BY <1>6, <2>1, <3>1
    <3>4. (s \o t)[n + i] = t[i - Len(r)]
      BY <3>1, <3>2
    <3> QED BY <2>4, <3>3, <3>4
  <2> QED BY <2>2, <2>3
<1>8. Len(left) = Len(r \o t)
  BY <1>1, <1>4, <1>5, <1>6
<1>9. \A i \in 1..Len(left) : left[i] = (r \o t)[i]
  BY <1>4, <1>7
<1>10. left = r \o t
  BY <1>4, <1>6, <1>8, <1>9, SeqEqual
<1> QED BY <1>10 DEF left, r, l, m

LEMMA RestOfConcat ==
  ASSUME NEW S, NEW s \in Seq(S), NEW t \in Seq(S)
  PROVE  SubSeq(s \o t, Len(s) + 1, Len(s \o t)) = t
<1>1. Len(s) \in Nat /\ Len(s) \in 0..Len(s) /\ Len(s \o t) = Len(s) + Len(t)
  BY LenProperties, ConcatProperties
<1>2. SubSeq(s, Len(s) + 1, Len(s)) = <<>>
  BY <1>1, SubSeqEmpty
<1>3. <<>> \o t = t
  BY ConcatEmptySeq
<1> QED BY <1>1, <1>2, <1>3, RestAppend

LEMMA FrontThenRest ==
  ASSUME NEW S, NEW s \in Seq(S), NEW n \in 0..Len(s)
  PROVE  SubSeq(s, 1, n) \o SubSeq(s, n + 1, Len(s)) = s
<1>1. Len(s) \in Nat /\ 1 \in 1..Len(s) + 1 /\ n \in 1 - 1..Len(s) /\ Len(s) \in n..Len(s)
  BY LenProperties
<1> QED BY <1>1, ConcatAdjacentSubSeq, SubSeqFull

-----------------------------------------------------------------------------
(* Bytes in their order, none later than top. *)

Run(s, top) == s \in Seq(Nat) /\ Increasing(s) /\ \A i \in 1..Len(s) : s[i] <= top

LEMMA RunEmpty == ASSUME NEW top PROVE Run(<<>>, top)
<1>1. <<>> \in Seq(Nat) /\ Len(<<>>) = 0
  BY EmptySeq
<1> QED BY <1>1 DEF Run, Increasing

LEMMA RunMore ==
  ASSUME NEW s, NEW top \in Nat, NEW more \in Nat, top <= more, Run(s, top)
  PROVE  Run(s, more)
<1>1. \A i \in 1..Len(s) : s[i] \in Nat
  BY ElementOfSeq DEF Run
<1> QED BY <1>1 DEF Run

LEMMA RunRest ==
  ASSUME NEW s, NEW top \in Nat, Run(s, top), NEW n \in 0..Len(s)
  PROVE  Run(SubSeq(s, n + 1, Len(s)), top)
<1> DEFINE r == SubSeq(s, n + 1, Len(s))
<1>1. s \in Seq(Nat) /\ Len(s) \in Nat /\ n \in Nat /\ n <= Len(s)
  BY LenProperties DEF Run
<1>2. r \in Seq(Nat) /\ Len(r) = Len(s) - n /\ \A i \in 1..Len(s) - n : r[i] = s[n + i]
  BY <1>1, FrontAndRest, SMTT(30)
<1> HIDE DEF r
<1>3. \A i \in 1..Len(r) - 1 : r[i] < r[i + 1]
  <2> TAKE i \in 1..Len(r) - 1
  <2>4. i \in Nat /\ i >= 1 /\ i <= Len(s) - n - 1
    BY <1>1, <1>2
  <2>1. i \in 1..Len(s) - n /\ i + 1 \in 1..Len(s) - n /\ n + i \in 1..Len(s) - 1
        /\ n + (i + 1) = n + i + 1
    BY <1>1, <2>4
  <2>2. s[n + i] < s[n + i + 1]
    BY <2>1 DEF Run, Increasing
  <2>3. r[i] = s[n + i] /\ r[i + 1] = s[n + (i + 1)]
    BY <1>2, <2>1
  <2> QED BY <2>1, <2>2, <2>3
<1>4. \A i \in 1..Len(r) : r[i] <= top
  <2> TAKE i \in 1..Len(r)
  <2>1. i \in 1..Len(s) - n /\ n + i \in 1..Len(s)
    BY <1>1, <1>2
  <2> QED BY <1>2, <2>1 DEF Run
<1>5. Run(r, top)
  BY <1>2, <1>3, <1>4 DEF Run, Increasing
<1> QED BY <1>5 DEF r

LEMMA RunAppend ==
  ASSUME NEW s, NEW top \in Nat, Run(s, top), NEW n \in Nat
  PROVE  Run(s \o Numbers(top + 1, n), top + n)
<1> DEFINE t == Numbers(top + 1, n)
           u == s \o t
           l == Len(s)
<1>1. s \in Seq(Nat) /\ l \in Nat /\ \A i \in 1..l : s[i] \in Nat /\ s[i] <= top
  <2>1. s \in Seq(Nat) /\ \A i \in 1..l : s[i] <= top
    BY DEF Run
  <2>2. l \in Nat /\ \A i \in 1..l : s[i] \in Nat
    BY <2>1, LenProperties, ElementOfSeq
  <2> QED BY <2>1, <2>2
<1>2. t \in Seq(Nat) /\ Len(t) = n
  <2>1. top + 1 \in Nat
    OBVIOUS
  <2> QED BY <2>1, NumbersType
<1>3. \A i \in 1..n : t[i] = top + i
  BY DEF Numbers
<1>4. /\ u \in Seq(Nat) /\ Len(u) = l + n
      /\ \A i \in 1..l + n : u[i] = IF i <= l THEN s[i] ELSE t[i - l]
  BY <1>1, <1>2, ConcatProperties
<1>5. \A i \in 1..l - 1 : s[i] < s[i + 1]
  BY DEF Run, Increasing
<1> HIDE DEF t, u, l
<1>6. \A i \in 1..l + n : u[i] \in Nat /\ IF i <= l THEN u[i] = s[i] /\ u[i] <= top ELSE u[i] = top + (i - l)
  <2> TAKE i \in 1..l + n
  <2>1. CASE i <= l
    BY <1>1, <1>4, <2>1
  <2>2. CASE ~(i <= l)
    <3>1. i - l \in 1..n
      BY <1>1, <2>2
    <3>2. u[i] = t[i - l]
      BY <1>4, <2>2
    <3>3. t[i - l] = top + (i - l)
      BY <1>3, <3>1
    <3> QED BY <1>1, <2>2, <3>1, <3>2, <3>3
  <2> QED BY <2>1, <2>2
<1>7. \A i \in 1..Len(u) : u[i] <= top + n
  <2> TAKE i \in 1..Len(u)
  <2>1. i \in 1..l + n
    BY <1>4
  <2> QED BY <1>1, <1>6, <2>1
<1>8. \A i \in 1..Len(u) - 1 : u[i] < u[i + 1]
  <2> TAKE i \in 1..Len(u) - 1
  <2>1. i \in 1..l + n /\ i + 1 \in 1..l + n
    BY <1>1, <1>4
  <2>2. CASE i + 1 <= l
    <3>1. i \in 1..l - 1 /\ i <= l
      BY <1>1, <2>2
    <3> QED BY <1>5, <1>6, <2>1, <2>2, <3>1
  <2>3. CASE i = l
    BY <1>1, <1>6, <2>1, <2>3
  <2>4. CASE i > l
    BY <1>1, <1>6, <2>1, <2>4
  <2> QED BY <1>1, <2>2, <2>3, <2>4
<1>9. Run(u, top + n)
  BY <1>4, <1>7, <1>8 DEF Run, Increasing
<1> QED BY <1>9 DEF u, t

-----------------------------------------------------------------------------
(* From the USB host to the phone. *)

\* The toggles: a packet the host repeats does not have the toggle the bridge expects, a new one does;
\* a packet on its way is the last the host numbered.
ProtoInv ==
  /\ pend \in {"none", "in"} => (rxTog = hostTog <=> hostUnacked = 0)
  /\ pend = "out" => /\ Len(outBuf) <= hostSent + hostUnacked
                     /\ outBuf = Numbers((hostSent + hostUnacked) - Len(outBuf) + 1, Len(outBuf))
                     /\ tokenTog = IF hostUnacked = 0 THEN 1 - hostTog ELSE hostTog
  /\ pend = "reset" => hostTog = 0 /\ hostUnacked = 0

\* The last byte the interrupt has been given.
Got == IF pend = "out" /\ TogOk THEN (hostSent + hostUnacked) - Len(outBuf) ELSE hostSent + hostUnacked

\* The bytes of the ring that were not notified yet.
Left == IF pc = "delete" THEN SubSeq(Contents(RingMemUSB), Length + 1, Len(Contents(RingMemUSB)))
                         ELSE Contents(RingMemUSB)

UsbOrder == /\ Run(owedUSB, Got)
            /\ owedUSB = Left
            /\ pc = "notify" => buf = SubSeq(owedUSB, 1, Length)

UsbInv == /\ ProtoInv
          /\ appended \in BOOLEAN
          /\ ~appended => UsbOrder

LEMMA UsbInvIsUsbToBle == UsbInv => UsbToBle
BY DEF UsbInv, UsbOrder, Run, Left, UsbToBle

LEMMA GotType == TypeInv /\ ProtoInv => Got \in Nat /\ Len(outBuf) \in Nat
<1> SUFFICES ASSUME TypeInv, ProtoInv PROVE Got \in Nat /\ Len(outBuf) \in Nat
  OBVIOUS
<1>1. Len(outBuf) \in Nat
  BY LenProperties DEF TypeInv, Buffers
<1>2. hostSent \in Nat /\ hostUnacked \in Nat
  BY DEF TypeInv, Counters
<1> QED BY <1>1, <1>2 DEF Got, ProtoInv

LEMMA UsbInit == Init => UsbInv
<1> SUFFICES ASSUME Init PROVE UsbInv
  OBVIOUS
<1>1. Contents(RingMemUSB) = <<>>
  <2>1. WellFormed(RingMemUSB) /\ RingMemUSB.CurrentLen = 0
    BY EmptyRingWellFormed DEF Init
  <2>2. Contents(RingMemUSB) \in Seq(Cell) /\ Len(Contents(RingMemUSB)) = 0
    BY <2>1, ContentsElements
  <2> QED BY <2>2, EmptySeq
<1>2. Run(owedUSB, Got)
  BY RunEmpty DEF Init
<1>3. ProtoInv
  BY DEF Init, ProtoInv
<1> QED BY <1>1, <1>2, <1>3 DEF Init, UsbInv, UsbOrder, Left

\* The order does not depend on what the host does: it only numbers higher.
LEMMA OrderKept ==
  ASSUME UsbOrder, UNCHANGED <<RingMemUSB, owedUSB>>, Got \in Nat, Got' \in Nat, Got <= Got',
         (pc' = pc /\ Length' = Length /\ buf' = buf) \/ {pc, pc'} \cap {"notify", "delete"} = {}
  PROVE  UsbOrder'
<1>1. Run(owedUSB', Got')
  BY RunMore DEF UsbOrder
<1>2. Contents(RingMemUSB)' = Contents(RingMemUSB)
  BY DEF Contents
<1>3. CASE pc' = pc /\ Length' = Length /\ buf' = buf
  BY <1>1, <1>2, <1>3 DEF UsbOrder, Left
<1>4. CASE {pc, pc'} \cap {"notify", "delete"} = {}
  <2>1. pc # "notify" /\ pc # "delete" /\ pc' # "notify" /\ pc' # "delete"
    BY <1>4
  <2> QED BY <1>1, <1>2, <2>1 DEF UsbOrder, Left
<1> QED BY <1>3, <1>4

LEMMA UsbHost == TypeInv /\ UsbInv /\ Host => UsbInv'
<1> SUFFICES ASSUME TypeInv, UsbInv, Host PROVE UsbInv'
  OBVIOUS
<1>1. UNCHANGED <<RingMemUSB, owedUSB, pc, all, buf, payload, rxTog, appended>>
  BY DEF Host, HostOut, HostIn, HostReset, rings, task, link, outEp, marks
<1>2. Length' = Length
  BY <1>1 DEF Length
<1>3. hostSent \in Nat /\ hostUnacked \in Nat /\ rxTog \in {0, 1} /\ hostTog \in {0, 1}
  BY DEF TypeInv, Counters, Endpoint
<1>4. Got \in Nat
  BY GotType DEF UsbInv
<1>5. pend = "none" /\ Got = hostSent + hostUnacked
  BY DEF Host, HostOut, HostIn, HostReset, Got
<1>6. ProtoInv' /\ Got' \in Nat /\ Got <= Got'
  <2>1. ASSUME NEW n \in OutLens, HostOut(n)
        PROVE  ProtoInv' /\ Got' \in Nat /\ Got <= Got'
    <3>1. n \in Nat \ {0}
      OBVIOUS
    <3>2. /\ hostUnacked \in {0, n} /\ pend' = "out" /\ outBuf' = Numbers(hostSent + 1, n)
          /\ tokenTog' = hostTog
          /\ \/ hostTog' = 1 - hostTog /\ hostSent' = hostSent + n /\ hostUnacked' = 0
             \/ hostUnacked' = n /\ hostTog' = hostTog /\ hostSent' = hostSent
      BY <2>1 DEF HostOut
    <3>3. Len(outBuf') = n
      <4>1. hostSent + 1 \in Nat /\ n \in Nat
        BY <1>3, <3>1
      <4> QED BY <3>2, <4>1, NumbersType
    <3>4. hostSent' + hostUnacked' = hostSent + n /\ (hostSent' + hostUnacked') - Len(outBuf') + 1 = hostSent + 1
      BY <1>3, <3>1, <3>2, <3>3
    <3>5. ProtoInv'
      BY <1>3, <3>1, <3>2, <3>3, <3>4 DEF ProtoInv
    <3>6. Got' = IF hostTog = rxTog THEN hostSent ELSE hostSent + n
      BY <1>1, <1>3, <3>1, <3>2, <3>3, <3>4 DEF Got, TogOk
    <3>7. rxTog = hostTog <=> hostUnacked = 0
      BY <1>5 DEF UsbInv, ProtoInv
    <3> QED BY <1>3, <1>5, <3>1, <3>2, <3>5, <3>6, <3>7
  <2>2. CASE HostIn
    BY <1>1, <1>3, <1>4, <1>5, <2>2 DEF HostIn, UsbInv, ProtoInv, Got, outEp, usbHost
  <2>3. CASE HostReset
    BY <1>1, <1>3, <1>4, <1>5, <2>3 DEF HostReset, UsbInv, ProtoInv, Got, outEp
  <2> QED BY <2>1, <2>2, <2>3 DEF Host
<1> QED BY <1>1, <1>2, <1>4, <1>6, OrderKept DEF UsbInv

\* A packet enters the ring, behind what is there.
LEMMA UsbOutInterrupt == TypeInv /\ UsbInv /\ OutInterrupt => UsbInv'
<1> SUFFICES ASSUME TypeInv, UsbInv, OutInterrupt PROVE UsbInv'
  OBVIOUS
<1> DEFINE n == Len(outBuf)
           c == Contents(RingMemUSB)
<1>1. /\ UNCHANGED <<pc, all, buf, payload, hostTog, hostUnacked, hostSent>>
      /\ pend = "out" /\ pend' = "none"
      /\ rxTog' = IF TogOk THEN 1 - rxTog ELSE rxTog
  BY DEF OutInterrupt, task, link, usbHost
<1>2. /\ hostSent \in Nat /\ hostUnacked \in Nat /\ rxTog \in {0, 1} /\ hostTog \in {0, 1}
      /\ tokenTog \in {0, 1}
  BY DEF TypeInv, Counters, Endpoint
<1>3. Got \in Nat /\ n \in Nat
  BY GotType DEF UsbInv
<1>4. /\ n <= hostSent + hostUnacked
      /\ outBuf = Numbers((hostSent + hostUnacked) - n + 1, n)
      /\ tokenTog = IF hostUnacked = 0 THEN 1 - hostTog ELSE hostTog
  BY <1>1 DEF UsbInv, ProtoInv
<1>5. Got' = hostSent + hostUnacked /\ Got' \in Nat
  BY <1>1, <1>2 DEF Got
<1>6. ProtoInv'
  <2>1. rxTog' = hostTog' <=> hostUnacked' = 0
    BY <1>1, <1>2, <1>4 DEF TogOk
  <2> QED BY <1>1, <2>1 DEF ProtoInv
<1>7. /\ WellFormed(RingMemUSB) /\ c \in Seq(Cell) /\ Len(c) = RingMemUSB.CurrentLen
      /\ RingMemUSB.CurrentLen \in Nat
  BY ContentsElements, CurrentLenType DEF TypeInv
<1>8. CASE UNCHANGED <<RingMemUSB, owedUSB, appended>>
  <2>1. Got <= Got'
    BY <1>2, <1>3, <1>5, <1>1 DEF Got
  <2>2. Length' = Length
    BY <1>1, <1>8 DEF Length
  <2> QED BY <1>1, <1>3, <1>5, <1>6, <1>8, <2>1, <2>2, OrderKept DEF UsbInv
<1>9. CASE /\ TogOk /\ Fits(RingMemUSB, n) /\ RingMemUSB' = Write(RingMemUSB, outBuf)
           /\ appended' = (appended \/ InWindow)
           /\ owedUSB' = IF appended' THEN <<>> ELSE owedUSB \o outBuf
  <2>1. appended' \in BOOLEAN
    BY <1>9 DEF UsbInv
  <2>2. ASSUME ~appended' PROVE UsbOrder'
    <3>1. ~appended /\ ~InWindow /\ owedUSB' = owedUSB \o outBuf
      BY <1>9, <2>2
    <3>2. Run(owedUSB, Got) /\ owedUSB = Left /\ (pc = "notify" => buf = SubSeq(owedUSB, 1, Length))
      BY <3>1 DEF UsbInv, UsbOrder
    <3>3. Run(owedUSB', Got')
      <4>1. Got' = Got + n /\ outBuf = Numbers(Got + 1, n)
        <5>1. Got = (hostSent + hostUnacked) - n
          BY <1>1, <1>9 DEF Got
        <5>2. (hostSent + hostUnacked) - n + 1 = Got + 1 /\ Got' = Got + n
          BY <1>2, <1>3, <1>4, <1>5, <5>1
        <5> QED BY <1>4, <5>2
      <4> QED BY <1>3, <3>1, <3>2, <4>1, RunAppend
    <3>4. outBuf \in Seq(Nat) /\ outBuf \in Seq(Cell) /\ owedUSB \in Seq(Nat) /\ owedUSB \in Seq(Cell)
      <4>1. outBuf \in Seq(Nat) /\ owedUSB \in Seq(Nat)
        BY <3>2 DEF TypeInv, Buffers, Run
      <4>2. Nat \subseteq Cell
        BY DEF Cell
      <4> QED BY <4>1, <4>2, SeqMonotonic
    <3>5. /\ Contents(RingMemUSB)' = c \o outBuf
          /\ Len(Contents(RingMemUSB)') = Len(c) + Len(outBuf)
      <4>1. Contents(RingMemUSB') = c \o outBuf
        BY <1>7, <1>9, <3>4, WriteAppends
      <4>2. Len(c \o outBuf) = Len(c) + Len(outBuf)
        BY <1>7, <3>4, ConcatProperties
      <4> QED BY <4>1, <4>2 DEF Contents
    <3>6. CASE pc \notin {"notify", "delete"}
      BY <1>1, <3>1, <3>2, <3>3, <3>5, <3>6 DEF UsbOrder, Left
    <3>7. CASE pc \in {"notify", "delete"}
      <4>1. ~all /\ Length = payload /\ Length' = Length
        BY <1>1, <3>1, <3>7 DEF InWindow, Length
      <4>2. Length \in 0..Len(c)
        BY <1>7, <3>7, LengthFits
      <4>3. CASE pc = "delete"
        <5>1. owedUSB' = SubSeq(c, Length + 1, Len(c)) \o outBuf
          BY <3>1, <3>2, <4>3 DEF Left
        <5>2. owedUSB' = SubSeq(c \o outBuf, Length + 1, Len(c) + Len(outBuf))
          BY <1>7, <3>4, <4>2, <5>1, RestAppend
        <5>3. Left' = SubSeq(c \o outBuf, Length + 1, Len(c) + Len(outBuf))
          BY <1>1, <3>5, <4>1, <4>3 DEF Left
        <5> QED BY <1>1, <3>3, <4>3, <5>2, <5>3 DEF UsbOrder
      <4>4. CASE pc = "notify"
        <5>1. owedUSB = c /\ owedUSB' = Left'
          BY <1>1, <3>1, <3>2, <3>5, <4>4 DEF Left
        <5>2. buf = SubSeq(owedUSB, 1, Length)
          BY <3>2, <4>4
        <5>3. SubSeq(owedUSB \o outBuf, 1, Length) = SubSeq(owedUSB, 1, Length)
          BY <3>4, <4>2, <5>1, FrontAppend
        <5> QED BY <1>1, <3>1, <3>3, <4>1, <5>1, <5>2, <5>3 DEF UsbOrder
      <4> QED BY <3>7, <4>3, <4>4
    <3> QED BY <3>6, <3>7
  <2> QED BY <1>6, <2>1, <2>2 DEF UsbInv
<1> HIDE DEF n, c
<1>10. \/ UNCHANGED <<RingMemUSB, owedUSB, appended>>
       \/ /\ TogOk /\ Fits(RingMemUSB, n) /\ RingMemUSB' = Write(RingMemUSB, outBuf)
          /\ appended' = (appended \/ InWindow)
          /\ owedUSB' = IF appended' THEN <<>> ELSE owedUSB \o outBuf
  BY DEF OutInterrupt, n
<1> QED BY <1>8, <1>9, <1>10

LEMMA UsbOtherInterrupts == TypeInv /\ UsbInv /\ (InInterrupt \/ ResetInterrupt) => UsbInv'
<1> SUFFICES ASSUME TypeInv, UsbInv, InInterrupt \/ ResetInterrupt PROVE UsbInv'
  OBVIOUS
<1>1. /\ UNCHANGED <<RingMemUSB, owedUSB, pc, all, buf, payload, outBuf, hostTog, hostUnacked,
                     hostSent, appended>>
      /\ pend' = "none"
      /\ \/ pend = "in" /\ rxTog' = rxTog
         \/ pend = "reset" /\ rxTog' = 0
  BY DEF InInterrupt, ResetInterrupt, rings, task, link, outEp, usbHost, marks
<1>2. Got \in Nat /\ Got' = Got
  <2>1. Got' = Got
    BY <1>1 DEF Got
  <2> QED BY <2>1, GotType DEF UsbInv
<1>3. Length' = Length
  BY <1>1 DEF Length
<1>4. ProtoInv'
  BY <1>1 DEF UsbInv, ProtoInv
<1> QED BY <1>1, <1>2, <1>3, <1>4, OrderKept DEF UsbInv

\* The event that empties the ring: each byte it notifies it deletes.
LEMMA UsbTask ==
  TypeInv /\ UsbInv
    /\ (UsbEvent \/ WhileData \/ WhileEnds \/ CopyData \/ Notify \/ NotifyFails \/ DeleteData)
      => UsbInv'
<1> SUFFICES ASSUME TypeInv, UsbInv,
                    UsbEvent \/ WhileData \/ WhileEnds \/ CopyData \/ Notify \/ NotifyFails \/ DeleteData
             PROVE  UsbInv'
  OBVIOUS
<1> DEFINE c == Contents(RingMemUSB)
<1>1. UNCHANGED <<payload, pend, outBuf, tokenTog, rxTog, hostTog, hostUnacked, hostSent, appended>>
  BY DEF UsbEvent, WhileData, WhileEnds, CopyData, Notify, NotifyFails, DeleteData, Rest, link,
         outEp, usbHost, marks
<1>2. ProtoInv' /\ Got' = Got
  BY <1>1 DEF UsbInv, ProtoInv, Got, TogOk
<1>3. Got \in Nat /\ Got <= Got
  BY GotType DEF UsbInv
<1>4. /\ WellFormed(RingMemUSB) /\ c \in Seq(Cell) /\ Len(c) = RingMemUSB.CurrentLen
      /\ RingMemUSB.CurrentLen \in Nat
  BY ContentsElements, CurrentLenType DEF TypeInv
<1>5. CASE UsbEvent \/ WhileData \/ WhileEnds
  <2>1. UNCHANGED <<RingMemUSB, owedUSB>> /\ {pc, pc'} \cap {"notify", "delete"} = {}
    BY <1>5 DEF UsbEvent, WhileData, WhileEnds, Step, rings
  <2> QED BY <1>1, <1>2, <1>3, <2>1, OrderKept DEF UsbInv
<1>6. CASE CopyData
  <2>1. /\ UNCHANGED <<RingMemUSB, owedUSB, all>>
        /\ pc = "copy" /\ pc' = "notify" /\ buf' = Copy(RingMemUSB, Length)
    BY <1>6 DEF CopyData, Step, rings
  <2>2. buf' = SubSeq(c, 1, Length)
    BY <1>4, <2>1, LengthFits, CopyIsFront
  <2>3. Length' = Length /\ Contents(RingMemUSB)' = c
    BY <1>1, <2>1 DEF Length, Contents
  <2> QED BY <1>1, <1>2, <2>1, <2>2, <2>3 DEF UsbInv, UsbOrder, Left
<1>7. CASE Notify
  <2>1. /\ UNCHANGED <<RingMemUSB, all>>
        /\ pc = "notify" /\ pc' = "delete" /\ owedUSB' = SubSeq(owedUSB, Length + 1, Len(owedUSB))
    BY <1>7 DEF Notify, Step
  <2>2. Length' = Length /\ Contents(RingMemUSB)' = c
    BY <1>1, <2>1 DEF Length, Contents
  <2>3. ASSUME ~appended PROVE UsbOrder'
    <3>1. Run(owedUSB, Got) /\ owedUSB = c
      BY <2>1, <2>3 DEF UsbInv, UsbOrder, Left
    <3>2. Length \in 0..Len(owedUSB)
      BY <1>4, <2>1, <3>1, LengthFits
    <3>3. Run(owedUSB', Got')
      BY <1>2, <1>3, <2>1, <3>1, <3>2, RunRest
    <3>4. owedUSB' = Left'
      BY <2>1, <2>2, <3>1 DEF Left
    <3> QED BY <2>1, <3>3, <3>4 DEF UsbOrder
  <2> QED BY <1>1, <1>2, <2>3 DEF UsbInv
<1>8. CASE NotifyFails
  <2>1. UNCHANGED <<RingMemUSB, owedUSB>> /\ pc = "notify" /\ pc' = "idle"
    BY <1>8 DEF NotifyFails, Step, rings
  <2>2. Contents(RingMemUSB)' = c
    BY <2>1 DEF Contents
  <2> QED BY <1>1, <1>2, <2>1, <2>2 DEF UsbInv, UsbOrder, Left
<1>9. CASE DeleteData
  <2>1. /\ owedUSB' = owedUSB /\ pc = "delete" /\ pc' = "while"
        /\ RingMemUSB' = Delete(RingMemUSB, Length)
    BY <1>9 DEF DeleteData, Step
  <2>2. Contents(RingMemUSB)' = SubSeq(c, Length + 1, Len(c))
    <3>1. Contents(RingMemUSB') = SubSeq(c, Length + 1, Len(c))
      BY <1>4, <2>1, LengthFits, DeleteRemovesFront
    <3> QED BY <3>1 DEF Contents
  <2> QED BY <1>1, <1>2, <2>1, <2>2 DEF UsbInv, UsbOrder, Left
<1> QED BY <1>5, <1>6, <1>7, <1>8, <1>9

LEMMA UsbBleTask ==
  TypeInv /\ UsbInv /\ (BleEvent \/ InDeal \/ LinkEvent \/ \E n \in WriteLens : PhoneWrite(n)) => UsbInv'
<1> SUFFICES ASSUME TypeInv, UsbInv,
                    BleEvent \/ InDeal \/ LinkEvent \/ \E n \in WriteLens : PhoneWrite(n)
             PROVE  UsbInv'
  OBVIOUS
<1>1. /\ UNCHANGED <<RingMemUSB, owedUSB, pend, outBuf, tokenTog, rxTog, hostTog, hostUnacked, hostSent,
                     appended>>
      /\ {pc, pc'} \cap {"notify", "delete"} = {}
  <2>1. CASE BleEvent
    <3>1. /\ UNCHANGED <<RingMemUSB, owedUSB, pend, outBuf, tokenTog, rxTog, hostTog, hostUnacked,
                         hostSent, appended>>
          /\ pc = "idle" /\ (pc' = "idle" \/ pc' = "send")
      BY <2>1, BleEventCases
    <3> QED BY <3>1
  <2>2. CASE InDeal \/ LinkEvent \/ \E n \in WriteLens : PhoneWrite(n)
    <3>1. /\ UNCHANGED <<RingMemUSB, owedUSB, pend, outBuf, tokenTog, rxTog, hostTog, hostUnacked,
                         hostSent, appended>>
          /\ (pc = "idle" \/ pc = "send") /\ pc' = "idle"
      BY <2>2 DEF InDeal, LinkEvent, PhoneWrite, Step, Rest, rings, outEp, usbHost, marks
    <3> QED BY <3>1
  <2> QED BY <2>1, <2>2
<1>2. ProtoInv' /\ Got' = Got
  BY <1>1 DEF UsbInv, ProtoInv, Got, TogOk
<1>3. Got \in Nat /\ Got <= Got
  BY GotType DEF UsbInv
<1> QED BY <1>1, <1>2, <1>3, OrderKept DEF UsbInv

LEMMA UsbStep == TypeInv /\ UsbInv /\ [Next]_vars => UsbInv'
<1> SUFFICES ASSUME TypeInv, UsbInv, [Next]_vars PROVE UsbInv'
  OBVIOUS
<1>1. CASE UNCHANGED vars
  <2>1. UNCHANGED <<RingMemUSB, owedUSB, pc, all, buf, payload, pend, outBuf, tokenTog, rxTog, hostTog,
                    hostUnacked, hostSent, appended>>
    BY <1>1 DEF vars, rings, task, link, outEp, usbHost, marks
  <2>2. ProtoInv' /\ Got' = Got /\ Length' = Length
    BY <2>1 DEF UsbInv, ProtoInv, Got, TogOk, Length
  <2>3. Got \in Nat /\ Got <= Got
    BY GotType DEF UsbInv
  <2> QED BY <2>1, <2>2, <2>3, OrderKept DEF UsbInv
<1> QED BY <1>1, UsbHost, UsbOutInterrupt, UsbOtherInterrupts, UsbTask, UsbBleTask
        DEF Next, Interrupt, Loop

\* Whatever the interrupt interrupts, the bytes not notified yet are in the ring in their order and the
\* oldest are notified next, unless a packet entered between two readings of CurrentLen.
THEOREM UsbToBleInOrder == Spec => []UsbToBle
<1>1. Spec => []TypeInv
  BY TypeInit, TypeStep, PTL DEF Spec
<1>2. TypeInv /\ TypeInv' /\ UsbInv /\ [Next]_vars => UsbInv'
  BY UsbStep
<1> QED BY <1>1, <1>2, UsbInit, UsbInvIsUsbToBle, PTL DEF Spec

-----------------------------------------------------------------------------
(* From the phone to the USB host. *)

\* What the host has not fetched: in the endpoint, then in the ring.
Waiting == Unfetched \o Contents(RingMemBLE)

\* A packet is loaded into the endpoint only when the host fetched the one before.
SendInv ==
  /\ pc = "send" => \/ txRes = "NAK"
                    \/ irq /\ pend \in {"in", "reset"}
  /\ pend = "in" => txRes = "ACK"

BleOrder == /\ SendInv
            /\ Run(owedBLE, phoneSent)
            /\ Run(Waiting, phoneSent)
            /\ pend # "reset" => Waiting = owedBLE

\* The buffer of the endpoint starts with the packet that is being loaded.
BleInv == /\ overwritten \in BOOLEAN
          /\ pc = "send" => SubSeq(inBuf, 1, Len(buf)) = buf
          /\ ~overwritten => BleOrder

LEMMA BleInvIsBleToUsb == BleInv => BleToUsb
BY DEF BleInv, BleOrder, Run, Waiting, BleToUsb

LEMMA UnfetchedType ==
  ASSUME TypeInv
  PROVE  /\ Unfetched \in Seq(Cell)
         /\ WellFormed(RingMemBLE) /\ Contents(RingMemBLE) \in Seq(Cell)
         /\ Len(Contents(RingMemBLE)) = RingMemBLE.CurrentLen
         /\ buf \in Seq(Cell) /\ Len(buf) \in Nat
         /\ SubSeq(inBuf, 1, inLen) \in Seq(Cell) /\ Len(SubSeq(inBuf, 1, inLen)) = inLen
         /\ phoneSent \in Nat
<1>1. /\ inBuf \in Seq(Cell) /\ buf \in Seq(Cell) /\ Len(buf) \in Nat
      /\ inLen \in 0..Len(inBuf)
  BY LenProperties DEF TypeInv, Buffers
<1>2. SubSeq(inBuf, 1, inLen) \in Seq(Cell) /\ Len(SubSeq(inBuf, 1, inLen)) = inLen
  BY <1>1, FrontAndRest
<1>3. <<>> \in Seq(Cell)
  BY EmptySeq
<1>4. Unfetched \in Seq(Cell)
  BY <1>1, <1>2, <1>3 DEF Unfetched
<1>5. WellFormed(RingMemBLE) /\ phoneSent \in Nat
  BY DEF TypeInv, Counters
<1> QED BY <1>1, <1>2, <1>4, <1>5, ContentsElements

LEMMA BleInit == Init => BleInv
<1> SUFFICES ASSUME Init PROVE BleInv
  OBVIOUS
<1>1. Contents(RingMemBLE) = <<>>
  <2>1. WellFormed(RingMemBLE) /\ RingMemBLE.CurrentLen = 0
    BY EmptyRingWellFormed DEF Init
  <2>2. Contents(RingMemBLE) \in Seq(Cell) /\ Len(Contents(RingMemBLE)) = 0
    BY <2>1, ContentsElements
  <2> QED BY <2>2, EmptySeq
<1>2. Unfetched = <<>>
  BY DEF Init, Unfetched
<1>3. Waiting = <<>>
  <2>1. <<>> \in Seq(Cell)
    BY EmptySeq
  <2>2. <<>> \o <<>> = <<>>
    BY <2>1, ConcatEmptySeq
  <2> QED BY <1>1, <1>2, <2>2 DEF Waiting
<1>4. Run(owedBLE, phoneSent) /\ Run(Waiting, phoneSent)
  BY <1>3, RunEmpty DEF Init
<1> QED BY <1>3, <1>4 DEF Init, BleInv, BleOrder, SendInv

\* Steps that leave this direction alone.
LEMMA BleKept ==
  ASSUME BleInv,
         UNCHANGED <<RingMemBLE, owedBLE, inBuf, inLen, txRes, phoneSent, overwritten>>,
         \/ pc' = pc /\ buf' = buf
         \/ pc # "send" /\ pc' # "send",
         irq' = irq \/ pend \notin {"in", "reset"} \/ pc' # "send",
         \/ pend' = pend
         \/ {pend, pend'} \subseteq {"none", "out"}
         \/ pend = "none" /\ pend' = "reset"
  PROVE  BleInv'
<1>1. Waiting' = Waiting
  <2>1. Contents(RingMemBLE)' = Contents(RingMemBLE)
    BY DEF Contents
  <2>2. Unfetched' = Unfetched
    BY DEF Unfetched
  <2> QED BY <2>1, <2>2 DEF Waiting
<1>2. ASSUME ~overwritten PROVE BleOrder'
  <2>1. BleOrder
    BY <1>2 DEF BleInv
  <2>2. SendInv'
    BY <2>1 DEF BleOrder, SendInv
  <2>3. pend' # "reset" => pend # "reset"
    OBVIOUS
  <2> QED BY <1>1, <2>1, <2>2, <2>3 DEF BleOrder
<1>3. pc' = "send" => SubSeq(inBuf', 1, Len(buf')) = buf'
  BY DEF BleInv
<1> QED BY <1>2, <1>3 DEF BleInv

LEMMA BleHost == TypeInv /\ BleInv /\ Host => BleInv'
<1> SUFFICES ASSUME TypeInv, BleInv, Host PROVE BleInv'
  OBVIOUS
<1>1. UNCHANGED <<RingMemBLE, irq, pc, buf, inBuf, inLen, txRes, phoneSent, overwritten>>
  BY DEF Host, HostOut, HostIn, HostReset, rings, task, inEp, marks
<1>2. CASE (\E n \in OutLens : HostOut(n)) \/ HostReset
  <2>1. /\ owedBLE' = owedBLE
        /\ \/ {pend, pend'} \subseteq {"none", "out"}
           \/ pend = "none" /\ pend' = "reset"
    BY <1>2 DEF HostOut, HostReset, rings
  <2> QED BY <1>1, <2>1, BleKept
<1>3. CASE HostIn
  <2> DEFINE c == Contents(RingMemBLE)
             u == SubSeq(inBuf, 1, inLen)
  <2>1. /\ pend = "none" /\ txRes = "ACK" /\ pend' = "in"
        /\ owedBLE' = SubSeq(owedBLE, inLen + 1, Len(owedBLE))
    BY <1>3 DEF HostIn
  <2>2. ASSUME ~overwritten PROVE BleOrder'
    <3>1. SendInv /\ Run(owedBLE, phoneSent) /\ Waiting = owedBLE
      BY <2>1, <2>2 DEF BleInv, BleOrder
    <3>2. pc # "send"
      BY <2>1, <3>1 DEF SendInv
    <3>3. Unfetched = u /\ Unfetched' = <<>>
      BY <1>1, <2>1, <3>2 DEF Unfetched
    <3>4. u \in Seq(Cell) /\ c \in Seq(Cell) /\ Len(u) = inLen /\ phoneSent \in Nat
      BY UnfetchedType
    <3>5. owedBLE = u \o c
      BY <3>1, <3>3 DEF Waiting
    <3>6. owedBLE' = c
      <4>1. SubSeq(u \o c, Len(u) + 1, Len(u \o c)) = c
        BY <3>4, RestOfConcat
      <4> QED BY <2>1, <3>4, <3>5, <4>1
    <3>7. Waiting' = c
      <4>1. Contents(RingMemBLE)' = c
        BY <1>1 DEF Contents
      <4>2. <<>> \o c = c
        BY <3>4, ConcatEmptySeq
      <4> QED BY <3>3, <4>1, <4>2 DEF Waiting
    <3>8. Run(c, phoneSent)
      <4>1. inLen \in 0..Len(owedBLE)
        <5>1. Len(u \o c) = Len(u) + Len(c)
          BY <3>4, ConcatProperties
        <5>2. Len(c) \in Nat /\ inLen \in Nat
          BY <3>4, LenProperties DEF TypeInv, Buffers
        <5> QED BY <3>4, <3>5, <5>1, <5>2
      <4> QED BY <2>1, <3>1, <3>4, <3>6, <4>1, RunRest
    <3>9. SendInv'
      BY <1>1, <2>1, <3>2 DEF SendInv
    <3> QED BY <1>1, <3>6, <3>7, <3>8, <3>9 DEF BleOrder
  <2> QED BY <1>1, <2>2 DEF BleInv
<1> QED BY <1>2, <1>3 DEF Host

LEMMA BleInterrupt == TypeInv /\ BleInv /\ Interrupt => BleInv'
<1> SUFFICES ASSUME TypeInv, BleInv, Interrupt PROVE BleInv'
  OBVIOUS
<1>1. CASE OutInterrupt
  <2>1. /\ UNCHANGED <<RingMemBLE, owedBLE, pc, buf, inBuf, inLen, txRes, phoneSent, overwritten>>
        /\ pend = "out" /\ pend' = "none"
    BY <1>1 DEF OutInterrupt, task, inEp
  <2> QED BY <2>1, BleKept
<1>2. CASE InInterrupt \/ ResetInterrupt
  <2> DEFINE c == Contents(RingMemBLE)
  <2>1. /\ UNCHANGED <<RingMemBLE, irq, pc, buf, inBuf, inLen, phoneSent, overwritten>>
        /\ pend' = "none" /\ txRes' = "NAK"
    BY <1>2 DEF InInterrupt, ResetInterrupt, rings, task, marks
  <2>2. Contents(RingMemBLE)' = c
    BY <2>1 DEF Contents
  <2>3. Unfetched' = IF pc = "send" THEN buf ELSE <<>>
    BY <2>1 DEF Unfetched
  <2>4. ASSUME ~overwritten PROVE BleOrder'
    <3>1. BleOrder
      BY <2>4 DEF BleInv
    <3>2. SendInv'
      BY <2>1 DEF SendInv
    <3>3. CASE InInterrupt
      <4>1. owedBLE' = owedBLE /\ pend = "in"
        BY <3>3 DEF InInterrupt, rings
      <4>2. Unfetched' = Unfetched
        BY <2>3, <4>1 DEF Unfetched
      <4>3. Waiting' = Waiting
        BY <2>2, <4>2 DEF Waiting
      <4> QED BY <2>1, <3>1, <3>2, <4>1, <4>3 DEF BleOrder
    <3>4. CASE ResetInterrupt
      <4>1. owedBLE' = (IF pc = "send" THEN buf ELSE <<>>) \o c
        BY <2>4, <3>4 DEF ResetInterrupt
      <4>2. owedBLE' = Waiting'
        BY <2>2, <2>3, <4>1 DEF Waiting
      <4>3. Run(Waiting', phoneSent)
        <5>1. CASE pc = "send"
          <6>1. Waiting' = Waiting
            BY <2>2, <2>3, <5>1 DEF Waiting, Unfetched
          <6> QED BY <3>1, <6>1 DEF BleOrder
        <5>2. CASE pc # "send"
          <6>1. Unfetched \in Seq(Cell) /\ c \in Seq(Cell) /\ phoneSent \in Nat
            BY UnfetchedType
          <6>2. Waiting' = c
            BY <2>2, <2>3, <5>2, <6>1, ConcatEmptySeq DEF Waiting
          <6>3. SubSeq(Waiting, Len(Unfetched) + 1, Len(Waiting)) = c
            BY <6>1, RestOfConcat DEF Waiting
          <6>4. Len(Unfetched) \in 0..Len(Waiting)
            <7>1. Len(Waiting) = Len(Unfetched) + Len(c)
              BY <6>1, ConcatProperties DEF Waiting
            <7>2. Len(Unfetched) \in Nat /\ Len(c) \in Nat
              BY <6>1, LenProperties
            <7> QED BY <7>1, <7>2
          <6>5. Run(Waiting, phoneSent)
            BY <3>1 DEF BleOrder
          <6> QED BY <6>1, <6>2, <6>3, <6>4, <6>5, RunRest
        <5> QED BY <5>1, <5>2
      <4> QED BY <2>1, <3>2, <4>2, <4>3 DEF BleOrder
    <3> QED BY <1>2, <3>3, <3>4
  <2>5. pc' = "send" => SubSeq(inBuf', 1, Len(buf')) = buf'
    BY <2>1 DEF BleInv
  <2> QED BY <2>1, <2>4, <2>5 DEF BleInv
<1> QED BY <1>1, <1>2 DEF Interrupt

LEMMA BleUsbTask ==
  TypeInv /\ BleInv
    /\ (UsbEvent \/ WhileData \/ WhileEnds \/ CopyData \/ Notify \/ NotifyFails \/ DeleteData)
      => BleInv'
<1> SUFFICES ASSUME TypeInv, BleInv,
                    UsbEvent \/ WhileData \/ WhileEnds \/ CopyData \/ Notify \/ NotifyFails \/ DeleteData
             PROVE  BleInv'
  OBVIOUS
<1>1. UNCHANGED <<RingMemBLE, owedBLE, inBuf, inLen, txRes, phoneSent, overwritten, pend>>
  BY DEF UsbEvent, WhileData, WhileEnds, CopyData, Notify, NotifyFails, DeleteData, Rest, rings, inEp,
         marks
<1>2. pc # "send" /\ pc' # "send"
  BY DEF UsbEvent, WhileData, WhileEnds, CopyData, Notify, NotifyFails, DeleteData, Step
<1> QED BY <1>1, <1>2, BleKept

\* A packet leaves the ring for the endpoint.
LEMMA BleSend == TypeInv /\ BleInv /\ BleEvent => BleInv'
<1> SUFFICES ASSUME TypeInv, BleInv, BleEvent PROVE BleInv'
  OBVIOUS
<1> DEFINE c == Contents(RingMemBLE)
           n == SendLength
<1>1. pc = "idle" /\ UNCHANGED <<inLen, txRes, phoneSent, pend>>
  BY BleEventCases
<1>2. CASE pc' = "idle" /\ UNCHANGED <<RingMemBLE, owedBLE, irq, inBuf, buf, overwritten>>
  BY <1>1, <1>2, BleKept
<1>3. CASE /\ pc' = "send" /\ RingMemBLE.CurrentLen # 0
           /\ overwritten' = (overwritten \/ ~Fetched)
           /\ owedBLE' = IF overwritten' THEN <<>> ELSE owedBLE
           /\ buf' = Copy(RingMemBLE, n)
           /\ inBuf' = buf' \o SubSeq(inBuf, n + 1, Len(inBuf))
           /\ RingMemBLE' = Delete(RingMemBLE, n)
           /\ irq' = TRUE
  <2>1. /\ WellFormed(RingMemBLE) /\ c \in Seq(Cell) /\ Len(c) = RingMemBLE.CurrentLen
        /\ phoneSent \in Nat /\ RingMemBLE.CurrentLen \in Nat
    BY UnfetchedType, CurrentLenType
  <2>2. n \in 0..RingMemBLE.CurrentLen /\ n \in Nat
    BY <1>3, <2>1, SendLengthFits
  <2> HIDE DEF n
  <2>3. buf' = SubSeq(c, 1, n) /\ Contents(RingMemBLE)' = SubSeq(c, n + 1, Len(c))
    <3>1. Copy(RingMemBLE, n) = SubSeq(c, 1, n)
      BY <2>1, <2>2, CopyIsFront
    <3>2. Contents(RingMemBLE') = SubSeq(c, n + 1, Len(c))
      BY <1>3, <2>1, <2>2, DeleteRemovesFront
    <3> QED BY <1>3, <3>1, <3>2 DEF Contents
  <2>4. buf' \in Seq(Cell) /\ Len(buf') = n
    BY <2>1, <2>2, <2>3, FrontAndRest
  <2>5. SubSeq(inBuf', 1, Len(buf')) = buf'
    <3>1. SubSeq(inBuf, n + 1, Len(inBuf)) \in Seq(Cell)
      <4>1. inBuf \in Seq(Cell) /\ Len(inBuf) \in Nat
        BY LenProperties DEF TypeInv, Buffers
      <4>2. \A i \in n + 1..Len(inBuf) : inBuf[i] \in Cell
        BY <2>2, <4>1, ElementOfSeq
      <4> QED BY <2>2, <4>1, <4>2, SubSeqProperties
    <3>2. Len(buf') \in 0..Len(buf')
      BY <2>2, <2>4
    <3> DEFINE r == SubSeq(inBuf, n + 1, Len(inBuf))
               b == buf'
    <3>3. inBuf' = b \o r /\ b \in Seq(Cell) /\ r \in Seq(Cell) /\ Len(b) \in 0..Len(b)
      BY <1>3, <2>4, <3>1, <3>2
    <3> HIDE DEF r, b
    <3>4. SubSeq(b \o r, 1, Len(b)) = SubSeq(b, 1, Len(b))
      BY <3>3, FrontAppend
    <3>5. SubSeq(b, 1, Len(b)) = b
      BY <3>3, SubSeqFull
    <3>6. SubSeq(inBuf', 1, Len(b)) = b
      BY <3>3, <3>4, <3>5
    <3> QED BY <3>6 DEF b
  <2>6. Waiting' = c
    <3>1. Unfetched' = buf'
      BY <1>3 DEF Unfetched
    <3>2. n \in 0..Len(c)
      BY <2>1, <2>2
    <3>3. SubSeq(c, 1, n) \o SubSeq(c, n + 1, Len(c)) = c
      BY <2>1, <3>2, FrontThenRest
    <3> QED BY <2>3, <3>1, <3>3 DEF Waiting
  <2>7. ASSUME ~overwritten' PROVE BleOrder'
    <3>1. ~overwritten /\ Fetched /\ owedBLE' = owedBLE
      BY <1>3, <2>7
    <3>2. SendInv /\ Run(owedBLE, phoneSent) /\ Run(Waiting, phoneSent) /\ (pend # "reset" => Waiting = owedBLE)
      BY <3>1 DEF BleInv, BleOrder
    <3>3. SendInv'
      <4>1. txRes # "ACK" => txRes = "NAK"
        BY DEF TypeInv, Endpoint
      <4> QED BY <1>1, <1>3, <3>1, <3>2, <4>1 DEF SendInv, Fetched
    <3>4. Unfetched \in Seq(Cell)
      BY UnfetchedType
    <3>5. Run(c, phoneSent)
      <4>1. SubSeq(Waiting, Len(Unfetched) + 1, Len(Waiting)) = c
        BY <2>1, <3>4, RestOfConcat DEF Waiting
      <4>2. Len(Unfetched) \in 0..Len(Waiting)
        <5>1. Len(Waiting) = Len(Unfetched) + Len(c)
          BY <2>1, <3>4, ConcatProperties DEF Waiting
        <5>2. Len(Unfetched) \in Nat /\ Len(c) \in Nat
          BY <2>1, <3>4, LenProperties
        <5> QED BY <5>1, <5>2
      <4> QED BY <2>1, <3>2, <4>1, <4>2, RunRest
    <3>6. pend # "reset" => c = owedBLE
      <4>1. ASSUME pend # "reset" PROVE Unfetched = <<>>
        BY <1>1, <3>1, <4>1 DEF Fetched, Unfetched
      <4>2. ASSUME pend # "reset" PROVE Waiting = c
        BY <2>1, <4>1, <4>2, ConcatEmptySeq DEF Waiting
      <4> QED BY <3>2, <4>2
    <3> QED BY <1>1, <2>6, <3>1, <3>2, <3>3, <3>5, <3>6 DEF BleOrder
  <2>8. overwritten' \in BOOLEAN
    BY <1>3 DEF BleInv
  <2> QED BY <2>5, <2>7, <2>8 DEF BleInv
<1> HIDE DEF n
<1> QED BY <1>2, <1>3, BleEventCases DEF n

LEMMA BleInDeal == TypeInv /\ BleInv /\ InDeal => BleInv'
<1> SUFFICES ASSUME TypeInv, BleInv, InDeal PROVE BleInv'
  OBVIOUS
<1>1. /\ UNCHANGED <<RingMemBLE, owedBLE, irq, inBuf, phoneSent, overwritten, pend>>
      /\ ~Due /\ pc = "send" /\ pc' = "idle" /\ inLen' = Len(buf) /\ txRes' = "ACK"
  BY DEF InDeal, Step, Rest, rings, marks
<1>2. ASSUME ~overwritten PROVE BleOrder'
  <2>1. BleOrder /\ SubSeq(inBuf, 1, Len(buf)) = buf
    BY <1>1, <1>2 DEF BleInv
  <2>2. pend # "in"
    BY <1>1, <2>1 DEF BleOrder, SendInv, Due
  <2>3. Unfetched = buf /\ Unfetched' = buf
    <3>1. Unfetched = buf
      BY <1>1 DEF Unfetched
    <3>2. Unfetched' = SubSeq(inBuf, 1, Len(buf))
      BY <1>1, <2>2 DEF Unfetched
    <3> QED BY <2>1, <3>1, <3>2
  <2>4. Waiting' = Waiting
    BY <1>1, <2>3 DEF Waiting, Contents
  <2>5. SendInv'
    BY <1>1 DEF SendInv
  <2> QED BY <1>1, <2>1, <2>4, <2>5 DEF BleOrder
<1> QED BY <1>1, <1>2 DEF BleInv

\* A write of the phone enters the ring, behind what is there.
LEMMA BleWrite == ASSUME NEW n \in WriteLens PROVE TypeInv /\ BleInv /\ PhoneWrite(n) => BleInv'
<1> SUFFICES ASSUME TypeInv, BleInv, PhoneWrite(n) PROVE BleInv'
  OBVIOUS
<1> DEFINE c == Contents(RingMemBLE)
           bytes == Numbers(phoneSent + 1, n)
<1>1. /\ UNCHANGED <<inBuf, inLen, txRes, pend, buf, overwritten>>
      /\ pc = "idle" /\ pc' = "idle" /\ phoneSent' = phoneSent + n
      /\ \/ UNCHANGED <<RingMemBLE, owedBLE>>
         \/ /\ Fits(RingMemBLE, n)
            /\ RingMemBLE' = Write(RingMemBLE, bytes)
            /\ owedBLE' = IF overwritten THEN <<>> ELSE owedBLE \o bytes
  BY DEF PhoneWrite, Step, Rest, inEp, marks
<1>2. /\ WellFormed(RingMemBLE) /\ c \in Seq(Cell) /\ phoneSent \in Nat /\ Unfetched \in Seq(Cell)
      /\ n \in Nat
  BY UnfetchedType
<1>3. bytes \in Seq(Nat) /\ bytes \in Seq(Cell) /\ Len(bytes) = n
  <2>1. phoneSent + 1 \in Nat
    BY <1>2
  <2>2. bytes \in Seq(Nat) /\ Len(bytes) = n
    BY <1>2, <2>1, NumbersType
  <2>3. Nat \subseteq Cell
    BY DEF Cell
  <2> HIDE DEF bytes
  <2> QED BY <2>2, <2>3, SeqMonotonic
<1> HIDE DEF bytes
<1>4. Unfetched' = Unfetched
  BY <1>1 DEF Unfetched
<1>5. ASSUME ~overwritten PROVE BleOrder'
  <2>1. SendInv /\ Run(owedBLE, phoneSent) /\ Run(Waiting, phoneSent) /\ (pend # "reset" => Waiting = owedBLE)
    BY <1>5 DEF BleInv, BleOrder
  <2>2. SendInv'
    BY <1>1, <2>1 DEF SendInv
  <2>3. CASE UNCHANGED <<RingMemBLE, owedBLE>>
    <3>1. Waiting' = Waiting
      BY <1>4, <2>3 DEF Waiting, Contents
    <3>2. phoneSent' \in Nat /\ phoneSent <= phoneSent'
      BY <1>1, <1>2
    <3>3. Run(owedBLE', phoneSent') /\ Run(Waiting', phoneSent')
      BY <1>2, <2>1, <2>3, <3>1, <3>2, RunMore
    <3> QED BY <1>1, <2>1, <2>2, <2>3, <3>1, <3>3 DEF BleOrder
  <2>4. CASE /\ Fits(RingMemBLE, n) /\ RingMemBLE' = Write(RingMemBLE, bytes)
             /\ owedBLE' = owedBLE \o bytes
    <3>1. Contents(RingMemBLE)' = c \o bytes
      <4>1. Contents(RingMemBLE') = c \o bytes
        BY <1>2, <1>3, <2>4, WriteAppends
      <4> QED BY <4>1 DEF Contents
    <3>2. Waiting' = Waiting \o bytes
      <4>1. (Unfetched \o c) \o bytes = Unfetched \o (c \o bytes)
        <5>1. c \in Seq(Cell) /\ Unfetched \in Seq(Cell) /\ bytes \in Seq(Cell)
          BY <1>2, <1>3
        <5> HIDE DEF c
        <5> QED BY <5>1, ConcatAssociative, SMTT(30)
      <4> QED BY <1>4, <3>1, <4>1 DEF Waiting
    <3>3. Run(owedBLE', phoneSent') /\ Run(Waiting', phoneSent')
      <4>1. Run(owedBLE \o bytes, phoneSent + n) /\ Run(Waiting \o bytes, phoneSent + n)
        <5>1. /\ Run(owedBLE \o Numbers(phoneSent + 1, n), phoneSent + n)
              /\ Run(Waiting \o Numbers(phoneSent + 1, n), phoneSent + n)
          BY <1>2, <2>1, RunAppend
        <5> QED BY <5>1 DEF bytes
      <4> QED BY <1>1, <2>4, <3>2, <4>1
    <3> QED BY <1>1, <2>1, <2>2, <2>4, <3>2, <3>3 DEF BleOrder
  <2> QED BY <1>1, <1>5, <2>3, <2>4
<1> QED BY <1>1, <1>5 DEF BleInv

LEMMA BleStep == TypeInv /\ BleInv /\ [Next]_vars => BleInv'
<1> SUFFICES ASSUME TypeInv, BleInv, [Next]_vars PROVE BleInv'
  OBVIOUS
<1>1. CASE UNCHANGED vars
  <2>1. UNCHANGED <<RingMemBLE, owedBLE, inBuf, inLen, txRes, phoneSent, overwritten, pc, buf, irq, pend>>
    BY <1>1 DEF vars, rings, task, inEp, marks
  <2> QED BY <2>1, BleKept
<1>2. CASE LinkEvent
  <2>1. /\ UNCHANGED <<RingMemBLE, owedBLE, inBuf, inLen, txRes, phoneSent, overwritten, buf, irq, pend>>
        /\ pc = "idle" /\ pc' = "idle"
    BY <1>2 DEF LinkEvent, Step, rings, inEp, marks
  <2> QED BY <2>1, BleKept
<1> QED BY <1>1, <1>2, BleHost, BleInterrupt, BleUsbTask, BleSend, BleInDeal, BleWrite
        DEF Next, Loop

\* What the phone wrote and the host has not fetched is in the endpoint and behind it in the ring, each
\* byte once and in order, unless a packet replaced one the host had not fetched.
THEOREM BleToUsbInOrder == Spec => []BleToUsb
<1>1. Spec => []TypeInv
  BY TypeInit, TypeStep, PTL DEF Spec
<1>2. TypeInv /\ BleInv /\ [Next]_vars => BleInv'
  BY BleStep
<1> QED BY <1>1, <1>2, BleInit, BleInvIsBleToUsb, PTL DEF Spec

=============================================================================

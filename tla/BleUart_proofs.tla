--------------------------- MODULE BleUart_proofs ---------------------------
(***************************************************************************)
(* Proofs about BleUart, for every size of the buffers, every range of the   *)
(* indices and wherever they stand, every MTU and any number of troubles:    *)
(* what the functions of the FIFO do to what waits in it, the type           *)
(* invariant, and the order of both directions.                             *)
(***************************************************************************)
EXTENDS BleUart, SequenceTheorems, TLAPS

-----------------------------------------------------------------------------
(* Remainders. *)

LEMMA ModForm ==
  ASSUME NEW a \in Int, NEW n \in Nat \ {0}
  PROVE  a % n \in 0..n - 1 /\ a \div n \in Int /\ a = n * (a \div n) + (a % n)
OBVIOUS

LEMMA TimesAssoc ==
  ASSUME NEW a \in Int, NEW b \in Int, NEW c \in Int PROVE a * (b * c) = (a * b) * c
OBVIOUS

LEMMA TimesMinus ==
  ASSUME NEW a \in Int, NEW b \in Int PROVE a * (0 - b) = 0 - a * b /\ a * b \in Int
OBVIOUS

LEMMA TimesDiff ==
  ASSUME NEW a \in Int, NEW b \in Int, NEW c \in Int PROVE a * (b - c) = a * b - a * c
OBVIOUS

LEMMA ModUnique ==
  ASSUME NEW n \in Nat \ {0}, NEW q \in Int, NEW r \in 0..n - 1
  PROVE  (n * q + r) % n = r
<1> DEFINE a == n * q + r
           p == a \div n
           s == a % n
<1>1. a \in Int
  OBVIOUS
<1>2. s \in 0..n - 1 /\ p \in Int /\ a = n * p + s
  BY <1>1, ModForm
<1> SUFFICES s = r
  OBVIOUS
<1> HIDE DEF p, s
<1>3. n * q + r = n * p + s
  BY <1>2
<1> HIDE DEF a
<1>4. CASE p = q
  BY <1>2, <1>3, <1>4
<1>5. CASE p < q
  <2>1. n * q = n * p + n * (q - p) /\ n * (q - p) >= n
    BY <1>2, <1>5
  <2> QED BY <1>2, <1>3, <2>1
<1>6. CASE p > q
  <2>1. n * p = n * q + n * (p - q) /\ n * (p - q) >= n
    BY <1>2, <1>6
  <2> QED BY <1>2, <1>3, <2>1
<1> QED BY <1>2, <1>4, <1>5, <1>6

LEMMA SameMod ==
  ASSUME NEW n \in Nat \ {0}, NEW a \in Int, NEW b \in Int, NEW k \in Int, a = b + n * k
  PROVE  a % n = b % n
<1> DEFINE q == b \div n
           r == b % n
<1>1. r \in 0..n - 1 /\ q \in Int /\ b = n * q + r
  BY ModForm
<1> HIDE DEF q, r
<1>2. a = n * (q + k) + r /\ q + k \in Int
  BY <1>1
<1>3. (n * (q + k) + r) % n = r
  BY <1>1, <1>2, ModUnique
<1> QED BY <1>2, <1>3 DEF r

LEMMA SmallMod ==
  ASSUME NEW n \in Nat \ {0}, NEW a \in 0..n - 1 PROVE a % n = a
<1>1. (n * 0 + a) % n = a
  BY ModUnique
<1> QED BY <1>1

LEMMA DifferentMod ==
  ASSUME NEW n \in Nat \ {0}, NEW x \in Int, NEW d \in 1..n - 1
  PROVE  (x + d) % n # x % n
<1> DEFINE y == x + d
           p == x \div n
           q == y \div n
<1>1. /\ x % n \in 0..n - 1 /\ p \in Int /\ x = n * p + (x % n)
      /\ y % n \in 0..n - 1 /\ q \in Int /\ y = n * q + (y % n)
  <2>1. y \in Int
    OBVIOUS
  <2> HIDE DEF y
  <2> QED BY <2>1, ModForm
<1> SUFFICES ASSUME y % n = x % n PROVE FALSE
  OBVIOUS
<1> HIDE DEF p, q
<1>2. d = n * q - n * p
  BY <1>1
<1>3. n * q - n * p = n * (q - p)
  BY <1>1
<1>4. q - p >= 1 => n * (q - p) >= n
  BY <1>1
<1>5. q - p <= 0 => n * (q - p) <= 0
  BY <1>1
<1> QED BY <1>1, <1>2, <1>3, <1>4, <1>5

\* A remainder by a multiple of m differs by a multiple of m.
LEMMA ModShift ==
  ASSUME NEW m \in Nat \ {0}, NEW c \in Int, NEW n \in Nat \ {0}, n = m * c,
         NEW x \in Int
  PROVE  \E k \in Int : x % n = x + m * k /\ m * k \in Int
<1> DEFINE r == x % n
           q == x \div n
<1>1. r \in 0..n - 1 /\ q \in Int /\ x = n * q + r
  BY ModForm, Zenon
<1> HIDE DEF r, q
<1> DEFINE p == c * q
           k == 0 - p
<1>2. n * q = m * p
  <2> HIDE DEF p
  <2>1. m * (c * q) = (m * c) * q
    BY <1>1, TimesAssoc
  <2>2. n * q = (m * c) * q
    OBVIOUS
  <2> QED BY <2>1, <2>2 DEF p
<1>3. p \in Int
  BY <1>1, TimesMinus
<1> HIDE DEF p
<1>4. m * k = 0 - m * p /\ m * p \in Int
  BY <1>3, TimesMinus
<1>5. k \in Int
  BY <1>3
<1> HIDE DEF k
<1>6. r = x + m * k /\ m * k \in Int
  BY <1>1, <1>2, <1>4
<1> QED BY <1>5, <1>6 DEF r

LEMMA ModMultiple ==
  ASSUME NEW m \in Nat \ {0}, NEW c \in Int, NEW n \in Nat \ {0}, n = m * c,
         NEW x \in Int, NEW y \in Int
  PROVE  ((x % n) + y) % m = (x + y) % m
<1>1. PICK k \in Int : x % n = x + m * k /\ m * k \in Int
  BY ModShift
<1> DEFINE a == (x % n) + y
           d == x + y
<1>2. a \in Int /\ d \in Int
  BY <1>1
<1>3. a = d + m * k
  BY <1>1
<1> HIDE DEF a, d
<1>4. a % m = d % m
  BY <1>2, <1>3, SameMod
<1> QED BY <1>4 DEF a, d

LEMMA ModPlus ==
  ASSUME NEW m \in Nat \ {0}, NEW x \in Int, NEW y \in Int
  PROVE  ((x % m) + y) % m = (x + y) % m
<1>1. m = m * 1 /\ 1 \in Int
  OBVIOUS
<1> QED BY <1>1, ModMultiple, Zenon

-----------------------------------------------------------------------------
(* The FIFO. *)

Cell == Byte \cup {Blank}
Index == 0..IndexMod - 1
Offset == 0..Size - 1
Fifo == [begin: Index, end: Index, data: [Offset -> Cell]]

Rounds == IndexMod \div Size

LEMMA Sizes ==
  /\ Size \in Nat \ {0} /\ IndexMod \in Nat \ {0} /\ Size < IndexMod
  /\ Rounds \in Int /\ IndexMod = Size * Rounds
<1>1. Size \in Nat \ {0} /\ IndexMod \in Nat \ {0} /\ Size < IndexMod
  BY FifoAssumption
<1>2. Rounds \in Int /\ IndexMod = Size * Rounds + (IndexMod % Size)
  BY <1>1, ModForm DEF Rounds
<1>3. IndexMod % Size = 0
  BY FifoAssumption
<1> QED BY <1>1, <1>2, <1>3

\* An index that wraps finds the same place in the buffer.
LEMMA WrapKeepsPlace ==
  ASSUME NEW x \in Int, NEW y \in Int
  PROVE  ((x % IndexMod) + y) % Size = (x + y) % Size
BY Sizes, ModMultiple

\* The distance of two indices, and the index at a distance.
LEMMA Distance ==
  ASSUME NEW b \in Int, NEW e \in Int
  PROVE  /\ (e - b) % IndexMod \in Index
         /\ (b + ((e - b) % IndexMod)) % IndexMod = e % IndexMod
<1> DEFINE d == e - b
           l == d % IndexMod
           q == d \div IndexMod
<1>1. IndexMod \in Nat \ {0} /\ d \in Int
  BY Sizes
<1>2. l \in 0..IndexMod - 1 /\ q \in Int /\ d = IndexMod * q + l
  <2> HIDE DEF d
  <2> QED BY <1>1, ModForm
<1>3. e - b = IndexMod * q + l
  BY <1>2
<1> HIDE DEF d, l, q
<1> DEFINE k == 0 - q
<1>4. k \in Int /\ IndexMod * k = 0 - IndexMod * q /\ IndexMod * q \in Int
  BY <1>1, <1>2, TimesMinus
<1> HIDE DEF k
<1>5. b + l = e + IndexMod * k /\ b + l \in Int
  BY <1>2, <1>3, <1>4
<1>6. (b + l) % IndexMod = e % IndexMod
  BY <1>1, <1>4, <1>5, SameMod
<1> QED BY <1>2, <1>6 DEF l, d, Index

LEMMA DistanceIs ==
  ASSUME NEW b \in Int, NEW l \in Index
  PROVE  (((b + l) % IndexMod) - (b % IndexMod)) % IndexMod = l
<1> DEFINE p == b \div IndexMod
           s == b % IndexMod
           e == b + l
           q == e \div IndexMod
           t == e % IndexMod
<1>1. IndexMod \in Nat \ {0} /\ l \in Int /\ l \in 0..IndexMod - 1 /\ e \in Int
  BY Sizes DEF Index
<1>2. s \in Int /\ p \in Int /\ b = IndexMod * p + s
  BY <1>1, ModForm
<1>3. t \in Int /\ q \in Int /\ e = IndexMod * q + t
  <2> HIDE DEF e
  <2> QED BY <1>1, ModForm
<1>4. b + l = IndexMod * q + t
  BY <1>3
<1> HIDE DEF p, q, s, t, e
<1> DEFINE k == p - q
<1>5. k \in Int /\ IndexMod * k = IndexMod * p - IndexMod * q
      /\ IndexMod * p \in Int /\ IndexMod * q \in Int
  BY <1>1, <1>2, <1>3, TimesDiff, TimesMinus
<1> HIDE DEF k
<1>6. t - s = l + IndexMod * k /\ t - s \in Int
  BY <1>1, <1>2, <1>3, <1>4, <1>5
<1>7. (t - s) % IndexMod = l % IndexMod
  BY <1>1, <1>5, <1>6, SameMod
<1>8. l % IndexMod = l
  BY <1>1, SmallMod
<1> QED BY <1>7, <1>8 DEF t, s, e

LEMMA LengthType ==
  ASSUME NEW f \in Fifo
  PROVE  /\ f.begin \in Index /\ f.end \in Index
         /\ Length(f) \in Index
         /\ f.end = (f.begin + Length(f)) % IndexMod
<1>1. f.begin \in Index /\ f.end \in Index
  BY DEF Fifo
<1>2. f.begin \in Int /\ f.end \in Int /\ f.end \in 0..IndexMod - 1 /\ IndexMod \in Nat \ {0}
  BY <1>1, Sizes DEF Index
<1>3. f.end % IndexMod = f.end
  BY <1>2, SmallMod
<1>4. Length(f) \in Index /\ (f.begin + Length(f)) % IndexMod = f.end % IndexMod
  BY <1>2, Distance DEF Length
<1> QED BY <1>1, <1>3, <1>4

\* Whose end lies l behind begin has length l.
LEMMA LengthIs ==
  ASSUME NEW f, NEW b \in Int, NEW l \in Index,
         f.begin = b % IndexMod, f.end = (b + l) % IndexMod
  PROVE  Length(f) = l
BY DistanceIs DEF Length

\* The place of the byte that is put next.
LEMMA EndPlace ==
  ASSUME NEW f \in Fifo
  PROVE  f.end % Size = (f.begin + Length(f)) % Size
<1> DEFINE x == f.begin + Length(f)
<1>1. x \in Int
  BY LengthType, Sizes DEF Index
<1>2. f.end = x % IndexMod
  BY LengthType
<1> HIDE DEF x
<1>3. ((x % IndexMod) + 0) % Size = (x + 0) % Size
  BY <1>1, WrapKeepsPlace
<1>4. x % IndexMod \in Int
  BY <1>1, ModForm, Sizes
<1> QED BY <1>1, <1>2, <1>3, <1>4 DEF x

\* What is in the FIFO lies elsewhere than the byte that is put next.
LEMMA EndIsFree ==
  ASSUME NEW f \in Fifo, Length(f) < Size, NEW i \in 1..Length(f)
  PROVE  (f.begin + i - 1) % Size # f.end % Size
<1>1. /\ f.begin \in Int /\ Length(f) \in Int /\ i \in Int /\ 1 <= i /\ i <= Length(f)
      /\ Size \in Nat \ {0}
  BY LengthType, Sizes DEF Index
<1> DEFINE l == Length(f)
           b == f.begin
           x == b + i - 1
           d == l - (i - 1)
<1>2. l \in Int /\ b \in Int /\ l < Size /\ i <= l
  BY <1>1
<1>3. (b + l) % Size = f.end % Size
  BY EndPlace
<1> HIDE DEF l, b
<1>4. x \in Int /\ d \in 1..Size - 1 /\ x + d = b + l
  BY <1>1, <1>2
<1> HIDE DEF x, d
<1>5. (x + d) % Size # x % Size
  BY <1>1, <1>4, DifferentMod
<1> QED BY <1>3, <1>4, <1>5 DEF x, b

\* Counted from end, the i-th byte lies i - 1 - Length behind.
LEMMA PlaceFromEnd ==
  ASSUME NEW f \in Fifo, NEW i \in Int
  PROVE  (((f.begin + i - 1) % Size) - f.end) % Size = (i - 1 - Length(f)) % Size
<1> DEFINE l == Length(f)
           b == f.begin
           e == f.end
           x == b + i - 1
           z == b + l
           y == 0 - e
           w == i - 1 - l
<1>1. Size \in Nat \ {0} /\ b \in Int /\ l \in Int /\ e \in Int /\ e = (b + l) % IndexMod
  BY LengthType, Sizes DEF Index
<1> HIDE DEF l, b, e
<1>2. x \in Int /\ y \in Int /\ w \in Int /\ z \in Int /\ e = z % IndexMod
  BY <1>1
<1>3. PICK k \in Int : e = z + Size * k /\ Size * k \in Int
  <2> HIDE DEF z
  <2> QED BY <1>2, Sizes, ModShift
<1> DEFINE j == 0 - k
<1>4. j \in Int /\ Size * j = 0 - Size * k
  BY <1>1, TimesMinus
<1> HIDE DEF j
<1>5. x + y = w + Size * j /\ x + y \in Int
  BY <1>1, <1>2, <1>3, <1>4
<1>6. (x + y) % Size = w % Size
  <2> DEFINE u == x + y
  <2>1. u \in Int /\ u = w + Size * j
    BY <1>5
  <2> HIDE DEF u, w
  <2>2. u % Size = w % Size
    BY <1>1, <1>2, <1>4, <2>1, SameMod
  <2> QED BY <2>2 DEF u
<1>7. ((x % Size) + y) % Size = (x + y) % Size
  <2> HIDE DEF x, y
  <2> QED BY <1>1, <1>2, ModPlus
<1>8. (x % Size) + y = (x % Size) - e
  <2> HIDE DEF x
  <2>1. x % Size \in Int
    BY <1>1, <1>2, ModForm
  <2> QED BY <1>1, <2>1
<1> QED BY <1>6, <1>7, <1>8 DEF l, b, e

LEMMA WaitingElements ==
  ASSUME NEW f \in Fifo
  PROVE  /\ Waiting(f) \in Seq(Cell) /\ Len(Waiting(f)) = Length(f)
         /\ \A i \in 1..Length(f) : Waiting(f)[i] = f.data[(f.begin + i - 1) % Size]
<1>1. f.begin \in Int /\ Length(f) \in Nat /\ Size \in Nat \ {0}
  BY LengthType, Sizes DEF Index
<1>2. f.data \in [Offset -> Cell]
  BY DEF Fifo
<1>3. ASSUME NEW i \in 1..Length(f) PROVE f.data[(f.begin + i - 1) % Size] \in Cell
  <2>1. f.begin + i - 1 \in Int
    BY <1>1
  <2>2. (f.begin + i - 1) % Size \in Offset
    BY <1>1, <2>1, ModForm DEF Offset
  <2> QED BY <1>2, <2>2
<1> HIDE DEF Cell
<1>4. Waiting(f) \in [1..Length(f) -> Cell]
  BY <1>3 DEF Waiting
<1>5. Waiting(f) \in Seq(Cell) /\ Len(Waiting(f)) = Length(f)
  BY <1>1, <1>4
<1> QED BY <1>5 DEF Waiting

\* Where bytes are put behind what waits, they are what waits last.
LEMMA Grow ==
  ASSUME NEW f \in Fifo, NEW g \in Fifo, NEW bytes \in Seq(Byte),
         Length(f) + Len(bytes) <= Size,
         g.begin = f.begin, g.end = (f.end + Len(bytes)) % IndexMod,
         \A i \in 1..Length(f) :
           g.data[(f.begin + i - 1) % Size] = f.data[(f.begin + i - 1) % Size],
         \A i \in 1..Len(bytes) :
           g.data[(f.begin + (Length(f) + i) - 1) % Size] = bytes[i]
  PROVE  /\ Length(g) = Length(f) + Len(bytes)
         /\ Waiting(g) = Waiting(f) \o bytes
<1> DEFINE l == Length(f)
           n == Len(bytes)
           b == f.begin
<1>1. /\ b \in Index /\ b \in Int /\ l \in Nat /\ n \in Nat /\ Size \in Nat \ {0}
      /\ IndexMod \in Nat \ {0} /\ Size < IndexMod /\ l + n <= Size
  BY LengthType, Sizes DEF Index
<1>2. f.end = (b + l) % IndexMod /\ f.end \in Int
  BY LengthType DEF Index
<1>3. Length(g) = l + n
  <2>1. (((b + l) % IndexMod) + n) % IndexMod = (b + l + n) % IndexMod
    <3> DEFINE x == b + l
    <3>1. x \in Int /\ n \in Int
      BY <1>1
    <3> HIDE DEF x, n
    <3>2. ((x % IndexMod) + n) % IndexMod = (x + n) % IndexMod
      BY <1>1, <3>1, ModPlus
    <3> QED BY <3>2 DEF x
  <2>2. b + l + n = b + (l + n) /\ l + n \in Index
    <3> HIDE DEF b, l, n
    <3> QED BY <1>1 DEF Index
  <2>3. g.end = (b + (l + n)) % IndexMod
    BY <1>2, <2>1, <2>2
  <2>4. b = b % IndexMod
    <3> HIDE DEF b
    <3> QED BY <1>1, SmallMod DEF Index
  <2>5. g.begin = b % IndexMod
    BY <2>4
  <2> HIDE DEF b, l, n
  <2> QED BY <1>1, <2>2, <2>3, <2>5, LengthIs
<1>4. /\ Waiting(f) \in Seq(Cell) /\ Len(Waiting(f)) = l
      /\ \A i \in 1..l : Waiting(f)[i] = f.data[(b + i - 1) % Size]
  BY WaitingElements
<1>5. /\ Waiting(g) \in Seq(Cell) /\ Len(Waiting(g)) = l + n
      /\ \A i \in 1..l + n : Waiting(g)[i] = g.data[(b + i - 1) % Size]
  BY <1>3, WaitingElements
<1>6. bytes \in Seq(Cell)
  <2>1. Byte \subseteq Cell
    BY DEF Cell
  <2> QED BY <2>1, SeqMonotonic
<1>7. /\ Waiting(f) \o bytes \in Seq(Cell) /\ Len(Waiting(f) \o bytes) = l + n
      /\ \A i \in 1..l + n :
           (Waiting(f) \o bytes)[i] = IF i <= l THEN Waiting(f)[i] ELSE bytes[i - l]
  <2> DEFINE s == Waiting(f)
  <2> HIDE DEF s
  <2>1. /\ s \o bytes \in Seq(Cell) /\ Len(s \o bytes) = Len(s) + Len(bytes)
        /\ \A i \in 1..Len(s) + Len(bytes) :
             (s \o bytes)[i] = IF i <= Len(s) THEN s[i] ELSE bytes[i - Len(s)]
    BY <1>4, <1>6, ConcatProperties DEF s
  <2> QED BY <1>4, <2>1 DEF s
<1>8. ASSUME NEW i \in 1..l + n PROVE Waiting(g)[i] = (Waiting(f) \o bytes)[i]
  <2>1. i \in Int /\ 1 <= i /\ i <= l + n
    BY <1>1
  <2>2. CASE i <= l
    <3>1. i \in 1..l
      BY <1>1, <2>1, <2>2
    <3>2. g.data[(b + i - 1) % Size] = f.data[(b + i - 1) % Size]
      BY <3>1
    <3>3. Waiting(f)[i] = f.data[(b + i - 1) % Size]
      BY <1>4, <3>1
    <3> QED BY <1>5, <1>7, <1>8, <2>2, <3>2, <3>3
  <2>3. CASE ~(i <= l)
    <3> DEFINE j == i - l
    <3>1. j \in 1..n /\ l + j = i
      BY <1>1, <2>1, <2>3
    <3>2. g.data[(b + (l + j) - 1) % Size] = bytes[j]
      <4> HIDE DEF j
      <4> QED BY <3>1
    <3>3. g.data[(b + i - 1) % Size] = bytes[j]
      BY <3>1, <3>2
    <3> QED BY <1>5, <1>7, <1>8, <2>3, <3>3
  <2> QED BY <2>2, <2>3
<1> HIDE DEF l, n
<1>9. Waiting(g) = Waiting(f) \o bytes
  BY <1>5, <1>7, <1>8, SeqEqual
<1> QED BY <1>3, <1>9 DEF l, n

\* A single byte at the end, then the index: the byte waits last.
LEMMA GrowByOne ==
  ASSUME NEW f \in Fifo, NEW g \in Fifo, NEW byte \in Byte, Length(f) < Size,
         g.begin = f.begin, g.end = Next16(f.end),
         \A a \in Offset : a # f.end % Size => g.data[a] = f.data[a],
         g.data[f.end % Size] = byte
  PROVE  Length(g) = Length(f) + 1 /\ Waiting(g) = Append(Waiting(f), byte)
<1> DEFINE bytes == <<byte>>
<1>1. /\ Length(f) \in Nat /\ f.begin \in Int /\ f.end \in Int /\ Size \in Nat \ {0}
      /\ f.end % Size = (f.begin + Length(f)) % Size
  BY LengthType, EndPlace, Sizes DEF Index
<1>2. bytes \in Seq(Byte) /\ Len(bytes) = 1 /\ bytes[1] = byte
  <2> HIDE DEF Byte
  <2> QED OBVIOUS
<1>3. Length(f) + Len(bytes) <= Size
  BY <1>1, <1>2
<1>4. g.end = (f.end + Len(bytes)) % IndexMod
  BY <1>2 DEF Next16
<1>5. ASSUME NEW i \in 1..Length(f)
      PROVE  g.data[(f.begin + i - 1) % Size] = f.data[(f.begin + i - 1) % Size]
  <2>1. (f.begin + i - 1) % Size # f.end % Size
    BY EndIsFree
  <2> DEFINE x == f.begin + i - 1
  <2>2. x \in Int
    BY <1>1
  <2> HIDE DEF x
  <2>3. x % Size \in Offset
    BY <1>1, <2>2, ModForm DEF Offset
  <2> QED BY <2>1, <2>3 DEF x
<1>6. ASSUME NEW i \in 1..Len(bytes)
      PROVE  g.data[(f.begin + (Length(f) + i) - 1) % Size] = bytes[i]
  <2>1. i = 1
    BY <1>2
  <2>2. f.begin + (Length(f) + 1) - 1 = f.begin + Length(f)
    BY <1>1
  <2> QED BY <1>1, <1>2, <2>1, <2>2
<1> HIDE DEF bytes
<1>7. Length(g) = Length(f) + 1 /\ Waiting(g) = Waiting(f) \o bytes
  BY <1>2, <1>3, <1>4, <1>5, <1>6, Grow
<1>8. Waiting(f) \o bytes = Append(Waiting(f), byte)
  <2>1. Waiting(f) \in Seq(Cell) /\ byte \in Cell
    BY WaitingElements DEF Cell
  <2> QED BY <2>1, AppendIsConcat DEF bytes
<1> QED BY <1>7, <1>8

LEMMA Next16Type == ASSUME NEW i \in Int PROVE Next16(i) \in Index
<1>1. i + 1 \in Int
  OBVIOUS
<1> QED BY <1>1, Sizes, ModForm DEF Next16, Index

LEMMA PutType ==
  ASSUME NEW f \in Fifo, NEW i \in Int, NEW byte \in Cell
  PROVE  /\ Put(f, i, byte) \in Fifo
         /\ Put(f, i, byte).begin = f.begin /\ Put(f, i, byte).end = f.end
         /\ i % Size \in Offset /\ Put(f, i, byte).data[i % Size] = byte
         /\ \A a \in Offset : a # i % Size => Put(f, i, byte).data[a] = f.data[a]
<1>1. i % Size \in Offset
  BY Sizes, ModForm DEF Offset
<1> HIDE DEF Cell, Offset, Index
<1> QED BY <1>1 DEF Put, Fifo

\* app_drv_fifo_push and app_drv_fifo_write of one byte: where there is room the byte goes
\* behind what waits.
THEOREM PushAppends ==
  ASSUME NEW f \in Fifo, NEW byte \in Byte, Length(f) < Size
  PROVE  /\ Push(f, byte) \in Fifo
         /\ Length(Push(f, byte)) = Length(f) + 1
         /\ Waiting(Push(f, byte)) = Append(Waiting(f), byte)
<1> DEFINE p == Put(f, f.end, byte)
           g == Push(f, byte)
<1>1. f.end \in Int /\ byte \in Cell
  BY LengthType DEF Cell, Index
<1>2. /\ p \in Fifo /\ p.begin = f.begin /\ p.end = f.end
      /\ p.data[f.end % Size] = byte
      /\ \A a \in Offset : a # f.end % Size => p.data[a] = f.data[a]
  BY <1>1, PutType
<1>3. g = [p EXCEPT !.end = Next16(@)]
  BY DEF Push
<1> HIDE DEF p, g
<1>4. Next16(f.end) \in Index
  BY <1>1, Next16Type
<1>5. g \in Fifo /\ g.begin = f.begin /\ g.end = Next16(f.end) /\ g.data = p.data
  BY <1>2, <1>3, <1>4 DEF Fifo
<1>6. Length(g) = Length(f) + 1 /\ Waiting(g) = Append(Waiting(f), byte)
  BY <1>2, <1>5, GrowByOne
<1> QED BY <1>5, <1>6 DEF g

\* begin++ removes the byte that waits first.
THEOREM PopRemovesFirst ==
  ASSUME NEW f \in Fifo, Length(f) # 0
  PROVE  LET g == [f EXCEPT !.begin = Next16(@)]
         IN /\ g \in Fifo
            /\ Length(g) = Length(f) - 1
            /\ Waiting(f) # <<>> /\ First(f) = Head(Waiting(f))
            /\ Waiting(g) = Tail(Waiting(f))
<1> DEFINE g == [f EXCEPT !.begin = Next16(@)]
           l == Length(f)
           b == f.begin
           c == b + 1
           k == l - 1
<1>1. /\ b \in Int /\ l \in Nat /\ l \in 0..IndexMod - 1 /\ l >= 1
      /\ IndexMod \in Nat \ {0} /\ Size \in Nat \ {0}
      /\ f.end = (b + l) % IndexMod
  BY LengthType, Sizes DEF Index
<1>2. c \in Int /\ k \in Index /\ c + k = b + l
  <2> HIDE DEF b, l
  <2> QED BY <1>1 DEF Index
<1>3. g \in Fifo /\ g.begin = c % IndexMod /\ g.end = f.end /\ g.data = f.data
  BY <1>1, Next16Type DEF Fifo, Next16
<1>4. Length(g) = k
  <2>1. g.end = (c + k) % IndexMod
    BY <1>1, <1>2, <1>3
  <2> HIDE DEF g, c, k
  <2> QED BY <1>2, <1>3, <2>1, LengthIs
<1>5. /\ Waiting(f) \in Seq(Cell) /\ Len(Waiting(f)) = l
      /\ \A i \in 1..l : Waiting(f)[i] = f.data[(b + i - 1) % Size]
  BY WaitingElements
<1>6. /\ Waiting(g) \in Seq(Cell) /\ Len(Waiting(g)) = k
      /\ \A i \in 1..k : Waiting(g)[i] = f.data[(g.begin + i - 1) % Size]
  <2> HIDE DEF g
  <2> QED BY <1>3, <1>4, WaitingElements
<1>7. Waiting(f) # <<>> /\ First(f) = Head(Waiting(f))
  <2>1. 1 \in 1..l /\ b + 1 - 1 = b
    BY <1>1
  <2>2. Waiting(f)[1] = f.data[b % Size]
    BY <1>5, <2>1
  <2>3. Waiting(f) # <<>>
    BY <1>1, <1>5
  <2> QED BY <1>5, <2>2, <2>3 DEF First
<1>8. /\ Tail(Waiting(f)) \in Seq(Cell) /\ Len(Tail(Waiting(f))) = k
      /\ \A i \in 1..k : Tail(Waiting(f))[i] = Waiting(f)[i + 1]
  <2> DEFINE s == Waiting(f)
  <2>1. s \in Seq(Cell) /\ s # <<>> /\ Len(s) = l
    BY <1>5, <1>7
  <2> HIDE DEF s, Cell
  <2> QED BY <2>1, HeadTailProperties DEF s
<1>9. ASSUME NEW i \in 1..k PROVE Waiting(g)[i] = Tail(Waiting(f))[i]
  <2>1. i \in Int /\ i - 1 \in Int /\ i + 1 \in 1..l
    BY <1>1
  <2>2. ((c % IndexMod) + (i - 1)) % Size = (c + (i - 1)) % Size
    <3> DEFINE j == i - 1
    <3> HIDE DEF c, j
    <3>1. ((c % IndexMod) + j) % Size = (c + j) % Size
      BY <1>2, <2>1, WrapKeepsPlace DEF j
    <3> QED BY <3>1 DEF j
  <2>3. c % IndexMod \in Int
    <3> HIDE DEF c
    <3> QED BY <1>1, <1>2, ModForm
  <2>4. g.begin + i - 1 = (c % IndexMod) + (i - 1) /\ c + (i - 1) = b + (i + 1) - 1
    BY <1>1, <1>3, <2>1, <2>3
  <2>5. (g.begin + i - 1) % Size = (b + (i + 1) - 1) % Size
    BY <2>2, <2>4
  <2> HIDE DEF g
  <2> QED BY <1>5, <1>6, <1>8, <2>1, <2>5
<1>10. Waiting(g) = Tail(Waiting(f))
  <2> HIDE DEF g, k
  <2> QED BY <1>6, <1>8, <1>9, SeqEqual
<1> QED BY <1>3, <1>4, <1>7, <1>10

LEMMA UsedFifoIsEmpty ==
  ASSUME NEW n \in Nat
  PROVE  UsedFifo(n) \in Fifo /\ Length(UsedFifo(n)) = 0 /\ Waiting(UsedFifo(n)) = <<>>
<1> DEFINE f == UsedFifo(n)
<1>1. n % IndexMod \in Index
  BY Sizes, ModForm DEF Index
<1>2. f \in Fifo
  <2>1. [a \in 0..Size - 1 |-> Blank] \in [Offset -> Cell]
    BY DEF Offset, Cell
  <2> HIDE DEF Offset, Cell
  <2> QED BY <1>1, <2>1 DEF UsedFifo, Fifo
<1>3. f.end - f.begin = 0
  BY <1>1 DEF UsedFifo, Index
<1>4. Length(f) = 0
  <2>1. 0 \in 0..IndexMod - 1
    BY Sizes
  <2> QED BY <1>3, <2>1, Sizes, SmallMod DEF Length
<1>5. Waiting(f) \in Seq(Cell) /\ Len(Waiting(f)) = 0
  <2> HIDE DEF f
  <2> QED BY <1>2, <1>4, WaitingElements
<1>6. Waiting(f) = <<>>
  <2> HIDE DEF f
  <2> QED BY <1>5, EmptySeq
<1> QED BY <1>2, <1>4, <1>6

\* available_count: the room, as long as the length is no more than the size.
LEMMA AvailableIs ==
  ASSUME NEW f \in Fifo, Length(f) <= Size
  PROVE  Available(f) = Size - Length(f)
<1> DEFINE l == Length(f)
           r == Size - l
<1>1. l \in Nat /\ Size \in Nat \ {0} /\ IndexMod \in Nat \ {0} /\ Size < IndexMod
  BY LengthType, Sizes DEF Index
<1>2. r \in 0..IndexMod - 1
  <2> HIDE DEF l
  <2> QED BY <1>1 DEF l
<1> HIDE DEF r
<1>3. r % IndexMod = r
  BY <1>1, <1>2, SmallMod
<1> QED BY <1>3 DEF r, Available

\* app_drv_fifo_write: bytes for which there is room go behind what waits, wherever the
\* indices stand.
THEOREM WriteAllAppends ==
  ASSUME NEW f \in Fifo, NEW bytes \in Seq(Byte), Length(f) + Len(bytes) <= Size
  PROVE  /\ WriteAll(f, bytes) \in Fifo
         /\ Length(WriteAll(f, bytes)) = Length(f) + Len(bytes)
         /\ Waiting(WriteAll(f, bytes)) = Waiting(f) \o bytes
<1> DEFINE g == WriteAll(f, bytes)
           l == Length(f)
           n == Len(bytes)
           Behind(a) == (a - f.end) % Size
<1>1. /\ f.begin \in Index /\ f.begin \in Int /\ f.end \in Int /\ l \in Nat /\ n \in Nat
      /\ Size \in Nat \ {0} /\ IndexMod \in Nat \ {0} /\ l + n <= Size
  BY LengthType, Sizes DEF Index
<1>2. f.data \in [Offset -> Cell]
  BY DEF Fifo
<1>3. /\ g.begin = f.begin /\ g.end = (f.end + n) % IndexMod
      /\ g.data = [a \in Offset |-> IF Behind(a) < n THEN bytes[Behind(a) + 1] ELSE f.data[a]]
      /\ g = [begin |-> g.begin, end |-> g.end, data |-> g.data]
  BY DEF WriteAll, Offset
<1>4. ASSUME NEW a \in Offset PROVE Behind(a) \in Nat
  <2> DEFINE d == a - f.end
  <2>1. d \in Int
    BY <1>1 DEF Offset
  <2> HIDE DEF d
  <2>2. d % Size \in Nat
    BY <1>1, <2>1, ModForm
  <2> QED BY <2>2 DEF d
<1>5. g.data \in [Offset -> Cell]
  <2> SUFFICES ASSUME NEW a \in Offset
               PROVE  (IF Behind(a) < n THEN bytes[Behind(a) + 1] ELSE f.data[a]) \in Cell
    BY <1>3
  <2>1. CASE Behind(a) < n
    <3>1. Behind(a) + 1 \in 1..Len(bytes)
      <4> DEFINE j == Behind(a)
      <4>1. j \in Nat /\ j < Len(bytes)
        BY <1>4, <2>1
      <4> HIDE DEF j
      <4>2. j + 1 \in 1..Len(bytes)
        BY <1>1, <4>1
      <4> QED BY <4>2 DEF j
    <3>2. bytes[Behind(a) + 1] \in Byte
      BY <3>1, ElementOfSeq
    <3> QED BY <2>1, <3>2 DEF Cell
  <2>2. CASE ~(Behind(a) < n)
    BY <1>2, <2>2
  <2> QED BY <2>1, <2>2
<1>6. g \in Fifo
  <2>1. g.end \in Index
    <3> DEFINE e == f.end + n
    <3>1. e \in Int
      BY <1>1
    <3> HIDE DEF e
    <3>2. e % IndexMod \in Index
      BY <1>1, <3>1, ModForm DEF Index
    <3> QED BY <1>3, <3>2 DEF e
  <2> HIDE DEF g
  <2> QED BY <1>1, <1>3, <1>5, <2>1 DEF Fifo
\* The place of the i-th byte.
<1>7. ASSUME NEW i \in 1..l + n
      PROVE  LET a == (f.begin + i - 1) % Size
             IN /\ a \in Offset
                /\ i <= l => g.data[a] = f.data[a]
                /\ ~(i <= l) => g.data[a] = bytes[i - l]
  <2> DEFINE a == (f.begin + i - 1) % Size
             w == i - 1 - l
             x == f.begin + i - 1
  <2>1. i \in Int /\ w \in Int /\ x \in Int /\ 1 <= i /\ i <= l + n
    BY <1>1
  <2>2. a \in Offset
    <3> HIDE DEF x
    <3>1. x % Size \in Offset
      BY <1>1, <2>1, ModForm DEF Offset
    <3> QED BY <3>1 DEF x
  <2>3. Behind(a) = w % Size
    BY <2>1, PlaceFromEnd
  <2>4. CASE i <= l
    <3> DEFINE v == Size + w
    <3>1. v \in 0..Size - 1 /\ v >= n /\ v = w + Size * 1
      <4> HIDE DEF l, n
      <4> QED BY <1>1, <2>1, <2>4
    <3>2. v % Size = w % Size /\ v % Size = v
      <4> HIDE DEF v, w
      <4>1. v % Size = v
        BY <1>1, <3>1, SmallMod
      <4>2. v \in Int /\ 1 \in Int
        BY <3>1
      <4> QED BY <1>1, <2>1, <3>1, <4>1, <4>2, SameMod
    <3>3. ~(Behind(a) < n)
      <4> DEFINE j == Behind(a)
      <4>1. j = v
        BY <2>3, <3>2
      <4> HIDE DEF j, v
      <4>2. ~(j < n)
        BY <1>1, <3>1, <4>1
      <4> QED BY <4>2 DEF j
    <3> QED BY <1>3, <2>2, <2>4, <3>3
  <2>5. CASE ~(i <= l)
    <3>1. w \in 0..Size - 1 /\ w < n /\ w + 1 = i - l
      <4> HIDE DEF l, n
      <4> QED BY <1>1, <2>1, <2>5
    <3>2. w % Size = w
      <4> HIDE DEF w
      <4> QED BY <1>1, <3>1, SmallMod
    <3>3. Behind(a) = w
      BY <2>3, <3>2
    <3> QED BY <1>3, <2>2, <2>5, <3>1, <3>3
  <2> QED BY <2>2, <2>4, <2>5
<1>8. ASSUME NEW i \in 1..l
      PROVE  g.data[(f.begin + i - 1) % Size] = f.data[(f.begin + i - 1) % Size]
  <2>1. i \in 1..l + n /\ i <= l
    <3> HIDE DEF l, n
    <3> QED BY <1>1
  <2> HIDE DEF g, l, n
  <2> QED BY <2>1, <1>7
<1>9. ASSUME NEW i \in 1..n
      PROVE  g.data[(f.begin + (l + i) - 1) % Size] = bytes[i]
  <2> DEFINE j == l + i
  <2>1. j \in 1..l + n /\ ~(j <= l) /\ j - l = i
    <3> HIDE DEF l, n
    <3> QED BY <1>1
  <2> HIDE DEF g, l, n, j
  <2>2. g.data[(f.begin + j - 1) % Size] = bytes[j - l]
    BY <2>1, <1>7
  <2> QED BY <2>1, <2>2 DEF j
<1>10. Length(g) = l + n /\ Waiting(g) = Waiting(f) \o bytes
  <2> HIDE DEF g
  <2> QED BY <1>1, <1>3, <1>6, <1>8, <1>9, Grow
<1> QED BY <1>6, <1>10

-----------------------------------------------------------------------------
(* Type correctness. *)

Statements == {"idle", "drain", "take", "pop", "notify", "flush",
               "load", "put", "increment", "store", "written"}

Flags ==
  /\ uart_rx_flag \in BOOLEAN /\ timer \in BOOLEAN /\ evt \in BOOLEAN
  /\ conn \in BOOLEAN /\ notify \in BOOLEAN /\ collided \in BOOLEAN

Counters ==
  /\ uartSent \in 0..MaxUart /\ phoneSent \in 0..MaxPhone /\ cnt \in 0..Retries + 1

\* A packet that is read or tried is never longer than what a notification takes, and one
\* that is tried is not empty.
Packet ==
  /\ packet \in Seq(Cell) /\ Len(packet) <= MtuData
  /\ pc = "take" => reg <= MtuData /\ Len(packet) < reg
  /\ pc = "pop" => reg <= MtuData /\ 1 <= Len(packet) /\ Len(packet) <= reg
  /\ (send_to_ble_state \in Failed \/ pc = "notify") => packet # <<>>

\* The callback that is in the middle of a write has a byte to write.
Callback == todo \in Seq(Byte) /\ (CallbackWrites => todo # <<>>)

TypeInv ==
  /\ rx \in Fifo /\ tx \in Fifo /\ Length(tx) <= Size /\ reg \in Index
  /\ Flags /\ Counters /\ Packet /\ Callback
  /\ send_to_ble_state \in Failed \cup {"TO_SEND"} /\ pc \in Statements

LEMMA TypeInvIsTypeOK == TypeInv => TypeOK
<1> SUFFICES ASSUME TypeInv PROVE TypeOK
  OBVIOUS
<1>1. {rx.begin, rx.end, tx.begin, tx.end, reg} \subseteq 0..IndexMod - 1
  BY DEF TypeInv, Fifo, Index
<1>2. ASSUME NEW a \in 0..Size - 1 PROVE {rx.data[a], tx.data[a]} \subseteq Byte \cup {Blank}
  <2>1. rx.data \in [Offset -> Cell] /\ tx.data \in [Offset -> Cell] /\ a \in Offset
    BY DEF TypeInv, Fifo, Offset
  <2>2. rx.data[a] \in Cell /\ tx.data[a] \in Cell
    BY <2>1
  <2> QED BY <2>2 DEF Cell
<1>3. {uart_rx_flag, timer, evt, conn, notify, collided} \subseteq BOOLEAN
  BY DEF TypeInv, Flags
<1> QED BY <1>1, <1>2, <1>3 DEF TypeInv, Counters, Packet, Statements, TypeOK

LEMMA ByteType ==
  /\ \A i \in 1..MaxUart : i \in Byte
  /\ \A n, s \in Nat : s + n <= MaxPhone => \A i \in 1..n : MaxUart + s + i \in Byte
BY BoundAssumption DEF Byte

LEMMA PushType ==
  ASSUME NEW f \in Fifo, NEW byte \in Byte PROVE Push(f, byte) \in Fifo
<1> DEFINE p == Put(f, f.end, byte)
<1>1. f.end \in Int /\ byte \in Cell
  BY LengthType DEF Cell, Index
<1>2. p \in Fifo /\ Push(f, byte) = [p EXCEPT !.end = Next16(f.end)] /\ p.end = f.end
  BY <1>1, PutType DEF Push
<1>3. Next16(f.end) \in Index
  BY <1>1, Next16Type
<1> HIDE DEF p
<1> QED BY <1>2, <1>3 DEF Fifo

LEMMA MoveType ==
  ASSUME NEW f \in Fifo, NEW i \in Index
  PROVE  [f EXCEPT !.begin = i] \in Fifo /\ [f EXCEPT !.end = i] \in Fifo
BY DEF Fifo

LEMMA PhoneBytesType ==
  ASSUME TypeInv, NEW n \in Nat \ {0}, phoneSent + n <= MaxPhone
  PROVE  PhoneBytes(n) \in Seq(Byte) /\ Len(PhoneBytes(n)) = n
<1>1. phoneSent \in Nat
  BY BoundAssumption DEF TypeInv, Counters
<1>2. \A i \in 1..n : MaxUart + phoneSent + i \in Byte
  BY <1>1, ByteType
<1>3. PhoneBytes(n) \in [1..n -> Byte]
  BY <1>2 DEF PhoneBytes
<1> QED BY <1>3

LEMMA AcceptedType ==
  ASSUME NEW f \in Fifo, NEW bytes \in Seq(Byte)
  PROVE  /\ Accepted(f, bytes) \in Seq(Byte)
         /\ Available(f) \in Nat /\ Len(Accepted(f, bytes)) <= Available(f)
<1> DEFINE r == Size - Length(f)
           m == IF Len(bytes) < Available(f) THEN Len(bytes) ELSE Available(f)
<1>1. r \in Int /\ IndexMod \in Nat \ {0}
  BY LengthType, Sizes DEF Index
<1>2. Available(f) \in Nat
  <2> HIDE DEF r
  <2>1. r % IndexMod \in Nat
    BY <1>1, ModForm
  <2> QED BY <2>1 DEF r, Available
<1>3. m \in Nat /\ m <= Len(bytes) /\ m <= Available(f)
  BY <1>2
<1>4. Accepted(f, bytes) = SubSeq(bytes, 1, m)
  BY DEF Accepted
<1> HIDE DEF m
<1>5. \A i \in 1..m : bytes[i] \in Byte
  BY <1>3, ElementOfSeq
<1>6. /\ SubSeq(bytes, 1, m) \in Seq(Byte)
      /\ Len(SubSeq(bytes, 1, m)) = IF 1 <= m THEN m - 1 + 1 ELSE 0
  BY <1>3, <1>5, SubSeqProperties
<1> QED BY <1>2, <1>3, <1>4, <1>6

LEMMA InitType == Init => TypeInv
<1> SUFFICES ASSUME Init PROVE TypeInv
  OBVIOUS
<1>1. rx \in Fifo /\ tx \in Fifo /\ Length(tx) <= Size
  BY UsedFifoIsEmpty, BoundAssumption, Sizes DEF Init
<1>2. 0 \in Index /\ 0 \in Nat
  BY Sizes DEF Index
<1>3. Counters
  BY BoundAssumption, PacketAssumption DEF Init, Counters
<1>4. packet \in Seq(Cell) /\ Len(packet) = 0 /\ todo \in Seq(Byte)
  BY EmptySeq DEF Init
<1>5. Packet
  BY <1>4, Sizes, PacketAssumption DEF Init, Packet, Failed
<1>6. Callback
  BY <1>4 DEF Init, Callback, CallbackWrites
<1> QED BY <1>1, <1>2, <1>3, <1>5, <1>6 DEF Init, TypeInv, Flags, Statements

LEMMA TypeUnchanged == TypeInv /\ UNCHANGED vars => TypeInv'
BY DEF TypeInv, Flags, Counters, Packet, Callback, CallbackWrites, vars, fifos, events, sender,
       link, thread, sent, ghosts

LEMMA TypeUartByte == TypeInv /\ UartByte => TypeInv'
<1> SUFFICES ASSUME TypeInv, UartByte PROVE TypeInv'
  OBVIOUS
<1>1. uartSent \in 0..MaxUart /\ uartSent < MaxUart /\ uartSent' = uartSent + 1
  BY DEF TypeInv, Counters, UartByte
<1>2. uartSent' \in 1..MaxUart /\ uartSent' \in 0..MaxUart
  BY <1>1, BoundAssumption
<1>3. rx' \in Fifo
  <2>1. uartSent' \in Byte
    BY <1>2, ByteType
  <2>2. rx \in Fifo /\ (rx' = rx \/ rx' = Push(rx, uartSent'))
    BY DEF TypeInv, UartByte
  <2> QED BY <2>1, <2>2, PushType
<1>4. collided' \in BOOLEAN /\ uart_rx_flag' \in BOOLEAN
  BY DEF UartByte, TypeInv, Flags, CallbackWrites
<1> QED BY <1>2, <1>3, <1>4
        DEF TypeInv, Flags, Counters, Packet, Callback, CallbackWrites, UartByte, events,
            sender, link, thread

LEMMA TypeProcess == TypeInv /\ Process => TypeInv'
<1> SUFFICES ASSUME TypeInv, Process PROVE TypeInv'
  OBVIOUS
<1>1. CASE TestFlag
  <2>1. timer' \in BOOLEAN
    BY <1>1 DEF TestFlag, TypeInv, Flags
  <2> QED BY <1>1, <2>1
          DEF TypeInv, Flags, Counters, Packet, Callback, CallbackWrites, Statements, TestFlag,
              Step, fifos, sender, link, sent, ghosts
<1>2. CASE SendByte
  <2>1. tx' \in Fifo /\ Length(tx') <= Size
    <3>1. tx \in Fifo /\ Length(tx) <= Size /\ Length(tx) # 0
      BY <1>2 DEF TypeInv, SendByte
    <3>2. tx' \in Fifo /\ Length(tx') = Length(tx) - 1
      BY <1>2, <3>1, PopRemovesFirst DEF SendByte
    <3>3. Length(tx) \in Int /\ Size \in Int
      BY <3>1, LengthType, Sizes DEF Index
    <3> QED BY <3>1, <3>2, <3>3
  <2> QED BY <1>2, <2>1
          DEF TypeInv, Flags, Counters, Packet, Callback, CallbackWrites, SendByte, events,
              sender, link, thread, sent
<1>3. CASE Drained
  BY <1>3 DEF TypeInv, Flags, Counters, Packet, Callback, CallbackWrites, Statements, Drained,
              Step, fifos, events, sender, link, sent, ghosts
<1> QED BY <1>1, <1>2, <1>3 DEF Process

LEMMA TypeSendEvent == TypeInv /\ SendEvent => TypeInv'
<1> SUFFICES ASSUME TypeInv, SendEvent PROVE TypeInv'
  OBVIOUS
<1>1. CASE WaitForMore
  <2>1. cnt' \in 0..Retries + 1
    BY <1>1, PacketAssumption DEF WaitForMore, TypeInv, Counters
  <2> QED BY <1>1, <2>1
          DEF TypeInv, Flags, Counters, Packet, Callback, CallbackWrites, WaitForMore, Serve,
              fifos, link, thread, sent, ghosts
<1>2. CASE ReadPacket
  <2>1. cnt' \in 0..Retries + 1
    BY <1>2, PacketAssumption DEF ReadPacket
  <2>2. /\ rx \in Fifo /\ Length(rx) \in Nat /\ Length(rx) \in Index
        /\ MtuData \in Nat \ {0} /\ MtuData \in Index
    BY LengthType, PacketAssumption, Sizes DEF TypeInv, Index
  <2>3. reg' \in Index /\ reg' \in Nat /\ reg' <= MtuData
    <3>1. reg' = Length(rx) \/ reg' = MtuData
      BY <1>2 DEF ReadPacket
    <3>2. Length(rx) < MtuData \/ reg' = MtuData
      BY <1>2 DEF ReadPacket
    <3> QED BY <2>2, <3>1, <3>2
  <2>4. packet' \in Seq(Cell) /\ Len(packet') = 0
    BY <1>2, EmptySeq DEF ReadPacket
  <2>5. pc' \in {"idle", "take"} /\ (pc' = "take" => reg' # 0)
    BY <1>2 DEF ReadPacket
  <2>6. send_to_ble_state' \notin Failed
    BY <1>2 DEF ReadPacket, Failed
  <2>7. Packet'
    <3>1. Len(packet') <= MtuData
      BY <2>2, <2>4
    <3>2. pc' # "pop" /\ pc' # "notify" /\ (pc' = "take" => Len(packet') < reg')
      BY <2>3, <2>4, <2>5
    <3> QED BY <2>3, <2>4, <2>6, <3>1, <3>2 DEF Packet
  <2>8. Callback'
    BY <1>2, <2>5 DEF Callback, CallbackWrites, ReadPacket, TypeInv
  <2> QED BY <1>2, <2>1, <2>3, <2>5, <2>7, <2>8
          DEF TypeInv, Flags, Counters, Statements, ReadPacket, Serve, fifos, link, sent, ghosts
<1>3. CASE Retry
  BY <1>3 DEF TypeInv, Flags, Counters, Packet, Callback, CallbackWrites, Statements, Retry,
              Serve, fifos, sender, link, sent, ghosts
<1>4. CASE NotReady
  BY <1>4 DEF TypeInv, Flags, Counters, Packet, Callback, CallbackWrites, NotReady, Serve,
              fifos, sender, link, thread, sent, ghosts
<1>5. CASE Flush
  <2>1. rx' \in Fifo
    <3>1. 0 \in Index
      BY Sizes DEF Index
    <3>2. rx \in Fifo
      BY DEF TypeInv
    <3>3. [rx EXCEPT !.begin = 0] \in Fifo /\ [rx EXCEPT !.end = 0] \in Fifo
      BY <3>1, <3>2, MoveType
    <3> QED BY <1>5, <3>3 DEF Flush
  <2> QED BY <1>5, <2>1
          DEF TypeInv, Flags, Counters, Packet, Callback, CallbackWrites, Statements, Flush,
              Serve, sender, link, sent, ghosts
<1> QED BY <1>1, <1>2, <1>3, <1>4, <1>5 DEF SendEvent

LEMMA TypeReader ==
  TypeInv /\ (TakeByte \/ PopByte \/ Notified \/ NotNotified \/ FlushEnd) => TypeInv'
<1> SUFFICES ASSUME TypeInv, TakeByte \/ PopByte \/ Notified \/ NotNotified \/ FlushEnd
             PROVE  TypeInv'
  OBVIOUS
<1>1. reg \in Nat /\ packet \in Seq(Cell) /\ Len(packet) \in Nat /\ MtuData \in Nat \ {0}
  BY PacketAssumption, Sizes DEF TypeInv, Packet, Index
<1>2. CASE TakeByte
  <2>1. First(rx) \in Cell
    <3>1. rx.begin \in Int /\ rx.data \in [Offset -> Cell]
      BY Sizes DEF TypeInv, Fifo, Index
    <3>2. rx.begin % Size \in Offset
      BY <3>1, Sizes, ModForm DEF Offset
    <3> QED BY <3>1, <3>2 DEF First
  <2>2. /\ packet' \in Seq(Cell) /\ Len(packet') = Len(packet) + 1 /\ packet' # <<>>
        /\ pc = "take" /\ pc' = "pop" /\ reg' = reg
        /\ send_to_ble_state' = send_to_ble_state
    <3> HIDE DEF Cell
    <3>1. packet' = Append(packet, First(rx))
      BY <1>2 DEF TakeByte
    <3>2. packet' \in Seq(Cell) /\ Len(packet') = Len(packet) + 1
      BY <1>1, <2>1, <3>1, AppendProperties
    <3>3. packet' # <<>>
      BY <1>1, <3>2
    <3> QED BY <1>2, <3>2, <3>3 DEF TakeByte, Step
  <2>3. Packet'
    BY <1>1, <2>2 DEF Packet, TypeInv
  <2> QED BY <1>2, <2>2, <2>3
          DEF TypeInv, Flags, Counters, Callback, CallbackWrites, Statements, TakeByte, fifos,
              events, link, sent, ghosts
<1>3. CASE PopByte
  <2>1. rx' \in Fifo
    <3>1. rx \in Fifo /\ rx.begin \in Int /\ rx' = [rx EXCEPT !.begin = Next16(rx.begin)]
      BY <1>3, LengthType DEF TypeInv, Index, PopByte
    <3> QED BY <3>1, Next16Type, MoveType
  <2>2. /\ packet' = packet /\ pc = "pop" /\ send_to_ble_state' = send_to_ble_state
        /\ \/ pc' = "notify" /\ reg' = 0
           \/ pc' = "take" /\ reg' = reg /\ Len(packet) # reg
    BY <1>3 DEF PopByte, sender
  <2>3. Packet'
    <3>1. packet # <<>>
      BY <1>1, <2>2 DEF Packet, TypeInv
    <3> QED BY <1>1, <2>2, <3>1 DEF Packet, TypeInv
  <2>4. reg' \in Index /\ pc' \in Statements /\ Callback'
    BY <1>3, <2>2, Sizes DEF Index, TypeInv, Statements, Callback, CallbackWrites, PopByte
  <2> QED BY <1>3, <2>1, <2>3, <2>4
          DEF TypeInv, Flags, Counters, PopByte, events, sender, link, sent, ghosts
<1>4. CASE Notified
  <2>1. Packet'
    <3>1. packet' = <<>> /\ pc' = "idle" /\ send_to_ble_state' = "TO_SEND"
      BY <1>4 DEF Notified, Step
    <3>2. packet' \in Seq(Cell) /\ Len(packet') = 0
      BY <3>1, EmptySeq
    <3> QED BY <1>1, <3>1, <3>2 DEF Packet, Failed
  <2> QED BY <1>4, <2>1
          DEF TypeInv, Flags, Counters, Callback, CallbackWrites, Statements, Notified, Step,
              fifos, link, sent
<1>5. CASE NotNotified
  BY <1>5 DEF TypeInv, Flags, Counters, Packet, Callback, CallbackWrites, Statements,
              NotNotified, Step, fifos, link, sent, ghosts
<1>6. CASE FlushEnd
  <2>1. rx' \in Fifo
    <3>1. 0 \in Index
      BY Sizes DEF Index
    <3>2. rx \in Fifo
      BY DEF TypeInv
    <3>3. [rx EXCEPT !.begin = 0] \in Fifo /\ [rx EXCEPT !.end = 0] \in Fifo
      BY <3>1, <3>2, MoveType
    <3> QED BY <1>6, <3>3 DEF FlushEnd
  <2> QED BY <1>6, <2>1
          DEF TypeInv, Flags, Counters, Packet, Callback, CallbackWrites, Statements, FlushEnd,
              Step, events, sender, link, sent
<1> QED BY <1>2, <1>3, <1>4, <1>5, <1>6

\* What the callback writes to app_uart_tx_fifo goes behind what waits there.
LEMMA PhoneToTx ==
  ASSUME TypeInv, NEW n \in WriteLens, PhoneWrite(n)
  PROVE  LET bytes == Accepted(tx, PhoneBytes(n))
         IN /\ PhoneBytes(n) \in Seq(Byte) /\ bytes \in Seq(Byte)
            /\ tx' \in Fifo /\ Length(tx') <= Size
            /\ Waiting(tx') = Waiting(tx) \o bytes
<1> DEFINE bytes == Accepted(tx, PhoneBytes(n))
<1>1. n \in Nat \ {0} /\ tx \in Fifo /\ Length(tx) <= Size
  BY PacketAssumption DEF TypeInv
<1>2. PhoneBytes(n) \in Seq(Byte)
  BY <1>1, PhoneBytesType DEF PhoneWrite
<1>3. bytes \in Seq(Byte) /\ Len(bytes) <= Available(tx)
  <2> HIDE DEF Byte
  <2> QED BY <1>1, <1>2, AcceptedType
<1>4. Available(tx) = Size - Length(tx)
  BY <1>1, AvailableIs
<1>5. tx' = WriteAll(tx, bytes)
  BY DEF PhoneWrite
<1> HIDE DEF bytes
<1>6. Length(tx) \in Nat /\ Len(bytes) \in Nat /\ Size \in Nat
  BY <1>1, <1>3, LengthType, Sizes DEF Index
<1>7. Length(tx) + Len(bytes) <= Size
  BY <1>3, <1>4, <1>6
<1>8. /\ tx' \in Fifo /\ Length(tx') = Length(tx) + Len(bytes)
      /\ Waiting(tx') = Waiting(tx) \o bytes
  BY <1>1, <1>3, <1>5, <1>7, WriteAllAppends
<1> QED BY <1>2, <1>3, <1>7, <1>8 DEF bytes

LEMMA TypeWriter ==
  TypeInv /\ (LoadEnd \/ PutByte \/ ReloadEnd \/ StoreEnd \/ WriteDone) => TypeInv'
<1> SUFFICES ASSUME TypeInv, LoadEnd \/ PutByte \/ ReloadEnd \/ StoreEnd \/ WriteDone
             PROVE  TypeInv'
  OBVIOUS
<1>1. rx.end \in Index /\ reg \in Index /\ reg \in Int /\ 0 \in Index /\ rx \in Fifo
  BY LengthType, Sizes DEF TypeInv, Index
<1>2. todo \in Seq(Byte)
  BY DEF TypeInv, Callback
<1>3. CASE LoadEnd
  BY <1>1, <1>3
     DEF TypeInv, Flags, Counters, Packet, Callback, CallbackWrites, Statements, LoadEnd, Step,
         fifos, events, sender, link, sent, ghosts
<1>4. CASE PutByte
  <2>1. todo # <<>>
    BY <1>4 DEF PutByte, Step, TypeInv, Callback, CallbackWrites
  <2>2. Head(todo) \in Cell
    <3>1. Head(todo) \in Byte
      BY <1>2, <2>1, HeadTailProperties
    <3> QED BY <3>1 DEF Cell
  <2>3. rx' \in Fifo
    BY <1>1, <1>4, <2>2, PutType DEF PutByte
  <2> QED BY <1>4, <2>3
          DEF TypeInv, Flags, Counters, Packet, Callback, CallbackWrites, Statements, PutByte,
              Step, events, sender, link, sent, ghosts
<1>5. CASE ReloadEnd
  BY <1>1, <1>5
     DEF TypeInv, Flags, Counters, Packet, Callback, CallbackWrites, Statements, ReloadEnd, Step,
         fifos, events, sender, link, sent, ghosts
<1>6. CASE StoreEnd
  <2>1. todo # <<>>
    BY <1>6 DEF StoreEnd, TypeInv, Callback, CallbackWrites
  <2>2. /\ todo' \in Seq(Byte) /\ Len(todo') = Len(todo) - 1 /\ Len(todo) \in Nat
    <3> HIDE DEF Byte
    <3> QED BY <1>2, <1>6, <2>1, HeadTailProperties DEF StoreEnd
  <2>3. pc' = "written" \/ (pc' = "load" /\ Len(todo) # 1)
    BY <1>6 DEF StoreEnd
  <2>4. pc' = "load" => todo' # <<>>
    BY <2>2, <2>3
  <2>5. rx' \in Fifo
    <3>1. Next16(reg) \in Index
      BY <1>1, Next16Type
    <3> QED BY <1>1, <1>6, <3>1, MoveType DEF StoreEnd
  <2>6. Callback'
    BY <2>2, <2>3, <2>4 DEF Callback, CallbackWrites
  <2>7. Packet'
    BY <1>6, <2>3 DEF TypeInv, Packet, StoreEnd, sender
  <2> QED BY <1>1, <1>6, <2>3, <2>5, <2>6, <2>7
          DEF TypeInv, Flags, Counters, Statements, StoreEnd, events, sender, link, sent
<1>7. CASE WriteDone
  BY <1>7 DEF TypeInv, Flags, Counters, Packet, Callback, CallbackWrites, Statements, WriteDone,
              Step, fifos, sender, link, sent, ghosts
<1> QED BY <1>3, <1>4, <1>5, <1>6, <1>7

LEMMA TypePhone ==
  ASSUME TypeInv, NEW n \in WriteLens, PhoneWrite(n)
  PROVE  TypeInv'
<1>1. PhoneBytes(n) \in Seq(Byte) /\ tx' \in Fifo /\ Length(tx') <= Size
  BY PhoneToTx
<1>2. todo' \in Seq(Byte)
  <2> HIDE DEF Byte
  <2>1. rx \in Fifo
    BY DEF TypeInv
  <2> QED BY <1>1, <2>1, AcceptedType DEF PhoneWrite
<1>3. pc' = "written" \/ (pc' = "load" /\ todo' # <<>>)
  BY DEF PhoneWrite
<1>4. Callback' /\ pc' \in Statements
  BY <1>2, <1>3 DEF Callback, CallbackWrites, Statements
<1>5. Packet'
  BY <1>3 DEF TypeInv, Packet, PhoneWrite, sender
<1>6. phoneSent' \in 0..MaxPhone
  <2>1. n \in Nat /\ phoneSent \in 0..MaxPhone /\ MaxPhone \in Nat
    BY PacketAssumption, BoundAssumption DEF TypeInv, Counters
  <2>2. phoneSent' = phoneSent + n /\ phoneSent + n <= MaxPhone
    BY DEF PhoneWrite
  <2> QED BY <2>1, <2>2
<1> QED BY <1>1, <1>4, <1>5, <1>6
        DEF TypeInv, Flags, Counters, PhoneWrite, events, sender, link

LEMMA TypeLink == TypeInv /\ (Expire \/ Connect \/ EnableNotify \/ Disconnect) => TypeInv'
<1> SUFFICES ASSUME TypeInv, Expire \/ Connect \/ EnableNotify \/ Disconnect PROVE TypeInv'
  OBVIOUS
<1>1. CASE Expire
  BY <1>1 DEF TypeInv, Flags, Counters, Packet, Callback, CallbackWrites, Expire, fifos, sender,
              link, thread, sent, ghosts
<1>2. CASE Connect
  BY <1>2 DEF TypeInv, Flags, Counters, Packet, Callback, CallbackWrites, Connect, fifos, events,
              sender, thread, sent, ghosts
<1>3. CASE EnableNotify
  BY <1>3 DEF TypeInv, Flags, Counters, Packet, Callback, CallbackWrites, EnableNotify, fifos,
              events, sender, thread, sent, ghosts
<1>4. CASE Disconnect
  BY <1>4 DEF TypeInv, Flags, Counters, Packet, Callback, CallbackWrites, Disconnect, fifos,
              events, sender, thread, sent, ghosts
<1> QED BY <1>1, <1>2, <1>3, <1>4

LEMMA TypeNext == TypeInv /\ [Next]_vars => TypeInv'
<1> SUFFICES ASSUME TypeInv, [Next]_vars PROVE TypeInv'
  OBVIOUS
<1>1. CASE Continue
  BY <1>1, TypeReader, TypeWriter DEF Continue
<1>2. CASE \E n \in WriteLens : PhoneWrite(n)
  BY <1>2, TypePhone
<1>3. CASE UNCHANGED vars
  BY <1>3, TypeUnchanged
<1>4. CASE UartByte \/ Process \/ SendEvent
  BY <1>4, TypeUartByte, TypeProcess, TypeSendEvent
<1>5. CASE Expire \/ Connect \/ EnableNotify \/ Disconnect
  BY <1>5, TypeLink
<1> QED BY <1>1, <1>2, <1>3, <1>4, <1>5 DEF Next

\* Every state of the bridge is one the code has names for: the indices stay within their
\* range, the buffers hold bytes, a packet is never longer than a notification and one that
\* is tried again is not empty, whatever the interrupt does meanwhile.
THEOREM UartTypeCorrect == Spec => []TypeOK
<1>1. Init => TypeInv
  BY InitType
<1>2. TypeInv /\ [Next]_vars => TypeInv'
  BY TypeNext
<1>3. TypeInv => TypeOK
  BY TypeInvIsTypeOK
<1> QED BY <1>1, <1>2, <1>3, PTL DEF Spec

-----------------------------------------------------------------------------
(* The order of both directions. *)

\* What follows the front of a sequence.
LEMMA RestOfConcat ==
  ASSUME NEW S, NEW s \in Seq(S), NEW w \in Seq(S)
  PROVE  SubSeq(s \o w, Len(s) + 1, Len(s \o w)) = w
<1>1. Len(s \o w) = Len(s) + Len(w) /\ Len(s) \in Nat /\ Len(w) \in Nat
  BY ConcatProperties
<1>2. CASE w = <<>>
  <2>1. s \o w = s /\ Len(w) = 0
    BY <1>2, ConcatEmptySeq
  <2>2. SubSeq(s, Len(s) + 1, Len(s)) = <<>>
    BY <1>1, SubSeqEmpty
  <2> QED BY <1>2, <2>1, <2>2
<1>3. CASE w # <<>>
  <2> DEFINE a == Len(s) + 1
             b == Len(s) + Len(w)
  <2>1. Len(w) >= 1
    BY <1>1, <1>3, EmptySeq
  <2>2. /\ a \in Len(s) + 1..Len(s) + Len(w) /\ b \in Len(s) + 1..Len(s) + Len(w)
        /\ a - Len(s) = 1 /\ b - Len(s) = Len(w)
    BY <1>1, <2>1
  <2>3. SubSeq(s \o w, a, b) = SubSeq(w, a - Len(s), b - Len(s))
    <3> HIDE DEF a, b
    <3> QED BY <2>2, SubSeqOfConcat2
  <2>4. SubSeq(w, 1, Len(w)) = w
    BY SubSeqFull
  <2> QED BY <1>1, <2>2, <2>3, <2>4
<1> QED BY <1>2, <1>3

\* A byte that goes from the front of the FIFO to the packet.
LEMMA MoveHead ==
  ASSUME NEW S, NEW s \in Seq(S), NEW w \in Seq(S), w # <<>>
  PROVE  Append(s, Head(w)) \o Tail(w) = s \o w
<1> DEFINE h == <<Head(w)>>
<1>1. Head(w) \in S /\ Tail(w) \in Seq(S) /\ h \in Seq(S)
  BY HeadTailProperties
<1>2. Append(s, Head(w)) = s \o h
  BY <1>1, AppendIsConcat
<1>3. (s \o h) \o Tail(w) = s \o (h \o Tail(w))
  <2> HIDE DEF h
  <2> QED BY <1>1, ConcatAssociative
<1>4. h \o Tail(w) = w
  <2>1. /\ h \o Tail(w) \in Seq(S) /\ Len(h \o Tail(w)) = 1 + Len(Tail(w)) /\ Len(h) = 1
        /\ \A i \in 1..1 + Len(Tail(w)) :
             (h \o Tail(w))[i] = IF i <= 1 THEN h[i] ELSE Tail(w)[i - 1]
    <3>1. Len(h) = 1
      OBVIOUS
    <3> DEFINE u == Tail(w)
    <3> HIDE DEF h, u
    <3>2. /\ h \o u \in Seq(S) /\ Len(h \o u) = Len(h) + Len(u)
          /\ \A i \in 1..Len(h) + Len(u) :
               (h \o u)[i] = IF i <= Len(h) THEN h[i] ELSE u[i - Len(h)]
      BY <1>1, ConcatProperties DEF u
    <3> QED BY <3>1, <3>2 DEF u
  <2>2. /\ Len(w) \in Nat /\ Len(Tail(w)) = Len(w) - 1 /\ Head(w) = w[1]
        /\ \A i \in 1..Len(Tail(w)) : Tail(w)[i] = w[i + 1]
    BY HeadTailProperties
  <2>3. ASSUME NEW i \in 1..Len(w) PROVE (h \o Tail(w))[i] = w[i]
    <3>1. CASE i = 1
      BY <2>1, <2>2, <3>1
    <3>2. CASE i # 1
      <4>1. i - 1 \in 1..Len(Tail(w)) /\ i \in 1..1 + Len(Tail(w)) /\ ~(i <= 1)
            /\ (i - 1) + 1 = i
        BY <2>2, <3>2
      <4>2. Tail(w)[i - 1] = w[i]
        BY <2>2, <4>1
      <4>3. (h \o Tail(w))[i] = Tail(w)[i - 1]
        <5> HIDE DEF h
        <5> QED BY <2>1, <4>1
      <4> QED BY <4>2, <4>3
    <3> QED BY <3>1, <3>2
  <2>4. Len(h \o Tail(w)) = Len(w)
    BY <2>1, <2>2
  <2> HIDE DEF h
  <2> QED BY <2>1, <2>3, <2>4, SeqEqual
<1> QED BY <1>2, <1>3, <1>4

LEMMA AppendBehind ==
  ASSUME NEW S, NEW s \in Seq(S), NEW w \in Seq(S), NEW x \in S
  PROVE  s \o Append(w, x) = Append(s \o w, x)
<1> DEFINE h == <<x>>
<1>1. h \in Seq(S) /\ s \o w \in Seq(S)
  BY ConcatProperties
<1>2. Append(w, x) = w \o h /\ Append(s \o w, x) = (s \o w) \o h
  BY <1>1, AppendIsConcat
<1>3. (s \o w) \o h = s \o (w \o h)
  <2> HIDE DEF h
  <2> QED BY <1>1, ConcatAssociative
<1> QED BY <1>2, <1>3

\* What waits in app_uart_tx_fifo is what the line is owed.
TxInv == Waiting(tx) = owedTx

\* What waits in app_uart_rx_fifo and is not in the packet yet: between the two accesses of
\* a read the first byte is in both.
Rest == IF pc = "pop" THEN Tail(Waiting(rx)) ELSE Waiting(rx)

\* Bytes stay in the packet only while it is read or after a failure.
PacketInv ==
  packet # <<>> => send_to_ble_state \in Failed \/ pc \in {"take", "pop", "notify"}

\* A flush begins with an empty packet and has set begin.
FlushInv == pc = "flush" => rx.begin = 0 /\ packet = <<>>

\* The bytes of the packet that are still to read are in the FIFO.
ReadInv ==
  /\ pc = "take" => reg - Len(packet) <= Length(rx)
  /\ pc = "pop" => reg - Len(packet) < Length(rx)

\* The bytes that are still to write have room, the register holds end, and what was put
\* lies where end points.
WriteInv ==
  /\ CallbackWrites => Length(rx) + Len(todo) <= Size
  /\ pc \in {"put", "store"} => reg = rx.end
  /\ pc \in {"increment", "store"} => rx.data[rx.end % Size] = Head(todo)

RxInv == Length(rx) <= Size /\ packet \o Rest = owed

\* A collision breaks the counts of bytes, and a flush the FIFO until it is over.
OrderInv ==
  /\ PacketInv /\ FlushInv
  /\ collided \/ (ReadInv /\ WriteInv)
  /\ collided \/ pc = "flush" \/ RxInv

LEMMA OrderInvIsOrder == TxInv /\ OrderInv => FifosKeepOrder
BY DEF TxInv, OrderInv, RxInv, Rest, FifosKeepOrder, UartToBle, BleToUart

LEMMA OrderInit == Init => TxInv /\ OrderInv
<1> SUFFICES ASSUME Init PROVE TxInv /\ OrderInv
  OBVIOUS
<1>1. /\ Waiting(rx) = <<>> /\ Waiting(tx) = <<>> /\ Length(rx) = 0
  BY UsedFifoIsEmpty, BoundAssumption DEF Init
<1>2. packet \o <<>> = <<>>
  <2>1. <<>> \in Seq(Cell)
    BY EmptySeq
  <2> QED BY <2>1, ConcatEmptySeq DEF Init
<1> QED BY <1>1, <1>2, Sizes
        DEF Init, TxInv, OrderInv, PacketInv, FlushInv, ReadInv, WriteInv, RxInv, Rest,
            CallbackWrites

LEMMA TxNext == TypeInv /\ TxInv /\ [Next]_vars => TxInv'
<1> SUFFICES ASSUME TypeInv, TxInv, [Next]_vars PROVE TxInv'
  OBVIOUS
<1>1. CASE SendByte
  <2>1. tx \in Fifo /\ Length(tx) # 0
    BY <1>1 DEF TypeInv, SendByte
  <2>2. Waiting(tx) # <<>> /\ Waiting(tx') = Tail(Waiting(tx))
    BY <1>1, <2>1, PopRemovesFirst DEF SendByte
  <2>3. Waiting(tx) \in Seq(Cell)
    BY <2>1, WaitingElements
  <2>4. Tail(Waiting(tx)) = SubSeq(Waiting(tx), 2, Len(Waiting(tx)))
    BY <2>2, <2>3, TailIsSubSeq
  <2> QED BY <1>1, <2>2, <2>4 DEF TxInv, SendByte
<1>2. CASE \E n \in WriteLens : PhoneWrite(n)
  <2>1. PICK n \in WriteLens : PhoneWrite(n)
    BY <1>2
  <2>2. Waiting(tx') = Waiting(tx) \o Accepted(tx, PhoneBytes(n))
    BY <2>1, PhoneToTx
  <2> QED BY <2>1, <2>2 DEF TxInv, PhoneWrite
<1>3. CASE UNCHANGED <<tx, owedTx>>
  BY <1>3 DEF TxInv
<1>4. [Next]_vars => SendByte \/ (\E n \in WriteLens : PhoneWrite(n)) \/ UNCHANGED <<tx, owedTx>>
  <2>1. UartByte \/ TestFlag \/ Drained \/ Expire \/ SendEvent => UNCHANGED <<tx, owedTx>>
    BY DEF UartByte, TestFlag, Drained, Expire, SendEvent, WaitForMore, ReadPacket, Retry,
           NotReady, Flush, fifos, ghosts
  <2>2. Continue => UNCHANGED <<tx, owedTx>>
    BY DEF Continue, TakeByte, PopByte, Notified, NotNotified, FlushEnd, LoadEnd, PutByte,
           ReloadEnd, StoreEnd, WriteDone, fifos, ghosts
  <2>3. Connect \/ EnableNotify \/ Disconnect \/ UNCHANGED vars => UNCHANGED <<tx, owedTx>>
    BY DEF Connect, EnableNotify, Disconnect, vars, fifos, ghosts
  <2> QED BY <2>1, <2>2, <2>3 DEF Next, Process
<1> QED BY <1>1, <1>2, <1>3, <1>4

\* A byte that is put where end points does not wait until end has moved.
LEMMA PutKeepsWaiting ==
  ASSUME NEW f \in Fifo, Length(f) < Size, NEW byte \in Cell
  PROVE  LET g == Put(f, f.end, byte)
         IN /\ g \in Fifo /\ Length(g) = Length(f) /\ Waiting(g) = Waiting(f)
            /\ g.end = f.end /\ g.data[g.end % Size] = byte
<1> DEFINE g == Put(f, f.end, byte)
<1>1. /\ f.begin \in Int /\ f.end \in Int /\ Length(f) \in Nat /\ Size \in Nat \ {0}
  BY LengthType, Sizes DEF Index
<1>2. /\ g \in Fifo /\ g.begin = f.begin /\ g.end = f.end /\ g.data[f.end % Size] = byte
      /\ \A a \in Offset : a # f.end % Size => g.data[a] = f.data[a]
  BY <1>1, PutType
<1> HIDE DEF g
<1>3. Length(g) = Length(f)
  BY <1>2 DEF Length
<1>4. ASSUME NEW i \in 1..Length(f)
      PROVE  g.data[(f.begin + i - 1) % Size] = f.data[(f.begin + i - 1) % Size]
  <2> DEFINE x == f.begin + i - 1
  <2>1. x % Size # f.end % Size
    BY EndIsFree
  <2>2. x \in Int
    BY <1>1
  <2> HIDE DEF x
  <2>3. x % Size \in Offset
    BY <1>1, <2>2, ModForm DEF Offset
  <2>4. g.data[x % Size] = f.data[x % Size]
    BY <1>2, <2>1, <2>3
  <2> QED BY <2>4 DEF x
<1>5. Waiting(g) = Waiting(f)
  BY <1>2, <1>3, <1>4 DEF Waiting
<1> QED BY <1>2, <1>3, <1>5 DEF g

\* What the proofs of the steps need to know of the types.
LEMMA Types ==
  ASSUME TypeInv
  PROVE  /\ rx \in Fifo /\ Length(rx) \in Nat /\ Waiting(rx) \in Seq(Cell)
         /\ Len(Waiting(rx)) = Length(rx)
         /\ packet \in Seq(Cell) /\ Len(packet) \in Nat
         /\ todo \in Seq(Byte) /\ Len(todo) \in Nat
         /\ reg \in Nat /\ Size \in Nat \ {0}
BY LengthType, WaitingElements, Sizes DEF TypeInv, Packet, Callback, Index

\* Statements outside the read, the flush and the write.
LEMMA OrderOutside ==
  ASSUME TypeInv, OrderInv, UNCHANGED <<rx, owed, packet, collided>>,
         pc \notin {"flush", "pop"}, pc' \in {"idle", "drain", "written", "notify"}, PacketInv'
  PROVE  OrderInv'
BY DEF OrderInv, FlushInv, ReadInv, WriteInv, RxInv, Rest, CallbackWrites

LEMMA OrderSame ==
  OrderInv /\ UNCHANGED <<rx, owed, packet, collided, send_to_ble_state, thread>> => OrderInv'
BY DEF OrderInv, PacketInv, FlushInv, ReadInv, WriteInv, RxInv, Rest, CallbackWrites, thread

LEMMA OrderUartByte ==
  ASSUME TypeInv, OrderInv, UartByte
  PROVE  OrderInv'
<1>1. /\ rx \in Fifo /\ Length(rx) \in Nat /\ Waiting(rx) \in Seq(Cell)
      /\ Len(Waiting(rx)) = Length(rx) /\ packet \in Seq(Cell) /\ Size \in Nat \ {0}
  BY Types
<1>2. uartSent' \in Byte /\ uartSent' \in Cell
  <2>1. uartSent \in 0..MaxUart /\ uartSent < MaxUart /\ uartSent' = uartSent + 1
    BY DEF TypeInv, Counters, UartByte
  <2>2. uartSent' \in 1..MaxUart
    BY <2>1, BoundAssumption
  <2> QED BY <2>2, ByteType DEF Cell
<1>3. UNCHANGED <<thread, packet, send_to_ble_state>> /\ pc' = pc /\ reg' = reg
      /\ collided' = (collided \/ CallbackWrites)
  BY DEF UartByte, sender, thread
<1>4. rx'.begin = rx.begin
  <2>1. rx' = rx \/ rx' = Push(rx, uartSent')
    BY DEF UartByte
  <2>2. Push(rx, uartSent').begin = rx.begin
    <3>1. rx.end \in Int
      BY <1>1, LengthType DEF Index
    <3>2. Put(rx, rx.end, uartSent') \in Fifo /\ Put(rx, rx.end, uartSent').begin = rx.begin
      BY <1>1, <1>2, <3>1, PutType
    <3> QED BY <3>2 DEF Push, Fifo
  <2> QED BY <2>1, <2>2
<1>5. PacketInv' /\ FlushInv'
  BY <1>3, <1>4 DEF OrderInv, PacketInv, FlushInv
<1>6. CASE collided'
  BY <1>5, <1>6 DEF OrderInv
<1>7. CASE pc = "flush"
  BY <1>3, <1>5, <1>7 DEF OrderInv, ReadInv, WriteInv, CallbackWrites
<1>8. CASE ~collided' /\ pc # "flush"
  <2>1. ~collided /\ ~CallbackWrites /\ ReadInv /\ RxInv
    BY <1>3, <1>8 DEF OrderInv
  <2>2. Length(rx) <= Size /\ Available(rx) = Size - Length(rx)
    BY <1>1, <2>1, AvailableIs DEF RxInv
  <2>3. WriteInv'
    BY <1>3, <2>1 DEF WriteInv, CallbackWrites
  <2>4. CASE Available(rx) = 0
    <3>1. UNCHANGED <<rx, owed>>
      BY <2>4 DEF UartByte
    <3> QED BY <1>3, <1>5, <2>1, <2>3, <3>1 DEF OrderInv, ReadInv, RxInv, Rest
  <2>5. CASE Available(rx) # 0
    <3>1. rx' = Push(rx, uartSent') /\ owed' = Append(owed, uartSent')
      BY <2>5 DEF UartByte
    <3>2. Length(rx) < Size
      BY <1>1, <2>2, <2>5
    <3>3. Length(rx') = Length(rx) + 1 /\ Waiting(rx') = Append(Waiting(rx), uartSent')
      BY <1>1, <1>2, <3>1, <3>2, PushAppends
    <3>4. ReadInv'
      <4>1. reg \in Nat /\ Len(packet) \in Nat /\ packet' = packet
        BY <1>3, Types
      <4> QED BY <1>1, <1>3, <2>1, <3>3, <4>1 DEF ReadInv
    <3>5. Rest \in Seq(Cell) /\ Rest' = Append(Rest, uartSent')
      <4>1. CASE pc = "pop"
        <5>1. Waiting(rx) # <<>>
          <6>1. reg - Len(packet) >= 0
            BY <4>1, Types DEF TypeInv, Packet
          <6>2. Length(rx) # 0
            BY <2>1, <4>1, <6>1, Types DEF ReadInv
          <6> QED BY <1>1, <6>2
        <5>2. Tail(Waiting(rx)) \in Seq(Cell)
          BY <1>1, <5>1, HeadTailProperties
        <5>3. Tail(Append(Waiting(rx), uartSent')) = Append(Tail(Waiting(rx)), uartSent')
          BY <1>1, <5>1, HeadTailAppend
        <5> QED BY <1>3, <3>3, <4>1, <5>2, <5>3 DEF Rest
      <4>2. CASE pc # "pop"
        BY <1>1, <1>3, <3>3, <4>2 DEF Rest
      <4> QED BY <4>1, <4>2
    <3>6. packet \o Append(Rest, uartSent') = Append(packet \o Rest, uartSent')
      BY <1>1, <1>2, <3>5, AppendBehind
    <3>7. RxInv'
      <4>1. Length(rx') <= Size
        BY <1>1, <3>2, <3>3
      <4>2. packet' \o Rest' = owed'
        BY <1>3, <2>1, <3>1, <3>5, <3>6 DEF RxInv
      <4> QED BY <4>1, <4>2 DEF RxInv
    <3> QED BY <1>5, <2>3, <3>4, <3>7 DEF OrderInv
  <2> QED BY <2>4, <2>5
<1> QED BY <1>6, <1>7, <1>8

LEMMA OrderReadPacket ==
  ASSUME TypeInv, OrderInv, ReadPacket
  PROVE  OrderInv'
<1>1. packet = <<>> /\ packet' = <<>> /\ pc = "idle" /\ UNCHANGED <<rx, owed, collided>>
  BY DEF OrderInv, PacketInv, ReadPacket, Serve, Failed, fifos, ghosts
<1>2. Length(rx) \in Nat /\ MtuData \in Nat /\ Len(packet') = 0
  <2>1. <<>> \in Seq(Cell) /\ Len(<<>>) = 0
    BY EmptySeq
  <2> QED BY <1>1, <2>1, Types, PacketAssumption, Sizes
<1>3. pc' \in {"idle", "take"}
  BY DEF ReadPacket
<1>4. reg' \in Nat /\ reg' <= Length(rx)
  <2>1. reg' = IF Length(rx) < MtuData THEN Length(rx) ELSE MtuData
    BY DEF ReadPacket
  <2> QED BY <1>2, <2>1
<1>5. ReadInv'
  BY <1>1, <1>2, <1>3, <1>4 DEF ReadInv
<1>6. WriteInv' /\ FlushInv' /\ PacketInv'
  BY <1>1, <1>3 DEF WriteInv, CallbackWrites, FlushInv, PacketInv
<1>7. RxInv => RxInv'
  BY <1>1, <1>3 DEF RxInv, Rest
<1> QED BY <1>1, <1>5, <1>6, <1>7 DEF OrderInv

LEMMA OrderTakeByte ==
  ASSUME TypeInv, OrderInv, TakeByte
  PROVE  OrderInv'
<1>1. /\ pc = "take" /\ pc' = "pop" /\ packet' = Append(packet, First(rx))
      /\ UNCHANGED <<rx, owed, collided, reg>>
  BY DEF TakeByte, Step, fifos, ghosts
<1>2. PacketInv' /\ FlushInv' /\ WriteInv'
  BY <1>1 DEF PacketInv, FlushInv, WriteInv, CallbackWrites
<1>3. CASE collided
  BY <1>1, <1>2, <1>3 DEF OrderInv
<1>4. CASE ~collided
  <2>1. ReadInv /\ RxInv
    BY <1>1, <1>4 DEF OrderInv
  <2>2. reg \in Nat /\ Len(packet) \in Nat /\ Len(packet) < reg
    BY <1>1, Types DEF TypeInv, Packet
  <2>3. Length(rx) \in Nat /\ reg - Len(packet) <= Length(rx)
    BY <1>1, <2>1, Types DEF ReadInv
  <2>4. rx \in Fifo /\ Length(rx) # 0
    BY <2>2, <2>3, Types
  <2>5. /\ Waiting(rx) \in Seq(Cell) /\ Waiting(rx) # <<>> /\ First(rx) = Head(Waiting(rx))
        /\ packet \in Seq(Cell)
    BY <2>4, Types, PopRemovesFirst
  <2>6. Append(packet, First(rx)) \o Tail(Waiting(rx)) = packet \o Waiting(rx)
    BY <2>5, MoveHead
  <2>7. RxInv'
    BY <1>1, <2>1, <2>6 DEF RxInv, Rest
  <2>8. ReadInv'
    <3>1. Len(packet') = Len(packet) + 1
      <4>1. First(rx) \in Cell
        BY <2>5, HeadTailProperties
      <4> QED BY <1>1, <2>5, <4>1, AppendProperties
    <3> QED BY <1>1, <2>2, <2>3, <3>1 DEF ReadInv
  <2> QED BY <1>2, <2>7, <2>8 DEF OrderInv
<1> QED BY <1>3, <1>4

LEMMA OrderPopByte ==
  ASSUME TypeInv, OrderInv, PopByte
  PROVE  OrderInv'
<1>1. /\ pc = "pop" /\ rx' = [rx EXCEPT !.begin = Next16(@)]
      /\ UNCHANGED <<owed, collided, packet, send_to_ble_state>>
      /\ \/ pc' = "notify" /\ Len(packet) = reg
         \/ pc' = "take" /\ reg' = reg
  BY DEF PopByte, sender, ghosts
<1>2. PacketInv' /\ FlushInv' /\ WriteInv'
  BY <1>1 DEF PacketInv, FlushInv, WriteInv, CallbackWrites
<1>3. CASE collided
  BY <1>1, <1>2, <1>3 DEF OrderInv
<1>4. CASE ~collided
  <2>1. ReadInv /\ RxInv
    BY <1>1, <1>4 DEF OrderInv
  <2>2. reg \in Nat /\ Len(packet) \in Nat /\ Len(packet) <= reg
    BY <1>1, Types DEF TypeInv, Packet
  <2>3. Length(rx) \in Nat /\ reg - Len(packet) < Length(rx) /\ Length(rx) <= Size
    BY <1>1, <2>1, Types DEF ReadInv, RxInv
  <2>4. rx \in Fifo /\ Length(rx) # 0
    BY <2>2, <2>3, Types
  <2>5. Length(rx') = Length(rx) - 1 /\ Waiting(rx') = Tail(Waiting(rx))
    BY <1>1, <2>4, PopRemovesFirst
  <2>6. RxInv'
    <3>1. Length(rx') <= Size
      BY <2>3, <2>5, Sizes
    <3>2. Rest' = Rest
      BY <1>1, <2>5 DEF Rest
    <3> QED BY <1>1, <2>1, <3>1, <3>2 DEF RxInv
  <2>7. ReadInv'
    BY <1>1, <2>2, <2>3, <2>5 DEF ReadInv
  <2> QED BY <1>2, <2>6, <2>7 DEF OrderInv
<1> QED BY <1>3, <1>4

LEMMA OrderNotified ==
  ASSUME TypeInv, OrderInv, Notified
  PROVE  OrderInv'
<1>1. /\ pc = "notify" /\ pc' = "idle" /\ packet' = <<>>
      /\ owed' = SubSeq(owed, Len(packet) + 1, Len(owed))
      /\ UNCHANGED <<rx, collided>>
  BY DEF Notified, Step, fifos
<1>2. PacketInv' /\ FlushInv' /\ WriteInv' /\ ReadInv'
  BY <1>1 DEF PacketInv, FlushInv, WriteInv, ReadInv, CallbackWrites
<1>3. ~collided => RxInv'
  <2> SUFFICES ASSUME ~collided PROVE RxInv'
    OBVIOUS
  <2>1. Length(rx) <= Size /\ packet \o Waiting(rx) = owed
    BY <1>1 DEF OrderInv, RxInv, Rest
  <2>2. packet \in Seq(Cell) /\ Waiting(rx) \in Seq(Cell)
    BY Types
  <2>3. owed' = Waiting(rx)
    BY <1>1, <2>1, <2>2, RestOfConcat
  <2>4. <<>> \o Waiting(rx) = Waiting(rx)
    BY <2>2, ConcatEmptySeq
  <2> QED BY <1>1, <2>1, <2>3, <2>4 DEF RxInv, Rest
<1> QED BY <1>1, <1>2, <1>3 DEF OrderInv

LEMMA OrderFlush ==
  ASSUME TypeInv, OrderInv, Flush \/ FlushEnd
  PROVE  OrderInv'
<1>1. CASE Flush
  <2>1. packet = <<>> /\ packet' = packet /\ pc' = "flush"
    BY <1>1 DEF OrderInv, PacketInv, Flush, Serve, Failed, sender
  <2>2. rx'.begin = 0
    BY <1>1 DEF Flush, TypeInv, Fifo
  <2> QED BY <2>1, <2>2 DEF OrderInv, PacketInv, FlushInv, ReadInv, WriteInv, CallbackWrites
<1>2. CASE FlushEnd
  <2>1. /\ pc = "flush" /\ pc' = "idle" /\ packet = <<>> /\ packet' = packet
        /\ rx.begin = 0 /\ rx' = [rx EXCEPT !.end = 0] /\ owed' = <<>>
    BY <1>2 DEF OrderInv, FlushInv, FlushEnd, Step, sender
  <2>2. rx' \in Fifo /\ rx'.begin = 0 /\ rx'.end = 0
    <3>1. rx' \in Fifo
      BY <1>2, TypeReader DEF TypeInv
    <3> QED BY <2>1, <3>1 DEF TypeInv, Fifo
  <2>3. Length(rx') = 0
    <3>1. 0 \in 0..IndexMod - 1 /\ rx'.end - rx'.begin = 0
      BY <2>2, Sizes
    <3>2. 0 % IndexMod = 0
      BY <3>1, Sizes, SmallMod
    <3> QED BY <3>1, <3>2 DEF Length
  <2>4. Waiting(rx') = <<>>
    BY <2>2, <2>3, WaitingElements, EmptySeq
  <2>5. <<>> \o <<>> = <<>>
    <3>1. <<>> \in Seq(Cell)
      BY EmptySeq
    <3> QED BY <3>1, ConcatEmptySeq
  <2>6. RxInv'
    BY <2>1, <2>3, <2>4, <2>5, Sizes DEF RxInv, Rest
  <2> QED BY <2>1, <2>6 DEF OrderInv, PacketInv, FlushInv, ReadInv, WriteInv, CallbackWrites
<1> QED BY <1>1, <1>2

LEMMA OrderPhone ==
  ASSUME TypeInv, OrderInv, NEW n \in WriteLens, PhoneWrite(n)
  PROVE  OrderInv'
<1>1. /\ pc = "idle" /\ pc' \in {"written", "load"}
      /\ todo' = Accepted(rx, PhoneBytes(n))
      /\ UNCHANGED <<rx, owed, packet, collided, send_to_ble_state>>
  BY DEF PhoneWrite, sender
<1>2. PacketInv' /\ FlushInv' /\ ReadInv'
  BY <1>1 DEF OrderInv, PacketInv, FlushInv, ReadInv
<1>3. RxInv => RxInv'
  BY <1>1 DEF RxInv, Rest
<1>4. RxInv => WriteInv'
  <2> SUFFICES ASSUME RxInv PROVE WriteInv'
    OBVIOUS
  <2>1. rx \in Fifo /\ Length(rx) \in Nat /\ Length(rx) <= Size /\ Size \in Nat
    BY Types DEF RxInv
  <2>2. PhoneBytes(n) \in Seq(Byte)
    BY PhoneToTx
  <2>3. todo' \in Seq(Byte) /\ Len(todo') <= Available(rx)
    <3> HIDE DEF Byte
    <3> QED BY <1>1, <2>1, <2>2, AcceptedType
  <2>4. Available(rx) = Size - Length(rx)
    BY <2>1, AvailableIs
  <2>5. Length(rx') + Len(todo') <= Size
    BY <1>1, <2>1, <2>3, <2>4
  <2> QED BY <1>1, <2>5 DEF WriteInv
<1> QED BY <1>1, <1>2, <1>3, <1>4 DEF OrderInv

LEMMA OrderWriter ==
  ASSUME TypeInv, OrderInv, LoadEnd \/ PutByte \/ ReloadEnd \/ StoreEnd
  PROVE  OrderInv'
<1>1. /\ CallbackWrites /\ pc \notin {"flush", "pop"}
      /\ UNCHANGED <<packet, collided, send_to_ble_state>>
  BY DEF CallbackWrites, LoadEnd, PutByte, ReloadEnd, StoreEnd, Step, sender, ghosts
<1>2. pc' \in {"load", "put", "increment", "store", "written"}
  BY DEF LoadEnd, PutByte, ReloadEnd, StoreEnd, Step
<1>3. PacketInv' /\ FlushInv' /\ ReadInv'
  BY <1>1, <1>2 DEF OrderInv, PacketInv, FlushInv, ReadInv, CallbackWrites
<1>4. CASE collided
  BY <1>1, <1>3, <1>4 DEF OrderInv
<1>5. CASE ~collided
  <2>1. WriteInv /\ RxInv
    BY <1>1, <1>5 DEF OrderInv
  <2>2. /\ rx \in Fifo /\ Length(rx) \in Nat /\ Size \in Nat /\ Waiting(rx) \in Seq(Cell)
        /\ packet \in Seq(Cell) /\ todo \in Seq(Byte) /\ Len(todo) \in Nat /\ todo # <<>>
    BY <1>1, Types DEF TypeInv, Callback
  <2>3. Head(todo) \in Byte /\ Head(todo) \in Cell /\ Len(Tail(todo)) = Len(todo) - 1
        /\ Len(todo) >= 1
    <3>1. Head(todo) \in Byte /\ Len(Tail(todo)) = Len(todo) - 1 /\ Len(todo) >= 1
      <4> HIDE DEF Byte
      <4> QED BY <2>2, HeadTailProperties, EmptySeq
    <3> QED BY <3>1 DEF Cell
  <2>4. Length(rx) + Len(todo) <= Size /\ Length(rx) < Size
    BY <1>1, <2>1, <2>2, <2>3 DEF WriteInv
  <2>5. CASE LoadEnd
    <3>1. /\ UNCHANGED <<rx, owed, todo>> /\ pc' = "put" /\ reg' = rx.end
      BY <2>5 DEF LoadEnd, Step, fifos, ghosts
    <3>2. WriteInv' /\ RxInv'
      BY <1>1, <2>1, <2>4, <3>1 DEF WriteInv, RxInv, Rest
    <3> QED BY <1>3, <3>2 DEF OrderInv
  <2>6. CASE PutByte
    <3>1. /\ UNCHANGED <<owed, todo>> /\ pc = "put" /\ pc' = "increment"
          /\ rx' = Put(rx, reg, Head(todo))
      BY <2>6 DEF PutByte, Step, ghosts
    <3>2. reg = rx.end
      BY <2>1, <3>1 DEF WriteInv
    <3>3. /\ Length(rx') = Length(rx) /\ Waiting(rx') = Waiting(rx)
          /\ rx'.end = rx.end /\ rx'.data[rx'.end % Size] = Head(todo)
      BY <2>2, <2>3, <2>4, <3>1, <3>2, PutKeepsWaiting
    <3>4. WriteInv' /\ RxInv'
      BY <1>1, <2>1, <2>4, <3>1, <3>3 DEF WriteInv, RxInv, Rest
    <3> QED BY <1>3, <3>4 DEF OrderInv
  <2>7. CASE ReloadEnd
    <3>1. /\ UNCHANGED <<rx, owed, todo>> /\ pc = "increment" /\ pc' = "store" /\ reg' = rx.end
      BY <2>7 DEF ReloadEnd, Step, fifos, ghosts
    <3>2. WriteInv' /\ RxInv'
      BY <1>1, <2>1, <2>4, <3>1 DEF WriteInv, RxInv, Rest
    <3> QED BY <1>3, <3>2 DEF OrderInv
  <2>8. CASE StoreEnd
    <3>1. /\ pc = "store" /\ pc' \in {"written", "load"}
          /\ rx' = [rx EXCEPT !.end = Next16(reg)]
          /\ owed' = Append(owed, Head(todo)) /\ todo' = Tail(todo)
      BY <2>8 DEF StoreEnd
    <3>2. reg = rx.end /\ rx.data[rx.end % Size] = Head(todo)
      BY <2>1, <3>1 DEF WriteInv
    <3>3. rx' \in Fifo
      BY <2>8, TypeWriter DEF TypeInv
    <3>4. rx'.begin = rx.begin /\ rx'.end = Next16(rx.end) /\ rx'.data = rx.data
      BY <2>2, <3>1, <3>2 DEF Fifo
    <3>5. Length(rx') = Length(rx) + 1 /\ Waiting(rx') = Append(Waiting(rx), Head(todo))
      BY <2>2, <2>3, <2>4, <3>2, <3>3, <3>4, GrowByOne
    <3>6. packet \o Append(Waiting(rx), Head(todo)) = Append(packet \o Waiting(rx), Head(todo))
      BY <2>2, <2>3, AppendBehind
    <3>7. RxInv'
      <4>1. Length(rx') <= Size
        BY <2>2, <2>4, <3>5
      <4>2. packet \o Waiting(rx) = owed
        BY <2>1, <3>1 DEF RxInv, Rest
      <4> QED BY <1>1, <3>1, <3>5, <3>6, <4>1, <4>2 DEF RxInv, Rest
    <3>8. WriteInv'
      <4>1. Length(rx') + Len(todo') <= Size
        BY <2>2, <2>3, <2>4, <3>1, <3>5
      <4> QED BY <3>1, <4>1 DEF WriteInv
    <3> QED BY <1>3, <3>7, <3>8 DEF OrderInv
  <2> QED BY <2>5, <2>6, <2>7, <2>8
<1> QED BY <1>4, <1>5

LEMMA OrderNext == TypeInv /\ OrderInv /\ [Next]_vars => OrderInv'
<1> SUFFICES ASSUME TypeInv, OrderInv, [Next]_vars PROVE OrderInv'
  OBVIOUS
<1>1. CASE UartByte
  BY <1>1, OrderUartByte
<1>2. CASE \E n \in WriteLens : PhoneWrite(n)
  BY <1>2, OrderPhone
<1>3. CASE SendByte \/ Expire \/ WaitForMore \/ NotReady \/ Connect \/ EnableNotify \/ Disconnect
           \/ UNCHANGED vars
  <2>1. UNCHANGED <<rx, owed, packet, collided, send_to_ble_state, thread>>
    BY <1>3 DEF SendByte, Expire, WaitForMore, NotReady, Connect, EnableNotify, Disconnect, vars,
                fifos, sender, thread, ghosts
  <2> QED BY <2>1, OrderSame
<1>4. CASE TestFlag \/ Drained \/ Retry \/ NotNotified \/ WriteDone
  <2>1. /\ UNCHANGED <<rx, owed, packet, collided>>
        /\ pc \notin {"flush", "pop"} /\ pc' \in {"idle", "drain", "written", "notify"}
    BY <1>4 DEF TestFlag, Drained, Retry, Serve, NotNotified, WriteDone, Step, fifos, sender,
                ghosts
  <2>2. PacketInv'
    <3>1. CASE TestFlag \/ Drained \/ WriteDone
      BY <3>1 DEF TestFlag, Drained, WriteDone, Step, sender, OrderInv, PacketInv
    <3>2. CASE Retry \/ NotNotified
      BY <3>2 DEF Retry, NotNotified, sender, PacketInv
    <3> QED BY <1>4, <3>1, <3>2
  <2> QED BY <2>1, <2>2, OrderOutside
<1>5. CASE ReadPacket \/ TakeByte \/ PopByte \/ Notified
  BY <1>5, OrderReadPacket, OrderTakeByte, OrderPopByte, OrderNotified
<1>6. CASE Flush \/ FlushEnd
  BY <1>6, OrderFlush
<1>7. CASE LoadEnd \/ PutByte \/ ReloadEnd \/ StoreEnd
  BY <1>7, OrderWriter
<1> QED BY <1>1, <1>2, <1>3, <1>4, <1>5, <1>6, <1>7 DEF Next, Process, SendEvent, Continue

\* No byte of either direction is lost, repeated or overtaken: through every interleaving of
\* the interrupt with the reader of app_uart_rx_fifo, through failed notifications, lost
\* connections and indices that wrap.  Only an interrupt that pushes between the accesses of
\* the other producer breaks the order of the bytes for the phone.
THEOREM UartFifosKeepOrder == Spec => []FifosKeepOrder
<1>1. Init => TypeInv /\ TxInv /\ OrderInv
  BY InitType, OrderInit
<1>2. (TypeInv /\ TxInv /\ OrderInv) /\ [Next]_vars => (TypeInv /\ TxInv /\ OrderInv)'
  BY TypeNext, TxNext, OrderNext
<1>3. TypeInv /\ TxInv /\ OrderInv => FifosKeepOrder
  BY OrderInvIsOrder
<1> QED BY <1>1, <1>2, <1>3, PTL DEF Spec
=============================================================================

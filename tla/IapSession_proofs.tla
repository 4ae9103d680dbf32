-------------------------- MODULE IapSession_proofs --------------------------
(***************************************************************************)
(* The command session keeps SessionInv, for images and chunks of any size, *)
(* any number of dropped links, failing erases and wrong replies: with it    *)
(* END commits exactly what the host sent.  The programs that keep this      *)
(* session cite one lemma for each of its steps.                            *)
(*                                                                          *)
(* VerifyInv is what END rests on.  EraseInv is needed for it: the scheduler *)
(* serves an erase event between two commands, and a download has at least   *)
(* as many commands as the image has blocks, so the erase of an ERASE whose  *)
(* reply the host mistook is over when the first VERIFY comes.               *)
(*                                                                          *)
(* DownloadInv, in the last part, adds where the data of a download is that *)
(* began with an empty buffer: nothing of it is missing, and it verifies.   *)
(***************************************************************************)
EXTENDS IapSession, SequenceTheorems, TLAPS

USE SizeAssumption, VersionAssumption, PageAssumption

Unit == Versions \X (0..ImageUnits - 1)

\* The pages of the units before n hold what the host compares them with.
MatchesBefore(n) ==
  \A k \in 0..n - 1 :
    LET addr == k \div PageUnits IN image[addr \div Pages][addr % Pages] = want

HostInv ==
  /\ host \notin {"prom", "verify"} => hostPos = 0
  /\ host \in {"idle", "end"} => ~waiting

\* An erase that goes on while data is sent erases a block for each chunk.
EraseInv ==
  /\ eraseEvt => EraseBlockCnt < EraseBlockNum
  /\ eraseEvt /\ host = "erase" /\ waiting =>
       /\ evtServed => EraseBlockCnt >= 1
       /\ EraseBlockNum <= Blocks + 1 \/ reply = "err"
  /\ eraseEvt /\ host = "prom" =>
       /\ hostPos <= Chunk * EraseBlockCnt
       /\ evtServed => hostPos + Chunk <= Chunk * EraseBlockCnt
       /\ EraseBlockNum <= Blocks + 1
  /\ eraseEvt /\ host = "verify" =>
       /\ EraseBlockCnt >= Blocks /\ EraseBlockNum <= Blocks + 1
       /\ ~evtServed /\ ~waiting /\ hostPos = 0
  /\ host = "end" => ~eraseEvt

VerifyInv ==
  /\ host = "verify" =>
       /\ hostPos > 0 => block_buf = <<>>
       /\ waiting /\ reply = "ok" => VerifyStatus = "ok"
       /\ VerifyStatus = "ok" => MatchesBefore(hostPos)
  /\ host = "end" => image = Complete(want)

SessionInv == image \in Image /\ SessionTypeOK /\ HostInv /\ EraseInv /\ VerifyInv

LEMMA SessionInvCommits == SessionInv => CommitsWhatWasSent
BY DEF SessionInv, VerifyInv, CommitsWhatWasSent

-----------------------------------------------------------------------------
(* Sizes. *)

LEMMA PageCount == AllPages \in Nat \ {0} /\ AllPages >= Blocks
<1>1. Blocks \in Nat \ {0} /\ Pages \in Nat \ {0}
  OBVIOUS
<1>2. Blocks * Pages \in Nat \ {0} /\ Blocks * Pages >= Blocks
  BY <1>1
<1> QED BY <1>2 DEF AllPages

LEMMA UnitCount ==
  /\ PageUnits \in Nat /\ Chunk \in Nat \ {0} /\ Chunk < PageUnits
  /\ ImageUnits \in Nat \ {0} /\ ImageUnits > (AllPages - 1) * PageUnits
  /\ ImageUnits <= AllPages * PageUnits
<1>1. PageUnits \in Nat /\ Chunk \in Nat \ {0} /\ Chunk < PageUnits
  BY UnitAssumption
<1>2. AllPages \in Nat \ {0}
  BY PageCount
<1>3. (AllPages - 1) * PageUnits \in Nat /\ AllPages * PageUnits \in Nat
  BY <1>1, <1>2
<1>4. ImageUnits \in (AllPages - 1) * PageUnits + 1 .. AllPages * PageUnits
  BY ImageAssumption
<1> QED BY <1>1, <1>3, <1>4

LEMMA TimesMonotonic ==
  ASSUME NEW a \in Nat, NEW b \in Nat, NEW c \in Nat, a <= b PROVE a * c <= b * c
OBVIOUS

LEMMA ChunksCoverBlocks ==
  ASSUME NEW c \in Nat, ImageUnits <= Chunk * c
  PROVE  c >= AllPages
<1>1. PageUnits \in Nat /\ Chunk \in Nat /\ Chunk <= PageUnits /\ AllPages \in Nat \ {0}
      /\ ImageUnits \in Nat /\ ImageUnits > (AllPages - 1) * PageUnits
  BY UnitCount, PageCount
<1>2. SUFFICES ASSUME c < AllPages PROVE FALSE
  BY <1>1
<1>3. c <= AllPages - 1 /\ AllPages - 1 \in Nat
  BY <1>1, <1>2
<1>4. Chunk * c <= PageUnits * c
  BY <1>1, TimesMonotonic
<1>5. c * PageUnits <= (AllPages - 1) * PageUnits
  BY <1>1, <1>3, TimesMonotonic
<1>6. Chunk * c \in Nat /\ PageUnits * c \in Nat /\ PageUnits * c = c * PageUnits
      /\ (AllPages - 1) * PageUnits \in Nat
  BY <1>1, <1>3
<1> QED BY <1>1, <1>4, <1>5, <1>6

LEMMA ChunksCoverMore ==
  ASSUME NEW c \in Nat, ImageUnits + Chunk <= Chunk * c
  PROVE  c >= AllPages + 1
<1>1. Chunk \in Nat \ {0} /\ ImageUnits \in Nat \ {0} /\ AllPages \in Nat
  BY UnitCount, PageCount
<1>2. c # 0
  BY <1>1
<1>3. c - 1 \in Nat /\ Chunk * (c - 1) = Chunk * c - Chunk
  BY <1>1, <1>2
<1>4. Chunk * c \in Nat
  BY <1>1
<1>5. ImageUnits <= Chunk * (c - 1)
  BY <1>1, <1>3, <1>4
<1>6. c - 1 >= AllPages
  BY <1>3, <1>5, ChunksCoverBlocks
<1> QED BY <1>1, <1>6

LEMMA DivModRange ==
  ASSUME NEW B \in Nat \ {0}, NEW P \in Nat \ {0}, NEW a \in 0..B * P - 1
  PROVE  a \div P \in 0..B - 1 /\ a % P \in 0..P - 1
OBVIOUS

LEMMA DivModUnique ==
  ASSUME NEW P \in Nat \ {0}, NEW b \in Nat, NEW p \in 0..P - 1
  PROVE  (b * P + p) \div P = b /\ (b * P + p) % P = p
OBVIOUS

LEMMA AddrRange ==
  ASSUME NEW addr \in 0..AllPages - 1
  PROVE  addr \div Pages \in BlockIx /\ addr % Pages \in PageIx
BY DivModRange DEF AllPages, BlockIx, PageIx

\* An image all of whose units match is complete.
LEMMA AllMatch ==
  ASSUME image \in Image, want \in Versions, MatchesBefore(ImageUnits)
  PROVE  image = Complete(want)
<1>1. ASSUME NEW b \in BlockIx, NEW p \in PageIx PROVE image[b][p] = want
  <2> DEFINE a == b * Pages + p
  <2>1. b \in Nat /\ p \in Nat /\ p <= Pages - 1 /\ b <= Blocks - 1 /\ Pages \in Nat \ {0} /\ Blocks \in Nat \ {0}
    BY DEF BlockIx, PageIx
  <2>2. a \in Nat /\ a <= AllPages - 1
    <3>1. b * Pages <= (Blocks - 1) * Pages
      BY <2>1, TimesMonotonic
    <3>2. b * Pages \in Nat /\ (Blocks - 1) * Pages = Blocks * Pages - Pages /\ Blocks * Pages \in Nat
      BY <2>1
    <3> QED BY <2>1, <3>1, <3>2 DEF AllPages
  <2>3. a \div Pages = b /\ a % Pages = p
    BY <2>1, DivModUnique DEF PageIx
  <2> HIDE DEF a
  <2>4. PageUnits \in Nat \ {0} /\ AllPages \in Nat \ {0} /\ ImageUnits \in Nat
        /\ ImageUnits > (AllPages - 1) * PageUnits
    BY UnitCount, PageCount
  <2>5. a * PageUnits <= (AllPages - 1) * PageUnits
    BY <2>2, <2>4, TimesMonotonic
  <2>6. a * PageUnits \in 0..ImageUnits - 1
    <3>1. a * PageUnits \in Nat /\ (AllPages - 1) * PageUnits \in Nat
      BY <2>2, <2>4
    <3> QED BY <2>4, <2>5, <3>1
  <2>7. (a * PageUnits) \div PageUnits = a
    <3>1. 0 \in 0..PageUnits - 1 /\ a * PageUnits \in Nat
      BY <2>2, <2>4
    <3>2. (a * PageUnits + 0) \div PageUnits = a
      BY <2>2, <2>4, <3>1, DivModUnique
    <3> QED BY <3>1, <3>2
  <2> DEFINE k == a * PageUnits
  <2>8. k \in 0..ImageUnits - 1 /\ k \div PageUnits = a
    BY <2>6, <2>7
  <2> HIDE DEF k
  <2>9. image[(k \div PageUnits) \div Pages][(k \div PageUnits) % Pages] = want
    BY <2>8 DEF MatchesBefore
  <2> QED BY <2>3, <2>8, <2>9
<1>2. \A b \in BlockIx : image[b] = [p \in PageIx |-> want]
  <2> TAKE b \in BlockIx
  <2>1. image[b] \in [PageIx -> Content]
    BY DEF Image, Block
  <2> QED BY <1>1, <2>1
<1> QED BY <1>2 DEF Image, Complete

-----------------------------------------------------------------------------
(* Data. *)

LEMMA NextPosRange ==
  ASSUME hostPos \in 0..ImageUnits
  PROVE  /\ NextPos \in 0..ImageUnits /\ hostPos <= NextPos /\ NextPos <= hostPos + Chunk
         /\ NextPos > 0
<1>1. Chunk \in Nat \ {0} /\ ImageUnits \in Nat \ {0}
  BY UnitCount
<1> QED BY <1>1 DEF NextPos

LEMMA ChunkDataType ==
  ASSUME hostPos \in 0..ImageUnits, want \in Versions
  PROVE  ChunkData \in Seq(Unit) /\ Len(ChunkData) \in Nat /\ Len(ChunkData) <= Chunk
<1> DEFINE n == NextPos - hostPos
<1>1. n \in Nat /\ n <= Chunk /\ hostPos \in Nat /\ hostPos + n <= ImageUnits /\ ImageUnits \in Nat
  BY NextPosRange, UnitCount
<1>2. \A k \in 1..n : <<want, hostPos + k - 1>> \in Unit
  <2> TAKE k \in 1..n
  <2>1. hostPos + k - 1 \in 0..ImageUnits - 1
    BY <1>1
  <2> QED BY <2>1 DEF Unit
<1>3. ChunkData \in [1..n -> Unit]
  BY <1>2 DEF ChunkData
<1> HIDE DEF n
<1>4. ChunkData \in Seq(Unit) /\ Len(ChunkData) = n
  BY <1>1, <1>3
<1> QED BY <1>1, <1>4

LEMMA PageDataType ==
  ASSUME NEW addr, NEW buf, NEW old PROVE ProgramPage(old, PageData(addr, buf)) \in Content
<1>1. PageData(addr, buf) \in Content
  BY DEF PageData, Content
<1> QED BY <1>1 DEF ProgramPage, Content

LEMMA SessionPageWrite ==
  ASSUME NEW im \in Image, NEW b \in BlockIx, NEW p \in PageIx, NEW c \in Content
  PROVE  [im EXCEPT ![b][p] = c] \in Image
BY DEF Image, Block

LEMMA SessionBlockWrite ==
  ASSUME NEW im \in Image, NEW b, NEW block \in Block
  PROVE  [im EXCEPT ![b] = block] \in Image
BY DEF Image

LEMMA ProgramType ==
  ASSUME image \in Image, prom_addr \in 0..AllPages \cup {NoAddr}, NEW buf, Program(buf)
  PROVE  image' \in Image
<1>1. CASE prom_addr < AllPages
  <2>1. prom_addr \in 0..AllPages - 1
    BY <1>1, PageCount DEF NoAddr
  <2>2. prom_addr \div Pages \in BlockIx /\ prom_addr % Pages \in PageIx
    BY <2>1, AddrRange
  <2> DEFINE b == prom_addr \div Pages
             p == prom_addr % Pages
             c == ProgramPage(image[b][p], PageData(prom_addr, buf))
  <2>3. image' = [image EXCEPT ![b][p] = c]
    BY <1>1, <2>2 DEF Program, Image, Block
  <2>4. c \in Content
    BY PageDataType
  <2> HIDE DEF b, p, c
  <2>5. b \in BlockIx /\ p \in PageIx
    BY <2>2 DEF b, p
  <2> QED BY <2>3, <2>4, <2>5, SessionPageWrite
<1>2. CASE ~(prom_addr < AllPages)
  BY <1>2 DEF Program
<1> QED BY <1>1, <1>2

-----------------------------------------------------------------------------
(* The steps of the session. *)

LEMMA SessionStarts == image \in Image /\ SessionInit => SessionInv
<1> SUFFICES ASSUME image \in Image, SessionInit PROVE SessionInv
  OBVIOUS
<1>1. <<>> \in Seq(Unit) /\ Len(<<>>) = 0
  BY EmptySeq
<1>2. PageUnits \in Nat /\ 0 < PageUnits /\ ImageUnits \in Nat
  BY UnitCount
<1>3. SessionTypeOK
  <2>1. /\ block_buf \in Seq(Unit) /\ Len(block_buf) < PageUnits
        /\ 0 \in 0..0 /\ 0 \in 0..ImageUnits /\ 0 \in 0..MaxTrouble
    BY <1>1, <1>2, TroubleAssumption DEF SessionInit
  <2> QED BY <2>1 DEF SessionInit, SessionTypeOK, Unit
<1> QED BY <1>3 DEF SessionInit, SessionInv, HostInv, EraseInv, VerifyInv

LEMMA ResetKeeps == SessionInv /\ image' \in Image /\ RamReset => SessionInv'
<1> SUFFICES ASSUME SessionInv, image' \in Image, RamReset PROVE SessionInv'
  OBVIOUS
<1>1. <<>> \in Seq(Unit) /\ Len(<<>>) = 0
  BY EmptySeq
<1>2. PageUnits \in Nat /\ 0 < PageUnits /\ ImageUnits \in Nat
  BY UnitCount
<1>3. SessionTypeOK'
  <2>1. /\ block_buf' \in Seq(Unit) /\ Len(block_buf') < PageUnits
        /\ 0 \in 0..0 /\ 0 \in 0..ImageUnits
    BY <1>1, <1>2 DEF RamReset
  <2> QED BY <2>1 DEF RamReset, SessionInv, SessionTypeOK, Unit
<1> QED BY <1>3 DEF RamReset, SessionInv, HostInv, EraseInv, VerifyInv

LEMMA SessionStutters == SessionInv /\ UNCHANGED <<image, session>> => SessionInv'
BY DEF SessionInv, SessionTypeOK, HostInv, EraseInv, VerifyInv, MatchesBefore, session, device, erasing,
       hostVars

LEMMA InfoKeeps == SessionInv /\ (Info \/ Unknown) => SessionInv'
<1> SUFFICES ASSUME SessionInv, Info \/ Unknown PROVE SessionInv'
  OBVIOUS
<1>1. /\ host \in {"info", "unknown"} /\ host' = host /\ waiting' = TRUE /\ reply' \in {"info", "err"}
      /\ evtServed' = FALSE
      /\ UNCHANGED <<image, eraseEvt, EraseBlockNum, EraseBlockCnt, block_buf, prom_addr, VerifyStatus,
                     hostPos, want, clean, troubles>>
  BY DEF Info, Unknown, Answer, Command, erasing
<1> QED BY <1>1 DEF SessionInv, SessionTypeOK, HostInv, EraseInv, VerifyInv

LEMMA EraseSizeType == \A n \in EraseSizes : n \in Nat \ {0}
<1>1. Blocks \in Nat \ {0}
  OBVIOUS
<1>2. EraseSizes \subseteq Nat \ 0..Blocks - 1
  BY EraseAssumption
<1> QED BY <1>1, <1>2

LEMMA EraseKeeps == SessionInv /\ (Erase \/ EraseRefused) => SessionInv'
<1> SUFFICES ASSUME SessionInv, Erase \/ EraseRefused PROVE SessionInv'
  OBVIOUS
<1>1. PICK n \in EraseSizes : SetUpErase(n) /\ (InRange(n) \/ reply' = "err")
  BY DEF Erase, EraseRefused
<1>2. n \in Nat \ {0} /\ Blocks \in Nat
  BY EraseSizeType
<1>3. /\ host = "erase" /\ host' = host /\ waiting' = TRUE /\ evtServed' = FALSE
      /\ EraseBlockNum' = n /\ EraseBlockCnt' = 0 /\ VerifyStatus' = "ok" /\ prom_addr' = 0
      /\ eraseEvt' \in {TRUE, eraseEvt} /\ reply' \in {reply, "err"} /\ clean' \in BOOLEAN
      /\ troubles' \in {troubles, troubles + 1} /\ (troubles' # troubles => troubles < MaxTrouble)
      /\ UNCHANGED <<image, block_buf, hostPos, want>>
  BY <1>1 DEF Erase, EraseRefused, Command, SetUpErase
<1>4. SessionTypeOK'
  <2>1. troubles' \in 0..MaxTrouble
    BY <1>3, TroubleAssumption DEF SessionInv, SessionTypeOK
  <2>2. 0 \in 0..AllPages /\ 0 \in 0..n
    BY <1>2, PageCount
  <2> QED BY <1>3, <2>1, <2>2 DEF SessionInv, SessionTypeOK
<1>5. EraseBlockNum' <= Blocks + 1 \/ reply' = "err"
  BY <1>1, <1>2, <1>3 DEF InRange
<1>6. HostInv' /\ EraseInv' /\ VerifyInv'
  BY <1>2, <1>3, <1>5 DEF SessionInv, HostInv, EraseInv, VerifyInv
<1> QED BY <1>3, <1>4, <1>6 DEF SessionInv

LEMMA PromKeeps == SessionInv /\ Prom => SessionInv'
<1> SUFFICES ASSUME SessionInv, Prom PROVE SessionInv'
  OBVIOUS
<1> DEFINE data == block_buf \o ChunkData
<1>1. /\ host = "prom" /\ host' = host /\ waiting' = TRUE /\ evtServed' = FALSE
      /\ (eraseEvt => evtServed) /\ hostPos' = NextPos /\ reply' \in PromReplies
      /\ troubles' \in {troubles, troubles + 1} /\ (troubles' # troubles => troubles < MaxTrouble)
      /\ UNCHANGED <<eraseEvt, EraseBlockNum, EraseBlockCnt, VerifyStatus, want, clean>>
  BY DEF Prom, Command, erasing
<1>2. /\ hostPos \in 0..ImageUnits /\ want \in Versions /\ block_buf \in Seq(Unit)
      /\ Len(block_buf) \in Nat /\ Len(block_buf) < PageUnits
      /\ prom_addr \in 0..AllPages \cup {NoAddr} /\ image \in Image
  BY LenProperties DEF SessionInv, SessionTypeOK, Unit
<1>3. /\ PageUnits \in Nat /\ Chunk \in Nat /\ Chunk < PageUnits /\ AllPages \in Nat
  BY UnitCount, PageCount
<1>4. /\ data \in Seq(Unit) /\ Len(data) \in Nat /\ Len(data) < PageUnits + Chunk
  <2>1. ChunkData \in Seq(Unit) /\ Len(ChunkData) \in Nat /\ Len(ChunkData) <= Chunk
    BY <1>2, ChunkDataType
  <2>2. data \in Seq(Unit) /\ Len(data) = Len(block_buf) + Len(ChunkData)
    BY <1>2, <2>1, ConcatProperties
  <2> HIDE DEF data
  <2> QED BY <1>2, <1>3, <2>1, <2>2
<1>5. \/ /\ Len(data) >= PageUnits
         /\ Program(data)
         /\ block_buf' = RestOfData(data)
         /\ prom_addr' = IF prom_addr < AllPages THEN prom_addr + 1 ELSE prom_addr
      \/ /\ Len(data) < PageUnits
         /\ block_buf' = data
         /\ UNCHANGED <<image, prom_addr>>
  <2>1. IF Len(data) >= PageUnits
          THEN /\ Program(data)
               /\ block_buf' = RestOfData(data)
               /\ prom_addr' = IF prom_addr < AllPages THEN prom_addr + 1 ELSE prom_addr
          ELSE /\ block_buf' = data
               /\ UNCHANGED <<image, prom_addr>>
    BY DEF Prom
  <2> HIDE DEF data
  <2> QED BY <1>3, <1>4, <2>1
<1> HIDE DEF data
<1>6. image' \in Image
  BY <1>2, <1>5, ProgramType
<1>7. prom_addr' \in 0..AllPages \cup {NoAddr}
  BY <1>2, <1>3, <1>5 DEF NoAddr
<1>8. block_buf' \in Seq(Unit) /\ Len(block_buf') < PageUnits
  <2>1. CASE block_buf' = RestOfData(data) /\ Len(data) >= PageUnits
    <3>1. \A k \in PageUnits + 1..Len(data) : data[k] \in Unit
      BY <1>3, <1>4, ElementOfSeq
    <3>2. /\ RestOfData(data) \in Seq(Unit)
          /\ Len(RestOfData(data)) = IF PageUnits + 1 <= Len(data) THEN Len(data) - (PageUnits + 1) + 1
                                                                  ELSE 0
      BY <1>3, <1>4, <3>1, SubSeqProperties DEF RestOfData
    <3> QED BY <1>3, <1>4, <2>1, <3>2
  <2>2. CASE block_buf' = data /\ Len(data) < PageUnits
    BY <1>4, <2>2
  <2> QED BY <1>5, <2>1, <2>2
<1>9. SessionTypeOK'
  <2>1. troubles' \in 0..MaxTrouble
    BY <1>1, TroubleAssumption DEF SessionInv, SessionTypeOK
  <2>2. hostPos' \in 0..ImageUnits /\ reply' \in {"ok", "err"}
    BY <1>1, <1>2, NextPosRange, PromAssumption
  <2> QED BY <1>1, <1>7, <1>8, <2>1, <2>2 DEF SessionInv, SessionTypeOK, Unit
<1>10. EraseInv'
  <2>1. EraseBlockCnt \in Nat
    BY EraseSizeType DEF SessionInv, SessionTypeOK
  <2>2. hostPos' <= hostPos + Chunk /\ hostPos' \in Nat
    BY <1>1, <1>2, NextPosRange
  <2>3. eraseEvt => hostPos + Chunk <= Chunk * EraseBlockCnt
    BY <1>1 DEF SessionInv, EraseInv
  <2>4. Chunk * EraseBlockCnt \in Nat
    BY <1>3, <2>1
  <2>5. eraseEvt => hostPos' <= Chunk * EraseBlockCnt
    BY <1>2, <1>3, <2>2, <2>3, <2>4
  <2> QED BY <1>1, <2>5 DEF SessionInv, EraseInv
<1>11. HostInv' /\ VerifyInv'
  BY <1>1 DEF SessionInv, HostInv, VerifyInv
<1> QED BY <1>6, <1>9, <1>10, <1>11 DEF SessionInv

\* VERIFY: the image does not change once a part of it was compared.
LEMMA VerifyKeeps == SessionInv /\ Verify => SessionInv'
<1> SUFFICES ASSUME SessionInv, Verify PROVE SessionInv'
  OBVIOUS
<1>1. /\ host = "verify" /\ host' = host /\ waiting' = TRUE /\ evtServed' = FALSE
      /\ (eraseEvt => evtServed) /\ hostPos' = NextPos /\ reply' = VerifyStatus'
      /\ VerifyStatus' = Verified(ChunkMatches(image'))
      /\ UNCHANGED <<eraseEvt, EraseBlockNum, EraseBlockCnt, want, clean, troubles>>
  BY DEF Verify, Command, erasing
<1>2. ~eraseEvt
  BY <1>1 DEF SessionInv, EraseInv
<1>3. /\ hostPos \in 0..ImageUnits /\ want \in Versions /\ image \in Image
      /\ prom_addr \in 0..AllPages \cup {NoAddr} /\ block_buf \in Seq(Unit) /\ Len(block_buf) < PageUnits
  BY DEF SessionInv, SessionTypeOK, Unit
<1>4. /\ NextPos \in 0..ImageUnits /\ hostPos <= NextPos /\ NextPos > 0 /\ hostPos \in Nat
      /\ NextPos \in Nat
  BY <1>3, NextPosRange, UnitCount
<1>5. \/ Program(block_buf) /\ block_buf # <<>> /\ block_buf' = <<>> /\ prom_addr' = NoAddr
      \/ UNCHANGED <<image, block_buf, prom_addr>> /\ block_buf = <<>>
  BY DEF Verify, Flush
<1>6. image' \in Image
  BY <1>3, <1>5, ProgramType
<1>7. VerifyStatus' \in {"ok", "err"}
      /\ (VerifyStatus' = "ok" => VerifyStatus = "ok" /\ ChunkMatches(image'))
  BY <1>1 DEF Verified, SessionInv, SessionTypeOK
<1>8. SessionTypeOK'
  <2>1. block_buf' \in Seq(Unit) /\ Len(block_buf') < PageUnits
    <3>1. <<>> \in Seq(Unit) /\ Len(<<>>) = 0 /\ 0 < PageUnits
      BY EmptySeq, UnitCount
    <3> QED BY <1>3, <1>5, <3>1
  <2>2. prom_addr' \in 0..AllPages \cup {NoAddr}
    BY <1>3, <1>5
  <2> QED BY <1>1, <1>4, <1>7, <2>1, <2>2 DEF SessionInv, SessionTypeOK, Unit
<1>9. ASSUME VerifyStatus' = "ok" PROVE MatchesBefore(hostPos)' 
  <2>1. VerifyStatus = "ok" /\ ChunkMatches(image')
    BY <1>7, <1>9
  <2>2. MatchesBefore(hostPos)
    BY <1>1, <2>1 DEF SessionInv, VerifyInv
  <2>3. hostPos > 0 => image' = image
    BY <1>1, <1>5 DEF SessionInv, VerifyInv
  <2>4. ASSUME NEW k \in 0..NextPos - 1
        PROVE  image'[(k \div PageUnits) \div Pages][(k \div PageUnits) % Pages] = want
    <3>1. CASE k >= hostPos
      <4>1. k \in hostPos..NextPos - 1
        BY <1>4, <3>1
      <4> QED BY <2>1, <4>1 DEF ChunkMatches
    <3>2. CASE k < hostPos
      <4>1. k \in 0..hostPos - 1 /\ hostPos > 0
        BY <1>4, <3>2
      <4> QED BY <2>2, <2>3, <4>1 DEF MatchesBefore
    <3> QED BY <1>4, <3>1, <3>2
  <2> QED BY <1>1, <2>4 DEF MatchesBefore
<1>10. VerifyInv'
  <2>1. block_buf' = <<>>
    BY <1>5
  <2> QED BY <1>1, <1>9, <2>1 DEF VerifyInv
<1>11. HostInv' /\ EraseInv'
  BY <1>1, <1>2 DEF SessionInv, HostInv, EraseInv
<1> QED BY <1>6, <1>8, <1>10, <1>11 DEF SessionInv

LEMMA CommandsKeep == SessionInv /\ Commands => SessionInv'
BY InfoKeeps, EraseKeeps, PromKeeps, VerifyKeeps DEF Commands

LEMMA EndKeeps == SessionInv /\ EndCommand => SessionInv'
BY DEF SessionInv, SessionTypeOK, HostInv, EraseInv, VerifyInv, EndCommand, device, erasing

\* A block is erased; in a VERIFY the event only comes to its end.
LEMMA EraseEventKeeps == SessionInv /\ EraseEvent => SessionInv'
<1> SUFFICES ASSUME SessionInv, EraseEvent PROVE SessionInv'
  OBVIOUS
<1>1. /\ eraseEvt /\ EraseBlockCnt' = EraseBlockCnt + 1 /\ eraseEvt' = ~Erased
      /\ reply' = (IF Erased THEN "ok" ELSE reply) /\ evtServed' = TRUE
      /\ image' = IF EraseBlockCnt < Blocks THEN [image EXCEPT ![EraseBlockCnt] = BlankBlock] ELSE image
      /\ UNCHANGED <<EraseBlockNum, block_buf, prom_addr, VerifyStatus, host, waiting, hostPos, want,
                     clean, troubles>>
  BY DEF EraseEvent, hostVars
<1>2. EraseBlockCnt \in Nat /\ EraseBlockNum \in Nat /\ EraseBlockCnt < EraseBlockNum /\ Blocks \in Nat
  BY <1>1, EraseSizeType DEF SessionInv, SessionTypeOK, EraseInv
<1>3. Erased \in BOOLEAN /\ (~Erased => EraseBlockCnt' < EraseBlockNum)
  <2>1. Erased \in BOOLEAN
    BY DEF Erased
  <2>2. ~Erased => EraseBlockCnt + 1 < EraseBlockNum
    BY <1>2 DEF Erased
  <2> QED BY <1>1, <2>1, <2>2
<1>4. image' \in Image
  <2>1. BlankBlock \in Block
    BY DEF BlankBlock, Block, Content
  <2>2. image \in Image
    BY DEF SessionInv
  <2>3. [image EXCEPT ![EraseBlockCnt] = BlankBlock] \in Image
    BY <2>1, <2>2, SessionBlockWrite
  <2> QED BY <1>1, <2>2, <2>3
<1>5. SessionTypeOK'
  <2>1. EraseBlockCnt' \in 0..EraseBlockNum'
    BY <1>1, <1>2
  <2> QED BY <1>1, <1>3, <2>1 DEF SessionInv, SessionTypeOK
<1>6. HostInv'
  BY <1>1 DEF SessionInv, HostInv
<1>7. host = "verify" => /\ EraseBlockCnt >= Blocks /\ EraseBlockNum <= Blocks + 1
                         /\ ~waiting /\ hostPos = 0
  BY <1>1 DEF SessionInv, EraseInv
<1>8. host # "end"
  BY <1>1 DEF SessionInv, EraseInv
<1>9. EraseInv'
  <2>1. ~Erased => reply' = reply
    BY <1>1
  <2>2. CASE Erased
    BY <1>1, <1>8, <2>2 DEF EraseInv
  <2>3. CASE ~Erased /\ host = "erase"
    BY <1>1, <1>2, <1>3, <2>3 DEF SessionInv, EraseInv
  <2>4. CASE ~Erased /\ host = "prom"
    <3>1. hostPos <= Chunk * EraseBlockCnt /\ EraseBlockNum <= Blocks + 1
      BY <1>1, <2>4 DEF SessionInv, EraseInv
    <3>2. Chunk \in Nat /\ hostPos \in Nat /\ Chunk * EraseBlockCnt \in Nat
      BY <1>2, UnitCount DEF SessionInv, SessionTypeOK
    <3>3. Chunk * (EraseBlockCnt + 1) = Chunk * EraseBlockCnt + Chunk
      BY <1>2, <3>2
    <3>4. hostPos + Chunk <= Chunk * EraseBlockCnt' /\ hostPos <= Chunk * EraseBlockCnt'
      BY <1>1, <3>1, <3>2, <3>3
    <3> QED BY <1>1, <1>3, <2>4, <3>1, <3>4 DEF EraseInv
  <2>5. host = "verify" => Erased
    BY <1>2, <1>7 DEF Erased
  <2>6. CASE ~Erased /\ host \notin {"erase", "prom", "verify", "end"}
    BY <1>1, <1>3, <2>6 DEF EraseInv
  <2> QED BY <1>8, <2>2, <2>3, <2>4, <2>5, <2>6
<1>10. VerifyInv'
  <2>1. CASE host = "verify"
    <3>1. image' = image
      BY <1>1, <1>2, <1>7, <2>1
    <3> QED BY <1>1, <1>7, <2>1, <3>1 DEF SessionInv, VerifyInv, MatchesBefore
  <2>2. CASE host # "verify"
    BY <1>1, <1>8, <2>2 DEF VerifyInv
  <2> QED BY <2>1, <2>2
<1> QED BY <1>4, <1>5, <1>6, <1>9, <1>10 DEF SessionInv

LEMMA EraseFailsKeeps == SessionInv /\ EraseFails => SessionInv'
<1> SUFFICES ASSUME SessionInv, EraseFails PROVE SessionInv'
  OBVIOUS
<1>1. /\ eraseEvt /\ eraseEvt' = FALSE /\ reply' = "err" /\ clean' = FALSE
      /\ troubles < MaxTrouble /\ troubles' = troubles + 1
      /\ UNCHANGED <<image, EraseBlockNum, EraseBlockCnt, block_buf, prom_addr, VerifyStatus, evtServed,
                     host, waiting, hostPos, want>>
  BY DEF EraseFails, hostVars
<1>2. troubles' \in 0..MaxTrouble
  BY <1>1, TroubleAssumption DEF SessionInv, SessionTypeOK
<1>3. SessionTypeOK'
  BY <1>1, <1>2 DEF SessionInv, SessionTypeOK
<1> QED BY <1>1, <1>3 DEF SessionInv, HostInv, EraseInv, VerifyInv, MatchesBefore

LEMMA StartKeeps == SessionInv /\ Start => SessionInv'
<1> SUFFICES ASSUME SessionInv, Start PROVE SessionInv'
  OBVIOUS
<1>1. /\ host = "idle" /\ host' \in {"unknown", "info", "erase"} /\ hostPos' = 0
      /\ UNCHANGED <<image, eraseEvt, EraseBlockNum, EraseBlockCnt, block_buf, prom_addr, VerifyStatus,
                     evtServed, reply, waiting, want, clean, troubles>>
  BY DEF Start, device, erasing
<1>2. ~waiting
  BY <1>1 DEF SessionInv, HostInv
<1>3. SessionTypeOK'
  BY <1>1, UnitCount DEF SessionInv, SessionTypeOK
<1> QED BY <1>1, <1>2, <1>3 DEF SessionInv, HostInv, EraseInv, VerifyInv

\* What follows a reply: here a wrong one is taken for a good one, or END is decided on.
LEMMA ReadReplyKeeps == SessionInv /\ ReadReply => SessionInv'
<1> SUFFICES ASSUME SessionInv, ReadReply PROVE SessionInv'
  OBVIOUS
<1>1. /\ waiting /\ reply # "none" /\ reply' = "none" /\ waiting' = FALSE /\ host' = AfterReply
      /\ hostPos' = IF AfterReply = host THEN hostPos ELSE 0
      /\ UNCHANGED <<image, eraseEvt, EraseBlockNum, EraseBlockCnt, block_buf, prom_addr, VerifyStatus,
                     evtServed, want, clean, troubles>>
  BY DEF ReadReply, device, erasing
<1>2. /\ host \in {"idle", "unknown", "info", "erase", "prom", "verify", "end"}
      /\ hostPos \in 0..ImageUnits /\ EraseBlockCnt \in Nat /\ EraseBlockNum \in Nat /\ Blocks \in Nat
  BY EraseSizeType DEF SessionInv, SessionTypeOK
<1>3. host' \in {"idle", "erase", "prom", "verify", "end"} /\ hostPos' \in 0..ImageUnits
  BY <1>1, <1>2, UnitCount DEF AfterReply
<1>4. SessionTypeOK'
  BY <1>1, <1>3 DEF SessionInv, SessionTypeOK
<1>5. CASE host' = "idle" \/ host' = "erase"
  <2>1. hostPos' = 0
    BY <1>1, <1>2, <1>5 DEF AfterReply, SessionInv, HostInv
  <2> QED BY <1>1, <1>4, <1>5, <2>1 DEF SessionInv, HostInv, EraseInv, VerifyInv
<1>6. CASE host' = "prom"
  <2>1. reply = "ok" /\ (host = "erase" \/ host = "prom")
    BY <1>1, <1>2, <1>6 DEF AfterReply
  <2>2. CASE host = "erase"
    <3>1. hostPos' = 0
      BY <1>1, <1>6, <2>2
    <3>2. Chunk \in Nat /\ EraseBlockCnt \in Nat
      BY <1>2, UnitCount
    <3>3. 0 <= Chunk * EraseBlockCnt
      BY <3>2
    <3>4. EraseBlockCnt >= 1 => 0 + Chunk <= Chunk * EraseBlockCnt
      <4>1. ASSUME EraseBlockCnt >= 1 PROVE Chunk <= Chunk * EraseBlockCnt
        <5>1. 1 * Chunk <= EraseBlockCnt * Chunk
          BY <3>2, <4>1, TimesMonotonic
        <5> QED BY <3>2, <5>1
      <4> QED BY <3>2, <4>1
    <3>5. eraseEvt => /\ evtServed => EraseBlockCnt >= 1
                      /\ EraseBlockNum <= Blocks + 1
      BY <1>1, <2>1, <2>2 DEF SessionInv, EraseInv
    <3>6. EraseInv'
      BY <1>1, <1>6, <3>1, <3>3, <3>4, <3>5 DEF SessionInv, EraseInv
    <3> QED BY <1>1, <1>4, <1>6, <3>6 DEF SessionInv, HostInv, VerifyInv
  <2>3. CASE host = "prom"
    <3>1. hostPos' = hostPos
      BY <1>1, <1>6, <2>3
    <3> QED BY <1>1, <1>4, <1>6, <2>3, <3>1 DEF SessionInv, HostInv, EraseInv, VerifyInv
  <2> QED BY <2>1, <2>2, <2>3
<1>7. CASE host' = "verify"
  <2>1. reply = "ok" /\ ((host = "prom" /\ hostPos = ImageUnits) \/ host = "verify")
    BY <1>1, <1>2, <1>7 DEF AfterReply
  <2>2. CASE host = "prom" /\ hostPos = ImageUnits
    <3>1. hostPos' = 0
      BY <1>1, <1>7, <2>2
    <3>2. ASSUME eraseEvt PROVE EraseBlockCnt >= Blocks /\ EraseBlockNum <= Blocks + 1 /\ ~evtServed
      <4>1. /\ EraseBlockCnt < EraseBlockNum /\ EraseBlockNum <= Blocks + 1
            /\ ImageUnits <= Chunk * EraseBlockCnt
            /\ evtServed => ImageUnits + Chunk <= Chunk * EraseBlockCnt
        BY <2>2, <3>2 DEF SessionInv, EraseInv
      <4>2. EraseBlockCnt >= AllPages /\ AllPages >= Blocks /\ AllPages \in Nat
        BY <1>2, <4>1, ChunksCoverBlocks, PageCount
      <4>3. evtServed => EraseBlockCnt >= AllPages + 1
        BY <1>2, <4>1, ChunksCoverMore
      <4> QED BY <1>2, <4>1, <4>2, <4>3
    <3>3. MatchesBefore(0)'
      BY DEF MatchesBefore
    <3>4. EraseInv'
      BY <1>1, <1>7, <3>1, <3>2 DEF SessionInv, EraseInv
    <3>5. VerifyInv'
      BY <1>1, <1>7, <3>1, <3>3 DEF VerifyInv, MatchesBefore
    <3> QED BY <1>1, <1>4, <1>7, <3>4, <3>5 DEF SessionInv, HostInv
  <2>3. CASE host = "verify"
    <3>1. hostPos' = hostPos /\ ~eraseEvt
      BY <1>1, <1>7, <2>3 DEF SessionInv, EraseInv
    <3> QED BY <1>1, <1>4, <1>7, <2>3, <3>1
            DEF SessionInv, HostInv, EraseInv, VerifyInv, MatchesBefore
  <2> QED BY <2>1, <2>2, <2>3
<1>8. CASE host' = "end"
  <2>1. host = "verify" /\ reply = "ok" /\ hostPos = ImageUnits
    BY <1>1, <1>2, <1>8 DEF AfterReply
  <2>2. VerifyStatus = "ok" /\ MatchesBefore(ImageUnits) /\ ~eraseEvt
    BY <1>1, <2>1 DEF SessionInv, VerifyInv, EraseInv
  <2>3. image = Complete(want)
    BY <2>2, AllMatch DEF SessionInv, SessionTypeOK
  <2>4. hostPos' = 0
    BY <1>1, <1>8, <2>1
  <2>5. image' = Complete(want')
    BY <1>1, <2>3
  <2> QED BY <1>1, <1>4, <1>8, <2>2, <2>4, <2>5 DEF SessionInv, HostInv, EraseInv, VerifyInv
<1> QED BY <1>3, <1>5, <1>6, <1>7, <1>8

LEMMA DropKeeps == SessionInv /\ Drop => SessionInv'
<1> SUFFICES ASSUME SessionInv, Drop PROVE SessionInv'
  OBVIOUS
<1>1. /\ troubles < MaxTrouble /\ troubles' = troubles + 1
      /\ host' = "idle" /\ waiting' = FALSE /\ hostPos' = 0 /\ want' \in Versions
      /\ UNCHANGED <<image, eraseEvt, EraseBlockNum, EraseBlockCnt, block_buf, prom_addr, VerifyStatus,
                     evtServed, reply, clean>>
  BY DEF Drop, device, erasing
<1>2. troubles' \in 0..MaxTrouble /\ 0 \in 0..ImageUnits
  BY <1>1, TroubleAssumption, UnitCount DEF SessionInv, SessionTypeOK
<1>3. SessionTypeOK'
  BY <1>1, <1>2 DEF SessionInv, SessionTypeOK
<1> QED BY <1>1, <1>3 DEF SessionInv, HostInv, EraseInv, VerifyInv
-----------------------------------------------------------------------------
(* A download that began with an empty buffer: what was sent is in the image *)
(* and in block_buf, page for page.                                          *)
(*                                                                           *)
(* DataInv says where every unit is: the pages before prom_addr hold the     *)
(* host's version, block_buf goes on from there, and what follows is blank   *)
(* as far as the erase has come.  That an erase in progress does not reach   *)
(* the pages programmed already, and is past the next page to program, is    *)
(* EraseInv again: it erases a block for each chunk.                         *)

PageAt(im, addr) == im[addr \div Pages][addr % Pages]

\* The blocks before this one are erased.
Progress == IF eraseEvt THEN EraseBlockCnt ELSE Blocks

DataInv(sent) ==
  /\ prom_addr \in 0..AllPages
  /\ prom_addr * PageUnits + Len(block_buf) = sent
  /\ \A k \in 1..Len(block_buf) : block_buf[k] = <<want, prom_addr * PageUnits + k - 1>>
  /\ \A addr \in 0..AllPages - 1 :
       /\ addr < prom_addr => PageAt(image, addr) = want
       /\ addr >= prom_addr /\ addr \div Pages < Progress => PageAt(image, addr) = Blank

AllWanted == block_buf = <<>> /\ \A addr \in 0..AllPages - 1 : PageAt(image, addr) = want

DownloadInv ==
  clean =>
    /\ VerifyStatus = "ok"
    /\ host = "erase" /\ waiting => (~eraseEvt /\ reply = "err") \/ DataInv(0)
    /\ host = "prom" => DataInv(hostPos)
    /\ host = "verify" => IF hostPos = 0 THEN ~waiting /\ DataInv(ImageUnits) ELSE AllWanted

LEMMA TimesStrict ==
  ASSUME NEW a \in Nat, NEW b \in Nat, NEW c \in Nat, a * c < b * c PROVE a < b
<1>1. SUFFICES ASSUME b <= a PROVE FALSE
  OBVIOUS
<1>2. b * c <= a * c
  BY <1>1, TimesMonotonic
<1>3. a * c \in Nat /\ b * c \in Nat
  OBVIOUS
<1> QED BY <1>2, <1>3

LEMMA NextTimes == ASSUME NEW a \in Nat, NEW c \in Nat PROVE (a + 1) * c = a * c + c
OBVIOUS

\* What c chunks bring does not fill more than c pages.
LEMMA ChunksFillPages ==
  ASSUME NEW a \in Nat, NEW c \in Nat, a * PageUnits <= Chunk * c
  PROVE  a <= c
<1>1. PageUnits \in Nat /\ Chunk \in Nat \ {0} /\ Chunk < PageUnits
  BY UnitCount
<1>2. SUFFICES ASSUME c + 1 <= a PROVE FALSE
  OBVIOUS
<1>3. (c + 1) * PageUnits <= a * PageUnits
  BY <1>1, <1>2, TimesMonotonic
<1>4. (c + 1) * PageUnits = c * PageUnits + PageUnits
  BY <1>1, NextTimes
<1>5. Chunk * c <= PageUnits * c
  BY <1>1, TimesMonotonic
<1>6. c * PageUnits \in Nat /\ PageUnits * c = c * PageUnits /\ Chunk * c \in Nat /\ a * PageUnits \in Nat
  BY <1>1
<1> QED BY <1>1, <1>3, <1>4, <1>5, <1>6

LEMMA DivSmaller == ASSUME NEW a \in Nat, NEW P \in Nat \ {0} PROVE a \div P \in Nat /\ a \div P <= a
OBVIOUS

LEMMA DivModSplit ==
  ASSUME NEW a \in Nat, NEW P \in Nat \ {0} PROVE a = P * (a \div P) + (a % P)
OBVIOUS

\* A page has a place of its own.
LEMMA PlaceUnique ==
  ASSUME NEW a \in 0..AllPages - 1, NEW b \in 0..AllPages - 1,
         a \div Pages = b \div Pages, a % Pages = b % Pages
  PROVE  a = b
<1>1. a \in Nat /\ b \in Nat /\ Pages \in Nat \ {0}
  BY PageCount
<1>2. a = Pages * (a \div Pages) + (a % Pages) /\ b = Pages * (b \div Pages) + (b % Pages)
  BY <1>1, DivModSplit
<1> QED BY <1>2

\* Only the page at prom_addr is programmed.
LEMMA ProgramAt ==
  ASSUME image \in Image, prom_addr \in 0..AllPages - 1, NEW buf, Program(buf),
         NEW addr \in 0..AllPages - 1
  PROVE  PageAt(image', addr) = IF addr = prom_addr
                                  THEN ProgramPage(PageAt(image, addr), PageData(addr, buf))
                                  ELSE PageAt(image, addr)
<1> DEFINE b == prom_addr \div Pages
           p == prom_addr % Pages
           data == ProgramPage(image[b][p], PageData(prom_addr, buf))
           d == addr \div Pages
           q == addr % Pages
<1>1. prom_addr < AllPages
  BY PageCount
<1>2. image' = [image EXCEPT ![b][p] = data]
  BY <1>1 DEF Program
<1>3. b \in BlockIx /\ p \in PageIx /\ d \in BlockIx /\ q \in PageIx
  BY AddrRange
<1>4. b = d /\ p = q => prom_addr = addr
  BY PlaceUnique
<1>5. addr = prom_addr => b = d /\ p = q
  OBVIOUS
<1>6. data = ProgramPage(PageAt(image, prom_addr), PageData(prom_addr, buf))
  BY DEF PageAt
<1>7. PageAt(image', addr) = image'[d][q] /\ PageAt(image, addr) = image[d][q]
  BY DEF PageAt
<1> HIDE DEF b, p, data, d, q
<1>8. image'[d][q] = IF b = d /\ p = q THEN data ELSE image[d][q]
  BY <1>2, <1>3 DEF Image, Block
<1> QED BY <1>4, <1>5, <1>6, <1>7, <1>8

\* A page all of whose units are there is the host's.
LEMMA PageDataWant ==
  ASSUME NEW addr \in 0..AllPages - 1, NEW buf, Len(buf) \in Nat, want \in Versions,
         \A k \in 1..Len(buf) : buf[k] = <<want, addr * PageUnits + k - 1>>,
         Len(buf) >= PageUnits \/ addr * PageUnits + Len(buf) >= ImageUnits
  PROVE  PageData(addr, buf) = want
<1> DEFINE Is(v) == \A k \in 1..PageUnits :
                      LET n == addr * PageUnits + k - 1
                      IN n < ImageUnits => k <= Len(buf) /\ buf[k] = <<v, n>>
<1>1. PageUnits \in Nat \ {0} /\ ImageUnits \in Nat /\ AllPages \in Nat \ {0} /\ addr \in Nat
      /\ ImageUnits > (AllPages - 1) * PageUnits /\ addr <= AllPages - 1
  BY UnitCount, PageCount
<1>2. addr * PageUnits \in Nat /\ addr * PageUnits < ImageUnits
  <2> DEFINE x == addr * PageUnits
             y == (AllPages - 1) * PageUnits
  <2>1. x <= y /\ ImageUnits > y
    BY <1>1, TimesMonotonic
  <2>2. x \in Nat /\ y \in Nat
    BY <1>1
  <2> HIDE DEF x, y
  <2>3. x \in Nat /\ x < ImageUnits
    BY <1>1, <2>1, <2>2
  <2> QED BY <2>3 DEF x
<1> DEFINE u == addr * PageUnits
<1>3. u \in Nat /\ u < ImageUnits /\ (Len(buf) >= PageUnits \/ u + Len(buf) >= ImageUnits)
      /\ \A k \in 1..Len(buf) : buf[k] = <<want, u + k - 1>>
  BY <1>2, Zenon
<1>4. \A v : Is(v) <=> \A k \in 1..PageUnits :
                         u + k - 1 < ImageUnits => k <= Len(buf) /\ buf[k] = <<v, u + k - 1>>
  OBVIOUS
<1>5. PageData(addr, buf) = IF \E v \in Versions : Is(v) THEN CHOOSE v \in Versions : Is(v) ELSE Torn
  BY DEF PageData
<1> HIDE DEF u, Is
<1>6. Is(want)
  <2> SUFFICES ASSUME NEW k \in 1..PageUnits, u + k - 1 < ImageUnits
               PROVE  k <= Len(buf) /\ buf[k] = <<want, u + k - 1>>
    BY <1>4
  <2>1. k <= Len(buf)
    BY <1>1, <1>3
  <2>2. k \in 1..Len(buf)
    BY <1>1, <2>1
  <2> QED BY <1>3, <2>1, <2>2
<1>7. \A v : Is(v) => v = want
  <2> SUFFICES ASSUME NEW v, Is(v) PROVE v = want
    OBVIOUS
  <2>1. 1 \in 1..PageUnits /\ u + 1 - 1 < ImageUnits
    BY <1>1, <1>3
  <2>2. buf[1] = <<v, u + 1 - 1>> /\ buf[1] = <<want, u + 1 - 1>>
    BY <1>4, <1>6, <2>1
  <2> QED BY <2>2
<1> QED BY <1>5, <1>6, <1>7

\* A block that is erased has blank pages.
LEMMA EraseAt ==
  ASSUME image \in Image, NEW c \in BlockIx, NEW addr \in 0..AllPages - 1
  PROVE  PageAt([image EXCEPT ![c] = BlankBlock], addr)
           = IF addr \div Pages = c THEN Blank ELSE PageAt(image, addr)
<1> DEFINE d == addr \div Pages
           q == addr % Pages
<1>1. d \in BlockIx /\ q \in PageIx
  BY AddrRange
<1> HIDE DEF d, q
<1>2. [image EXCEPT ![c] = BlankBlock][d][q] = IF d = c THEN Blank ELSE image[d][q]
  BY <1>1 DEF Image, Block, BlankBlock
<1> QED BY <1>2 DEF PageAt, d, q

-----------------------------------------------------------------------------
(* The steps of the session, for a download that began with an empty buffer. *)

LEMMA DownloadStarts == SessionInit => DownloadInv
BY DEF SessionInit, DownloadInv

LEMMA ResetDownloads == RamReset => DownloadInv'
BY DEF RamReset, DownloadInv

LEMMA DownloadStutters == DownloadInv /\ UNCHANGED <<image, session>> => DownloadInv'
<1> SUFFICES ASSUME DownloadInv, UNCHANGED <<image, session>> PROVE DownloadInv'
  OBVIOUS
<1>1. UNCHANGED <<image, eraseEvt, EraseBlockCnt, block_buf, prom_addr, VerifyStatus, reply, host, waiting,
                  hostPos, want, clean>>
  BY DEF session, device, erasing, hostVars
<1>2. Progress' = Progress
  BY <1>1 DEF Progress
<1>3. \A n : DataInv(n)' <=> DataInv(n)
  BY <1>1, <1>2, Zenon DEF DataInv
<1>4. DataInv(hostPos)' <=> DataInv(hostPos)
  BY <1>1, <1>2, Zenon DEF DataInv
<1>5. AllWanted' <=> AllWanted
  BY <1>1 DEF AllWanted
<1> QED BY <1>1, <1>3, <1>4, <1>5 DEF DownloadInv

\* While no host is connected nothing is said of the image.
LEMMA IdleDownloads ==
  ASSUME DownloadInv, host = "idle", UNCHANGED session
  PROVE  DownloadInv'
BY DEF DownloadInv, session, device, erasing, hostVars

\* Steps that leave the device alone and do not enter or go on with a download.
LEMMA OtherDownloads ==
  ASSUME SessionInv, DownloadInv, Info \/ Unknown \/ EndCommand \/ EraseFails \/ Start \/ Drop
  PROVE  DownloadInv'
<1>1. CASE Info \/ Unknown
  BY <1>1 DEF Info, Unknown, Answer, Command, DownloadInv
<1>2. CASE EndCommand
  BY <1>2 DEF EndCommand, device, DownloadInv
<1>3. CASE EraseFails
  BY <1>3 DEF EraseFails, DownloadInv
<1>4. CASE Start
  <2>1. ~waiting
    BY <1>4 DEF Start, SessionInv, HostInv
  <2> QED BY <1>4, <2>1 DEF Start, device, DownloadInv
<1>5. CASE Drop
  BY <1>5 DEF Drop, device, DownloadInv
<1> QED BY <1>1, <1>2, <1>3, <1>4, <1>5

LEMMA EraseDownloads ==
  ASSUME SessionInv, Erase \/ EraseRefused
  PROVE  DownloadInv'
<1>1. /\ host' = "erase" /\ VerifyStatus' = "ok" /\ prom_addr' = 0 /\ EraseBlockCnt' = 0
      /\ block_buf' = block_buf /\ clean' = (block_buf = <<>>)
      /\ eraseEvt' \/ (reply' = "err" /\ eraseEvt' = eraseEvt)
  BY DEF Erase, EraseRefused, Command, SetUpErase
<1>2. SUFFICES ASSUME block_buf = <<>>, eraseEvt' PROVE DataInv(0)'
  <2>1. eraseEvt \in BOOLEAN
    BY DEF SessionInv, SessionTypeOK
  <2> QED BY <1>1, <2>1 DEF DownloadInv
<1>3. block_buf' = <<>> /\ Len(<<>>) = 0 /\ PageUnits \in Nat
  BY <1>1, <1>2, UnitCount
<1>4. prom_addr' \in 0..AllPages /\ 0 * PageUnits + 0 = 0
  BY <1>1, <1>3, PageCount
<1>5. \A addr \in 0..AllPages - 1 : ~(addr < 0) /\ ~(addr \div Pages < 0)
  <2> SUFFICES ASSUME NEW addr \in 0..AllPages - 1 PROVE ~(addr < 0) /\ ~(addr \div Pages < 0)
    OBVIOUS
  <2>1. addr \in Nat /\ addr \div Pages \in Nat
    BY AddrRange, PageCount DEF BlockIx
  <2> QED BY <2>1
<1>6. Progress' = 0
  BY <1>1, <1>2 DEF Progress
<1> QED BY <1>1, <1>3, <1>4, <1>5, <1>6 DEF DataInv

\* The block that is erased is none a page was programmed to.
LEMMA EraseEventData ==
  ASSUME SessionInv, EraseEvent, NEW sent \in Nat, DataInv(sent),
         EraseBlockCnt >= Blocks \/ sent <= Chunk * EraseBlockCnt
  PROVE  DataInv(sent)'
<1> DEFINE c == EraseBlockCnt
<1>1. /\ eraseEvt /\ c \in Nat /\ EraseBlockCnt' = c + 1 /\ eraseEvt' = ~Erased /\ image \in Image
      /\ image' = IF c < Blocks THEN [image EXCEPT ![c] = BlankBlock] ELSE image
      /\ block_buf' = block_buf /\ prom_addr' = prom_addr /\ want' = want /\ EraseBlockNum' = EraseBlockNum
  BY EraseSizeType DEF EraseEvent, hostVars, SessionInv, SessionTypeOK
<1>2. Blocks \in Nat /\ EraseBlockNum \in Nat /\ EraseBlockNum >= Blocks /\ c < EraseBlockNum
  <2>1. c < EraseBlockNum /\ EraseBlockNum \in EraseSizes \cup {0}
    BY <1>1 DEF SessionInv, EraseInv, SessionTypeOK
  <2>2. EraseBlockNum \in EraseSizes
    BY <1>1, <2>1
  <2>3. EraseBlockNum \in Nat \ 0..Blocks - 1
    BY <2>2, EraseAssumption
  <2> QED BY <2>1, <2>3
<1>3. Progress = c
  BY <1>1 DEF Progress
<1>4. Progress' \in Nat /\ Progress' <= c + 1
  <2>1. CASE eraseEvt'
    <3>1. Progress' = c + 1
      BY <1>1, <2>1, Zenon DEF Progress
    <3> QED BY <1>1, <3>1
  <2>2. CASE ~eraseEvt'
    <3>1. Progress' = Blocks /\ c + 1 >= EraseBlockNum
      BY <1>1, <2>2, Zenon DEF Progress, Erased
    <3> QED BY <1>1, <1>2, <3>1
  <2> QED BY <2>1, <2>2
<1>5. /\ prom_addr \in 0..AllPages /\ prom_addr \in Nat /\ prom_addr * PageUnits + Len(block_buf) = sent
      /\ \A addr \in 0..AllPages - 1 :
           /\ addr < prom_addr => PageAt(image, addr) = want
           /\ addr >= prom_addr /\ addr \div Pages < c => PageAt(image, addr) = Blank
  <2>1. prom_addr \in 0..AllPages
    BY DEF DataInv
  <2>2. prom_addr \in Nat
    BY <2>1, PageCount
  <2> QED BY <1>3, <2>1, <2>2, Zenon DEF DataInv
<1>6. c < Blocks => prom_addr <= c
  <2>1. SUFFICES ASSUME sent <= Chunk * c PROVE prom_addr <= c
    BY <1>1, <1>2
  <2> DEFINE x == prom_addr * PageUnits
             y == Chunk * c
  <2>2. x \in Nat /\ Len(block_buf) \in Nat /\ x + Len(block_buf) = sent /\ sent <= y /\ y \in Nat
    BY <1>1, <1>5, <2>1, UnitCount, LenProperties DEF SessionInv, SessionTypeOK
  <2> HIDE DEF x, y, c
  <2>3. x <= y
    BY <2>2
  <2> QED BY <1>1, <1>5, <2>3, ChunksFillPages DEF x, y
<1> SUFFICES ASSUME NEW addr \in 0..AllPages - 1
             PROVE  /\ addr < prom_addr => PageAt(image', addr) = want
                    /\ addr >= prom_addr /\ addr \div Pages < Progress' => PageAt(image', addr) = Blank
  <2>1. \A k \in 1..Len(block_buf) : block_buf[k] = <<want, prom_addr * PageUnits + k - 1>>
    BY DEF DataInv
  <2> QED BY <1>1, <1>5, <2>1, Zenon DEF DataInv
<1>7. addr \in Nat /\ addr \div Pages \in 0..Blocks - 1 /\ addr \div Pages <= addr
  <2>1. addr \in Nat /\ Pages \in Nat \ {0}
    BY PageCount
  <2> QED BY <2>1, AddrRange, DivSmaller DEF BlockIx
<1>8. CASE c < Blocks
  <2>1. PageAt(image', addr) = IF addr \div Pages = c THEN Blank ELSE PageAt(image, addr)
    <3>1. c \in BlockIx
      BY <1>1, <1>2, <1>8 DEF BlockIx
    <3> QED BY <1>1, <1>8, <3>1, EraseAt
  <2> DEFINE b == addr \div Pages
  <2>2. b \in Nat /\ b <= addr /\ (addr >= prom_addr /\ b < c => PageAt(image, addr) = Blank)
        /\ PageAt(image', addr) = IF b = c THEN Blank ELSE PageAt(image, addr)
    <3>1. b \in Nat
      BY <1>2, <1>7
    <3> QED BY <1>5, <1>7, <2>1, <3>1, Zenon
  <2> HIDE DEF b, c
  <2>3. ASSUME addr < prom_addr PROVE PageAt(image', addr) = want
    <3>1. prom_addr <= c /\ c \in Nat
      BY <1>1, <1>6, <1>8
    <3>2. b # c
      BY <1>5, <1>7, <2>2, <2>3, <3>1
    <3> QED BY <1>5, <2>2, <2>3, <3>2
  <2>4. ASSUME addr >= prom_addr, b < Progress' PROVE PageAt(image', addr) = Blank
    <3>1. b <= c
      BY <1>1, <1>4, <2>2, <2>4
    <3>2. b = c \/ b < c
      BY <1>1, <2>2, <3>1
    <3> QED BY <2>2, <2>4, <3>2
  <2> QED BY <2>3, <2>4 DEF b
<1>9. CASE c >= Blocks
  <2>1. image' = image /\ addr \div Pages < c
    BY <1>1, <1>2, <1>7, <1>9
  <2> QED BY <1>5, <2>1
<1> QED BY <1>1, <1>2, <1>8, <1>9

LEMMA EraseEventDownloads ==
  ASSUME SessionInv, DownloadInv, EraseEvent
  PROVE  DownloadInv'
<1>1. /\ eraseEvt
      /\ UNCHANGED <<EraseBlockNum, block_buf, prom_addr, VerifyStatus, host, waiting, hostPos, want, clean>>
  BY DEF EraseEvent, hostVars
<1>2. EraseBlockCnt \in Nat /\ hostPos \in Nat /\ Chunk \in Nat /\ ImageUnits \in Nat
  BY EraseSizeType, UnitCount DEF SessionInv, SessionTypeOK
<1> SUFFICES ASSUME clean PROVE DownloadInv'
  BY <1>1 DEF DownloadInv
<1>3. VerifyStatus' = "ok"
  BY <1>1 DEF DownloadInv
<1>4. ASSUME host = "erase", waiting PROVE DataInv(0)'
  <2>1. DataInv(0)
    BY <1>1, <1>4 DEF DownloadInv
  <2>2. 0 <= Chunk * EraseBlockCnt /\ 0 \in Nat
    BY <1>2
  <2> QED BY <2>1, <2>2, EraseEventData
<1>5. ASSUME host = "prom" PROVE DataInv(hostPos)'
  <2>1. DataInv(hostPos) /\ hostPos <= Chunk * EraseBlockCnt
    BY <1>1, <1>5 DEF DownloadInv, SessionInv, EraseInv
  <2> QED BY <1>1, <1>2, <2>1, EraseEventData DEF DataInv
<1>6. ASSUME host = "verify" PROVE hostPos = 0 /\ ~waiting /\ DataInv(ImageUnits)'
  <2>1. hostPos = 0 /\ ~waiting /\ EraseBlockCnt >= Blocks
    BY <1>1, <1>6 DEF SessionInv, EraseInv
  <2>2. DataInv(ImageUnits)
    BY <1>6, <2>1 DEF DownloadInv
  <2> QED BY <1>2, <2>1, <2>2, EraseEventData
<1> QED BY <1>1, <1>3, <1>4, <1>5, <1>6 DEF DownloadInv

\* The page to be programmed next is erased, and has not been programmed.
LEMMA PageIsBlank ==
  ASSUME SessionInv, NEW sent \in Nat, DataInv(sent), prom_addr \in 0..AllPages - 1,
         eraseEvt => (prom_addr + 1) * PageUnits <= Chunk * EraseBlockCnt
  PROVE  PageAt(image, prom_addr) = Blank
<1>1. prom_addr \in Nat /\ Pages \in Nat \ {0} /\ EraseBlockCnt \in Nat /\ prom_addr >= prom_addr
  BY EraseSizeType, PageCount DEF SessionInv, SessionTypeOK
<1>2. prom_addr \div Pages \in 0..Blocks - 1 /\ prom_addr \div Pages <= prom_addr
  BY <1>1, AddrRange, DivSmaller DEF BlockIx
<1>3. prom_addr \div Pages < Progress
  <2>1. CASE eraseEvt
    <3>1. prom_addr + 1 \in Nat
      BY <1>1
    <3>2. prom_addr + 1 <= EraseBlockCnt
      BY <1>1, <2>1, <3>1, ChunksFillPages
    <3> DEFINE b == prom_addr \div Pages
    <3>3. b \in Nat /\ b <= prom_addr
      BY <1>2
    <3> HIDE DEF b
    <3>4. b < EraseBlockCnt
      BY <1>1, <3>2, <3>3
    <3> QED BY <2>1, <3>4 DEF Progress, b
  <2>2. CASE ~eraseEvt
    BY <1>2, <2>2 DEF Progress
  <2> QED BY <2>1, <2>2
<1> QED BY <1>1, <1>3 DEF DataInv

\* What a PROM adds: the units of block_buf and of the chunk follow each other.
LEMMA ChunkFollows ==
  ASSUME SessionInv, DataInv(hostPos), NEW buf, buf = block_buf \o ChunkData
  PROVE  /\ buf \in Seq(Unit) /\ Len(buf) \in Nat
         /\ prom_addr * PageUnits + Len(buf) = NextPos
         /\ \A k \in 1..Len(buf) : buf[k] = <<want, prom_addr * PageUnits + k - 1>>
<1> DEFINE x == prom_addr * PageUnits
           n == NextPos - hostPos
<1>1. hostPos \in 0..ImageUnits /\ want \in Versions /\ block_buf \in Seq(Unit) /\ Len(block_buf) \in Nat
  BY LenProperties DEF SessionInv, SessionTypeOK, Unit
<1>2. n \in Nat /\ hostPos \in Nat /\ hostPos + n = NextPos /\ ImageUnits \in Nat
  BY <1>1, NextPosRange, UnitCount
<1>3. x \in Nat /\ x + Len(block_buf) = hostPos
      /\ \A k \in 1..Len(block_buf) : block_buf[k] = <<want, x + k - 1>>
  <2>1. prom_addr \in Nat /\ PageUnits \in Nat
    BY PageCount, UnitCount DEF DataInv
  <2>2. x \in Nat
    BY <2>1
  <2> QED BY <2>2, Zenon DEF DataInv
<1>4. ChunkData \in Seq(Unit)
  BY <1>1, ChunkDataType
<1>5. ChunkData = [k \in 1..n |-> <<want, hostPos + k - 1>>]
  BY DEF ChunkData
<1> HIDE DEF x, n
<1>6. Len(ChunkData) = n
  BY <1>2, <1>4, <1>5
<1>7. buf \in Seq(Unit) /\ Len(buf) = Len(block_buf) + n
      /\ \A k \in 1..Len(block_buf) + n :
           buf[k] = IF k <= Len(block_buf) THEN block_buf[k] ELSE ChunkData[k - Len(block_buf)]
  BY <1>1, <1>4, <1>6, ConcatProperties
<1> DEFINE l == Len(block_buf)
<1>8. l \in Nat /\ x \in Nat /\ x + l = hostPos /\ Len(buf) = l + n
  BY <1>1, <1>3, <1>7
<1> HIDE DEF l
<1>9. x + (l + n) = NextPos /\ l + n \in Nat
  <2>1. x + (l + n) = (x + l) + n /\ l + n \in Nat
    BY <1>2, <1>8
  <2> QED BY <1>2, <1>8, <2>1, Zenon
<1>10. x + Len(buf) = NextPos /\ Len(buf) \in Nat
  BY <1>8, <1>9
<1>11. ASSUME NEW k \in 1..Len(buf) PROVE buf[k] = <<want, x + k - 1>>
  <2>1. CASE k <= Len(block_buf)
    <3>1. k \in 1..Len(block_buf) /\ k \in 1..Len(block_buf) + n
      BY <1>1, <1>7, <2>1
    <3> QED BY <1>3, <1>7, <2>1, <3>1
  <2>2. CASE ~(k <= Len(block_buf))
    <3> DEFINE j == k - l
    <3>1. k \in 1..l + n /\ ~(k <= l)
      BY <1>8, <2>2 DEF l
    <3>2. j \in 1..n /\ hostPos + j - 1 = x + k - 1
      BY <1>2, <1>3, <1>8, <3>1
    <3>3. buf[k] = ChunkData[j]
      BY <1>7, <3>1 DEF l
    <3> HIDE DEF j
    <3>4. ChunkData[j] = <<want, hostPos + j - 1>>
      BY <1>5, <3>2
    <3> QED BY <3>2, <3>3, <3>4
  <2> QED BY <2>1, <2>2
<1> QED BY <1>7, <1>10, <1>11 DEF x

\* A page is programmed with the host's data, or the data is kept.
LEMMA PromDownloads ==
  ASSUME SessionInv, DownloadInv, Prom
  PROVE  DownloadInv'
<1> DEFINE data == block_buf \o ChunkData
<1>1. /\ host = "prom" /\ host' = host /\ (eraseEvt => evtServed) /\ hostPos' = NextPos
      /\ UNCHANGED <<eraseEvt, EraseBlockNum, EraseBlockCnt, VerifyStatus, want, clean>>
  BY DEF Prom, Command, erasing
<1>2. SUFFICES ASSUME clean PROVE VerifyStatus = "ok" /\ DataInv(hostPos)'
  BY <1>1 DEF DownloadInv
<1>3. VerifyStatus = "ok" /\ DataInv(hostPos)
  BY <1>1, <1>2 DEF DownloadInv
<1>4. SUFFICES DataInv(hostPos)'
  BY <1>3
<1> DEFINE x == prom_addr * PageUnits
<1>5. /\ data \in Seq(Unit) /\ Len(data) \in Nat /\ x + Len(data) = NextPos
      /\ \A k \in 1..Len(data) : data[k] = <<want, x + k - 1>>
  BY <1>3, ChunkFollows
<1>6. \/ /\ Len(data) >= PageUnits /\ Program(data) /\ block_buf' = RestOfData(data)
         /\ prom_addr' = IF prom_addr < AllPages THEN prom_addr + 1 ELSE prom_addr
      \/ /\ block_buf' = data
         /\ UNCHANGED <<image, prom_addr>>
  BY DEF Prom
<1>7. /\ image \in Image /\ hostPos \in 0..ImageUnits /\ hostPos \in Nat /\ EraseBlockCnt \in Nat
      /\ want \in Versions /\ prom_addr \in 0..AllPages /\ prom_addr \in Nat
  BY <1>3, EraseSizeType, UnitCount, PageCount DEF SessionInv, SessionTypeOK, DataInv
<1>8. PageUnits \in Nat \ {0} /\ Chunk \in Nat \ {0} /\ AllPages \in Nat \ {0} /\ ImageUnits \in Nat
      /\ ImageUnits <= AllPages * PageUnits
  BY UnitCount, PageCount
<1>9. NextPos \in Nat /\ NextPos <= hostPos + Chunk /\ NextPos <= ImageUnits
  BY <1>7, <1>8, NextPosRange
<1>10. \A addr \in 0..AllPages - 1 :
         /\ addr < prom_addr => PageAt(image, addr) = want
         /\ addr >= prom_addr /\ addr \div Pages < Progress => PageAt(image, addr) = Blank
  BY <1>3, Zenon DEF DataInv
<1>11. Progress' = Progress
  BY <1>1 DEF Progress
<1> HIDE DEF data
<1>12. CASE block_buf' = data /\ UNCHANGED <<image, prom_addr>>
  BY <1>1, <1>5, <1>7, <1>10, <1>11, <1>12, Zenon DEF DataInv
<1>13. CASE /\ Len(data) >= PageUnits /\ Program(data) /\ block_buf' = RestOfData(data)
            /\ prom_addr' = IF prom_addr < AllPages THEN prom_addr + 1 ELSE prom_addr
  <2>1. (prom_addr + 1) * PageUnits = x + PageUnits /\ x \in Nat
    BY <1>7, <1>8, NextTimes
  <2> DEFINE y == (prom_addr + 1) * PageUnits
  <2>2. y <= NextPos /\ y \in Nat
    <3> HIDE DEF x, y
    <3>1. x + PageUnits <= NextPos /\ x + PageUnits \in Nat
      BY <1>5, <1>8, <1>13, <2>1
    <3> QED BY <2>1, <3>1 DEF y
  <2>3. prom_addr \in 0..AllPages - 1
    <3> DEFINE z == AllPages * PageUnits
    <3>1. z \in Nat /\ ImageUnits <= z
      BY <1>8
    <3> HIDE DEF x, y, z
    <3>2. x < z
      BY <1>8, <1>9, <2>1, <2>2, <3>1 DEF y
    <3>3. prom_addr < AllPages
      BY <1>7, <1>8, <3>2, TimesStrict DEF x, z
    <3> QED BY <1>7, <1>8, <3>3
  <2>4. prom_addr' = prom_addr + 1 /\ prom_addr + 1 \in 0..AllPages
    BY <1>8, <1>13, <2>3
  <2>5. PageAt(image, prom_addr) = Blank
    <3>1. eraseEvt => y <= Chunk * EraseBlockCnt
      <4> SUFFICES ASSUME eraseEvt PROVE y <= Chunk * EraseBlockCnt
        OBVIOUS
      <4> DEFINE z == Chunk * EraseBlockCnt
      <4>1. hostPos + Chunk <= z
        BY <1>1 DEF SessionInv, EraseInv
      <4>2. z \in Nat
        BY <1>7, <1>8
      <4> HIDE DEF y, z
      <4>3. y <= z
        BY <1>7, <1>8, <1>9, <2>2, <4>1, <4>2
      <4> QED BY <4>3 DEF z
    <3> QED BY <1>3, <1>7, <2>3, <3>1, PageIsBlank
  <2>6. PageData(prom_addr, data) = want
    BY <1>5, <1>7, <1>13, <2>3, PageDataWant
  <2>7. \A addr \in 0..AllPages - 1 :
          PageAt(image', addr) = IF addr = prom_addr THEN want ELSE PageAt(image, addr)
    BY <1>7, <1>13, <2>3, <2>5, <2>6, ProgramAt DEF ProgramPage
  <2>8. \A addr \in 0..AllPages - 1 :
          /\ addr < prom_addr + 1 => PageAt(image', addr) = want
          /\ addr >= prom_addr + 1 /\ addr \div Pages < Progress => PageAt(image', addr) = Blank
    <3> SUFFICES ASSUME NEW addr \in 0..AllPages - 1
                 PROVE  /\ addr < prom_addr + 1 => PageAt(image', addr) = want
                        /\ addr >= prom_addr + 1 /\ addr \div Pages < Progress
                             => PageAt(image', addr) = Blank
      OBVIOUS
    <3>1. addr \in Nat
      BY <1>8
    <3>2. addr < prom_addr + 1 => addr < prom_addr \/ addr = prom_addr
      BY <1>7, <3>1
    <3>3. addr >= prom_addr + 1 => addr >= prom_addr /\ addr # prom_addr
      BY <1>7, <3>1
    <3> QED BY <1>10, <2>7, <3>2, <3>3, Zenon
  <2>9. /\ Len(block_buf') \in Nat /\ Len(block_buf') = Len(data) - PageUnits
        /\ \A k \in 1..Len(block_buf') : block_buf'[k] = data[PageUnits + k]
    <3>1. \A k \in PageUnits + 1..Len(data) : data[k] \in Unit
      BY <1>5, <1>8, ElementOfSeq
    <3>2. /\ Len(RestOfData(data)) = IF PageUnits + 1 <= Len(data) THEN Len(data) - (PageUnits + 1) + 1
                                                                  ELSE 0
          /\ \A k \in 1..Len(data) - (PageUnits + 1) + 1 :
               RestOfData(data)[k] = data[PageUnits + 1 + k - 1]
      BY <1>5, <1>8, <3>1, SubSeqProperties DEF RestOfData
    <3>3. Len(block_buf') = Len(data) - PageUnits /\ Len(block_buf') \in Nat
      BY <1>5, <1>8, <1>13, <3>2
    <3>4. ASSUME NEW k \in 1..Len(block_buf') PROVE block_buf'[k] = data[PageUnits + k]
      <4>1. k \in 1..Len(data) - (PageUnits + 1) + 1 /\ PageUnits + 1 + k - 1 = PageUnits + k
        BY <1>5, <1>8, <3>3
      <4> QED BY <1>13, <3>2, <4>1
    <3> QED BY <3>3, <3>4
  <2>10. y + Len(block_buf') = NextPos
    <3>1. x \in Nat /\ y = x + PageUnits
      BY <2>1
    <3> HIDE DEF x, y
    <3> QED BY <1>5, <1>8, <2>9, <3>1
  <2>11. ASSUME NEW k \in 1..Len(block_buf') PROVE block_buf'[k] = <<want, y + k - 1>>
    <3>1. PageUnits + k \in 1..Len(data) /\ k \in Nat
      BY <1>5, <1>8, <2>9
    <3>2. block_buf'[k] = <<want, x + (PageUnits + k) - 1>>
      BY <1>5, <2>9, <3>1
    <3>3. x \in Nat /\ y = x + PageUnits
      BY <2>1
    <3> HIDE DEF x, y
    <3>4. x + (PageUnits + k) - 1 = y + k - 1
      BY <1>8, <3>1, <3>3
    <3> QED BY <3>2, <3>4
  <2> HIDE DEF x
  <2>12. /\ prom_addr' \in 0..AllPages
         /\ prom_addr' * PageUnits + Len(block_buf') = hostPos'
         /\ \A k \in 1..Len(block_buf') : block_buf'[k] = <<want', prom_addr' * PageUnits + k - 1>>
    BY <1>1, <2>4, <2>10, <2>11, Zenon
  <2>13. \A addr \in 0..AllPages - 1 :
           /\ addr < prom_addr' => PageAt(image', addr) = want'
           /\ addr >= prom_addr' /\ addr \div Pages < Progress' => PageAt(image', addr) = Blank
    BY <1>1, <1>11, <2>4, <2>8, Zenon
  <2> QED BY <2>12, <2>13, Zenon DEF DataInv
<1> QED BY <1>6, <1>12, <1>13

\* All that is left when the last PROM was answered is the last page.
LEMMA LastPage ==
  ASSUME SessionInv, DataInv(ImageUnits)
  PROVE  /\ block_buf = <<>> => prom_addr = AllPages
         /\ block_buf # <<>> => /\ prom_addr = AllPages - 1
                                /\ PageData(prom_addr, block_buf) = want
<1> DEFINE x == prom_addr * PageUnits
           y == (prom_addr + 1) * PageUnits
           z == (AllPages - 1) * PageUnits
           w == AllPages * PageUnits
           l == Len(block_buf)
<1>1. PageUnits \in Nat \ {0} /\ AllPages \in Nat \ {0} /\ ImageUnits \in Nat /\ ImageUnits > z
      /\ ImageUnits <= w
  BY UnitCount, PageCount
<1>2. prom_addr \in Nat /\ prom_addr <= AllPages /\ AllPages - 1 \in Nat /\ prom_addr + 1 \in Nat
      /\ want \in Versions
  BY <1>1 DEF DataInv, SessionInv, SessionTypeOK
<1>3. l \in Nat /\ l < PageUnits /\ (block_buf = <<>> <=> l = 0)
  <2>1. block_buf \in Seq(Unit) /\ Len(block_buf) < PageUnits
    BY DEF SessionInv, SessionTypeOK, Unit
  <2> QED BY <2>1, EmptySeq, LenProperties
<1>4. x + l = ImageUnits
  BY DEF DataInv
<1>5. x \in Nat /\ y \in Nat /\ z \in Nat /\ w \in Nat /\ y = x + PageUnits
  BY <1>1, <1>2, NextTimes
<1>6. prom_addr >= AllPages - 1
  <2> HIDE DEF x, y, z, w, l
  <2>1. z < y
    BY <1>1, <1>3, <1>4, <1>5
  <2>2. AllPages - 1 < prom_addr + 1
    BY <1>1, <1>2, <2>1, TimesStrict DEF y, z
  <2> QED BY <1>1, <1>2, <2>2
<1>7. ASSUME block_buf = <<>> PROVE prom_addr = AllPages
  <2>1. l = 0
    BY <1>3, <1>7
  <2> HIDE DEF x, y, z, w, l
  <2>2. z < x
    BY <1>1, <1>4, <1>5, <2>1
  <2>3. AllPages - 1 < prom_addr
    BY <1>1, <1>2, <2>2, TimesStrict DEF x, z
  <2> QED BY <1>1, <1>2, <2>3
<1>8. ASSUME block_buf # <<>> PROVE prom_addr = AllPages - 1 /\ PageData(prom_addr, block_buf) = want
  <2>1. l \in Nat \ {0}
    BY <1>3, <1>8
  <2>2. prom_addr < AllPages
    <3> HIDE DEF x, y, z, w, l
    <3>1. x < w
      BY <1>1, <1>4, <1>5, <2>1
    <3> QED BY <1>1, <1>2, <3>1, TimesStrict DEF x, w
  <2>3. prom_addr = AllPages - 1 /\ prom_addr \in 0..AllPages - 1
    BY <1>1, <1>2, <1>6, <2>2
  <2>4. \A k \in 1..Len(block_buf) : block_buf[k] = <<want, prom_addr * PageUnits + k - 1>>
    BY DEF DataInv
  <2>5. prom_addr * PageUnits + Len(block_buf) >= ImageUnits
    <3>1. x + l >= ImageUnits
      <4> HIDE DEF x, l
      <4> QED BY <1>1, <1>4
    <3> QED BY <3>1
  <2> QED BY <1>2, <1>3, <2>3, <2>4, <2>5, PageDataWant
<1> QED BY <1>7, <1>8

\* The first VERIFY completes the image.
LEMMA FlushCompletes ==
  ASSUME SessionInv, DataInv(ImageUnits), ~eraseEvt, Flush, want' = want
  PROVE  AllWanted'
<1>1. image \in Image /\ want \in Versions /\ AllPages \in Nat \ {0} /\ prom_addr \in Nat
  BY PageCount DEF SessionInv, SessionTypeOK, DataInv
<1>2. \A addr \in 0..AllPages - 1 : addr < prom_addr => PageAt(image, addr) = want
  BY Zenon DEF DataInv
<1>3. CASE block_buf = <<>>
  <2>1. UNCHANGED <<image, block_buf>> /\ prom_addr = AllPages
    BY <1>3, LastPage DEF Flush
  <2>2. \A addr \in 0..AllPages - 1 : addr < AllPages
    BY <1>1
  <2> QED BY <1>2, <1>3, <2>1, <2>2 DEF AllWanted
<1>4. CASE block_buf # <<>>
  <2>1. Program(block_buf) /\ block_buf' = <<>>
    BY <1>4 DEF Flush
  <2>2. prom_addr = AllPages - 1 /\ PageData(prom_addr, block_buf) = want
    BY <1>4, LastPage
  <2>3. prom_addr \in 0..AllPages - 1 /\ ImageUnits \in Nat
    BY <1>1, <2>2, UnitCount
  <2>4. PageAt(image, prom_addr) = Blank
    BY <2>3, PageIsBlank
  <2>5. ASSUME NEW addr \in 0..AllPages - 1 PROVE PageAt(image', addr) = want
    <3>1. PageAt(image', addr) = IF addr = prom_addr
                                   THEN ProgramPage(PageAt(image, addr), PageData(addr, block_buf))
                                   ELSE PageAt(image, addr)
      BY <1>1, <2>1, <2>3, ProgramAt
    <3>2. addr = prom_addr \/ addr < prom_addr
      BY <1>1, <2>2
    <3> QED BY <1>1, <1>2, <2>2, <2>4, <3>1, <3>2 DEF ProgramPage
  <2> QED BY <2>1, <2>5 DEF AllWanted
<1> QED BY <1>3, <1>4

\* The comparisons of a VERIFY find what was sent.
LEMMA VerifyDownloads ==
  ASSUME SessionInv, DownloadInv, Verify
  PROVE  DownloadInv'
<1>1. /\ host = "verify" /\ host' = host /\ (eraseEvt => evtServed) /\ hostPos' = NextPos /\ Flush
      /\ VerifyStatus' = Verified(ChunkMatches(image')) /\ UNCHANGED <<want, clean>>
  BY DEF Verify, Command
<1>2. ~eraseEvt
  BY <1>1 DEF SessionInv, EraseInv
<1>3. hostPos \in 0..ImageUnits /\ hostPos \in Nat /\ NextPos \in 0..ImageUnits /\ NextPos > 0
  BY NextPosRange, UnitCount DEF SessionInv, SessionTypeOK
<1> SUFFICES ASSUME clean PROVE DownloadInv'
  BY <1>1 DEF DownloadInv
<1>4. AllWanted'
  <2>1. CASE hostPos = 0
    BY <1>1, <1>2, <2>1, FlushCompletes DEF DownloadInv
  <2>2. CASE hostPos # 0
    <3>1. AllWanted
      BY <1>1, <2>2 DEF DownloadInv
    <3>2. UNCHANGED <<image, block_buf>>
      BY <1>1, <3>1 DEF AllWanted, Flush
    <3> QED BY <1>1, <3>1, <3>2 DEF AllWanted
  <2> QED BY <2>1, <2>2
<1>5. ChunkMatches(image')
  <2> SUFFICES ASSUME NEW n \in hostPos..NextPos - 1
               PROVE  PageAt(image', n \div PageUnits) = want
    BY DEF ChunkMatches, PageAt
  <2>1. PageUnits \in Nat \ {0} /\ AllPages \in Nat \ {0} /\ ImageUnits \in Nat
        /\ ImageUnits <= AllPages * PageUnits
    BY UnitCount, PageCount
  <2> DEFINE w == AllPages * PageUnits
  <2>2. n \in 0..w - 1
    <3>1. w \in Nat /\ ImageUnits <= w
      BY <2>1
    <3> HIDE DEF w
    <3> QED BY <1>3, <2>1, <3>1
  <2>3. n \div PageUnits \in 0..AllPages - 1
    BY <2>1, <2>2, DivModRange
  <2> QED BY <1>1, <1>4, <2>3 DEF AllWanted
<1>6. VerifyStatus' = "ok"
  BY <1>1, <1>5 DEF Verified, DownloadInv
<1> QED BY <1>1, <1>3, <1>4, <1>6 DEF DownloadInv

\* What was said of the data is not changed when a reply is read.
LEMMA ReadReplyDownloads ==
  ASSUME SessionInv, DownloadInv, ReadReply
  PROVE  DownloadInv'
<1>1. /\ waiting /\ waiting' = FALSE /\ host' = AfterReply
      /\ hostPos' = IF AfterReply = host THEN hostPos ELSE 0
      /\ UNCHANGED <<image, eraseEvt, EraseBlockCnt, block_buf, prom_addr, VerifyStatus, want, clean>>
  BY DEF ReadReply, device, erasing
<1>2. host \in {"idle", "unknown", "info", "erase", "prom", "verify", "end"}
  BY DEF SessionInv, SessionTypeOK
<1>3. Progress' = Progress
  BY <1>1 DEF Progress
<1>4. \A n : DataInv(n)' <=> DataInv(n)
  BY <1>1, <1>3, Zenon DEF DataInv
<1>5. DataInv(hostPos)' <=> DataInv(hostPos')
  BY <1>1, <1>3, Zenon DEF DataInv
<1>6. AllWanted' <=> AllWanted
  BY <1>1 DEF AllWanted
<1> SUFFICES ASSUME clean PROVE DownloadInv'
  BY <1>1 DEF DownloadInv
<1>7. ASSUME host' = "prom" PROVE DataInv(hostPos)'
  <2>1. reply = "ok" /\ (host = "erase" \/ host = "prom")
    BY <1>1, <1>2, <1>7 DEF AfterReply
  <2>2. CASE host = "erase"
    BY <1>1, <1>5, <1>7, <2>1, <2>2 DEF DownloadInv
  <2>3. CASE host = "prom"
    BY <1>1, <1>5, <1>7, <2>3 DEF DownloadInv
  <2> QED BY <2>1, <2>2, <2>3
<1>8. ASSUME host' = "verify" PROVE IF hostPos' = 0 THEN DataInv(ImageUnits)' ELSE AllWanted'
  <2>1. (host = "prom" /\ hostPos = ImageUnits) \/ host = "verify"
    BY <1>1, <1>2, <1>8 DEF AfterReply
  <2>2. CASE host = "prom" /\ hostPos = ImageUnits
    BY <1>1, <1>4, <1>8, <2>2 DEF DownloadInv
  <2>3. CASE host = "verify"
    BY <1>1, <1>4, <1>6, <1>8, <2>3 DEF DownloadInv
  <2> QED BY <2>1, <2>2, <2>3
<1>9. VerifyStatus' = "ok"
  BY <1>1 DEF DownloadInv
<1> QED BY <1>1, <1>7, <1>8, <1>9 DEF DownloadInv

LEMMA CommandsDownload == ASSUME SessionInv, DownloadInv, Commands PROVE DownloadInv'
BY OtherDownloads, EraseDownloads, PromDownloads, VerifyDownloads DEF Commands

LEMMA DownloadInvVerifies == DownloadInv => CleanDownloadVerifies
BY DEF DownloadInv, CleanDownloadVerifies

LEMMA DownloadInvComplete == SessionInv /\ DownloadInv => NothingMissing
<1> SUFFICES ASSUME SessionInv, DownloadInv, host = "verify", clean, hostPos = 0,
                    NEW addr \in 0..AllPages - 1
             PROVE  PageAt(image, addr) = want \/ (addr = prom_addr /\ PageData(addr, block_buf) = want)
  BY DEF NothingMissing, PageAt
<1>1. DataInv(ImageUnits)
  BY DEF DownloadInv
<1>2. addr < prom_addr => PageAt(image, addr) = want
  BY <1>1, Zenon DEF DataInv
<1>3. AllPages \in Nat \ {0} /\ prom_addr \in 0..AllPages
  BY <1>1, PageCount DEF DataInv
<1>4. CASE block_buf = <<>>
  <2>1. addr < prom_addr
    BY <1>1, <1>3, <1>4, LastPage
  <2> QED BY <1>2, <2>1
<1>5. CASE block_buf # <<>>
  <2>1. prom_addr = AllPages - 1 /\ PageData(prom_addr, block_buf) = want
    BY <1>1, <1>5, LastPage
  <2>2. addr < prom_addr \/ addr = prom_addr
    BY <1>3, <2>1
  <2> QED BY <1>2, <2>1, <2>2
<1> QED BY <1>4, <1>5
=============================================================================

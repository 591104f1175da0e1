-------------------------- MODULE Lz4VerifyProofs --------------------------
(***************************************************************************)
(* Theorems of Lz4Verify, for any input, any place of it that cannot be    *)
(* read, any size of a chunk and any number of failures: an OK is true,    *)
(* and the verdict of a run without failures is known beforehand.          *)
(***************************************************************************)
EXTENDS Lz4Verify, TLAPS

\* What the functions read and write, units or not.
Units == 0..(MaxLength + 1)
FilesOK ==
  /\ size \in 0..MaxLength /\ bad \in 1..(size + 1) /\ p \in Nat
  /\ lz4 \in Seq(Units) /\ dec \in Seq(Units)

\* compareFiles has found the first p units of both files to be the same.
Compared ==
  pc = "verify" => p < bad /\ p <= Len(dec) /\ \A i \in 1..p : dec[i] = i

\* main writes no file after its verdict.
Ended == verdict # "none" => pc = "done"

Inv == FilesOK /\ Compared /\ Ended /\ VerifyMatchesReadable

\* A prefix of a file is a file of the same units.
LEMMA ClosedType ==
  ASSUME NEW file \in Seq(Units), NEW kept \in Closed(file)
  PROVE  kept \in Seq(Units)
<1>1. ASSUME NEW n \in 0..Len(file) PROVE SubSeq(file, 1, n) \in Seq(Units)
  OBVIOUS
<1>. QED
  BY <1>1 DEF Closed

\* Two sequences that agree with the unit numbers up to n are both 1, ..., n.
LEMMA SourcePrefix ==
  ASSUME NEW n \in 0..MaxLength, NEW s \in Seq(Units), Len(s) = n, \A i \in 1..n : s[i] = i
  PROVE  s = SubSeq(Source, 1, n)
<1>1. Source \in Seq(1..MaxLength) /\ Len(Source) = MaxLength
  BY Lz4Assumption DEF Source
<1>2. SubSeq(Source, 1, n) = [i \in 1..n |-> Source[i]]
  BY <1>1, Lz4Assumption
<1>3. s = [i \in 1..n |-> s[i]]
  OBVIOUS
<1>4. \A i \in 1..n : s[i] = Source[i]
  BY Lz4Assumption DEF Source
<1>. QED
  BY <1>2, <1>3, <1>4

\* The units a to b of the input.
LEMMA SourcePart ==
  ASSUME NEW a \in 1..(MaxLength + 1), NEW b \in 0..MaxLength, a <= b + 1
  PROVE  /\ SubSeq(Source, a, b) \in Seq(Units)
         /\ Len(SubSeq(Source, a, b)) = b + 1 - a
         /\ \A i \in 1..(b + 1 - a) : SubSeq(Source, a, b)[i] = a + i - 1
<1>1. Source \in Seq(Units) /\ Len(Source) = MaxLength
  BY Lz4Assumption DEF Source, Units
<1>2. SubSeq(Source, a, b) = [i \in 1..(b + 1 - a) |-> Source[a + i - 1]]
  BY <1>1, Lz4Assumption
<1>3. \A i \in 1..(b + 1 - a) : Source[a + i - 1] = a + i - 1
  BY Lz4Assumption DEF Source
<1>4. \A i \in 1..(b + 1 - a) : Source[a + i - 1] \in Units
  BY Lz4Assumption, <1>3 DEF Units
<1>. QED
  BY <1>2, <1>3, <1>4, Lz4Assumption

\* A chunk that is read leads from a place in the input to a later one.
LEMMA ChunkEndType ==
  ASSUME FilesOK, ChunkRead
  PROVE  ChunkEnd \in 1..size /\ p < ChunkEnd /\ ChunkEnd < bad
BY Lz4Assumption DEF FilesOK, ChunkRead, ChunkEnd

\* What is read of it.
LEMMA ChunkType ==
  ASSUME FilesOK, ChunkRead
  PROVE  /\ SubSeq(Source, p + 1, ChunkEnd) \in Seq(Units)
         /\ Len(SubSeq(Source, p + 1, ChunkEnd)) = ChunkEnd - p
         /\ \A i \in 1..(ChunkEnd - p) : SubSeq(Source, p + 1, ChunkEnd)[i] = p + i
<1>1. p + 1 \in 1..(MaxLength + 1) /\ ChunkEnd \in 0..MaxLength /\ p + 1 <= ChunkEnd + 1
      /\ p \in Nat /\ ChunkEnd \in Nat
  BY ChunkEndType, Lz4Assumption DEF FilesOK
<1>2. /\ SubSeq(Source, p + 1, ChunkEnd) \in Seq(Units)
      /\ Len(SubSeq(Source, p + 1, ChunkEnd)) = ChunkEnd + 1 - (p + 1)
      /\ \A i \in 1..(ChunkEnd + 1 - (p + 1)) :
            SubSeq(Source, p + 1, ChunkEnd)[i] = (p + 1) + i - 1
  BY ONLY <1>1, SourcePart
<1>3. ChunkEnd + 1 - (p + 1) = ChunkEnd - p
  BY <1>1
<1>4. ASSUME NEW i \in 1..(ChunkEnd - p) PROVE SubSeq(Source, p + 1, ChunkEnd)[i] = p + i
  <2>1. (p + 1) + i - 1 = p + i
    BY <1>1
  <2>. QED
    BY <1>2, <1>3, <2>1
<1>. QED
  BY <1>2, <1>3, <1>4

\* Every step of main keeps the invariant.
LEMMA InvStep == Inv /\ [Next]_vars => Inv'
<1>. SUFFICES ASSUME Inv, [Next]_vars PROVE Inv'
  OBVIOUS
<1>. USE Lz4Assumption DEF Inv, FilesOK, Compared, Ended, VerifyMatchesReadable
<1>1. CASE CompressChunk
  <2>1. SubSeq(Source, p + 1, ChunkEnd) \in Seq(Units) /\ ChunkEnd \in Nat
    BY <1>1, ChunkEndType, ChunkType DEF CompressChunk
  <2>. QED
    BY <1>1, <2>1 DEF CompressChunk
<1>2. CASE CompressWriteFails \/ CompressReadStops
  BY <1>2 DEF CompressWriteFails, CompressReadStops
<1>3. CASE CloseArchive
  <2>1. Append(lz4, EndMark) \in Seq(Units)
    BY DEF EndMark, Units
  <2>. QED
    BY <1>3, <2>1, ClosedType DEF CloseArchive
<1>4. CASE CloseArchiveFails \/ OpenArchive \/ OpenArchiveFails \/ DecompressFails
  BY <1>4 DEF CloseArchiveFails, OpenArchive, OpenArchiveFails, DecompressFails, End
<1>5. CASE DecompressChunk
  BY <1>5 DEF DecompressChunk, AtEnd
<1>6. CASE DecompressEnd
  BY <1>6, ClosedType DEF DecompressEnd
<1>7. CASE CompareEqual
  BY <1>7 DEF CompareEqual, InputRead, DecRead, Source
<1>8. CASE CompareEnd
  <2>1. verdict' = "ok" => p = bad - 1 /\ Len(dec) = bad - 1
    BY <1>8 DEF CompareEnd, InputRead, DecRead, End
  <2>2. verdict' = "ok" => dec = SubSeq(Source, 1, bad - 1)
    BY <1>8, <2>1, SourcePrefix DEF CompareEnd
  <2>. QED
    BY <1>8, <2>2 DEF CompareEnd, End
<1>9. CASE Done \/ UNCHANGED vars
  BY <1>9 DEF Done, vars
<1>. QED
  BY <1>1, <1>2, <1>3, <1>4, <1>5, <1>6, <1>7, <1>8, <1>9 DEF Next, Compress, Decompress, Compare

\* "verify : OK" is only ever said of a file equal to what can be read of
\* the input, whichever reads and writes failed on the way.
THEOREM VerifySound == Spec => []VerifyMatchesReadable
<1>1. Init => Inv
  BY Lz4Assumption DEF Init, Inv, FilesOK, Compared, Ended, VerifyMatchesReadable, Units, Header
<1>2. Inv => VerifyMatchesReadable
  BY DEF Inv
<1>. QED
  BY <1>1, <1>2, InvStep, PTL DEF Spec

\* The remainder of a number that is a multiple of c, and y more.
LEMMA Remainder ==
  ASSUME NEW c \in Nat \ {0}, NEW x \in Nat, NEW k \in Nat, NEW y \in 0..(c - 1), x = k * c + y
  PROVE  x % c = y
OBVIOUS

\* The multiple after a multiple.
LEMMA NextMultiple ==
  ASSUME NEW c \in Nat \ {0}, NEW x \in Nat, x % c = 0
  PROVE  (x + c) % c = 0
<1>1. x = (x \div c) * c + 0 /\ x \div c \in Nat
  OBVIOUS
<1>2. PICK k \in Nat : x = k * c
  BY <1>1
<1>3. x + c = (k + 1) * c + 0 /\ k + 1 \in Nat
  BY <1>2
<1>. HIDE <1>2
<1>4. 0 \in 0..(c - 1) /\ x + c \in Nat
  OBVIOUS
<1>. QED
  BY ONLY <1>3, <1>4, Remainder, c \in Nat \ {0}

\* A number between a multiple of c and the next one.
LEMMA AboveMultiple ==
  ASSUME NEW c \in Nat \ {0}, NEW x \in Nat, NEW y \in 0..(c - 1), x % c = 0
  PROVE  (x + y) % c = y
OBVIOUS

\* No more is archived than can be read.
LEMMA ArchivedType ==
  ASSUME FilesOK
  PROVE  Archived \in 0..size /\ Archived < bad
<1>1. ASSUME NEW x \in Nat PROVE x % ChunkSize \in 0..(ChunkSize - 1) /\ x % ChunkSize <= x
  BY Lz4Assumption
<1>2. bad - 1 \in Nat
  BY DEF FilesOK
<1>3. (bad - 1) % ChunkSize \in Nat /\ (bad - 1) % ChunkSize <= bad - 1
  BY <1>1, <1>2, Lz4Assumption
<1>. QED
  BY <1>2, <1>3, Lz4Assumption DEF FilesOK, Archived

\* Where compress_file is between two reads of whole chunks.
AtChunk == p <= size /\ p < bad /\ (p = size \/ p % ChunkSize = 0)

\* It stops, with no other failure, where the chunk of the unreadable place
\* begins.
LEMMA ArchivedAtStop ==
  ASSUME FilesOK, AtChunk, ~ChunkRead
  PROVE  Archived = p
<1>. USE Lz4Assumption DEF FilesOK, AtChunk
<1>1. CASE bad > size
  BY <1>1 DEF Archived, ChunkRead, ChunkEnd
<1>2. CASE bad <= size
  <2>1. p % ChunkSize = 0 /\ p < size
    BY <1>2
  <2>2. bad <= p + ChunkSize
    BY <1>2, <2>1 DEF ChunkRead, ChunkEnd
  <2>3. (bad - 1) - p \in 0..(ChunkSize - 1)
    BY <2>2
  <2>4. (p + ((bad - 1) - p)) % ChunkSize = (bad - 1) - p
    BY ONLY <2>1, <2>3, AboveMultiple, Lz4Assumption, p \in Nat
  <2>5. p + ((bad - 1) - p) = bad - 1
    OBVIOUS
  <2>6. (bad - 1) % ChunkSize = (bad - 1) - p
    BY <2>4, <2>5
  <2>. QED
    BY <1>2, <2>6 DEF Archived
<1>. QED
  BY <1>1, <1>2

\* The end of a chunk that was read is again such a place.
LEMMA AtNextChunk ==
  ASSUME FilesOK, AtChunk, ChunkRead
  PROVE  ChunkEnd <= size /\ ChunkEnd < bad /\ (ChunkEnd = size \/ ChunkEnd % ChunkSize = 0)
<1>1. p % ChunkSize = 0
  BY Lz4Assumption DEF FilesOK, AtChunk, ChunkRead
<1>2. (p + ChunkSize) % ChunkSize = 0
  BY <1>1, NextMultiple, Lz4Assumption DEF FilesOK
<1>3. ChunkEnd = size \/ ChunkEnd = p + ChunkSize
  BY DEF ChunkEnd
<1>4. ChunkEnd = size \/ ChunkEnd % ChunkSize = 0
  BY <1>2, <1>3
<1>. QED
  BY <1>4, ChunkEndType DEF FilesOK

\* As long as nothing but the unreadable place has failed: the archive is the
\* units of the chunks before that place, between its header and its end
\* mark, the decompressed file is a prefix of the same units, and main has
\* given the verdict they call for.
ArchiveClean ==
  /\ intact
  /\ pc = "compress" => AtChunk /\ Len(lz4) = p + 1
  /\ pc = "close" => Len(lz4) = Archived + 1
  /\ pc \in {"compress", "close"} => \A i \in 2..Len(lz4) : lz4[i] = i - 1
  /\ pc \in {"open", "decompress"} =>
       /\ Len(lz4) = Archived + 2 /\ lz4[Archived + 2] = EndMark
       /\ \A i \in 2..(Archived + 1) : lz4[i] = i - 1

DecClean ==
  /\ pc \in {"compress", "close", "open"} => dec = <<>>
  /\ pc = "decompress" => Archived >= Smallest /\ p \in 1..(Archived + 1) /\ Len(dec) = p - 1
  /\ pc = "verify" => Archived >= Smallest /\ Len(dec) = Archived
  /\ pc \in {"decompress", "verify"} => \A i \in 1..Len(dec) : dec[i] = i

CleanInv ==
  /\ faults \in Nat
  /\ faults = 0 => ArchiveClean /\ DecClean /\ FaultlessVerdict

\* An fclose that costs no fault keeps the whole file.
LEMMA CloseClean ==
  ASSUME NEW file \in Seq(Units), NEW kept \in Closed(file), CountLoss(file, kept),
         faults \in Nat
  PROVE  faults' \in Nat /\ (faults' = 0 => faults = 0 /\ kept = file)
BY DEF CountLoss

\* Every step keeps the files clean while nothing fails.
LEMMA CleanStep == Inv /\ CleanInv /\ [Next]_vars => CleanInv'
<1>. SUFFICES ASSUME Inv, CleanInv, [Next]_vars PROVE CleanInv'
  OBVIOUS
<1>. USE Lz4Assumption DEF Inv, FilesOK, Compared, Ended, CleanInv
<1>a. /\ Archived \in 0..size /\ Archived < bad /\ size' = size /\ bad' = bad
      /\ Archived' = Archived
  <2>1. Archived \in 0..size /\ Archived < bad
    BY ArchivedType
  <2>2. size' = size /\ bad' = bad
    BY DEF Next, Compress, Decompress, Compare, CompressChunk, CompressWriteFails,
       CompressReadStops, CloseArchive, CloseArchiveFails, OpenArchive, OpenArchiveFails,
       DecompressChunk, DecompressFails, DecompressEnd, CompareEqual, CompareEnd, Done, vars
  <2>. QED
    BY <2>1, <2>2 DEF Archived
<1>b. ASSUME verdict' = verdict, faults' = faults
      PROVE  (faults = 0 => FaultlessVerdict) => (faults' = 0 => FaultlessVerdict')
  BY <1>a, <1>b DEF FaultlessVerdict
<1>1. CASE CompressChunk
  <2>. SUFFICES ASSUME faults = 0 PROVE ArchiveClean' /\ DecClean' /\ FaultlessVerdict'
    BY <1>1 DEF CompressChunk
  <2>. DEFINE chunk == SubSeq(Source, p + 1, ChunkEnd)
  <2>1. /\ pc = "compress" /\ ChunkRead /\ lz4' = lz4 \o chunk /\ p' = ChunkEnd
        /\ UNCHANGED <<pc, intact, dec, verdict, faults>>
    BY <1>1 DEF CompressChunk
  <2>2. /\ ArchiveClean /\ DecClean /\ AtChunk /\ Len(lz4) = p + 1
        /\ \A i \in 2..Len(lz4) : lz4[i] = i - 1
    BY <2>1 DEF ArchiveClean
  <2>3. ChunkEnd \in 1..size /\ p < ChunkEnd
    BY <2>1, ChunkEndType
  <2>4. /\ chunk \in Seq(Units) /\ Len(chunk) = ChunkEnd - p
        /\ \A i \in 1..(ChunkEnd - p) : chunk[i] = p + i
    BY <2>1, ChunkType
  <2>. HIDE DEF chunk
  <2>5. Len(lz4') = ChunkEnd + 1
    <3>1. lz4 \in Seq(Units) /\ chunk \in Seq(Units)
      BY <2>4
    <3>2. Len(lz4 \o chunk) = Len(lz4) + Len(chunk)
      BY ONLY <3>1
    <3>3. Len(lz4 \o chunk) = (p + 1) + (ChunkEnd - p)
      BY ONLY <2>2, <2>4, <3>2
    <3>. QED
      BY ONLY <2>1, <2>3, <3>3, p \in Nat, size \in 0..MaxLength, MaxLength \in Nat
  <2>6. ASSUME NEW i \in 2..(ChunkEnd + 1) PROVE lz4'[i] = i - 1
    <3>1. CASE i <= p + 1
      BY <2>1, <2>2, <2>4, <3>1
    <3>2. CASE i > p + 1
      <4>1. lz4'[i] = chunk[i - (p + 1)]
        BY <2>1, <2>2, <2>3, <2>4, <3>2
      <4>2. i - (p + 1) \in 1..(ChunkEnd - p)
        BY <2>3, <3>2
      <4>. QED
        BY <2>3, <2>4, <4>1, <4>2
    <3>. QED
      BY <2>3, <3>1, <3>2
  <2>7. AtChunk'
    <3>1. ChunkEnd <= size /\ ChunkEnd < bad /\ (ChunkEnd = size \/ ChunkEnd % ChunkSize = 0)
      BY <2>1, <2>2, AtNextChunk
    <3>. QED
      BY <1>a, <2>1, <3>1 DEF AtChunk
  <2>8. ArchiveClean'
    BY <2>1, <2>2, <2>5, <2>6, <2>7 DEF ArchiveClean
  <2>. QED
    BY <1>b, <2>1, <2>2, <2>8 DEF DecClean
<1>2. CASE CompressWriteFails \/ CloseArchiveFails \/ DecompressFails
  BY <1>2 DEF CompressWriteFails, CloseArchiveFails, DecompressFails, Fault
<1>3. CASE CompressReadStops
  <2>. SUFFICES ASSUME faults' = 0 PROVE ArchiveClean' /\ DecClean' /\ FaultlessVerdict'
    BY <1>3 DEF CompressReadStops, Fault
  <2>1. /\ pc = "compress" /\ ~ChunkRead /\ pc' = "close" /\ faults = 0
        /\ UNCHANGED <<p, lz4, intact, dec, verdict, faults>>
    BY <1>3 DEF CompressReadStops, Fault
  <2>2. ArchiveClean /\ DecClean /\ AtChunk
    BY <2>1 DEF ArchiveClean
  <2>3. Archived = p
    BY <2>1, <2>2, ArchivedAtStop
  <2>4. ArchiveClean'
    BY <1>a, <2>1, <2>2, <2>3 DEF ArchiveClean
  <2>. QED
    BY <1>b, <2>1, <2>2, <2>4 DEF DecClean
<1>4. CASE CloseArchive
  <2>. DEFINE file == IF intact THEN Append(lz4, EndMark) ELSE lz4
  <2>1. PICK kept \in Closed(file) : lz4' = kept /\ CountLoss(file, kept)
    BY <1>4 DEF CloseArchive
  <2>2. file \in Seq(Units)
    <3>1. EndMark \in Units
      BY DEF EndMark, Units
    <3>2. Append(lz4, EndMark) \in Seq(Units)
      BY <3>1
    <3>. QED
      BY <3>2
  <2>3. faults' \in Nat /\ (faults' = 0 => faults = 0 /\ kept = file)
    BY <2>1, <2>2, CloseClean
  <2>. SUFFICES ASSUME faults' = 0 PROVE ArchiveClean' /\ DecClean' /\ FaultlessVerdict'
    BY <2>3
  <2>4. /\ pc = "close" /\ pc' = "open" /\ lz4' = Append(lz4, EndMark)
        /\ ArchiveClean /\ DecClean /\ Len(lz4) = Archived + 1
        /\ UNCHANGED <<p, intact, dec, verdict, faults>>
    BY <1>4, <2>1, <2>3 DEF CloseArchive, ArchiveClean
  <2>5. /\ Len(lz4') = Archived + 2 /\ lz4'[Archived + 2] = EndMark
        /\ \A i \in 1..(Archived + 1) : lz4'[i] = lz4[i]
    BY <1>a, <2>4 DEF EndMark, Units
  <2>6. \A i \in 2..(Archived + 1) : lz4'[i] = i - 1
    BY <1>a, <2>4, <2>5 DEF ArchiveClean
  <2>7. ArchiveClean'
    BY <1>a, <2>4, <2>5, <2>6 DEF ArchiveClean
  <2>. QED
    BY <1>b, <2>4, <2>7 DEF DecClean
<1>5. CASE OpenArchive
  <2>. SUFFICES ASSUME faults = 0 PROVE ArchiveClean' /\ DecClean' /\ FaultlessVerdict'
    BY <1>5 DEF OpenArchive
  <2>1. /\ pc = "open" /\ pc' = "decompress" /\ p' = 1
        /\ UNCHANGED <<lz4, intact, dec, verdict, faults>>
        /\ ArchiveClean /\ DecClean /\ dec = <<>>
        /\ Len(lz4) = Archived + 2 /\ lz4[Archived + 2] = EndMark
    BY <1>5 DEF OpenArchive, ArchiveClean, DecClean
  <2>2. Archived >= Smallest
    BY <1>5, <1>a, <2>1 DEF OpenArchive, Cut, TooSmall
  <2>3. ArchiveClean'
    BY <1>a, <2>1 DEF ArchiveClean
  <2>4. DecClean'
    BY <1>a, <2>1, <2>2 DEF DecClean
  <2>. QED
    BY <1>b, <2>1, <2>3, <2>4
<1>6. CASE OpenArchiveFails
  <2>. SUFFICES ASSUME faults = 0 PROVE ArchiveClean' /\ DecClean' /\ FaultlessVerdict'
    BY <1>6 DEF OpenArchiveFails
  <2>1. /\ pc = "open" /\ pc' = "done" /\ verdict' = "error"
        /\ UNCHANGED <<p, lz4, intact, dec, faults>>
        /\ ArchiveClean /\ DecClean
        /\ Len(lz4) = Archived + 2 /\ lz4[Archived + 2] = EndMark
    BY <1>6 DEF OpenArchiveFails, End, ArchiveClean, DecClean
  <2>2. Archived < Smallest
    BY <1>6, <1>a, <2>1 DEF OpenArchiveFails, Cut, TooSmall
  <2>. QED
    BY <1>a, <2>1, <2>2 DEF ArchiveClean, DecClean, FaultlessVerdict
<1>7. CASE DecompressChunk
  <2>. SUFFICES ASSUME faults = 0 PROVE ArchiveClean' /\ DecClean' /\ FaultlessVerdict'
    BY <1>7 DEF DecompressChunk
  <2>1. /\ pc = "decompress" /\ p < Len(lz4) /\ lz4[p + 1] # EndMark
        /\ dec' = Append(dec, lz4[p + 1]) /\ p' = p + 1
        /\ UNCHANGED <<pc, lz4, intact, verdict, faults>>
        /\ ArchiveClean /\ DecClean
    BY <1>7 DEF DecompressChunk, AtEnd
  <2>2. /\ Len(lz4) = Archived + 2 /\ lz4[Archived + 2] = EndMark /\ Archived >= Smallest
        /\ p \in 1..(Archived + 1) /\ Len(dec) = p - 1 /\ \A i \in 1..Len(dec) : dec[i] = i
    BY <2>1 DEF ArchiveClean, DecClean
  <2>3. p + 1 <= Archived + 1
    BY <1>a, <2>1, <2>2
  <2>4. lz4[p + 1] = p
    BY <1>a, <2>1, <2>2, <2>3 DEF ArchiveClean
  <2>5. dec' = Append(dec, p) /\ Len(dec') = p /\ \A i \in 1..Len(dec') : dec'[i] = i
    BY <2>1, <2>2, <2>4
  <2>6. ArchiveClean'
    BY <1>a, <2>1 DEF ArchiveClean
  <2>7. DecClean'
    BY <1>a, <2>1, <2>2, <2>3, <2>5 DEF DecClean
  <2>. QED
    BY <1>b, <2>1, <2>6, <2>7
<1>8. CASE DecompressEnd
  <2>1. PICK kept \in Closed(dec) : dec' = kept /\ CountLoss(dec, kept)
    BY <1>8 DEF DecompressEnd
  <2>2. faults' \in Nat /\ (faults' = 0 => faults = 0 /\ kept = dec)
    BY <2>1, CloseClean
  <2>. SUFFICES ASSUME faults' = 0 PROVE ArchiveClean' /\ DecClean' /\ FaultlessVerdict'
    BY <2>2
  <2>3. /\ pc = "decompress" /\ (p < Len(lz4) => lz4[p + 1] = EndMark)
        /\ pc' = "verify" /\ p' = 0 /\ dec' = dec
        /\ UNCHANGED <<lz4, intact, verdict, faults>>
        /\ ArchiveClean /\ DecClean
    BY <1>8, <2>1, <2>2 DEF DecompressEnd, AtEnd
  <2>4. /\ Len(lz4) = Archived + 2 /\ Archived >= Smallest /\ p \in 1..(Archived + 1)
        /\ Len(dec) = p - 1 /\ \A i \in 1..Len(dec) : dec[i] = i
    BY <2>3 DEF ArchiveClean, DecClean
  <2>5. p <= Archived => lz4[p + 1] = p
    BY <1>a, <2>3, <2>4 DEF ArchiveClean
  <2>6. p = Archived + 1
    BY <1>a, <2>3, <2>4, <2>5 DEF EndMark
  <2>7. ArchiveClean'
    BY <2>3 DEF ArchiveClean
  <2>8. DecClean'
    BY <1>a, <2>3, <2>4, <2>6 DEF DecClean
  <2>. QED
    BY <1>b, <2>3, <2>7, <2>8
<1>9. CASE CompareEqual
  <2>1. /\ pc = "verify" /\ UNCHANGED <<pc, lz4, intact, dec, verdict, faults>>
    BY <1>9 DEF CompareEqual
  <2>. QED
    BY <1>a, <1>b, <2>1 DEF ArchiveClean, DecClean
<1>10. CASE CompareEnd
  <2>. SUFFICES ASSUME faults = 0 PROVE ArchiveClean' /\ DecClean' /\ FaultlessVerdict'
    BY <1>10 DEF CompareEnd
  <2>1. /\ pc = "verify" /\ pc' = "done" /\ UNCHANGED <<p, lz4, intact, dec, faults>>
        /\ ArchiveClean /\ DecClean
    BY <1>10 DEF CompareEnd, End
  <2>2. /\ Archived >= Smallest /\ Len(dec) = Archived /\ p <= Len(dec)
        /\ \A i \in 1..Len(dec) : dec[i] = i
    BY <2>1 DEF DecClean
  <2>3. p < Archived => InputRead /\ DecRead /\ dec[p + 1] = Source[p + 1]
    BY <1>a, <2>2 DEF InputRead, DecRead, Source
  <2>4. p = Archived /\ ~DecRead
    BY <1>10, <1>a, <2>2, <2>3 DEF CompareEnd, DecRead, End
  <2>5. InputRead <=> Archived < bad - 1
    BY <1>a, <2>4 DEF InputRead
  <2>6. verdict' = IF Archived < bad - 1 THEN "corrupt" ELSE "ok"
    BY <1>10, <2>4, <2>5 DEF CompareEnd, End
  <2>. QED
    BY <1>a, <2>1, <2>2, <2>6 DEF ArchiveClean, DecClean, FaultlessVerdict
<1>11. CASE Done \/ UNCHANGED vars
  <2>1. UNCHANGED vars
    BY <1>11 DEF Done
  <2>. QED
    BY <1>a, <1>b, <2>1 DEF vars, ArchiveClean, DecClean, AtChunk
<1>. QED
  BY <1>1, <1>2, <1>3, <1>4, <1>5, <1>6, <1>7, <1>8, <1>9, <1>10, <1>11
     DEF Next, Compress, Decompress, Compare

\* While nothing fails but the reads of the unreadable place, the verdict
\* follows from the input, that place and the size of a chunk alone: of an
\* input that can be read and is not too small it is OK, whatever its length.
THEOREM VerdictWithoutFault == Spec => []FaultlessVerdict
<1>1. Init => Inv /\ CleanInv
  <2>. SUFFICES ASSUME Init PROVE Inv /\ CleanInv
    OBVIOUS
  <2>1. Inv
    BY Lz4Assumption DEF Init, Inv, FilesOK, Compared, Ended, VerifyMatchesReadable, Units, Header
  <2>2. 0 % ChunkSize = 0
    BY Lz4Assumption
  <2>3. ArchiveClean /\ DecClean /\ FaultlessVerdict
    BY <2>2, Lz4Assumption DEF Init, ArchiveClean, AtChunk, DecClean, FaultlessVerdict
  <2>. QED
    BY <2>1, <2>3 DEF Init, CleanInv
<1>2. Inv /\ CleanInv => FaultlessVerdict
  BY DEF CleanInv, FaultlessVerdict
<1>. QED
  BY <1>1, <1>2, InvStep, CleanStep, PTL DEF Spec

=============================================================================

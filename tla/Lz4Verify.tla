----------------------------- MODULE Lz4Verify -----------------------------
(***************************************************************************)
(* LZ4Demo.cpp: main compresses a file, decompresses the archive into a    *)
(* second file and compares that file with the first.  A file is a         *)
(* sequence of units, unit i of the input is i; an archive is a header,    *)
(* units and an end mark.  compress_file reads the input in chunks of many *)
(* units and drops a chunk it cannot read to its end; compareFiles keeps   *)
(* what it gets of a read, which is unit by unit here.  Files that cannot  *)
(* be opened are left out (main asserts or dereferences NULL).  The LZ4    *)
(* frame library is external and gives back what it was given; stdio may   *)
(* fail to read a place of the input on every attempt (bad) or once, and   *)
(* may report a failed write, or lose it in the fclose whose result main   *)
(* ignores.  A read of the comparison fails only where the input is bad.   *)
(***************************************************************************)
EXTENDS Naturals, Sequences

CONSTANTS MaxLength, \* bound: units of the longest input
          ChunkSize, \* CHUNK_SIZE in units
          Smallest,  \* units of the smallest input whose archive can be opened
          MaxFaults  \* bound: reads and writes that fail once

ASSUME Lz4Assumption ==
  /\ MaxLength \in Nat /\ MaxFaults \in Nat
  /\ ChunkSize \in Nat \ {0} /\ Smallest \in Nat \ {0}

\* The longest input; an input is its first "size" units.
Source == [i \in 1..MaxLength |-> i]
Header == 0
EndMark == MaxLength + 1

VARIABLES
  pc,       \* where main is
  size,     \* units of the input
  bad,      \* its first unit that cannot be read; size + 1: none
  p,        \* units the running function has read
  lz4,      \* the archive
  intact,   \* no LZ4F_write has failed
  dec,      \* the decompressed file
  verdict,  \* how main ended: "ok" is "verify : OK"
  faults    \* failures so far

vars == <<pc, size, bad, p, lz4, intact, dec, verdict, faults>>

Init ==
  /\ pc = "compress" /\ p = 0
  /\ size \in 0..MaxLength /\ bad \in 1..(size + 1)
  /\ lz4 = <<Header>> /\ intact = TRUE
  /\ dec = <<>>
  /\ verdict = "none"
  /\ faults = 0

Fault == faults < MaxFaults /\ faults' = faults + 1
End(v) == pc' = "done" /\ verdict' = v

\* What a file holds once fclose has written the buffer out, or part of it.
Closed(file) ==
  {file} \cup (IF faults < MaxFaults THEN {SubSeq(file, 1, n) : n \in 0..Len(file)} ELSE {})
CountLoss(file, kept) == faults' = IF kept = file THEN faults ELSE faults + 1

-----------------------------------------------------------------------------
(* compress_file                                                           *)

\* Where the next fread ends, unless a unit on the way cannot be read.
ChunkEnd == IF p + ChunkSize < size THEN p + ChunkSize ELSE size
ChunkRead == p < size /\ ChunkEnd < bad

CompressChunk ==
  /\ pc = "compress" /\ ChunkRead
  /\ lz4' = lz4 \o SubSeq(Source, p + 1, ChunkEnd) /\ p' = ChunkEnd
  /\ UNCHANGED <<pc, size, bad, intact, dec, verdict, faults>>

\* A failed LZ4F_write leaves the loop too, and the units that the library
\* had not written yet are lost.
CompressWriteFails ==
  /\ pc = "compress" /\ ChunkRead /\ Fault
  /\ \E n \in 1..Len(lz4) : lz4' = SubSeq(lz4, 1, n)
  /\ intact' = FALSE /\ pc' = "close"
  /\ UNCHANGED <<size, bad, p, dec, verdict>>

\* fread comes back empty at the end of the file, or with an error, and then
\* the units it did read are dropped: both leave the loop for
\* LZ4F_writeClose.
CompressReadStops ==
  /\ pc = "compress"
  /\ \/ ~ChunkRead /\ UNCHANGED faults
     \/ ChunkRead /\ Fault
  /\ pc' = "close"
  /\ UNCHANGED <<size, bad, p, lz4, intact, dec, verdict>>

\* LZ4F_writeClose writes the end mark unless a write has failed; then fclose.
CloseArchive ==
  /\ pc = "close"
  /\ LET file == IF intact THEN Append(lz4, EndMark) ELSE lz4 IN
     \E kept \in Closed(file) : lz4' = kept /\ CountLoss(file, kept)
  /\ pc' = "open"
  /\ UNCHANGED <<size, bad, p, intact, dec, verdict>>

CloseArchiveFails ==
  /\ pc = "close" /\ intact /\ Fault
  /\ End("error")
  /\ UNCHANGED <<size, bad, p, lz4, intact, dec>>

-----------------------------------------------------------------------------
(* decompress_file                                                         *)

\* LZ4F_readOpen of the linked lz4 1.9.4 refuses an archive of less than
\* LZ4F_HEADER_SIZE_MAX (19) bytes.  A whole one is 7 bytes of header, 4 of
\* block header, the data and 4 of end mark; one that has lost its end may be
\* on either side, with a part of a block or without the end mark.
TooSmall == Len(lz4) < Smallest + 2
Cut == \A i \in 1..Len(lz4) : lz4[i] # EndMark

OpenArchive ==
  /\ pc = "open" /\ (IF Cut THEN lz4 # <<>> ELSE ~TooSmall)
  /\ pc' = "decompress" /\ p' = 1
  /\ UNCHANGED <<size, bad, lz4, intact, dec, verdict, faults>>

OpenArchiveFails ==
  /\ pc = "open" /\ (TooSmall \/ Cut)
  /\ End("error")
  /\ UNCHANGED <<size, bad, p, lz4, intact, dec, faults>>

\* An archive that ends without its end mark ends all the same.
AtEnd == p < Len(lz4) => lz4[p + 1] = EndMark

DecompressChunk ==
  /\ pc = "decompress" /\ ~AtEnd
  /\ dec' = Append(dec, lz4[p + 1]) /\ p' = p + 1
  /\ UNCHANGED <<pc, size, bad, lz4, intact, verdict, faults>>

\* LZ4F_read or fwrite reports an error.
DecompressFails ==
  /\ pc = "decompress" /\ Fault
  /\ End("error")
  /\ UNCHANGED <<size, bad, p, lz4, intact, dec>>

\* Mutant: the last unit is not written.
DecompressShort ==
  /\ pc = "decompress" /\ AtEnd
  /\ dec' = IF dec = <<>> THEN dec ELSE SubSeq(dec, 1, Len(dec) - 1)
  /\ pc' = "verify" /\ p' = 0
  /\ UNCHANGED <<size, bad, lz4, intact, verdict, faults>>

DecompressEnd ==
  /\ pc = "decompress" /\ AtEnd
  /\ \E kept \in Closed(dec) : dec' = kept /\ CountLoss(dec, kept)
  /\ pc' = "verify" /\ p' = 0
  /\ UNCHANGED <<size, bad, lz4, intact, verdict>>

-----------------------------------------------------------------------------
(* compareFiles                                                            *)

InputRead == p + 1 < bad
DecRead == p + 1 <= Len(dec)

CompareEqual ==
  /\ pc = "verify" /\ InputRead /\ DecRead /\ dec[p + 1] = Source[p + 1]
  /\ p' = p + 1
  /\ UNCHANGED <<pc, size, bad, lz4, intact, dec, verdict, faults>>

\* Mutant: lengths are not compared.
CompareCommon ==
  /\ pc = "verify"
  /\ IF InputRead /\ DecRead
     THEN dec[p + 1] # Source[p + 1] /\ End("corrupt")
     ELSE End("ok")
  /\ UNCHANGED <<size, bad, p, lz4, intact, dec, faults>>

\* Different amounts or bytes are read, or nothing from both.
CompareEnd ==
  /\ pc = "verify"
  /\ IF InputRead /\ DecRead
     THEN dec[p + 1] # Source[p + 1] /\ End("corrupt")
     ELSE End(IF InputRead \/ DecRead THEN "corrupt" ELSE "ok")
  /\ UNCHANGED <<size, bad, p, lz4, intact, dec, faults>>

Done == pc = "done" /\ UNCHANGED vars

Compress == CompressChunk \/ CompressWriteFails \/ CompressReadStops
            \/ CloseArchive \/ CloseArchiveFails
Decompress == OpenArchive \/ OpenArchiveFails
              \/ DecompressChunk \/ DecompressFails \/ DecompressEnd
Compare == CompareEqual \/ CompareEnd

Next == Compress \/ Decompress \/ Compare \/ Done

Spec == Init /\ [][Next]_vars

-----------------------------------------------------------------------------
(* Properties                                                              *)

\* "verify : OK" means that the decompressed file is all that can be read of
\* the input: reports that main ignores (a failed write, a failed fclose, a
\* truncated archive that LZ4F_read does not report, a read that failed
\* once) do not get past the comparison.
VerifyMatchesReadable == verdict = "ok" => dec = SubSeq(Source, 1, bad - 1)

\* The units that compress_file passes on when nothing fails but the reads of
\* the unreadable place: those before the chunk that place is in.
Archived == IF bad > size THEN size ELSE (bad - 1) - ((bad - 1) % ChunkSize)

\* While nothing else fails, main refuses what is too small to be opened,
\* reports an input that turns unreadable in the middle of a chunk, of which
\* the comparison reads more than was compressed, and says OK of every other:
\* an input that can be read, and is not too small, is never reported.
FaultlessVerdict ==
  faults = 0 /\ verdict # "none" =>
    verdict = IF Archived < Smallest THEN "error"
              ELSE IF Archived < bad - 1 THEN "corrupt" ELSE "ok"

\* LZ4Demo.cpp:224: a decompressed file that differs from the original is
\* reported as corrupt.
VerifyDetects == verdict = "ok" => dec = SubSeq(Source, 1, size)

=============================================================================

------------------------- MODULE CodecStreamsProofs -------------------------
(***************************************************************************)
(* The loops of zlibDemo and minizDemo, for every size of the buffers and  *)
(* of the source, every expansion of the codec and any number of faults:   *)
(* success means that all of the source went through the codec, all that   *)
(* zlibDemo's compressFile could read of it, and all of the output to the  *)
(* destination, but for what unchecked writes lost, and without faults an  *)
(* intact source that is not too large succeeds.                           *)
(***************************************************************************)
EXTENDS CodecStreams, TLAPS

-----------------------------------------------------------------------------
(* The inductive invariant                                                 *)

\* Input is read only where the last is used up: zlibDemo leaves the inner
\* loop when the output buffer has room, and then the codec has no input left.
InputUsed ==
  /\ program \in Zlib /\ pc \in {"open", "read"} => availIn = 0
  /\ pc = "write" => availIn = 0 \/ outLen = BufSize

\* The end of the source.
EndRead ==
  /\ eof /\ ~sourceBad => pos = size
  /\ sourceBad => eof /\ program \in Zlib
  /\ program \in Compress => intact

\* The codec makes its end once it has used all that it will be given, which is
\* all of the source but for zlibDemo's compressFile after a failed read, and
\* zlibDemo reads nothing more then.
EndMade ==
  /\ emitted <= made
  /\ trailer => consumed = pos /\ intact
  /\ trailer => consumed = size \/ (program = "zlib_compress" /\ sourceBad)
  /\ trailer /\ program \in Zlib /\ program \in Compress => eof
  /\ trailer /\ program \in Zlib => pc \notin {"open", "read"}
  /\ trailer /\ program \in Zlib /\ pc = "write" /\ outLen < BufSize => status = "end"
  /\ intact /\ program \notin Compress /\ ~trailer => consumed < size

\* The last status is kept for where the function looks at it.
EndSeen ==
  /\ pc = "write" /\ status = "end" => trailer /\ emitted = made
  /\ pc \in {"close", "done"} => trailer /\ emitted = made /\ outLen = 0
  /\ program \in Miniz /\ pc \notin {"done", "failed"} => dropped = 0
  /\ program = "miniz_compress" /\ pc # "failed" => dropped = 0
  /\ pc = "close" => program \in Miniz

CInv == TypeOK /\ NothingSkipped /\ InputUsed /\ EndRead /\ EndMade /\ EndSeen

\* What a read gives.
LEMMA LesserValue ==
  ASSUME NEW a \in Nat, NEW b \in Nat
  PROVE  /\ Lesser(a, b) \in Nat /\ Lesser(a, b) <= a /\ Lesser(a, b) <= b
         /\ Lesser(a, b) < a => Lesser(a, b) = b
BY DEF Lesser

\* The counters are numbers.
LEMMA Numbers ==
  ASSUME TypeOK
  PROVE  /\ size \in Nat /\ pos \in Nat /\ pos <= size /\ size - pos \in Nat
         /\ availIn \in Nat /\ outLen \in Nat /\ outLen <= BufSize
         /\ consumed \in Nat /\ made \in Nat /\ emitted \in Nat
         /\ written \in Nat /\ dropped \in Nat /\ BufSize \in Nat /\ BufSize > 0
         /\ MaxFaults \in Nat
BY CodecAssumption DEF TypeOK

\* Where the parts of a whole are all that is left of it.
LEMMA Parts ==
  ASSUME NEW total \in Nat, NEW whole \in Nat, whole <= total, NEW a \in Nat, NEW b \in Nat,
         a + b = whole
  PROVE  a < total \/ (b = 0 /\ a = total)
OBVIOUS

\* Every loop starts with empty counts.
LEMMA InitCInv == Init => CInv
<1>. SUFFICES ASSUME Init PROVE CInv
  OBVIOUS
<1>1. size \in Nat /\ BufSize \in Nat /\ MaxFaults \in Nat
  BY CodecAssumption DEF Init
<1>2. TypeOK
  <2>1. /\ pos \in 0..size /\ availIn \in 0..BufSize /\ outLen \in 0..BufSize
        /\ faults \in 0..MaxFaults
    BY <1>1 DEF Init
  <2>2. /\ consumed \in Nat /\ made \in Nat /\ emitted \in Nat
        /\ written \in Nat /\ dropped \in Nat
    BY DEF Init
  <2>3. /\ program \in Zlib \cup Miniz /\ size \in 0..MaxSource /\ intact \in BOOLEAN
        /\ eof \in BOOLEAN /\ sourceBad \in BOOLEAN /\ trailer \in BOOLEAN
        /\ status \in {"ok", "end", "buf_error"}
        /\ pc \in {"open", "read", "codec", "write", "close", "done", "failed"}
    BY DEF Init
  <2>. QED
    BY <2>1, <2>2, <2>3 DEF TypeOK
<1>3. NothingSkipped /\ InputUsed /\ EndRead /\ EndSeen
  BY DEF Init, NothingSkipped, InputUsed, EndRead, EndSeen
<1>4. EndMade
  BY <1>1 DEF Init, EndMade
<1>. QED
  BY <1>2, <1>3, <1>4 DEF CInv

\* Opening the files and reading.
LEMMA ReadsKeep ==
  ASSUME CInv, Open \/ Refuse \/ OpenFails \/ ZlibRead \/ ZlibReadFails \/ MinizRead \/ MinizReadFails
  PROVE  CInv'
<1>. USE CodecAssumption
         DEF CInv, TypeOK, NothingSkipped, InputUsed, EndRead, EndMade, EndSeen, Goto, Fault,
             sourceVars, readVars, codecVars, destVars, Zlib, Miniz, Compress
<1>1. CASE Open \/ Refuse \/ OpenFails
  BY <1>1 DEF Open, Refuse, OpenFails
<1>2. CASE ZlibRead
  <2>. DEFINE n == IF eof THEN 0 ELSE Lesser(BufSize, size - pos)
  <2>1. /\ n \in Nat /\ n <= BufSize /\ pos + n <= size
        /\ ~eof /\ n < BufSize => pos + n = size
    <3>1. /\ size - pos \in Nat /\ BufSize \in Nat /\ BufSize > 0
          /\ size \in Nat /\ pos \in Nat /\ pos <= size
      BY Numbers
    <3>2. CASE eof
      BY <3>1, <3>2
    <3>3. CASE ~eof
      <4>1. n = Lesser(BufSize, size - pos)
        BY <3>3
      <4>2. /\ n \in Nat /\ n <= BufSize /\ n <= size - pos
            /\ n < BufSize => n = size - pos
        BY <3>1, <4>1, LesserValue
      <4>. HIDE DEF n
      <4>. QED
        BY <3>1, <4>2
    <3>. QED
      BY <3>2, <3>3
  <2>2. /\ availIn' = n /\ pos' = pos + n /\ eof' = (eof \/ n < BufSize)
        /\ pc = "read" /\ pc' = "codec" /\ program \in Zlib
        /\ eof => n = 0
        /\ UNCHANGED <<sourceVars, sourceBad, outLen, codecVars, destVars, faults>>
    BY <1>2 DEF ZlibRead
  <2>. HIDE DEF n
  <2>3. /\ size \in Nat /\ pos \in Nat /\ BufSize \in Nat /\ availIn = 0
        /\ pos = consumed + availIn /\ consumed \in Nat
    BY <2>2, Numbers
  <2>4. pos' \in 0..size /\ availIn' \in 0..BufSize /\ eof' \in BOOLEAN
    BY <2>1, <2>2, <2>3
  <2>5. TypeOK'
    BY <2>2, <2>4
  <2>6. NothingSkipped' /\ InputUsed'
    BY <2>1, <2>2, <2>3
  <2>7. EndRead'
    BY <2>1, <2>2, <2>3
  <2>8. ~trailer
    BY <2>2
  <2>9. EndMade' /\ EndSeen'
    BY <2>2, <2>8
  <2>. QED
    BY <2>5, <2>6, <2>7, <2>9
<1>3. CASE ZlibReadFails
  <2>1. /\ pc = "read" /\ pc' = "codec" /\ program \in Zlib /\ eof' = TRUE /\ sourceBad' = TRUE
        /\ pos < size /\ faults < MaxFaults /\ faults' = faults + 1
        /\ UNCHANGED <<sourceVars, outLen, codecVars, destVars>>
    BY <1>3 DEF ZlibReadFails
  <2>2. PICK n \in 0..(Lesser(BufSize, size - pos) - 1) : availIn' = n /\ pos' = pos + n
    BY <1>3 DEF ZlibReadFails
  <2>3. /\ size \in Nat /\ pos \in Nat /\ BufSize \in Nat /\ availIn = 0 /\ size - pos \in Nat
        /\ pos = consumed + availIn /\ consumed \in Nat
    BY <2>1, Numbers
  <2>4. n \in Nat /\ n <= BufSize /\ pos + n <= size
    <3>1. /\ Lesser(BufSize, size - pos) \in Nat
          /\ Lesser(BufSize, size - pos) <= BufSize
          /\ Lesser(BufSize, size - pos) <= size - pos
      BY <2>3, LesserValue
    <3>. QED
      BY <2>2, <2>3, <3>1
  <2>5. pos' \in 0..size /\ availIn' \in 0..BufSize /\ pos' = consumed + availIn'
    BY <2>2, <2>3, <2>4
  <2>6. TypeOK'
    <3>1. faults' \in 0..MaxFaults
      BY <2>1
    <3>. QED
      BY <2>1, <2>5, <3>1
  <2>7. NothingSkipped' /\ InputUsed' /\ EndRead'
    BY <2>1, <2>5
  <2>8. ~trailer
    BY <2>1
  <2>9. EndMade' /\ EndSeen'
    BY <2>1, <2>8
  <2>. QED
    BY <2>6, <2>7, <2>9
<1>4. CASE MinizRead
  <2>. DEFINE n == IF availIn = 0 THEN Lesser(BufSize, size - pos) ELSE 0
  <2>1. n \in Nat /\ n <= BufSize /\ pos + n <= size /\ availIn + n <= BufSize
    <3>1. size - pos \in Nat
      OBVIOUS
    <3>. QED
      BY <3>1, LesserValue
  <2>2. availIn' = availIn + n /\ pos' = pos + n
    BY <1>4 DEF MinizRead
  <2>3. /\ program \in Miniz /\ pc = "read" /\ pc' = "codec"
        /\ UNCHANGED <<sourceVars, eof, sourceBad, outLen, codecVars, destVars, faults>>
    BY <1>4 DEF MinizRead
  <2>. HIDE DEF n
  <2>4. /\ size \in Nat /\ pos \in Nat /\ BufSize \in Nat /\ availIn \in Nat
        /\ pos = consumed + availIn /\ consumed \in Nat
    BY Numbers
  <2>5. /\ pos' \in 0..size /\ availIn' \in 0..BufSize
        /\ eof \/ trailer => pos' = pos
    <3>1. eof => pos = size
      BY <2>3
    <3>2. trailer => pos = size
      BY <2>3
    <3>. QED
      BY ONLY <2>1, <2>2, <2>4, <3>1, <3>2
  <2>6. pos' = consumed + availIn'
    BY ONLY <2>1, <2>2, <2>4
  <2>7. TypeOK /\ NothingSkipped /\ InputUsed /\ EndRead /\ EndMade /\ EndSeen
    OBVIOUS
  <2>8. TypeOK'
    BY ONLY <2>3, <2>5, <2>7 DEF TypeOK, sourceVars, codecVars, destVars
  <2>9. NothingSkipped' /\ InputUsed'
    BY ONLY <2>3, <2>6, <2>7
       DEF NothingSkipped, InputUsed, sourceVars, codecVars, destVars, Zlib, Miniz
  <2>10. EndRead' /\ EndMade' /\ EndSeen'
    BY ONLY <2>3, <2>5, <2>7
       DEF EndRead, EndMade, EndSeen, sourceVars, codecVars, destVars
  <2>. QED
    BY <2>8, <2>9, <2>10
<1>5. CASE MinizReadFails
  BY <1>5 DEF MinizReadFails
<1>. QED
  BY <1>1, <1>2, <1>3, <1>4, <1>5

\* A call of the codec.
LEMMA CodecKeeps ==
  ASSUME CInv, Codec
  PROVE  CInv'
<1>. DEFINE finish == IF program \in Zlib THEN FinishZlib ELSE FinishMiniz
<1>1. PICK k \in 0..availIn, e \in 0..(BufSize - outLen) :
        /\ consumed' = consumed + k /\ availIn' = availIn - k
        /\ emitted' = emitted + e /\ outLen' = outLen + e
        /\ trailer' = (trailer \/ (availIn' = 0 /\ IF program \in Compress THEN finish
                                                   ELSE intact /\ consumed' = size))
        /\ \E g \in 0..(Expand * k) :
             made' = made + g + IF trailer' /\ ~trailer /\ program \in Compress THEN 1 ELSE 0
        /\ emitted' <= made'
        /\ availIn' = 0 \/ outLen' = BufSize
        /\ (program \in Compress => finish) => emitted' = made' \/ outLen' = BufSize
        /\ \/ trailer' /\ emitted' = made' /\ status' = "end"
           \/ /\ ~(trailer' /\ emitted' = made') \/ (outLen' = BufSize /\ e > 0)
              /\ status' = IF k > 0 \/ e > 0 THEN "ok" ELSE "buf_error"
  BY DEF Codec
<1>2. /\ pc = "codec" /\ pc' = "write"
      /\ UNCHANGED <<program, size, intact, pos, eof, sourceBad, written, dropped, faults>>
  BY DEF Codec, Goto, sourceVars, readVars, destVars
<1>3. /\ TypeOK /\ NothingSkipped /\ InputUsed /\ EndRead /\ EndMade /\ EndSeen
      /\ BufSize \in Nat /\ Expand \in Nat
      /\ size \in Nat /\ pos \in Nat /\ pos <= size
  BY CodecAssumption, Numbers DEF CInv
<1>4. made' \in Nat
  <2>1. Expand * k \in Nat
    BY <1>1, <1>3 DEF TypeOK
  <2>2. PICK g \in 0..(Expand * k) :
          made' = made + g + IF trailer' /\ ~trailer /\ program \in Compress THEN 1 ELSE 0
    BY <1>1
  <2>3. g \in Nat /\ made \in Nat
    BY <1>3, <2>1 DEF TypeOK
  <2>. QED
    BY <2>2, <2>3
<1>5. TypeOK' /\ NothingSkipped' /\ trailer' \in BOOLEAN
  <2>1. trailer' \in BOOLEAN
    BY <1>1, <1>3 DEF TypeOK
  <2>2. status' \in {"ok", "end", "buf_error"}
    BY <1>1
  <2>3. /\ availIn' \in 0..BufSize /\ outLen' \in 0..BufSize /\ consumed' \in Nat
        /\ emitted' \in Nat
    BY <1>1, <1>3 DEF TypeOK
  <2>4. NothingSkipped'
    BY <1>1, <1>2, <1>3 DEF TypeOK, NothingSkipped
  <2>. QED
    BY <1>2, <1>3, <1>4, <2>1, <2>2, <2>3, <2>4 DEF TypeOK
<1>a. consumed' + availIn' = pos /\ consumed' \in Nat /\ availIn' \in Nat
  <2>1. consumed \in Nat /\ availIn \in Nat /\ pos = consumed + availIn
    BY <1>3, Numbers DEF NothingSkipped
  <2>. QED
    BY <1>1, <2>1
<1>6. InputUsed' /\ EndRead'
  BY <1>1, <1>2, <1>3 DEF InputUsed, EndRead, TypeOK
<1>7. /\ trailer' => consumed' = pos /\ intact /\ (program \in Compress => finish)
      /\ trailer' => consumed' = size \/ (program = "zlib_compress" /\ sourceBad)
  <2>1. CASE trailer
    <3>1. consumed = pos /\ k = 0 /\ consumed' = consumed
      BY <1>1, <1>3, <2>1 DEF EndMade, TypeOK, NothingSkipped
    <3>2. program \in Miniz \/ program \in Zlib
      BY <1>3 DEF TypeOK
    <3>3. program \in Miniz => pos = size
      BY <1>3, <2>1, <3>1 DEF EndMade, Miniz
    <3>4. program \in Compress => finish
      BY <1>3, <2>1, <3>2, <3>3 DEF EndMade, FinishZlib, FinishMiniz
    <3>. QED
      BY <1>3, <2>1, <3>1, <3>4 DEF EndMade
  <2>2. CASE ~trailer /\ trailer' /\ program \in Compress
    <3>1. finish /\ availIn' = 0 /\ intact
      BY <1>1, <1>3, <2>2 DEF EndRead
    <3>2. consumed' = pos
      BY <1>a, <3>1
    <3>3. pos = size \/ (program = "zlib_compress" /\ sourceBad)
      BY <1>3, <2>2, <3>1 DEF EndRead, FinishZlib, FinishMiniz, Zlib, Compress
    <3>. QED
      BY <3>1, <3>2, <3>3
  <2>3. CASE ~trailer /\ trailer' /\ program \notin Compress
    <3>1. intact /\ consumed' = size /\ availIn' = 0
      BY <1>1, <2>3
    <3>2. consumed' = pos
      BY <1>a, <3>1
    <3>. QED
      BY <2>3, <3>1, <3>2
  <2>. QED
    BY <1>5, <2>1, <2>2, <2>3
<1>8. EndMade'
  <2>1. emitted' <= made'
    BY <1>1
  <2>2. trailer' /\ program \in Zlib /\ program \in Compress => eof
    BY <1>7 DEF FinishZlib
  <2>3. trailer' /\ outLen' < BufSize => status' = "end"
    <3>. SUFFICES ASSUME trailer', outLen' < BufSize PROVE status' = "end"
      OBVIOUS
    <3>1. outLen' # BufSize
      BY <1>5, <1>3 DEF TypeOK
    <3>2. emitted' = made'
      BY <1>1, <1>7, <3>1
    <3>. QED
      BY <1>1, <3>1, <3>2
  <2>4. intact /\ program \notin Compress /\ ~trailer' => consumed' < size
    <3>. SUFFICES ASSUME intact, program \notin Compress, ~trailer' PROVE consumed' < size
      OBVIOUS
    <3>1. ~(availIn' = 0 /\ consumed' = size)
      BY <1>1
    <3>. QED
      BY <1>3, <1>a, <3>1, Parts
  <2>. QED
    BY <1>2, <1>7, <2>1, <2>2, <2>3, <2>4 DEF EndMade
<1>9. EndSeen'
  <2>1. status' = "end" => trailer' /\ emitted' = made'
    BY <1>1
  <2>. QED
    BY <1>2, <1>3, <2>1 DEF EndSeen
<1>. QED
  BY <1>5, <1>6, <1>8, <1>9 DEF CInv

\* Writing and closing.
LEMMA WritesKeep ==
  ASSUME CInv, ZlibWrite \/ MinizWrite \/ MinizWriteFails \/ MinizClose \/ MinizCloseFails
  PROVE  CInv'
<1>. USE CodecAssumption
         DEF CInv, TypeOK, NothingSkipped, InputUsed, EndRead, EndMade, EndSeen, Goto, Fault,
             sourceVars, readVars, codecVars, destVars, Zlib, Miniz, Compress
<1>1. CASE ZlibWrite
  <2>1. /\ pc = "write" /\ program \in Zlib /\ outLen' = 0
        /\ written' \in Nat /\ dropped' \in Nat
        /\ written' + dropped' = written + dropped + outLen
        /\ faults' \in 0..MaxFaults
    BY <1>1 DEF ZlibWrite
  <2>2. /\ pc' = IF outLen = BufSize THEN "codec" ELSE IF status = "end" THEN "done" ELSE "read"
        /\ UNCHANGED <<sourceVars, readVars, availIn, codecVars>>
    BY <1>1 DEF ZlibWrite
  <2>3. /\ outLen \in Nat /\ outLen <= BufSize /\ BufSize \in Nat /\ BufSize > 0
        /\ written \in Nat /\ dropped \in Nat /\ emitted = written + dropped + outLen
    BY Numbers
  <2>4. TypeOK'
    BY <2>1, <2>2, <2>3
  <2>5. NothingSkipped'
    <3>1. /\ pos' = pos /\ consumed' = consumed /\ availIn' = availIn /\ emitted' = emitted
          /\ pos = consumed + availIn
      BY <2>2
    <3>2. emitted = written' + dropped' + outLen'
      <4>1. emitted = written' + dropped' /\ outLen' = 0
        BY ONLY <2>1, <2>3
      <4>2. \A x, y \in Nat : x + y + 0 = x + y
        OBVIOUS
      <4>3. written' \in Nat /\ dropped' \in Nat
        BY <2>1
      <4>. QED
        BY ONLY <4>1, <4>2, <4>3, Zenon
    <3>. QED
      BY ONLY <3>1, <3>2 DEF NothingSkipped
  <2>6. InputUsed' /\ EndRead' /\ EndMade'
    BY <2>1, <2>2, <2>3
  <2>7. EndSeen'
    BY <2>1, <2>2, <2>3
  <2>. QED
    BY <2>4, <2>5, <2>6, <2>7
<1>2. CASE MinizWrite
  BY <1>2 DEF MinizWrite
<1>3. CASE MinizWriteFails
  BY <1>3 DEF MinizWriteFails
<1>4. CASE MinizClose
  BY <1>4 DEF MinizClose
<1>5. CASE MinizCloseFails
  BY <1>5 DEF MinizCloseFails
<1>. QED
  BY <1>1, <1>2, <1>3, <1>4, <1>5

\* Every step keeps the counts balanced.
LEMMA NextCInv == CInv /\ [Next]_vars => CInv'
<1>1. CInv /\ Next => CInv'
  BY ReadsKeep, CodecKeeps, WritesKeep DEF Next
<1>2. CInv /\ UNCHANGED vars => CInv'
  BY DEF CInv, TypeOK, NothingSkipped, InputUsed, EndRead, EndMade, EndSeen, vars,
         sourceVars, readVars, codecVars, destVars
<1>. QED
  BY <1>1, <1>2

-----------------------------------------------------------------------------
(* The theorems                                                            *)

\* No read of compressFile or decompressFile overwrites input that is not used
\* yet, and no output leaves the buffer but to the destination.
THEOREM NothingIsSkipped == Spec => []NothingSkipped
<1>1. CInv => NothingSkipped
  BY DEF CInv
<1>. QED
  BY <1>1, InitCInv, NextCInv, PTL DEF Spec

\* When compressFile or decompressFile reports success, all it read went through
\* the codec, its end was found, and all output was written but for what an
\* unchecked write lost; what it read is the whole source, but for zlibDemo's
\* compressFile when a read failed.
THEOREM SuccessMeansComplete == Spec => []SuccessIsComplete
<1>1. CInv => SuccessIsComplete
  BY DEF CInv, TypeOK, NothingSkipped, EndMade, EndSeen, SuccessIsComplete
<1>. QED
  BY <1>1, InitCInv, NextCInv, PTL DEF Spec

-----------------------------------------------------------------------------
(* No intact source is refused                                             *)

\* minizDemo calls the codec with room for output, and without input only at
\* the end of the source: the call makes progress or finishes the stream.
Progress ==
  /\ program \in Miniz /\ pc \in {"open", "read", "codec"} => outLen < BufSize
  /\ program \in Miniz /\ pc = "codec" /\ availIn = 0 => pos = size
  /\ program \in Miniz /\ pc = "write" /\ intact => status # "buf_error"

NoRefusal == Progress /\ IntactSucceeds

\* A call of minizDemo's that neither takes input nor gives output is the last.
LEMMA CodecProgress ==
  ASSUME CInv, Progress, Codec, program \in Miniz, intact
  PROVE  status' # "buf_error"
<1>. DEFINE finish == IF program \in Zlib THEN FinishZlib ELSE FinishMiniz
<1>1. PICK k \in 0..availIn, e \in 0..(BufSize - outLen) :
        /\ consumed' = consumed + k /\ availIn' = availIn - k
        /\ emitted' = emitted + e /\ outLen' = outLen + e
        /\ trailer' = (trailer \/ (availIn' = 0 /\ IF program \in Compress THEN finish
                                                   ELSE intact /\ consumed' = size))
        /\ availIn' = 0 \/ outLen' = BufSize
        /\ (program \in Compress => finish) => emitted' = made' \/ outLen' = BufSize
        /\ \/ trailer' /\ emitted' = made' /\ status' = "end"
           \/ /\ ~(trailer' /\ emitted' = made') \/ (outLen' = BufSize /\ e > 0)
              /\ status' = IF k > 0 \/ e > 0 THEN "ok" ELSE "buf_error"
  BY DEF Codec
<1>. SUFFICES ASSUME k = 0, e = 0 PROVE status' # "buf_error"
  BY <1>1
<1>2. /\ availIn \in Nat /\ outLen \in Nat /\ consumed \in Nat /\ BufSize \in Nat
      /\ pos = consumed + availIn /\ outLen < BufSize /\ pc = "codec"
  BY Numbers DEF CInv, NothingSkipped, Progress, Codec
<1>3. outLen' # BufSize /\ availIn' = 0 /\ availIn = 0
  BY <1>1, <1>2
<1>4. pos = size /\ consumed' = size /\ finish
  BY <1>1, <1>2, <1>3 DEF Progress, FinishMiniz, Zlib, Miniz
<1>5. trailer' /\ emitted' = made'
  BY <1>1, <1>3, <1>4
<1>. QED
  BY <1>1, <1>3, <1>5

\* What minizDemo's read leaves in the input buffer.
LEMMA MinizReadMore ==
  ASSUME CInv, MinizRead, availIn' = 0
  PROVE  pos' = size
<1>. DEFINE n == IF availIn = 0 THEN Lesser(BufSize, size - pos) ELSE 0
<1>1. availIn' = availIn + n /\ pos' = pos + n
  BY DEF MinizRead
<1>2. /\ size - pos \in Nat /\ BufSize \in Nat /\ BufSize > 0 /\ availIn \in Nat
      /\ size \in Nat /\ pos \in Nat
  BY Numbers DEF CInv
<1>3. /\ n \in Nat
      /\ availIn = 0 => n = BufSize \/ n = size - pos
  BY <1>2 DEF Lesser
<1>. HIDE DEF n
<1>4. availIn = 0 /\ n = 0
  BY <1>1, <1>2, <1>3
<1>. QED
  BY <1>1, <1>2, <1>3, <1>4

\* Every step keeps it.
LEMMA NextNoRefusal == CInv /\ NoRefusal /\ [Next]_vars => NoRefusal'
<1>. SUFFICES ASSUME CInv, NoRefusal, [Next]_vars PROVE NoRefusal'
  OBVIOUS
<1>1. faults \in Nat /\ outLen \in Nat /\ BufSize \in Nat /\ BufSize > 0
  BY Numbers, CodecAssumption DEF CInv, TypeOK
<1>. USE DEF NoRefusal, Progress, IntactSucceeds, TooLarge, Goto, Fault,
             sourceVars, readVars, codecVars, destVars, Zlib, Miniz
<1>2. CASE Open \/ Refuse \/ OpenFails \/ MinizReadFails
  BY <1>1, <1>2 DEF Open, Refuse, OpenFails, MinizReadFails
<1>3. CASE ZlibRead \/ ZlibReadFails
  BY <1>1, <1>3 DEF ZlibRead, ZlibReadFails
<1>4. CASE MinizRead
  <2>1. availIn' = 0 => pos' = size
    BY <1>4, MinizReadMore
  <2>. QED
    BY <1>4, <2>1 DEF MinizRead
<1>5. CASE Codec
  <2>1. /\ pc = "codec" /\ pc' = "write"
        /\ UNCHANGED <<program, size, intact, faults>>
    BY <1>5 DEF Codec
  <2>2. program \in Miniz /\ intact => status' # "buf_error"
    BY <1>5, CodecProgress DEF Miniz
  <2>. QED
    BY <2>1, <2>2
<1>6. CASE ZlibWrite
  BY <1>1, <1>6 DEF ZlibWrite
<1>7. CASE MinizWrite
  <2>1. /\ pc = "write" /\ status \in {"ok", "end", "buf_error"}
        /\ UNCHANGED <<program, size, intact, faults>>
        /\ pc' = CASE status = "end" -> "close" [] status = "ok" -> "read" [] OTHER -> "failed"
    BY <1>7 DEF MinizWrite, CInv, TypeOK
  <2>2. program \in Miniz /\ (intact => status # "buf_error")
    BY <1>7, <2>1 DEF MinizWrite
  <2>3. pc' \in {"close", "read", "failed"} /\ (intact => pc' # "failed")
    BY <2>1, <2>2
  <2>4. outLen' < BufSize \/ status = "end"
    BY <1>1, <1>7, Numbers DEF MinizWrite, CInv
  <2>5. pc' = "read" => outLen' < BufSize
    BY <2>1, <2>4
  <2>. QED
    BY <2>1, <2>2, <2>3, <2>5
<1>8. CASE MinizWriteFails \/ MinizClose \/ MinizCloseFails
  BY <1>1, <1>8 DEF MinizWriteFails, MinizClose, MinizCloseFails
<1>9. CASE UNCHANGED vars
  BY <1>9 DEF vars
<1>. QED
  BY <1>2, <1>3, <1>4, <1>5, <1>6, <1>7, <1>8, <1>9 DEF Next

\* As long as nothing fails, no function refuses an intact source that is not
\* too large for it, whatever the sizes of the buffers, of the source and of what
\* the codec makes of it.
THEOREM IntactIsAccepted == Spec => []IntactSucceeds
<1>1. Init => NoRefusal
  BY CodecAssumption DEF Init, NoRefusal, Progress, IntactSucceeds
<1>2. NoRefusal => IntactSucceeds
  BY DEF NoRefusal
<1>. QED
  BY <1>1, <1>2, InitCInv, NextCInv, NextNoRefusal, PTL DEF Spec

=============================================================================

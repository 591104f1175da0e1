---------------------------- MODULE CodecStreams ----------------------------
(***************************************************************************)
(* zlibDemo and minizDemo: compressFile and decompressFile, the loops that *)
(* feed a file through deflate or inflate, a buffer at a time.  Data is    *)
(* counted, in units: the codec makes up to Expand units of output of a    *)
(* unit of input, and one more for the end of what it compresses.  Reads   *)
(* and writes may fail; a source to decompress may be cut short.  Streams  *)
(* are those of the C++ standard: read() that gives fewer bytes than asked *)
(* for, whatever the reason, sets eofbit and failbit.                      *)
(***************************************************************************)
EXTENDS Naturals

CONSTANTS BufSize,    \* of the input buffer and of the output buffer
          Expand,
          Limit,      \* the largest source that minizDemo takes: INT_MAX
          MaxSource,  \* bound: size of a source
          MaxFaults   \* bound: reads and writes that fail

ASSUME CodecAssumption ==
  /\ BufSize \in Nat \ {0} /\ Expand \in Nat /\ Limit \in Nat
  /\ MaxSource \in Nat /\ MaxFaults \in Nat

VARIABLES
  program,            \* the demo and the function that runs
  size, intact,       \* of its source; an intact one has an end to decompress to
  pos, eof, sourceBad,  \* eof(); a read failed
  availIn, outLen,    \* avail_in; the units in the output buffer
  consumed, made, emitted, trailer,  \* by the codec; trailer: it made its end
  status,             \* what the codec returned last
  written, dropped,   \* units in the destination; units that a failed write lost
  pc, faults

sourceVars == <<program, size, intact>>
readVars == <<pos, eof, sourceBad>>
codecVars == <<consumed, made, emitted, trailer, status>>
destVars == <<written, dropped>>
vars == <<sourceVars, readVars, availIn, outLen, codecVars, destVars, pc, faults>>

Zlib == {"zlib_compress", "zlib_decompress"}
Miniz == {"miniz_compress", "miniz_decompress"}
Compress == {"zlib_compress", "miniz_compress"}

Init ==
  /\ program \in Zlib \cup Miniz
  /\ size \in 0..MaxSource /\ intact \in BOOLEAN
  /\ program \in Compress => intact
  /\ size = 0 /\ program \notin Compress => ~intact
  /\ pos = 0 /\ eof = FALSE /\ sourceBad = FALSE
  /\ availIn = 0 /\ outLen = 0
  /\ consumed = 0 /\ made = 0 /\ emitted = 0 /\ trailer = FALSE /\ status = "ok"
  /\ written = 0 /\ dropped = 0
  /\ pc = "open" /\ faults = 0

Lesser(a, b) == IF a < b THEN a ELSE b
Fault == faults < MaxFaults /\ faults' = faults + 1
Goto(next) == pc' = next

-----------------------------------------------------------------------------
\* Files that do not open, or whose size is not told, and codecs that do not
\* start end the function; minizDemo's also refuse what is too large for them.
TooLarge == program \in Miniz /\ size > Limit
Open ==
  /\ pc = "open" /\ ~TooLarge /\ Goto("read")
  /\ UNCHANGED <<sourceVars, readVars, availIn, outLen, codecVars, destVars, faults>>
Refuse ==
  /\ pc = "open" /\ TooLarge /\ Goto("failed")
  /\ UNCHANGED <<sourceVars, readVars, availIn, outLen, codecVars, destVars, faults>>
OpenFails ==
  /\ pc = "open" /\ Fault /\ Goto("failed")
  /\ UNCHANGED <<sourceVars, readVars, availIn, outLen, codecVars, destVars>>

\* zlibDemo reads whenever the codec has left room in the output buffer, and
\* takes eof() for the end of the source.  A read that fails part of the way
\* gives what it got and sets eof() too: nothing tells it from the end.
ZlibRead ==
  LET n == IF eof THEN 0 ELSE Lesser(BufSize, size - pos) IN
  /\ pc = "read" /\ program \in Zlib
  /\ availIn' = n /\ pos' = pos + n
  /\ eof' = (eof \/ n < BufSize)
  /\ Goto("codec")
  /\ UNCHANGED <<sourceVars, sourceBad, outLen, codecVars, destVars, faults>>
ZlibReadFails ==
  /\ pc = "read" /\ program \in Zlib /\ ~eof /\ pos < size /\ Fault
  /\ \E n \in 0..(Lesser(BufSize, size - pos) - 1) : availIn' = n /\ pos' = pos + n
  /\ eof' = TRUE /\ sourceBad' = TRUE
  /\ Goto("codec")
  /\ UNCHANGED <<sourceVars, outLen, codecVars, destVars>>

\* minizDemo reads when the input buffer is empty, as much as the size it
\* found at the start leaves.
MinizRead ==
  LET n == IF availIn = 0 THEN Lesser(BufSize, size - pos) ELSE 0 IN
  /\ pc = "read" /\ program \in Miniz
  /\ availIn' = availIn + n /\ pos' = pos + n
  /\ Goto("codec")
  /\ UNCHANGED <<sourceVars, eof, sourceBad, outLen, codecVars, destVars, faults>>
MinizReadFails ==
  /\ pc = "read" /\ program \in Miniz /\ availIn = 0 /\ pos < size /\ Fault
  /\ Goto("failed")
  /\ UNCHANGED <<sourceVars, readVars, availIn, outLen, codecVars, destVars>>

-----------------------------------------------------------------------------
\* deflate and inflate: they go on until the input is used up or the output
\* buffer is full, or the stream has ended.  With Z_FINISH deflate, and always
\* inflate, give out all they have made unless the buffer is full.
\* Mutants: deflate is told the end only with the last input; one buffer early.
FinishZlibWithInput == eof /\ availIn > 0
FinishMinizEarly == size - pos <= BufSize
FinishZlib == eof
FinishMiniz == pos = size

Codec ==
  LET finish == IF program \in Zlib THEN FinishZlib ELSE FinishMiniz IN
  /\ pc = "codec"
  /\ \E k \in 0..availIn, e \in 0..(BufSize - outLen) :
       /\ consumed' = consumed + k /\ availIn' = availIn - k
       /\ emitted' = emitted + e /\ outLen' = outLen + e
       /\ trailer' = (trailer \/ (availIn' = 0 /\ IF program \in Compress THEN finish
                                                  ELSE intact /\ consumed' = size))
       /\ \E g \in 0..(Expand * k) :
            made' = made + g + IF trailer' /\ ~trailer /\ program \in Compress THEN 1 ELSE 0
       /\ emitted' <= made'
       /\ LET full == outLen' = BufSize
              done == trailer' /\ emitted' = made'
          IN  /\ availIn' = 0 \/ full
              /\ (program \in Compress => finish) => emitted' = made' \/ full
              /\ \/ done /\ status' = "end"
                 \/ /\ ~done \/ (full /\ e > 0)
                    /\ status' = IF k > 0 \/ e > 0 THEN "ok" ELSE "buf_error"
  /\ Goto("write")
  /\ UNCHANGED <<sourceVars, readVars, destVars, faults>>

-----------------------------------------------------------------------------
\* zlibDemo writes what there is and calls the codec again while it fills the
\* buffer; nobody looks whether the write succeeded.  An ofstream that met an
\* error writes nothing more.
\* Mutant: the codec is called once per read.
ZlibWriteOnce ==
  /\ pc = "write" /\ program \in Zlib
  /\ \/ dropped = 0 /\ written' = written + outLen /\ UNCHANGED <<dropped, faults>>
     \/ dropped > 0 /\ dropped' = dropped + outLen /\ UNCHANGED <<written, faults>>
     \/ dropped = 0 /\ outLen > 0 /\ Fault
          /\ \E n \in 1..outLen : dropped' = n /\ written' = written + (outLen - n)
  /\ outLen' = 0
  /\ Goto(IF status = "end" THEN "done" ELSE "read")
  /\ UNCHANGED <<sourceVars, readVars, availIn, codecVars>>

ZlibWrite ==
  /\ pc = "write" /\ program \in Zlib
  /\ \/ dropped = 0 /\ written' = written + outLen /\ UNCHANGED <<dropped, faults>>
     \/ dropped > 0 /\ dropped' = dropped + outLen /\ UNCHANGED <<written, faults>>
     \/ dropped = 0 /\ outLen > 0 /\ Fault
          /\ \E n \in 1..outLen : dropped' = n /\ written' = written + (outLen - n)
  /\ outLen' = 0
  /\ Goto(IF outLen = BufSize THEN "codec"
          ELSE IF status = "end" THEN "done" ELSE "read")
  /\ UNCHANGED <<sourceVars, readVars, availIn, codecVars>>

\* minizDemo writes a full buffer, and what there is at the end; any status
\* but Z_OK and Z_STREAM_END is a failure.
\* Mutant: only the end is written.
MinizWriteAtEnd ==
  LET n == IF status = "end" THEN outLen ELSE 0 IN
  /\ pc = "write" /\ program \in Miniz
  /\ written' = written + n /\ outLen' = outLen - n
  /\ Goto(CASE status = "end" -> "close" [] status = "ok" -> "read" [] OTHER -> "failed")
  /\ UNCHANGED <<sourceVars, readVars, availIn, codecVars, dropped, faults>>

MinizWrite ==
  LET n == IF status = "end" \/ outLen = BufSize THEN outLen ELSE 0 IN
  /\ pc = "write" /\ program \in Miniz
  /\ written' = written + n /\ outLen' = outLen - n
  /\ Goto(CASE status = "end" -> "close" [] status = "ok" -> "read" [] OTHER -> "failed")
  /\ UNCHANGED <<sourceVars, readVars, availIn, codecVars, dropped, faults>>
MinizWriteFails ==
  /\ pc = "write" /\ program \in Miniz
  /\ outLen > 0 /\ (status = "end" \/ outLen = BufSize) /\ Fault
  /\ Goto("failed")
  /\ UNCHANGED <<sourceVars, readVars, availIn, outLen, codecVars, destVars>>

\* compressFile looks at the result of fclose; decompressFile leaves the file
\* to the end of the process.
MinizClose ==
  /\ pc = "close" /\ Goto("done")
  /\ UNCHANGED <<sourceVars, readVars, availIn, outLen, codecVars, destVars, faults>>
MinizCloseFails ==
  /\ pc = "close" /\ Fault
  /\ \E n \in 1..written : dropped' = n /\ written' = written - n
  /\ Goto(IF program = "miniz_compress" THEN "failed" ELSE "done")
  /\ UNCHANGED <<sourceVars, readVars, availIn, outLen, codecVars>>

Next ==
  \/ Open \/ Refuse \/ OpenFails
  \/ ZlibRead \/ ZlibReadFails \/ MinizRead \/ MinizReadFails
  \/ Codec
  \/ ZlibWrite \/ MinizWrite \/ MinizWriteFails \/ MinizClose \/ MinizCloseFails

\* The functions run on until they return.
Spec == Init /\ [][Next]_vars /\ WF_vars(Next)

-----------------------------------------------------------------------------
TypeOK ==
  /\ program \in Zlib \cup Miniz /\ size \in 0..MaxSource /\ intact \in BOOLEAN
  /\ pos \in 0..size /\ eof \in BOOLEAN /\ sourceBad \in BOOLEAN
  /\ availIn \in 0..BufSize /\ outLen \in 0..BufSize
  /\ consumed \in Nat /\ made \in Nat /\ emitted \in Nat /\ trailer \in BOOLEAN
  /\ status \in {"ok", "end", "buf_error"}
  /\ written \in Nat /\ dropped \in Nat /\ faults \in 0..MaxFaults
  /\ pc \in {"open", "read", "codec", "write", "close", "done", "failed"}

\* Nothing is lost between the buffers: a read never overwrites input the
\* codec has not used, and what the codec gave out is in the output buffer, in
\* the destination or lost by a write that failed.
NothingSkipped ==
  /\ pos = consumed + availIn
  /\ emitted = written + dropped + outLen

\* A function that reports success has put all it read through the codec and
\* all that the codec made into the destination, but for what an unchecked
\* write lost; minizDemo's compressFile checks them all.  It has read all of
\* the source, intact, unless it is zlibDemo's compressFile and a read failed:
\* that archives what came before the failure and reports success.
SuccessIsComplete ==
  pc = "done" =>
    /\ consumed = pos /\ intact /\ written + dropped = made
    /\ program = "miniz_compress" => dropped = 0
    /\ consumed = size \/ (program = "zlib_compress" /\ sourceBad)

\* As long as nothing fails, an intact source is never refused, wherever the
\* buffers' ends fall, unless it is too large for minizDemo: none of the loops
\* takes Z_BUF_ERROR for a failure there.
IntactSucceeds == intact /\ faults = 0 /\ ~TooLarge => pc # "failed"

\* The functions return, but for zlibDemo's decompressFile on a source that
\* cannot be read or is cut short: it then calls the codec for ever.
Ends ==
  <>(pc \in {"done", "failed"}
     \/ (program = "zlib_decompress" /\ (sourceBad \/ ~intact)))

=============================================================================

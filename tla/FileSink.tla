------------------------------ MODULE FileSink ------------------------------
(***************************************************************************)
(* What spdlog's file sinks share: base_sink::log, which runs one call at  *)
(* a time under the sink's mutex, and file_helper, through which a sink    *)
(* opens, writes and closes its file.  The n-th message given to the sink  *)
(* is the number n; a file is the sequence of the messages in it.  stdio   *)
(* keeps what was written in a buffer until fflush or fclose (when it      *)
(* writes earlier makes a difference only to a crash, which chooses how    *)
(* much of the buffer the disk got).  A failed write leaves the whole      *)
(* message or nothing of it.  The build is for Windows, where a file that  *)
(* is open cannot be removed.                                              *)
(***************************************************************************)
EXTENDS Naturals, Sequences

CONSTANTS Names,     \* file names
          NoFile,    \* a file that does not exist
          NoName     \* fd_ is nullptr

ASSUME FileAssumption ==
  /\ Names \subseteq Nat /\ NoName \notin Names
  /\ NoFile \notin Seq(Nat)

VARIABLES
  disk,    \* the files
  fd,      \* the file that is open, or NoName
  buffer,  \* messages written and not yet on the disk
  step,    \* where the call that holds the sink's mutex is
  msg,     \* the message of that call; 0: the constructor
  given,   \* the messages given to the sink, in order
  failed,  \* those whose call threw
  faults,
  bounds   \* of this behaviour, among them the file operations that may fail

fileVars == <<disk, fd, buffer, faults>>
callFrame == <<step, msg, given, failed>>
sinkVars == <<fileVars, callFrame>>

FileInit ==
  /\ disk = [name \in Names |-> NoFile]
  /\ fd = NoName /\ buffer = <<>>
  /\ step = "down" /\ msg = 0
  /\ given = <<>> /\ failed = {}
  /\ faults = 0

Exists(name) == disk[name] # NoFile
Content(name) == IF Exists(name) THEN disk[name] ELSE <<>>
Fault == faults < bounds.faults /\ faults' = faults + 1

-----------------------------------------------------------------------------
(* base_sink::log                                                          *)

\* Messages carry what the sinks look at: their size and the time they were
\* made.
Give(m, next) ==
  /\ step = "idle"
  /\ given' = Append(given, m) /\ msg' = Len(given) + 1
  /\ step' = next
  /\ UNCHANGED failed

Goto(next) == step' = next /\ UNCHANGED <<msg, given, failed>>

\* The call ends in an exception, which the logger catches and reports.
Throw == step' = "idle" /\ failed' = failed \cup {msg} /\ UNCHANGED <<msg, given>>

-----------------------------------------------------------------------------
(* file_helper                                                             *)

\* The disk once the first n messages of the buffer have been written.
Written(n) ==
  IF fd = NoName THEN disk ELSE [disk EXCEPT ![fd] = @ \o SubSeq(buffer, 1, n)]

\* close: nobody looks at the result of fclose.
CloseFile ==
  /\ \/ disk' = Written(Len(buffer)) /\ UNCHANGED faults
     \/ buffer # <<>> /\ Fault /\ \E n \in 0..Len(buffer) : disk' = Written(n)
  /\ fd' = NoName /\ buffer' = <<>>

Opened(name, truncate) ==
  [disk EXCEPT ![name] = IF truncate \/ @ = NoFile THEN <<>> ELSE @]

\* open, of a helper without a file: one of the tries succeeds, or all fail
\* (the one that truncates may have succeeded).
OpenFile(name, truncate) ==
  /\ disk' = Opened(name, truncate) /\ fd' = name
  /\ UNCHANGED <<buffer, faults>>
OpenFails(name, truncate) ==
  /\ Fault
  /\ disk' \in {disk} \cup (IF truncate THEN {Opened(name, TRUE)} ELSE {})
  /\ UNCHANGED <<fd, buffer>>

\* flush: fflush(nullptr) has nothing to do and succeeds.
FlushFile ==
  /\ disk' = Written(Len(buffer)) /\ buffer' = <<>>
  /\ UNCHANGED <<fd, faults>>
FlushFails ==
  /\ buffer # <<>> /\ Fault
  /\ \E n \in 0..Len(buffer) :
       /\ disk' = Written(n)
       /\ buffer' \in {<<>>, SubSeq(buffer, n + 1, Len(buffer))}
  /\ UNCHANGED fd

\* write: without a file it returns as if it had written.
WriteMessage ==
  /\ buffer' = IF fd = NoName THEN buffer ELSE Append(buffer, msg)
  /\ UNCHANGED <<disk, fd, faults>>
WriteFails ==
  /\ fd # NoName /\ Fault
  /\ buffer' \in {buffer, Append(buffer, msg)}
  /\ UNCHANGED <<disk, fd>>

\* The process dies; the disk has got some of the buffer.
Die ==
  /\ \E n \in 0..Len(buffer) : disk' = Written(n)
  /\ fd' = NoName /\ buffer' = <<>>
  /\ step' = "down" /\ msg' = 0
  /\ UNCHANGED <<given, failed, faults>>

-----------------------------------------------------------------------------
\* Every message of the file a is older than every message of the file b.
Before(a, b) ==
  \A x \in DOMAIN Content(a), y \in DOMAIN Content(b) :
    Content(a)[x] < Content(b)[y]

\* The messages of a file are in the order the sink was given them.
Sorted(s) == \A x, y \in DOMAIN s : x < y => s[x] < s[y]

=============================================================================

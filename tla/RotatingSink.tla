---------------------------- MODULE RotatingSink ----------------------------
(***************************************************************************)
(* spdlog's rotating_file_sink: the messages go to file 0; when it would   *)
(* exceed MaxSize, file i becomes file i + 1, for i below MaxFiles, and    *)
(* file 0 starts empty.  The process may die between any two steps of a    *)
(* rotation, and every file operation may fail.                            *)
(***************************************************************************)
EXTENDS FileSink, Functions

CONSTANTS MaxSize, MaxFiles,
          RotateOnOpen  \* what the constructor may be given

ASSUME RotatingAssumption ==
  /\ MaxSize \in Nat \ {0} /\ MaxFiles \in Nat /\ RotateOnOpen \subseteq BOOLEAN
  /\ 0..MaxFiles \subseteq Names

VARIABLES currentSize, newSize,
          index  \* rotate_: the file that the next rename makes

rotatingVars == <<currentSize, newSize, index>>

\* v[1] + ... + v[n].
SumTo(v, n) ==
  LET sum[k \in 0..n] == IF k = 0 THEN 0 ELSE sum[k - 1] + v[k] IN sum[n]

\* The size of the messages of s but for those in without.
SizeOf(s, without) ==
  SumTo([k \in DOMAIN s |-> IF s[k] \in without THEN 0 ELSE given[s[k]].size], Len(s))

RInit == currentSize = 0 /\ newSize = 0 /\ index = 0

\* The constructor; a process whose sink cannot open its file may try again.
ROpen ==
  /\ step = "down"
  /\ OpenFile(0, FALSE)
  /\ currentSize' = SizeOf(Content(0), {})
  /\ \E rotate \in RotateOnOpen :
       Goto(IF rotate /\ Content(0) # <<>> THEN "rotate" ELSE "idle")
  /\ UNCHANGED <<newSize, index>>
ROpenFails == step = "down" /\ OpenFails(0, FALSE) /\ UNCHANGED <<callFrame, rotatingVars>>

\* sink_it_.
RLog(m) ==
  /\ newSize' = currentSize + m.size
  /\ Give(m, IF newSize' > MaxSize THEN "flush" ELSE "write")
  /\ UNCHANGED <<fileVars, currentSize, index>>

\* size() throws if the file is not open; a file that is empty is not rotated.
RFlush ==
  /\ step = "flush" /\ FlushFile
  /\ IF fd = NoName THEN Throw
     ELSE Goto(IF disk'[fd] = <<>> THEN "write" ELSE "rotate")
  /\ UNCHANGED rotatingVars
RFlushFails == step = "flush" /\ FlushFails /\ Throw /\ UNCHANGED rotatingVars

\* rotate_: a failure ends the call, or the constructor and with it the sink.
RThrow == IF msg = 0 THEN Goto("down") ELSE Throw

RClose ==
  /\ step = "rotate" /\ CloseFile
  /\ index' = MaxFiles /\ Goto("rename")
  /\ UNCHANGED <<currentSize, newSize>>

\* Mutant: file i is lost under file i - 1, the oldest being kept.
RenameKeepTarget ==
  /\ step = "rename" /\ index > 0
  /\ disk' = IF Exists(index - 1)
             THEN [disk EXCEPT ![index] = IF Exists(index) THEN @ ELSE disk[index - 1],
                               ![index - 1] = NoFile]
             ELSE disk
  /\ index' = index - 1
  /\ UNCHANGED <<fd, buffer, faults, callFrame, currentSize, newSize>>

\* rename_file_: the target is removed and the source takes its name.
Rename ==
  /\ step = "rename" /\ index > 0
  /\ disk' = IF Exists(index - 1)
             THEN [disk EXCEPT ![index] = disk[index - 1], ![index - 1] = NoFile]
             ELSE disk
  /\ index' = index - 1
  /\ UNCHANGED <<fd, buffer, faults, callFrame, currentSize, newSize>>

\* Both tries failed; a target that could be removed is gone.
RenameFails ==
  /\ step = "rename" /\ index > 0 /\ Exists(index - 1) /\ Fault
  /\ disk' \in {disk, [disk EXCEPT ![index] = NoFile]}
  /\ Goto("rename_failed")
  /\ UNCHANGED <<fd, buffer, rotatingVars>>

Reopen ==
  /\ step = "rename" /\ index = 0
  /\ OpenFile(0, TRUE)
  /\ IF msg = 0
     THEN currentSize' = 0 /\ UNCHANGED newSize /\ Goto("idle")
     ELSE newSize' = given[msg].size /\ UNCHANGED currentSize /\ Goto("write")
  /\ UNCHANGED index
ReopenFails ==
  /\ step = "rename" /\ index = 0
  /\ OpenFails(0, TRUE) /\ RThrow
  /\ UNCHANGED rotatingVars

\* Mutant: the file that could not be renamed is not truncated.
AbandonAppend ==
  /\ step = "rename_failed"
  /\ OpenFile(0, FALSE) /\ currentSize' = 0 /\ Throw
  /\ UNCHANGED <<newSize, index>>

\* After a failed rename the file is truncated "to prevent it to grow beyond
\* its limit", and the message is not written.
Abandon ==
  /\ step = "rename_failed"
  /\ IF msg = 0
     THEN disk' = Opened(0, TRUE) /\ UNCHANGED <<fd, buffer, faults>>
     ELSE OpenFile(0, TRUE)
  /\ currentSize' = 0 /\ RThrow
  /\ UNCHANGED <<newSize, index>>
AbandonFails ==
  /\ step = "rename_failed"
  /\ OpenFails(0, TRUE) /\ RThrow
  /\ UNCHANGED rotatingVars

RWrite ==
  /\ step = "write" /\ WriteMessage
  /\ currentSize' = newSize /\ Goto("idle")
  /\ UNCHANGED <<newSize, index>>
RWriteFails == step = "write" /\ WriteFails /\ Throw /\ UNCHANGED rotatingVars

RStep ==
  \/ ROpen \/ ROpenFails
  \/ RFlush \/ RFlushFails \/ RClose
  \/ Rename \/ RenameFails \/ Reopen \/ ReopenFails \/ Abandon \/ AbandonFails
  \/ RWrite \/ RWriteFails

-----------------------------------------------------------------------------
\* The files hold the messages in the order the sink was given them, the
\* higher numbers the older ones, whatever failed and wherever the process
\* died.
RInOrder ==
  /\ \A a, b \in 0..MaxFiles : a > b => Before(a, b)
  /\ \A a \in 0..MaxFiles : Sorted(Content(a))

\* All messages of s but one at most are those of calls that threw.
AtMostOne(s) == \A x, y \in DOMAIN s : {s[x], s[y]} \cap failed = {} => x = y

\* No file grows beyond MaxSize, unless by a single message: what the current
\* one holds is counted in currentSize, through failed rotations and restarts.
\* What a call that threw left in the file is not counted until it is opened again.
SizeBound ==
  /\ \A a \in 0..MaxFiles : SizeOf(Content(a), failed) <= MaxSize \/ AtMostOne(Content(a))
  /\ step \in {"idle", "write"} /\ fd # NoName =>
       SizeOf(Content(0) \o buffer, failed) <= IF step = "idle" THEN currentSize ELSE newSize

=============================================================================

----------------------------- MODULE DailySink -----------------------------
(***************************************************************************)
(* spdlog's daily_file_sink: the first message made at or after            *)
(* rotationTp opens the file of its own day, and the sink keeps the names  *)
(* of the last DailyFiles files in a ring and removes the oldest when it   *)
(* adds one.  Files are named by their day.  A message is made before it   *)
(* gets the sink's mutex, so messages may reach the sink late and out of   *)
(* order, while rotationTp is computed from the clock.                     *)
(***************************************************************************)
EXTENDS FileSink, CircularQ

CONSTANTS DayLength,   \* clock readings of a day
          RotationAt,  \* rotation_h_ and rotation_m_, as a reading within a day
          DailyFiles,  \* max_files_, 0: all
          Truncate,
          MaxTime      \* bound: the clock stops there

ASSUME DailyAssumption ==
  /\ DayLength \in Nat \ {0} /\ RotationAt \in 0..(DayLength - 1)
  /\ DailyFiles \in Nat /\ Truncate \in BOOLEAN /\ MaxTime \in Nat
  /\ \A t \in 0..MaxTime : t \div DayLength \in Names

VARIABLES now, rotationTp,
          filenames,  \* filenames_q_
          missed      \* history: a constructor did not list the file it opened

dailyVars == <<rotationTp, filenames, missed>>

DInit ==
  /\ now = 0 /\ rotationTp = 0
  /\ filenames = NewQ(DailyFiles) /\ missed = FALSE

Tick == now < MaxTime /\ now' = now + 1

Day(t) == t \div DayLength

NextRotation ==
  LET today == Day(now) * DayLength + RotationAt
  IN  IF today > now THEN today ELSE today + DayLength

\* init_filenames_q_: the files of today and of the days before, back to the
\* first day that has none.
InitFilenames(files) ==
  LET Found(k) == \A d \in 0..(k - 1) :
                    d <= Day(now) /\ files[Day(now) - d] # NoFile
      count == CHOOSE k \in 0..DailyFiles : Found(k) /\ (k < DailyFiles => ~Found(k + 1))
  IN  [NewQ(DailyFiles) EXCEPT
         !.tail = count,
         !.v = [k \in 0..DailyFiles |->
                  IF k < count THEN (Day(now) + 1 + k) - count ELSE NoItem]]

\* The constructor reads the clock three times: to name its file, for the next
\* rotation, and to list the files.
DOpen ==
  /\ step = "down"
  /\ OpenFile(Day(now), Truncate) /\ Goto("schedule")
  /\ UNCHANGED dailyVars
DOpenFails ==
  /\ step = "down"
  /\ OpenFails(Day(now), Truncate)
  /\ UNCHANGED <<callFrame, dailyVars>>
DSchedule ==
  /\ step = "schedule"
  /\ rotationTp' = NextRotation
  /\ Goto(IF DailyFiles > 0 THEN "list" ELSE "idle")
  /\ UNCHANGED <<fileVars, filenames, missed>>
DList ==
  /\ step = "list"
  /\ filenames' = InitFilenames(disk)
  /\ missed' = (missed \/ IsEmpty(filenames'))
  /\ Goto("idle")
  /\ UNCHANGED <<fileVars, rotationTp>>

\* Mutant: every message goes to the file of its own day.
DLogByDay(m) ==
  /\ Give(m, IF Day(m.time) # fd THEN "close" ELSE "write")
  /\ UNCHANGED <<fileVars, dailyVars>>

\* sink_it_.
DLog(m) ==
  /\ Give(m, IF m.time >= rotationTp THEN "close" ELSE "write")
  /\ UNCHANGED <<fileVars, dailyVars>>

DClose == step = "close" /\ CloseFile /\ Goto("open") /\ UNCHANGED dailyVars

DReopen ==
  /\ step = "open"
  /\ OpenFile(Day(given[msg].time), Truncate)
  /\ rotationTp' = NextRotation
  /\ Goto("write_rotated")
  /\ UNCHANGED <<filenames, missed>>
DReopenFails ==
  /\ step = "open"
  /\ OpenFails(Day(given[msg].time), Truncate) /\ Throw
  /\ UNCHANGED dailyVars

DWrite ==
  /\ step \in {"write", "write_rotated"}
  /\ WriteMessage
  /\ Goto(IF step = "write_rotated" /\ DailyFiles > 0 THEN "delete_old" ELSE "idle")
  /\ UNCHANGED dailyVars
DWriteFails ==
  /\ step \in {"write", "write_rotated"}
  /\ WriteFails /\ Throw
  /\ UNCHANGED dailyVars

\* delete_old_: the oldest name makes room for that of the file that is open.
AddFilename ==
  /\ step = "delete_old"
  /\ LET full == IsFull(filenames)
         old == Front(filenames)
     IN  /\ full => old # fd
         /\ filenames' = PushBack(IF full THEN TakeFront(filenames) ELSE filenames, fd)
         /\ disk' = IF full THEN [disk EXCEPT ![old] = NoFile] ELSE disk
  /\ Goto("idle")
  /\ UNCHANGED <<fd, buffer, faults, rotationTp, missed>>

\* The removal fails, as it always does for the file that is open.
DeleteOldFails ==
  /\ step = "delete_old" /\ IsFull(filenames)
  /\ LET old == Front(filenames) IN
       IF old = fd THEN UNCHANGED faults ELSE Exists(old) /\ Fault
  /\ filenames' = PushBack(TakeFront(filenames), fd)
  /\ Throw
  /\ UNCHANGED <<disk, fd, buffer, rotationTp, missed>>

DStep ==
  \/ DOpen \/ DOpenFails \/ DSchedule \/ DList
  \/ DClose \/ DReopen \/ DReopenFails \/ DWrite \/ DWriteFails
  \/ AddFilename \/ DeleteOldFails

-----------------------------------------------------------------------------
\* The files hold the messages in the order the sink was given them, earlier
\* days the older ones, although messages arrive late and out of order.
DInOrder ==
  /\ \A a, b \in Names : a < b => Before(a, b)
  /\ \A a \in Names : Sorted(Content(a))

=============================================================================

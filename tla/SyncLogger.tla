----------------------------- MODULE SyncLogger -----------------------------
(***************************************************************************)
(* spdlog's synchronous logger: threads that log, dump the backtrace and   *)
(* turn it on and off, over a rotating or a daily file sink.  A thread has *)
(* the sink's mutex from EnterSink until the sink's step is "idle" again,  *)
(* and the tracer's mutex from Lock until Unlock, over every call of the   *)
(* sink that a dump makes.  The process may die at any moment and start    *)
(* again over the files it left.                                           *)
(***************************************************************************)
EXTENDS RotatingSink, DailySink, FiniteSets

CONSTANTS Threads, NoThread,
          Scenarios,      \* bounds: calls, dumps, switches, faults, crashes of a sink
          FlushOn,        \* flush_level_ is at or below every level used
          BacktraceSize

ASSUME LoggerAssumption ==
  /\ NoThread \notin Threads /\ BacktraceSize \in Nat
  /\ \A s \in Scenarios : s.sink \in {"rotating", "daily"}

VARIABLES pc,
          call,      \* the call of each thread: what it is, and its message
          tracing, messages, holder,  \* tracer_: enabled_, messages_, mutex_
          logged, dumps, switches, crashes  \* how often that happened

threadVars == <<pc, call>>
tracerVars == <<tracing, messages, holder>>
counts == <<logged, dumps, switches, crashes, bounds>>
files == <<sinkVars, rotatingVars, dailyVars, now>>
vars == <<files, threadVars, tracerVars, counts>>

\* The sink of this logger: "rotating" or "daily".
sink == bounds.sink

NoCall == [kind |-> "none", m |-> NoItem]

Init ==
  /\ FileInit /\ RInit /\ DInit
  /\ bounds \in Scenarios
  /\ pc = [t \in Threads |-> "idle"] /\ call = [t \in Threads |-> NoCall]
  /\ tracing = FALSE /\ messages = NewQ(BacktraceSize) /\ holder = NoThread
  /\ logged = 0 /\ dumps = 0 /\ switches = 0 /\ crashes = 0

To(t, next) == pc' = [pc EXCEPT ![t] = next]
Becomes(t, kind, m) == call' = [call EXCEPT ![t] = [kind |-> kind, m |-> m]]
Return(t) == To(t, "idle") /\ call' = [call EXCEPT ![t] = NoCall]
\* The sink's constructor has returned; it has no message.
Up == step = "idle" \/ msg # 0

\* The messages of a thread; those of the dump itself have number 0.  They
\* are as large as what they say: a debug message is short.
NewMessage(t, n, size) == [by |-> t, n |-> n, size |-> size, time |-> now]

-----------------------------------------------------------------------------
(* The logger                                                              *)

\* log_: a debug message is below the logger's level and only traced.
Log(t, level) ==
  LET m == NewMessage(t, logged + 1, IF level = "debug" THEN 1 ELSE 2) IN
  /\ pc[t] = "idle" /\ Up /\ logged < bounds.calls
  /\ level = "debug" => tracing
  /\ logged' = logged + 1
  /\ Becomes(t, IF tracing THEN "traced" ELSE "untraced", m)
  /\ To(t, IF level = "debug" THEN "trace" ELSE "sink")
  /\ UNCHANGED <<files, tracerVars, dumps, switches, crashes, bounds>>

\* sink_it_: the call takes the sink's mutex.
EnterSink(t) ==
  /\ pc[t] = "sink" /\ step = "idle"
  /\ IF sink = "rotating" THEN RLog(call[t].m) /\ UNCHANGED dailyVars
     ELSE DLog(call[t].m) /\ UNCHANGED rotatingVars
  /\ To(t, "in_sink")
  /\ UNCHANGED <<now, call, tracerVars, counts>>

\* The call in the sink goes on; when it ends, sink_it_ catches what it threw
\* and its thread goes on.
SinkStep ==
  /\ \/ sink = "rotating" /\ RStep /\ UNCHANGED dailyVars
     \/ sink = "daily" /\ DStep /\ UNCHANGED rotatingVars
  /\ pc' = [t \in Threads |->
              IF pc[t] = "in_sink" /\ step' = "idle" THEN "sunk" ELSE pc[t]]
  /\ UNCHANGED <<now, call, tracerVars, counts>>

\* What the thread does once its message is in the sink: log_it_ and
\* dump_backtrace_.
Continue(t) ==
  IF call[t].kind \in {"untraced", "end"} THEN Return(t)
  ELSE /\ To(t, CASE call[t].kind = "traced" -> "trace"
                  [] call[t].kind = "start"  -> "lock"
                  [] call[t].kind = "item"   -> "pop")
       /\ UNCHANGED call

\* Mutant: should_flush_ looks at the messages of log calls only.
AfterSinkDumpUnflushed(t) ==
  /\ pc[t] = "sunk"
  /\ IF FlushOn /\ call[t].kind \in {"traced", "untraced"}
     THEN step = "idle" /\ (FlushFile \/ FlushFails)
     ELSE UNCHANGED fileVars
  /\ Continue(t)
  /\ UNCHANGED <<callFrame, rotatingVars, dailyVars, now, tracerVars, counts>>

\* The rest of sink_it_: flush_, under the sink's mutex.
AfterSink(t) ==
  /\ pc[t] = "sunk"
  /\ IF FlushOn THEN step = "idle" /\ (FlushFile \/ FlushFails)
     ELSE UNCHANGED fileVars
  /\ Continue(t)
  /\ UNCHANGED <<callFrame, rotatingVars, dailyVars, now, tracerVars, counts>>

-----------------------------------------------------------------------------
(* The backtracer                                                          *)

\* Mutant: push_back does not take the mutex.
TraceUnlocked(t) ==
  /\ pc[t] = "trace"
  /\ messages' = PushBack(messages, call[t].m)
  /\ Return(t)
  /\ UNCHANGED <<files, tracing, holder, counts>>

\* push_back; the tracer may have been disabled since log_ looked.
Trace(t) ==
  /\ pc[t] = "trace" /\ holder = NoThread
  /\ messages' = PushBack(messages, call[t].m)
  /\ Return(t)
  /\ UNCHANGED <<files, tracing, holder, counts>>

\* enable makes a new ring, disable keeps the old one.
Switch(t) ==
  /\ pc[t] = "idle" /\ Up /\ holder = NoThread
  /\ switches < bounds.switches /\ switches' = switches + 1
  /\ tracing' = ~tracing
  /\ messages' = IF tracing THEN messages ELSE NewQ(BacktraceSize)
  /\ UNCHANGED <<files, threadVars, holder, logged, dumps, crashes, bounds>>

\* dump_backtrace_: nothing is locked from here to Lock.
Dump(t) ==
  /\ pc[t] = "idle" /\ Up /\ holder = NoThread
  /\ tracing /\ ~IsEmpty(messages)
  /\ dumps < bounds.dumps /\ dumps' = dumps + 1
  /\ Becomes(t, "start", NewMessage(t, 0, 1)) /\ To(t, "sink")
  /\ UNCHANGED <<files, tracerVars, logged, switches, crashes, bounds>>

\* foreach_pop: Lock, then Item and Pop while there are messages, then Unlock.
Lock(t) ==
  /\ pc[t] = "lock" /\ holder = NoThread
  /\ holder' = t /\ To(t, "each")
  /\ UNCHANGED <<files, call, tracing, messages, counts>>
Item(t) ==
  /\ pc[t] = "each" /\ ~IsEmpty(messages)
  /\ Becomes(t, "item", Front(messages)) /\ To(t, "sink")
  /\ UNCHANGED <<files, tracerVars, counts>>
\* Mutant: the message that was dumped is not popped.
PopUnmoved(t) ==
  /\ pc[t] = "pop" /\ To(t, "each")
  /\ UNCHANGED <<files, call, tracerVars, counts>>
Pop(t) ==
  /\ pc[t] = "pop"
  /\ messages' = PopFront(messages) /\ To(t, "each")
  /\ UNCHANGED <<files, call, tracing, holder, counts>>
\* Mutant: the mutex is kept.
UnlockLater(t) ==
  /\ pc[t] = "each" /\ IsEmpty(messages)
  /\ Becomes(t, "end", NewMessage(t, 0, 1)) /\ To(t, "sink")
  /\ UNCHANGED <<files, tracerVars, counts>>
Unlock(t) ==
  /\ pc[t] = "each" /\ IsEmpty(messages)
  /\ holder' = NoThread
  /\ Becomes(t, "end", NewMessage(t, 0, 1)) /\ To(t, "sink")
  /\ UNCHANGED <<files, tracing, messages, counts>>

-----------------------------------------------------------------------------
\* The clock matters to the daily sink only.
ClockTick ==
  /\ sink = "daily" /\ Tick
  /\ UNCHANGED <<sinkVars, rotatingVars, dailyVars, threadVars, tracerVars, counts>>

Crash ==
  /\ step # "down" /\ crashes < bounds.crashes
  /\ Die
  /\ crashes' = crashes + 1
  /\ pc' = [t \in Threads |-> "idle"] /\ call' = [t \in Threads |-> NoCall]
  /\ tracing' = FALSE /\ messages' = NewQ(BacktraceSize) /\ holder' = NoThread
  /\ UNCHANGED <<rotatingVars, dailyVars, now, logged, dumps, switches, bounds>>

ThreadStep(t) ==
  \/ EnterSink(t) \/ AfterSink(t)
  \/ Trace(t) \/ Lock(t) \/ Item(t) \/ Pop(t) \/ Unlock(t)

Next ==
  \/ SinkStep \/ ClockTick \/ Crash
  \/ \E t \in Threads :
       \/ ThreadStep(t)
       \/ \E level \in {"debug", "info"} : Log(t, level)
       \/ Switch(t) \/ Dump(t)

\* While a thread is in a call and need not wait for a mutex, some such thread
\* runs; nobody has to start a call.
Fairness == WF_vars(SinkStep \/ \E t \in Threads : ThreadStep(t))

Spec == Init /\ [][Next]_vars /\ Fairness

-----------------------------------------------------------------------------
\* The files of the sink hold the messages in the order it was given them,
\* older files the older messages, whatever file operations fail and wherever
\* the process dies.
InOrder == IF sink = "rotating" THEN RInOrder ELSE DInOrder

\* No file of the rotating sink grows beyond its size but by a single message.
Bounded == sink = "rotating" => SizeBound

Files == {name \in Names : Exists(name)}
Kept == UNION {Range(disk[name]) : name \in Files}

\* While nothing fails, a message is missing only because newer messages fill
\* all the files the sink may keep, and it never keeps more.  A daily sink that
\* does not rotate at midnight deletes too much, and one whose constructor ran
\* across midnight never deletes the file it opened.
KeepsNewest ==
  LET limit == IF sink = "rotating" THEN MaxFiles + 1 ELSE DailyFiles
      present == Kept \cup Range(buffer)
  IN  step = "idle" /\ faults = 0 /\ crashes = 0
        /\ (sink = "daily" => limit > 0 /\ RotationAt = 0 /\ ~Truncate /\ ~missed) =>
      /\ Cardinality(Files) <= limit
      /\ \A n \in (1..Len(given)) \ present :
           Cardinality(Files) = limit /\ \A k \in present : n < k

\* With flush_on, a crash takes nothing from the files but messages whose calls
\* have not returned, those of a dump included.
CrashKeepsReturned ==
  [][ crashes' # crashes /\ FlushOn /\ faults = 0 =>
        \A n \in Range(buffer) :
          n \in Kept' \/ \E t \in Threads : pc[t] \in {"in_sink", "sunk"}
                                            /\ call[t].m = given[n]]_vars

\* Debug messages reach the sink through dumps only: of one thread, in the
\* order it logged them and none twice, although several threads dump.
DumpsInOrder ==
  \A i, j \in DOMAIN given :
    /\ i < j /\ given[i].by = given[j].by
    /\ given[i].n > 0 /\ given[i].size = 1 /\ given[j].n > 0 /\ given[j].size = 1
    => given[i].n < given[j].n

\* foreach_pop hands the sink a reference into the ring: it stays the front,
\* and nobody overruns it, until it is popped.
DumpedStaysFront ==
  \A t \in Threads :
    call[t].kind = "item" /\ pc[t] # "each" =>
      ~IsEmpty(messages) /\ Front(messages) = call[t].m

\* The calls that are under way all come to an end (the model bounds how many
\* are started): a dump holds the tracer's mutex over calls of the sink, and
\* nobody the other way round.
LoggerCallsReturn ==
  (\E t \in Threads : pc[t] # "idle") ~> (\A t \in Threads : pc[t] = "idle")

=============================================================================

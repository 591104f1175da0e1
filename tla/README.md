# Verification of C-3rdPartDemo

TLA+ models, TLC runs and TLAPS proofs of the parts of this repository that
keep state across steps, threads, retries or files.  `src/` is a Visual Studio
solution of twenty small programs, each a demo of a third-party C or C++
library, with the libraries' headers (and of some the source) beside them.  Most
demos are one straight-line use of an API.  The logic worth a model is

- in spdlog, whose source is in the tree and which `spdlogDemo` builds its
  logging on: the asynchronous loggers and their pool, the synchronous logger
  over its file sinks with the backtrace, the registry and the periodic flush;
- in the resuming FTP transfers of `curlDemo`;
- in the programs that put whole files through a codec: `LZ4Demo`, which checks
  its own work, `zlibDemo` and `minizDemo`;
- in tinyxml2, compiled into its demo from source: the document tree.

## Inventory

| Component | State | Operations | Hard behaviour | Correct when |
|---|---|---|---|---|
| spdlog `circular_q` | ring of `max_items_+1` slots, head, tail, overrun counter | `push_back`, `front`, `pop_front`, `size`, `full` | reserved slot, wrap, overrun | it is a FIFO that drops and counts the oldest |
| spdlog pool: `mpmc_blocking_queue`, `thread_pool`, `async_logger` | queue, two condition variables, workers, promises, shared ownership | log, flush, worker loop, destruction | interleavings, lost wakeups, the last owner destroys the pool inside its own log call, overrun control messages | every message is accounted for, every call returns, destruction drains the queue, flushes cover |
| spdlog `registry`, `periodic_worker` | logger map and its mutex, flusher threads, pool reference | `get`, `apply_all`, `drop`, `flush_every`, `flush_all`, `shutdown` | calls into the pool with a mutex held; two flushers while one replaces the other; order of shutdown | nothing is left after shutdown and nobody hangs |
| spdlog synchronous `logger` | level, flush level, its sink's mutex | `log`, `dump_backtrace`, enabling the backtrace | threads that make messages in one order and reach the sink in another, exceptions of the sink | files in order, `flush_on` durable, calls return |
| spdlog `backtracer` | a `circular_q` under a mutex | `push_back`, `foreach_pop`, `enable`, `disable` | callback into the sink under the mutex, a reference into the ring | each message is dumped once, in order, and stays while it is used |
| spdlog `file_helper`, rotating and daily sinks | file, buffer, counted size, ring of file names, next rotation | write, flush, rotate, remove old files, restart over existing files | operations that fail in the middle of a rotation, crashes, late messages | files ordered and bounded, only the oldest are lost |
| `curlDemo` FTP | remote and local file, offsets, attempts | `FtpUpload`, `FtpDownload` | retries, broken transfers, failing reads, crashes, stale offset, a handle that forgets it uploads | a resumed file is a prefix of its source, the whole after a success |
| `LZ4Demo` | input, archive, decompressed file | `compress_file`, `decompress_file`, `compareFiles` | failing reads, writes, closes | "verify : OK" can be trusted, an input that can be read is not reported |
| `zlibDemo`, `minizDemo` | stream buffers | (de)compression loops | ends of buffers, short, unreadable or too large sources | nothing skipped, success means complete, termination |
| tinyxml2 document tree | links of the nodes, list of unlinked nodes, counts of the pools | insert, move, delete, clear, clone, copy, parse | a call that fails half-way, recursion that changes the list it walks | links agree, nothing leaks or dangles, order is kept |
| `libuvDemo` `TcpClient` | connection flags, timers | connect, reconnect, send callbacks | callback order, buffer lifetime | not run by any code in the tree |
| `libZipDemo`, `snappyDemo`, `zmqDemo`, `zmqClientDemo`, `libeventDemo`, `pocoDemo`, `glogDemo`, JSON demos, `zlogDemo` | none of their own, or the library's | single calls | hardly any | - |

How they interact: the demos do not interact with each other.  Inside spdlog,
a client thread calls an `async_logger`, which posts to the queue of the
`thread_pool` through a `weak_ptr`; workers pop and call the logger's sinks; the
`registry` owns the pool and the map of loggers, the flusher thread calls
`flush_all` on the registry, and `shutdown` takes the three down in order.  A
synchronous logger calls its sink in the caller's thread under the sink's mutex,
and its backtracer, a `circular_q`, calls the same sink under a second one.
`PROJECT.json` lists every component with its status, every hazard at its line
and the property that covers it or the reason why none does.

## Modules

| Module | Models | Lines of the code |
|---|---|---|
| `CircularQ` | `circular_q` as a record with operators | `circular_q.h` |
| `BoundedQueue` | abstract: a FIFO of at most `Cap` items that drops and counts the oldest | the contract of `mpmc_blocking_q.h` |
| `AsyncPool` | `async_logger`, `thread_pool`, `mpmc_blocking_queue`, ownership of the pool | `async_logger-inl.h`, `thread_pool-inl.h`, `mpmc_blocking_q.h`, `registry::shutdown` |
| `Registry` | composition: EXTENDS `AsyncPool` with the registry and the periodic flushers | `registry-inl.h`, `registry.h`, `periodic_worker*.h` |
| `FileSink` | `file_helper`, `base_sink::log`, the files and how they fail | `file_helper-inl.h`, `base_sink-inl.h` |
| `RotatingSink`, `DailySink` | EXTEND `FileSink` with the two sinks; `DailySink` keeps its names in a `CircularQ` | `rotating_file_sink-inl.h`, `daily_file_sink.h` |
| `SyncLogger` | composition: threads, logger and backtracer over one of the two sinks; crashes | `logger.h`, `logger-inl.h`, `backtracer-inl.h` |
| `FtpTransfer` | uploads and downloads, retries, crashes | `curlDemo.cpp` |
| `Lz4Verify` | compress, decompress, compare | `LZ4Demo.cpp` |
| `CodecStreams` | the four loops of `zlibDemo` and `minizDemo` | `zlibDemo.cpp`, `minizDemo.cpp` |
| `ChildLists` | abstract: every node has a list of children, a step moves one child | the comments of `tinyxml2.h` |
| `DomTree` | the node structure of tinyxml2, one operator per method | `tinyXML2.cpp`, `tinyxml2.h` |
| `XmlDocument` | calls of a program on its documents, a step per round of a loop or recursion | `tinyXML2.cpp` |
| `MCAsyncPool`, `MCRegistry`, `MCSyncLogger` | instances for TLC | |
| `CircularQProofs`, `AsyncPoolProofs`, `RegistryProofs`, `SyncLoggerProofs`, `FtpTransferProofs`, `Lz4VerifyProofs`, `CodecStreamsProofs`, `XmlDocumentProofs` | theorems | |

**AsyncPool.**  A step is one critical section of `queue_mutex_`, one
`notify_one`, or one action on promise, owners or sinks.  The build is MSVC, so
mutexes are released before the notification (the MinGW branch of
`mpmc_blocking_q.h` is not modelled), and condition variables may wake
spuriously.  `owners` is the set of `shared_ptr`s to the pool: the registry's
and one per call under way (`weak_ptr::lock`).  Whoever drops the last one
holds `Terminate` and runs `~thread_pool`: it posts one terminate message per
worker with the blocking policy, then joins.  A promise travels with its
message; a moved-from slot of the ring keeps no promise, an overrun one keeps
its promise until `push_back` assigns over it (`Overwritten`).  The sinks are
external: `SinkIt` logs or throws, `Flush` flushes or throws, and in either case
the promise is set.  Exceptions that do not derive from `std::exception`, which
`SPDLOG_LOGGER_CATCH` throws on, would end the program and are left out.  Each
client has a logger of its own with one of the three policies; loggers keep no
state that calls change.

**Registry.**  The map holds one asynchronous logger.  Users find it with
`get`, log, `apply_all` over it, `drop` it; a flusher is the client in whose
thread `flush_all` runs, with `logger_map_mutex_` and the worker's `mutex_`
held; `Main` calls `flush_every`, again or with an interval of zero (which
starts no thread), and `shutdown`.  The second `flush_every` makes its worker
before the assignment destroys the first (`Retire`).  A step is a step of
`AsyncPool`, a step of the registry, or both where a registry operation calls
the logger or drops the pool, so `RegistrySpec` implies `Spec` of `AsyncPool`.

**SyncLogger and the sinks.**  Messages are numbered in the order in which the
sink is given them, a file is a sequence of such numbers and its buffer (of the
C library) another.  A call has the sink's mutex from `EnterSink` until the
sink's `step` is "idle" again; in between every file operation is a step, and
may fail.  A failed write or close loses any part of the buffer.  `Crash` ends
the process between any two steps, loses part of the buffer, and `ROpen` or
`DOpen` starts it again over the files it left.  A dump has the tracer's mutex
from `Lock` to `Unlock`, over all the calls of the sink it makes; the test that
leads to it and the two markers around it are outside.  The time of a message is
the clock when it was made, the next rotation is computed from the clock when
the file is opened, and the constructor of the daily sink reads the clock in three
steps (`DOpen`, `DSchedule`, `DList`), for its file, its next rotation and its
list of files; so midnight may fall between them, and a message may reach the daily sink after a later one, or
after the rotation that came after it.  Sizes are 1 (traced debug messages and
markers) and 2.

**FtpTransfer.**  Files are sequences of blocks: block `i` of the source is `i`,
`Old` is whatever a file held before.  libcurl and the server are external: a
transfer is refused before it changes anything, or breaks after any number of
blocks, or ends well.  A read of the source may fail (`Sent`, of `readfunc`):
with some bytes read the next call of `readfunc` aborts the transfer, with none
libcurl takes it for the end of the file and may report success, as the code
sets no size to expect; the flag of the `FILE` stays (`ferr`).  A probe may
succeed without reporting a size, and the length of an earlier one is used.  A
crash loses what the C library has buffered and restarts `main`.  What a retry
does after its probe depends on libcurl: `reuploads` says which one the program
runs with, and the constant `Libcurls` which of the two a run looks at.  The
code relies on a handle that uploads again once `CURLOPT_NOBODY` is back at 0
(`AppendRest`), as in versions before 7.71; in the 8.8.0-DEV of `include/curl`
and `libcurl.dll` beside the code the option turns the method into GET, so the
retry downloads into `discardFunc` and changes nothing (`RetryDownloads`).

**Lz4Verify.**  A file is a sequence of units, an archive a header, units and
an end mark.  `compress_file` reads chunks of `ChunkSize` units (16 KB) and
drops a chunk it cannot read to its end; `compareFiles` (1 KB) keeps the part it
gets, so it goes unit by unit.  One place of the input may be unreadable on
every attempt (`bad`), the same for reads of either size; beyond that reads and
writes may fail once each, and a `fclose` may lose the tail of what was written.
A read that fails once during the comparison itself is not modelled: a place
that fails every time stands for it.  The LZ4 frame format gives back what it
was given; an archive cut short ends without an error, as `LZ4F_read` returns 0
there.  A failed `LZ4F_write` loses the units the library still holds.
`LZ4F_readOpen` of the bundled library wants as many bytes as the longest header
has, 19: it refuses the archive of an input of which less than `Smallest` units
(4 bytes) were archived, and may refuse one that has lost its end.

**CodecStreams.**  Data is counted, not looked at.  `Codec` is the contract of
`deflate` and `inflate` that both demos rely on: a call uses input and makes
output until the one is used up or the other is full; up to `Expand` units of
output come of a unit of input and one more of the end; only when it is told to
finish does `deflate` hand out all it holds.  A source to decompress may be cut
short (`intact` is false), reads, writes and closes may fail.  `istream::read`
that gives fewer bytes than asked for sets `eofbit` and `failbit`, whatever the
reason: so the C++ standard has it and the MSVC library does it, and `eof()` does
not tell a failed read from the end (`ZlibReadFails`).  `Refuse` is the size
check of `minizDemo`; a size that `ftell` cannot tell is among `OpenFails`.

**XmlDocument.**  The program is one thread, so a behaviour is a sequence of
calls; but a step is one round of a loop or recursion inside a call, and the
properties hold between any two of them.  `dying`, `open` and `copying` are the
stacks of the recursive destructor, of `ParseDeep` and of `DeepClone`.  The four
pools of a document are one; memory that was freed may be handed out again at
once, by either document, so a stale pointer would be seen.  A text is whatever
`Identify` and `ParseDeep` may find: a leaf, an opening or closing tag,
something malformed, the end, in any order and up to the depth limit.  A closing
tag that closes nothing ends the parse silently, as in the code.  After an
error `Parse(xml)` empties the document, `LoadFile` keeps what it read before.
Two guards are not the code's.  `NotAbove`: the caller does not insert a node
below itself.  The code does not test it; the node would leave the document in a
ring that `Clear` never finds.  `RoomFor`: a copy is started only if the bounded
memory has room for it.  An insertion across documents returns 0 and changes
nothing, and is no step of the model.

## Runs

| Run | Instance | What it shows |
|---|---|---|
| `pool_mixed` | three clients, one per overflow policy, two workers, queue of 2, one log or flush each | no lost wakeup, every call accounted for, terminate messages kept, the destructor runs alone and drains the queue, the promise of a waiting flush is somewhere, the ring under all interleavings is the FIFO `BoundedQueue` |
| `pool_order` | one worker (as `async_factory` creates it), a blocking and a discarding client with two calls each, sinks that throw | a flush that returned left all its client logged durable unless the sink threw in it, sinks keep order, every call returns, the pool is in the end destroyed |
| `pool_shutdown` | one client, one worker | violation: `shutdown()` may return with workers running |
| `registry_shutdown` | a user, two periodic workers one after the other, one worker of the pool, blocking logger | map mutex held exactly inside, one flusher outside `flush_every`, stopped before the pool goes, nothing left after shutdown; `shutdown`, `flush_every`, `get` and `apply_all` return |
| `registry_overrun` | a user and a flusher, overrunning logger | violation: a flush waits for ever and `~periodic_worker` never joins |
| `ftp_resume` | either kind of libcurl; source of 3 blocks, files of 1, 3 or 4 old blocks or none, 3 tries, failing reads, 2 crashes | resumed files are prefixes of their source; retries that know the length on the server neither skip nor repeat; a download that succeeds is complete, and an upload if no read failed and the attempt that succeeded uploaded |
| `ftp_overwrite` | source of 2 blocks, one old block or none, no failing read, no crash | violation: a retry leaves an old file as it is and reports success |
| `lz4_verify` | up to seven units in chunks of three, any unit unreadable or none, three failures | OK means all that can be read; without a transient failure the verdict follows from the input: error if too small, corrupt if it turns unreadable inside a chunk, else OK |
| `lz4_bad_source` | up to four units in chunks of two, no transient failures | violation: an input that turns unreadable where a chunk begins is verified as OK |
| `sync_logger` | two threads; six scenarios of up to four messages, one failure, one crash, two dumps and two switches of the backtrace | files in order, bounded, and losing only the oldest; dumps in order and once; `flush_on` durable; calls return |
| `codec_streams` | buffers of 2, sources of up to 6 of which minizDemo takes 5, one failure | nothing skipped, success is complete but for zlib's `compressFile` after a failed read, intact sources that are not too large are accepted, the loops end but for zlib's `decompressFile` on bad sources |
| `xml_document` | two documents, four nodes, depth limit 4 | links and lists agree, nothing left behind, copies and insertions in place, the lists of children refine `ChildLists`, calls return |

Bounds.  `MaxCalls` bounds the calls of a client, `MaxItems` is the queue's
capacity, `MaxCrashes` and `MaxFaults` bound failures, `Tries` is the demo's
own 3.  Two slots and three messages wrap the ring, overrun it, fill it with
terminate messages and leave a client as the last owner; two clients with two
calls each put a flush behind a log of the same client and of another; one
worker in the liveness runs is what the code creates, two in `pool_mixed` are
what makes wakeups and terminate messages go astray if they can.  In
`ftp_resume` old files shorter than, as long as and longer than what is sent
occur at every attempt.  In `lz4_verify` an input is up to two chunks and a part
of one, or too small to be opened, and the unreadable place may begin a chunk,
be inside one or end one.  In `sync_logger` files hold one large or two small
messages (`MaxSize` 2) and three files are kept (`MaxFiles` 2), so four messages
rotate through all of them and lose one; a day is two readings of the clock and
five readings give three days for the two files a daily sink keeps.  The
scenarios keep the product small: those that fail or die trace nothing, those
that trace do not fail.  In `codec_streams` sources end before, on and after the
end of a buffer, and `Expand` 2 makes output that fills one or more.  In
`xml_document` four nodes are enough for a first, a middle and a last sibling
with one to insert between them, or for a tree of three levels beside an
unlinked node, and for a copy of two nodes; depth 4 is reached by three open
elements, with a node left for the one that is too deep.

`CHECK_DEADLOCK FALSE` is set where the system really may stop: in `pool_mixed`
and `registry_overrun` an overrun flush may wait for ever, `sync_logger` ends
when all its bounded calls were made, and `codec_streams` ends when the function
returns.  The other modules have a step for a finished or crashed program.

Every property of a passing run has a mutant in the modules (marked `Mutant`
beside the definition it replaces): a plausible slip in the code that makes
TLC find the property violated.  Type correctness is proved where a proof needs
it, and no run is spent on it.

Fairness.  `FairSpec` of `AsyncPool` gives weak fairness to every thread inside
the library (the operating system schedules threads that can run) and none to
the start of a call or of `shutdown`, which the program may never make.
`FairRegistrySpec` adds weak fairness for the flushers, the users inside a
registry operation and `Main` inside `flush_every` and `shutdown`, and strong
fairness for `StopFlusher` alone: the destructor competes for `mutex_` with a
thread that takes it once per period and leaves it free for the whole interval
of `wait_for` (3 s in `main`), so it may be passed over by a tick but not for
ever.  `SyncLogger`: while a thread is in a call and need not wait for a mutex,
some thread takes a step; the number of calls is bounded, so no thread is passed
over for ever.  `CodecStreams` and `XmlDocument` are one thread that runs on
while it is inside a function (`XmlDocument` need not start a call).
`FtpTransfer` and `Lz4Verify` state no liveness: nothing in the code ends a
transfer that stalls, and that `FtpUpload` does not try for ever is an invariant
(`AttemptsEnd`).

## Findings

Four runs end in the violation of what a comment or message of the code says;
`PROJECT.json` quotes the lines.

1. An overrun flush message is not dropped but stays in the reserved slot, so
   `flush()` neither returns nor throws until somebody pushes again
   (`async_logger-inl.h:52`).  During a periodic flush this keeps
   `~periodic_worker`, and with it `shutdown()`, from returning
   (`periodic_worker.h:10`).
2. `shutdown()` need not stop the threads before it returns (`spdlog.h:107`).
3. `FtpUpload` "will overwrite existing file", but when the first attempt did not
   get as far as truncating it, the retry downloads it, leaves it as it is and
   reports success (`curlDemo.cpp:72`); with a libcurl that uploads again it
   appends.  `FtpDownload` carries the same comment (`:174`) and resumes any
   local file.  For the same reason a retry of `FtpUpload` does not resume an
   upload that broke (`:117`): after `CURLOPT_NOBODY` 1 and 0 (`:137`) the handle
   of the libcurl beside the code downloads what was stored, and the call reports
   success of a file that is not complete.
4. The verification of `LZ4Demo` accepts an archive that stops where a chunk of
   the input begins that cannot be read (`LZ4Demo.cpp:224`).

Weaknesses that the models contain as steps or as exceptions of a property:

- `InsertAfterChild` tests `afterThis->_next` before it takes `addThis` out of
  its list; the last child inserted after the one before it makes it write
  through a null pointer (`tinyXML2.cpp:1028`, `CrashInAddChildAfter`;
  `InsertsWhereTold` says that this is the only such case).
- `flush()` of an asynchronous logger returns as well when the sink's `flush()`
  threw: only the error handler is told, and nothing need be durable
  (`async_logger-inl.h:77`; `FlushCovers` excepts the clients in `unflushed`).
- After a reopen that failed, `file_helper::write` loses messages without an
  error until the next rotation (`file_helper-inl.h:101`).
- A daily sink with `max_files` may keep one file more than its comment says
  (`daily_file_sink.h:64`): the constructor opens the file of the day, then lists
  the files of what the clock says a little later (`:130`); if midnight falls
  between, the file it opened is not in the list and never removed
  (`KeepsNewest` excepts `missed`).
- A daily sink that does not rotate at midnight enters the file of a day into its
  ring twice and removes one too early; `init_filenames_q_` stops at the first
  missing day, so files before it are never removed after a restart; a write
  that fails skips `delete_old_`, with the same effect.  A message that is late
  goes to the file of the later day.
- `decompressFile` of `zlibDemo` calls `inflate` for ever on a source that is cut
  short or cannot be read (`zlibDemo.cpp:118`).  `compressFile` takes a read that
  failed for the end of the source, archives what came before and returns true
  (`zlibDemo.cpp:50`).  Neither looks at the result of its writes.
- `readfunc` of `curlDemo` hands libcurl a failed read as the end of the file, and
  the upload of what came before succeeds (`curlDemo.cpp:68`; `ResumeInPlace`
  excepts `ferr`, and attempts that download).
- `LZ4Demo` refuses inputs of one to three bytes when it opens their archives
  (`LZ4Demo.cpp:95`), and compresses nothing of a chunk of which it could read a
  part (`:57`), so that an input with an unreadable place ends in "corruption
  detected" or in "verify : OK" by where the place is (`FaultlessVerdict`).

## Proofs

All for every value of the constants that the named assumptions
(`PoolAssumption`, `NoItemAssumption`, `RegistryAssumption`, `FtpAssumption`,
`Lz4Assumption`, `LoggerAssumption`, `FileAssumption`, `RotatingAssumption`,
`DailyAssumption`, `CodecAssumption`, `DomAssumption`, `DepthAssumption`)
allow: any sets of threads, any policies, any capacity (0 included), lengths,
numbers of attempts, files, days, nodes and documents, failures and crashes.
`DomAssumption` takes `Nodes` to be finite, as memory is; it has no other bound.

- `TypeCorrect`: `Spec => []TypeOK` of `AsyncPool`.  `TypeOK` is not inductive,
  as `Push` puts what a thread holds into the queue; `IInv` adds `PostersHold`,
  that a thread inside a post holds a message.  One lemma per group of actions,
  all resting on `OneMoves` (one thread moves and changes at most what it holds).
- `QueueRefinement`: `Spec => QueueSpec`.  `CircularQProofs` shows what
  `PushBack` and `TakeFront` do to `Contents`: append when there is room, drop
  the oldest and count it when not, take the head.  The case of a wrapped ring
  is arithmetic on `Step` (`StepValue`, `SlotOfTail`), without `%`.  Every step
  of `AsyncPool` is then a `Put`, `PutOverrun` or `Get`, or leaves the contents.
- `DestructorAlone`: `Spec => []DestroyerAlone`, from an invariant that ties
  `owners` to the calls under way (a thread inside a call is an owner) and the
  destructor to `owners = {}`: without owners `weak_ptr::lock` fails, so nobody
  enters.
- `PromisesHeld`: for every flush still to be answered there is the thread, slot
  or worker that has it (`PendingInv`).  A push that overruns leaves the
  overwritten message in the vector's reserved slot; the next one overwrites
  that slot and answers its promise.
- `WakeupsKept`: the two halves of `NoLostWakeup` (`RoomWanted`, `ItemsWanted`)
  are inductive over `IInv`; the proof counts who enters and leaves each place
  (one step moves one thread, or wakes one more).
- `TerminatesNotLost`: `TermInv` adds that the terminate messages are the last of
  the queue (`TerminatesLast`), so that what is taken before them is accounted
  for, that there are none while somebody owns the pool (`TerminatesWait`), and
  where the destructor's loop is (`LoopInv`): a join follows when all are posted.
- `AllAccountedFor`: `OnePlace` (a message made is in at most one of queue, hands
  and handled, and in each only once) and `LostCounted` (the others are as many
  as the three counters say).  Each push, pop, overrun, discard and refusal moves
  one message, over what `HoldInv` knows of what threads hold.
- `DestroyedWhenDrained`: `AllAccountedFor` and `GoneInv`; when the join returns
  each worker has taken a terminate message, they were last, so the queue is
  empty (`JoinFindsEmpty`), and without owners nobody enters again.
- `SinkKeepsOrder`, `FlushCoversAll`: under `OneWorker`, that `Workers` is a
  singleton, as in the pool a program gets that makes none itself (`async.h:46`);
  with two workers the statements are false, as a second one may overtake.  `Lined`: of each
  client, what the sink has is before what the worker holds, that before what is
  queued, and that before what is about to be posted.  `FlushOnce` says that the
  flush a client waits for is in one place, so that the worker that answers it
  (`CoverInv`) leaves nothing of this client behind; what it flushed is durable
  unless the sink threw (`Saved`).
- `RegistryPool`: `RegistrySpec => Spec`; all the above holds of the composition.
- `ShutdownReleasesAll`: `ReleaseInv` follows `Main` through `shutdown`
  (`MainStaysOut`: it never takes the pool again); the rest is
  `DestroyedWhenDrained` and `DestructorAlone` through `RegistryPool`.
- `MapMutex`, `OneFlusherRuns`, `FlusherStopsFirst`: the mutex of the map is held
  inside `flush_all` and `apply_all` and nowhere else (`MapInv`); the flushers
  that run are the registry's, and during `flush_every` the one it retires
  (`FlusherInv`); a periodic flush only runs while the registry owns the pool
  (`OwnedInv`, which follows `Main` through `shutdown` and each flusher through
  its call).
- `FilesInOrder`, `DumpedMessageStays` (`SyncLogger`): the invariant is
  `OrderInv /\ ClientsOK`.  `OrderInv`: files and buffer are sorted and ordered
  among each other (`Ordered`, `BufferNewest`), hold only what was given so far
  (`Past`), and the open file is the newest one in use (`OpenIsNewest`); the
  message of the call under way is in no file yet (`SinkOK`); the rotating sink
  writes to file 0 only (`RotatingOK`); no file of the daily sink is of a day
  after the clock's or after that of the next rotation, so that a message that
  rotates opens the newest file (`DailyOK`).  `ClientsOK` adds who has the
  sink and the tracer, and that the message being dumped is the ring's front:
  everybody who pushes, pops or replaces the ring needs the tracer's mutex.
- `ReturnedSurvives`: `Unreturned`: with `flush_on` and no failure each message in
  stdio's buffer is that of a thread still in the sink or before its flush.
- `DumpsKeepOrder`: `DumpInv`.  `InTurn`: what the sink was given of a thread is
  earlier than what the ring has of it, in the ring the older comes first;
  `TracedLast`: both are earlier than what the thread is about to trace;
  `Numbered`: a debug message reaches the sink in a dump only.
- `NewestKept`: `KeepInv`, while no operation has failed and the process has not
  died (`Healthy`).  `OldestGone`: a message that is in no file, not buffered and
  not about to be written is older than all that are left; it is the order of
  `FilesInOrder` that makes the last file, or the day that is deleted, the oldest.
  `RotatingKeeps`: the files are numbered without gaps but for the one hole that a
  rotation moves down (`Hole`), so that a rename loses a file only when all are
  there.  `DailyKeeps`: the ring of names lists exactly the files there are, in the
  order of their days, with the one just opened to be added; rotating at midnight
  makes each file that is opened a new one (`NextRotationNextDay`), which is what
  fails at another hour.  The constructor's own file is listed if it is of the day
  of the listing (`DListKeeps`); if it is not, nothing is (`NoFilename`), and
  `missed` takes the sink out of the statement.  The number of files then is the
  length of the ring.
- `FilesBounded`: `SizeInv`.  `FilesFit`: every file fits, and so does the open one
  with what is still in stdio's buffer (`Load`), which the bound on files alone
  would not give; `Counted`: `currentSize` counts the `Load`, and before the write
  `newSize` counts it and the message, unless the file was found empty.  Nearly all
  steps shrink (`Shrinks`): a file then holds a prefix of what a file or the `Load`
  held, and a prefix, or calls that throw meanwhile, make nothing larger
  (`SizedLater`).  The rest is `RWriteSizes`: an append adds one size.  Messages of
  calls that threw do not count: `sink_it_` sets `current_size_` after the write,
  so one that throws may leave its message in the file uncounted.
- `NothingIsSkipped`, `SuccessMeansComplete` (`CodecStreams`): the counts of units
  balance at every step; `InputUsed`, `EndRead`, `EndMade` and `EndSeen` say what
  the places of the loops stand for: leaving the inner loop with room in the
  buffer means the input was used up, and the status "end" that the trailer was
  made and handed out; `eof` without a failed read that all was read.
- `IntactIsAccepted`: `Progress`: minizDemo never calls the codec with a full
  buffer, nor without input before the end of the source, so that a call that
  takes and gives nothing ends the stream (`CodecProgress`).
- `UploadResumes`: a file this upload created or truncated is from the source as
  long as each attempt that writes starts at the length of the remote file;
  otherwise the call is `blind` and the statement, false then (a stale offset
  repeats blocks), leaves it out.  `SendExtends` is the data fact: appending the
  source from where a prefix of it ends gives a longer prefix.  `Reliable` names
  when a success means the whole: the last attempt uploaded, and `readfunc` met
  no error.  `AttemptsEnd`: `c` never exceeds `Tries`.
- `DownloadResumes`: position of the transfer = what disk and buffer hold; a crash
  loses the buffer, and a prefix of a prefix is one (`FromSourcePart`).
- `VerifySound`: `compareFiles` has compared equal units so far (`Compared`);
  at an OK both reads came back empty, so the lengths agree as well.
  `VerdictWithoutFault`: without faults `compress_file` stands at a multiple of
  the chunk size or at the end (`AtChunk`), so that it stops where the chunk of
  the unreadable place begins (`ArchivedAtStop`); the archive is the units before
  it between header and end mark (`ArchiveClean`) and the decompressed file the
  same units so far (`DecClean`), at every step.
- `LinksOfTree`, `UnlinkedListExact`, `ClearLeavesNothing` (`XmlDocument`): `IInv`
  is `Sound` of the structure and `DyingOK`, `CallOK`, `OpenOK`, `CopyingOK` of
  the call.  Links that agree are not enough for the third theorem: a ring of
  siblings, or of parents, would agree as well and be reached from nowhere.
  `NoRing` excludes both, and is stated without recursion: no non-empty set of
  nodes contains the predecessor (the parent) of each of its members.  From it
  `NoOrphans` follows (a node that has a parent has one with a first child), and
  with `Listed` that a document without a first child and without unlinked nodes
  has no node at all.  Every insertion keeps it by `NotAbove`.  `OpenOK` and
  `CopyingOK` say that what a parse or copy puts together hangs nowhere and is
  not being destroyed.
- `LinksAreLists`: `Spec => ListsSpec`, and from it the others.  The invariant
  `Ordered` says that the links of every place make a list (`ListOf`: its members
  are the children, `_firstChild` its head, each `_next` the one after it), and
  `KidsAre` that `Kids` reads exactly this list, for which a list without
  repetitions being no longer than the finite set `Nodes` (`ShortList`) is what
  bounds the walk.  Each insertion and removal then maps to one of `ChildLists`,
  every other step to a stutter.
- `InsertionsWhereTold`: the list after an insertion, as `LinksAreLists` has it;
  a call that stops on a null pointer is the only exception.
- `CopiesInOrder`: `CopyInOrder` says what a copy holds; `ImageOK` adds where the
  recursion stands.  Originals are no copies and whatever holds a copy is one
  (`Image`); the children of a copy are the copies of the first children of its
  original, the next one being where its frame of the recursion stands, and all of
  them once it has no frame (`AsFar`); frame k + 1 copies the child at which frame k
  stands.  While `DeepCopy` clears its target nothing is copied yet (`Waiting`).

Only model-checked: liveness (`CallsReturn`, `ShutdownCompletes`,
`ShutdownReturns`, `RegistryCallsReturn`, `LoggerCallsReturn`, `Ends`,
`CallsEnd`), because fairness and ENABLED are out of the prover's reach.  Every
safety property of a passing run is stated by a theorem; `SinkInOrder`,
`FlushCovers` and `ResumeInPlace` under the named assumptions above.

The library's induction theorems cannot be used (they take an operator as a
parameter).  The two places that need an induction over data, the sums of
`Bounded` and the lists that `Kids` reads, use recursive functions with a bounded
domain and minimal counterexamples instead: the lengths for which the statement
fails would have a least member (`LeastNumber`, from the library's well-founded
order of the naturals), which the step from the length before it refutes.  No
module has a RECURSIVE operator.

## Not modelled

- spdlog: console, network and in-memory sinks, formatting, patterns, settings;
  the MinGW queue, `dequeue_for` and the counters' resets (nothing calls them);
  several loggers in the map and several sinks of a logger; `set_tp` with a
  second pool while clients log to the first (`registry-inl.h:110`); the
  unlocked reads of `get_default_raw` and of the error handler
  (`registry-inl.h:96`, `:163`); basic and hourly file sinks; file event
  handlers; clocks that go back.
- `curlDemo`: a failing `fclose` of `FtpDownload` (`curlDemo.cpp:233`), 32-bit
  offsets (`:88`), transfers that stall (`:213`), the HTTP request.
- `LZ4Demo`: files that cannot be opened.  `zlibDemo`, `minizDemo`: corrupt data,
  their mains, standard libraries whose short reads set `badbit` alone (there
  `compressFile` would loop as well), and `fclose` of the null pointer when the
  destination does not open (`minizDemo.cpp:50`, `:171`).
- tinyxml2: attributes, values and their strings, `_charBuffer`, visitors and
  printing, conversions; several pools.
- `TcpClient` has no caller that runs its loop and `libuvDemo.cpp` does not
  compile; the other demos keep no state.  The headers of vendored libraries
  make up nearly all lines of the tree (JSON, POCO, fmt, libcurl); the programs
  here use them through single calls.

## Plan

Done: all modules above.  What a next step would add, in this order:

1. `Registry`: several loggers in the map, and `set_tp` with a second pool while
   clients log to the first.
2. tinyxml2's attributes, a singly linked list with its own pool, and the
   printer's stack of open elements over the tree.

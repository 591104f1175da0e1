----------------------------- MODULE AsyncPool -----------------------------
(***************************************************************************)
(* spdlog's asynchronous mode: threads (Clients) log through async loggers *)
(* that share one thread_pool.  Models async_logger-inl.h (sink_it_,       *)
(* flush_, backend_sink_it_, backend_flush_), thread_pool-inl.h,           *)
(* mpmc_blocking_q.h (the build is MSVC, so condition variables are        *)
(* notified after the mutex is released) and the ownership of the pool:    *)
(* the registry's tp_ (dropped by registry::shutdown in the thread Main)   *)
(* and the shared_ptr each call gets from weak_ptr::lock.  Whoever drops   *)
(* the last owner runs ~thread_pool in its own thread.                     *)
(*                                                                         *)
(* A step is one critical section of queue_mutex_, one notify_one, or one  *)
(* action on the promise, the owners or the sinks.  A client logs through  *)
(* a logger of its own: loggers keep no state that calls change.           *)
(***************************************************************************)
EXTENDS CircularQ, FiniteSets

CONSTANTS Clients,   \* the threads that log
          Main,      \* the thread that calls spdlog::shutdown()
          Workers,   \* the threads of the pool (threads_)
          MaxItems,  \* q_max_items
          Policy,    \* overflow_policy_ of each client's logger
          Kinds,     \* what each client calls: "log", "flush"
          MaxCalls,  \* bound: calls each client makes
          Faults     \* whether a sink's log and flush may throw

Policies == {"block", "overrun_oldest", "discard_new"}

ASSUME PoolAssumption ==
  /\ IsFiniteSet(Clients) /\ IsFiniteSet(Workers) /\ Workers # {}
  /\ Main \notin Clients /\ Workers \cap (Clients \cup {Main}) = {}
  /\ MaxItems \in Nat /\ MaxCalls \in Nat /\ Faults \in BOOLEAN
  /\ Policy \in [Clients -> Policies]
  /\ Kinds \in [Clients -> SUBSET {"log", "flush"}]

Posters == Clients \cup {Main}
Threads == Posters \cup Workers

\* async_msg: type, and the call it came from
Message == [kind : {"log", "flush"}, from : Clients, seq : 1..MaxCalls]
Terminate == [kind |-> "terminate"]
Items == Message \cup {Terminate}

ASSUME NoItemAssumption == NoItem \notin Items

VARIABLES
  q,           \* q_, the circular queue of the pool
  discarded,   \* discard_counter_
  pc,          \* where each thread is
  held,        \* the message a thread is posting or processing
  owners,      \* the threads that own the pool; Main: the registry's tp_
  terminates,  \* i in the loop of ~thread_pool that posts terminate
  calls,       \* number of calls each client has made
  answer,      \* flush promise of each client's last flush
  refused,     \* calls that found no thread pool
  sunk,        \* by client: the messages its sink received, in order
  handled,     \* by client: the messages workers are done with
  durable,     \* by client: how many of sunk have been flushed
  unflushed    \* clients for whose last flush the sink threw, and err_handler_ was called

queueVars == <<q, discarded>>
callVars == <<calls, answer, refused>>
sinkVars == <<sunk, handled, durable, unflushed>>
poolVars == <<owners, terminates>>
vars == <<queueVars, pc, held, poolVars, callVars, sinkVars>>

Init ==
  /\ q = NewQ(MaxItems)
  /\ discarded = 0
  /\ pc = [t \in Threads |-> IF t \in Workers THEN "dequeue" ELSE "idle"]
  /\ held = [t \in Threads |-> NoItem]
  /\ owners = {Main}
  /\ terminates = 0
  /\ calls = [c \in Clients |-> 0]
  /\ answer = [c \in Clients |-> "none"]
  /\ refused = 0
  /\ sunk = [c \in Clients |-> <<>>]
  /\ handled = [c \in Clients |-> {}]
  /\ durable = [c \in Clients |-> 0]
  /\ unflushed = {}

Goto(t, l) == pc' = [pc EXCEPT ![t] = l]
At(S, l) == {t \in S : pc[t] = l}

-----------------------------------------------------------------------------
(* A call: sink_it_ or flush_, from weak_ptr::lock to the end of the scope *)

\* Mutant: the call keeps a raw pointer to the pool.
StartCallUnowned(c, kind) ==
  /\ pc[c] = "idle" /\ calls[c] < MaxCalls
  /\ owners # {}
  /\ calls' = [calls EXCEPT ![c] = @ + 1]
  /\ held' = [held EXCEPT ![c] = [kind |-> kind, from |-> c, seq |-> calls[c] + 1]]
  /\ answer' = [answer EXCEPT ![c] = IF kind = "flush" THEN "pending" ELSE "none"]
  /\ Goto(c, "post")
  /\ UNCHANGED <<queueVars, poolVars, refused, sinkVars>>

\* thread_pool_.lock() succeeds and the message is built; the call posts it.
StartCall(c, kind) ==
  /\ pc[c] = "idle" /\ calls[c] < MaxCalls
  /\ owners # {}
  /\ owners' = owners \cup {c}
  /\ calls' = [calls EXCEPT ![c] = @ + 1]
  /\ held' = [held EXCEPT ![c] = [kind |-> kind, from |-> c, seq |-> calls[c] + 1]]
  /\ answer' = [answer EXCEPT ![c] = IF kind = "flush" THEN "pending" ELSE "none"]
  /\ Goto(c, "post")
  /\ UNCHANGED <<queueVars, terminates, refused, sinkVars>>

\* The pool is gone: the call throws, and the logger reports the error.
RefuseCall(c) ==
  /\ pc[c] = "idle" /\ calls[c] < MaxCalls
  /\ owners = {}
  /\ calls' = [calls EXCEPT ![c] = @ + 1]
  /\ answer' = [answer EXCEPT ![c] = "none"]
  /\ refused' = refused + 1
  /\ UNCHANGED <<queueVars, pc, held, poolVars, sinkVars>>

\* post_async_msg_ chooses by policy; ~thread_pool always blocks.
PolicyOfPoster(t) == IF t \in Clients THEN Policy[t] ELSE "block"
PolicyOf(t) == IF held[t] = Terminate THEN "block" ELSE PolicyOfPoster(t)

\* Where a poster goes once its message is in the queue and notified, or
\* dropped: the destructor posts again or joins, flush_ waits for its
\* promise, sink_it_ lets go of the pool.
AfterPost(t) ==
  CASE held[t] = Terminate ->
         IF terminates < Cardinality(Workers) THEN "post" ELSE "join"
    [] held[t] # Terminate /\ held[t].kind = "flush" -> "future"
    [] OTHER -> "release"

\* enqueue: pop_cv_.wait finds the queue full.
WaitRoom(t) ==
  /\ pc[t] = "post" /\ PolicyOf(t) = "block" /\ IsFull(q)
  /\ Goto(t, "wait_room")
  /\ UNCHANGED <<queueVars, held, poolVars, callVars, sinkVars>>

\* The item that push_back assigns over: its promise, if it still has one
\* (an overrun flush), is broken now.
Overwritten == q.v[q.tail]

AnswerFlush(m, a) ==
  answer' = IF m \in Message /\ m.kind = "flush"
            THEN [answer EXCEPT ![m.from] = a] ELSE answer

MayPush(t) == PolicyOf(t) = "overrun_oldest" \/ ~IsFull(q)

\* The loop of the destructor counts the terminate messages it has posted.
CountTerminate(t) ==
  terminates' = IF held[t] = Terminate THEN terminates + 1 ELSE terminates

\* enqueue, enqueue_nowait, enqueue_if_have_room: the critical section that
\* moves the message into the queue.
Push(t) ==
  /\ pc[t] = "post" /\ MayPush(t)
  /\ q' = PushBack(q, held[t])
  /\ AnswerFlush(Overwritten, "broken")
  /\ CountTerminate(t)
  /\ Goto(t, "notify")
  /\ UNCHANGED <<discarded, held, owners, calls, refused, sinkVars>>

\* Mutant: a discarded flush keeps its promise.
DiscardSilently(t) ==
  /\ pc[t] = "post" /\ PolicyOf(t) = "discard_new" /\ IsFull(q)
  /\ discarded' = discarded + 1
  /\ Goto(t, AfterPost(t))
  /\ UNCHANGED <<q, held, poolVars, callVars, sinkVars>>

\* enqueue_if_have_room on a full queue: the message dies with the call,
\* and the promise of a flush with it.
Discard(t) ==
  /\ pc[t] = "post" /\ PolicyOf(t) = "discard_new" /\ IsFull(q)
  /\ discarded' = discarded + 1
  /\ AnswerFlush(held[t], "broken")
  /\ CountTerminate(t)
  /\ Goto(t, AfterPost(t))
  /\ UNCHANGED <<q, held, owners, calls, refused, sinkVars>>

\* Mutant: notify only the push that found the queue empty.
NotifyPushIfFirst(t) ==
  /\ pc[t] = "notify" /\ t \in Posters
  /\ IF At(Workers, "wait_item") = {} \/ Size(q) > 1
     THEN Goto(t, AfterPost(t))
     ELSE \E w \in At(Workers, "wait_item") :
            pc' = [pc EXCEPT ![w] = "dequeue", ![t] = AfterPost(t)]
  /\ UNCHANGED <<queueVars, held, poolVars, callVars, sinkVars>>

\* push_cv_.notify_one(), after the mutex is released.
NotifyPush(t) ==
  /\ pc[t] = "notify" /\ t \in Posters
  /\ IF At(Workers, "wait_item") = {}
     THEN Goto(t, AfterPost(t))
     ELSE \E w \in At(Workers, "wait_item") :
            pc' = [pc EXCEPT ![w] = "dequeue", ![t] = AfterPost(t)]
  /\ UNCHANGED <<queueVars, held, poolVars, callVars, sinkVars>>

\* future.get() returns, or throws what SPDLOG_LOGGER_CATCH reports.
AwaitFlush(c) ==
  /\ pc[c] = "future" /\ answer[c] # "pending"
  /\ Goto(c, "release")
  /\ UNCHANGED <<queueVars, held, poolVars, callVars, sinkVars>>

\* t drops its reference to the pool; the last owner enters ~thread_pool.
DropPool(t) ==
  /\ owners' = owners \ {t}
  /\ IF owners = {t}
     THEN /\ Goto(t, "post")
          /\ held' = [held EXCEPT ![t] = Terminate]
     ELSE /\ Goto(t, "idle")
          /\ held' = [held EXCEPT ![t] = NoItem]

\* Mutant: a call that ends in an exception leaks its reference.
ReleaseUnlessThrown(c) ==
  /\ pc[c] = "release"
  /\ IF answer[c] = "broken" THEN Goto(c, "idle") /\ UNCHANGED <<owners, held>> ELSE DropPool(c)
  /\ UNCHANGED <<queueVars, terminates, callVars, sinkVars>>

Release(c) ==
  /\ pc[c] = "release"
  /\ DropPool(c)
  /\ UNCHANGED <<queueVars, terminates, callVars, sinkVars>>

\* registry::shutdown: tp_.reset().
Shutdown ==
  /\ pc[Main] = "idle" /\ Main \in owners
  /\ DropPool(Main)
  /\ UNCHANGED <<queueVars, terminates, callVars, sinkVars>>

\* ~thread_pool joins every worker, then the pool is gone.
AllExited == \A w \in Workers : pc[w] = "exited"

\* Mutant: the destructor waits for the queue to drain, not for the workers.
JoinedOnDrain == IsEmpty(q)
Joined == AllExited

Join(t) ==
  /\ pc[t] = "join" /\ Joined
  /\ Goto(t, "idle")
  /\ held' = [held EXCEPT ![t] = NoItem]
  /\ UNCHANGED <<queueVars, poolVars, callVars, sinkVars>>

-----------------------------------------------------------------------------
(* A worker: process_next_msg_                                             *)

\* dequeue: push_cv_.wait finds the queue empty.
WaitItem(w) ==
  /\ pc[w] = "dequeue" /\ IsEmpty(q)
  /\ Goto(w, "wait_item")
  /\ UNCHANGED <<queueVars, held, poolVars, callVars, sinkVars>>

Dequeue(w) ==
  /\ pc[w] = "dequeue" /\ ~IsEmpty(q)
  /\ held' = [held EXCEPT ![w] = Front(q)]
  /\ q' = TakeFront(q)
  /\ Goto(w, "notify")
  /\ UNCHANGED <<discarded, poolVars, callVars, sinkVars>>

\* pop_cv_.notify_one(), after the mutex is released.
NotifyPop(w) ==
  /\ pc[w] = "notify" /\ w \in Workers
  /\ IF At(Posters, "wait_room") = {}
     THEN Goto(w, "process")
     ELSE \E t \in At(Posters, "wait_room") :
            pc' = [pc EXCEPT ![t] = "post", ![w] = "process"]
  /\ UNCHANGED <<queueVars, held, poolVars, callVars, sinkVars>>

\* w is done with its message and loops.
Handle(w) ==
  /\ handled' = [handled EXCEPT ![held[w].from] = @ \cup {held[w].seq}]
  /\ held' = [held EXCEPT ![w] = NoItem]
  /\ Goto(w, "dequeue")

\* backend_sink_it_: the sink logs the message or throws (the error is
\* reported), then flushes when the message's level asks for it, or throws.
SinkIt(w) ==
  LET m == held[w] IN
  /\ pc[w] = "process" /\ m \in Message /\ m.kind = "log"
  /\ \/ sunk' = [sunk EXCEPT ![m.from] = Append(@, m.seq)]
     \/ Faults /\ UNCHANGED sunk
  /\ \/ UNCHANGED durable
     \/ durable' = [durable EXCEPT ![m.from] = Len(sunk'[m.from])]
  /\ Handle(w)
  /\ UNCHANGED <<queueVars, poolVars, callVars, unflushed>>

\* Mutants: the promise is never set; it is set without the sinks having
\* been flushed.
FlushUnanswered(w) ==
  LET m == held[w] IN
  /\ pc[w] = "process" /\ m \in Message /\ m.kind = "flush"
  /\ durable' = [durable EXCEPT ![m.from] = Len(sunk[m.from])]
  /\ Handle(w)
  /\ UNCHANGED <<queueVars, poolVars, callVars, sunk, unflushed>>
FlushUnbacked(w) ==
  LET m == held[w] IN
  /\ pc[w] = "process" /\ m \in Message /\ m.kind = "flush"
  /\ AnswerFlush(m, "set")
  /\ Handle(w)
  /\ UNCHANGED <<queueVars, poolVars, calls, refused, sunk, durable, unflushed>>

\* backend_flush_, then flush_promise.set_value(), whether the sink flushed
\* or threw: SPDLOG_LOGGER_CATCH reports the error and goes on.
Flush(w) ==
  LET m == held[w] IN
  /\ pc[w] = "process" /\ m \in Message /\ m.kind = "flush"
  /\ \/ /\ durable' = [durable EXCEPT ![m.from] = Len(sunk[m.from])]
        /\ unflushed' = unflushed \ {m.from}
     \/ Faults /\ UNCHANGED durable /\ unflushed' = unflushed \cup {m.from}
  /\ AnswerFlush(m, "set")
  /\ Handle(w)
  /\ UNCHANGED <<queueVars, poolVars, calls, refused, sunk>>

Exit(w) ==
  /\ pc[w] = "process" /\ held[w] = Terminate
  /\ held' = [held EXCEPT ![w] = NoItem]
  /\ Goto(w, "exited")
  /\ UNCHANGED <<queueVars, poolVars, callVars, sinkVars>>

\* A condition variable may wake a thread nobody notified.
SpuriousWake(t) ==
  /\ \/ pc[t] = "wait_room" /\ Goto(t, "post")
     \/ pc[t] = "wait_item" /\ Goto(t, "dequeue")
  /\ UNCHANGED <<queueVars, held, poolVars, callVars, sinkVars>>

-----------------------------------------------------------------------------
\* Every call has been made and the pool is gone: the process just idles.
Finished ==
  /\ \A c \in Clients : pc[c] = "idle" /\ calls[c] = MaxCalls
  /\ pc[Main] = "idle" /\ owners = {}
  /\ UNCHANGED vars

ClientStep(c) ==
  (\E kind \in Kinds[c] : StartCall(c, kind)) \/ RefuseCall(c) \/ AwaitFlush(c) \/ Release(c)
PostStep(t) == WaitRoom(t) \/ Push(t) \/ Discard(t) \/ NotifyPush(t) \/ Join(t)
WorkerStep(w) ==
  WaitItem(w) \/ Dequeue(w) \/ NotifyPop(w) \/ SinkIt(w) \/ Flush(w) \/ Exit(w)

Next ==
  \/ \E c \in Clients : ClientStep(c)
  \/ \E t \in Posters : PostStep(t)
  \/ \E w \in Workers : WorkerStep(w)
  \/ \E t \in Threads : SpuriousWake(t)
  \/ Shutdown
  \/ Finished

Spec == Init /\ [][Next]_vars

\* Every thread runs; nothing makes a client call, or Main shut down.
Fairness ==
  /\ \A t \in Posters : WF_vars(PostStep(t))
  /\ \A c \in Clients : WF_vars(AwaitFlush(c) \/ Release(c))
  /\ \A w \in Workers : WF_vars(WorkerStep(w))

FairSpec == Spec /\ Fairness

-----------------------------------------------------------------------------
(* Properties                                                              *)

PosterStates == {"idle", "post", "wait_room", "notify", "future", "release", "join"}
WorkerStates == {"dequeue", "wait_item", "notify", "process", "exited"}

\* The state the pool, the threads, the calls and the sinks can be in.
PoolTypeOK ==
  /\ q \in QueueType(MaxItems, Items) /\ discarded \in Nat
  /\ terminates \in Nat
ThreadTypeOK ==
  /\ pc \in [Threads -> PosterStates \cup WorkerStates]
  /\ \A t \in Posters : pc[t] \in PosterStates
  /\ \A w \in Workers : pc[w] \in WorkerStates
  /\ held \in [Threads -> Items \cup {NoItem}]
  /\ owners \subseteq Posters
CallTypeOK ==
  /\ calls \in [Clients -> 0..MaxCalls] /\ refused \in Nat
  /\ answer \in [Clients -> {"none", "pending", "set", "broken"}]
  /\ sunk \in [Clients -> Seq(1..MaxCalls)]
  /\ handled \in [Clients -> SUBSET (1..MaxCalls)]
  /\ durable \in [Clients -> Nat] /\ unflushed \subseteq Clients
TypeOK == PoolTypeOK /\ ThreadTypeOK /\ CallTypeOK

\* A thread that is inside a post has something to post.
PostersHold ==
  \A t \in Posters : pc[t] \in {"post", "wait_room", "notify"} => held[t] \in Items

\* The condition variables lose no wakeup.  A thread sleeps in enqueue only
\* while every free slot has a thread on its way to it: a poster about to
\* lock, or a worker that has popped and not yet notified.  A worker sleeps
\* in dequeue only while every queued item has a worker about to lock or a
\* poster about to notify.
NoLostWakeup ==
  /\ At(Posters, "wait_room") # {} =>
       MaxItems - Size(q) <=
         Cardinality(At(Posters, "post")) + Cardinality(At(Workers, "notify"))
  /\ At(Workers, "wait_item") # {} =>
       Size(q) <=
         Cardinality(At(Workers, "dequeue")) + Cardinality(At(Posters, "notify"))

\* Where a message can be: in the queue, or with the thread that posts it
\* or handles it.
InQueue == {i \in 1..Size(q) : Contents(q)[i] # Terminate}
InHand ==
  {t \in Posters : pc[t] \in {"post", "wait_room"} /\ held[t] # Terminate}
  \cup {w \in Workers : held[w] \notin {NoItem, Terminate}}

Handled == UNION {{<<c, n>> : n \in handled[c]} : c \in Clients}
Made == UNION {{<<c, n>> : n \in 1..calls[c]} : c \in Clients}
Present ==
  {<<Contents(q)[i].from, Contents(q)[i].seq>> : i \in InQueue}
  \cup {<<held[t].from, held[t].seq>> : t \in InHand} \cup Handled

\* Every call is accounted for: its message is in exactly one place (queued,
\* in a thread's hand, handled), and the messages that are nowhere are
\* exactly those that the overrun and discard counters and the errors
\* reported by loggers without a pool add up to.
AccountedFor ==
  /\ Cardinality(Present)
       = Cardinality(InQueue) + Cardinality(InHand) + Cardinality(Handled)
  /\ Cardinality(Made \ Present) = q.overrun + discarded + refused

\* The terminate messages are all kept until workers take them, whatever
\* the policies of the loggers: none is overrun or discarded.
TerminatesKept ==
  terminates = Cardinality({i \in 1..Size(q) : Contents(q)[i] = Terminate})
               + Cardinality({w \in Workers : held[w] = Terminate})
               + Cardinality(At(Workers, "exited"))

Destroying == \E t \in Posters : held[t] = Terminate
Destroyed == owners = {} /\ ~Destroying

\* ~thread_pool runs in one thread, and no other thread is in a call then:
\* nobody can post behind the terminate messages, overrun them, or touch
\* the queue once its destructor has run.
DestroyerAlone ==
  \A t, u \in Posters : held[t] = Terminate /\ u # t => pc[u] = "idle" /\ owners = {}

\* Once the pool is destroyed no thread touches its mutex, its condition
\* variables or its queue again, and every accepted message that was not
\* overrun has been handled: "Upon destruction, logs all remaining messages
\* in the queue before destructing" (async_logger.h).
DestroyedIsDrained ==
  Destroyed =>
    /\ AllExited
    /\ \A t \in Posters : pc[t] = "idle"
    /\ IsEmpty(q)
    /\ Cardinality(Made \ Handled) = q.overrun + discarded + refused

\* A flush that is still to be answered has its promise somewhere: with the
\* thread that posts it, in the queue, with a worker, or (overrun) in the
\* reserved slot at the tail, where the next push_back breaks it.
PendingFlushHeld ==
  \A c \in Clients : answer[c] = "pending" =>
    LET m == [kind |-> "flush", from |-> c, seq |-> calls[c]] IN
    \/ pc[c] \in {"post", "wait_room"} /\ held[c] = m
    \/ \E i \in 0..MaxItems : q.v[i] = m
    \/ \E w \in Workers : held[w] = m

\* With one worker, a flush that returned covers every earlier message of
\* its client: none is queued or being handled, and all that the sink took
\* are durable unless the sink threw in that very flush, which the caller is
\* not told (flush returns all the same) but the error handler is.
FlushCovers ==
  \A c \in Clients : answer[c] = "set" =>
    /\ \A i \in InQueue : Contents(q)[i].from # c
    /\ \A w \in Workers : held[w] \in Message => held[w].from # c
    /\ c \in unflushed \/ durable[c] = Len(sunk[c])

\* With one worker, each sink receives the messages of a client in the
\* order of its calls, none twice.
SinkInOrder ==
  \A c \in Clients : \A i, j \in 1..Len(sunk[c]) : i < j => sunk[c][i] < sunk[c][j]

\* The queue is the FIFO that mpmc_blocking_queue promises.
Queue == INSTANCE BoundedQueue WITH Cap <- MaxItems, buf <- Contents(q), lost <- q.overrun
QueueSpec == Queue!Spec

\* A call returns: room is made, the promise is answered, and a client that
\* was the last owner gets through ~thread_pool.
CallsReturn == \A c \in Clients : pc[c] # "idle" ~> pc[c] = "idle"

\* spdlog::shutdown() returns, and the pool is in the end destroyed.
ShutdownCompletes == (Main \notin owners) ~> Destroyed

\* spdlog.h:107: shutdown() stops any running threads started by spdlog.
ShutdownStopsThreads == Main \notin owners /\ pc[Main] = "idle" => AllExited

=============================================================================

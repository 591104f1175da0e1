-------------------------- MODULE AsyncPoolProofs --------------------------
(***************************************************************************)
(* Theorems of AsyncPool, for any number of clients, workers and calls and *)
(* any capacity of the queue: its types, the FIFO its queue implements,    *)
(* who destroys it and when, where promises, terminate messages and        *)
(* accepted messages are, which wakeups are under way, and, with one       *)
(* worker, the order at the sinks and what a flush covers.                 *)
(***************************************************************************)
EXTENDS AsyncPool, CircularQProofs, FiniteSetTheorems

\* The threads' part of the invariant: TypeOK's, strengthened by what a
\* posting thread holds, without which Push could queue anything.
ThreadInv == ThreadTypeOK /\ PostersHold
IInv == PoolTypeOK /\ ThreadInv /\ CallTypeOK

\* Where a thread may be: a poster that posts needs a message.
MayBeAt(t, l, h) ==
  /\ t \in Posters => l \in PosterStates /\ (l \in {"post", "wait_room", "notify"} => h \in Items)
  /\ t \in Workers => l \in WorkerStates

\* No thread is a poster and a worker.
LEMMA ThreadKinds ==
  /\ Posters \cap Workers = {} /\ Threads = Posters \cup Workers
  /\ Clients \subseteq Posters /\ Main \in Posters /\ Terminate \in Items
BY PoolAssumption DEF Posters, Threads, Items

\* One thread moves, and changes at most what it holds.
LEMMA OneMoves ==
  ASSUME ThreadInv, NEW t \in Threads, NEW l, NEW h \in Items \cup {NoItem},
         MayBeAt(t, l, h),
         pc' = [pc EXCEPT ![t] = l], held' = [held EXCEPT ![t] = h], owners' \subseteq Posters
  PROVE  ThreadInv'
<1>. USE ThreadKinds DEF ThreadInv, ThreadTypeOK
<1>1. l \in PosterStates \cup WorkerStates
  BY DEF MayBeAt
<1>2. pc' \in [Threads -> PosterStates \cup WorkerStates] /\ held' \in [Threads -> Items \cup {NoItem}]
  BY <1>1
<1>3. ASSUME NEW u \in Threads
      PROVE  pc'[u] = (IF u = t THEN l ELSE pc[u]) /\ held'[u] = (IF u = t THEN h ELSE held[u])
  OBVIOUS
<1>4. (\A u \in Posters : pc'[u] \in PosterStates) /\ (\A w \in Workers : pc'[w] \in WorkerStates)
  BY <1>3 DEF MayBeAt
<1>5. PostersHold'
  BY <1>3 DEF MayBeAt, PostersHold
<1>. QED
  BY <1>2, <1>4, <1>5

\* One thread moves and wakes another; both keep what they hold.
LEMMA OneMovesOneWakes ==
  ASSUME ThreadInv, NEW t \in Threads, NEW l, NEW u \in Threads, NEW k,
         MayBeAt(t, l, held[t]), MayBeAt(u, k, held[u]),
         pc' = [pc EXCEPT ![u] = k, ![t] = l], held' = held, owners' = owners
  PROVE  ThreadInv'
<1>. USE ThreadKinds DEF ThreadInv, ThreadTypeOK
<1>1. l \in PosterStates \cup WorkerStates /\ k \in PosterStates \cup WorkerStates
  BY DEF MayBeAt
<1>2. pc' \in [Threads -> PosterStates \cup WorkerStates]
  BY <1>1
<1>3. ASSUME NEW x \in Threads
      PROVE  pc'[x] = IF x = t THEN l ELSE IF x = u THEN k ELSE pc[x]
  OBVIOUS
<1>4. (\A x \in Posters : pc'[x] \in PosterStates) /\ (\A w \in Workers : pc'[w] \in WorkerStates)
  BY <1>3 DEF MayBeAt
<1>5. PostersHold'
  BY <1>3 DEF MayBeAt, PostersHold
<1>. QED
  BY <1>2, <1>4, <1>5

\* One thread moves and nothing else happens to the threads.
LEMMA OneMovesOnly ==
  ASSUME ThreadInv, NEW t \in Threads, NEW l, MayBeAt(t, l, held[t]), Goto(t, l),
         held' = held, owners' = owners
  PROVE  ThreadInv'
<1>1. held' = [held EXCEPT ![t] = held[t]] /\ held[t] \in Items \cup {NoItem}
  BY DEF ThreadInv, ThreadTypeOK
<1>2. owners' \subseteq Posters
  BY DEF ThreadInv, ThreadTypeOK
<1>. QED
  BY <1>1, <1>2, OneMoves DEF Goto

\* After a post a thread posts again only to terminate another worker.
LEMMA AfterPostPlaces ==
  ASSUME ThreadInv, NEW t \in Posters
  PROVE  MayBeAt(t, AfterPost(t), held[t])
<1>1. AfterPost(t) \in {"post", "join", "future", "release"}
  BY DEF AfterPost
<1>2. AfterPost(t) = "post" => held[t] = Terminate
  BY DEF AfterPost
<1>. QED
  BY <1>1, <1>2, ThreadKinds DEF MayBeAt, PosterStates

\* A promise is answered with one of its values.
LEMMA AnswerType ==
  ASSUME NEW m, NEW a \in {"set", "broken"}, AnswerFlush(m, a),
         answer \in [Clients -> {"none", "pending", "set", "broken"}]
  PROVE  answer' \in [Clients -> {"none", "pending", "set", "broken"}]
BY DEF AnswerFlush

\* Dropping the pool makes the last owner post terminate.
LEMMA DropPoolThreads ==
  ASSUME ThreadInv, NEW t \in Posters, DropPool(t)
  PROVE  ThreadInv'
<1>. USE ThreadKinds
<1>1. owners' \subseteq Posters
  BY DEF DropPool, ThreadInv, ThreadTypeOK
<1>2. CASE owners = {t}
  <2>1. pc' = [pc EXCEPT ![t] = "post"] /\ held' = [held EXCEPT ![t] = Terminate]
    BY <1>2 DEF DropPool, Goto
  <2>2. MayBeAt(t, "post", Terminate)
    BY DEF MayBeAt, PosterStates
  <2>. QED
    BY <1>1, <2>1, <2>2, OneMoves
<1>3. CASE owners # {t}
  <2>1. pc' = [pc EXCEPT ![t] = "idle"] /\ held' = [held EXCEPT ![t] = NoItem]
    BY <1>3 DEF DropPool, Goto
  <2>2. MayBeAt(t, "idle", NoItem)
    BY DEF MayBeAt, PosterStates
  <2>. QED
    BY <1>1, <2>1, <2>2, OneMoves
<1>. QED
  BY <1>2, <1>3

\* The invariant holds at the start.
LEMMA InitIInv == Init => IInv
<1>. SUFFICES ASSUME Init PROVE IInv
  OBVIOUS
<1>1. PoolTypeOK
  BY PoolAssumption, NewQEmpty DEF Init, PoolTypeOK
<1>2. ThreadInv
  BY ThreadKinds DEF Init, ThreadInv, ThreadTypeOK, PostersHold, PosterStates, WorkerStates
<1>3. CallTypeOK
  BY PoolAssumption DEF Init, CallTypeOK
<1>. QED
  BY <1>1, <1>2, <1>3 DEF IInv

\* Each step of a client's call preserves the invariant.
LEMMA ClientStepIInv ==
  ASSUME IInv, NEW c \in Clients, ClientStep(c) PROVE IInv'
<1>. USE ThreadKinds DEF IInv
<1>1. ASSUME NEW kind \in Kinds[c], StartCall(c, kind) PROVE IInv'
  <2>. DEFINE m == [kind |-> kind, from |-> c, seq |-> calls[c] + 1]
  <2>1. kind \in {"log", "flush"} /\ calls[c] \in Nat /\ calls[c] + 1 \in 1..MaxCalls
    <3>1. kind \in {"log", "flush"}
      BY PoolAssumption
    <3>2. calls[c] \in 0..MaxCalls /\ calls[c] < MaxCalls
      BY <1>1 DEF StartCall, CallTypeOK
    <3>. QED
      BY <3>1, <3>2, PoolAssumption
  <2>2. m \in Items
    BY <2>1 DEF Items, Message
  <2>3. PoolTypeOK'
    BY <1>1 DEF StartCall, PoolTypeOK, queueVars
  <2>4. ThreadInv'
    <3>1. /\ pc' = [pc EXCEPT ![c] = "post"] /\ held' = [held EXCEPT ![c] = m]
          /\ owners' \subseteq Posters
      BY <1>1 DEF StartCall, Goto, ThreadInv, ThreadTypeOK
    <3>2. MayBeAt(c, "post", m)
      BY <2>2 DEF MayBeAt, PosterStates
    <3>. QED
      BY <2>2, <3>1, <3>2, OneMoves
  <2>5. CallTypeOK'
    <3>1. calls' = [calls EXCEPT ![c] = calls[c] + 1] /\ calls[c] + 1 \in 0..MaxCalls
      BY <1>1, <2>1 DEF StartCall
    <3>2. calls' \in [Clients -> 0..MaxCalls]
      BY <3>1 DEF CallTypeOK
    <3>. QED
      BY <1>1, <3>2 DEF StartCall, CallTypeOK, sinkVars
  <2>. QED
    BY <2>3, <2>4, <2>5
<1>2. ASSUME RefuseCall(c) PROVE IInv'
  <2>1. PoolTypeOK' /\ ThreadInv'
    BY <1>2 DEF RefuseCall, PoolTypeOK, ThreadInv, ThreadTypeOK, PostersHold, queueVars, poolVars
  <2>2. calls[c] \in Nat /\ calls[c] + 1 \in 0..MaxCalls
    BY <1>2, PoolAssumption DEF RefuseCall, CallTypeOK
  <2>3. CallTypeOK'
    BY <1>2, <2>2 DEF RefuseCall, CallTypeOK, sinkVars
  <2>. QED
    BY <2>1, <2>3
<1>3. ASSUME AwaitFlush(c) PROVE IInv'
  <2>1. PoolTypeOK' /\ CallTypeOK'
    BY <1>3 DEF AwaitFlush, PoolTypeOK, CallTypeOK, queueVars, poolVars, callVars, sinkVars
  <2>2. MayBeAt(c, "release", held[c])
    BY DEF MayBeAt, PosterStates
  <2>3. ThreadInv'
    BY <1>3, <2>2, OneMovesOnly DEF AwaitFlush, poolVars
  <2>. QED
    BY <2>1, <2>3
<1>4. ASSUME Release(c) PROVE IInv'
  <2>1. PoolTypeOK' /\ CallTypeOK'
    BY <1>4 DEF Release, PoolTypeOK, CallTypeOK, queueVars, callVars, sinkVars
  <2>2. ThreadInv'
    BY <1>4, DropPoolThreads DEF Release
  <2>. QED
    BY <2>1, <2>2
<1>. QED
  BY <1>1, <1>2, <1>3, <1>4 DEF ClientStep

\* Each step of a post, or of the destructor, preserves the invariant.
LEMMA PostStepIInv ==
  ASSUME IInv, NEW t \in Posters, PostStep(t) PROVE IInv'
<1>. USE ThreadKinds DEF IInv
<1>1. ASSUME WaitRoom(t) PROVE IInv'
  <2>1. PoolTypeOK' /\ CallTypeOK'
    BY <1>1 DEF WaitRoom, PoolTypeOK, CallTypeOK, queueVars, poolVars, callVars, sinkVars
  <2>2. MayBeAt(t, "wait_room", held[t])
    BY <1>1 DEF WaitRoom, MayBeAt, PosterStates, ThreadInv, PostersHold
  <2>3. ThreadInv'
    BY <1>1, <2>2, OneMovesOnly DEF WaitRoom, poolVars
  <2>. QED
    BY <2>1, <2>3
<1>2. ASSUME Push(t) PROVE IInv'
  <2>1. held[t] \in Items
    BY <1>2 DEF Push, ThreadInv, PostersHold
  <2>2. PoolTypeOK'
    <3>1. q' \in QueueType(MaxItems, Items)
      BY <1>2, <2>1, PoolAssumption, PushBackType DEF Push, CountTerminate, PoolTypeOK
    <3>. QED
      BY <1>2, <3>1 DEF Push, CountTerminate, PoolTypeOK
  <2>3. MayBeAt(t, "notify", held[t])
    BY <2>1 DEF MayBeAt, PosterStates
  <2>4. ThreadInv'
    BY <1>2, <2>3, OneMovesOnly DEF Push
  <2>5. CallTypeOK'
    BY <1>2, AnswerType DEF Push, CallTypeOK, sinkVars
  <2>. QED
    BY <2>2, <2>4, <2>5
<1>3. ASSUME Discard(t) PROVE IInv'
  <2>1. PoolTypeOK'
    BY <1>3 DEF Discard, CountTerminate, PoolTypeOK
  <2>2. ThreadInv'
    BY <1>3, AfterPostPlaces, OneMovesOnly DEF Discard
  <2>3. CallTypeOK'
    BY <1>3, AnswerType DEF Discard, CallTypeOK, sinkVars
  <2>. QED
    BY <2>1, <2>2, <2>3
<1>4. ASSUME NotifyPush(t) PROVE IInv'
  <2>1. PoolTypeOK' /\ CallTypeOK'
    BY <1>4 DEF NotifyPush, PoolTypeOK, CallTypeOK, queueVars, poolVars, callVars, sinkVars
  <2>2. CASE Goto(t, AfterPost(t))
    BY <1>4, <2>1, <2>2, AfterPostPlaces, OneMovesOnly DEF NotifyPush, poolVars
  <2>3. ASSUME NEW w \in At(Workers, "wait_item"),
               pc' = [pc EXCEPT ![w] = "dequeue", ![t] = AfterPost(t)]
        PROVE  ThreadInv'
    <3>1. w \in Workers /\ MayBeAt(w, "dequeue", held[w])
      BY DEF At, MayBeAt, WorkerStates
    <3>. QED
      BY <1>4, <2>3, <3>1, AfterPostPlaces, OneMovesOneWakes DEF NotifyPush, poolVars
  <2>. QED
    BY <1>4, <2>1, <2>2, <2>3 DEF NotifyPush
<1>5. ASSUME Join(t) PROVE IInv'
  <2>1. PoolTypeOK' /\ CallTypeOK'
    BY <1>5 DEF Join, PoolTypeOK, CallTypeOK, queueVars, poolVars, callVars, sinkVars
  <2>2. MayBeAt(t, "idle", NoItem)
    BY DEF MayBeAt, PosterStates
  <2>3. /\ pc' = [pc EXCEPT ![t] = "idle"] /\ held' = [held EXCEPT ![t] = NoItem]
        /\ owners' \subseteq Posters
    BY <1>5 DEF Join, Goto, poolVars, ThreadInv, ThreadTypeOK
  <2>4. ThreadInv'
    BY <2>2, <2>3, OneMoves
  <2>. QED
    BY <2>1, <2>4
<1>. QED
  BY <1>1, <1>2, <1>3, <1>4, <1>5 DEF PostStep

\* A worker done with a message takes another; handled records which.
LEMMA HandleTypes ==
  ASSUME ThreadInv, CallTypeOK, NEW w \in Workers, held[w] \in Message, Handle(w),
         owners' = owners
  PROVE  ThreadInv' /\ handled' \in [Clients -> SUBSET (1..MaxCalls)]
<1>. USE ThreadKinds
<1>1. MayBeAt(w, "dequeue", NoItem)
  BY DEF MayBeAt, WorkerStates
<1>2. ThreadInv'
  BY <1>1, OneMoves DEF Handle, Goto, ThreadInv, ThreadTypeOK
<1>3. held[w].from \in Clients /\ held[w].seq \in 1..MaxCalls
  BY DEF Message
<1>4. handled' \in [Clients -> SUBSET (1..MaxCalls)]
  BY <1>3 DEF Handle, CallTypeOK
<1>. QED
  BY <1>2, <1>4

\* Each step of a worker preserves the invariant.
LEMMA WorkerStepIInv ==
  ASSUME IInv, NEW w \in Workers, WorkerStep(w) PROVE IInv'
<1>. USE ThreadKinds DEF IInv
<1>1. ASSUME WaitItem(w) PROVE IInv'
  <2>1. PoolTypeOK' /\ CallTypeOK'
    BY <1>1 DEF WaitItem, PoolTypeOK, CallTypeOK, queueVars, poolVars, callVars, sinkVars
  <2>2. MayBeAt(w, "wait_item", held[w])
    BY DEF MayBeAt, WorkerStates
  <2>3. ThreadInv'
    BY <1>1, <2>2, OneMovesOnly DEF WaitItem, poolVars
  <2>. QED
    BY <2>1, <2>3
<1>2. ASSUME Dequeue(w) PROVE IInv'
  <2>1. q \in QueueType(MaxItems, Items) /\ MaxItems \in Nat
    BY PoolAssumption DEF PoolTypeOK
  <2>2. PoolTypeOK'
    <3>1. q' \in QueueType(MaxItems, Items)
      BY <1>2, <2>1, TakeFrontType DEF Dequeue
    <3>. QED
      BY <1>2, <3>1 DEF Dequeue, PoolTypeOK, poolVars
  <2>3. Front(q) \in Items \cup {NoItem}
    BY <2>1, QueueFields DEF Front
  <2>4. MayBeAt(w, "notify", Front(q))
    BY DEF MayBeAt, WorkerStates
  <2>5. ThreadInv'
    BY <1>2, <2>3, <2>4, OneMoves DEF Dequeue, Goto, poolVars, ThreadInv, ThreadTypeOK
  <2>6. CallTypeOK'
    BY <1>2 DEF Dequeue, CallTypeOK, callVars, sinkVars
  <2>. QED
    BY <2>2, <2>5, <2>6
<1>3. ASSUME NotifyPop(w) PROVE IInv'
  <2>1. PoolTypeOK' /\ CallTypeOK'
    BY <1>3 DEF NotifyPop, PoolTypeOK, CallTypeOK, queueVars, poolVars, callVars, sinkVars
  <2>2. MayBeAt(w, "process", held[w])
    BY DEF MayBeAt, WorkerStates
  <2>3. CASE Goto(w, "process")
    BY <1>3, <2>1, <2>2, <2>3, OneMovesOnly DEF NotifyPop, poolVars
  <2>4. ASSUME NEW t \in At(Posters, "wait_room"),
               pc' = [pc EXCEPT ![t] = "post", ![w] = "process"]
        PROVE  ThreadInv'
    <3>1. t \in Posters /\ MayBeAt(t, "post", held[t])
      BY DEF At, MayBeAt, PosterStates, ThreadInv, PostersHold
    <3>. QED
      BY <1>3, <2>2, <2>4, <3>1, OneMovesOneWakes DEF NotifyPop, poolVars
  <2>. QED
    BY <1>3, <2>1, <2>3, <2>4 DEF NotifyPop
<1>4. ASSUME SinkIt(w) PROVE IInv'
  <2>1. held[w] \in Message /\ Handle(w) /\ owners' = owners
    BY <1>4 DEF SinkIt, poolVars
  <2>2. held[w].from \in Clients /\ held[w].seq \in 1..MaxCalls
    BY <2>1 DEF Message
  <2>3. PoolTypeOK'
    BY <1>4 DEF SinkIt, PoolTypeOK, queueVars, poolVars
  <2>4. sunk' \in [Clients -> Seq(1..MaxCalls)]
    <3>1. CASE sunk' = [sunk EXCEPT ![held[w].from] = Append(@, held[w].seq)]
      <4>1. Append(sunk[held[w].from], held[w].seq) \in Seq(1..MaxCalls)
        BY <2>2 DEF CallTypeOK
      <4>. QED
        BY <2>2, <3>1, <4>1 DEF CallTypeOK
    <3>2. CASE UNCHANGED sunk
      BY <3>2 DEF CallTypeOK
    <3>. QED
      BY <1>4, <3>1, <3>2 DEF SinkIt
  <2>5. durable' \in [Clients -> Nat] /\ unflushed' = unflushed
    <3>1. Len(sunk'[held[w].from]) \in Nat
      BY <2>2, <2>4
    <3>. QED
      BY <1>4, <3>1 DEF SinkIt, CallTypeOK
  <2>6. CallTypeOK'
    BY <1>4, <2>1, <2>4, <2>5, HandleTypes DEF SinkIt, CallTypeOK, callVars
  <2>. QED
    BY <2>1, <2>3, <2>6, HandleTypes
<1>5. ASSUME Flush(w) PROVE IInv'
  <2>1. held[w] \in Message /\ Handle(w) /\ owners' = owners
    BY <1>5 DEF Flush, poolVars
  <2>2. held[w].from \in Clients
    BY <2>1 DEF Message
  <2>3. PoolTypeOK'
    BY <1>5 DEF Flush, PoolTypeOK, queueVars, poolVars
  <2>4. answer' \in [Clients -> {"none", "pending", "set", "broken"}]
    BY <1>5, AnswerType DEF Flush, CallTypeOK
  <2>5. durable' \in [Clients -> Nat] /\ unflushed' \subseteq Clients
    <3>1. Len(sunk[held[w].from]) \in Nat
      BY <2>2 DEF CallTypeOK
    <3>. QED
      BY <1>5, <2>2, <3>1 DEF Flush, CallTypeOK
  <2>6. CallTypeOK'
    BY <1>5, <2>1, <2>4, <2>5, HandleTypes DEF Flush, CallTypeOK
  <2>. QED
    BY <2>1, <2>3, <2>6, HandleTypes
<1>6. ASSUME Exit(w) PROVE IInv'
  <2>1. PoolTypeOK' /\ CallTypeOK'
    BY <1>6 DEF Exit, PoolTypeOK, CallTypeOK, queueVars, poolVars, callVars, sinkVars
  <2>2. MayBeAt(w, "exited", NoItem)
    BY DEF MayBeAt, WorkerStates
  <2>3. ThreadInv'
    BY <1>6, <2>2, OneMoves DEF Exit, Goto, poolVars, ThreadInv, ThreadTypeOK
  <2>. QED
    BY <2>1, <2>3
<1>. QED
  BY <1>1, <1>2, <1>3, <1>4, <1>5, <1>6 DEF WorkerStep

\* The steps that are no thread's own program preserve the invariant.
LEMMA OtherStepIInv ==
  ASSUME IInv, \/ \E t \in Threads : SpuriousWake(t)
               \/ Shutdown
               \/ UNCHANGED vars
  PROVE  IInv'
<1>. USE ThreadKinds DEF IInv
<1>1. ASSUME NEW t \in Threads, SpuriousWake(t) PROVE IInv'
  <2>1. PoolTypeOK' /\ CallTypeOK'
    BY <1>1 DEF SpuriousWake, PoolTypeOK, CallTypeOK, queueVars, poolVars, callVars, sinkVars
  <2>2. CASE pc[t] = "wait_room" /\ Goto(t, "post")
    <3>1. t \in Posters
      BY <2>2 DEF ThreadInv, ThreadTypeOK, WorkerStates
    <3>2. MayBeAt(t, "post", held[t])
      BY <2>2, <3>1 DEF MayBeAt, PosterStates, ThreadInv, PostersHold
    <3>. QED
      BY <1>1, <2>1, <2>2, <3>2, OneMovesOnly DEF SpuriousWake, poolVars
  <2>3. CASE pc[t] = "wait_item" /\ Goto(t, "dequeue")
    <3>1. t \in Workers
      BY <2>3 DEF ThreadInv, ThreadTypeOK, PosterStates
    <3>2. MayBeAt(t, "dequeue", held[t])
      BY <3>1 DEF MayBeAt, WorkerStates
    <3>. QED
      BY <1>1, <2>1, <2>3, <3>2, OneMovesOnly DEF SpuriousWake, poolVars
  <2>. QED
    BY <1>1, <2>2, <2>3 DEF SpuriousWake
<1>2. ASSUME Shutdown PROVE IInv'
  <2>1. PoolTypeOK' /\ CallTypeOK'
    BY <1>2 DEF Shutdown, PoolTypeOK, CallTypeOK, queueVars, callVars, sinkVars
  <2>2. ThreadInv'
    BY <1>2, DropPoolThreads DEF Shutdown
  <2>. QED
    BY <2>1, <2>2
<1>3. ASSUME UNCHANGED vars PROVE IInv'
  BY <1>3 DEF vars, queueVars, poolVars, callVars, sinkVars, PoolTypeOK, CallTypeOK,
              ThreadInv, ThreadTypeOK, PostersHold
<1>. QED
  BY <1>1, <1>2, <1>3

\* The invariant holds in every state of every behaviour.
THEOREM Invariance == Spec => []IInv
<1>1. Init => IInv
  BY InitIInv
<1>2. IInv /\ [Next]_vars => IInv'
  BY ClientStepIInv, PostStepIInv, WorkerStepIInv, OtherStepIInv DEF Next, Finished
<1>. QED
  BY <1>1, <1>2, PTL DEF Spec

\* Every state is well typed: the queue's indexes stay inside its vector,
\* whatever the policies, the capacity (0 included) and the number of threads.
THEOREM TypeCorrect == Spec => []TypeOK
<1>1. IInv => TypeOK
  BY DEF IInv, ThreadInv, TypeOK
<1>. QED
  BY <1>1, Invariance, PTL

\* A push is a put of the FIFO, overrunning when it is full.
LEMMA PushRefines ==
  ASSUME IInv, NEW t \in Posters, Push(t)
  PROVE  \E m \in Items : Queue!Put(m) \/ Queue!PutOverrun(m)
<1>1. q \in QueueType(MaxItems, Items) /\ MaxItems \in Nat
  BY PoolAssumption DEF IInv, PoolTypeOK
<1>2. held[t] \in Items /\ q' = PushBack(q, held[t])
  BY DEF Push, IInv, ThreadInv, PostersHold
<1>3. Len(Contents(q)) = Size(q) /\ Size(q) \in 0..MaxItems /\ (IsFull(q) <=> Size(q) = MaxItems)
  BY <1>1, ContentsSeq, SizeBounds
<1>4. CASE IsFull(q)
  <2>1. /\ Contents(q') = Tail(Append(Contents(q), held[t])) /\ q'.overrun = q.overrun + 1
    BY <1>1, <1>2, <1>4, PushBackOverruns
  <2>2. Queue!PutOverrun(held[t])
    BY <1>3, <1>4, <2>1 DEF Queue!PutOverrun
  <2>. QED
    BY <1>2, <2>2
<1>5. CASE ~IsFull(q)
  <2>1. /\ Contents(q') = Append(Contents(q), held[t]) /\ q'.overrun = q.overrun
    BY <1>1, <1>2, <1>5, PushBackAppends
  <2>2. Queue!Put(held[t])
    BY <1>1, <1>3, <1>5, <2>1 DEF Queue!Put
  <2>. QED
    BY <1>2, <2>2
<1>. QED
  BY <1>4, <1>5

\* A dequeue is a get of the FIFO.
LEMMA DequeueRefines ==
  ASSUME IInv, NEW w \in Workers, Dequeue(w) PROVE Queue!Get
<1>1. q \in QueueType(MaxItems, Items) /\ MaxItems \in Nat
  BY PoolAssumption DEF IInv, PoolTypeOK
<1>2. ~IsEmpty(q) /\ q' = TakeFront(q)
  BY DEF Dequeue
<1>3. /\ Contents(q) # <<>> /\ Contents(q') = Tail(Contents(q)) /\ q'.overrun = q.overrun
  BY <1>1, <1>2, TakeFrontTakesHead
<1>. QED
  BY <1>3 DEF Queue!Get

\* No other step touches the queue.
LEMMA OthersStutter ==
  ASSUME [Next]_vars, \A t \in Posters : ~Push(t), \A w \in Workers : ~Dequeue(w)
  PROVE  q' = q
<1>1. ASSUME NEW c \in Clients, ClientStep(c) PROVE q' = q
  BY <1>1 DEF ClientStep, StartCall, RefuseCall, AwaitFlush, Release, queueVars
<1>2. ASSUME NEW t \in Posters, PostStep(t) PROVE q' = q
  BY <1>2 DEF PostStep, WaitRoom, Discard, NotifyPush, Join, queueVars
<1>3. ASSUME NEW w \in Workers, WorkerStep(w) PROVE q' = q
  BY <1>3 DEF WorkerStep, WaitItem, NotifyPop, SinkIt, Flush, Exit, queueVars
<1>4. ASSUME NEW t \in Threads, SpuriousWake(t) PROVE q' = q
  BY <1>4 DEF SpuriousWake, queueVars
<1>5. ASSUME Shutdown \/ Finished \/ UNCHANGED vars PROVE q' = q
  BY <1>5 DEF Shutdown, Finished, vars, queueVars
<1>. QED
  BY <1>1, <1>2, <1>3, <1>4, <1>5 DEF Next

\* The pool's queue is the bounded FIFO of BoundedQueue: every step of every
\* thread puts at the end, overruns the oldest and counts it, takes the
\* oldest, or leaves the queue alone, although threads wait and are woken in
\* any order and the ring buffer reuses its slots.
THEOREM QueueRefinement == Spec => QueueSpec
<1>1. Init => Queue!Init
  BY PoolAssumption, NewQEmpty DEF Init, Queue!Init
<1>2. IInv /\ [Next]_vars => [Queue!Next]_Queue!vars
  <2>. SUFFICES ASSUME IInv, [Next]_vars PROVE [Queue!Next]_Queue!vars
    OBVIOUS
  <2>1. CASE \E t \in Posters : Push(t)
    BY <2>1, PushRefines DEF Queue!Next
  <2>2. CASE \E w \in Workers : Dequeue(w)
    BY <2>2, DequeueRefines DEF Queue!Next
  <2>3. CASE (\A t \in Posters : ~Push(t)) /\ (\A w \in Workers : ~Dequeue(w))
    BY <2>3, OthersStutter DEF Queue!vars
  <2>. QED
    BY <2>1, <2>2, <2>3
<1>. QED
  BY <1>1, <1>2, Invariance, PTL DEF Spec, QueueSpec, Queue!Spec

-----------------------------------------------------------------------------
\* Who owns the pool: exactly the clients in a call, and the registry until
\* it drops tp_.  Only a thread that destroys the pool holds terminate, it
\* owns nothing any more, and Main does nothing else.
InCall(t) == pc[t] # "idle" /\ held[t] # Terminate
OwnersInCall ==
  /\ \A c \in Clients : c \in owners <=> InCall(c)
  /\ Main \in owners => pc[Main] = "idle"
  /\ ~InCall(Main)
LastOwnerDestroys ==
  \A t \in Posters : held[t] = Terminate =>
    /\ owners = {} /\ pc[t] # "idle"
    /\ \A u \in Posters \ {t} : pc[u] = "idle" /\ held[u] # Terminate
JoinersTerminate == \A t \in Posters : pc[t] = "join" => held[t] = Terminate
Ownership == OwnersInCall /\ LastOwnerDestroys /\ JoinersTerminate

\* A poster a step leaves where it is, or wakes.
SamePlace(u) == pc'[u] = pc[u] \/ (pc[u] = "wait_room" /\ pc'[u] = "post")

\* Only the registry owns the new pool.
LEMMA OwnershipInit == Init => Ownership
<1>1. Terminate # NoItem
  BY NoItemAssumption DEF Items
<1>. QED
  BY <1>1, ThreadKinds, PoolAssumption DEF Init, Ownership, OwnersInCall, LastOwnerDestroys, InCall, JoinersTerminate

\* A thread that owned the pool in a call drops it: either it was the last
\* owner and destroys the pool, alone, or it is idle.
LEMMA DropPoolOwnership ==
  ASSUME IInv, Ownership, NEW t \in Posters, t \in owners, DropPool(t)
  PROVE  Ownership'
<1>. USE ThreadKinds DEF Ownership, IInv, ThreadInv, ThreadTypeOK
<1>1. Terminate # NoItem
  BY NoItemAssumption DEF Items
<1>2. \A u \in Posters : held[u] # Terminate
  BY DEF LastOwnerDestroys
<1>3. CASE owners = {t}
  <2>1. \A u \in Posters \ {t} : pc[u] = "idle"
    BY <1>2, <1>3 DEF OwnersInCall, InCall, Posters
  <2>2. /\ pc' = [pc EXCEPT ![t] = "post"] /\ held' = [held EXCEPT ![t] = Terminate]
        /\ owners' = {}
    BY <1>3 DEF DropPool, Goto
  <2>3. /\ pc'[t] = "post" /\ held'[t] = Terminate
        /\ \A u \in Posters \ {t} : pc'[u] = "idle" /\ held'[u] # Terminate
    BY <1>2, <2>1, <2>2
  <2>. QED
    BY <2>2, <2>3 DEF OwnersInCall, LastOwnerDestroys, InCall, JoinersTerminate
<1>4. CASE owners # {t}
  <2>1. /\ pc' = [pc EXCEPT ![t] = "idle"] /\ held' = [held EXCEPT ![t] = NoItem]
        /\ owners' = owners \ {t}
    BY <1>4 DEF DropPool, Goto
  <2>2. /\ pc'[t] = "idle" /\ held'[t] = NoItem
        /\ \A u \in Posters \ {t} : pc'[u] = pc[u] /\ held'[u] = held[u]
    BY <2>1
  <2>. QED
    BY <1>1, <1>2, <2>1, <2>2 DEF OwnersInCall, LastOwnerDestroys, InCall, JoinersTerminate
<1>. QED
  BY <1>3, <1>4

\* A poster that stays in its call, or in the destructor, owns as before.
LEMMA StaysInCall ==
  ASSUME IInv, Ownership, NEW t \in Posters, NEW l, l # "idle", pc[t] # "idle",
         l = "join" => held[t] = Terminate, held' = held, owners' = owners,
         \A u \in Posters \ {t} : SamePlace(u), pc'[t] = l
  PROVE  Ownership'
BY ThreadKinds DEF SamePlace, Ownership, OwnersInCall, LastOwnerDestroys, InCall, JoinersTerminate

\* Steps of workers concern no poster's place between idle and not.
LEMMA WorkersOwnNothing ==
  ASSUME IInv, Ownership, owners' = owners,
         \A u \in Posters : SamePlace(u) /\ held'[u] = held[u]
  PROVE  Ownership'
BY ThreadKinds DEF SamePlace, Ownership, OwnersInCall, LastOwnerDestroys, InCall, JoinersTerminate

\* Every step keeps the owners in their calls.
LEMMA OwnershipStep ==
  ASSUME IInv, Ownership, [Next]_vars PROVE Ownership'
<1>. USE ThreadKinds
<1>t. /\ pc \in [Threads -> PosterStates \cup WorkerStates] /\ held \in [Threads -> Items \cup {NoItem}]
      /\ (\A t \in Posters : pc[t] \in PosterStates) /\ (\A w \in Workers : pc[w] \in WorkerStates)
  BY DEF IInv, ThreadInv, ThreadTypeOK
<1>n. NoItem # Terminate
  BY NoItemAssumption DEF Items
<1>1. ASSUME NEW c \in Clients, ClientStep(c) PROVE Ownership'
  <2>1. ASSUME NEW kind \in Kinds[c], StartCall(c, kind) PROVE Ownership'
    <3>. DEFINE m == [kind |-> kind, from |-> c, seq |-> calls[c] + 1]
    <3>1. kind \in {"log", "flush"}
      BY PoolAssumption
    <3>2. m # Terminate
      <4>1. m.kind = kind /\ Terminate.kind = "terminate"
        BY DEF Terminate
      <4>. QED
        BY <3>1, <4>1
    <3>3. /\ pc[c] = "idle" /\ owners # {} /\ owners' = owners \cup {c}
          /\ pc' = [pc EXCEPT ![c] = "post"] /\ held' = [held EXCEPT ![c] = m]
      BY <2>1 DEF StartCall, Goto
    <3>. HIDE DEF m
    <3>4. /\ pc'[c] = "post" /\ held'[c] = m
          /\ \A u \in Posters \ {c} : pc'[u] = pc[u] /\ held'[u] = held[u]
      BY <1>t, <3>3
    <3>5. \A u \in Posters : held[u] # Terminate
      BY <3>3 DEF Ownership, LastOwnerDestroys
    <3>. QED
      BY <3>2, <3>3, <3>4, <3>5, PoolAssumption DEF Ownership, OwnersInCall, LastOwnerDestroys, InCall, JoinersTerminate
  <2>2. ASSUME RefuseCall(c) PROVE Ownership'
    BY <2>2, WorkersOwnNothing DEF RefuseCall, poolVars, SamePlace
  <2>3. ASSUME AwaitFlush(c) PROVE Ownership'
    <3>1. /\ pc[c] = "future" /\ pc' = [pc EXCEPT ![c] = "release"]
          /\ held' = held /\ owners' = owners
      BY <2>3 DEF AwaitFlush, Goto, poolVars
    <3>. QED
      BY <1>t, <3>1, StaysInCall DEF SamePlace
  <2>4. ASSUME Release(c) PROVE Ownership'
    <3>1. held[c] # Terminate => c \in owners
      BY <2>4 DEF Release, Ownership, OwnersInCall, InCall
    <3>2. CASE c \in owners
      BY <2>4, <3>2, DropPoolOwnership DEF Release
    <3>3. CASE c \notin owners
      <4>1. held[c] = Terminate /\ owners = {} /\ owners' = {}
        BY <3>1, <3>3, <2>4 DEF Release, DropPool, Ownership, LastOwnerDestroys
      <4>2. pc' = [pc EXCEPT ![c] = "idle"] /\ held' = [held EXCEPT ![c] = NoItem]
        BY <2>4, <4>1 DEF Release, DropPool, Goto
      <4>3. pc'[c] = "idle" /\ held'[c] = NoItem
            /\ \A u \in Posters \ {c} : pc'[u] = pc[u] /\ held'[u] = held[u]
        BY <1>t, <4>2
      <4>. QED
        BY <1>n, <4>1, <4>3 DEF Ownership, OwnersInCall, LastOwnerDestroys, InCall, JoinersTerminate
    <3>. QED
      BY <3>2, <3>3
  <2>. QED
    BY <1>1, <2>1, <2>2, <2>3, <2>4 DEF ClientStep
<1>2. ASSUME NEW t \in Posters, PostStep(t) PROVE Ownership'
  <2>1. ASSUME WaitRoom(t) \/ Push(t) \/ Discard(t) PROVE Ownership'
    <3>1. PICK l : /\ l # "idle" /\ (l = "join" => held[t] = Terminate)
                   /\ pc' = [pc EXCEPT ![t] = l]
      BY <2>1 DEF WaitRoom, Push, Discard, Goto, AfterPost
    <3>2. pc[t] # "idle" /\ held' = held /\ owners' = owners
      BY <2>1 DEF WaitRoom, Push, Discard, poolVars
    <3>. QED
      BY <1>t, <3>1, <3>2, StaysInCall DEF SamePlace
  <2>2. ASSUME NotifyPush(t) PROVE Ownership'
    <3>1. AfterPost(t) # "idle" /\ (AfterPost(t) = "join" => held[t] = Terminate)
      BY DEF AfterPost
    <3>2. pc[t] = "notify" /\ held' = held /\ owners' = owners
      BY <2>2 DEF NotifyPush, poolVars
    <3>3. \/ pc' = [pc EXCEPT ![t] = AfterPost(t)]
          \/ \E w \in Workers : pc' = [pc EXCEPT ![w] = "dequeue", ![t] = AfterPost(t)]
      BY <2>2 DEF NotifyPush, Goto, At
    <3>4. pc'[t] = AfterPost(t) /\ \A u \in Posters \ {t} : pc'[u] = pc[u]
      BY <1>t, <3>3
    <3>. QED
      BY <3>1, <3>2, <3>4, StaysInCall DEF SamePlace
  <2>3. ASSUME Join(t) PROVE Ownership'
    <3>1. /\ pc[t] = "join" /\ pc' = [pc EXCEPT ![t] = "idle"]
          /\ held' = [held EXCEPT ![t] = NoItem] /\ owners' = owners
      BY <2>3 DEF Join, Goto, poolVars
    <3>2. held[t] = Terminate
      BY <3>1 DEF Ownership, JoinersTerminate
    <3>3. /\ pc'[t] = "idle" /\ held'[t] = NoItem
          /\ \A u \in Posters \ {t} : pc'[u] = pc[u] /\ held'[u] = held[u]
      BY <1>t, <3>1
    <3>. QED
      BY <1>n, <3>1, <3>2, <3>3 DEF Ownership, OwnersInCall, LastOwnerDestroys, InCall, JoinersTerminate
  <2>. QED
    BY <1>2, <2>1, <2>2, <2>3 DEF PostStep
<1>3. ASSUME NEW w \in Workers, WorkerStep(w) PROVE Ownership'
  <2>1. owners' = owners
    BY <1>3 DEF WorkerStep, WaitItem, Dequeue, NotifyPop, SinkIt, Flush, Exit, poolVars
  <2>2. PICK h : held' = held \/ held' = [held EXCEPT ![w] = h]
    BY <1>3 DEF WorkerStep, WaitItem, Dequeue, NotifyPop, SinkIt, Flush, Exit, Handle
  <2>3. PICK l : \/ pc' = [pc EXCEPT ![w] = l]
                 \/ \E t \in Posters : /\ pc[t] = "wait_room"
                                       /\ pc' = [pc EXCEPT ![t] = "post", ![w] = l]
    BY <1>3 DEF WorkerStep, WaitItem, Dequeue, NotifyPop, SinkIt, Flush, Exit, Handle, Goto, At
  <2>4. \A u \in Posters : SamePlace(u) /\ held'[u] = held[u]
    BY <1>t, <2>2, <2>3 DEF SamePlace
  <2>. QED
    BY <2>1, <2>4, WorkersOwnNothing
<1>4. ASSUME NEW t \in Threads, SpuriousWake(t) PROVE Ownership'
  <2>1. held' = held /\ owners' = owners
    BY <1>4 DEF SpuriousWake, poolVars
  <2>2. \A u \in Posters : SamePlace(u)
    BY <1>t, <1>4 DEF SpuriousWake, Goto, SamePlace, PosterStates
  <2>. QED
    BY <2>1, <2>2, WorkersOwnNothing
<1>5. ASSUME Shutdown PROVE Ownership'
  BY <1>5, DropPoolOwnership DEF Shutdown
<1>6. ASSUME Finished \/ UNCHANGED vars PROVE Ownership'
  BY <1>6, WorkersOwnNothing DEF Finished, vars, poolVars, SamePlace
<1>. QED
  BY <1>1, <1>2, <1>3, <1>4, <1>5, <1>6 DEF Next

\* ~thread_pool runs alone, whichever thread drops the last reference and
\* however calls and shutdown interleave.
THEOREM DestructorAlone == Spec => []DestroyerAlone
<1>1. Ownership => DestroyerAlone
  BY DEF Ownership, LastOwnerDestroys, DestroyerAlone
<1>. QED
  BY <1>1, OwnershipInit, OwnershipStep, Invariance, PTL DEF Spec

-----------------------------------------------------------------------------
\* What a step leaves alone: the workers, when a poster moves (it may wake
\* one), and the posters, when a worker moves (it may wake one too).
WorkersStay ==
  \A w \in Workers :
    held'[w] = held[w] /\ (pc'[w] = pc[w] \/ (pc[w] = "wait_item" /\ pc'[w] = "dequeue"))
PostersStay == \A t \in Posters : held'[t] = held[t] /\ SamePlace(t)
OthersStay(S, t) == \A u \in S \ {t} : pc'[u] = pc[u] /\ held'[u] = held[u]

PosterMoves(t) == (t \in Clients /\ ClientStep(t)) \/ PostStep(t) \/ (t = Main /\ Shutdown)

\* The places of threads, as the provers need them.
LEMMA ThreadPlaces ==
  ASSUME IInv
  PROVE  /\ pc \in [Threads -> PosterStates \cup WorkerStates]
         /\ held \in [Threads -> Items \cup {NoItem}]
         /\ (\A t \in Posters : pc[t] \in PosterStates) /\ (\A w \in Workers : pc[w] \in WorkerStates)
         /\ Posters \cap Workers = {} /\ Threads = Posters \cup Workers
BY ThreadKinds DEF IInv, ThreadInv, ThreadTypeOK

\* A step is a poster's, a worker's, a spurious wakeup, or nothing.
LEMMA StepCases ==
  ASSUME [Next]_vars
  PROVE  \/ \E t \in Posters : PosterMoves(t)
         \/ \E w \in Workers : WorkerStep(w)
         \/ \E t \in Threads : SpuriousWake(t)
         \/ UNCHANGED vars
BY ThreadKinds DEF Next, Finished, PosterMoves

\* A poster's step moves it, and wakes at most a worker.
LEMMA PosterMovesAlone ==
  ASSUME IInv, NEW t \in Posters, PosterMoves(t)
  PROVE  WorkersStay /\ OthersStay(Posters, t)
<1>. USE ThreadPlaces DEF WorkersStay, OthersStay
<1>1. ASSUME NEW l, NEW h, pc' = [pc EXCEPT ![t] = l], held' = [held EXCEPT ![t] = h] \/ held' = held
      PROVE  WorkersStay /\ OthersStay(Posters, t)
  BY <1>1
<1>2. ASSUME t \in Clients, ClientStep(t) PROVE WorkersStay /\ OthersStay(Posters, t)
  <2>1. PICK l : pc' = [pc EXCEPT ![t] = l] \/ pc' = pc
    BY <1>2 DEF ClientStep, StartCall, RefuseCall, AwaitFlush, Release, DropPool, Goto
  <2>2. PICK h : held' = [held EXCEPT ![t] = h] \/ held' = held
    BY <1>2 DEF ClientStep, StartCall, RefuseCall, AwaitFlush, Release, DropPool
  <2>. QED
    BY <2>1, <2>2
<1>3. ASSUME WaitRoom(t) \/ Push(t) \/ Discard(t) \/ Join(t)
      PROVE  WorkersStay /\ OthersStay(Posters, t)
  <2>1. PICK l : pc' = [pc EXCEPT ![t] = l]
    BY <1>3 DEF WaitRoom, Push, Discard, Join, Goto
  <2>2. PICK h : held' = [held EXCEPT ![t] = h] \/ held' = held
    BY <1>3 DEF WaitRoom, Push, Discard, Join
  <2>. QED
    BY <2>1, <2>2
<1>4. ASSUME NotifyPush(t) PROVE WorkersStay /\ OthersStay(Posters, t)
  <2>1. \/ pc' = [pc EXCEPT ![t] = AfterPost(t)]
        \/ \E w \in Workers : pc[w] = "wait_item" /\ pc' = [pc EXCEPT ![w] = "dequeue", ![t] = AfterPost(t)]
    BY <1>4 DEF NotifyPush, Goto, At
  <2>2. held' = held
    BY <1>4 DEF NotifyPush
  <2>. QED
    BY <2>1, <2>2
<1>5. ASSUME t = Main, Shutdown PROVE WorkersStay /\ OthersStay(Posters, t)
  <2>1. PICK l, h : pc' = [pc EXCEPT ![t] = l] /\ held' = [held EXCEPT ![t] = h]
    BY <1>5 DEF Shutdown, DropPool, Goto
  <2>. QED
    BY <2>1
<1>. QED
  BY <1>2, <1>3, <1>4, <1>5 DEF PosterMoves, PostStep

\* A worker's step moves it, and wakes at most a poster.
LEMMA WorkerMovesAlone ==
  ASSUME IInv, NEW w \in Workers, WorkerStep(w)
  PROVE  PostersStay /\ OthersStay(Workers, w)
<1>. USE ThreadPlaces DEF PostersStay, SamePlace, OthersStay
<1>1. PICK h : held' = held \/ held' = [held EXCEPT ![w] = h]
  BY DEF WorkerStep, WaitItem, Dequeue, NotifyPop, SinkIt, Flush, Exit, Handle
<1>2. PICK l : \/ pc' = [pc EXCEPT ![w] = l]
               \/ \E t \in Posters : /\ pc[t] = "wait_room"
                                     /\ pc' = [pc EXCEPT ![t] = "post", ![w] = l]
  BY DEF WorkerStep, WaitItem, Dequeue, NotifyPop, SinkIt, Flush, Exit, Handle, Goto, At
<1>3. PostersStay
  BY <1>1, <1>2
<1>4. OthersStay(Workers, w)
  BY <1>1, <1>2
<1>. QED
  BY <1>3, <1>4

\* A spurious wakeup, or a step of nothing, moves nobody else.
LEMMA WakesAlone ==
  ASSUME IInv, (\E t \in Threads : SpuriousWake(t)) \/ UNCHANGED vars
  PROVE  WorkersStay /\ PostersStay /\ UNCHANGED <<queueVars, held, poolVars, callVars, sinkVars>>
<1>. USE ThreadPlaces DEF WorkersStay, PostersStay, SamePlace
<1>1. ASSUME NEW t \in Threads, SpuriousWake(t)
      PROVE  WorkersStay /\ PostersStay /\ UNCHANGED <<queueVars, held, poolVars, callVars, sinkVars>>
  BY <1>1 DEF SpuriousWake, Goto, PosterStates, WorkerStates
<1>2. ASSUME UNCHANGED vars
      PROVE  WorkersStay /\ PostersStay /\ UNCHANGED <<queueVars, held, poolVars, callVars, sinkVars>>
  BY <1>2 DEF vars
<1>. QED
  BY <1>1, <1>2

-----------------------------------------------------------------------------
\* What each thread holds where: a worker something of the queue from its
\* pop until it is done, a client in a call that call's message.
WorkersHold ==
  \A w \in Workers :
    /\ pc[w] \in {"dequeue", "wait_item", "exited"} => held[w] = NoItem
    /\ pc[w] \in {"notify", "process"} => held[w] \in Items
OwnMessage(c) == held[c] \in Message /\ held[c].from = c /\ held[c].seq = calls[c]
CallersHold ==
  /\ held[Main] \notin Message
  /\ \A c \in Clients : held[c] \in Message => InCall(c)
  /\ \A c \in Clients : InCall(c) => OwnMessage(c)
QueueHoldsItems == \A i \in 1..Size(q) : Contents(q)[i] \in Items
HoldInv == WorkersHold /\ CallersHold /\ QueueHoldsItems

\* The items are told apart.
LEMMA ItemKinds ==
  /\ \A m \in Message : /\ m \in Items /\ m # Terminate /\ m # NoItem
                        /\ m.kind \in {"log", "flush"} /\ m.from \in Clients
                        /\ m.seq \in 1..MaxCalls
  /\ Terminate \in Items /\ Terminate # NoItem /\ Terminate \notin Message /\ NoItem \notin Message
  /\ \A m \in Items : m = Terminate \/ m \in Message
<1>1. \A m \in Message : m.kind \in {"log", "flush"} /\ m.from \in Clients /\ m.seq \in 1..MaxCalls
  BY DEF Message
<1>2. Terminate.kind = "terminate"
  BY DEF Terminate
<1>3. Terminate \notin Message
  BY <1>1, <1>2
<1>. QED
  BY <1>1, <1>3, NoItemAssumption DEF Items

\* What a push does to the contents: the item goes to the end, and when the
\* queue is full the first of all goes.
Pushed(s, m) == IF Len(s) = MaxItems THEN Tail(Append(s, m)) ELSE Append(s, m)

\* A post pushes what its thread holds: what that does to the contents.
LEMMA PushContents ==
  ASSUME IInv, NEW t \in Posters, Push(t)
  PROVE  /\ held[t] \in Items /\ q' = PushBack(q, held[t])
         /\ Contents(q) \in Seq(Items \cup {NoItem}) /\ Len(Contents(q)) = Size(q) /\ Size(q) \in 0..MaxItems
         /\ Len(Contents(q')) = Size(q') /\ Contents(q') \in Seq(Items \cup {NoItem})
         /\ IsFull(q) <=> Size(q) = MaxItems
         /\ Contents(q') = Pushed(Contents(q), held[t])
         /\ q'.overrun = IF Size(q) = MaxItems THEN q.overrun + 1 ELSE q.overrun
<1>1. q \in QueueType(MaxItems, Items) /\ MaxItems \in Nat
  BY PoolAssumption DEF IInv, PoolTypeOK
<1>2. held[t] \in Items /\ q' = PushBack(q, held[t])
  BY DEF Push, IInv, ThreadInv, PostersHold
<1>3. q' \in QueueType(MaxItems, Items)
  BY <1>1, <1>2, PushBackType
<1>4. /\ Contents(q) \in Seq(Items \cup {NoItem}) /\ Len(Contents(q)) = Size(q) /\ Size(q) \in 0..MaxItems
      /\ IsFull(q) <=> Size(q) = MaxItems
  BY <1>1, ContentsSeq, SizeBounds
<1>5. Len(Contents(q')) = Size(q') /\ Contents(q') \in Seq(Items \cup {NoItem})
  BY <1>1, <1>3, ContentsSeq
<1>6. CASE IsFull(q)
  BY <1>1, <1>2, <1>4, <1>5, <1>6, PushBackOverruns DEF Pushed
<1>7. CASE ~IsFull(q)
  BY <1>1, <1>2, <1>4, <1>5, <1>7, PushBackAppends DEF Pushed
<1>. QED
  BY <1>6, <1>7

\* A dequeue hands the first item of the contents to the worker.
LEMMA DequeueContents ==
  ASSUME IInv, NEW w \in Workers, Dequeue(w)
  PROVE  /\ Contents(q) \in Seq(Items \cup {NoItem}) /\ Len(Contents(q)) = Size(q) /\ Size(q) \in 1..MaxItems
         /\ Len(Contents(q')) = Size(q') /\ Contents(q') \in Seq(Items \cup {NoItem})
         /\ Contents(q') = Tail(Contents(q)) /\ q'.overrun = q.overrun
         /\ held' = [held EXCEPT ![w] = Contents(q)[1]] /\ pc' = [pc EXCEPT ![w] = "notify"]
         /\ pc[w] = "dequeue" /\ q' = TakeFront(q)
<1>1. q \in QueueType(MaxItems, Items) /\ MaxItems \in Nat
  BY PoolAssumption DEF IInv, PoolTypeOK
<1>2. ~IsEmpty(q) /\ q' = TakeFront(q) /\ q' \in QueueType(MaxItems, Items)
  BY <1>1, TakeFrontType DEF Dequeue
<1>3. /\ Contents(q) \in Seq(Items \cup {NoItem}) /\ Len(Contents(q)) = Size(q) /\ Size(q) \in 0..MaxItems
      /\ Size(q) # 0 /\ Len(Contents(q')) = Size(q') /\ Contents(q') \in Seq(Items \cup {NoItem})
  BY <1>1, <1>2, ContentsSeq, SizeBounds
<1>4. Front(q) = Head(Contents(q)) /\ Contents(q') = Tail(Contents(q)) /\ q'.overrun = q.overrun
  BY <1>1, <1>2, TakeFrontTakesHead
<1>5. Front(q) = Contents(q)[1]
  BY <1>3, <1>4
<1>. QED
  BY <1>1, <1>2, <1>3, <1>4, <1>5 DEF Dequeue, Goto

\* Nobody holds anything at the start.
LEMMA HoldInit == Init => HoldInv
<1>. SUFFICES ASSUME Init PROVE HoldInv
  OBVIOUS
<1>1. Size(q) = 0
  BY DEF Init, NewQ, Size
<1>. QED
  BY <1>1, ItemKinds, ThreadKinds, PoolAssumption
     DEF Init, HoldInv, WorkersHold, CallersHold, InCall, QueueHoldsItems

\* The workers hold what they did unless one of them steps.
LEMMA WorkersKeepHolding ==
  ASSUME HoldInv, WorkersStay PROVE WorkersHold'
BY DEF HoldInv, WorkersStay, WorkersHold

\* The posters hold what they did unless one of them steps.
LEMMA PostersKeepHolding ==
  ASSUME IInv, HoldInv, PostersStay, calls' = calls PROVE CallersHold'
<1>. USE ThreadKinds DEF PostersStay, SamePlace, HoldInv, CallersHold, OwnMessage
<1>1. held'[Main] \notin Message
  OBVIOUS
<1>2. ASSUME NEW c \in Clients
      PROVE (held'[c] \in Message => InCall(c)') /\ (InCall(c)' => OwnMessage(c)')
  <2>1. InCall(c)' <=> InCall(c)
    BY DEF InCall
  <2>. QED
    BY <2>1
<1>. QED
  BY <1>1, <1>2

\* A queue that keeps its items, or gets one of Items, holds items.
LEMMA QueueKeepsHolding ==
  ASSUME IInv, HoldInv, [Next]_vars PROVE QueueHoldsItems'
<1>1. CASE \E t \in Posters : Push(t)
  <2>1. PICK t \in Posters : Push(t)
    BY <1>1
  <2>. DEFINE s == Contents(q)
  <2>2. /\ held[t] \in Items /\ s \in Seq(Items \cup {NoItem}) /\ Len(s) = Size(q)
        /\ Contents(q') = Pushed(s, held[t]) /\ Len(Contents(q')) = Size(q')
    BY <2>1, PushContents
  <2>3. \A i \in 1..Len(s) : s[i] \in Items
    BY <2>2 DEF HoldInv, QueueHoldsItems
  <2>. HIDE DEF s
  <2>4. \A i \in 1..Len(Pushed(s, held[t])) : Pushed(s, held[t])[i] \in Items
    <3>. DEFINE r == Append(s, held[t])
    <3>1. r \in Seq(Items \cup {NoItem}) /\ Len(r) = Len(s) + 1 /\ \A i \in 1..Len(r) : r[i] \in Items
      BY <2>2, <2>3
    <3>. HIDE DEF r
    <3>2. Len(Tail(r)) = Len(r) - 1 /\ \A i \in 1..Len(Tail(r)) : Tail(r)[i] = r[i + 1]
      BY <2>2, <3>1
    <3>3. \A i \in 1..Len(Tail(r)) : Tail(r)[i] \in Items
      BY <2>2, <3>1, <3>2
    <3>. QED
      BY <3>1, <3>3 DEF Pushed, r
  <2>. QED
    BY <2>2, <2>4 DEF QueueHoldsItems
<1>2. CASE \E w \in Workers : Dequeue(w)
  <2>1. PICK w \in Workers : Dequeue(w)
    BY <1>2
  <2>. DEFINE s == Contents(q)
  <2>2. /\ s \in Seq(Items \cup {NoItem}) /\ Len(s) = Size(q) /\ Size(q) \in 1..MaxItems
        /\ Contents(q') = Tail(s) /\ Len(Contents(q')) = Size(q')
    BY <2>1, DequeueContents
  <2>3. \A i \in 1..Len(s) : s[i] \in Items
    BY <2>2 DEF HoldInv, QueueHoldsItems
  <2>. HIDE DEF s
  <2>4. Len(Tail(s)) = Len(s) - 1 /\ \A i \in 1..Len(Tail(s)) : Tail(s)[i] = s[i + 1]
    BY <2>2, PoolAssumption
  <2>5. \A i \in 1..Len(Tail(s)) : Tail(s)[i] \in Items
    BY <2>2, <2>3, <2>4, PoolAssumption
  <2>. QED
    BY <2>2, <2>5 DEF QueueHoldsItems
<1>3. CASE (\A t \in Posters : ~Push(t)) /\ (\A w \in Workers : ~Dequeue(w))
  BY <1>3, OthersStutter DEF HoldInv, QueueHoldsItems
<1>. QED
  BY <1>1, <1>2, <1>3

\* Every step keeps what threads hold in order.
LEMMA HoldStep ==
  ASSUME IInv, Ownership, HoldInv, [Next]_vars PROVE HoldInv'
<1>. USE ThreadPlaces, ThreadKinds, ItemKinds
<1>q. QueueHoldsItems'
  BY QueueKeepsHolding
<1>1. ASSUME NEW t \in Posters, PosterMoves(t) PROVE HoldInv'
  <2>1. WorkersHold' /\ OthersStay(Posters, t)
    BY <1>1, PosterMovesAlone, WorkersKeepHolding
  <2>2. ASSUME calls' = calls \/ (t \in Clients /\ \A c \in Clients \ {t} : calls'[c] = calls[c]),
               t = Main => held'[t] \notin Message,
               t \in Clients =>
                 (held'[t] \in Message => InCall(t)') /\ (InCall(t)' => OwnMessage(t)')
        PROVE  HoldInv'
    <3>1. held'[Main] \notin Message
      BY <2>1, <2>2 DEF OthersStay, HoldInv, CallersHold
    <3>2. ASSUME NEW c \in Clients, c # t
          PROVE (held'[c] \in Message => InCall(c)') /\ (InCall(c)' => OwnMessage(c)')
      <4>1. pc'[c] = pc[c] /\ held'[c] = held[c] /\ calls'[c] = calls[c]
        BY <2>1, <2>2, <3>2 DEF OthersStay
      <4>. QED
        BY <4>1 DEF HoldInv, CallersHold, InCall, OwnMessage
    <3>3. CallersHold'
      BY <2>2, <3>1, <3>2 DEF CallersHold
    <3>. QED
      BY <1>q, <2>1, <3>3 DEF HoldInv
  <2>3. ASSUME held'[t] = held[t], calls' = calls, pc[t] # "idle", pc'[t] # "idle" PROVE HoldInv'
    BY <2>2, <2>3 DEF HoldInv, CallersHold, InCall, OwnMessage
  <2>4. ASSUME t \in owners, DropPool(t), calls' = calls PROVE HoldInv'
    <3>1. \/ held'[t] = Terminate
          \/ held'[t] = NoItem /\ pc'[t] = "idle"
      BY <2>4 DEF DropPool, Goto
    <3>. QED
      BY <2>2, <2>4, <3>1 DEF InCall
  <2>5. ASSUME t \in Clients, ClientStep(t) PROVE HoldInv'
    <3>1. ASSUME NEW kind \in Kinds[t], StartCall(t, kind) PROVE HoldInv'
      <4>. DEFINE m == [kind |-> kind, from |-> t, seq |-> calls[t] + 1]
      <4>1. kind \in {"log", "flush"} /\ calls[t] + 1 \in 1..MaxCalls
        <5>1. calls[t] \in 0..MaxCalls /\ calls[t] < MaxCalls
          BY <2>5, <3>1 DEF StartCall, IInv, CallTypeOK
        <5>2. kind \in {"log", "flush"}
          BY <2>5, PoolAssumption
        <5>. QED
          BY <5>1, <5>2, PoolAssumption
      <4>2. m \in Message /\ m.from = t /\ m.seq = calls[t] + 1
        BY <2>5, <4>1 DEF Message
      <4>. HIDE DEF m
      <4>3. /\ calls' = [calls EXCEPT ![t] = calls[t] + 1] /\ held' = [held EXCEPT ![t] = m]
        BY <3>1 DEF StartCall, m
      <4>4. held'[t] = m /\ calls'[t] = calls[t] + 1 /\ \A c \in Clients \ {t} : calls'[c] = calls[c]
        BY <2>5, <4>3 DEF IInv, CallTypeOK
      <4>5. OwnMessage(t)' /\ pc'[t] = "post"
        BY <3>1, <4>2, <4>4 DEF OwnMessage, StartCall, Goto
      <4>. QED
        BY <2>2, <2>5, <4>2, <4>4, <4>5, PoolAssumption DEF InCall
    <3>2. ASSUME RefuseCall(t) PROVE HoldInv'
      <4>1. /\ pc[t] = "idle" /\ pc' = pc /\ held' = held /\ owners = {}
            /\ \A c \in Clients \ {t} : calls'[c] = calls[c]
        BY <2>5, <3>2 DEF RefuseCall, IInv, CallTypeOK
      <4>2. held[t] \notin Message
        BY <2>5, <4>1 DEF HoldInv, CallersHold, InCall
      <4>. QED
        BY <2>2, <2>5, <4>1, <4>2, PoolAssumption DEF InCall
    <3>3. ASSUME AwaitFlush(t) PROVE HoldInv'
      BY <3>3, <2>3 DEF AwaitFlush, Goto, callVars
    <3>4. ASSUME Release(t) PROVE HoldInv'
      <4>1. held[t] # Terminate => t \in owners
        BY <2>5, <3>4 DEF Release, Ownership, OwnersInCall, InCall
      <4>2. CASE t \in owners
        BY <2>4, <3>4, <4>2 DEF Release, callVars
      <4>3. CASE t \notin owners
        <5>1. owners # {t}
          BY <4>3
        <5>2. held'[t] = NoItem /\ pc'[t] = "idle" /\ calls' = calls
          BY <3>4, <5>1 DEF Release, DropPool, Goto, callVars
        <5>. QED
          BY <2>2, <5>2 DEF InCall
      <4>. QED
        BY <4>2, <4>3
    <3>. QED
      BY <2>5, <3>1, <3>2, <3>3, <3>4 DEF ClientStep
  <2>6. ASSUME WaitRoom(t) \/ Push(t) \/ Discard(t) \/ NotifyPush(t) PROVE HoldInv'
    <3>1. held' = held /\ calls' = calls /\ pc[t] # "idle"
      BY <2>6 DEF WaitRoom, Push, Discard, NotifyPush, callVars
    <3>2. pc'[t] # "idle"
      BY <2>6 DEF WaitRoom, Push, Discard, NotifyPush, Goto, AfterPost, At
    <3>. QED
      BY <2>3, <3>1, <3>2
  <2>7. ASSUME Join(t) PROVE HoldInv'
    <3>1. held'[t] = NoItem /\ pc'[t] = "idle" /\ calls' = calls
      BY <2>7 DEF Join, Goto, callVars
    <3>. QED
      BY <2>2, <3>1 DEF InCall
  <2>8. ASSUME t = Main, Shutdown PROVE HoldInv'
    BY <2>4, <2>8 DEF Shutdown, callVars
  <2>. QED
    BY <1>1, <2>5, <2>6, <2>7, <2>8 DEF PosterMoves, PostStep
<1>2. ASSUME NEW w \in Workers, WorkerStep(w) PROVE HoldInv'
  <2>1. calls' = calls
    BY <1>2 DEF WorkerStep, WaitItem, Dequeue, NotifyPop, SinkIt, Flush, Exit, callVars
  <2>2. CallersHold' /\ OthersStay(Workers, w)
    BY <1>2, <2>1, WorkerMovesAlone, PostersKeepHolding
  <2>3. ASSUME pc'[w] \in {"dequeue", "wait_item", "exited"} => held'[w] = NoItem,
               pc'[w] \in {"notify", "process"} => held'[w] \in Items
        PROVE  HoldInv'
    <3>1. WorkersHold'
      BY <2>2, <2>3 DEF OthersStay, HoldInv, WorkersHold
    <3>. QED
      BY <1>q, <2>2, <3>1 DEF HoldInv
  <2>4. CASE WaitItem(w)
    BY <2>3, <2>4 DEF WaitItem, Goto, HoldInv, WorkersHold
  <2>5. CASE Dequeue(w)
    <3>1. /\ held' = [held EXCEPT ![w] = Contents(q)[1]] /\ pc' = [pc EXCEPT ![w] = "notify"]
          /\ 1 \in 1..Size(q)
      BY <2>5, DequeueContents, PoolAssumption
    <3>2. held'[w] \in Items /\ pc'[w] = "notify"
      BY <3>1 DEF HoldInv, QueueHoldsItems
    <3>. QED
      BY <2>3, <3>2
  <2>6. CASE NotifyPop(w)
    <3>1. pc[w] = "notify" /\ held' = held
      BY <2>6 DEF NotifyPop
    <3>2. pc'[w] = "process"
      BY <2>6 DEF NotifyPop, Goto, At
    <3>. QED
      BY <2>3, <3>1, <3>2 DEF HoldInv, WorkersHold
  <2>7. CASE SinkIt(w) \/ Flush(w) \/ Exit(w)
    <3>1. held'[w] = NoItem /\ pc'[w] \in {"dequeue", "exited"}
      BY <2>7 DEF SinkIt, Flush, Exit, Handle, Goto
    <3>. QED
      BY <2>3, <3>1
  <2>. QED
    BY <1>2, <2>4, <2>5, <2>6, <2>7 DEF WorkerStep
<1>3. ASSUME (\E t \in Threads : SpuriousWake(t)) \/ UNCHANGED vars PROVE HoldInv'
  BY <1>3, <1>q, WakesAlone, WorkersKeepHolding, PostersKeepHolding DEF HoldInv, callVars
<1>. QED
  BY <1>1, <1>2, <1>3, StepCases

-----------------------------------------------------------------------------
\* The message of the flush a client waits for, and where its promise is.
FlushOf(c) == [kind |-> "flush", from |-> c, seq |-> calls[c]]
PromiseAt(c, m) ==
  \/ pc[c] \in {"post", "wait_room"} /\ held[c] = m
  \/ \E i \in 0..MaxItems : q.v[i] = m
  \/ \E w \in Workers : held[w] = m
PendingInv ==
  \A c \in Clients : answer[c] = "pending" => FlushOf(c) \in Message /\ PromiseAt(c, FlushOf(c))

\* What a push does to the slots.
LEMMA PushSlots ==
  ASSUME IInv, NEW t \in Posters, Push(t)
  PROVE  /\ q.v \in [0..MaxItems -> Items \cup {NoItem}] /\ q.tail \in 0..MaxItems
         /\ q'.v = [q.v EXCEPT ![q.tail] = held[t]]
         /\ pc[t] = "post" /\ pc' = [pc EXCEPT ![t] = "notify"] /\ held' = held /\ calls' = calls
         /\ AnswerFlush(q.v[q.tail], "broken")
<1>1. q \in QueueType(MaxItems, Items) /\ MaxItems \in Nat
  BY PoolAssumption DEF IInv, PoolTypeOK
<1>2. /\ q.v \in [0..MaxItems -> Items \cup {NoItem}] /\ q.tail \in 0..MaxItems /\ q.max = MaxItems + 1
  BY <1>1, QueueFields
<1>3. q.max # 0
  BY <1>1, <1>2
<1>4. q'.v = [q.v EXCEPT ![q.tail] = held[t]]
  BY <1>3 DEF Push, PushBack
<1>. QED
  BY <1>2, <1>4 DEF Push, Goto, Overwritten

\* What a dequeue does to the slots.
LEMMA DequeueSlots ==
  ASSUME IInv, NEW w \in Workers, Dequeue(w)
  PROVE  /\ q.v \in [0..MaxItems -> Items \cup {NoItem}] /\ q.head \in 0..MaxItems
         /\ q'.v = [q.v EXCEPT ![q.head] = NoItem] /\ held' = [held EXCEPT ![w] = q.v[q.head]]
<1>1. q \in QueueType(MaxItems, Items) /\ MaxItems \in Nat
  BY PoolAssumption DEF IInv, PoolTypeOK
<1>. QED
  BY <1>1, QueueFields DEF Dequeue, TakeFront, Front

\* An answer, once given, concerns the client of the message only.
LEMMA Answered ==
  ASSUME IInv, NEW m, NEW a \in {"set", "broken"}, AnswerFlush(m, a), NEW c \in Clients
  PROVE  /\ answer'[c] = "pending" => answer[c] = "pending"
         /\ m \in Message /\ m.kind = "flush" /\ m.from = c => answer'[c] = a
BY DEF IInv, CallTypeOK, AnswerFlush

\* A promise that a step leaves where it is.
LEMMA PromiseStays ==
  ASSUME NEW c \in Clients, NEW m, PromiseAt(c, m),
         pc[c] \in {"post", "wait_room"} /\ held[c] = m =>
           pc'[c] \in {"post", "wait_room"} /\ held'[c] = m,
         q' = q, \A w \in Workers : held[w] = m => held'[w] = m
  PROVE  PromiseAt(c, m)'
BY DEF PromiseAt

\* A push puts the promise of the flush that is posted into the queue, and
\* answers the one that it overwrites.
LEMMA PushKeepsPromises ==
  ASSUME IInv, HoldInv, PendingInv, NEW t \in Posters, Push(t) PROVE PendingInv'
<1>. SUFFICES ASSUME NEW c \in Clients, answer'[c] = "pending"
              PROVE  (FlushOf(c) \in Message /\ PromiseAt(c, FlushOf(c)))'
  BY DEF PendingInv
<1>. DEFINE m == FlushOf(c)
<1>1. /\ q.v \in [0..MaxItems -> Items \cup {NoItem}] /\ q.tail \in 0..MaxItems
      /\ q'.v = [q.v EXCEPT ![q.tail] = held[t]] /\ pc[t] = "post"
      /\ held' = held /\ calls' = calls
  BY PushSlots
<1>2. OthersStay(Posters, t) /\ m' = m
  BY <1>1, PosterMovesAlone DEF PosterMoves, PostStep, FlushOf
<1>3. answer[c] = "pending" /\ ~(q.v[q.tail] = m /\ m \in Message)
  <2>1. m.kind = "flush" /\ m.from = c
    BY DEF FlushOf
  <2>. HIDE DEF m
  <2>2. AnswerFlush(q.v[q.tail], "broken")
    BY PushSlots
  <2>3. answer[c] = "pending"
    BY <2>2, Answered
  <2>4. q.v[q.tail] = m /\ m \in Message => answer'[c] = "broken"
    BY <2>1, <2>2, Answered
  <2>. QED
    BY <2>3, <2>4
<1>4. m \in Message /\ PromiseAt(c, m)
  BY <1>3 DEF PendingInv
<1>. HIDE DEF m
<1>5. CASE pc[c] \in {"post", "wait_room"} /\ held[c] = m
  <2>1. ASSUME c = t PROVE PromiseAt(c, m)'
    <3>1. q'.v[q.tail] = m'
      BY <1>1, <1>2, <1>5, <2>1
    <3>. QED
      BY <1>1, <3>1 DEF PromiseAt
  <2>2. ASSUME c # t PROVE PromiseAt(c, m)'
    <3>1. pc'[c] = pc[c] /\ held'[c] = held[c]
      BY <1>2, <2>2, ThreadKinds DEF OthersStay
    <3>. QED
      BY <1>2, <1>5, <3>1 DEF PromiseAt
  <2>. QED
    BY <1>2, <1>4, <2>1, <2>2 DEF m
<1>6. CASE \E i \in 0..MaxItems : q.v[i] = m
  <2>1. PICK i \in 0..MaxItems : q.v[i] = m
    BY <1>6
  <2>2. q'.v[i] = m
    BY <1>1, <1>3, <1>4, <2>1
  <2>. QED
    BY <1>2, <1>4, <2>2 DEF m, PromiseAt
<1>7. CASE \E w \in Workers : held[w] = m
  BY <1>1, <1>2, <1>4, <1>7 DEF m, PromiseAt
<1>. QED
  BY <1>4, <1>5, <1>6, <1>7 DEF PromiseAt

\* A dequeue moves the promise of the flush at the front to the worker.
LEMMA DequeueKeepsPromises ==
  ASSUME IInv, HoldInv, PendingInv, NEW w \in Workers, Dequeue(w) PROVE PendingInv'
<1>. SUFFICES ASSUME NEW c \in Clients, answer'[c] = "pending"
              PROVE  (FlushOf(c) \in Message /\ PromiseAt(c, FlushOf(c)))'
  BY DEF PendingInv
<1>. DEFINE m == FlushOf(c)
<1>1. m' = m /\ answer[c] = "pending" /\ pc[w] = "dequeue"
  BY DEF Dequeue, callVars, FlushOf
<1>2. m \in Message /\ PromiseAt(c, m)
  BY <1>1 DEF PendingInv
<1>. HIDE DEF m
<1>3. /\ q.v \in [0..MaxItems -> Items \cup {NoItem}] /\ q.head \in 0..MaxItems
      /\ q'.v = [q.v EXCEPT ![q.head] = NoItem] /\ held' = [held EXCEPT ![w] = q.v[q.head]]
  BY DequeueSlots
<1>4. PostersStay
  BY WorkerMovesAlone DEF WorkerStep
<1>5. held[w] # m
  BY <1>1, <1>2, ItemKinds DEF HoldInv, WorkersHold
<1>6. CASE \E i \in 0..MaxItems : q.v[i] = m
  <2>1. PICK i \in 0..MaxItems : q.v[i] = m
    BY <1>6
  <2>2. CASE i = q.head
    <3>1. held'[w] = m
      BY <1>3, <2>1, <2>2, ThreadPlaces
    <3>. QED
      BY <1>1, <1>2, <3>1 DEF m, PromiseAt
  <2>3. CASE i # q.head
    <3>1. q'.v[i] = m
      BY <1>3, <2>1, <2>3
    <3>. QED
      BY <1>1, <1>2, <3>1 DEF m, PromiseAt
  <2>. QED
    BY <2>2, <2>3
<1>7. CASE \E v \in Workers : held[v] = m
  <2>1. PICK v \in Workers : held[v] = m /\ v # w
    BY <1>5, <1>7
  <2>2. held'[v] = m
    BY <1>3, <2>1, ThreadPlaces
  <2>. QED
    BY <1>1, <1>2, <2>1, <2>2 DEF m, PromiseAt
<1>8. CASE pc[c] \in {"post", "wait_room"} /\ held[c] = m
  BY <1>1, <1>2, <1>4, <1>8, ThreadKinds DEF m, PromiseAt, PostersStay, SamePlace
<1>. QED
  BY <1>2, <1>6, <1>7, <1>8 DEF PromiseAt

\* The steps that leave the queue and the calls alone move no promise out of
\* a hand without answering it.
LEMMA OthersKeepPromises ==
  ASSUME IInv, HoldInv, PendingInv, [Next]_vars,
         \A t \in Posters : ~Push(t), \A w \in Workers : ~Dequeue(w)
  PROVE  PendingInv'
<1>. USE ThreadKinds, ThreadPlaces, ItemKinds
<1>. SUFFICES ASSUME NEW c \in Clients, answer'[c] = "pending"
              PROVE  (FlushOf(c) \in Message /\ PromiseAt(c, FlushOf(c)))'
  BY DEF PendingInv
<1>. DEFINE m == FlushOf(c)
<1>0. m.kind = "flush" /\ m.from = c /\ (calls'[c] = calls[c] => m' = m)
  BY DEF FlushOf
<1>q. q' = q
  BY OthersStutter
<1>a. answer[c] = "pending" => m \in Message /\ PromiseAt(c, m)
  BY DEF PendingInv
<1>1. ASSUME NEW t \in Posters, t # c, PosterMoves(t)
      PROVE  m' \in Message /\ PromiseAt(c, m)'
  <2>1. WorkersStay /\ OthersStay(Posters, t)
    BY <1>1, PosterMovesAlone
  <2>2. calls'[c] = calls[c]
    BY <1>1 DEF PosterMoves, ClientStep, StartCall, RefuseCall, AwaitFlush, Release, PostStep,
                WaitRoom, Push, Discard, NotifyPush, Join, Shutdown, callVars, IInv, CallTypeOK
  <2>3. answer[c] = "pending"
    <3>1. CASE t \in Clients /\ ClientStep(t)
      BY <1>1, <3>1 DEF ClientStep, StartCall, RefuseCall, AwaitFlush, Release, callVars, IInv, CallTypeOK
    <3>2. CASE Push(t) \/ Discard(t)
      BY <3>2, Answered DEF Push, Discard
    <3>3. CASE WaitRoom(t) \/ NotifyPush(t) \/ Join(t) \/ Shutdown
      BY <3>3 DEF WaitRoom, NotifyPush, Join, Shutdown, callVars
    <3>. QED
      BY <1>1, <3>1, <3>2, <3>3 DEF PosterMoves, PostStep
  <2>. HIDE DEF m
  <2>. QED
    BY <1>0, <1>1, <1>a, <1>q, <2>1, <2>2, <2>3, PromiseStays DEF WorkersStay, OthersStay
<1>2. ASSUME PosterMoves(c) PROVE m' \in Message /\ PromiseAt(c, m)'
  <2>1. WorkersStay
    BY <1>2, PosterMovesAlone
  <2>2. ASSUME NEW kind \in Kinds[c], StartCall(c, kind) PROVE m' \in Message /\ PromiseAt(c, m)'
    <3>1. calls[c] \in 0..MaxCalls /\ calls[c] < MaxCalls /\ MaxCalls \in Nat
      BY <2>2, PoolAssumption DEF StartCall, IInv, CallTypeOK
    <3>2. kind = "flush" /\ calls'[c] = calls[c] + 1
      BY <2>2 DEF StartCall, IInv, CallTypeOK
    <3>3. held'[c] = m' /\ pc'[c] = "post"
      BY <2>2, <3>2 DEF StartCall, Goto, FlushOf
    <3>4. m' \in Message
      BY <3>1, <3>2 DEF FlushOf, Message
    <3>. QED
      BY <3>3, <3>4 DEF PromiseAt
  <2>3. ~RefuseCall(c) /\ ~AwaitFlush(c)
    BY DEF RefuseCall, AwaitFlush, callVars, IInv, CallTypeOK
  <2>4. ASSUME Release(c) \/ WaitRoom(c) \/ NotifyPush(c) \/ Join(c)
        PROVE  m' \in Message /\ PromiseAt(c, m)'
    <3>1. calls' = calls /\ answer[c] = "pending"
      BY <2>4 DEF Release, WaitRoom, NotifyPush, Join, callVars
    <3>2. pc[c] \in {"post", "wait_room"} => pc'[c] = "wait_room" /\ held' = held
      BY <2>4 DEF Release, WaitRoom, NotifyPush, Join, Goto
    <3>. HIDE DEF m
    <3>. QED
      BY <1>0, <1>a, <1>q, <2>1, <3>1, <3>2, PromiseStays DEF WorkersStay
  <2>5. ASSUME Discard(c) PROVE m' \in Message /\ PromiseAt(c, m)'
    <3>1. calls' = calls /\ answer[c] = "pending" /\ AnswerFlush(held[c], "broken")
      BY <2>5, Answered DEF Discard
    <3>2. held[c] # m
      <4>. HIDE DEF m
      <4>. QED
        BY <1>0, <1>a, <3>1, Answered
    <3>. HIDE DEF m
    <3>. QED
      BY <1>0, <1>a, <1>q, <2>1, <3>1, <3>2, PromiseStays DEF WorkersStay
  <2>. QED
    BY <1>2, <2>2, <2>3, <2>4, <2>5, PoolAssumption DEF PosterMoves, PostStep, ClientStep
<1>3. ASSUME NEW w \in Workers, WorkerStep(w) PROVE m' \in Message /\ PromiseAt(c, m)'
  <2>1. PostersStay /\ OthersStay(Workers, w)
    BY <1>3, WorkerMovesAlone
  <2>2. calls' = calls /\ answer[c] = "pending"
    <3>1. CASE Flush(w)
      BY <3>1, Answered DEF Flush
    <3>2. CASE ~Flush(w)
      BY <1>3, <3>2 DEF WorkerStep, WaitItem, Dequeue, NotifyPop, SinkIt, Exit, callVars
    <3>. QED
      BY <3>1, <3>2
  <2>3. held[w] = m => held'[w] = m
    <3>1. CASE WaitItem(w) \/ NotifyPop(w)
      BY <3>1 DEF WaitItem, NotifyPop
    <3>2. CASE SinkIt(w) \/ Exit(w)
      <4>1. held[w] # m
        BY <1>0, <1>a, <2>2, <3>2 DEF SinkIt, Exit
      <4>. QED
        BY <4>1
    <3>3. CASE Flush(w)
      <4>. HIDE DEF m
      <4>1. held[w] = m => answer'[c] = "set"
        BY <1>0, <3>3, Answered DEF Flush
      <4>. QED
        BY <4>1
    <3>. QED
      BY <1>3, <3>1, <3>2, <3>3 DEF WorkerStep
  <2>. HIDE DEF m
  <2>. QED
    BY <1>0, <1>a, <1>q, <2>1, <2>2, <2>3, PromiseStays DEF PostersStay, SamePlace, OthersStay
<1>4. ASSUME (\E t \in Threads : SpuriousWake(t)) \/ UNCHANGED vars
      PROVE  m' \in Message /\ PromiseAt(c, m)'
  <2>1. WorkersStay /\ PostersStay /\ calls' = calls /\ answer[c] = "pending"
    BY <1>4, WakesAlone DEF callVars
  <2>. HIDE DEF m
  <2>. QED
    BY <1>0, <1>a, <1>q, <2>1, PromiseStays DEF WorkersStay, PostersStay, SamePlace
<1>. QED
  BY <1>1, <1>2, <1>3, <1>4, StepCases DEF m

\* Every step keeps the promises that are waited for.
LEMMA PendingStep ==
  ASSUME IInv, HoldInv, PendingInv, [Next]_vars PROVE PendingInv'
BY PushKeepsPromises, DequeueKeepsPromises, OthersKeepPromises

\* A client that waits for a flush waits for a promise that some thread, or
\* the queue, still has: whoever handles, discards or overwrites the message
\* answers it.  No policy, and no interleaving with the destructor, lets the
\* last copy of a promise go unanswered.
THEOREM PromisesHeld == Spec => []PendingFlushHeld
<1>1. Init => PendingInv
  BY DEF Init, PendingInv
<1>2. PendingInv => PendingFlushHeld
  BY DEF PendingInv, PendingFlushHeld, PromiseAt, FlushOf
<1>. QED
  BY <1>1, <1>2, PendingStep, HoldInit, HoldStep, OwnershipInit, OwnershipStep, Invariance, PTL DEF Spec

-----------------------------------------------------------------------------
\* Counting: sets that differ in one element differ by that element.
LEMMA CountChange ==
  ASSUME NEW A, NEW B, NEW t, IsFiniteSet(A), A \ {t} = B \ {t}
  PROVE  /\ IsFiniteSet(B) /\ Cardinality(A) \in Nat /\ Cardinality(B) \in Nat
         /\ Cardinality(B) = CASE t \in A /\ t \notin B -> Cardinality(A) - 1
                               [] t \notin A /\ t \in B -> Cardinality(A) + 1
                               [] OTHER -> Cardinality(A)
<1>. DEFINE C == A \ {t}
<1>1. /\ IsFiniteSet(C) /\ Cardinality(A) \in Nat
      /\ Cardinality(C) = IF t \in A THEN Cardinality(A) - 1 ELSE Cardinality(A)
  BY FS_RemoveElement, FS_CardinalityType
<1>2. IsFiniteSet(C \cup {t}) /\ Cardinality(C \cup {t}) = Cardinality(C) + 1
  BY <1>1, FS_AddElement
<1>3. B = IF t \in B THEN C \cup {t} ELSE C
  OBVIOUS
<1>4. t \in A => Cardinality(A) # 0
  BY FS_EmptySet
<1>. HIDE DEF C
<1>. QED
  BY <1>1, <1>2, <1>3, <1>4, FS_CardinalityType

\* A subset counts no more.
LEMMA CountGrows ==
  ASSUME NEW A, NEW B, A \subseteq B, IsFiniteSet(B)
  PROVE  Cardinality(A) \in Nat /\ Cardinality(B) \in Nat /\ Cardinality(A) <= Cardinality(B)
BY FS_Subset, FS_CardinalityType

\* There are finitely many threads anywhere.
LEMMA FiniteThreads ==
  ASSUME NEW l
  PROVE  /\ IsFiniteSet(Posters) /\ IsFiniteSet(Workers)
         /\ IsFiniteSet(At(Posters, l)) /\ IsFiniteSet(At(Workers, l))
         /\ IsFiniteSet(At(Posters, l)') /\ IsFiniteSet(At(Workers, l)')
<1>1. IsFiniteSet(Posters) /\ IsFiniteSet(Workers)
  BY PoolAssumption, FS_AddElement DEF Posters
<1>2. /\ At(Posters, l) \subseteq Posters /\ At(Workers, l) \subseteq Workers
      /\ At(Posters, l)' \subseteq Posters /\ At(Workers, l)' \subseteq Workers
  BY DEF At
<1>. QED
  BY <1>1, <1>2, FS_Subset

\* The two halves of NoLostWakeup.
RoomWanted ==
  At(Posters, "wait_room") # {} =>
    MaxItems - Size(q) <= Cardinality(At(Posters, "post")) + Cardinality(At(Workers, "notify"))
ItemsWanted ==
  At(Workers, "wait_item") # {} =>
    Size(q) <= Cardinality(At(Workers, "dequeue")) + Cardinality(At(Posters, "notify"))

\* The invariant of TypeCorrect, over any step.
LEMMA IInvStep ==
  ASSUME IInv, [Next]_vars PROVE IInv'
BY ClientStepIInv, PostStepIInv, WorkerStepIInv, OtherStepIInv DEF Next, Finished

\* The queue's size and its two limits.
LEMMA SizeType ==
  ASSUME IInv PROVE Size(q) \in 0..MaxItems /\ MaxItems \in Nat /\ (IsFull(q) <=> Size(q) = MaxItems)
                    /\ (IsEmpty(q) <=> Size(q) = 0)
BY SizeBounds, PoolAssumption DEF IInv, PoolTypeOK

\* No step takes the size out of its range.
LEMMA SizeNext ==
  ASSUME IInv, [Next]_vars PROVE Size(q') \in 0..MaxItems
<1>1. q' \in QueueType(MaxItems, Items)
  BY IInvStep DEF IInv, PoolTypeOK
<1>. QED
  BY <1>1, SizeBounds, PoolAssumption

\* How many threads there are at a label, when one thread of the side moves
\* and when none does but by being woken.
LEMMA CountsOthersStay ==
  ASSUME NEW S \in {Posters, Workers}, NEW t \in S, OthersStay(S, t), NEW l
  PROVE  /\ Cardinality(At(S, l)) \in Nat /\ Cardinality(At(S, l)') \in Nat
         /\ Cardinality(At(S, l)') = CASE pc[t] = l /\ pc'[t] # l -> Cardinality(At(S, l)) - 1
                                       [] pc[t] # l /\ pc'[t] = l -> Cardinality(At(S, l)) + 1
                                       [] OTHER -> Cardinality(At(S, l))
         /\ pc'[t] # l => At(S, l)' \subseteq At(S, l)
<1>1. At(S, l) \ {t} = At(S, l)' \ {t}
  BY DEF At, OthersStay
<1>2. IsFiniteSet(At(S, l))
  BY FiniteThreads
<1>3. (t \in At(S, l) <=> pc[t] = l) /\ (t \in At(S, l)' <=> pc'[t] = l)
  BY DEF At
<1>4. pc'[t] # l => At(S, l)' \subseteq At(S, l)
  BY <1>1, <1>3
<1>. DEFINE A == At(S, l)
            B == At(S, l)'
<1>. HIDE DEF A, B
<1>5. /\ IsFiniteSet(B) /\ Cardinality(A) \in Nat /\ Cardinality(B) \in Nat
      /\ Cardinality(B) = CASE t \in A /\ t \notin B -> Cardinality(A) - 1
                            [] t \notin A /\ t \in B -> Cardinality(A) + 1
                            [] OTHER -> Cardinality(A)
  BY <1>1, <1>2, CountChange DEF A, B
<1>. QED
  BY <1>3, <1>4, <1>5 DEF A, B

\* Among posters that stay or are woken, who waits, posts and notifies.
LEMMA CountsPostersStay ==
  ASSUME PostersStay
  PROVE  /\ At(Posters, "wait_room")' \subseteq At(Posters, "wait_room")
         /\ At(Posters, "notify")' = At(Posters, "notify")
         /\ Cardinality(At(Posters, "post")) \in Nat /\ Cardinality(At(Posters, "post")') \in Nat
         /\ Cardinality(At(Posters, "post")) <= Cardinality(At(Posters, "post")')
         /\ \A t \in At(Posters, "wait_room") : pc'[t] = "post" =>
              Cardinality(At(Posters, "post")) + 1 <= Cardinality(At(Posters, "post")')
<1>. USE DEF PostersStay, SamePlace
<1>1. At(Posters, "wait_room")' \subseteq At(Posters, "wait_room")
  BY DEF At
<1>2. At(Posters, "notify")' = At(Posters, "notify")
  BY DEF At
<1>. DEFINE A == At(Posters, "post")
            B == At(Posters, "post")'
<1>3. A \subseteq B /\ IsFiniteSet(A) /\ IsFiniteSet(B)
  BY FiniteThreads DEF At
<1>4. ASSUME NEW t \in At(Posters, "wait_room"), pc'[t] = "post"
      PROVE  Cardinality(A) + 1 <= Cardinality(B)
  <2>1. t \notin A /\ A \cup {t} \subseteq B
    BY <1>3, <1>4 DEF At
  <2>. HIDE DEF A, B
  <2>2. Cardinality(A \cup {t}) = Cardinality(A) + 1
    BY <1>3, <2>1, FS_AddElement
  <2>. QED
    BY <1>3, <2>1, <2>2, CountGrows
<1>5. Cardinality(A) \in Nat /\ Cardinality(B) \in Nat /\ Cardinality(A) <= Cardinality(B)
  BY <1>3, CountGrows
<1>. QED
  BY <1>1, <1>2, <1>4, <1>5

\* Among workers that stay or are woken, who waits, dequeues and notifies.
LEMMA CountsWorkersStay ==
  ASSUME WorkersStay
  PROVE  /\ At(Workers, "wait_item")' \subseteq At(Workers, "wait_item")
         /\ At(Workers, "notify")' = At(Workers, "notify")
         /\ Cardinality(At(Workers, "dequeue")) \in Nat /\ Cardinality(At(Workers, "dequeue")') \in Nat
         /\ Cardinality(At(Workers, "dequeue")) <= Cardinality(At(Workers, "dequeue")')
         /\ \A w \in At(Workers, "wait_item") : pc'[w] = "dequeue" =>
              Cardinality(At(Workers, "dequeue")) + 1 <= Cardinality(At(Workers, "dequeue")')
<1>. USE DEF WorkersStay
<1>1. At(Workers, "wait_item")' \subseteq At(Workers, "wait_item")
  BY DEF At
<1>2. At(Workers, "notify")' = At(Workers, "notify")
  BY DEF At
<1>. DEFINE A == At(Workers, "dequeue")
            B == At(Workers, "dequeue")'
<1>3. A \subseteq B /\ IsFiniteSet(A) /\ IsFiniteSet(B)
  BY FiniteThreads DEF At
<1>4. ASSUME NEW w \in At(Workers, "wait_item"), pc'[w] = "dequeue"
      PROVE  Cardinality(A) + 1 <= Cardinality(B)
  <2>1. w \notin A /\ A \cup {w} \subseteq B
    BY <1>3, <1>4 DEF At
  <2>. HIDE DEF A, B
  <2>2. Cardinality(A \cup {w}) = Cardinality(A) + 1
    BY <1>3, <2>1, FS_AddElement
  <2>. QED
    BY <1>3, <2>1, <2>2, CountGrows
<1>5. Cardinality(A) \in Nat /\ Cardinality(B) \in Nat /\ Cardinality(A) <= Cardinality(B)
  BY <1>3, CountGrows
<1>. QED
  BY <1>1, <1>2, <1>4, <1>5

\* A notify_one wakes a waiting thread, if there is any.
LEMMA NotifyPushWakes ==
  ASSUME IInv, NEW t \in Posters, NotifyPush(t)
  PROVE  /\ pc[t] = "notify" /\ pc'[t] = AfterPost(t)
         /\ At(Workers, "wait_item") = {} \/ \E w \in At(Workers, "wait_item") : pc'[w] = "dequeue"
<1>1. pc[t] = "notify" /\ pc'[t] = AfterPost(t)
  BY ThreadPlaces DEF NotifyPush, Goto, At
<1>2. ASSUME NEW w \in At(Workers, "wait_item"),
             pc' = [pc EXCEPT ![w] = "dequeue", ![t] = AfterPost(t)]
      PROVE  pc'[w] = "dequeue"
  BY <1>2, ThreadPlaces DEF At
<1>. QED
  BY <1>1, <1>2 DEF NotifyPush

\* A worker's notification wakes a poster, if one waits.
LEMMA NotifyPopWakes ==
  ASSUME IInv, NEW w \in Workers, NotifyPop(w)
  PROVE  /\ pc[w] = "notify" /\ pc'[w] = "process"
         /\ At(Posters, "wait_room") = {} \/ \E t \in At(Posters, "wait_room") : pc'[t] = "post"
<1>1. pc[w] = "notify" /\ pc'[w] = "process"
  BY ThreadPlaces DEF NotifyPop, Goto, At
<1>2. ASSUME NEW t \in At(Posters, "wait_room"),
             pc' = [pc EXCEPT ![t] = "post", ![w] = "process"]
      PROVE  pc'[t] = "post"
  BY <1>2, ThreadPlaces DEF At
<1>. QED
  BY <1>1, <1>2 DEF NotifyPop

\* Every free slot that a poster sleeps for has a thread on its way to it.
LEMMA RoomWantedStep ==
  ASSUME IInv, RoomWanted, [Next]_vars PROVE RoomWanted'
<1>. DEFINE P == Cardinality(At(Posters, "post"))
            N == Cardinality(At(Workers, "notify"))
<1>0. /\ Size(q) \in 0..MaxItems /\ Size(q') \in 0..MaxItems /\ MaxItems \in Nat
      /\ IsFull(q) => Size(q) = MaxItems
  BY SizeType, SizeNext
<1>. SUFFICES ASSUME At(Posters, "wait_room")' # {}
              PROVE  MaxItems - Size(q') <= P' + N'
  BY DEF RoomWanted
<1>1. ASSUME NEW t \in Posters, PosterMoves(t) PROVE MaxItems - Size(q') <= P' + N'
  <2>1. /\ WorkersStay /\ OthersStay(Posters, t)
    BY <1>1, PosterMovesAlone
  <2>2. N' = N /\ N \in Nat /\ P \in Nat /\ P' \in Nat
    BY <2>1, CountsWorkersStay, FiniteThreads, FS_CardinalityType
  <2>3. CASE WaitRoom(t)
    <3>1. IsFull(q) /\ q' = q
      BY <2>3 DEF WaitRoom, queueVars
    <3>2. MaxItems - Size(q') = 0 /\ P' + N' \in Nat
      BY <1>0, <2>2, <3>1
    <3>. HIDE DEF P, N
    <3>. QED
      BY <3>2
  <2>4. CASE Push(t)
    <3>1. pc[t] = "post" /\ pc'[t] = "notify"
      BY <2>4, PushSlots, ThreadPlaces
    <3>2. P' = P - 1 /\ At(Posters, "wait_room")' \subseteq At(Posters, "wait_room")
      BY <2>1, <3>1, CountsOthersStay
    <3>3. Size(q') = IF Size(q) = MaxItems THEN MaxItems ELSE Size(q) + 1
      BY <2>4, PushContents, <1>0 DEF Pushed
    <3>4. MaxItems - Size(q) <= P + N
      BY <3>2 DEF RoomWanted
    <3>. HIDE DEF P, N
    <3>. QED
      BY <1>0, <2>2, <3>2, <3>3, <3>4
  <2>5. CASE Discard(t)
    <3>1. IsFull(q) /\ q' = q
      BY <2>5 DEF Discard
    <3>2. MaxItems - Size(q') = 0 /\ P' + N' \in Nat
      BY <1>0, <2>2, <3>1
    <3>. HIDE DEF P, N
    <3>. QED
      BY <3>2
  <2>6. CASE ~WaitRoom(t) /\ ~Push(t) /\ ~Discard(t)
    <3>1. q' = q /\ pc[t] # "post" /\ pc'[t] # "wait_room"
      BY <1>1, <2>6, ThreadPlaces
         DEF PosterMoves, PostStep, ClientStep, StartCall, RefuseCall, AwaitFlush, Release, DropPool,
             NotifyPush, Join, Shutdown, Goto, AfterPost, At, queueVars
    <3>2. P <= P' /\ At(Posters, "wait_room")' \subseteq At(Posters, "wait_room")
      BY <2>1, <3>1, CountsOthersStay
    <3>3. MaxItems - Size(q) <= P + N
      BY <3>2 DEF RoomWanted
    <3>. HIDE DEF P, N
    <3>. QED
      BY <1>0, <2>2, <3>1, <3>2, <3>3
  <2>. QED
    BY <2>3, <2>4, <2>5, <2>6
<1>2. ASSUME NEW w \in Workers, WorkerStep(w) PROVE MaxItems - Size(q') <= P' + N'
  <2>1. PostersStay /\ OthersStay(Workers, w)
    BY <1>2, WorkerMovesAlone
  <2>2. P <= P' /\ P \in Nat /\ P' \in Nat /\ N \in Nat /\ N' \in Nat
    BY <2>1, CountsPostersStay, CountsOthersStay
  <2>3. MaxItems - Size(q) <= P + N
    BY <2>1, CountsPostersStay DEF RoomWanted
  <2>4. CASE Dequeue(w)
    <3>1. pc[w] = "dequeue" /\ pc'[w] = "notify" /\ Size(q') = Size(q) - 1
      BY <2>4, <1>0, DequeueContents, ThreadPlaces
    <3>2. N' = N + 1
      BY <2>1, <3>1, CountsOthersStay
    <3>. HIDE DEF P, N
    <3>. QED
      BY <1>0, <2>2, <2>3, <3>1, <3>2
  <2>5. CASE NotifyPop(w)
    <3>1. q' = q /\ N' = N - 1
      BY <2>1, <2>5, NotifyPopWakes, CountsOthersStay DEF NotifyPop, queueVars
    <3>2. P + 1 <= P'
      BY <2>1, <2>5, NotifyPopWakes, CountsPostersStay
    <3>. HIDE DEF P, N
    <3>. QED
      BY <1>0, <2>2, <2>3, <3>1, <3>2
  <2>6. CASE ~Dequeue(w) /\ ~NotifyPop(w)
    <3>1. q' = q /\ pc[w] # "notify"
      BY <1>2, <2>6 DEF WorkerStep, WaitItem, SinkIt, Flush, Exit, queueVars
    <3>2. N <= N'
      BY <2>1, <3>1, CountsOthersStay
    <3>. HIDE DEF P, N
    <3>. QED
      BY <1>0, <2>2, <2>3, <3>1, <3>2
  <2>. QED
    BY <2>4, <2>5, <2>6
<1>3. ASSUME (\E t \in Threads : SpuriousWake(t)) \/ UNCHANGED vars
      PROVE  MaxItems - Size(q') <= P' + N'
  <2>1. WorkersStay /\ PostersStay /\ q' = q
    BY <1>3, WakesAlone DEF queueVars
  <2>2. P <= P' /\ P \in Nat /\ P' \in Nat /\ N' = N /\ N \in Nat
    BY <2>1, CountsPostersStay, CountsWorkersStay, FiniteThreads, FS_CardinalityType
  <2>3. MaxItems - Size(q) <= P + N
    BY <2>1, CountsPostersStay DEF RoomWanted
  <2>. HIDE DEF P, N
  <2>. QED
    BY <1>0, <2>1, <2>2, <2>3
<1>. QED
  BY <1>1, <1>2, <1>3, StepCases

\* Every item that a worker sleeps by has a thread on its way to it.
LEMMA ItemsWantedStep ==
  ASSUME IInv, ItemsWanted, [Next]_vars PROVE ItemsWanted'
<1>. DEFINE D == Cardinality(At(Workers, "dequeue"))
            N == Cardinality(At(Posters, "notify"))
<1>0. /\ Size(q) \in 0..MaxItems /\ Size(q') \in 0..MaxItems /\ MaxItems \in Nat
      /\ IsEmpty(q) => Size(q) = 0
  BY SizeType, SizeNext
<1>. SUFFICES ASSUME At(Workers, "wait_item")' # {}
              PROVE  Size(q') <= D' + N'
  BY DEF ItemsWanted
<1>1. ASSUME NEW t \in Posters, PosterMoves(t) PROVE Size(q') <= D' + N'
  <2>1. /\ WorkersStay /\ OthersStay(Posters, t)
    BY <1>1, PosterMovesAlone
  <2>2. D <= D' /\ D \in Nat /\ D' \in Nat /\ N \in Nat /\ N' \in Nat
    BY <2>1, CountsWorkersStay, CountsOthersStay
  <2>3. Size(q) <= D + N
    BY <2>1, CountsWorkersStay DEF ItemsWanted
  <2>4. CASE Push(t)
    <3>1. pc[t] = "post" /\ pc'[t] = "notify"
      BY <2>4, PushSlots, ThreadPlaces
    <3>2. N' = N + 1
      BY <2>1, <3>1, CountsOthersStay
    <3>3. Size(q') <= Size(q) + 1
      BY <2>4, PushContents, <1>0 DEF Pushed
    <3>. HIDE DEF D, N
    <3>. QED
      BY <1>0, <2>2, <2>3, <3>2, <3>3
  <2>5. CASE NotifyPush(t)
    <3>1. q' = q /\ pc'[t] # "notify"
      BY <2>5, NotifyPushWakes DEF NotifyPush, AfterPost, queueVars
    <3>2. N' = N - 1
      BY <2>1, <2>5, <3>1, NotifyPushWakes, CountsOthersStay
    <3>3. D + 1 <= D'
      BY <2>1, <2>5, NotifyPushWakes, CountsWorkersStay
    <3>. HIDE DEF D, N
    <3>. QED
      BY <1>0, <2>2, <2>3, <3>1, <3>2, <3>3
  <2>6. CASE ~Push(t) /\ ~NotifyPush(t)
    <3>1. q' = q
      BY <1>1, <2>6
         DEF PosterMoves, PostStep, ClientStep, StartCall, RefuseCall, AwaitFlush, Release,
             WaitRoom, Discard, Join, Shutdown, queueVars
    <3>2. pc[t] # "notify"
      BY <1>1, <2>6
         DEF PosterMoves, PostStep, ClientStep, StartCall, RefuseCall, AwaitFlush, Release,
             WaitRoom, Discard, Join, Shutdown
    <3>3. N <= N'
      BY <2>1, <3>2, CountsOthersStay
    <3>. HIDE DEF D, N
    <3>. QED
      BY <1>0, <2>2, <2>3, <3>1, <3>3
  <2>. QED
    BY <2>4, <2>5, <2>6
<1>2. ASSUME NEW w \in Workers, WorkerStep(w) PROVE Size(q') <= D' + N'
  <2>1. PostersStay /\ OthersStay(Workers, w)
    BY <1>2, WorkerMovesAlone
  <2>2. N' = N /\ N \in Nat /\ D \in Nat /\ D' \in Nat
    BY <2>1, CountsPostersStay, CountsOthersStay, FiniteThreads, FS_CardinalityType
  <2>3. CASE WaitItem(w)
    <3>1. Size(q') = 0
      BY <1>0, <2>3 DEF WaitItem, queueVars
    <3>2. D' + N' \in Nat
      BY <2>2
    <3>. HIDE DEF D, N
    <3>. QED
      BY <3>1, <3>2
  <2>4. CASE Dequeue(w)
    <3>1. pc[w] = "dequeue" /\ pc'[w] = "notify" /\ Size(q') = Size(q) - 1
      BY <2>4, <1>0, DequeueContents, ThreadPlaces
    <3>2. D' = D - 1 /\ At(Workers, "wait_item")' \subseteq At(Workers, "wait_item")
      BY <2>1, <3>1, CountsOthersStay
    <3>3. Size(q) <= D + N
      BY <3>2 DEF ItemsWanted
    <3>. HIDE DEF D, N
    <3>. QED
      BY <1>0, <2>2, <3>1, <3>2, <3>3
  <2>5. CASE ~WaitItem(w) /\ ~Dequeue(w)
    <3>1. q' = q /\ pc[w] # "dequeue" /\ pc'[w] # "wait_item"
      BY <1>2, <2>5, ThreadPlaces, NotifyPopWakes
         DEF WorkerStep, NotifyPop, SinkIt, Flush, Exit, Handle, Goto, queueVars
    <3>2. D <= D' /\ At(Workers, "wait_item")' \subseteq At(Workers, "wait_item")
      BY <2>1, <3>1, CountsOthersStay
    <3>3. Size(q) <= D + N
      BY <3>2 DEF ItemsWanted
    <3>. HIDE DEF D, N
    <3>. QED
      BY <1>0, <2>2, <3>1, <3>2, <3>3
  <2>. QED
    BY <2>3, <2>4, <2>5
<1>3. ASSUME (\E t \in Threads : SpuriousWake(t)) \/ UNCHANGED vars
      PROVE  Size(q') <= D' + N'
  <2>1. WorkersStay /\ PostersStay /\ q' = q
    BY <1>3, WakesAlone DEF queueVars
  <2>2. D <= D' /\ D \in Nat /\ D' \in Nat /\ N' = N /\ N \in Nat
    BY <2>1, CountsPostersStay, CountsWorkersStay, FiniteThreads, FS_CardinalityType
  <2>3. Size(q) <= D + N
    BY <2>1, CountsWorkersStay DEF ItemsWanted
  <2>. HIDE DEF D, N
  <2>. QED
    BY <1>0, <2>1, <2>2, <2>3
<1>. QED
  BY <1>1, <1>2, <1>3, StepCases

\* No wakeup is lost, although each side notifies after it has released the
\* mutex: by then others may have taken the room or the item it tells of.
THEOREM WakeupsKept == Spec => []NoLostWakeup
<1>1. Init => RoomWanted /\ ItemsWanted
  <2>. SUFFICES ASSUME Init PROVE RoomWanted /\ ItemsWanted
    OBVIOUS
  <2>1. At(Posters, "wait_room") = {} /\ At(Workers, "wait_item") = {}
    BY ThreadKinds DEF Init, At
  <2>. QED
    BY <2>1 DEF RoomWanted, ItemsWanted
<1>2. RoomWanted /\ ItemsWanted => NoLostWakeup
  BY DEF RoomWanted, ItemsWanted, NoLostWakeup
<1>. QED
  BY <1>1, <1>2, RoomWantedStep, ItemsWantedStep, Invariance, PTL DEF Spec

-----------------------------------------------------------------------------
\* Counting the items of a kind in the contents.
Positions(s, X) == {i \in 1..Len(s) : s[i] \in X}

\* The first item of all when m comes last: what an overrun drops.
First(s, m) == IF Len(s) = 0 THEN m ELSE s[1]

\* A sequence has finitely many positions.
LEMMA PositionsFinite ==
  ASSUME NEW S, NEW s \in Seq(S), NEW X
  PROVE  IsFiniteSet(Positions(s, X)) /\ Cardinality(Positions(s, X)) \in Nat
<1>1. Positions(s, X) \subseteq 1..Len(s) /\ IsFiniteSet(1..Len(s))
  BY FS_Interval DEF Positions
<1>. QED
  BY <1>1, FS_Subset, FS_CardinalityType

\* Appending adds one position or none.
LEMMA CountAppend ==
  ASSUME NEW S, NEW s \in Seq(S), NEW m \in S, NEW X
  PROVE  Cardinality(Positions(Append(s, m), X)) =
           IF m \in X THEN Cardinality(Positions(s, X)) + 1 ELSE Cardinality(Positions(s, X))
<1>. DEFINE n == Len(s) + 1
            A == Positions(s, X)
            B == Positions(Append(s, m), X)
<1>1. Len(Append(s, m)) = n /\ Append(s, m)[n] = m /\ \A i \in 1..Len(s) : Append(s, m)[i] = s[i]
  OBVIOUS
<1>2. n \notin A /\ (n \in B <=> m \in X) /\ A \ {n} = B \ {n}
  BY <1>1 DEF Positions
<1>3. IsFiniteSet(A)
  BY PositionsFinite
<1>. HIDE DEF A, B
<1>. QED
  BY <1>2, <1>3, CountChange DEF A, B

\* Taking the head removes one position or none.
LEMMA CountTail ==
  ASSUME NEW S, NEW s \in Seq(S), Len(s) # 0, NEW X
  PROVE  Cardinality(Positions(Tail(s), X)) =
           IF s[1] \in X THEN Cardinality(Positions(s, X)) - 1 ELSE Cardinality(Positions(s, X))
<1>. DEFINE A == Positions(s, X)
            B == Positions(Tail(s), X)
            C == A \ {1}
            f == [i \in B |-> i + 1]
<1>1. Tail(s) \in Seq(S) /\ Len(Tail(s)) = Len(s) - 1 /\ \A i \in 1..Len(Tail(s)) : Tail(s)[i] = s[i + 1]
  OBVIOUS
<1>2. f \in [B -> C]
  BY <1>1 DEF Positions
<1>3. \A i, j \in B : f[i] = f[j] => i = j
  BY DEF Positions
<1>4. ASSUME NEW k \in C PROVE \E i \in B : f[i] = k
  <2>1. k - 1 \in B /\ f[k - 1] = k
    BY <1>1, <1>4 DEF Positions
  <2>. QED
    BY <2>1
<1>5. f \in Bijection(B, C)
  BY <1>2, <1>3, <1>4 DEF Bijection, Injection, Surjection, IsInjective
<1>6. IsFiniteSet(A) /\ IsFiniteSet(B) /\ (1 \in A <=> s[1] \in X)
  <2>1. 1 \in A <=> s[1] \in X
    BY DEF Positions
  <2>. QED
    BY <1>1, <2>1, PositionsFinite
<1>. HIDE DEF A, B, C, f
<1>7. Cardinality(C) = Cardinality(B)
  BY <1>5, <1>6, FS_Bijection DEF ExistsBijection
<1>8. Cardinality(C) = IF 1 \in A THEN Cardinality(A) - 1 ELSE Cardinality(A)
  BY <1>6, FS_RemoveElement DEF C
<1>. QED
  BY <1>6, <1>7, <1>8 DEF A, B

\* What a push changes in the count.
Gain(s, m, X) ==
  (IF m \in X THEN 1 ELSE 0) - (IF Len(s) = MaxItems /\ First(s, m) \in X THEN 1 ELSE 0)

\* A bounded push gains what it adds and loses what it overruns.
LEMMA CountPushed ==
  ASSUME NEW S, NEW s \in Seq(S), NEW m \in S, NEW X
  PROVE  Cardinality(Positions(Pushed(s, m), X)) = Cardinality(Positions(s, X)) + Gain(s, m, X)
<1>. DEFINE r == Append(s, m)
<1>1. r \in Seq(S) /\ Len(r) # 0 /\ r[1] = First(s, m)
  BY DEF First
<1>2. Cardinality(Positions(r, X)) =
        IF m \in X THEN Cardinality(Positions(s, X)) + 1 ELSE Cardinality(Positions(s, X))
  BY CountAppend
<1>. HIDE DEF r
<1>3. Cardinality(Positions(Tail(r), X)) =
        IF r[1] \in X THEN Cardinality(Positions(r, X)) - 1 ELSE Cardinality(Positions(r, X))
  BY <1>1, CountTail
<1>4. Cardinality(Positions(s, X)) \in Nat
  BY PositionsFinite
<1>. QED
  BY <1>1, <1>2, <1>3, <1>4 DEF Pushed, Gain, r

\* The same of the queue's contents in a post.
LEMMA PushCounts ==
  ASSUME IInv, NEW t \in Posters, Push(t), NEW X
  PROVE  /\ Cardinality(Positions(Contents(q), X)) \in Nat
         /\ Cardinality(Positions(Contents(q'), X)) =
              Cardinality(Positions(Contents(q), X)) + Gain(Contents(q), held[t], X)
<1>1. /\ Contents(q) \in Seq(Items \cup {NoItem}) /\ held[t] \in Items \cup {NoItem}
      /\ Contents(q') = Pushed(Contents(q), held[t])
  BY PushContents
<1>. QED
  BY <1>1, CountPushed, PositionsFinite

-----------------------------------------------------------------------------
\* Terminate messages come only after the last owner has gone, last in the
\* queue, and as many as there are workers.
TerminatesWait == owners # {} => terminates = 0
TerminatesIn(s) == Positions(s, {Terminate})
HoldTerminate == {w \in Workers : held[w] = Terminate}
Taken == HoldTerminate # {} \/ At(Workers, "exited") # {}
TerminatesLast ==
  /\ \A i, j \in 1..Size(q) : i < j /\ Contents(q)[i] = Terminate => Contents(q)[j] = Terminate
  /\ Taken => \A i \in 1..Size(q) : Contents(q)[i] = Terminate
LoopInv ==
  \A t \in Posters : held[t] = Terminate =>
    /\ pc[t] \in {"post", "wait_room", "notify", "join"}
    /\ pc[t] \in {"post", "wait_room"} => terminates < Cardinality(Workers)
    /\ pc[t] = "notify" => terminates <= Cardinality(Workers)
    /\ pc[t] = "join" => terminates = Cardinality(Workers)
Kept ==
  terminates = Cardinality(TerminatesIn(Contents(q))) + Cardinality(HoldTerminate)
               + Cardinality(At(Workers, "exited"))
TermInv == TerminatesWait /\ TerminatesLast /\ LoopInv /\ Kept

\* The contents as a sequence of the items.
LEMMA ContentsType ==
  ASSUME IInv
  PROVE  /\ Contents(q) \in Seq(Items \cup {NoItem}) /\ Len(Contents(q)) = Size(q)
         /\ Size(q) \in 0..MaxItems /\ MaxItems \in Nat
<1>1. q \in QueueType(MaxItems, Items) /\ MaxItems \in Nat
  BY PoolAssumption DEF IInv, PoolTypeOK
<1>. QED
  BY <1>1, ContentsSeq, SizeBounds

\* What the counting of terminate messages and workers counts is finite.
LEMMA CountTypes ==
  ASSUME IInv
  PROVE  /\ IsFiniteSet(TerminatesIn(Contents(q))) /\ Cardinality(TerminatesIn(Contents(q))) \in Nat
         /\ IsFiniteSet(HoldTerminate) /\ Cardinality(HoldTerminate) \in Nat
         /\ IsFiniteSet(At(Workers, "exited")) /\ Cardinality(At(Workers, "exited")) \in Nat
         /\ IsFiniteSet(Workers) /\ Cardinality(Workers) \in Nat /\ Cardinality(Workers) # 0
<1>1. IsFiniteSet(HoldTerminate)
  BY FiniteThreads, FS_Subset DEF HoldTerminate
<1>. QED
  BY <1>1, ContentsType, PositionsFinite, FiniteThreads, FS_CardinalityType, FS_EmptySet, PoolAssumption
     DEF TerminatesIn

\* Without terminate messages nobody has one, and none is queued.
LEMMA NoneYet ==
  ASSUME IInv, TermInv, terminates = 0
  PROVE  /\ HoldTerminate = {} /\ At(Workers, "exited") = {} /\ ~Taken
         /\ \A i \in 1..Len(Contents(q)) : Contents(q)[i] # Terminate
         /\ Cardinality(TerminatesIn(Contents(q))) = 0
<1>1. /\ Cardinality(TerminatesIn(Contents(q))) = 0 /\ Cardinality(HoldTerminate) = 0
      /\ Cardinality(At(Workers, "exited")) = 0
  BY CountTypes DEF TermInv, Kept
<1>2. TerminatesIn(Contents(q)) = {} /\ HoldTerminate = {} /\ At(Workers, "exited") = {}
  BY <1>1, CountTypes, FS_EmptySet
<1>. QED
  BY <1>1, <1>2 DEF TerminatesIn, Positions, Taken

\* A thread that posts a message of a call owns the pool.
LEMMA PosterOwns ==
  ASSUME Ownership, NEW t \in Posters, pc[t] # "idle", held[t] # Terminate
  PROVE  owners # {}
BY DEF Ownership, OwnersInCall, InCall, Posters

\* Only a push of terminate counts, and it appends.
LEMMA TerminatesCounted ==
  ASSUME IInv, Ownership, [Next]_vars
  PROVE  \/ terminates' = terminates
         \/ \E t \in Posters : /\ Push(t) /\ held[t] = Terminate /\ ~IsFull(q)
                               /\ terminates' = terminates + 1 /\ owners = {} /\ owners' = {}
<1>1. ASSUME NEW t \in Posters, PosterMoves(t), ~Push(t) PROVE terminates' = terminates
  <2>1. CASE Discard(t)
    BY <2>1 DEF Discard, PolicyOf, CountTerminate
  <2>2. CASE ~Discard(t)
    BY <1>1, <2>2
       DEF PosterMoves, PostStep, ClientStep, StartCall, RefuseCall, AwaitFlush, Release,
           WaitRoom, NotifyPush, Join, Shutdown, poolVars
  <2>. QED
    BY <2>1, <2>2
<1>2. ASSUME NEW t \in Posters, Push(t)
      PROVE  \/ terminates' = terminates
             \/ /\ held[t] = Terminate /\ ~IsFull(q) /\ terminates' = terminates + 1
                /\ owners = {} /\ owners' = {}
  BY <1>2 DEF Push, MayPush, PolicyOf, CountTerminate, Ownership, LastOwnerDestroys
<1>3. ASSUME NEW w \in Workers, WorkerStep(w) PROVE terminates' = terminates
  BY <1>3 DEF WorkerStep, WaitItem, Dequeue, NotifyPop, SinkIt, Flush, Exit, poolVars
<1>4. ASSUME (\E t \in Threads : SpuriousWake(t)) \/ UNCHANGED vars PROVE terminates' = terminates
  BY <1>4, WakesAlone DEF poolVars
<1>. QED
  BY <1>1, <1>2, <1>3, <1>4, StepCases

\* Nobody takes the pool again once its last owner has dropped it.
LEMMA OwnersGone ==
  ASSUME [Next]_vars, owners = {} PROVE owners' = {}
<1>1. ASSUME NEW t \in Posters, PosterMoves(t) PROVE owners' = {}
  BY <1>1 DEF PosterMoves, PostStep, ClientStep, StartCall, RefuseCall, AwaitFlush, Release, DropPool,
              WaitRoom, Push, Discard, NotifyPush, Join, Shutdown, poolVars
<1>2. ASSUME NEW w \in Workers, WorkerStep(w) PROVE owners' = {}
  BY <1>2 DEF WorkerStep, WaitItem, Dequeue, NotifyPop, SinkIt, Flush, Exit, poolVars
<1>3. ASSUME (\E t \in Threads : SpuriousWake(t)) \/ UNCHANGED vars PROVE owners' = {}
  BY <1>3 DEF SpuriousWake, poolVars, vars
<1>. QED
  BY <1>1, <1>2, <1>3, StepCases

\* While somebody owns the pool there are no terminate messages.
LEMMA TerminatesWaitStep ==
  ASSUME IInv, Ownership, TerminatesWait, [Next]_vars PROVE TerminatesWait'
BY TerminatesCounted, OwnersGone DEF TerminatesWait

\* The counts of HoldTerminate and of the exited workers, by what the worker
\* that moves holds and where it goes.
LEMMA WorkersStayTerminates ==
  ASSUME IInv, WorkersStay
  PROVE  HoldTerminate' = HoldTerminate /\ At(Workers, "exited")' = At(Workers, "exited")
BY DEF WorkersStay, HoldTerminate, At

\* One worker's move changes the counts by at most one.
LEMMA WorkerTerminates ==
  ASSUME IInv, NEW w \in Workers, OthersStay(Workers, w)
  PROVE  /\ Cardinality(HoldTerminate') =
              CASE held[w] = Terminate /\ held'[w] # Terminate -> Cardinality(HoldTerminate) - 1
                [] held[w] # Terminate /\ held'[w] = Terminate -> Cardinality(HoldTerminate) + 1
                [] OTHER -> Cardinality(HoldTerminate)
         /\ Cardinality(At(Workers, "exited")') =
              CASE pc[w] = "exited" /\ pc'[w] # "exited" -> Cardinality(At(Workers, "exited")) - 1
                [] pc[w] # "exited" /\ pc'[w] = "exited" -> Cardinality(At(Workers, "exited")) + 1
                [] OTHER -> Cardinality(At(Workers, "exited"))
<1>1. HoldTerminate \ {w} = HoldTerminate' \ {w}
  BY DEF HoldTerminate, OthersStay
<1>2. (w \in HoldTerminate <=> held[w] = Terminate) /\ (w \in HoldTerminate' <=> held'[w] = Terminate)
  BY DEF HoldTerminate
<1>3. IsFiniteSet(HoldTerminate)
  BY CountTypes
<1>. DEFINE A == HoldTerminate
            B == HoldTerminate'
<1>. HIDE DEF A, B
<1>4. Cardinality(B) = CASE w \in A /\ w \notin B -> Cardinality(A) - 1
                         [] w \notin A /\ w \in B -> Cardinality(A) + 1
                         [] OTHER -> Cardinality(A)
  BY <1>1, <1>3, CountChange DEF A, B
<1>5. Cardinality(HoldTerminate') =
              CASE held[w] = Terminate /\ held'[w] # Terminate -> Cardinality(HoldTerminate) - 1
                [] held[w] # Terminate /\ held'[w] = Terminate -> Cardinality(HoldTerminate) + 1
                [] OTHER -> Cardinality(HoldTerminate)
  BY <1>2, <1>4 DEF A, B
<1>. QED
  BY <1>5, CountsOthersStay

\* Every terminate message is in the queue, held by a worker, or has ended
\* one.
LEMMA KeptStep ==
  ASSUME IInv, Ownership, HoldInv, TermInv, [Next]_vars PROVE Kept'
<1>. DEFINE Q == Cardinality(TerminatesIn(Contents(q)))
            H == Cardinality(HoldTerminate)
            E == Cardinality(At(Workers, "exited"))
<1>0. /\ terminates = Q + H + E /\ Q \in Nat /\ H \in Nat /\ E \in Nat /\ terminates \in Nat
  BY CountTypes DEF TermInv, Kept, IInv, PoolTypeOK
<1>. SUFFICES terminates' = Q' + H' + E'
  BY DEF Kept
<1>1. ASSUME NEW t \in Posters, PosterMoves(t) PROVE terminates' = Q' + H' + E'
  <2>1. H' = H /\ E' = E
    BY <1>1, PosterMovesAlone, WorkersStayTerminates
  <2>2. CASE Push(t)
    <3>. DEFINE s == Contents(q)
    <3>1. /\ s \in Seq(Items \cup {NoItem}) /\ held[t] \in Items /\ Contents(q') = Pushed(s, held[t])
          /\ Len(s) = Size(q) /\ (IsFull(q) <=> Size(q) = MaxItems)
      BY <2>2, PushContents
    <3>2. Q' = Q + (IF held[t] \in {Terminate} THEN 1 ELSE 0)
                 - (IF Len(s) = MaxItems /\ First(s, held[t]) \in {Terminate} THEN 1 ELSE 0)
      BY <2>2, PushCounts, CountTypes DEF TerminatesIn, Gain
    <3>3. CASE held[t] = Terminate
      <4>1. Len(s) # MaxItems /\ terminates' = terminates + 1
        BY <2>2, <3>1, <3>3 DEF Push, MayPush, PolicyOf, CountTerminate
      <4>. HIDE DEF Q, H, E, s
      <4>. QED
        BY <1>0, <2>1, <3>2, <3>3, <4>1
    <3>4. CASE held[t] # Terminate
      <4>1. terminates' = terminates /\ owners # {}
        BY <2>2, <3>4, PosterOwns DEF Push, CountTerminate
      <4>2. \A i \in 1..Len(s) : s[i] # Terminate
        BY <4>1, NoneYet DEF TermInv, TerminatesWait
      <4>3. First(s, held[t]) # Terminate
        BY <3>1, <3>4, <4>2 DEF First
      <4>. HIDE DEF Q, H, E, s
      <4>. QED
        BY <1>0, <2>1, <3>2, <3>4, <4>1, <4>3
    <3>. QED
      BY <3>3, <3>4
  <2>3. CASE ~Push(t)
    <3>1. q' = q /\ terminates' = terminates
      BY <1>1, <2>3
         DEF PosterMoves, PostStep, ClientStep, StartCall, RefuseCall, AwaitFlush, Release, WaitRoom,
             Discard, CountTerminate, PolicyOf, NotifyPush, Join, Shutdown, queueVars, poolVars
    <3>2. Q' = Q
      BY <3>1
    <3>. HIDE DEF Q, H, E
    <3>. QED
      BY <1>0, <2>1, <3>1, <3>2
  <2>. QED
    BY <2>2, <2>3
<1>2. ASSUME NEW w \in Workers, WorkerStep(w) PROVE terminates' = Q' + H' + E'
  <2>1. OthersStay(Workers, w) /\ terminates' = terminates
    BY <1>2, WorkerMovesAlone DEF WorkerStep, WaitItem, Dequeue, NotifyPop, SinkIt, Flush, Exit, poolVars
  <2>2. /\ H' = CASE held[w] = Terminate /\ held'[w] # Terminate -> H - 1
                  [] held[w] # Terminate /\ held'[w] = Terminate -> H + 1
                  [] OTHER -> H
        /\ E' = CASE pc[w] = "exited" /\ pc'[w] # "exited" -> E - 1
                  [] pc[w] # "exited" /\ pc'[w] = "exited" -> E + 1
                  [] OTHER -> E
    BY <2>1, WorkerTerminates
  <2>3. CASE Dequeue(w)
    <3>. DEFINE s == Contents(q)
    <3>1. /\ s \in Seq(Items \cup {NoItem}) /\ Len(s) # 0 /\ Contents(q') = Tail(s)
          /\ pc[w] = "dequeue" /\ pc'[w] = "notify" /\ held'[w] = s[1]
      BY <2>3, DequeueContents, ThreadPlaces
    <3>2. Q' = IF s[1] \in {Terminate} THEN Q - 1 ELSE Q
      BY <3>1, CountTail DEF TerminatesIn
    <3>3. held[w] # Terminate
      BY <3>1, ItemKinds DEF HoldInv, WorkersHold
    <3>. HIDE DEF Q, H, E, s
    <3>. QED
      BY <1>0, <2>1, <2>2, <3>1, <3>2, <3>3
  <2>4. CASE ~Dequeue(w)
    <3>1. Q' = Q
      BY <1>2, <2>4 DEF WorkerStep, WaitItem, NotifyPop, SinkIt, Flush, Exit, queueVars
    <3>2. CASE Exit(w)
      <4>1. held[w] = Terminate /\ held'[w] # Terminate /\ pc[w] # "exited" /\ pc'[w] = "exited"
        BY <3>2, ThreadPlaces, ItemKinds DEF Exit, Goto
      <4>. HIDE DEF Q, H, E
      <4>. QED
        BY <1>0, <2>1, <2>2, <3>1, <4>1
    <3>3. CASE SinkIt(w) \/ Flush(w)
      <4>1. held[w] # Terminate /\ held'[w] # Terminate /\ pc[w] # "exited" /\ pc'[w] # "exited"
        BY <3>3, ThreadPlaces, ItemKinds DEF SinkIt, Flush, Handle, Goto
      <4>. HIDE DEF Q, H, E
      <4>. QED
        BY <1>0, <2>1, <2>2, <3>1, <4>1
    <3>4. CASE WaitItem(w) \/ NotifyPop(w)
      <4>1. held'[w] = held[w] /\ pc[w] # "exited" /\ pc'[w] # "exited"
        BY <3>4, ThreadPlaces, NotifyPopWakes DEF WaitItem, NotifyPop, Goto
      <4>. HIDE DEF Q, H, E
      <4>. QED
        BY <1>0, <2>1, <2>2, <3>1, <4>1
    <3>. QED
      BY <1>2, <2>4, <3>2, <3>3, <3>4 DEF WorkerStep
  <2>. QED
    BY <2>3, <2>4
<1>3. ASSUME (\E t \in Threads : SpuriousWake(t)) \/ UNCHANGED vars PROVE terminates' = Q' + H' + E'
  <2>1. H' = H /\ E' = E /\ q' = q /\ terminates' = terminates
    BY <1>3, WakesAlone, WorkersStayTerminates DEF queueVars, poolVars
  <2>2. Q' = Q
    BY <2>1
  <2>. HIDE DEF Q, H, E
  <2>. QED
    BY <1>0, <2>1, <2>2
<1>. QED
  BY <1>1, <1>2, <1>3, StepCases

\* Nobody gets a message behind a terminate message.
LEMMA TerminatesLastStep ==
  ASSUME IInv, Ownership, HoldInv, TermInv, [Next]_vars PROVE TerminatesLast'
<1>. DEFINE s == Contents(q)
<1>0. s \in Seq(Items \cup {NoItem}) /\ Len(s) = Size(q)
  BY ContentsType
<1>a. \A i, j \in 1..Len(s) : i < j /\ s[i] = Terminate => s[j] = Terminate
  BY <1>0 DEF TermInv, TerminatesLast
<1>b. Taken => \A i \in 1..Len(s) : s[i] = Terminate
  BY <1>0 DEF TermInv, TerminatesLast
<1>1. ASSUME NEW t \in Posters, Push(t) PROVE TerminatesLast'
  <2>. DEFINE r == Contents(q')
              m == held[t]
  <2>1. /\ r = Pushed(s, m) /\ Len(r) = Size(q') /\ m \in Items
        /\ IsFull(q) <=> Len(s) = MaxItems
    BY <1>1, PushContents
  <2>2. Taken' = Taken
    BY <1>1, PosterMovesAlone, WorkersStayTerminates DEF PosterMoves, PostStep, Taken
  <2>3. CASE m = Terminate
    <3>1. r = Append(s, Terminate)
      BY <1>1, <2>1, <2>3 DEF Push, MayPush, PolicyOf, Pushed
    <3>. HIDE DEF s, r
    <3>2. Len(r) = Len(s) + 1 /\ r[Len(s) + 1] = Terminate /\ \A i \in 1..Len(s) : r[i] = s[i]
      BY <1>0, <3>1, ItemKinds
    <3>3. \A i, j \in 1..Len(r) : i < j /\ r[i] = Terminate => r[j] = Terminate
      BY <1>0, <1>a, <3>2
    <3>4. Taken => \A i \in 1..Len(r) : r[i] = Terminate
      BY <1>0, <1>b, <3>2
    <3>. QED
      BY <2>1, <2>2, <3>3, <3>4 DEF TerminatesLast, r
  <2>4. CASE m # Terminate
    <3>1. owners # {}
      BY <1>1, <2>4, PosterOwns DEF Push
    <3>2. ~Taken /\ \A i \in 1..Len(s) : s[i] # Terminate
      BY <3>1, NoneYet DEF TermInv, TerminatesWait
    <3>. HIDE DEF s
    <3>3. \A i \in 1..Len(Append(s, m)) : Append(s, m)[i] # Terminate
      BY <1>0, <2>1, <2>4, <3>2
    <3>4. \A i \in 1..Len(Tail(Append(s, m))) : Tail(Append(s, m))[i] = Append(s, m)[i + 1]
                                                /\ i + 1 \in 1..Len(Append(s, m))
      BY <1>0, <2>1
    <3>5. \A i \in 1..Len(r) : r[i] # Terminate
      BY <2>1, <3>3, <3>4 DEF Pushed
    <3>. QED
      BY <2>1, <2>2, <3>2, <3>5 DEF TerminatesLast, r
  <2>. QED
    BY <2>3, <2>4
<1>2. ASSUME NEW w \in Workers, Dequeue(w) PROVE TerminatesLast'
  <2>. DEFINE r == Contents(q')
  <2>1. /\ r = Tail(s) /\ Len(r) = Size(q') /\ Len(s) # 0 /\ held'[w] = s[1] /\ pc'[w] = "notify"
    BY <1>2, DequeueContents, ThreadPlaces
  <2>2. OthersStay(Workers, w)
    BY <1>2, WorkerMovesAlone DEF WorkerStep
  <2>3. Taken' => Taken \/ s[1] = Terminate
    BY <2>1, <2>2 DEF Taken, HoldTerminate, At, OthersStay
  <2>. HIDE DEF s, r
  <2>4. Len(r) = Len(s) - 1 /\ \A i \in 1..Len(r) : r[i] = s[i + 1] /\ i + 1 \in 1..Len(s)
    BY <1>0, <2>1
  <2>5. \A i, j \in 1..Len(r) : i < j /\ r[i] = Terminate => r[j] = Terminate
    BY <1>a, <2>4
  <2>6. Taken' => \A i \in 1..Len(r) : r[i] = Terminate
    <3>1. s[1] = Terminate => \A i \in 1..Len(r) : s[i + 1] = Terminate
      BY <1>0, <1>a, <2>1, <2>4
    <3>. QED
      BY <1>b, <2>3, <2>4, <3>1
  <2>. QED
    BY <2>1, <2>5, <2>6 DEF TerminatesLast, r
<1>3. ASSUME \A t \in Posters : ~Push(t), \A w \in Workers : ~Dequeue(w) PROVE TerminatesLast'
  <2>1. q' = q
    BY <1>3, OthersStutter
  <2>2. Taken' => Taken
    <3>1. ASSUME NEW t \in Posters, PosterMoves(t) PROVE Taken' => Taken
      BY <3>1, PosterMovesAlone, WorkersStayTerminates DEF Taken
    <3>2. ASSUME NEW w \in Workers, WorkerStep(w) PROVE Taken' => Taken
      <4>1. OthersStay(Workers, w)
        BY <3>2, WorkerMovesAlone
      <4>2. held'[w] = Terminate \/ pc'[w] = "exited" => held[w] = Terminate
        BY <1>3, <3>2, ThreadPlaces, ItemKinds, NotifyPopWakes
           DEF WorkerStep, WaitItem, NotifyPop, SinkIt, Flush, Exit, Handle, Goto
      <4>. QED
        BY <4>1, <4>2 DEF Taken, HoldTerminate, At, OthersStay
    <3>3. ASSUME (\E t \in Threads : SpuriousWake(t)) \/ UNCHANGED vars PROVE Taken' => Taken
      BY <3>3, WakesAlone, WorkersStayTerminates DEF Taken
    <3>. QED
      BY <3>1, <3>2, <3>3, StepCases
  <2>. QED
    BY <2>1, <2>2 DEF TermInv, TerminatesLast
<1>. QED
  BY <1>1, <1>2, <1>3

\* The destructor posts one terminate message for each worker, then joins.
LEMMA LoopStep ==
  ASSUME IInv, Ownership, TermInv, [Next]_vars PROVE LoopInv'
<1>. DEFINE W == Cardinality(Workers)
<1>0. W \in Nat /\ W # 0 /\ terminates \in Nat
  BY CountTypes DEF IInv, PoolTypeOK
<1>. HIDE DEF W
<1>. DEFINE OK(l, n) == /\ l \in {"post", "wait_room", "notify", "join"}
                        /\ l \in {"post", "wait_room"} => n < W
                        /\ l = "notify" => n <= W
                        /\ l = "join" => n = W
<1>a. \A t \in Posters : held[t] = Terminate => OK(pc[t], terminates)
  BY DEF TermInv, LoopInv, W
<1>. SUFFICES ASSUME NEW t \in Posters, held'[t] = Terminate
              PROVE  OK(pc'[t], terminates')
  BY DEF LoopInv, W
<1>b. ASSUME terminates' # terminates PROVE \E u \in Posters : Push(u) /\ held[u] = Terminate /\ terminates' = terminates + 1
  BY <1>b, TerminatesCounted
<1>1. CASE PosterMoves(t)
  <2>1. CASE held[t] = Terminate
    <3>1. owners = {} /\ OK(pc[t], terminates) /\ pc[t] \in {"post", "wait_room", "notify", "join"}
      BY <1>a, <2>1 DEF Ownership, LastOwnerDestroys
    <3>2. CASE Push(t)
      <4>1. pc'[t] = "notify" /\ terminates' = terminates + 1 /\ pc[t] = "post"
        BY <2>1, <3>2, PushSlots, ThreadPlaces DEF Push, CountTerminate
      <4>. QED
        BY <1>0, <3>1, <4>1
    <3>3. CASE WaitRoom(t)
      <4>1. pc'[t] = "wait_room" /\ terminates' = terminates /\ pc[t] = "post"
        BY <3>3, ThreadPlaces DEF WaitRoom, Goto, poolVars
      <4>. QED
        BY <1>0, <3>1, <4>1
    <3>4. CASE NotifyPush(t)
      <4>1. /\ pc[t] = "notify" /\ terminates' = terminates
            /\ pc'[t] = IF terminates < W THEN "post" ELSE "join"
        BY <2>1, <3>4, NotifyPushWakes DEF NotifyPush, AfterPost, poolVars, W
      <4>. QED
        BY <1>0, <3>1, <4>1
    <3>5. ~Join(t)
      BY <1>1, ItemKinds, ThreadPlaces DEF Join
    <3>6. ~Discard(t)
      BY <2>1 DEF Discard, PolicyOf
    <3>7. ~(t \in Clients /\ ClientStep(t)) /\ ~(t = Main /\ Shutdown)
      BY <3>1 DEF ClientStep, StartCall, RefuseCall, AwaitFlush, Release, Shutdown
    <3>. QED
      BY <1>1, <3>2, <3>3, <3>4, <3>5, <3>6, <3>7 DEF PosterMoves, PostStep
  <2>2. CASE held[t] # Terminate
    <3>1. DropPool(t) /\ owners = {t} /\ terminates' = terminates
      <4>1. ASSUME NEW kind \in Kinds[t], t \in Clients, StartCall(t, kind) PROVE FALSE
        <5>1. held'[t] = [kind |-> kind, from |-> t, seq |-> calls[t] + 1]
          BY <4>1, ThreadPlaces, ThreadKinds DEF StartCall
        <5>2. kind \in {"log", "flush"}
          BY <4>1, PoolAssumption
        <5>3. held'[t].kind = kind /\ Terminate.kind = "terminate"
          BY <5>1 DEF Terminate
        <5>. QED
          BY <5>2, <5>3
      <4>2. ASSUME t \in Clients, RefuseCall(t) \/ AwaitFlush(t) PROVE FALSE
        BY <2>2, <4>2 DEF RefuseCall, AwaitFlush
      <4>3. ASSUME PostStep(t) PROVE FALSE
        BY <2>2, <4>3, ThreadPlaces, ItemKinds DEF PostStep, WaitRoom, Push, Discard, NotifyPush, Join
      <4>4. CASE (t \in Clients /\ Release(t)) \/ (t = Main /\ Shutdown)
        BY <4>4, <2>2, ThreadPlaces, ItemKinds DEF Release, Shutdown, DropPool
      <4>. QED
        BY <1>1, <4>1, <4>2, <4>3, <4>4 DEF PosterMoves, ClientStep
    <3>2. pc'[t] = "post" /\ terminates' = 0
      BY <3>1, ThreadPlaces DEF DropPool, Goto, TermInv, TerminatesWait
    <3>. QED
      BY <1>0, <3>2
  <2>. QED
    BY <2>1, <2>2
<1>2. CASE ~PosterMoves(t)
  <2>1. held[t] = Terminate /\ SamePlace(t)
    <3>1. ASSUME NEW u \in Posters, PosterMoves(u) PROVE held[t] = Terminate /\ SamePlace(t)
      BY <1>2, <3>1, PosterMovesAlone DEF OthersStay, SamePlace
    <3>2. ASSUME PostersStay PROVE held[t] = Terminate /\ SamePlace(t)
      BY <3>2 DEF PostersStay
    <3>. QED
      BY <3>1, <3>2, StepCases, WorkerMovesAlone, WakesAlone
  <2>2. terminates' = terminates
    <3>1. ASSUME NEW u \in Posters, Push(u) PROVE u = t
      BY <2>1, <3>1 DEF Push, Ownership, LastOwnerDestroys
    <3>. QED
      BY <1>b, <1>2, <3>1 DEF PosterMoves, PostStep
  <2>. QED
    BY <1>a, <2>1, <2>2 DEF SamePlace
<1>. QED
  BY <1>1, <1>2

\* Every step keeps the terminate messages accounted for.
LEMMA TermStep ==
  ASSUME IInv, Ownership, HoldInv, TermInv, [Next]_vars PROVE TermInv'
BY KeptStep, TerminatesLastStep, LoopStep, TerminatesWaitStep DEF TermInv

\* There are none at the start.
LEMMA TermInit == Init => TermInv
<1>. SUFFICES ASSUME Init PROVE TermInv
  OBVIOUS
<1>1. Size(q) = 0
  BY DEF Init, NewQ, Size
<1>2. HoldTerminate = {} /\ At(Workers, "exited") = {}
  BY ItemKinds, ThreadKinds DEF Init, HoldTerminate, At
<1>3. TerminatesIn(Contents(q)) = {}
  BY <1>1, ContentsType, InitIInv DEF TerminatesIn, Positions
<1>4. \A t \in Posters : held[t] # Terminate
  BY ItemKinds, ThreadKinds DEF Init
<1>5. TerminatesWait /\ LoopInv
  BY <1>4 DEF Init, TerminatesWait, LoopInv
<1>6. TerminatesLast
  BY <1>1, <1>2 DEF TerminatesLast, Taken
<1>7. Kept
  <2>1. Cardinality({}) = 0
    BY FS_EmptySet
  <2>2. /\ Cardinality(TerminatesIn(Contents(q))) = 0 /\ Cardinality(HoldTerminate) = 0
        /\ Cardinality(At(Workers, "exited")) = 0 /\ terminates = 0
    BY <1>2, <1>3, <2>1 DEF Init
  <2>. QED
    BY <2>2 DEF Kept
<1>. QED
  BY <1>5, <1>6, <1>7 DEF TermInv

\* No policy loses a terminate message: each is in the queue, held by a
\* worker, or has made one exit.
THEOREM TerminatesNotLost == Spec => []TerminatesKept
<1>1. IInv /\ TermInv => TerminatesKept
  <2>. SUFFICES ASSUME IInv, TermInv PROVE TerminatesKept
    OBVIOUS
  <2>1. TerminatesIn(Contents(q)) = {i \in 1..Size(q) : Contents(q)[i] = Terminate}
    BY ContentsType DEF TerminatesIn, Positions
  <2>. QED
    BY <2>1 DEF TermInv, Kept, HoldTerminate, TerminatesKept
<1>. QED
  BY <1>1, TermInit, TermStep, HoldInit, HoldStep, OwnershipInit, OwnershipStep, Invariance, PTL DEF Spec

-----------------------------------------------------------------------------
\* Once the pool is destroyed, nothing of it runs and nothing is queued.
GoneInv == Destroyed => AllExited /\ Size(q) = 0 /\ \A t \in Posters : pc[t] = "idle"

\* The join finds the queue empty: every worker has exited, each took one of
\* the terminate messages, and those were last.
LEMMA JoinFindsEmpty ==
  ASSUME IInv, Ownership, TermInv, NEW t \in Posters, Join(t)
  PROVE  Size(q) = 0
<1>1. held[t] = Terminate /\ terminates = Cardinality(Workers)
  BY DEF Join, Ownership, JoinersTerminate, TermInv, LoopInv
<1>2. At(Workers, "exited") = Workers
  BY DEF Join, Joined, AllExited, At
<1>3. Cardinality(TerminatesIn(Contents(q))) = 0
  BY <1>1, <1>2, CountTypes DEF TermInv, Kept
<1>4. TerminatesIn(Contents(q)) = {}
  BY <1>3, CountTypes, FS_EmptySet
<1>5. Taken
  BY <1>2, PoolAssumption DEF Taken
<1>6. \A i \in 1..Len(Contents(q)) : Contents(q)[i] = Terminate
  BY <1>5, ContentsType DEF TermInv, TerminatesLast
<1>7. 1 \notin 1..Len(Contents(q))
  BY <1>4, <1>6 DEF TerminatesIn, Positions
<1>. QED
  BY <1>7, ContentsType

\* Every step keeps what DestroyedWhenDrained needs.
LEMMA GoneStep ==
  ASSUME IInv, Ownership, HoldInv, TermInv, GoneInv, [Next]_vars PROVE GoneInv'
<1>. USE ThreadKinds
<1>0. SUFFICES ASSUME Destroyed'
               PROVE  (AllExited /\ Size(q) = 0)'
  <2>1. Ownership'
    BY OwnershipStep
  <2>2. Destroyed' => \A t \in Posters : pc'[t] = "idle"
    BY <2>1 DEF Destroyed, Destroying, Ownership, OwnersInCall, InCall, Posters
  <2>. QED
    BY <2>2 DEF GoneInv
<1>1. CASE \E t \in Posters : Join(t)
  <2>1. PICK t \in Posters : Join(t)
    BY <1>1
  <2>2. WorkersStay /\ q' = q
    BY <2>1, PosterMovesAlone DEF PosterMoves, PostStep, Join, queueVars
  <2>3. Size(q) = 0 /\ AllExited
    BY <2>1, JoinFindsEmpty DEF Join, Joined
  <2>. QED
    BY <2>2, <2>3 DEF WorkersStay, AllExited
<1>2. CASE \A t \in Posters : ~Join(t)
  <2>1. Destroyed
    <3>1. ASSUME NEW t \in Posters, held[t] = Terminate PROVE FALSE
      <4>1. owners = {} /\ pc[t] \in {"post", "wait_room", "notify", "join"}
        BY <3>1 DEF Ownership, LastOwnerDestroys, TermInv, LoopInv
      <4>2. held'[t] # held[t]
        BY <1>0, <3>1 DEF Destroyed, Destroying
      <4>3. PosterMoves(t)
        <5>1. ASSUME NEW u \in Posters, PosterMoves(u), u # t PROVE FALSE
          BY <4>2, <5>1, PosterMovesAlone DEF OthersStay
        <5>2. ~PostersStay
          BY <4>2 DEF PostersStay
        <5>. QED
          BY <5>1, <5>2, StepCases, WorkerMovesAlone, WakesAlone
      <4>. QED
        BY <1>2, <4>1, <4>2, <4>3
           DEF PosterMoves, PostStep, WaitRoom, Push, Discard, NotifyPush,
               ClientStep, StartCall, RefuseCall, AwaitFlush, Release, Shutdown
    <3>2. ASSUME owners # {} PROVE FALSE
      <4>1. owners' = {}
        BY <1>0 DEF Destroyed
      <4>2. PICK t \in Posters : PosterMoves(t) /\ owners' # owners
        <5>1. ASSUME NEW w \in Workers, WorkerStep(w) PROVE owners' = owners
          BY <5>1 DEF WorkerStep, WaitItem, Dequeue, NotifyPop, SinkIt, Flush, Exit, poolVars
        <5>. QED
          BY <3>2, <4>1, <5>1, StepCases, WakesAlone DEF poolVars
      <4>3. DropPool(t)
        BY <4>1, <4>2
           DEF PosterMoves, PostStep, WaitRoom, Push, Discard, NotifyPush, Join, poolVars,
               ClientStep, StartCall, RefuseCall, AwaitFlush, Release, Shutdown
      <4>4. owners = {t}
        BY <3>2, <4>1, <4>3 DEF DropPool
      <4>5. held'[t] = Terminate
        BY <4>3, <4>4, ThreadPlaces DEF DropPool
      <4>. QED
        BY <1>0, <4>5 DEF Destroyed, Destroying
    <3>. QED
      BY <3>1, <3>2 DEF Destroyed, Destroying
  <2>2. AllExited /\ Size(q) = 0 /\ \A t \in Posters : pc[t] = "idle"
    BY <2>1 DEF GoneInv
  <2>3. ASSUME NEW t \in Posters, PosterMoves(t) PROVE WorkersStay /\ q' = q
    <3>1. pc[t] = "idle" /\ owners = {}
      BY <2>1, <2>2 DEF Destroyed
    <3>2. q' = q
      BY <2>3, <3>1
         DEF PosterMoves, PostStep, WaitRoom, Push, Discard, NotifyPush, Join, queueVars,
             ClientStep, StartCall, RefuseCall, AwaitFlush, Release, Shutdown
    <3>. QED
      BY <2>3, <3>2, PosterMovesAlone
  <2>4. ASSUME NEW w \in Workers, WorkerStep(w) PROVE FALSE
    <3>1. pc[w] = "exited"
      BY <2>2 DEF AllExited
    <3>. QED
      BY <2>4, <3>1 DEF WorkerStep, WaitItem, Dequeue, NotifyPop, SinkIt, Flush, Exit
  <2>5. WorkersStay /\ q' = q
    BY <2>3, <2>4, StepCases, WakesAlone DEF queueVars
  <2>. QED
    BY <2>2, <2>5 DEF WorkersStay, AllExited
<1>. QED
  BY <1>1, <1>2

\* The pool is there at the start.
LEMMA GoneInit == Init => GoneInv
BY DEF Init, GoneInv, Destroyed

-----------------------------------------------------------------------------
\* The identity of a message: the client's call it came from.
Id(m) == <<m.from, m.seq>>

\* The messages of a sequence of items, and whether they all differ.
IdsIn(s) == {Id(s[i]) : i \in Positions(s, Message)}
DistinctIn(s) == \A i, j \in Positions(s, Message) : Id(s[i]) = Id(s[j]) => i = j

\* A message that is not in the sequence is appended.
LEMMA IdsAppend ==
  ASSUME NEW S, NEW s \in Seq(S), NEW m \in S, DistinctIn(s), m \in Message => Id(m) \notin IdsIn(s)
  PROVE  /\ DistinctIn(Append(s, m))
         /\ IdsIn(Append(s, m)) = IdsIn(s) \cup (IF m \in Message THEN {Id(m)} ELSE {})
<1>. DEFINE r == Append(s, m)
            n == Len(s) + 1
            P == Positions(s, Message)
            R == Positions(r, Message)
<1>1. r[n] = m /\ \A i \in 1..Len(s) : r[i] = s[i]
  OBVIOUS
<1>2. R = P \cup (IF m \in Message THEN {n} ELSE {}) /\ n \notin P /\ \A i \in P : r[i] = s[i]
  BY DEF Positions
<1>. HIDE DEF r, P, R, n
<1>3. IdsIn(r) = {Id(r[i]) : i \in R} /\ IdsIn(s) = {Id(s[i]) : i \in P}
  BY DEF IdsIn, R, P
<1>4. IdsIn(r) = IdsIn(s) \cup (IF m \in Message THEN {Id(m)} ELSE {})
  BY <1>1, <1>2, <1>3
<1>5. ASSUME NEW i \in R, NEW j \in R, Id(r[i]) = Id(r[j]) PROVE i = j
  <2>1. \A k \in P : Id(s[k]) \in IdsIn(s)
    BY <1>3
  <2>2. \A k, l \in P : Id(s[k]) = Id(s[l]) => k = l
    BY DEF DistinctIn, P
  <2>. QED
    BY <1>1, <1>2, <1>5, <2>1, <2>2
<1>. QED
  BY <1>4, <1>5 DEF DistinctIn, R, r

\* The head's message leaves the sequence.
LEMMA IdsTail ==
  ASSUME NEW S, NEW s \in Seq(S), Len(s) # 0, DistinctIn(s)
  PROVE  /\ DistinctIn(Tail(s))
         /\ IdsIn(Tail(s)) = IdsIn(s) \ (IF s[1] \in Message THEN {Id(s[1])} ELSE {})
         /\ s[1] \in Message => Id(s[1]) \in IdsIn(s)
<1>. DEFINE r == Tail(s)
            P == Positions(s, Message)
            R == Positions(r, Message)
<1>1. Len(r) = Len(s) - 1 /\ \A i \in 1..Len(r) : r[i] = s[i + 1]
  OBVIOUS
<1>2. \A i \in R : i \in Nat /\ i + 1 \in P /\ i + 1 # 1 /\ r[i] = s[i + 1]
  BY <1>1 DEF Positions
<1>3. \A k \in P : k \in Nat /\ (k # 1 => k - 1 \in R /\ (k - 1) + 1 = k)
  BY <1>1 DEF Positions
<1>4. 1 \in P <=> s[1] \in Message
  BY DEF Positions
<1>. HIDE DEF r, P, R
<1>5. IdsIn(r) = {Id(r[i]) : i \in R} /\ IdsIn(s) = {Id(s[i]) : i \in P}
  BY DEF IdsIn, R, P
<1>6. \A k, l \in P : Id(s[k]) = Id(s[l]) => k = l
  BY DEF DistinctIn, P
<1>7. ASSUME NEW x PROVE x \in IdsIn(r) <=> x \in IdsIn(s) \ (IF s[1] \in Message THEN {Id(s[1])} ELSE {})
  <2>1. ASSUME x \in IdsIn(r) PROVE x \in IdsIn(s) /\ (s[1] \in Message => x # Id(s[1]))
    <3>1. PICK i \in R : x = Id(r[i])
      BY <1>5, <2>1
    <3>2. i + 1 \in P /\ i + 1 # 1 /\ x = Id(s[i + 1])
      BY <1>2, <3>1
    <3>. QED
      BY <1>4, <1>5, <1>6, <3>2
  <2>2. ASSUME x \in IdsIn(s), s[1] \in Message => x # Id(s[1]) PROVE x \in IdsIn(r)
    <3>1. PICK k \in P : x = Id(s[k])
      BY <1>5, <2>2
    <3>2. k # 1
      BY <1>4, <2>2, <3>1
    <3>3. k - 1 \in R /\ x = Id(r[k - 1])
      BY <1>2, <1>3, <3>1, <3>2
    <3>. QED
      BY <1>5, <3>3
  <2>. QED
    BY <2>1, <2>2
<1>8. ASSUME NEW i \in R, NEW j \in R, Id(r[i]) = Id(r[j]) PROVE i = j
  <2>1. i + 1 = j + 1
    BY <1>2, <1>6, <1>8
  <2>. QED
    BY <1>2, <2>1
<1>. QED
  BY <1>4, <1>5, <1>7, <1>8 DEF DistinctIn, R, r

\* As many messages as positions.
LEMMA IdsCount ==
  ASSUME NEW P, IsFiniteSet(P), NEW f, \A i, j \in P : f[i] = f[j] => i = j
  PROVE  LET I == {f[i] : i \in P} IN IsFiniteSet(I) /\ Cardinality(I) = Cardinality(P)
<1>. DEFINE I == {f[i] : i \in P}
            g == [i \in P |-> f[i]]
<1>1. g \in Bijection(P, I)
  BY DEF Bijection, Injection, Surjection, IsInjective
<1>. HIDE DEF I, g
<1>2. IsFiniteSet(I) /\ Cardinality(I) = Cardinality(P)
  BY <1>1, FS_Bijection DEF ExistsBijection
<1>. QED
  BY <1>2 DEF I

-----------------------------------------------------------------------------
\* Who carries a message: a worker that holds one, a poster that has not
\* queued it yet.
Carries(t) == held[t] \in Message /\ (t \in Workers \/ pc[t] \in {"post", "wait_room"})
Hand == {t \in Threads : Carries(t)}
Carried == {Id(held[t]) : t \in Hand}
HandDistinct == \A t, u \in Hand : Id(held[t]) = Id(held[u]) => t = u
CarriesOn(t) == (Carries(t)' <=> Carries(t)) /\ (Carries(t) => held'[t] = held[t])

\* Nobody's hand changes.
LEMMA HandSame ==
  ASSUME HandDistinct, \A u \in Threads : CarriesOn(u)
  PROVE  Carried' = Carried /\ HandDistinct'
<1>1. Hand' = Hand /\ \A u \in Hand : held'[u] = held[u]
  BY DEF Hand, CarriesOn
<1>. QED
  BY <1>1 DEF Carried, HandDistinct

\* A thread lets go of its message.
LEMMA HandLeaves ==
  ASSUME HandDistinct, NEW t \in Threads, \A u \in Threads \ {t} : CarriesOn(u), Carries(t), ~Carries(t)'
  PROVE  /\ Carried' = Carried \ {Id(held[t])} /\ Id(held[t]) \in Carried /\ HandDistinct'
<1>1. t \in Hand /\ Hand' = Hand \ {t} /\ \A u \in Hand' : held'[u] = held[u]
  BY DEF Hand, CarriesOn
<1>2. HandDistinct' /\ Id(held[t]) \in Carried
  BY <1>1 DEF HandDistinct, Carried
<1>3. ASSUME NEW x PROVE x \in Carried' <=> x \in Carried /\ x # Id(held[t])
  BY <1>1 DEF Carried, HandDistinct
<1>. QED
  BY <1>2, <1>3

\* A thread takes a message nobody has.
LEMMA HandJoins ==
  ASSUME HandDistinct, NEW t \in Threads, \A u \in Threads \ {t} : CarriesOn(u), ~Carries(t), Carries(t)',
         Id(held'[t]) \notin Carried
  PROVE  Carried' = Carried \cup {Id(held'[t])} /\ HandDistinct'
<1>1. t \notin Hand /\ Hand' = Hand \cup {t} /\ \A u \in Hand : held'[u] = held[u]
  BY DEF Hand, CarriesOn
<1>. QED
  BY <1>1 DEF HandDistinct, Carried

\* A step of one side concerns the hands of the thread that steps only.
LEMMA PosterCarries ==
  ASSUME IInv, NEW t \in Posters, PosterMoves(t)
  PROVE  \A u \in Threads \ {t} : CarriesOn(u)
BY ThreadKinds, PosterMovesAlone DEF OthersStay, WorkersStay, CarriesOn, Carries

\* A worker's step leaves all other hands alone.
LEMMA WorkerCarries ==
  ASSUME IInv, NEW w \in Workers, WorkerStep(w)
  PROVE  \A u \in Threads \ {w} : CarriesOn(u)
BY ThreadKinds, WorkerMovesAlone DEF OthersStay, PostersStay, SamePlace, CarriesOn, Carries

\* Threads that are woken keep what they hold.
LEMMA WakersCarry ==
  ASSUME IInv, WorkersStay, PostersStay
  PROVE  \A u \in Threads : CarriesOn(u)
BY ThreadKinds DEF WorkersStay, PostersStay, SamePlace, CarriesOn, Carries

\* The messages made and handled, and how a call and a worker add to them.
LEMMA MadeIs ==
  ASSUME IInv
  PROVE  /\ \A x : x \in Made <=> \E c \in Clients : \E n \in 1..calls[c] : x = <<c, n>>
         /\ IsFiniteSet(Made)
<1>1. \A x : x \in Made <=> \E c \in Clients : \E n \in 1..calls[c] : x = <<c, n>>
  BY DEF Made
<1>2. Made \subseteq Clients \X (1..MaxCalls)
  BY <1>1, PoolAssumption DEF IInv, CallTypeOK
<1>3. IsFiniteSet(Clients \X (1..MaxCalls))
  <2>1. IsFiniteSet(Clients) /\ IsFiniteSet(1..MaxCalls)
    BY PoolAssumption, FS_Interval
  <2>. QED
    BY <2>1, FS_Product
<1>. QED
  BY <1>1, <1>2, <1>3, FS_Subset

\* A call makes a new message.
LEMMA MadeGrows ==
  ASSUME IInv, NEW c \in Clients, calls' = [calls EXCEPT ![c] = @ + 1]
  PROVE  Made' = Made \cup {<<c, calls[c] + 1>>} /\ <<c, calls[c] + 1>> \notin Made
<1>1. calls \in [Clients -> 0..MaxCalls] /\ MaxCalls \in Nat
  BY PoolAssumption DEF IInv, CallTypeOK
<1>2. \A d \in Clients : calls'[d] = IF d = c THEN calls[c] + 1 ELSE calls[d]
  BY <1>1
<1>3. \A x : x \in Made <=> \E d \in Clients : \E n \in 1..calls[d] : x = <<d, n>>
  BY MadeIs
<1>4. \A x : x \in Made' <=> \E d \in Clients : \E n \in 1..calls'[d] : x = <<d, n>>
  BY DEF Made
<1>5. <<c, calls[c] + 1>> \notin Made
  BY <1>1, <1>3
<1>6. ASSUME NEW x \in Made' PROVE x \in Made \cup {<<c, calls[c] + 1>>}
  <2>1. PICK d \in Clients : \E n \in 1..calls'[d] : x = <<d, n>>
    BY <1>4, <1>6
  <2>. PICK n \in 1..calls'[d] : x = <<d, n>>
    BY <2>1
  <2>2. n \in 1..calls[d] \/ (d = c /\ n = calls[c] + 1)
    BY <1>1, <1>2
  <2>. QED
    BY <1>3, <2>1, <2>2
<1>7. ASSUME NEW x \in Made \cup {<<c, calls[c] + 1>>} PROVE x \in Made'
  <2>1. PICK d \in Clients : \E n \in 1..(calls[d] + 1) : x = <<d, n>> /\ (n \in 1..calls[d] \/ d = c)
    BY <1>1, <1>3, <1>7
  <2>. PICK n \in 1..(calls[d] + 1) : x = <<d, n>> /\ (n \in 1..calls[d] \/ d = c)
    BY <2>1
  <2>2. n \in 1..calls'[d]
    BY <1>1, <1>2, <2>1
  <2>. QED
    BY <1>4, <2>1, <2>2
<1>. QED
  BY <1>5, <1>6, <1>7

\* A message is handled.
LEMMA HandledGrows ==
  ASSUME IInv, NEW c \in Clients, NEW n, handled' = [handled EXCEPT ![c] = @ \cup {n}]
  PROVE  Handled' = Handled \cup {<<c, n>>}
<1>1. handled \in [Clients -> SUBSET (1..MaxCalls)]
  BY DEF IInv, CallTypeOK
<1>2. \A d \in Clients : handled'[d] = IF d = c THEN handled[c] \cup {n} ELSE handled[d]
  BY <1>1
<1>. QED
  BY <1>2 DEF Handled

\* The contents after a push: the message is there, and on overrun the first
\* of all is not.
LEMMA IdsPushed ==
  ASSUME NEW S, NEW s \in Seq(S), NEW m \in S, DistinctIn(s), m \in Message => Id(m) \notin IdsIn(s)
  PROVE  LET P == IdsIn(s) \cup (IF m \in Message THEN {Id(m)} ELSE {}) IN
         /\ DistinctIn(Pushed(s, m))
         /\ Len(s) # MaxItems => IdsIn(Pushed(s, m)) = P
         /\ Len(s) = MaxItems /\ First(s, m) \in Message =>
              IdsIn(Pushed(s, m)) = P \ {Id(First(s, m))} /\ Id(First(s, m)) \in P
<1>. DEFINE r == Append(s, m)
<1>1. r \in Seq(S) /\ Len(r) # 0 /\ r[1] = First(s, m)
  BY DEF First
<1>2. DistinctIn(r) /\ IdsIn(r) = IdsIn(s) \cup (IF m \in Message THEN {Id(m)} ELSE {})
  BY IdsAppend
<1>. HIDE DEF r
<1>3. /\ DistinctIn(Tail(r))
      /\ IdsIn(Tail(r)) = IdsIn(r) \ (IF r[1] \in Message THEN {Id(r[1])} ELSE {})
      /\ r[1] \in Message => Id(r[1]) \in IdsIn(r)
  BY <1>1, <1>2, IdsTail
<1>4. Pushed(s, m) = IF Len(s) = MaxItems THEN Tail(r) ELSE r
  BY DEF Pushed, r
<1>. QED
  BY <1>1, <1>2, <1>3, <1>4

\* Every message made is in one place at most, and those that are nowhere
\* are counted.
Queued == IdsIn(Contents(q))
Lost == Made \ (Queued \cup Carried \cup Handled)
OnePlace ==
  /\ DistinctIn(Contents(q)) /\ HandDistinct
  /\ Queued \cap Carried = {} /\ Queued \cap Handled = {} /\ Carried \cap Handled = {}
  /\ Queued \cup Carried \cup Handled \subseteq Made
LostCounted == IsFiniteSet(Lost) /\ Cardinality(Lost) = q.overrun + discarded + refused
AccInv == OnePlace /\ LostCounted

\* The counters that say how many are lost.
LossTypes == q.overrun \in Nat /\ discarded \in Nat /\ refused \in Nat

\* What is made is finite, and the counters of losses are numbers.
LEMMA LossTypesHold == ASSUME IInv PROVE LossTypes
BY QueueFields, PoolAssumption DEF IInv, PoolTypeOK, CallTypeOK, LossTypes

\* Nothing is lost, or one message more.
LEMMA NoneLost ==
  ASSUME LostCounted, Lost' = Lost,
         q'.overrun = q.overrun, discarded' = discarded, refused' = refused
  PROVE  LostCounted'
BY DEF LostCounted

\* One message is lost and counted.
LEMMA OneLost ==
  ASSUME IInv, LostCounted, NEW x, x \notin Lost, Lost' = Lost \cup {x},
         q'.overrun + discarded' + refused' = q.overrun + discarded + refused + 1
  PROVE  LostCounted'
<1>1. IsFiniteSet(Lost) /\ Cardinality(Lost) = q.overrun + discarded + refused
  BY DEF LostCounted
<1>2. IsFiniteSet(Lost \cup {x}) /\ Cardinality(Lost \cup {x}) = Cardinality(Lost) + 1
  BY <1>1, FS_AddElement
<1>. QED
  BY <1>1, <1>2 DEF LostCounted

\* A step that leaves the calls and what is handled alone.
LEMMA MadeSame ==
  ASSUME calls' = calls PROVE Made' = Made
BY DEF Made

\* Nothing is handled.
LEMMA HandledSame ==
  ASSUME handled' = handled PROVE Handled' = Handled
BY DEF Handled

\* Nothing is queued or taken.
LEMMA QueuedSame ==
  ASSUME q' = q PROVE Queued' = Queued /\ Contents(q)' = Contents(q)
BY DEF Queued

\* Nothing moves between the places.
LEMMA AllStay ==
  ASSUME AccInv, \A u \in Threads : CarriesOn(u), q' = q, discarded' = discarded, refused' = refused,
         handled' = handled, calls' = calls
  PROVE  AccInv'
<1>1. Made' = Made /\ Handled' = Handled /\ Queued' = Queued /\ Contents(q)' = Contents(q)
  BY MadeSame, HandledSame, QueuedSame
<1>2. Carried' = Carried /\ HandDistinct'
  BY HandSame DEF AccInv, OnePlace
<1>3. LostCounted'
  BY <1>1, <1>2, NoneLost DEF AccInv, Lost
<1>. QED
  BY <1>1, <1>2, <1>3 DEF AccInv, OnePlace

\* A call makes a message, which is carried, or lost if there is no pool.
LEMMA CallAccounts ==
  ASSUME IInv, HoldInv, AccInv, NEW c \in Clients, ClientStep(c) PROVE AccInv'
<1>. USE ThreadKinds, ThreadPlaces, ItemKinds
<1>1. \A u \in Threads \ {c} : CarriesOn(u)
  BY PosterCarries DEF PosterMoves
<1>. DEFINE x == <<c, calls[c] + 1>>
<1>2. ASSUME NEW kind \in Kinds[c], StartCall(c, kind) PROVE AccInv'
  <2>. DEFINE m == [kind |-> kind, from |-> c, seq |-> calls[c] + 1]
  <2>1. m \in Message
    <3>1. calls[c] \in 0..MaxCalls /\ calls[c] < MaxCalls
      BY <1>2 DEF StartCall, IInv, CallTypeOK
    <3>2. kind \in {"log", "flush"} /\ calls[c] + 1 \in 1..MaxCalls
      BY <1>2, <3>1, PoolAssumption
    <3>. QED
      BY <3>2 DEF Message
  <2>2. held'[c] = m /\ pc'[c] = "post" /\ pc[c] = "idle" /\ Id(m) = x
    BY <1>2 DEF StartCall, Goto, Id
  <2>3. Carries(c)' /\ ~Carries(c)
    BY <2>1, <2>2 DEF Carries
  <2>4. Made' = Made \cup {x} /\ x \notin Made
    BY <1>2, MadeGrows DEF StartCall
  <2>5. /\ Queued' = Queued /\ Contents(q)' = Contents(q) /\ Handled' = Handled
        /\ q' = q /\ discarded' = discarded /\ refused' = refused
    BY <1>2, QueuedSame, HandledSame DEF StartCall, queueVars, sinkVars
  <2>. HIDE DEF m, x
  <2>6. Id(held'[c]) \notin Carried
    BY <2>2, <2>4 DEF AccInv, OnePlace
  <2>7. Carried' = Carried \cup {x} /\ HandDistinct'
    BY <1>1, <2>2, <2>3, <2>6, HandJoins DEF AccInv, OnePlace
  <2>8. Lost' = Lost
    BY <2>4, <2>5, <2>7 DEF Lost
  <2>9. OnePlace'
    BY <2>4, <2>5, <2>7 DEF AccInv, OnePlace
  <2>. QED
    BY <2>5, <2>8, <2>9, NoneLost DEF AccInv
<1>3. CASE RefuseCall(c)
  <2>1. CarriesOn(c)
    BY <1>3 DEF RefuseCall, CarriesOn, Carries
  <2>2. Carried' = Carried /\ HandDistinct'
    BY <1>1, <2>1, HandSame DEF AccInv, OnePlace
  <2>3. Made' = Made \cup {x} /\ x \notin Made
    BY <1>3, MadeGrows DEF RefuseCall
  <2>4. /\ Queued' = Queued /\ Contents(q)' = Contents(q) /\ Handled' = Handled
        /\ q' = q /\ discarded' = discarded /\ refused' = refused + 1
    BY <1>3, QueuedSame, HandledSame DEF RefuseCall, queueVars, sinkVars
  <2>. HIDE DEF x
  <2>5. Lost' = Lost \cup {x} /\ x \notin Lost
    BY <2>2, <2>3, <2>4 DEF Lost, AccInv, OnePlace
  <2>6. OnePlace'
    BY <2>2, <2>3, <2>4 DEF AccInv, OnePlace
  <2>7. q'.overrun + discarded' + refused' = q.overrun + discarded + refused + 1
    BY <2>4, LossTypesHold DEF LossTypes
  <2>. QED
    BY <2>5, <2>6, <2>7, OneLost DEF AccInv
<1>4. CASE AwaitFlush(c) \/ Release(c)
  <2>1. pc[c] \in {"future", "release"} /\ pc'[c] \in {"release", "idle", "post"}
        /\ (pc'[c] = "post" => held'[c] = Terminate)
    BY <1>4 DEF AwaitFlush, Release, DropPool, Goto
  <2>2. CarriesOn(c)
    BY <2>1 DEF CarriesOn, Carries
  <2>3. /\ q' = q /\ discarded' = discarded /\ refused' = refused
        /\ handled' = handled /\ calls' = calls
    BY <1>4 DEF AwaitFlush, Release, queueVars, callVars, sinkVars
  <2>. QED
    BY <1>1, <2>2, <2>3, AllStay
<1>. QED
  BY <1>2, <1>3, <1>4 DEF ClientStep

\* A push moves the message from the poster's hand into the queue, and loses
\* the first of all when the queue is full.
LEMMA PushAccounts ==
  ASSUME IInv, Ownership, HoldInv, TermInv, AccInv, NEW t \in Posters, Push(t) PROVE AccInv'
<1>. USE ThreadKinds, ThreadPlaces, ItemKinds
<1>. DEFINE s == Contents(q)
            m == held[t]
<1>1. /\ s \in Seq(Items \cup {NoItem}) /\ Len(s) = Size(q) /\ m \in Items
      /\ Contents(q') = Pushed(s, m) /\ (IsFull(q) <=> Len(s) = MaxItems)
      /\ q'.overrun = IF Len(s) = MaxItems THEN q.overrun + 1 ELSE q.overrun
  BY PushContents
<1>2. /\ pc[t] = "post" /\ pc'[t] = "notify" /\ held' = held
      /\ calls' = calls /\ refused' = refused /\ discarded' = discarded /\ handled' = handled
  BY DEF Push, Goto, sinkVars
<1>3. /\ \A u \in Threads \ {t} : CarriesOn(u)
      /\ Made' = Made /\ Handled' = Handled /\ DistinctIn(s) /\ HandDistinct
      /\ Queued' = IdsIn(Pushed(s, m)) /\ DistinctIn(Contents(q))' = DistinctIn(Pushed(s, m))
  BY <1>1, <1>2, PosterCarries, MadeSame, HandledSame DEF PosterMoves, PostStep, AccInv, OnePlace, Queued
<1>4. CASE m = Terminate
  <2>1. Len(s) # MaxItems
    BY <1>1, <1>4 DEF Push, MayPush, PolicyOf
  <2>2. CarriesOn(t)
    BY <1>2, <1>4 DEF CarriesOn, Carries
  <2>3. Carried' = Carried /\ HandDistinct'
    BY <1>3, <2>2, HandSame
  <2>4. IdsIn(Pushed(s, m)) = IdsIn(s) /\ DistinctIn(Pushed(s, m))
    <3>1. m \notin Message /\ m \in Items \cup {NoItem}
      BY <1>4
    <3>. HIDE DEF s, m
    <3>2. /\ DistinctIn(Pushed(s, m))
          /\ IdsIn(Pushed(s, m)) = IdsIn(s) \cup (IF m \in Message THEN {Id(m)} ELSE {})
      BY <1>1, <1>3, <2>1, <3>1, IdsPushed
    <3>. QED
      BY <3>1, <3>2
  <2>5. Queued' = Queued /\ DistinctIn(Contents(q))'
    BY <1>3, <2>4 DEF Queued
  <2>6. LostCounted'
    BY <1>1, <1>2, <1>3, <2>1, <2>3, <2>5, NoneLost DEF Lost, AccInv
  <2>. QED
    BY <1>3, <2>3, <2>5, <2>6 DEF AccInv, OnePlace
<1>5. CASE m # Terminate
  <2>1. m \in Message /\ Carries(t) /\ ~Carries(t)'
    BY <1>1, <1>2, <1>5 DEF Carries
  <2>2. Carried' = Carried \ {Id(m)} /\ Id(m) \in Carried /\ HandDistinct'
    BY <1>3, <2>1, HandLeaves
  <2>3. Id(m) \notin IdsIn(s)
    BY <2>2 DEF AccInv, OnePlace, Queued
  <2>4. First(s, m) \in Message
    <3>1. terminates = 0
      BY <1>2, <1>5, PosterOwns DEF TermInv, TerminatesWait
    <3>2. \A i \in 1..Len(s) : s[i] # Terminate
      BY <3>1, NoneYet
    <3>3. \A i \in 1..Len(s) : s[i] \in Message
      BY <1>1, <3>2 DEF HoldInv, QueueHoldsItems
    <3>. QED
      BY <1>1, <2>1, <3>3 DEF First
  <2>. DEFINE P == IdsIn(s) \cup {Id(m)}
              y == Id(First(s, m))
  <2>5. /\ DistinctIn(Pushed(s, m))
        /\ Len(s) # MaxItems => IdsIn(Pushed(s, m)) = P
        /\ Len(s) = MaxItems => IdsIn(Pushed(s, m)) = P \ {y} /\ y \in P
    BY <1>1, <1>3, <2>1, <2>3, <2>4, IdsPushed
  <2>6. CASE Len(s) # MaxItems
    <3>1. Queued' = Queued \cup {Id(m)}
      BY <1>3, <2>5, <2>6 DEF Queued
    <3>. HIDE DEF s, m
    <3>2. Lost' = Lost
      BY <1>3, <2>2, <3>1 DEF Lost
    <3>3. OnePlace'
      BY <1>3, <2>2, <2>5, <3>1 DEF AccInv, OnePlace
    <3>. QED
      BY <1>1, <1>2, <2>6, <3>2, <3>3, NoneLost DEF AccInv
  <2>7. CASE Len(s) = MaxItems
    <3>1. Queued' = (Queued \cup {Id(m)}) \ {y} /\ y \in Queued \cup {Id(m)}
      BY <1>3, <2>5, <2>7 DEF Queued
    <3>. HIDE DEF s, m, y
    <3>2. Lost' = Lost \cup {y} /\ y \notin Lost
      BY <1>3, <2>2, <3>1 DEF Lost, AccInv, OnePlace
    <3>3. OnePlace'
      BY <1>3, <2>2, <2>5, <3>1 DEF AccInv, OnePlace
    <3>4. q'.overrun + discarded' + refused' = q.overrun + discarded + refused + 1
      BY <1>1, <1>2, <2>7, LossTypesHold DEF LossTypes
    <3>. QED
      BY <3>2, <3>3, <3>4, OneLost DEF AccInv
  <2>. QED
    BY <2>6, <2>7
<1>. QED
  BY <1>4, <1>5

\* A discarded message is lost and counted; the rest of a poster's steps
\* move no message.
LEMMA PostAccounts ==
  ASSUME IInv, Ownership, HoldInv, AccInv, NEW t \in Posters, PosterMoves(t),
         ~Push(t), ~(t \in Clients /\ ClientStep(t))
  PROVE  AccInv'
<1>. USE ThreadKinds, ThreadPlaces, ItemKinds
<1>1. \A u \in Threads \ {t} : CarriesOn(u)
  BY PosterCarries
<1>2. CASE Discard(t)
  <2>1. /\ pc[t] = "post" /\ held[t] # Terminate /\ held' = held /\ q' = q
        /\ calls' = calls /\ refused' = refused /\ discarded' = discarded + 1 /\ handled' = handled
    BY <1>2 DEF Discard, PolicyOf, sinkVars
  <2>2. held[t] \in Message
    BY <2>1 DEF IInv, ThreadInv, PostersHold
  <2>3. pc'[t] \in {"future", "release"}
    <3>1. AfterPost(t) \in {"future", "release"}
      BY <2>1 DEF AfterPost
    <3>. QED
      BY <1>2, <3>1 DEF Discard, Goto
  <2>4. Carries(t) /\ ~Carries(t)'
    BY <2>1, <2>2, <2>3 DEF Carries
  <2>. DEFINE x == Id(held[t])
  <2>5. Carried' = Carried \ {x} /\ x \in Carried /\ HandDistinct'
    BY <1>1, <2>4, HandLeaves DEF AccInv, OnePlace
  <2>6. Made' = Made /\ Handled' = Handled /\ Queued' = Queued /\ Contents(q)' = Contents(q)
    BY <2>1, MadeSame, HandledSame, QueuedSame
  <2>. HIDE DEF x
  <2>7. Lost' = Lost \cup {x} /\ x \notin Lost
    BY <2>5, <2>6 DEF Lost, AccInv, OnePlace
  <2>8. OnePlace'
    BY <2>5, <2>6 DEF AccInv, OnePlace
  <2>9. q'.overrun + discarded' + refused' = q.overrun + discarded + refused + 1
    BY <2>1, LossTypesHold DEF LossTypes
  <2>. QED
    BY <2>7, <2>8, <2>9, OneLost DEF AccInv
<1>3. CASE WaitRoom(t) \/ NotifyPush(t) \/ Join(t) \/ (t = Main /\ Shutdown)
  <2>1. /\ q' = q /\ discarded' = discarded /\ refused' = refused
        /\ handled' = handled /\ calls' = calls
    BY <1>3 DEF WaitRoom, NotifyPush, Join, Shutdown, queueVars, callVars, sinkVars
  <2>2. CarriesOn(t)
    <3>1. CASE WaitRoom(t)
      BY <3>1 DEF WaitRoom, Goto, CarriesOn, Carries
    <3>2. CASE NotifyPush(t)
      <4>1. pc'[t] = AfterPost(t) /\ held' = held /\ pc[t] = "notify"
        BY <3>2 DEF NotifyPush, Goto, At
      <4>2. pc'[t] \in {"post", "wait_room"} => held[t] = Terminate
        BY <4>1 DEF AfterPost
      <4>. QED
        BY <4>1, <4>2 DEF CarriesOn, Carries
    <3>3. CASE Join(t) \/ (t = Main /\ Shutdown)
      <4>1. pc[t] \in {"join", "idle"} /\ held'[t] \in {NoItem, Terminate}
        BY <3>3 DEF Join, Shutdown, DropPool
      <4>. QED
        BY <4>1 DEF CarriesOn, Carries
    <3>. QED
      BY <1>3, <3>1, <3>2, <3>3
  <2>. QED
    BY <1>1, <2>1, <2>2, AllStay
<1>. QED
  BY <1>2, <1>3 DEF PosterMoves, PostStep

\* A dequeue moves the first message from the queue into the worker's hand,
\* and the worker is done with it once.
LEMMA WorkerAccounts ==
  ASSUME IInv, HoldInv, AccInv, NEW w \in Workers, WorkerStep(w) PROVE AccInv'
<1>. USE ThreadKinds, ThreadPlaces, ItemKinds
<1>1. \A u \in Threads \ {w} : CarriesOn(u)
  BY WorkerCarries
<1>2. discarded' = discarded /\ refused' = refused /\ calls' = calls
  BY DEF WorkerStep, WaitItem, Dequeue, NotifyPop, SinkIt, Flush, Exit, queueVars, callVars
<1>3. CASE Dequeue(w)
  <2>. DEFINE s == Contents(q)
              x == Id(s[1])
  <2>1. /\ s \in Seq(Items \cup {NoItem}) /\ Len(s) = Size(q) /\ Len(s) # 0 /\ Contents(q') = Tail(s)
        /\ held'[w] = s[1] /\ pc[w] = "dequeue" /\ q'.overrun = q.overrun
    BY <1>3, DequeueContents
  <2>2. s[1] \in Items /\ held[w] = NoItem
    BY <2>1, SizeType DEF HoldInv, QueueHoldsItems, WorkersHold
  <2>3. Made' = Made /\ Handled' = Handled /\ Queued' = IdsIn(Tail(s))
        /\ DistinctIn(Contents(q))' = DistinctIn(Tail(s))
    BY <1>2, <1>3, <2>1, MadeSame, HandledSame DEF Dequeue, sinkVars, Queued
  <2>4. /\ DistinctIn(Tail(s))
        /\ IdsIn(Tail(s)) = IdsIn(s) \ (IF s[1] \in Message THEN {x} ELSE {})
        /\ s[1] \in Message => x \in IdsIn(s)
    BY <2>1, IdsTail DEF AccInv, OnePlace
  <2>5. CASE s[1] \in Message
    <3>1. Carries(w)' /\ ~Carries(w)
      BY <2>1, <2>2, <2>5 DEF Carries
    <3>2. Queued' = Queued \ {x} /\ x \in Queued
      BY <2>3, <2>4, <2>5 DEF Queued
    <3>3. Id(held'[w]) = x /\ x \notin Carried
      BY <2>1, <3>2 DEF AccInv, OnePlace
    <3>4. Carried' = Carried \cup {x} /\ HandDistinct'
      BY <1>1, <3>1, <3>3, HandJoins DEF AccInv, OnePlace
    <3>. HIDE DEF s, x
    <3>5. Lost' = Lost
      BY <2>3, <3>2, <3>4 DEF Lost
    <3>6. OnePlace'
      BY <2>3, <2>4, <3>2, <3>4 DEF AccInv, OnePlace
    <3>. QED
      BY <1>2, <2>1, <3>5, <3>6, NoneLost DEF AccInv
  <2>6. CASE s[1] \notin Message
    <3>1. CarriesOn(w)
      BY <2>1, <2>2, <2>6 DEF CarriesOn, Carries
    <3>2. Carried' = Carried /\ HandDistinct'
      BY <1>1, <3>1, HandSame DEF AccInv, OnePlace
    <3>3. Queued' = Queued
      BY <2>3, <2>4, <2>6 DEF Queued
    <3>4. Lost' = Lost
      BY <2>3, <3>2, <3>3 DEF Lost
    <3>5. OnePlace'
      BY <2>3, <2>4, <3>2, <3>3 DEF AccInv, OnePlace
    <3>. QED
      BY <1>2, <2>1, <3>4, <3>5, NoneLost DEF AccInv
  <2>. QED
    BY <2>5, <2>6
<1>4. CASE SinkIt(w) \/ Flush(w)
  <2>. DEFINE m == held[w]
              x == Id(m)
  <2>1. /\ m \in Message /\ q' = q /\ held'[w] = NoItem
        /\ handled' = [handled EXCEPT ![m.from] = @ \cup {m.seq}]
    BY <1>4 DEF SinkIt, Flush, Handle, queueVars
  <2>2. Carries(w) /\ ~Carries(w)'
    BY <2>1 DEF Carries
  <2>3. Carried' = Carried \ {x} /\ x \in Carried /\ HandDistinct'
    BY <1>1, <2>2, HandLeaves DEF AccInv, OnePlace
  <2>4. Handled' = Handled \cup {x}
    BY <2>1, HandledGrows DEF Id
  <2>5. Made' = Made /\ Queued' = Queued /\ Contents(q)' = Contents(q)
    BY <1>2, <2>1, MadeSame, QueuedSame
  <2>. HIDE DEF m, x
  <2>6. Lost' = Lost
    BY <2>3, <2>4, <2>5 DEF Lost
  <2>7. OnePlace'
    BY <2>3, <2>4, <2>5 DEF AccInv, OnePlace
  <2>. QED
    BY <1>2, <2>1, <2>6, <2>7, NoneLost DEF AccInv
<1>5. CASE WaitItem(w) \/ NotifyPop(w) \/ Exit(w)
  <2>1. q' = q /\ handled' = handled
    BY <1>5 DEF WaitItem, NotifyPop, Exit, queueVars, sinkVars
  <2>2. held'[w] = held[w] \/ (held[w] = Terminate /\ held'[w] = NoItem)
    BY <1>5 DEF WaitItem, NotifyPop, Exit
  <2>3. CarriesOn(w)
    BY <2>2 DEF CarriesOn, Carries
  <2>. QED
    BY <1>1, <1>2, <2>1, <2>3, AllStay
<1>. QED
  BY <1>3, <1>4, <1>5 DEF WorkerStep

\* Every step keeps each message in one place or counted.
LEMMA AccStep ==
  ASSUME IInv, Ownership, HoldInv, TermInv, AccInv, [Next]_vars PROVE AccInv'
<1>1. ASSUME NEW t \in Posters, PosterMoves(t) PROVE AccInv'
  BY <1>1, CallAccounts, PushAccounts, PostAccounts
<1>2. ASSUME (\E t \in Threads : SpuriousWake(t)) \/ UNCHANGED vars PROVE AccInv'
  BY <1>2, WakesAlone, WakersCarry, AllStay DEF queueVars, callVars, sinkVars
<1>. QED
  BY <1>1, <1>2, WorkerAccounts, StepCases

\* No message is made at the start.
LEMMA AccInit == Init => AccInv
<1>. SUFFICES ASSUME Init PROVE AccInv
  OBVIOUS
<1>1. IInv /\ Size(q) = 0 /\ q.overrun = 0 /\ discarded = 0 /\ refused = 0
  BY InitIInv DEF Init, NewQ, Size
<1>2. Positions(Contents(q), Message) = {}
  BY <1>1, ContentsType DEF Positions
<1>3. Queued = {} /\ DistinctIn(Contents(q))
  BY <1>2 DEF Queued, IdsIn, DistinctIn
<1>4. Hand = {}
  BY ItemKinds DEF Init, Hand, Carries
<1>5. Carried = {} /\ HandDistinct
  BY <1>4 DEF Carried, HandDistinct
<1>6. Handled = {} /\ Made = {}
  BY DEF Init, Handled, Made
<1>7. Lost = {}
  BY <1>6 DEF Lost
<1>8. LostCounted
  <2>1. IsFiniteSet({}) /\ Cardinality({}) = 0
    BY FS_EmptySet
  <2>. QED
    BY <1>1, <1>7, <2>1 DEF LostCounted
<1>. QED
  BY <1>3, <1>5, <1>6, <1>8 DEF AccInv, OnePlace

\* InQueue and InHand, as the invariant has them.
LEMMA PlacesAre ==
  ASSUME IInv, HoldInv
  PROVE  InQueue = Positions(Contents(q), Message) /\ InHand = Hand
<1>. USE ItemKinds, ThreadPlaces
<1>1. \A i \in 1..Size(q) : Contents(q)[i] # Terminate <=> Contents(q)[i] \in Message
  BY DEF HoldInv, QueueHoldsItems
<1>2. InQueue = Positions(Contents(q), Message)
  BY <1>1, ContentsType DEF InQueue, Positions
<1>3. \A w \in Workers : held[w] \notin {NoItem, Terminate} <=> held[w] \in Message
  OBVIOUS
<1>4. \A t \in Posters : pc[t] \in {"post", "wait_room"} => held[t] \in Items
  BY DEF IInv, ThreadInv, PostersHold
<1>5. ASSUME NEW t PROVE t \in InHand <=> t \in Hand
  BY <1>3, <1>4 DEF InHand, Hand, Carries
<1>. QED
  BY <1>2, <1>5

\* As many messages are present as the three places count.
LEMMA PresentCount ==
  ASSUME IInv, HoldInv, AccInv
  PROVE  /\ Present = Queued \cup Carried \cup Handled
         /\ Cardinality(Present) = Cardinality(InQueue) + Cardinality(InHand) + Cardinality(Handled)
<1>1. InQueue = Positions(Contents(q), Message) /\ InHand = Hand
  BY PlacesAre
<1>2. Queued = {<<Contents(q)[i].from, Contents(q)[i].seq>> : i \in InQueue}
  BY <1>1 DEF Queued, IdsIn, Id
<1>3. Carried = {<<held[t].from, held[t].seq>> : t \in InHand}
  BY <1>1 DEF Carried, Id
<1>4. Present = Queued \cup Carried \cup Handled
  BY <1>2, <1>3 DEF Present
<1>5. IsFiniteSet(InQueue) /\ IsFiniteSet(InHand)
  <2>1. IsFiniteSet(InQueue)
    BY <1>1, ContentsType, PositionsFinite
  <2>2. Hand \subseteq Posters \cup Workers
    BY ThreadKinds DEF Hand
  <2>3. IsFiniteSet(Posters \cup Workers)
    BY FiniteThreads, FS_Union
  <2>. QED
    BY <1>1, <2>1, <2>2, <2>3, FS_Subset
<1>6. IsFiniteSet(Queued) /\ Cardinality(Queued) = Cardinality(InQueue)
  <2>. DEFINE f == [i \in InQueue |-> Id(Contents(q)[i])]
  <2>1. \A i, j \in InQueue : f[i] = f[j] => i = j
    BY <1>1 DEF AccInv, OnePlace, DistinctIn
  <2>2. Queued = {f[i] : i \in InQueue}
    BY <1>2 DEF Id
  <2>. HIDE DEF f
  <2>. QED
    BY <1>5, <2>1, <2>2, IdsCount
<1>7. IsFiniteSet(Carried) /\ Cardinality(Carried) = Cardinality(InHand)
  <2>. DEFINE f == [t \in InHand |-> Id(held[t])]
  <2>1. \A t, u \in InHand : f[t] = f[u] => t = u
    BY <1>1 DEF AccInv, OnePlace, HandDistinct
  <2>2. Carried = {f[t] : t \in InHand}
    BY <1>3 DEF Id
  <2>. HIDE DEF f
  <2>. QED
    BY <1>5, <2>1, <2>2, IdsCount
<1>8. IsFiniteSet(Handled)
  BY MadeIs, FS_Subset DEF AccInv, OnePlace
<1>. DEFINE A == Queued \cup Carried
<1>9. A \cap Handled = {} /\ Queued \cap Carried = {}
  BY DEF AccInv, OnePlace
<1>. HIDE DEF Queued, Carried, Handled
<1>10. IsFiniteSet(A) /\ Cardinality(A) = Cardinality(Queued) + Cardinality(Carried)
  <2>1. IsFiniteSet(A) /\ Cardinality(A) = Cardinality(Queued) + Cardinality(Carried) - Cardinality({})
    BY <1>6, <1>7, <1>9, FS_Union
  <2>2. Cardinality({}) = 0 /\ Cardinality(Queued) \in Nat /\ Cardinality(Carried) \in Nat
    BY <1>6, <1>7, FS_EmptySet, FS_CardinalityType
  <2>. QED
    BY <2>1, <2>2
<1>. HIDE DEF A
<1>11. Cardinality(A \cup Handled) = Cardinality(A) + Cardinality(Handled)
  <2>1. Cardinality(A \cup Handled) = Cardinality(A) + Cardinality(Handled) - Cardinality({})
    BY <1>8, <1>9, <1>10, FS_Union
  <2>2. Cardinality({}) = 0 /\ Cardinality(A) \in Nat /\ Cardinality(Handled) \in Nat
    BY <1>8, <1>10, FS_EmptySet, FS_CardinalityType
  <2>. QED
    BY <2>1, <2>2
<1>. QED
  BY <1>4, <1>6, <1>7, <1>10, <1>11 DEF A

\* Every call's message is in exactly one place, or counted as lost.
THEOREM AllAccountedFor == Spec => []AccountedFor
<1>1. IInv /\ HoldInv /\ AccInv => AccountedFor
  BY PresentCount DEF AccountedFor, AccInv, LostCounted, Lost
<1>. QED
  BY <1>1, AccInit, AccStep, TermInit, TermStep, HoldInit, HoldStep, OwnershipInit, OwnershipStep,
     Invariance, PTL DEF Spec

\* When the pool is destroyed nothing is queued or in a hand any more, and
\* what was not lost has been handled.
THEOREM DestroyedWhenDrained == Spec => []DestroyedIsDrained
<1>1. IInv /\ HoldInv /\ AccInv /\ GoneInv => DestroyedIsDrained
  <2>. SUFFICES ASSUME IInv, HoldInv, AccInv, GoneInv, Destroyed
                PROVE  /\ AllExited /\ \A t \in Posters : pc[t] = "idle"
                       /\ IsEmpty(q) /\ Cardinality(Made \ Handled) = q.overrun + discarded + refused
    BY DEF DestroyedIsDrained
  <2>1. AllExited /\ Size(q) = 0 /\ \A t \in Posters : pc[t] = "idle"
    BY DEF GoneInv
  <2>2. Positions(Contents(q), Message) = {}
    BY <2>1, ContentsType DEF Positions
  <2>3. Hand = {}
    BY <2>1, ThreadKinds, ItemKinds DEF Hand, Carries, AllExited, HoldInv, WorkersHold
  <2>4. Queued = {} /\ Carried = {}
    BY <2>2, <2>3 DEF Queued, IdsIn, Carried
  <2>5. Lost = Made \ Handled
    BY <2>4 DEF Lost
  <2>. QED
    BY <2>1, <2>5, SizeType DEF AccInv, LostCounted
<1>. QED
  BY <1>1, AccInit, AccStep, GoneInit, GoneStep, TermInit, TermStep, HoldInit, HoldStep,
     OwnershipInit, OwnershipStep, Invariance, PTL DEF Spec

-----------------------------------------------------------------------------
\* The flush that a client waits for is the last thing it did, and its
\* message is at most once in the slots of the queue and the workers' hands.
IsFlushOf(m, c) == m \in Message /\ m.kind = "flush" /\ m.from = c
Waits(c) ==
  /\ pc[c] \in {"notify", "future"} /\ answer[c] = "pending"
  /\ held[c] \in Message /\ held[c].kind = "flush"
FlushSlots(c) == {i \in 0..MaxItems : IsFlushOf(q.v[i], c)}
FlushHands(c) == {w \in Workers : IsFlushOf(held[w], c)}
PostedPends(c) == pc[c] \in {"post", "wait_room"} /\ IsFlushOf(held[c], c) => answer[c] = "pending"
FlushOnce(c) ==
  /\ PostedPends(c)
  /\ \A i \in FlushSlots(c) :
       q.v[i].seq = calls[c] /\ Waits(c) /\ FlushHands(c) = {} /\ FlushSlots(c) = {i}
  /\ \A w \in FlushHands(c) : held[w].seq = calls[c] /\ Waits(c) /\ FlushHands(c) = {w}
FlushInv == \A c \in Clients : FlushOnce(c)

\* A client that waits for no flush has none around.
LEMMA NoFlushAround ==
  ASSUME NEW c \in Clients, FlushOnce(c), ~Waits(c)
  PROVE  FlushSlots(c) = {} /\ FlushHands(c) = {}
BY DEF FlushOnce

\* No flush is in a slot or in a hand.
LEMMA NoFlushFollows ==
  ASSUME NEW c \in Clients, FlushSlots(c)' = {}, FlushHands(c)' = {}, PostedPends(c)'
  PROVE  FlushOnce(c)'
BY DEF FlushOnce

\* The flush of a client that stays where it is, and is not answered.
StaysInPost(c) ==
  /\ held'[c] = held[c] /\ calls'[c] = calls[c] /\ answer'[c] = answer[c]
  /\ pc'[c] \in {"post", "wait_room"} => pc[c] \in {"post", "wait_room"}
  /\ pc[c] \in {"notify", "future"} => pc'[c] \in {"notify", "future"}

\* A flush is in one place while no slot or hand gets another.
LEMMA FlushStays ==
  ASSUME NEW c \in Clients, FlushOnce(c), StaysInPost(c),
         \A i \in 0..MaxItems : IsFlushOf(q'.v[i], c) => q'.v[i] = q.v[i],
         \A w \in Workers : IsFlushOf(held'[w], c) => held'[w] = held[w]
  PROVE  FlushOnce(c)'
<1>1. PostedPends(c)' /\ (Waits(c) => Waits(c)')
  BY DEF StaysInPost, FlushOnce, PostedPends, Waits
<1>2. /\ \A i \in FlushSlots(c)' : i \in FlushSlots(c) /\ q'.v[i] = q.v[i]
      /\ \A w \in FlushHands(c)' : w \in FlushHands(c) /\ held'[w] = held[w]
  BY DEF FlushSlots, FlushHands
<1>. QED
  BY <1>1, <1>2 DEF FlushOnce, StaysInPost

\* An answer to a message that is no flush of the client leaves it alone.
LEMMA AnswersOther ==
  ASSUME NEW c \in Clients, NEW m, NEW a, AnswerFlush(m, a), ~IsFlushOf(m, c)
  PROVE  answer'[c] = answer[c]
BY DEF AnswerFlush, IsFlushOf

\* A push.
LEMMA FlushPushed ==
  ASSUME IInv, HoldInv, FlushInv, NEW t \in Posters, Push(t), NEW c \in Clients PROVE FlushOnce(c)'
<1>. USE ThreadKinds, ThreadPlaces, ItemKinds
<1>1. /\ q.v \in [0..MaxItems -> Items \cup {NoItem}] /\ q.tail \in 0..MaxItems
      /\ q'.v = [q.v EXCEPT ![q.tail] = held[t]]
      /\ pc[t] = "post" /\ pc' = [pc EXCEPT ![t] = "notify"] /\ held' = held /\ calls' = calls
      /\ AnswerFlush(q.v[q.tail], "broken")
  BY PushSlots
<1>2. FlushOnce(c)
  BY DEF FlushInv
<1>3. \A i \in 0..MaxItems : q'.v[i] = IF i = q.tail THEN held[t] ELSE q.v[i]
  BY <1>1
<1>4. FlushHands(c)' = FlushHands(c)
  BY <1>1 DEF FlushHands
<1>5. CASE t = c
  <2>1. FlushSlots(c) = {} /\ FlushHands(c) = {}
    BY <1>1, <1>2, <1>5, NoFlushAround DEF Waits
  <2>2. answer'[c] = answer[c]
    BY <1>1, <2>1, AnswersOther DEF FlushSlots
  <2>3. pc'[c] = "notify"
    BY <1>1, <1>5
  <2>4. CASE IsFlushOf(held[c], c)
    <3>1. FlushSlots(c)' = {q.tail} /\ q'.v[q.tail] = held[c]
      BY <1>1, <1>3, <1>5, <2>1, <2>4 DEF FlushSlots
    <3>2. held[c].seq = calls[c]
      BY <1>1, <1>5, <2>4 DEF IsFlushOf, HoldInv, CallersHold, OwnMessage, InCall
    <3>3. answer[c] = "pending"
      BY <1>1, <1>2, <1>5, <2>4 DEF FlushOnce, PostedPends
    <3>4. Waits(c)' /\ PostedPends(c)'
      BY <1>1, <2>2, <2>3, <2>4, <3>3 DEF Waits, IsFlushOf, PostedPends
    <3>. QED
      BY <1>1, <1>4, <2>1, <3>1, <3>2, <3>4 DEF FlushOnce
  <2>5. CASE ~IsFlushOf(held[c], c)
    <3>1. FlushSlots(c)' = {}
      BY <1>3, <1>5, <2>1, <2>5 DEF FlushSlots
    <3>. QED
      BY <1>4, <2>1, <2>3, <3>1, NoFlushFollows DEF PostedPends
  <2>. QED
    BY <2>4, <2>5
<1>6. CASE t # c
  <2>1. ~IsFlushOf(held[t], c)
    BY <1>1, <1>6, PoolAssumption DEF IsFlushOf, HoldInv, CallersHold, OwnMessage, Posters
  <2>2. CASE IsFlushOf(q.v[q.tail], c)
    <3>1. FlushSlots(c) = {q.tail} /\ FlushHands(c) = {} /\ Waits(c)
      BY <1>1, <1>2, <2>2 DEF FlushOnce, FlushSlots
    <3>2. FlushSlots(c)' = {}
      BY <1>3, <2>1, <3>1 DEF FlushSlots
    <3>3. PostedPends(c)'
      BY <1>1, <1>6, <3>1 DEF PostedPends, Waits
    <3>. QED
      BY <1>4, <3>1, <3>2, <3>3, NoFlushFollows
  <2>3. CASE ~IsFlushOf(q.v[q.tail], c)
    <3>1. answer'[c] = answer[c]
      BY <1>1, <2>3, AnswersOther
    <3>2. StaysInPost(c)
      BY <1>1, <1>6, <3>1 DEF StaysInPost
    <3>3. \A i \in 0..MaxItems : IsFlushOf(q'.v[i], c) => q'.v[i] = q.v[i]
      BY <1>3, <2>1
    <3>. QED
      BY <1>1, <1>2, <3>2, <3>3, FlushStays
  <2>. QED
    BY <2>2, <2>3
<1>. QED
  BY <1>5, <1>6

\* The other steps of posters.
LEMMA FlushPosted ==
  ASSUME IInv, HoldInv, FlushInv, NEW t \in Posters, PosterMoves(t), ~Push(t), NEW c \in Clients
  PROVE  FlushOnce(c)'
<1>. USE ThreadKinds, ThreadPlaces, ItemKinds
<1>1. FlushOnce(c) /\ WorkersStay /\ OthersStay(Posters, t)
  BY PosterMovesAlone DEF FlushInv
<1>2. q' = q
  BY DEF PosterMoves, PostStep, ClientStep, StartCall, RefuseCall, AwaitFlush, Release,
         WaitRoom, Discard, NotifyPush, Join, Shutdown, queueVars
<1>3. FlushSlots(c)' = FlushSlots(c) /\ FlushHands(c)' = FlushHands(c)
  BY <1>1, <1>2 DEF FlushSlots, FlushHands, WorkersStay
<1>4. CASE t # c
  <2>1. calls'[c] = calls[c]
    BY <1>4 DEF PosterMoves, PostStep, ClientStep, StartCall, RefuseCall, AwaitFlush, Release,
                WaitRoom, Discard, NotifyPush, Join, Shutdown, callVars, IInv, CallTypeOK
  <2>2. answer'[c] = answer[c]
    <3>1. CASE Discard(t)
      <4>1. held[t] # Terminate /\ pc[t] = "post" /\ held[t] \in Items
        BY <3>1 DEF Discard, PolicyOf, IInv, ThreadInv, PostersHold
      <4>2. ~IsFlushOf(held[t], c)
        BY <1>4, <4>1, PoolAssumption DEF IsFlushOf, HoldInv, CallersHold, OwnMessage, Posters
      <4>. QED
        BY <3>1, <4>2, AnswersOther DEF Discard
    <3>2. CASE ~Discard(t)
      BY <1>4, <3>2 DEF PosterMoves, PostStep, ClientStep, StartCall, RefuseCall, AwaitFlush, Release,
                        WaitRoom, NotifyPush, Join, Shutdown, callVars, IInv, CallTypeOK
    <3>. QED
      BY <3>1, <3>2
  <2>3. StaysInPost(c)
    BY <1>1, <1>4, <2>1, <2>2 DEF StaysInPost, OthersStay
  <2>. QED
    BY <1>1, <1>2, <2>3, FlushStays DEF WorkersStay
<1>5. CASE t = c
  <2>1. ASSUME ~Waits(c), PostedPends(c)' PROVE FlushOnce(c)'
    BY <1>1, <1>3, <2>1, NoFlushAround, NoFlushFollows
  <2>2. ASSUME NEW kind \in Kinds[c], StartCall(c, kind) PROVE FlushOnce(c)'
    <3>1. held'[c] = [kind |-> kind, from |-> c, seq |-> calls[c] + 1] /\ pc[c] = "idle"
      BY <2>2 DEF StartCall
    <3>2. held'[c].kind = "flush" => answer'[c] = "pending"
      BY <2>2, <3>1 DEF StartCall, IInv, CallTypeOK
    <3>. QED
      BY <2>1, <3>1, <3>2 DEF Waits, PostedPends, IsFlushOf
  <2>3. CASE RefuseCall(c)
    BY <2>1, <2>3 DEF RefuseCall, Waits, PostedPends
  <2>4. CASE AwaitFlush(c)
    <3>1. ~Waits(c) /\ pc'[c] = "release"
      BY <2>4 DEF AwaitFlush, Goto, Waits
    <3>. QED
      BY <2>1, <3>1 DEF PostedPends
  <2>5. CASE Release(c)
    <3>1. pc[c] = "release" /\ (pc'[c] = "idle" \/ held'[c] = Terminate)
      BY <2>5 DEF Release, DropPool, Goto
    <3>. QED
      BY <2>1, <3>1 DEF PostedPends, Waits, IsFlushOf
  <2>6. CASE WaitRoom(c)
    <3>1. pc[c] = "post" /\ held' = held /\ answer' = answer
      BY <2>6 DEF WaitRoom, callVars
    <3>. QED
      BY <1>1, <2>1, <3>1 DEF PostedPends, Waits, FlushOnce
  <2>7. CASE Discard(c)
    <3>1. pc[c] = "post" /\ held' = held /\ held[c] # Terminate /\ pc'[c] = AfterPost(c)
      BY <2>7 DEF Discard, Goto, PolicyOf
    <3>2. pc'[c] \in {"future", "release"}
      BY <3>1 DEF AfterPost
    <3>. QED
      BY <2>1, <3>1, <3>2 DEF PostedPends, Waits
  <2>8. CASE NotifyPush(c)
    <3>1. pc[c] = "notify" /\ held' = held /\ pc'[c] = AfterPost(c) /\ calls' = calls /\ answer' = answer
      BY <2>8 DEF NotifyPush, Goto, At, callVars
    <3>2. CASE Waits(c)
      <4>1. pc'[c] = "future"
        BY <3>1, <3>2 DEF AfterPost, Waits
      <4>2. StaysInPost(c)
        BY <3>1, <4>1 DEF StaysInPost
      <4>. QED
        BY <1>1, <1>2, <4>2, FlushStays DEF WorkersStay
    <3>3. CASE ~Waits(c)
      <4>1. pc'[c] \in {"post", "wait_room"} => held[c] = Terminate
        BY <3>1 DEF AfterPost
      <4>. QED
        BY <2>1, <3>1, <3>3, <4>1 DEF PostedPends, IsFlushOf
    <3>. QED
      BY <3>2, <3>3
  <2>9. CASE Join(c)
    <3>1. pc[c] = "join" /\ pc'[c] = "idle"
      BY <2>9 DEF Join, Goto
    <3>. QED
      BY <2>1, <3>1 DEF PostedPends, Waits
  <2>10. c # Main
    BY PoolAssumption
  <2>. QED
    BY <1>5, <2>2, <2>3, <2>4, <2>5, <2>6, <2>7, <2>8, <2>9, <2>10 DEF PosterMoves, PostStep, ClientStep
<1>. QED
  BY <1>4, <1>5

\* The steps of workers.
LEMMA FlushWorked ==
  ASSUME IInv, HoldInv, FlushInv, NEW w \in Workers, WorkerStep(w), NEW c \in Clients
  PROVE  FlushOnce(c)'
<1>. USE ThreadKinds, ThreadPlaces, ItemKinds
<1>1. FlushOnce(c) /\ PostersStay /\ OthersStay(Workers, w) /\ calls' = calls
  BY WorkerMovesAlone
     DEF FlushInv, WorkerStep, WaitItem, Dequeue, NotifyPop, SinkIt, Flush, Exit, callVars
<1>2. answer'[c] = answer[c] => StaysInPost(c)
  BY <1>1 DEF StaysInPost, PostersStay, SamePlace
<1>3. CASE Dequeue(w)
  <2>1. /\ q.v \in [0..MaxItems -> Items \cup {NoItem}] /\ q.head \in 0..MaxItems
        /\ q'.v = [q.v EXCEPT ![q.head] = NoItem] /\ held'[w] = q.v[q.head]
    BY <1>3, DequeueSlots
  <2>2. held[w] = NoItem /\ answer' = answer
    BY <1>3 DEF Dequeue, HoldInv, WorkersHold, callVars
  <2>3. \A i \in 0..MaxItems : q'.v[i] = IF i = q.head THEN NoItem ELSE q.v[i]
    BY <2>1
  <2>4. ~IsFlushOf(NoItem, c)
    BY DEF IsFlushOf
  <2>5. CASE IsFlushOf(q.v[q.head], c)
    <3>1. /\ FlushSlots(c) = {q.head} /\ FlushHands(c) = {} /\ Waits(c)
          /\ q.v[q.head].seq = calls[c]
      BY <1>1, <2>1, <2>5 DEF FlushOnce, FlushSlots
    <3>2. FlushSlots(c)' = {}
      BY <2>3, <2>4, <3>1 DEF FlushSlots
    <3>3. FlushHands(c)' = {w}
      BY <1>1, <2>1, <2>5, <3>1 DEF FlushHands, OthersStay
    <3>4. Waits(c)' /\ PostedPends(c)'
      BY <1>1, <2>2, <3>1 DEF Waits, PostedPends, PostersStay, SamePlace
    <3>. QED
      BY <1>1, <2>1, <3>1, <3>2, <3>3, <3>4 DEF FlushOnce
  <2>6. CASE ~IsFlushOf(q.v[q.head], c)
    <3>1. \A i \in 0..MaxItems : IsFlushOf(q'.v[i], c) => q'.v[i] = q.v[i]
      BY <2>3, <2>4
    <3>2. \A u \in Workers : IsFlushOf(held'[u], c) => held'[u] = held[u]
      BY <1>1, <2>1, <2>6 DEF OthersStay
    <3>. QED
      BY <1>1, <1>2, <2>2, <3>1, <3>2, FlushStays
  <2>. QED
    BY <2>5, <2>6
<1>4. CASE ~Dequeue(w)
  <2>1. q' = q /\ (held'[w] = held[w] \/ held'[w] = NoItem)
    BY <1>4 DEF WorkerStep, WaitItem, NotifyPop, SinkIt, Flush, Exit, Handle, queueVars
  <2>2. \A u \in Workers : IsFlushOf(held'[u], c) => held'[u] = held[u]
    BY <1>1, <2>1 DEF OthersStay, IsFlushOf
  <2>3. CASE answer'[c] = answer[c]
    BY <1>1, <1>2, <2>1, <2>2, <2>3, FlushStays
  <2>4. CASE answer'[c] # answer[c]
    <3>1. Flush(w)
      BY <1>4, <2>4 DEF WorkerStep, WaitItem, NotifyPop, SinkIt, Flush, Exit, callVars
    <3>2. AnswerFlush(held[w], "set") /\ held'[w] = NoItem
      BY <3>1 DEF Flush, Handle
    <3>3. IsFlushOf(held[w], c)
      BY <2>4, <3>2, AnswersOther
    <3>4. FlushHands(c) = {w} /\ Waits(c) /\ FlushSlots(c) = {}
      BY <1>1, <3>3 DEF FlushOnce, FlushHands
    <3>5. FlushHands(c)' = {} /\ FlushSlots(c)' = {}
      BY <2>1, <2>2, <3>2, <3>4 DEF FlushHands, FlushSlots, IsFlushOf
    <3>6. PostedPends(c)'
      BY <1>1, <3>4 DEF PostedPends, Waits, PostersStay, SamePlace
    <3>. QED
      BY <3>5, <3>6, NoFlushFollows
  <2>. QED
    BY <2>3, <2>4
<1>. QED
  BY <1>3, <1>4

\* Every step keeps a flush in one place.
LEMMA FlushStep ==
  ASSUME IInv, HoldInv, FlushInv, [Next]_vars PROVE FlushInv'
<1>. SUFFICES ASSUME NEW c \in Clients PROVE FlushOnce(c)'
  BY DEF FlushInv
<1>1. ASSUME (\E t \in Threads : SpuriousWake(t)) \/ UNCHANGED vars PROVE FlushOnce(c)'
  <2>1. WorkersStay /\ PostersStay /\ q' = q /\ calls' = calls /\ answer' = answer
    BY <1>1, WakesAlone DEF queueVars, callVars
  <2>2. StaysInPost(c)
    BY <2>1, ThreadKinds DEF StaysInPost, PostersStay, SamePlace
  <2>3. FlushOnce(c)
    BY DEF FlushInv
  <2>. QED
    BY <2>1, <2>2, <2>3, FlushStays DEF WorkersStay
<1>. QED
  BY <1>1, FlushPushed, FlushPosted, FlushWorked, StepCases

\* There is no flush at the start.
LEMMA FlushInit == Init => FlushInv
<1>. SUFFICES ASSUME Init, NEW c \in Clients PROVE FlushOnce(c)
  BY DEF FlushInv
<1>. USE ItemKinds, ThreadKinds
<1>1. \A i \in 0..MaxItems : q.v[i] = NoItem
  BY PoolAssumption DEF Init, NewQ
<1>2. FlushSlots(c) = {} /\ FlushHands(c) = {} /\ PostedPends(c)
  BY <1>1 DEF Init, FlushSlots, FlushHands, PostedPends, IsFlushOf
<1>. QED
  BY <1>2 DEF FlushOnce

-----------------------------------------------------------------------------
\* With one worker the messages of a client stand in the order of its calls:
\* those that its sink took, then the one in the worker's hand, those in the
\* queue, and the one that it posts.
OneWorker == \E w : Workers = {w}
IsOf(m, c) == m \in Message /\ m.from = c
SeqsOf(s, c) == {s[i].seq : i \in {i \in Positions(s, Message) : s[i].from = c}}
InOrder(s) ==
  \A i, j \in Positions(s, Message) : i < j /\ s[i].from = s[j].from => s[i].seq < s[j].seq
Increasing(r) == \A i, j \in 1..Len(r) : i < j => r[i] < r[j]
SunkOf(c) == {sunk[c][i] : i \in 1..Len(sunk[c])}
HandOf(c) == {held[w].seq : w \in {w \in Workers : IsOf(held[w], c)}}
QueueOf(c) == SeqsOf(Contents(q), c)
PostOf(c) == IF Carries(c) THEN {calls[c]} ELSE {}
Ahead(A, B) == \A x \in A, y \in B : x < y
Lined(c) ==
  /\ Increasing(sunk[c])
  /\ Ahead(SunkOf(c), HandOf(c) \cup QueueOf(c) \cup PostOf(c))
  /\ Ahead(HandOf(c), QueueOf(c) \cup PostOf(c))
  /\ Ahead(QueueOf(c), PostOf(c))
  /\ SunkOf(c) \cup HandOf(c) \cup QueueOf(c) \cup PostOf(c) \subseteq 1..calls[c]
OrderInv == InOrder(Contents(q)) /\ \A c \in Clients : Lined(c)

\* A message newer than its client's others is appended.
LEMMA OrderAppend ==
  ASSUME NEW S, NEW s \in Seq(S), NEW m \in S, InOrder(s),
         m \in Message => \A n \in SeqsOf(s, m.from) : n < m.seq
  PROVE  /\ InOrder(Append(s, m))
         /\ \A c, n : n \in SeqsOf(Append(s, m), c) =>
              n \in SeqsOf(s, c) \/ (IsOf(m, c) /\ n = m.seq)
<1>. DEFINE r == Append(s, m)
            k == Len(s) + 1
            P == Positions(s, Message)
            R == Positions(r, Message)
<1>1. /\ r[k] = m /\ (k \in R => m \in Message) /\ k \notin P
      /\ \A i \in R \ {k} : i \in P /\ r[i] = s[i] /\ i < k /\ ~(k < i)
      /\ k \in Nat /\ R \subseteq Nat
  BY DEF Positions
<1>2. \A c : /\ SeqsOf(r, c) = {r[i].seq : i \in {i \in R : r[i].from = c}}
             /\ SeqsOf(s, c) = {s[i].seq : i \in {i \in P : s[i].from = c}}
  BY DEF SeqsOf
<1>3. \A i, j \in P : i < j /\ s[i].from = s[j].from => s[i].seq < s[j].seq
  BY DEF InOrder
<1>. HIDE DEF r, k, P, R
<1>4. ASSUME NEW i \in R, NEW j \in R, i < j, r[i].from = r[j].from PROVE r[i].seq < r[j].seq
  <2>1. i # k /\ i \in P /\ r[i] = s[i]
    BY <1>1, <1>4
  <2>2. CASE j = k
    <3>1. s[i].seq \in SeqsOf(s, m.from)
      BY <1>1, <1>2, <1>4, <2>1, <2>2
    <3>. QED
      BY <1>1, <2>1, <2>2, <3>1
  <2>3. CASE j # k
    BY <1>1, <1>3, <1>4, <2>1, <2>3
  <2>. QED
    BY <2>2, <2>3
<1>5. ASSUME NEW c, NEW n \in SeqsOf(r, c) PROVE n \in SeqsOf(s, c) \/ (IsOf(m, c) /\ n = m.seq)
  <2>1. PICK i \in R : r[i].from = c /\ n = r[i].seq
    BY <1>2, <1>5
  <2>. QED
    BY <1>1, <1>2, <2>1 DEF IsOf
<1>. QED
  BY <1>4, <1>5 DEF InOrder, R, r

\* Without its head a sequence keeps its order.
LEMMA OrderTail ==
  ASSUME NEW S, NEW s \in Seq(S), Len(s) # 0, InOrder(s)
  PROVE  /\ InOrder(Tail(s))
         /\ \A c, n : n \in SeqsOf(Tail(s), c) =>
              n \in SeqsOf(s, c) /\ (IsOf(s[1], c) => s[1].seq < n)
         /\ \A c : IsOf(s[1], c) => s[1].seq \in SeqsOf(s, c)
<1>. DEFINE r == Tail(s)
            P == Positions(s, Message)
            R == Positions(r, Message)
<1>1. Len(r) = Len(s) - 1 /\ \A i \in 1..Len(r) : r[i] = s[i + 1]
  OBVIOUS
<1>2. /\ \A i \in R : i \in Nat /\ i + 1 \in P /\ 1 < i + 1 /\ r[i] = s[i + 1]
      /\ s[1] \in Message => 1 \in P
  BY <1>1 DEF Positions
<1>3. \A c : /\ SeqsOf(r, c) = {r[i].seq : i \in {i \in R : r[i].from = c}}
             /\ SeqsOf(s, c) = {s[i].seq : i \in {i \in P : s[i].from = c}}
  BY DEF SeqsOf
<1>4. \A i, j \in P : i < j /\ s[i].from = s[j].from => s[i].seq < s[j].seq
  BY DEF InOrder
<1>. HIDE DEF r, P, R
<1>5. ASSUME NEW i \in R, NEW j \in R, i < j, r[i].from = r[j].from PROVE r[i].seq < r[j].seq
  <2>1. i + 1 < j + 1
    BY <1>2, <1>5
  <2>. QED
    BY <1>2, <1>4, <1>5, <2>1
<1>6. ASSUME NEW c, NEW n \in SeqsOf(r, c)
      PROVE  n \in SeqsOf(s, c) /\ (IsOf(s[1], c) => s[1].seq < n)
  <2>1. PICK i \in R : r[i].from = c /\ n = r[i].seq
    BY <1>3, <1>6
  <2>2. i + 1 \in P /\ s[i + 1].from = c /\ n = s[i + 1].seq /\ 1 < i + 1
    BY <1>2, <2>1
  <2>3. IsOf(s[1], c) => s[1].seq < n
    BY <1>2, <1>4, <2>2 DEF IsOf
  <2>. QED
    BY <1>3, <2>2, <2>3
<1>7. ASSUME NEW c, IsOf(s[1], c) PROVE s[1].seq \in SeqsOf(s, c)
  BY <1>2, <1>3, <1>7 DEF IsOf
<1>. QED
  BY <1>5, <1>6, <1>7 DEF InOrder, R, r

\* A bounded push of a newer message keeps the order.
LEMMA OrderPushed ==
  ASSUME NEW S, NEW s \in Seq(S), NEW m \in S, InOrder(s),
         m \in Message => \A n \in SeqsOf(s, m.from) : n < m.seq
  PROVE  /\ InOrder(Pushed(s, m))
         /\ \A c, n : n \in SeqsOf(Pushed(s, m), c) =>
              n \in SeqsOf(s, c) \/ (IsOf(m, c) /\ n = m.seq)
<1>. DEFINE r == Append(s, m)
<1>1. r \in Seq(S) /\ Len(r) # 0
  OBVIOUS
<1>2. /\ InOrder(r)
      /\ \A c, n : n \in SeqsOf(r, c) => n \in SeqsOf(s, c) \/ (IsOf(m, c) /\ n = m.seq)
  BY OrderAppend
<1>. HIDE DEF r
<1>3. InOrder(Tail(r)) /\ \A c, n : n \in SeqsOf(Tail(r), c) => n \in SeqsOf(r, c)
  BY <1>1, <1>2, OrderTail
<1>. QED
  BY <1>2, <1>3 DEF Pushed, r

\* What a client posts is the message of its last call.
LEMMA PostedIs ==
  ASSUME IInv, HoldInv, NEW c \in Clients
  PROVE  /\ calls[c] \in Nat
         /\ Carries(c) => pc[c] \in {"post", "wait_room"} /\ IsOf(held[c], c) /\ held[c].seq = calls[c]
         /\ pc[c] \in {"post", "wait_room"} /\ held[c] \in Message => Carries(c)
<1>1. c \notin Workers /\ calls[c] \in Nat
  BY PoolAssumption DEF IInv, CallTypeOK
<1>2. Carries(c) => IsOf(held[c], c) /\ held[c].seq = calls[c]
  BY DEF Carries, IsOf, HoldInv, CallersHold, OwnMessage
<1>. QED
  BY <1>1, <1>2 DEF Carries

\* Messages may go from a place, or on to the next.
LEMMA LineShrinks ==
  ASSUME IInv, NEW c \in Clients, Lined(c), sunk'[c] = sunk[c], HandOf(c)' \subseteq HandOf(c),
         QueueOf(c)' \subseteq QueueOf(c), PostOf(c)' \subseteq PostOf(c),
         calls'[c] \in Nat, calls[c] <= calls'[c]
  PROVE  Lined(c)'
<1>1. SunkOf(c)' = SunkOf(c) /\ Increasing(sunk[c])' = Increasing(sunk[c])
  BY DEF SunkOf, Increasing
<1>2. calls[c] \in Nat /\ 1..calls[c] \subseteq 1..calls'[c]
  BY DEF IInv, CallTypeOK
<1>. QED
  BY <1>1, <1>2 DEF Lined, Ahead

\* All that the sink of a client took is durable, or its last flush threw.
Saved(c) == c \in unflushed \/ durable[c] = Len(sunk[c])
SavedStays(c) == durable'[c] = durable[c] /\ (c \in unflushed' <=> c \in unflushed)

\* A flush that returned covers what its client logged before.
Covered(c) ==
  answer[c] = "set" =>
    HandOf(c) = {} /\ QueueOf(c) = {} /\ PostOf(c) = {} /\ Saved(c)
CoverInv == \A c \in Clients : Covered(c)

\* An answered flush stays covered while nothing older comes back.
LEMMA CoverShrinks ==
  ASSUME NEW c \in Clients, Covered(c), answer'[c] = "set" => answer[c] = "set",
         sunk'[c] = sunk[c], SavedStays(c), HandOf(c)' \subseteq HandOf(c),
         QueueOf(c)' \subseteq QueueOf(c) \cup PostOf(c), PostOf(c)' \subseteq PostOf(c)
  PROVE  Covered(c)'
BY DEF Covered, Saved, SavedStays

\* What a poster's step moves: a message made, or queued, or nothing forward.
PostMoves(c) ==
  \/ /\ QueueOf(c)' \subseteq QueueOf(c) \cup PostOf(c) /\ PostOf(c)' = {} /\ calls'[c] = calls[c]
     /\ answer'[c] = "set" => answer[c] = "set"
  \/ /\ QueueOf(c)' \subseteq QueueOf(c) /\ PostOf(c)' \subseteq PostOf(c)
     /\ calls'[c] \in {calls[c], calls[c] + 1}
     /\ answer'[c] = "set" => answer[c] = "set"
  \/ /\ QueueOf(c)' = QueueOf(c) /\ PostOf(c)' = {calls'[c]} /\ calls'[c] = calls[c] + 1
     /\ answer'[c] # "set"

\* What a client posts stays behind all it posted before.
LEMMA PostMovesKeep ==
  ASSUME IInv, NEW c \in Clients, Lined(c), Covered(c), PostMoves(c),
         sunk' = sunk, SavedStays(c), HandOf(c)' = HandOf(c)
  PROVE  Lined(c)' /\ Covered(c)'
<1>0. calls[c] \in Nat
  BY DEF IInv, CallTypeOK
<1>1. SunkOf(c)' = SunkOf(c) /\ Increasing(sunk[c])' = Increasing(sunk[c])
  BY DEF SunkOf, Increasing
<1>2. CASE /\ QueueOf(c)' \subseteq QueueOf(c) \cup PostOf(c) /\ PostOf(c)' = {}
           /\ calls'[c] = calls[c] /\ (answer'[c] = "set" => answer[c] = "set")
  <2>1. Lined(c)'
    BY <1>1, <1>2 DEF Lined, Ahead
  <2>2. Covered(c)'
    BY <1>2, CoverShrinks
  <2>. QED
    BY <2>1, <2>2
<1>3. CASE /\ QueueOf(c)' \subseteq QueueOf(c) /\ PostOf(c)' \subseteq PostOf(c)
           /\ calls'[c] \in {calls[c], calls[c] + 1}
           /\ answer'[c] = "set" => answer[c] = "set"
  BY <1>0, <1>3, LineShrinks, CoverShrinks
<1>4. CASE /\ QueueOf(c)' = QueueOf(c) /\ PostOf(c)' = {calls'[c]} /\ calls'[c] = calls[c] + 1
           /\ answer'[c] # "set"
  <2>1. \A n \in 1..calls[c] : n < calls'[c] /\ n \in 1..calls'[c]
    BY <1>0, <1>4
  <2>2. calls'[c] \in 1..calls'[c]
    BY <1>0, <1>4
  <2>3. SunkOf(c) \cup HandOf(c) \cup QueueOf(c) \subseteq 1..calls[c]
    BY DEF Lined
  <2>4. Lined(c)'
    BY <1>1, <1>4, <2>1, <2>2, <2>3 DEF Lined, Ahead
  <2>5. Covered(c)'
    BY <1>4 DEF Covered
  <2>. QED
    BY <2>4, <2>5
<1>. QED
  BY <1>2, <1>3, <1>4 DEF PostMoves

\* A poster's step moves messages from the post to the queue only.
LEMMA PosterFlow ==
  ASSUME IInv, Ownership, HoldInv, OrderInv, NEW t \in Posters, PosterMoves(t)
  PROVE  /\ InOrder(Contents(q))' /\ sunk' = sunk /\ durable' = durable /\ unflushed' = unflushed
         /\ \A c \in Clients : HandOf(c)' = HandOf(c) /\ PostMoves(c)
<1>. USE ThreadKinds, ThreadPlaces, ItemKinds
<1>1. WorkersStay /\ OthersStay(Posters, t)
  BY PosterMovesAlone
<1>2. /\ sunk' = sunk /\ durable' = durable /\ unflushed' = unflushed
      /\ \A c : HandOf(c)' = HandOf(c)
  <2>1. \A c : {w \in Workers : IsOf(held'[w], c)} = {w \in Workers : IsOf(held[w], c)}
    BY <1>1 DEF WorkersStay
  <2>2. \A c : HandOf(c)' = HandOf(c)
    BY <1>1, <2>1 DEF HandOf, WorkersStay
  <2>. QED
    BY <2>2 DEF PosterMoves, PostStep, ClientStep, StartCall, RefuseCall, AwaitFlush, Release,
                WaitRoom, Push, Discard, NotifyPush, Join, Shutdown, sinkVars
<1>3. ASSUME NEW c \in Clients, c # t
      PROVE  PostOf(c)' = PostOf(c) /\ calls'[c] = calls[c] /\ (answer'[c] = "set" => answer[c] = "set")
  <2>1. calls'[c] = calls[c]
    BY <1>3 DEF PosterMoves, PostStep, ClientStep, StartCall, RefuseCall, AwaitFlush, Release,
                WaitRoom, Push, Discard, NotifyPush, Join, Shutdown, callVars, IInv, CallTypeOK
  <2>2. PostOf(c)' = PostOf(c)
    BY <1>1, <1>3, <2>1 DEF OthersStay, PostOf, Carries
  <2>3. answer'[c] = "set" => answer[c] = "set"
    BY <1>3 DEF PosterMoves, PostStep, ClientStep, StartCall, RefuseCall, AwaitFlush, Release, AnswerFlush,
                WaitRoom, Push, Discard, NotifyPush, Join, Shutdown, callVars, IInv, CallTypeOK
  <2>. QED
    BY <2>1, <2>2, <2>3
<1>4. CASE Push(t)
  <2>. DEFINE s == Contents(q)
              m == held[t]
  <2>1. /\ s \in Seq(Items \cup {NoItem}) /\ m \in Items \cup {NoItem} /\ Contents(q') = Pushed(s, m)
        /\ pc[t] = "post" /\ pc'[t] = "notify" /\ calls' = calls
    BY <1>4, PushContents DEF Push, Goto
  <2>2. m \in Message => t \in Clients /\ Carries(t) /\ m.from = t /\ m.seq = calls[t]
    BY <2>1, PostedIs DEF HoldInv, CallersHold, Posters, IsOf
  <2>3. m \in Message => \A n \in SeqsOf(s, m.from) : n < m.seq
    BY <2>2 DEF OrderInv, Lined, Ahead, QueueOf, PostOf
  <2>4. InOrder(s)
    BY DEF OrderInv
  <2>5. /\ InOrder(Pushed(s, m))
        /\ \A c, n : n \in SeqsOf(Pushed(s, m), c) => n \in SeqsOf(s, c) \/ (IsOf(m, c) /\ n = m.seq)
    <3>. HIDE DEF s, m
    <3>. QED
      BY <2>1, <2>3, <2>4, OrderPushed
  <2>6. ASSUME NEW c \in Clients PROVE PostMoves(c)
    <3>1. QueueOf(c)' \subseteq QueueOf(c) \cup PostOf(c)
      BY <2>1, <2>2, <2>5 DEF QueueOf, PostOf, IsOf
    <3>2. c # t => QueueOf(c)' \subseteq QueueOf(c)
      BY <2>1, <2>2, <2>5 DEF QueueOf, IsOf
    <3>3. c = t => PostOf(c)' = {} /\ (answer'[c] = "set" => answer[c] = "set")
      BY <1>4, <2>1 DEF PostOf, Carries, Push, AnswerFlush, IInv, CallTypeOK
    <3>. QED
      BY <1>3, <2>1, <3>1, <3>2, <3>3 DEF PostMoves
  <2>. QED
    BY <1>2, <2>1, <2>5, <2>6
<1>5. CASE ~Push(t)
  <2>1. q' = q
    BY <1>5 DEF PosterMoves, PostStep, ClientStep, StartCall, RefuseCall, AwaitFlush, Release,
                WaitRoom, Discard, NotifyPush, Join, Shutdown, queueVars
  <2>2. InOrder(Contents(q))' /\ \A c : QueueOf(c)' = QueueOf(c)
    BY <2>1 DEF QueueOf, OrderInv
  <2>3. ASSUME t \in Clients PROVE PostMoves(t)
    <3>0. calls[t] \in Nat
      BY <2>3 DEF IInv, CallTypeOK
    <3>1. ASSUME NEW kind \in Kinds[t], StartCall(t, kind) PROVE PostMoves(t)
      <4>1. calls'[t] = calls[t] + 1 /\ answer'[t] # "set"
        BY <2>3, <3>1 DEF StartCall, IInv, CallTypeOK
      <4>2. held'[t] = [kind |-> kind, from |-> t, seq |-> calls[t] + 1] /\ pc'[t] = "post"
        BY <3>1 DEF StartCall, Goto
      <4>3. HoldInv'
        BY <2>3, <3>1, HoldStep DEF Next, ClientStep
      <4>4. held'[t] \in Message
        BY <2>3, <4>2, <4>3 DEF HoldInv, CallersHold, InCall, OwnMessage, Terminate
      <4>5. PostOf(t)' = {calls'[t]}
        BY <4>2, <4>4 DEF PostOf, Carries
      <4>. QED
        BY <2>2, <4>1, <4>5 DEF PostMoves
    <3>2. CASE RefuseCall(t)
      <4>1. /\ calls'[t] = calls[t] + 1 /\ answer'[t] # "set" /\ pc' = pc /\ pc[t] = "idle"
        BY <2>3, <3>2 DEF RefuseCall, IInv, CallTypeOK
      <4>2. PostOf(t)' = {}
        BY <4>1 DEF PostOf, Carries
      <4>. QED
        BY <2>2, <4>1, <4>2 DEF PostMoves
    <3>3. CASE AwaitFlush(t) \/ Release(t) \/ WaitRoom(t) \/ Discard(t) \/ NotifyPush(t) \/ Join(t)
      <4>1. calls'[t] = calls[t] /\ (answer'[t] = "set" => answer[t] = "set")
        BY <2>3, <3>3 DEF AwaitFlush, Release, WaitRoom, Discard, NotifyPush, Join, AnswerFlush,
                          callVars, IInv, CallTypeOK
      <4>2. Carries(t)' => Carries(t)
        <5>1. CASE WaitRoom(t)
          BY <5>1 DEF WaitRoom, Goto, Carries
        <5>2. CASE Discard(t) \/ NotifyPush(t)
          <6>1. pc'[t] = AfterPost(t) /\ held' = held
            BY <5>2 DEF Discard, NotifyPush, Goto, At
          <6>2. pc'[t] \in {"post", "wait_room"} => held'[t] = Terminate
            BY <6>1 DEF AfterPost
          <6>. QED
            BY <6>2 DEF Carries
        <5>3. CASE AwaitFlush(t) \/ Release(t) \/ Join(t)
          <6>1. pc'[t] \in {"post", "wait_room"} => held'[t] = Terminate
            BY <5>3 DEF AwaitFlush, Release, Join, DropPool, Goto
          <6>. QED
            BY <6>1 DEF Carries
        <5>. QED
          BY <3>3, <5>1, <5>2, <5>3
      <4>3. PostOf(t)' \subseteq PostOf(t)
        BY <4>1, <4>2 DEF PostOf
      <4>. QED
        BY <2>2, <4>1, <4>3 DEF PostMoves
    <3>4. t # Main
      BY <2>3, PoolAssumption
    <3>. QED
      BY <1>5, <3>1, <3>2, <3>3, <3>4 DEF PosterMoves, PostStep, ClientStep
  <2>4. ASSUME NEW c \in Clients PROVE PostMoves(c)
    <3>1. CASE c = t
      BY <2>3, <3>1
    <3>2. CASE c # t
      BY <1>3, <2>2, <3>2 DEF PostMoves
    <3>. QED
      BY <3>1, <3>2
  <2>. QED
    BY <1>2, <2>2, <2>4
<1>. QED
  BY <1>4, <1>5

\* The one worker's hand.
LEMMA HandIs ==
  ASSUME NEW w, Workers = {w}, NEW c
  PROVE  /\ HandOf(c) = IF IsOf(held[w], c) THEN {held[w].seq} ELSE {}
         /\ HandOf(c)' = IF IsOf(held'[w], c) THEN {held'[w].seq} ELSE {}
<1>1. /\ {u \in Workers : IsOf(held[u], c)} = IF IsOf(held[w], c) THEN {w} ELSE {}
      /\ {u \in Workers : IsOf(held'[u], c)} = IF IsOf(held'[w], c) THEN {w} ELSE {}
  OBVIOUS
<1>. QED
  BY <1>1 DEF HandOf

\* What the one worker moves for a client: the first message into its hand,
\* that message to the sink, or nothing.
WorkMoves(c) ==
  \/ /\ QueueOf(c)' \subseteq QueueOf(c) /\ HandOf(c)' \subseteq HandOf(c)
     /\ sunk'[c] = sunk[c] /\ SavedStays(c) /\ answer'[c] = answer[c]
  \/ /\ HandOf(c)' \subseteq QueueOf(c) /\ QueueOf(c)' \subseteq QueueOf(c) /\ HandOf(c) = {}
     /\ Ahead(HandOf(c)', QueueOf(c)')
     /\ sunk'[c] = sunk[c] /\ SavedStays(c) /\ answer'[c] = answer[c]
  \/ /\ HandOf(c) # {} /\ HandOf(c)' = {} /\ QueueOf(c)' = QueueOf(c)
     /\ sunk'[c] = sunk[c] \/ \E n \in HandOf(c) : sunk'[c] = Append(sunk[c], n)
     /\ answer'[c] = answer[c]
  \/ /\ HandOf(c) = {calls[c]} /\ HandOf(c)' = {} /\ QueueOf(c)' = QueueOf(c)
     /\ sunk'[c] = sunk[c] /\ Saved(c)'

\* A newer message reaches the sink.
LEMMA SunkAppended ==
  ASSUME IInv, NEW c \in Clients, NEW n \in 1..MaxCalls, sunk'[c] = Append(sunk[c], n),
         Increasing(sunk[c]), Ahead(SunkOf(c), {n})
  PROVE  Increasing(sunk'[c]) /\ SunkOf(c)' = SunkOf(c) \cup {n}
<1>. DEFINE s == sunk[c]
            r == Append(s, n)
            k == Len(s) + 1
<1>1. s \in Seq(1..MaxCalls)
  BY DEF IInv, CallTypeOK
<1>2. Len(r) = k /\ r[k] = n /\ \A i \in 1..Len(s) : r[i] = s[i]
  BY <1>1
<1>3. 1..k = 1..Len(s) \cup {k} /\ k \notin 1..Len(s) /\ \A i \in 1..k : ~(k < i)
  BY <1>1
<1>4. \A i \in 1..Len(s) : s[i] < n
  BY DEF Ahead, SunkOf
<1>5. SunkOf(c)' = {r[i] : i \in 1..Len(r)} /\ SunkOf(c) = {s[i] : i \in 1..Len(s)}
  BY DEF SunkOf
<1>. HIDE DEF s, r, k
<1>6. SunkOf(c)' = SunkOf(c) \cup {n}
  BY <1>2, <1>3, <1>5
<1>7. Increasing(r)
  BY <1>2, <1>3, <1>4 DEF Increasing, s
<1>. QED
  BY <1>6, <1>7 DEF r, s

\* What the worker moves stays in its client's order.
LEMMA WorkMovesKeep ==
  ASSUME IInv, NEW c \in Clients, Lined(c), Covered(c), WorkMoves(c),
         calls' = calls, PostOf(c)' = PostOf(c)
  PROVE  Lined(c)' /\ Covered(c)'
<1>0. calls[c] \in 0..MaxCalls /\ MaxCalls \in Nat
  BY PoolAssumption DEF IInv, CallTypeOK
<1>s. sunk'[c] = sunk[c] => SunkOf(c)' = SunkOf(c) /\ Increasing(sunk[c])' = Increasing(sunk[c])
  BY DEF SunkOf, Increasing
<1>1. CASE /\ QueueOf(c)' \subseteq QueueOf(c) /\ HandOf(c)' \subseteq HandOf(c)
           /\ sunk'[c] = sunk[c] /\ SavedStays(c) /\ answer'[c] = answer[c]
  BY <1>0, <1>1, LineShrinks, CoverShrinks
<1>2. CASE /\ HandOf(c)' \subseteq QueueOf(c) /\ QueueOf(c)' \subseteq QueueOf(c) /\ HandOf(c) = {}
           /\ Ahead(HandOf(c)', QueueOf(c)')
           /\ sunk'[c] = sunk[c] /\ SavedStays(c) /\ answer'[c] = answer[c]
  <2>1. Lined(c)'
    BY <1>s, <1>2 DEF Lined, Ahead
  <2>2. Covered(c)'
    BY <1>2 DEF Covered, Saved, SavedStays
  <2>. QED
    BY <2>1, <2>2
<1>3. CASE /\ HandOf(c) # {} /\ HandOf(c)' = {} /\ QueueOf(c)' = QueueOf(c)
           /\ sunk'[c] = sunk[c] \/ \E n \in HandOf(c) : sunk'[c] = Append(sunk[c], n)
           /\ answer'[c] = answer[c]
  <2>1. Covered(c)'
    BY <1>3 DEF Covered
  <2>2. CASE sunk'[c] = sunk[c]
    BY <1>s, <1>3, <2>1, <2>2 DEF Lined, Ahead
  <2>3. CASE \E n \in HandOf(c) : sunk'[c] = Append(sunk[c], n)
    <3>1. PICK n \in HandOf(c) : sunk'[c] = Append(sunk[c], n)
      BY <2>3
    <3>2. n \in 1..calls[c] /\ n \in 1..MaxCalls /\ Increasing(sunk[c]) /\ Ahead(SunkOf(c), {n})
      BY <1>0 DEF Lined, Ahead
    <3>3. Increasing(sunk'[c]) /\ SunkOf(c)' = SunkOf(c) \cup {n}
      BY <3>1, <3>2, SunkAppended
    <3>4. Lined(c)'
      BY <1>3, <3>2, <3>3 DEF Lined, Ahead
    <3>. QED
      BY <2>1, <3>4
  <2>. QED
    BY <1>3, <2>2, <2>3
<1>4. CASE /\ HandOf(c) = {calls[c]} /\ HandOf(c)' = {} /\ QueueOf(c)' = QueueOf(c)
           /\ sunk'[c] = sunk[c] /\ Saved(c)'
  <2>1. Lined(c)'
    BY <1>s, <1>4 DEF Lined, Ahead
  <2>2. QueueOf(c) = {}
    <3>1. ASSUME NEW n \in QueueOf(c) PROVE FALSE
      <4>1. n \in 1..calls[c] /\ calls[c] < n
        BY <1>4, <3>1 DEF Lined, Ahead
      <4>. QED
        BY <1>0, <4>1
    <3>. QED
      BY <3>1
  <2>3. PostOf(c) = {}
    <3>1. ASSUME NEW n \in PostOf(c) PROVE FALSE
      <4>1. n = calls[c] /\ calls[c] < n
        BY <1>4, <3>1 DEF Lined, Ahead, PostOf
      <4>. QED
        BY <1>0, <4>1
    <3>. QED
      BY <3>1
  <2>. QED
    BY <1>4, <2>1, <2>2, <2>3 DEF Covered
<1>. QED
  BY <1>1, <1>2, <1>3, <1>4 DEF WorkMoves

\* The worker's step moves messages from the queue to its hand, to the sink.
LEMMA WorkerFlow ==
  ASSUME IInv, HoldInv, FlushInv, OrderInv, NEW w \in Workers, Workers = {w}, WorkerStep(w)
  PROVE  /\ InOrder(Contents(q))' /\ calls' = calls
         /\ \A c \in Clients : PostOf(c)' = PostOf(c) /\ WorkMoves(c)
<1>. USE ThreadKinds, ThreadPlaces, ItemKinds
<1>1. PostersStay /\ calls' = calls
  BY WorkerMovesAlone DEF WorkerStep, WaitItem, Dequeue, NotifyPop, SinkIt, Flush, Exit, callVars
<1>2. \A c \in Clients : PostOf(c)' = PostOf(c)
  BY <1>1 DEF PostersStay, SamePlace, PostOf, Carries
<1>3. CASE Dequeue(w)
  <2>. DEFINE s == Contents(q)
  <2>1. /\ s \in Seq(Items \cup {NoItem}) /\ Len(s) # 0 /\ Contents(q') = Tail(s)
        /\ held'[w] = s[1] /\ held[w] = NoItem
    BY <1>3, DequeueContents DEF HoldInv, WorkersHold
  <2>2. sunk' = sunk /\ durable' = durable /\ unflushed' = unflushed /\ answer' = answer
    BY <1>3 DEF Dequeue, sinkVars, callVars
  <2>3. InOrder(s)
    BY DEF OrderInv
  <2>4. /\ InOrder(Tail(s))
        /\ \A c, n : n \in SeqsOf(Tail(s), c) =>
             n \in SeqsOf(s, c) /\ (IsOf(s[1], c) => s[1].seq < n)
        /\ \A c : IsOf(s[1], c) => s[1].seq \in SeqsOf(s, c)
    <3>. HIDE DEF s
    <3>. QED
      BY <2>1, <2>3, OrderTail
  <2>5. ASSUME NEW c \in Clients PROVE WorkMoves(c)
    <3>1. HandOf(c) = {} /\ HandOf(c)' = IF IsOf(s[1], c) THEN {s[1].seq} ELSE {}
      BY <2>1, HandIs DEF IsOf
    <3>2. QueueOf(c)' = SeqsOf(Tail(s), c) /\ QueueOf(c) = SeqsOf(s, c)
      BY <2>1 DEF QueueOf
    <3>. HIDE DEF s
    <3>3. HandOf(c)' \subseteq QueueOf(c) /\ QueueOf(c)' \subseteq QueueOf(c) /\ Ahead(HandOf(c)', QueueOf(c)')
      BY <2>4, <3>1, <3>2 DEF Ahead
    <3>. QED
      BY <2>2, <3>1, <3>3 DEF WorkMoves, SavedStays
  <2>. QED
    BY <1>1, <1>2, <2>1, <2>4, <2>5
<1>4. CASE ~Dequeue(w)
  <2>1. q' = q
    BY <1>4 DEF WorkerStep, WaitItem, NotifyPop, SinkIt, Flush, Exit, queueVars
  <2>2. InOrder(Contents(q))' /\ \A c : QueueOf(c)' = QueueOf(c)
    BY <2>1 DEF QueueOf, OrderInv
  <2>3. ASSUME NEW c \in Clients PROVE WorkMoves(c)
    <3>1. CASE WaitItem(w) \/ NotifyPop(w) \/ Exit(w)
      <4>1. /\ sunk' = sunk /\ durable' = durable /\ unflushed' = unflushed /\ answer' = answer
            /\ held'[w] \in {held[w], NoItem}
        BY <3>1 DEF WaitItem, NotifyPop, Exit, sinkVars, callVars
      <4>2. HandOf(c)' \subseteq HandOf(c)
        BY <4>1, HandIs DEF IsOf
      <4>. QED
        BY <2>2, <4>1, <4>2 DEF WorkMoves, SavedStays
    <3>2. CASE SinkIt(w)
      <4>. DEFINE m == held[w]
      <4>1. /\ m \in Message /\ held'[w] = NoItem /\ answer' = answer
            /\ sunk' = sunk \/ sunk' = [sunk EXCEPT ![m.from] = Append(@, m.seq)]
            /\ durable' = durable \/ \E n : durable' = [durable EXCEPT ![m.from] = n]
            /\ unflushed' = unflushed
        BY <3>2 DEF SinkIt, Handle, callVars
      <4>2. CASE m.from = c
        <5>1. HandOf(c) = {m.seq} /\ HandOf(c)' = {}
          BY <4>1, <4>2, HandIs DEF IsOf
        <5>2. sunk'[c] = sunk[c] \/ sunk'[c] = Append(sunk[c], m.seq)
          BY <4>1, <4>2 DEF IInv, CallTypeOK
        <5>. QED
          BY <2>2, <4>1, <5>1, <5>2 DEF WorkMoves
      <4>3. CASE m.from # c
        <5>1. HandOf(c) = {} /\ HandOf(c)' = {}
          BY <4>1, <4>3, HandIs DEF IsOf
        <5>2. sunk'[c] = sunk[c] /\ SavedStays(c)
          BY <4>1, <4>3 DEF IInv, CallTypeOK, SavedStays
        <5>. QED
          BY <2>2, <4>1, <5>1, <5>2 DEF WorkMoves
      <4>. QED
        BY <4>2, <4>3
    <3>3. CASE Flush(w)
      <4>. DEFINE m == held[w]
      <4>1. /\ m \in Message /\ m.kind = "flush" /\ held'[w] = NoItem /\ sunk' = sunk
            /\ AnswerFlush(m, "set")
            /\ \/ /\ durable' = [durable EXCEPT ![m.from] = Len(sunk[m.from])]
                  /\ unflushed' = unflushed \ {m.from}
               \/ durable' = durable /\ unflushed' = unflushed \cup {m.from}
        BY <3>3 DEF Flush, Handle
      <4>2. CASE m.from = c
        <5>1. m.seq = calls[c]
          BY <4>1, <4>2 DEF FlushInv, FlushOnce, FlushHands, IsFlushOf
        <5>2. HandOf(c) = {calls[c]} /\ HandOf(c)' = {}
          BY <4>1, <4>2, <5>1, HandIs DEF IsOf
        <5>3. Saved(c)' /\ sunk'[c] = sunk[c]
          BY <4>1, <4>2 DEF IInv, CallTypeOK, Saved
        <5>. QED
          BY <2>2, <5>2, <5>3 DEF WorkMoves
      <4>3. CASE m.from # c
        <5>1. HandOf(c)' = {}
          BY <4>1, HandIs DEF IsOf
        <5>2. sunk'[c] = sunk[c] /\ SavedStays(c) /\ answer'[c] = answer[c]
          BY <4>1, <4>3 DEF IInv, CallTypeOK, AnswerFlush, SavedStays
        <5>. QED
          BY <2>2, <5>1, <5>2 DEF WorkMoves
      <4>. QED
        BY <4>2, <4>3
    <3>. QED
      BY <1>4, <3>1, <3>2, <3>3 DEF WorkerStep
  <2>. QED
    BY <1>1, <1>2, <2>2, <2>3
<1>. QED
  BY <1>3, <1>4

\* Every step of a pool with one worker keeps the order.
LEMMA OrderStep ==
  ASSUME OneWorker, IInv, Ownership, HoldInv, FlushInv, OrderInv, CoverInv, [Next]_vars
  PROVE  OrderInv' /\ CoverInv'
<1>. USE ThreadKinds
<1>1. ASSUME NEW t \in Posters, PosterMoves(t) PROVE OrderInv' /\ CoverInv'
  <2>1. ASSUME NEW c \in Clients PROVE Lined(c)' /\ Covered(c)'
    BY <1>1, PosterFlow, PostMovesKeep DEF OrderInv, CoverInv, SavedStays
  <2>. QED
    BY <1>1, <2>1, PosterFlow DEF OrderInv, CoverInv
<1>2. ASSUME NEW w \in Workers, WorkerStep(w) PROVE OrderInv' /\ CoverInv'
  <2>1. Workers = {w}
    BY DEF OneWorker
  <2>2. ASSUME NEW c \in Clients PROVE Lined(c)' /\ Covered(c)'
    BY <1>2, <2>1, WorkerFlow, WorkMovesKeep DEF OrderInv, CoverInv
  <2>. QED
    BY <1>2, <2>1, <2>2, WorkerFlow DEF OrderInv, CoverInv
<1>3. ASSUME (\E t \in Threads : SpuriousWake(t)) \/ UNCHANGED vars PROVE OrderInv' /\ CoverInv'
  <2>1. WorkersStay /\ PostersStay /\ UNCHANGED <<queueVars, held, poolVars, callVars, sinkVars>>
    BY <1>3, WakesAlone
  <2>2. /\ q' = q /\ held' = held /\ calls' = calls /\ answer' = answer
        /\ sunk' = sunk /\ durable' = durable /\ unflushed' = unflushed
    BY <2>1 DEF queueVars, callVars, sinkVars
  <2>3. ASSUME NEW c \in Clients PROVE Lined(c)' /\ Covered(c)'
    <3>1. HandOf(c)' = HandOf(c) /\ QueueOf(c)' = QueueOf(c)
      BY <2>2 DEF HandOf, QueueOf
    <3>2. PostOf(c)' = PostOf(c)
      BY <2>1, <2>2 DEF PostersStay, SamePlace, PostOf, Carries
    <3>3. Lined(c) /\ Covered(c) /\ calls[c] \in Nat
      BY DEF OrderInv, CoverInv, IInv, CallTypeOK
    <3>. QED
      BY <2>2, <3>1, <3>2, <3>3, LineShrinks, CoverShrinks DEF SavedStays
  <2>4. InOrder(Contents(q))'
    BY <2>2 DEF OrderInv
  <2>. QED
    BY <2>3, <2>4 DEF OrderInv, CoverInv
<1>. QED
  BY <1>1, <1>2, <1>3, StepCases

\* Nothing is posted at the start.
LEMMA OrderInit == Init => OrderInv /\ CoverInv
<1>. SUFFICES ASSUME Init PROVE OrderInv /\ CoverInv
  OBVIOUS
<1>. USE ItemKinds, ThreadKinds
<1>1. IInv /\ Size(q) = 0
  BY InitIInv DEF Init, NewQ, Size
<1>2. Positions(Contents(q), Message) = {}
  BY <1>1, ContentsType DEF Positions
<1>3. InOrder(Contents(q)) /\ \A c : QueueOf(c) = {}
  BY <1>2 DEF InOrder, QueueOf, SeqsOf
<1>4. ASSUME NEW c \in Clients PROVE Lined(c) /\ Covered(c)
  <2>1. HandOf(c) = {}
    BY DEF Init, HandOf, IsOf
  <2>2. PostOf(c) = {}
    BY DEF Init, PostOf, Carries
  <2>3. sunk[c] = <<>> /\ answer[c] = "none"
    BY DEF Init
  <2>4. SunkOf(c) = {} /\ Increasing(sunk[c])
    BY <2>3 DEF SunkOf, Increasing
  <2>. QED
    BY <1>3, <2>1, <2>2, <2>3, <2>4 DEF Lined, Ahead, Covered
<1>. QED
  BY <1>3, <1>4 DEF OrderInv, CoverInv

\* With one worker each sink takes the messages of a client in the order of
\* its calls, none twice, whatever the policies drop.
THEOREM SinkKeepsOrder == OneWorker => (Spec => []SinkInOrder)
<1>. SUFFICES ASSUME OneWorker PROVE Spec => []SinkInOrder
  OBVIOUS
<1>1. OrderInv => SinkInOrder
  BY DEF OrderInv, Lined, Increasing, SinkInOrder
<1>. QED
  BY <1>1, OrderInit, OrderStep, FlushInit, FlushStep, HoldInit, HoldStep, OwnershipInit, OwnershipStep,
     Invariance, PTL DEF Spec

\* With one worker a flush that returned covers every earlier message of its
\* client: none is on its way, and all that its sink took is durable unless
\* the sink threw in that flush.
THEOREM FlushCoversAll == OneWorker => (Spec => []FlushCovers)
<1>. SUFFICES ASSUME OneWorker PROVE Spec => []FlushCovers
  OBVIOUS
<1>1. IInv /\ HoldInv /\ CoverInv => FlushCovers
  <2>. SUFFICES ASSUME IInv, HoldInv, CoverInv, NEW c \in Clients, answer[c] = "set"
                PROVE  /\ \A i \in InQueue : Contents(q)[i].from # c
                       /\ \A w \in Workers : held[w] \in Message => held[w].from # c
                       /\ Saved(c)
    BY DEF FlushCovers, Saved
  <2>1. HandOf(c) = {} /\ QueueOf(c) = {} /\ Saved(c)
    BY DEF CoverInv, Covered
  <2>2. \A i \in InQueue : Contents(q)[i].from # c
    BY <2>1, PlacesAre DEF QueueOf, SeqsOf
  <2>3. \A w \in Workers : held[w] \in Message => held[w].from # c
    BY <2>1 DEF HandOf, IsOf
  <2>. QED
    BY <2>1, <2>2, <2>3
<1>. QED
  BY <1>1, OrderInit, OrderStep, FlushInit, FlushStep, HoldInit, HoldStep, OwnershipInit, OwnershipStep,
     Invariance, PTL DEF Spec

=============================================================================

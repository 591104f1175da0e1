--------------------------- MODULE RegistryProofs ---------------------------
(***************************************************************************)
(* Theorems of Registry: a pool driven by the registry is a pool, so what  *)
(* AsyncPoolProofs proves holds here too, flush_every leaves one flusher   *)
(* behind, shutdown takes it down before it lets go of the pool, and after *)
(* shutdown nothing is left.                                               *)
(***************************************************************************)
EXTENDS Registry, AsyncPoolProofs

\* Each step of the registry is a step of AsyncPool or leaves it alone.
LEMMA RegistryStepIsPoolStep == [RegistryNext]_allVars => [Next]_vars
<1>1. ASSUME NEW u \in Users, UserStart(u) \/ UserStep(u) PROVE [Next]_vars
  <2>1. u \in Clients
    BY DEF Users
  <2>2. CASE Log(u) \/ ApplyLog(u)
    BY <2>1, <2>2 DEF Log, ApplyLog, Next, ClientStep
  <2>3. CASE ~(Log(u) \/ ApplyLog(u))
    BY <1>1, <2>3 DEF UserStart, UserStep, CallGet, LetGo, CallApplyAll, Drop, Get, ApplyLock, ApplyReturn
  <2>. QED
    BY <2>2, <2>3
<1>2. ASSUME NEW g \in Flushers, FlushLogger(g) PROVE [Next]_vars
  <2>1. g \in Clients /\ "flush" \in Kinds[g]
    BY RegistryAssumption
  <2>. QED
    BY <1>2, <2>1 DEF FlushLogger, Next, ClientStep
<1>3. ASSUME NEW g \in Flushers,
             FlushEvery(g) \/ FlushAllLock(g) \/ FlushAllReturn(g) \/ FlusherExit(g) \/ Tick(g)
      PROVE  [Next]_vars
  BY <1>3 DEF FlushEvery, FlushAllLock, FlushAllReturn, FlusherExit, Tick
<1>4. ASSUME FlushNever \/ CallShutdown \/ MainStep PROVE [Next]_vars
  BY <1>4 DEF FlushNever, CallShutdown, MainStep, StopFlusher, JoinFlusher, DropAll, ResetPool,
              ShutdownReturn, Next
<1>5. ASSUME NEW c \in Clients, CallStep(c) PROVE [Next]_vars
  BY <1>5 DEF CallStep, Next, ClientStep
<1>6. ASSUME NEW t \in Posters, PoolStep(t) PROVE [Next]_vars
  BY <1>6 DEF PoolStep, Next
<1>7. ASSUME NEW w \in Workers, WorkStep(w) PROVE [Next]_vars
  BY <1>7 DEF WorkStep, Next
<1>8. ASSUME NEW t \in Threads, WakeStep(t) PROVE [Next]_vars
  BY <1>8 DEF WakeStep, Next
<1>9. ASSUME UNCHANGED allVars PROVE [Next]_vars
  BY <1>9 DEF allVars
<1>. QED
  BY <1>1, <1>2, <1>3, <1>4, <1>5, <1>6, <1>7, <1>8, <1>9 DEF RegistryNext, FlusherStep

\* Whatever the registry does, the pool, its queue and its threads behave as
\* AsyncPool says: every theorem about Spec holds of RegistrySpec.
THEOREM RegistryPool == RegistrySpec => Spec
<1>1. RegistryInit => Init
  BY DEF RegistryInit
<1>. QED
  BY <1>1, RegistryStepIsPoolStep, PTL DEF RegistrySpec, Spec

-----------------------------------------------------------------------------
\* logger_map_mutex_ and the places that hold it.
MapInv == RegistryTypeOK /\ MapHeldInside

\* The users and the flushers are two kinds of clients, and no thread is free.
LEMMA Kinds2 ==
  /\ Users \subseteq Clients /\ Flushers \subseteq Clients
  /\ \A u \in Users, g \in Flushers : u # g
  /\ NoThread \notin Clients
BY RegistryAssumption DEF Users, Threads, Posters

\* Where one flusher goes, and what its step does to the mutex of the map.
LEMMA FlusherMoves ==
  ASSUME MapInv, NEW g \in Flushers, NEW l, FlusherGoto(g, l),
         l \in {"waiting", "lock_map", "flush", "flushing", "exited"},
         UNCHANGED <<registered, user>>,
         RegistryTypeOK' \/ UNCHANGED <<mainVars, active>>,
         \/ UNCHANGED map /\ (l \in {"flush", "flushing"} <=> flusher[g] \in {"flush", "flushing"})
         \/ map = NoThread /\ map' = g /\ l = "flush"
         \/ map = g /\ map' = NoThread /\ l = "waiting"
  PROVE  MapInv'
<1>. USE Kinds2 DEF MapInv, RegistryTypeOK, MapHeldInside, FlusherGoto, mainVars
<1>1. RegistryTypeOK'
  OBVIOUS
<1>2. ASSUME NEW h \in Flushers PROVE flusher'[h] = IF h = g THEN l ELSE flusher[h]
  OBVIOUS
<1>3. ASSUME NEW h \in Flushers PROVE (flusher[h] \in {"flush", "flushing"} <=> map = h)'
  BY <1>2
<1>4. ASSUME NEW u \in Users PROVE (user[u] \in {"applying", "applied"} <=> map = u)'
  OBVIOUS
<1>. QED
  BY <1>1, <1>3, <1>4

\* No step breaks it.
LEMMA MapStep == MapInv /\ [RegistryNext]_allVars => MapInv'
<1>. SUFFICES ASSUME MapInv, [RegistryNext]_allVars PROVE MapInv'
  OBVIOUS
<1>. USE DEF MapInv, RegistryTypeOK, MapHeldInside
<1>1. ASSUME NEW u \in Users, UserStart(u) PROVE MapInv'
  BY ZenonT(60), <1>1, Kinds2 DEF UserStart, CallGet, Log, LetGo, CallApplyAll, Drop, UserGoto,
     registryVars, mainVars, flusherVars
<1>2. ASSUME NEW u \in Users, UserStep(u) PROVE MapInv'
  <2>. USE DEF mainVars, flusherVars
  <2>1. CASE Get(u)
    BY <2>1, Kinds2 DEF Get, UserGoto
  <2>2. CASE ApplyLock(u)
    BY <2>2, Kinds2 DEF ApplyLock, UserGoto
  <2>3. CASE ApplyLog(u)
    BY <2>3, Kinds2 DEF ApplyLog, UserGoto
  <2>4. CASE ApplyReturn(u)
    BY <2>4, Kinds2 DEF ApplyReturn, UserGoto
  <2>. QED
    BY <1>2, <2>1, <2>2, <2>3, <2>4 DEF UserStep
<1>3. ASSUME NEW g \in Flushers, Tick(g) \/ FlusherStep(g) PROVE MapInv'
  <2>. flusher[g] \in {"flush", "flushing"} <=> map = g
    OBVIOUS
  <2>1. CASE Tick(g)
    BY <2>1, FlusherMoves DEF Tick
  <2>2. CASE FlushAllLock(g)
    BY <2>2, FlusherMoves DEF FlushAllLock
  <2>3. CASE FlushLogger(g)
    BY <2>3, FlusherMoves DEF FlushLogger
  <2>4. CASE FlushAllReturn(g)
    BY <2>4, FlusherMoves DEF FlushAllReturn
  <2>5. CASE FlusherExit(g)
    BY <2>5, FlusherMoves DEF FlusherExit
  <2>. QED
    BY <1>3, <2>1, <2>2, <2>3, <2>4, <2>5 DEF FlusherStep
<1>4. ASSUME NEW g \in Flushers, FlushEvery(g) PROVE MapInv'
  <2>1. RegistryTypeOK'
    BY <1>4 DEF FlushEvery, FlusherGoto, Retire
  <2>. QED
    BY <1>4, <2>1, FlusherMoves DEF FlushEvery
<1>5. ASSUME FlushNever \/ CallShutdown \/ MainStep PROVE MapInv'
  <2>1. UNCHANGED <<map, flusher, user>>
    BY <1>5 DEF FlushNever, CallShutdown, MainStep, StopFlusher, JoinFlusher, DropAll, ResetPool,
                ShutdownReturn, flusherVars
  <2>2. RegistryTypeOK'
    BY <1>5, <2>1 DEF FlushNever, CallShutdown, Retire, MainStep, StopFlusher, JoinFlusher, DropAll,
                      ResetPool, ShutdownReturn, flusherVars
  <2>. QED
    BY <2>1, <2>2
<1>6. ASSUME UNCHANGED registryVars PROVE MapInv'
  BY <1>6 DEF registryVars, mainVars, flusherVars
<1>. QED
  BY <1>1, <1>2, <1>3, <1>4, <1>5, <1>6 DEF RegistryNext, CallStep, PoolStep, WorkStep, WakeStep, allVars

\* It holds at the start.
LEMMA MapInit == RegistryInit => MapInv
BY RegistryAssumption DEF RegistryInit, MapInv, RegistryTypeOK, MapHeldInside,
                          Users, Threads, Posters

\* The mutex of the map is held exactly inside flush_all and apply_all, the
\* calls they make included.
THEOREM MapMutex == RegistrySpec => [](RegistryTypeOK /\ MapHeldInside)
BY MapInit, MapStep, PTL DEF RegistrySpec, MapInv

-----------------------------------------------------------------------------
\* One flusher replaces another: while Main destroys a worker that worker is
\* the retired one, it only exits once told to stop, and in shutdown no other
\* is left.
Stopping == main \in {"stop_flusher", "join_flusher"}
FlusherInv ==
  /\ OneFlusher
  /\ Stopping => retired \in Flushers
  /\ main = "join_flusher" => ~InCallback(retired) /\ ~active[retired]
  /\ main \notin {"run", "stop_flusher", "join_flusher"} \/ (Stopping /\ after = "drop_all") =>
       periodic = NoThread

\* Every step keeps it.
LEMMA FlusherStepInv == MapInv /\ FlusherInv /\ [RegistryNext]_allVars => FlusherInv'
<1>. SUFFICES ASSUME MapInv, FlusherInv, [RegistryNext]_allVars PROVE FlusherInv'
  OBVIOUS
<1>. USE DEF FlusherInv, OneFlusher, Stopping, InCallback
<1>1. ASSUME UNCHANGED <<mainVars, flusherVars>> PROVE FlusherInv'
  BY <1>1 DEF mainVars, flusherVars
<1>2. ASSUME NEW u \in Users, UserStart(u) \/ UserStep(u) PROVE FlusherInv'
  BY <1>1, <1>2 DEF UserStart, UserStep, CallGet, Log, LetGo, CallApplyAll, Drop, Get, ApplyLock, ApplyLog,
                    ApplyReturn, registryVars
<1>3. ASSUME NEW g \in Flushers, Tick(g) \/ FlusherStep(g) PROVE FlusherInv'
  <2>1. UNCHANGED mainVars /\ UNCHANGED active
    BY <1>3 DEF Tick, FlusherStep, FlushAllLock, FlushLogger, FlushAllReturn, FlusherExit
  <2>2. PICK l : FlusherGoto(g, l) /\ (l \in {"lock_map", "flush", "flushing"} => InCallback(g) \/ active[g])
    BY <1>3 DEF Tick, FlusherStep, FlushAllLock, FlushLogger, FlushAllReturn, FlusherExit
  <2>3. flusher[g] \notin {"off", "exited"}
    BY <1>3 DEF Tick, FlusherStep, FlushAllLock, FlushLogger, FlushAllReturn, FlusherExit
  <2>4. \A h \in Flushers : flusher'[h] = IF h = g THEN l ELSE flusher[h]
    BY <2>2 DEF MapInv, RegistryTypeOK, FlusherGoto
  <2>. QED
    BY <2>1, <2>2, <2>3, <2>4 DEF mainVars
<1>4. ASSUME NEW g \in Flushers, FlushEvery(g) PROVE FlusherInv'
  <2>1. \A h \in Flushers : flusher'[h] = IF h = g THEN "waiting" ELSE flusher[h]
    BY <1>4 DEF FlushEvery, FlusherGoto, MapInv, RegistryTypeOK
  <2>2. /\ main = "run" /\ after' = "run" /\ periodic' = g /\ retired' = periodic
        /\ main' = IF periodic = NoThread THEN "run" ELSE "stop_flusher"
    BY <1>4 DEF FlushEvery, Retire
  <2>3. \A h \in Flushers : flusher[h] \in {"off", "exited"} \/ h = periodic
    BY <2>2
  <2>4. periodic \in Flushers \cup {NoThread} /\ NoThread \notin Flushers
    BY Kinds2 DEF MapInv, RegistryTypeOK
  <2>5. OneFlusher'
    BY <2>1, <2>2, <2>3, <2>4
  <2>. QED
    BY <2>2, <2>4, <2>5
<1>5. ASSUME FlushNever \/ CallShutdown PROVE FlusherInv'
  BY <1>5, Kinds2 DEF FlushNever, CallShutdown, Retire, flusherVars, MapInv, RegistryTypeOK
<1>6. CASE StopFlusher
  BY <1>6 DEF StopFlusher, MapInv, RegistryTypeOK
<1>7. CASE JoinFlusher
  BY <1>7 DEF JoinFlusher, flusherVars, MapInv, RegistryTypeOK
<1>8. CASE DropAll \/ ResetPool \/ ShutdownReturn
  BY <1>8 DEF DropAll, ResetPool, ShutdownReturn, flusherVars
<1>. QED
  BY <1>1, <1>2, <1>3, <1>4, <1>5, <1>6, <1>7, <1>8
     DEF RegistryNext, MainStep, CallStep, PoolStep, WorkStep, WakeStep, allVars, registryVars

\* It holds at the start.
LEMMA FlusherInit == RegistryInit => FlusherInv
BY DEF RegistryInit, FlusherInv, OneFlusher, Stopping

\* Two flushers run only inside the flush_every that replaces one by the
\* other.
THEOREM OneFlusherRuns == RegistrySpec => []OneFlusher
<1>1. FlusherInv => OneFlusher
  BY DEF FlusherInv
<1>. QED
  BY <1>1, MapInit, MapStep, FlusherInit, FlusherStepInv, PTL DEF RegistrySpec

-----------------------------------------------------------------------------
\* A flusher that is not in a call of its logger is an idle thread, and until
\* shutdown gets to the pool Main owns it.
OwnedInv ==
  /\ \A g \in Flushers : flusher[g] # "flushing" => pc[g] = "idle"
  /\ main \notin {"resetting", "returned"} => Main \in owners

KeepsIdle(c) == pc[c] = "idle" => pc'[c] = "idle"
KeepsMain == Main \in owners => Main \in owners'

\* Only a call of its own makes an idle client's thread busy, and only Main
\* gives up Main's reference.
LEMMA IdleStaysIdle ==
  ASSUME ThreadInv, NEW c \in Clients,
         \/ \E k \in Clients \ {c} : (\E kind \in {"log", "flush"} : StartCall(k, kind)) \/ RefuseCall(k)
         \/ \E k \in Clients : AwaitFlush(k) \/ Release(k)
         \/ \E t \in Posters : PostStep(t)
         \/ \E w \in Workers : WorkerStep(w)
         \/ \E t \in Threads : SpuriousWake(t)
  PROVE  KeepsIdle(c) /\ KeepsMain
<1>. USE ThreadKinds DEF KeepsIdle, KeepsMain
<1>t. pc \in [Threads -> PosterStates \cup WorkerStates] /\ c \in Threads /\ c \notin Workers /\ Main \notin Clients
  BY PoolAssumption DEF ThreadInv, ThreadTypeOK
<1>1. ASSUME NEW k \in Clients \ {c}, (\E kind \in {"log", "flush"} : StartCall(k, kind)) \/ RefuseCall(k)
      PROVE  KeepsIdle(c) /\ KeepsMain
  BY <1>1, <1>t DEF StartCall, RefuseCall, Goto, poolVars
<1>2. ASSUME NEW k \in Clients, AwaitFlush(k) \/ Release(k)
      PROVE  KeepsIdle(c) /\ KeepsMain
  BY <1>2, <1>t DEF AwaitFlush, Release, DropPool, Goto, poolVars
<1>3. ASSUME NEW t \in Posters, PostStep(t)
      PROVE  KeepsIdle(c) /\ KeepsMain
  <2>1. pc[t] # "idle" /\ owners' = owners
    BY <1>3 DEF PostStep, WaitRoom, Push, Discard, NotifyPush, Join, poolVars
  <2>2. PICK l : \/ pc' = [pc EXCEPT ![t] = l]
                 \/ \E w \in Workers : pc' = [pc EXCEPT ![w] = "dequeue", ![t] = l]
    BY <1>3 DEF PostStep, WaitRoom, Push, Discard, NotifyPush, Join, Goto, At
  <2>. QED
    BY <1>t, <2>1, <2>2
<1>4. ASSUME NEW w \in Workers, WorkerStep(w)
      PROVE  KeepsIdle(c) /\ KeepsMain
  <2>1. owners' = owners
    BY <1>4 DEF WorkerStep, WaitItem, Dequeue, NotifyPop, SinkIt, Flush, Exit, poolVars
  <2>2. PICK l : \/ pc' = [pc EXCEPT ![w] = l]
                 \/ \E t \in Posters : /\ pc[t] = "wait_room"
                                       /\ pc' = [pc EXCEPT ![t] = "post", ![w] = l]
    BY <1>4 DEF WorkerStep, WaitItem, Dequeue, NotifyPop, SinkIt, Flush, Exit, Handle, Goto, At
  <2>. QED
    BY <1>t, <2>1, <2>2
<1>5. ASSUME NEW t \in Threads, SpuriousWake(t)
      PROVE  KeepsIdle(c) /\ KeepsMain
  BY <1>5, <1>t DEF SpuriousWake, Goto, poolVars
<1>. QED
  BY <1>1, <1>2, <1>3, <1>4, <1>5

\* A step of the pool alone keeps the invariant.
LEMMA PoolStepOwned ==
  ASSUME OwnedInv, UNCHANGED <<main, flusher>>, \A g \in Flushers : KeepsIdle(g), KeepsMain
  PROVE  OwnedInv'
BY DEF OwnedInv, KeepsIdle, KeepsMain

\* Every step keeps it.
LEMMA OwnedStep == ThreadInv /\ MapInv /\ OwnedInv /\ [RegistryNext]_allVars => OwnedInv'
<1>. SUFFICES ASSUME ThreadInv, MapInv, OwnedInv, [RegistryNext]_allVars PROVE OwnedInv'
  OBVIOUS
<1>u. Kinds \in [Clients -> SUBSET {"log", "flush"}] /\ Main \notin Clients
  BY PoolAssumption
<1>0. ASSUME UNCHANGED <<vars, main, flusher>> PROVE OwnedInv'
  BY <1>0 DEF vars, poolVars, OwnedInv
<1>1. ASSUME NEW u \in Users, UserStart(u) \/ UserStep(u) PROVE OwnedInv'
  <2>1. UNCHANGED <<main, flusher>>
    BY <1>1 DEF UserStart, UserStep, CallGet, Log, LetGo, CallApplyAll, Drop, Get, ApplyLock, ApplyLog,
                ApplyReturn, registryVars, mainVars, flusherVars
  <2>2. CASE Log(u) \/ ApplyLog(u)
    <3>1. u \in Clients /\ Kinds[u] \subseteq {"log", "flush"}
      BY <1>u, Kinds2
    <3>2. (\E kind \in {"log", "flush"} : StartCall(u, kind)) \/ RefuseCall(u)
      BY <2>2, <3>1 DEF Log, ApplyLog
    <3>3. ASSUME NEW g \in Flushers PROVE KeepsIdle(g) /\ KeepsMain
      <4>1. g \in Clients /\ u \in Clients \ {g}
        BY <3>1, Kinds2
      <4>. QED
        BY <3>2, <4>1, IdleStaysIdle
    <3>4. KeepsMain
      BY <1>u, <3>2 DEF StartCall, RefuseCall, KeepsMain, poolVars
    <3>. QED
      BY <2>1, <3>3, <3>4, PoolStepOwned
  <2>3. CASE UNCHANGED vars
    BY <2>1, <2>3, <1>0
  <2>. QED
    BY <1>1, <2>2, <2>3 DEF UserStart, UserStep, CallGet, LetGo, CallApplyAll, Drop, Get, ApplyLock, ApplyReturn
<1>2. ASSUME NEW g \in Flushers,
             FlushEvery(g) \/ Tick(g) \/ FlushAllLock(g) \/ FlushAllReturn(g) \/ FlusherExit(g)
      PROVE  OwnedInv'
  <2>1. UNCHANGED vars
    BY <1>2 DEF FlushEvery, Tick, FlushAllLock, FlushAllReturn, FlusherExit
  <2>2. PICK l : FlusherGoto(g, l) /\ (l # "flushing" => pc[g] = "idle")
    BY <1>2 DEF FlushEvery, Tick, FlushAllLock, FlushAllReturn, FlusherExit, OwnedInv
  <2>3. UNCHANGED <<pc, owners>> /\ (main' = main \/ (main = "run" /\ main' \notin {"resetting", "returned"}))
    BY <1>2, <2>1 DEF vars, poolVars, FlushEvery, Retire, Tick, FlushAllLock, FlushAllReturn, FlusherExit, mainVars
  <2>4. \A h \in Flushers : flusher'[h] = IF h = g THEN l ELSE flusher[h]
    BY <2>2 DEF MapInv, RegistryTypeOK, FlusherGoto
  <2>. QED
    BY <2>2, <2>3, <2>4 DEF OwnedInv
<1>3. ASSUME NEW g \in Flushers, FlushLogger(g) PROVE OwnedInv'
  <2>1. g \in Clients
    BY Kinds2
  <2>2. KeepsMain
    BY <1>3, <1>u, <2>1 DEF FlushLogger, StartCall, RefuseCall, KeepsMain, poolVars
  <2>3. \A h \in Flushers : flusher'[h] = IF h = g THEN "flushing" ELSE flusher[h]
    BY <1>3 DEF FlushLogger, FlusherGoto, MapInv, RegistryTypeOK
  <2>4. ASSUME NEW h \in Flushers \ {g} PROVE KeepsIdle(h)
    <3>1. h \in Clients /\ g \in Clients \ {h}
      BY Kinds2
    <3>. QED
      BY <1>3, <3>1, IdleStaysIdle DEF FlushLogger
  <2>. QED
    BY <1>3, <2>2, <2>3, <2>4 DEF FlushLogger, mainVars, OwnedInv, KeepsMain, KeepsIdle
<1>4. ASSUME FlushNever \/ CallShutdown \/ StopFlusher \/ JoinFlusher \/ DropAll
      PROVE  OwnedInv'
  BY <1>4 DEF FlushNever, CallShutdown, Retire, StopFlusher, JoinFlusher, DropAll, OwnedInv, flusherVars,
              vars, poolVars, MapInv, RegistryTypeOK
<1>5. ASSUME ShutdownReturn PROVE OwnedInv'
  BY <1>5 DEF ShutdownReturn, OwnedInv, flusherVars, vars, poolVars
<1>6. ASSUME ResetPool PROVE OwnedInv'
  <2>1. ASSUME NEW g \in Flushers PROVE KeepsIdle(g)
    <3>1. g \in Clients /\ g # Main
      BY <1>u, Kinds2
    <3>. QED
      BY <1>6, <3>1, ThreadKinds
         DEF ResetPool, Shutdown, DropPool, Goto, KeepsIdle, ThreadInv, ThreadTypeOK
  <2>. QED
    BY <1>6, <2>1 DEF ResetPool, OwnedInv, KeepsIdle, flusherVars
<1>7. ASSUME UNCHANGED <<main, flusher>>, \A g \in Flushers : KeepsIdle(g), KeepsMain PROVE OwnedInv'
  BY <1>7, PoolStepOwned
<1>8. ASSUME UNCHANGED registryVars,
             \/ \E c \in Clients : AwaitFlush(c) \/ Release(c)
             \/ \E t \in Posters : PostStep(t)
             \/ \E w \in Workers : WorkerStep(w)
             \/ \E t \in Threads : SpuriousWake(t)
      PROVE  OwnedInv'
  <2>1. UNCHANGED <<main, flusher>>
    BY <1>8 DEF registryVars, mainVars, flusherVars
  <2>2. ASSUME NEW c \in Clients PROVE KeepsIdle(c) /\ KeepsMain
    BY <1>8, IdleStaysIdle
  <2>3. KeepsMain
    BY <1>8, <1>u DEF AwaitFlush, Release, DropPool, PostStep, WaitRoom, Push, Discard, NotifyPush, Join,
       WorkerStep, WaitItem, Dequeue, NotifyPop, SinkIt, Flush, Exit, SpuriousWake, poolVars, KeepsMain
  <2>. QED
    BY <1>7, <2>1, <2>2, <2>3, Kinds2
<1>. QED
  BY <1>0, <1>1, <1>2, <1>3, <1>4, <1>5, <1>6, <1>8
     DEF RegistryNext, FlusherStep, MainStep, CallStep, PoolStep, WorkStep, WakeStep, allVars, registryVars,
         mainVars, flusherVars

\* No periodic flush runs without the registry's reference to the pool: a
\* flusher is never refused by, and never destroys, the pool.
THEOREM FlusherStopsFirst == RegistrySpec => []PeriodicFlushOwned
<1>1. RegistryInit => FlusherInv /\ MapInv /\ OwnedInv
  BY MapInit, FlusherInit, RegistryAssumption, PoolAssumption
     DEF RegistryInit, Init, OwnedInv, Threads, Posters
<1>2. FlusherInv /\ MapInv /\ OwnedInv => PeriodicFlushOwned
  <2>. SUFFICES ASSUME FlusherInv, MapInv, OwnedInv PROVE PeriodicFlushOwned
    OBVIOUS
  <2>1. ASSUME main \in {"drop_all", "reset_tp", "resetting", "returned"}, NEW g \in Flushers
        PROVE  flusher[g] \in {"off", "exited"}
    BY <2>1, Kinds2 DEF FlusherInv, OneFlusher, Stopping, MapInv, RegistryTypeOK
  <2>2. ASSUME NEW g \in Flushers, InCallback(g) \/ pc[g] # "idle" PROVE Main \in owners
    BY <2>1, <2>2 DEF OwnedInv, InCallback
  <2>. QED
    BY <2>1, <2>2 DEF PeriodicFlushOwned
<1>3. RegistrySpec => []ThreadInv
  BY RegistryPool, Invariance, PTL DEF IInv
<1>. QED
  BY <1>1, <1>2, <1>3, MapStep, FlusherStepInv, OwnedStep, PTL DEF RegistrySpec

-----------------------------------------------------------------------------
\* What is gone for good as shutdown proceeds: the logger and the mutex that
\* guarded it, Main's reference to the pool, and Main's part in the pool.
ReleaseInv ==
  /\ main \in {"reset_tp", "resetting", "returned"} => ~registered /\ map = NoThread
  /\ main \in {"resetting", "returned"} => Main \notin owners
  /\ main = "returned" => pc[Main] = "idle"

\* Main never takes the pool again, and an idle Main without it stays idle.
LEMMA MainStaysOut ==
  ASSUME IInv, [Next]_vars, Main \notin owners
  PROVE  Main \notin owners' /\ (pc[Main] = "idle" => pc'[Main] = "idle")
<1>. USE ThreadKinds, PoolAssumption
<1>1. ASSUME NEW t \in Posters, PosterMoves(t)
      PROVE  Main \notin owners' /\ (pc[Main] = "idle" => pc'[Main] = "idle")
  <2>1. Main \notin owners'
    BY <1>1 DEF PosterMoves, PostStep, ClientStep, StartCall, RefuseCall, AwaitFlush, Release, DropPool,
                WaitRoom, Push, Discard, NotifyPush, Join, Shutdown, poolVars
  <2>2. CASE t # Main
    BY <1>1, <2>1, <2>2, PosterMovesAlone DEF OthersStay
  <2>3. CASE t = Main
    <3>1. pc[Main] # "idle"
      BY <1>1, <2>3 DEF PosterMoves, PostStep, WaitRoom, Push, Discard, NotifyPush, Join, Shutdown
    <3>. QED
      BY <2>1, <3>1
  <2>. QED
    BY <2>2, <2>3
<1>2. ASSUME NEW w \in Workers, WorkerStep(w)
      PROVE  Main \notin owners' /\ (pc[Main] = "idle" => pc'[Main] = "idle")
  <2>1. owners' = owners
    BY <1>2 DEF WorkerStep, WaitItem, Dequeue, NotifyPop, SinkIt, Flush, Exit, poolVars
  <2>. QED
    BY <1>2, <2>1, WorkerMovesAlone DEF PostersStay, SamePlace
<1>3. ASSUME (\E t \in Threads : SpuriousWake(t)) \/ UNCHANGED vars
      PROVE  Main \notin owners' /\ (pc[Main] = "idle" => pc'[Main] = "idle")
  BY <1>3, WakesAlone DEF PostersStay, SamePlace, poolVars
<1>. QED
  BY <1>1, <1>2, <1>3, StepCases

\* Every step keeps it.
LEMMA ReleaseStep == IInv /\ MapInv /\ ReleaseInv /\ [RegistryNext]_allVars => ReleaseInv'
<1>. SUFFICES ASSUME IInv, MapInv, ReleaseInv, [RegistryNext]_allVars PROVE ReleaseInv'
  OBVIOUS
<1>0. [Next]_vars
  BY RegistryStepIsPoolStep
<1>1. ASSUME main' = main, main \in {"reset_tp", "resetting", "returned"} => ~registered' /\ map' = NoThread
      PROVE  ReleaseInv'
  BY <1>0, <1>1, MainStaysOut DEF ReleaseInv
<1>2. ASSUME UNCHANGED registryVars PROVE ReleaseInv'
  BY <1>1, <1>2 DEF registryVars, mainVars, ReleaseInv
<1>3. ASSUME NEW u \in Users, UserStart(u) \/ UserStep(u) PROVE ReleaseInv'
  BY <1>1, <1>2, <1>3
     DEF UserStart, UserStep, CallGet, Log, LetGo, CallApplyAll, Drop, Get, ApplyLock, ApplyLog,
         ApplyReturn, mainVars, ReleaseInv
<1>4. ASSUME NEW g \in Flushers, Tick(g) \/ FlusherStep(g) PROVE ReleaseInv'
  BY <1>1, <1>4
     DEF Tick, FlusherStep, FlushAllLock, FlushLogger, FlushAllReturn, FlusherExit, mainVars, ReleaseInv
<1>5. ASSUME (\E g \in Flushers : FlushEvery(g)) \/ FlushNever \/ CallShutdown \/ StopFlusher \/ JoinFlusher
      PROVE  ReleaseInv'
  <2>1. main' \in {"run", "stop_flusher", "join_flusher", "drop_all"}
    BY <1>5 DEF FlushEvery, FlushNever, CallShutdown, Retire, StopFlusher, JoinFlusher, MapInv, RegistryTypeOK
  <2>. QED
    BY <2>1 DEF ReleaseInv
<1>6. CASE DropAll
  BY <1>6 DEF DropAll, ReleaseInv
<1>7. CASE ResetPool
  BY <1>7 DEF ResetPool, Shutdown, DropPool, ReleaseInv
<1>8. CASE ShutdownReturn
  BY <1>8 DEF ShutdownReturn, ReleaseInv, vars, poolVars
<1>. QED
  BY <1>2, <1>3, <1>4, <1>5, <1>6, <1>7, <1>8
     DEF RegistryNext, MainStep, CallStep, PoolStep, WorkStep, WakeStep, allVars

\* When shutdown has returned and the calls that were under way have ended,
\* the logger, the flushers, the workers and the pool are gone, and nothing
\* that was accepted stayed behind in the queue.
THEOREM ShutdownReleasesAll == RegistrySpec => []ShutdownReleases
<1>1. RegistryInit => MapInv /\ FlusherInv /\ ReleaseInv
  BY MapInit, FlusherInit DEF RegistryInit, ReleaseInv
<1>2. RegistrySpec => [](IInv /\ Ownership /\ DestroyedIsDrained)
  BY RegistryPool, Invariance, OwnershipInit, OwnershipStep, DestroyedWhenDrained, PTL DEF Spec
<1>3. IInv /\ Ownership /\ DestroyedIsDrained /\ MapInv /\ FlusherInv /\ ReleaseInv => ShutdownReleases
  <2>. SUFFICES ASSUME IInv, Ownership, DestroyedIsDrained, MapInv, FlusherInv, ReleaseInv,
                       main = "returned", \A c \in Clients : pc[c] = "idle"
                PROVE  /\ ~registered /\ map = NoThread
                       /\ \A g \in Flushers : flusher[g] \in {"off", "exited"}
                       /\ Destroyed /\ DestroyedIsDrained
    BY DEF ShutdownReleases
  <2>1. ~registered /\ map = NoThread /\ Main \notin owners /\ pc[Main] = "idle"
    BY DEF ReleaseInv
  <2>2. \A g \in Flushers : flusher[g] \in {"off", "exited"}
    BY Kinds2 DEF FlusherInv, OneFlusher, Stopping, MapInv, RegistryTypeOK
  <2>3. owners = {}
    <3>1. owners \subseteq Posters
      BY DEF IInv, ThreadInv, ThreadTypeOK
    <3>. QED
      BY <2>1, <3>1 DEF Ownership, OwnersInCall, InCall, Posters
  <2>4. \A t \in Posters : held[t] # Terminate
    BY <2>1 DEF Ownership, LastOwnerDestroys, Posters
  <2>. QED
    BY <2>1, <2>2, <2>3, <2>4 DEF Destroyed, Destroying
<1>. QED
  BY <1>1, <1>2, <1>3, MapStep, FlusherStepInv, ReleaseStep, PTL DEF RegistrySpec

=============================================================================

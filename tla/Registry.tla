------------------------------ MODULE Registry ------------------------------
(***************************************************************************)
(* spdlog's registry around the asynchronous pool: logger_map_mutex_ and   *)
(* the map it guards, the periodic workers that calls of flush_every start *)
(* and replace, and the order in which registry::shutdown takes them down  *)
(* (registry-inl.h, registry.h, periodic_worker.h, periodic_worker-inl.h). *)
(* The map holds one asynchronous logger; Users are the clients that find  *)
(* it there, and a flusher is a client that flush_all runs in.  The calls  *)
(* themselves, the queue, the workers and the pool's destruction are       *)
(* AsyncPool's: a step is one of its steps, a step of the registry, or     *)
(* both when a registry operation calls the logger or drops the pool.      *)
(***************************************************************************)
EXTENDS AsyncPool

CONSTANTS Flushers,  \* the threads of the periodic_workers, one for each
          NoThread   \* nobody: a free mutex, no worker

Users == Clients \ Flushers

ASSUME RegistryAssumption ==
  /\ Flushers \subseteq Clients /\ \A g \in Flushers : Kinds[g] = {"flush"}
  /\ NoThread \notin Threads

VARIABLES
  map,         \* the thread that holds logger_map_mutex_
  registered,  \* whether loggers_ holds the logger
  main,        \* where Main is: calls of flush_every, then shutdown
  periodic,    \* the thread of periodic_flusher_
  retired,     \* that of the worker being destroyed
  after,       \* where Main goes once it is gone
  flusher,     \* where the thread of each periodic worker is
  active,      \* active_ of each periodic worker
  user         \* what each user is doing with the registry

mainVars == <<main, periodic, retired, after>>
flusherVars == <<flusher, active>>
registryVars == <<map, registered, mainVars, flusherVars, user>>
allVars == <<vars, registryVars>>

RegistryInit ==
  /\ Init
  /\ map = NoThread
  /\ registered = TRUE
  /\ main = "run" /\ periodic = NoThread /\ retired = NoThread /\ after = "run"
  /\ flusher = [g \in Flushers |-> "off"] /\ active = [g \in Flushers |-> FALSE]
  /\ user = [u \in Users |-> "out"]

UserGoto(u, l) == user' = [user EXCEPT ![u] = l]

-----------------------------------------------------------------------------
(* Users: spdlog::get, logging, apply_all, drop                            *)

CallGet(u) ==
  /\ user[u] = "out"
  /\ UserGoto(u, "get")
  /\ UNCHANGED <<vars, map, registered, mainVars, flusherVars>>

\* The critical section of get: the logger, or nullptr.
Get(u) ==
  /\ user[u] = "get" /\ map = NoThread
  /\ UserGoto(u, IF registered THEN "has" ELSE "out")
  /\ UNCHANGED <<vars, map, registered, mainVars, flusherVars>>

Log(u) ==
  /\ user[u] = "has"
  /\ (\E kind \in Kinds[u] : StartCall(u, kind)) \/ RefuseCall(u)
  /\ UNCHANGED registryVars

LetGo(u) ==
  /\ user[u] = "has" /\ pc[u] = "idle"
  /\ UserGoto(u, "out")
  /\ UNCHANGED <<vars, map, registered, mainVars, flusherVars>>

CallApplyAll(u) ==
  /\ user[u] = "out" /\ calls[u] < MaxCalls
  /\ UserGoto(u, "apply")
  /\ UNCHANGED <<vars, map, registered, mainVars, flusherVars>>

\* apply_all with an empty map does nothing; otherwise the function runs
\* with the mutex held.
ApplyLock(u) ==
  /\ user[u] = "apply" /\ map = NoThread
  /\ IF registered THEN UserGoto(u, "applying") /\ map' = u
                   ELSE UserGoto(u, "out") /\ UNCHANGED map
  /\ UNCHANGED <<vars, registered, mainVars, flusherVars>>

ApplyLog(u) ==
  /\ user[u] = "applying"
  /\ (\E kind \in Kinds[u] : StartCall(u, kind)) \/ RefuseCall(u)
  /\ UserGoto(u, "applied")
  /\ UNCHANGED <<map, registered, mainVars, flusherVars>>

\* Mutant: an exit that forgets the mutex.
ApplyReturnLocked(u) ==
  /\ user[u] = "applied" /\ pc[u] = "idle"
  /\ UserGoto(u, "out")
  /\ UNCHANGED <<vars, map, registered, mainVars, flusherVars>>

ApplyReturn(u) ==
  /\ user[u] = "applied" /\ pc[u] = "idle"
  /\ map' = NoThread
  /\ UserGoto(u, "out")
  /\ UNCHANGED <<vars, registered, mainVars, flusherVars>>

Drop(u) ==
  /\ user[u] = "out" /\ map = NoThread /\ registered
  /\ registered' = FALSE
  /\ UNCHANGED <<vars, map, mainVars, flusherVars, user>>

-----------------------------------------------------------------------------
(* The periodic workers.  A worker holds its mutex_ except in wait_for.    *)

FlusherGoto(g, l) == flusher' = [flusher EXCEPT ![g] = l]

InCallback(g) == flusher[g] \in {"lock_map", "flush", "flushing"}

\* wait_for times out with active_ still set: callback_fun is flush_all.
Tick(g) ==
  /\ flusher[g] = "waiting" /\ active[g] /\ calls[g] < MaxCalls
  /\ FlusherGoto(g, "lock_map")
  /\ UNCHANGED <<vars, map, registered, mainVars, active, user>>

FlushAllLock(g) ==
  /\ flusher[g] = "lock_map" /\ map = NoThread
  /\ IF registered THEN FlusherGoto(g, "flush") /\ map' = g
                   ELSE FlusherGoto(g, "waiting") /\ UNCHANGED map
  /\ UNCHANGED <<vars, registered, mainVars, active, user>>

FlushLogger(g) ==
  /\ flusher[g] = "flush"
  /\ StartCall(g, "flush") \/ RefuseCall(g)
  /\ FlusherGoto(g, "flushing")
  /\ UNCHANGED <<map, registered, mainVars, active, user>>

FlushAllReturn(g) ==
  /\ flusher[g] = "flushing" /\ pc[g] = "idle"
  /\ map' = NoThread
  /\ FlusherGoto(g, "waiting")
  /\ UNCHANGED <<vars, registered, mainVars, active, user>>

\* wait_for finds active_ cleared, notified or not.
FlusherExit(g) ==
  /\ flusher[g] = "waiting" /\ ~active[g]
  /\ FlusherGoto(g, "exited")
  /\ UNCHANGED <<vars, map, registered, mainVars, active, user>>

-----------------------------------------------------------------------------
(* Main: flush_every, any number of times, then shutdown                   *)

\* The worker that periodic_flusher_ held is destroyed, if there was one.
Retire(next) ==
  /\ retired' = periodic /\ after' = next
  /\ main' = IF periodic = NoThread THEN next ELSE "stop_flusher"

\* Mutant: the new worker replaces the old one without destroying it.
FlushEveryLeak(g) ==
  /\ main = "run" /\ flusher[g] = "off"
  /\ FlusherGoto(g, "waiting") /\ active' = [active EXCEPT ![g] = TRUE]
  /\ periodic' = g
  /\ UNCHANGED <<vars, map, registered, main, retired, after, user>>

\* The new worker runs before the assignment destroys the old one, inside
\* it.
FlushEvery(g) ==
  /\ main = "run" /\ flusher[g] = "off"
  /\ FlusherGoto(g, "waiting") /\ active' = [active EXCEPT ![g] = TRUE]
  /\ periodic' = g /\ Retire("run")
  /\ UNCHANGED <<vars, map, registered, user>>

\* With an interval of zero the new worker has no thread.
FlushNever ==
  /\ main = "run" /\ periodic # NoThread
  /\ periodic' = NoThread /\ Retire("run")
  /\ UNCHANGED <<vars, map, registered, flusherVars, user>>

CallShutdown ==
  /\ main = "run"
  /\ periodic' = NoThread /\ Retire("drop_all")
  /\ UNCHANGED <<vars, map, registered, flusherVars, user>>

\* Mutants: the thread is told to stop and detached; it is joined and never
\* told to stop.
StopFlusherDetached ==
  /\ main = "stop_flusher"
  /\ active' = [active EXCEPT ![retired] = FALSE]
  /\ main' = after /\ retired' = NoThread
  /\ UNCHANGED <<vars, map, registered, periodic, after, flusher, user>>

StopFlusherUntold ==
  /\ main = "stop_flusher" /\ ~InCallback(retired)
  /\ main' = "join_flusher"
  /\ UNCHANGED <<vars, map, registered, periodic, retired, after, flusherVars, user>>

\* ~periodic_worker clears active_ under mutex_, so after any callback.
StopFlusher ==
  /\ main = "stop_flusher" /\ ~InCallback(retired)
  /\ active' = [active EXCEPT ![retired] = FALSE]
  /\ main' = "join_flusher"
  /\ UNCHANGED <<vars, map, registered, periodic, retired, after, flusher, user>>

JoinFlusher ==
  /\ main = "join_flusher" /\ flusher[retired] = "exited"
  /\ main' = after /\ retired' = NoThread
  /\ UNCHANGED <<vars, map, registered, periodic, after, flusherVars, user>>

DropAll ==
  /\ main = "drop_all" /\ map = NoThread
  /\ registered' = FALSE
  /\ main' = "reset_tp"
  /\ UNCHANGED <<vars, map, periodic, retired, after, flusherVars, user>>

ResetPool ==
  /\ main = "reset_tp"
  /\ Shutdown
  /\ main' = "resetting"
  /\ UNCHANGED <<map, registered, periodic, retired, after, flusherVars, user>>

ShutdownReturn ==
  /\ main = "resetting" /\ pc[Main] = "idle"
  /\ main' = "returned"
  /\ UNCHANGED <<vars, map, registered, periodic, retired, after, flusherVars, user>>

-----------------------------------------------------------------------------
\* Steps inside a call, a worker or the pool's destructor.
CallStep(c) == (AwaitFlush(c) \/ Release(c)) /\ UNCHANGED registryVars
PoolStep(t) == PostStep(t) /\ UNCHANGED registryVars
WorkStep(w) == WorkerStep(w) /\ UNCHANGED registryVars
WakeStep(t) == SpuriousWake(t) /\ UNCHANGED registryVars

\* What a user starts of its own will, and what it is in the middle of.
UserStart(u) == CallGet(u) \/ Log(u) \/ LetGo(u) \/ CallApplyAll(u) \/ Drop(u)
UserStep(u) == Get(u) \/ ApplyLock(u) \/ ApplyLog(u) \/ ApplyReturn(u)
FlusherStep(g) == FlushAllLock(g) \/ FlushLogger(g) \/ FlushAllReturn(g) \/ FlusherExit(g)
MainStep == StopFlusher \/ JoinFlusher \/ DropAll \/ ResetPool \/ ShutdownReturn

RegistryNext ==
  \/ \E u \in Users : UserStart(u) \/ UserStep(u)
  \/ \E g \in Flushers : FlushEvery(g) \/ Tick(g) \/ FlusherStep(g)
  \/ FlushNever \/ CallShutdown \/ MainStep
  \/ \E c \in Clients : CallStep(c)
  \/ \E t \in Posters : PoolStep(t)
  \/ \E w \in Workers : WorkStep(w)
  \/ \E t \in Threads : WakeStep(t)

RegistrySpec == RegistryInit /\ [][RegistryNext]_allVars

\* Every thread runs once it is in the library; nothing makes a user call it
\* or Main shut down.  Strong fairness of StopFlusher: however many periods
\* pass, each leaves mutex_ free for the whole interval of wait_for (3 s in
\* main), in which a thread blocked on it gets it.
RegistryFairness ==
  /\ \A u \in Users : WF_allVars(UserStep(u))
  /\ \A g \in Flushers : WF_allVars(FlusherStep(g))
  /\ WF_allVars(MainStep) /\ SF_allVars(StopFlusher)
  /\ \A c \in Clients : WF_allVars(CallStep(c))
  /\ \A t \in Posters : WF_allVars(PoolStep(t))
  /\ \A w \in Workers : WF_allVars(WorkStep(w))

FairRegistrySpec == RegistrySpec /\ RegistryFairness

-----------------------------------------------------------------------------
(* Properties                                                              *)

\* The states the registry, the flushers and the users can be in.
RegistryTypeOK ==
  /\ map \in Clients \cup {NoThread}
  /\ registered \in BOOLEAN
  /\ main \in {"run", "stop_flusher", "join_flusher", "drop_all", "reset_tp", "resetting",
               "returned"}
  /\ periodic \in Flushers \cup {NoThread}
  /\ retired \in Flushers \cup {NoThread} /\ after \in {"run", "drop_all"}
  /\ flusher \in [Flushers -> {"off", "waiting", "lock_map", "flush", "flushing", "exited"}]
  /\ active \in [Flushers -> BOOLEAN]
  /\ user \in [Users -> {"out", "get", "has", "apply", "applying", "applied"}]

\* logger_map_mutex_ is held by the thread that is inside flush_all or
\* apply_all and by no other, across every step of the call it makes.
MapHeldInside ==
  /\ \A g \in Flushers : flusher[g] \in {"flush", "flushing"} <=> map = g
  /\ \A u \in Users : user[u] \in {"applying", "applied"} <=> map = u

\* A periodic flush runs only while the registry owns the pool: shutdown
\* has stopped the flusher before it drops the map and the pool, so no
\* periodic flush is refused, and no flusher destroys the pool.
PeriodicFlushOwned ==
  /\ \A g \in Flushers : InCallback(g) \/ pc[g] # "idle" => Main \in owners
  /\ main \in {"drop_all", "reset_tp", "resetting", "returned"} =>
       \A g \in Flushers : flusher[g] \in {"off", "exited"}

\* Two flushers run only while flush_every replaces one by the other: once it
\* has returned, the only thread is that of periodic_flusher_.
OneFlusher ==
  \A g \in Flushers :
    flusher[g] \in {"off", "exited"} \/ g = periodic
      \/ (g = retired /\ main \in {"stop_flusher", "join_flusher"})

\* When shutdown has returned and the calls that were under way have ended,
\* nothing of spdlog is left: no logger in the map, no flusher, no worker,
\* no pool ("Release all spdlog resources, and drop all loggers in the
\* registry", spdlogDemo.cpp), and no message stayed behind in the queue.
ShutdownReleases ==
  main = "returned" /\ (\A c \in Clients : pc[c] = "idle") =>
    /\ ~registered /\ map = NoThread
    /\ \A g \in Flushers : flusher[g] \in {"off", "exited"}
    /\ Destroyed /\ DestroyedIsDrained

\* flush_every and shutdown() return, although they wait for a flusher and,
\* shutdown, for the mutex of the map and the workers.
ShutdownReturns ==
  /\ main = "stop_flusher" /\ after = "run" ~> main = "run"
  /\ main = "drop_all" \/ (main = "stop_flusher" /\ after = "drop_all") ~> main = "returned"

\* get and apply_all return, although flush_all waits for the pool's
\* workers with the mutex of the map held.
RegistryCallsReturn == \A u \in Users : user[u] \in {"get", "apply"} ~> user[u] \in {"has", "out"}

\* periodic_worker.h:10: the destructor stops and joins the thread; if the
\* thread is executing a callback, it waits for it to finish first.
FlusherJoined == main = "stop_flusher" ~> main = after

=============================================================================

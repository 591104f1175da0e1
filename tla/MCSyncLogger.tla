---------------------------- MODULE MCSyncLogger ----------------------------
(***************************************************************************)
(* Instances of SyncLogger for TLC.  The threads of a traced logger        *)
(* interleave over a sink that works; the sinks that fail and processes    *)
(* that die get fewer calls, of a logger without a backtrace.              *)
(***************************************************************************)
EXTENDS SyncLogger

Scenario(which, calls, traced, faultsMax, crashesMax) ==
  [sink |-> which, calls |-> calls, faults |-> faultsMax, crashes |-> crashesMax,
   switches |-> traced[1], dumps |-> traced[2]]

MCScenarios ==
  {Scenario("rotating", 4, <<0, 0>>, 1, 1),
   Scenario("daily", 3, <<0, 0>>, 0, 1), Scenario("daily", 3, <<0, 0>>, 1, 0),
   Scenario("rotating", 1, <<1, 1>>, 0, 1), Scenario("rotating", 3, <<1, 1>>, 0, 0), Scenario("rotating", 2, <<2, 2>>, 0, 0)}

=============================================================================

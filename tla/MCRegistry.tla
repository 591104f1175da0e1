----------------------------- MODULE MCRegistry -----------------------------
(***************************************************************************)
(* Instances of Registry for TLC: f and g are flushers, u and v are users, *)
(* and the registered logger has one overflow policy for all of them.      *)
(***************************************************************************)
EXTENDS Registry

CONSTANTS f, g, u, v

Blocking == [c \in Clients |-> "block"]
Overrunning == [c \in Clients |-> "overrun_oldest"]

\* Users only log; flushers flush.
FlusherFlushes == [c \in Clients |-> IF c \in Flushers THEN {"flush"} ELSE {"log"}]

=============================================================================

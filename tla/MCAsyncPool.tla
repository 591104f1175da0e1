---------------------------- MODULE MCAsyncPool ----------------------------
(***************************************************************************)
(* Instances of AsyncPool for TLC: b, o and d log through loggers that     *)
(* block, overrun the oldest message and discard the new one.              *)
(***************************************************************************)
EXTENDS AsyncPool

CONSTANTS b, o, d

MCPolicy ==
  [c \in Clients |-> CASE c = b -> "block"
                      [] c = o -> "overrun_oldest"
                      [] c = d -> "discard_new"]

LogOnly == [c \in Clients |-> {"log"}]
LogAndFlush == [c \in Clients |-> {"log", "flush"}]

=============================================================================

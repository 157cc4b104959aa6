----------------------------- MODULE MCBatchList -----------------------------
(* BatchList with a bound on the calls of send, for TLC.                   *)
EXTENDS BatchList

CONSTANT MaxCalls  \* bound: calls of send

MCNext == Next /\ Len(calls') <= MaxCalls

MCSpec == Init /\ [][MCNext]_vars
=============================================================================

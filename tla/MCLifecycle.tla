----------------------------- MODULE MCLifecycle -----------------------------
(* A socket whose life is that of SocketLifecycle, built for one of the    *)
(* versions of libzmq: what its methods getsockopt and setsockopt convert, *)
(* once they are let through, is in Options.                               *)
EXTENDS SocketLifecycle, Options

MCInit == Init /\ OptionsInit

MCNext == Next /\ UNCHANGED version

MCSpec == MCInit /\ [][MCNext]_<<vars, version>> /\ Fairness
=============================================================================

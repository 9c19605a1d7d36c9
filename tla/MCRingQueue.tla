----------------------------- MODULE MCRingQueue -----------------------------
(* RingQueue with the threads of the request queue: two listeners push, the   *)
(* worker pops, and main or the acceptor asks for the shutdown.               *)
EXTENDS RingQueue
=============================================================================

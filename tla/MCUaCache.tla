----------------------------- MODULE MCUaCache -----------------------------
(* Two threads, a GET and another request, up to three expectations for each  *)
(* and the five requests of the code's loop.                                  *)
EXTENDS UaCache, TLC

CONSTANTS thread1, thread2, get, post

MCThreads == {thread1, thread2}
MCKeys == {get, post}
MCIdempotent == {get}
=============================================================================

----------------------------- MODULE MCTimedIo -----------------------------
(* Two endpoints to try, then reads that need one or two partial reads.  Four *)
(* operations let a connect be retried and be followed by two reads.           *)
EXTENDS TimedIo

MCNeeds == {1, 2}
=============================================================================

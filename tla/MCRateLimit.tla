---------------------------- MODULE MCRateLimit ----------------------------
(***************************************************************************)
(* A small limiter.  A request costs two units and one unit comes back a   *)
(* tick, so a request is earned every second tick.  The estimate of tokens *)
(* is more than its bucket can hold, so it is clamped.                     *)
(***************************************************************************)
EXTENDS RateLimit, TLC

OneEach == [b \in Buckets |-> 1]
TwoForARequest == [b \in Buckets |-> 2]
OneRequestAtOnce == [b \in Buckets |-> IF b = "requests" THEN 2 ELSE 1]
=============================================================================

----------------------------- MODULE MCCacheBench -----------------------------
(***************************************************************************)
(* Three query threads (two even, one odd, so the spawn loop reassigns    *)
(* 'frequent' after a thread was created and before it may start), each  *)
(* making up to two lookups a run.                                         *)
(***************************************************************************)
EXTENDS CacheBench
=============================================================================

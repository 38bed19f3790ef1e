------------------------------ MODULE CacheBench ------------------------------
(***************************************************************************)
(* The driver of src/kudu/util/cache-bench.cc: RunBench runs               *)
(* RunQueryThreads twice (a warm-up, then the measured run) and reports    *)
(* lookups per second and the hit rate.  RunQueryThreads spawns            *)
(* --num_threads std::threads, each running DoQueries until the shared     *)
(* atomic 'done' is set, sleeps, sets 'done', joins them in order and      *)
(* returns the two atomic totals the threads added their counts to.       *)
(*                                                                         *)
(* The cache (LRU/SLRU) is not in this tree: a Lookup hits or misses       *)
(* nondeterministically, and the keys, the entry sizes and the inserts on  *)
(* a miss, which only feed the cache, are abstracted away.                 *)
(***************************************************************************)
EXTENDS Integers, Functions

CONSTANTS
  NumThreads,   \* FLAGS_num_threads
  RunSeconds,   \* FLAGS_run_seconds
  MaxLookups    \* bound: lookups a thread makes before it waits for 'done'

Threads == 0..(NumThreads - 1)

VARIABLES
  phase,        \* RunBench: "warmup", "measure", "report" or "finished"
  mpc,          \* RunQueryThreads on the main thread: "spawn" or "join"
  idx,          \* the index i of the spawn loop, then of the join loop
  frequent,     \* the main thread's local 'bool frequent'
  cap,          \* per thread: the copy of 'frequent' its lambda captured
  wpc,          \* per thread: "unborn", "new", "check", "query",
                \*   "add_hits", "add_lookups" or "exited"
  kind,         \* per thread: the 'frequent' argument DoQueries runs with
  hits,         \* per thread: DoQueries' local 'hits'
  lookups,      \* per thread: DoQueries' local 'lookups'
  done,         \* the atomic<bool> 'done' of this RunQueryThreads call
  totalHits,    \* atomic total_hits
  totalLookups, \* atomic total_lookups
  result,       \* RunBench's hits_lookups, once the measured run returned
  lPerSec       \* RunBench's l_per_sec

vars == <<phase, mpc, idx, frequent, cap, wpc, kind, hits, lookups, done,
          totalHits, totalLookups, result, lPerSec>>

NoResult == [hits |-> -1, lookups |-> -1]

\* RunQueryThreads is entered: fresh locals, no threads yet.
EnterRunQueryThreads ==
  /\ mpc' = "spawn"
  /\ idx' = 0
  /\ done' = FALSE
  /\ totalHits' = 0
  /\ totalLookups' = 0
  /\ wpc' = [t \in Threads |-> "unborn"]

\* RunBench starts with the warm-up call.
Init ==
  /\ phase = "warmup"
  /\ mpc = "spawn" /\ idx = 0 /\ done = FALSE
  /\ totalHits = 0 /\ totalLookups = 0
  /\ wpc = [t \in Threads |-> "unborn"]
  /\ frequent \in BOOLEAN   \* declared without an initialiser
  /\ cap = [t \in Threads |-> FALSE]
  /\ kind = [t \in Threads |-> FALSE]
  /\ hits = [t \in Threads |-> 0]
  /\ lookups = [t \in Threads |-> 0]
  /\ result = NoResult
  /\ lPerSec = 0

(***************************************************************************)
(* The main thread.                                                        *)
(***************************************************************************)

\* One iteration of the spawn loop: frequent = i % 2 == 0; the thread's
\* lambda [&, frequent] captures 'frequent' by value.
Spawn ==
  /\ phase \in {"warmup", "measure"}
  /\ mpc = "spawn" /\ idx < NumThreads
  /\ frequent' = (idx % 2 = 0)
  /\ cap' = [cap EXCEPT ![idx] = idx % 2 = 0]
  /\ wpc' = [wpc EXCEPT ![idx] = "new"]
  /\ idx' = idx + 1
  /\ UNCHANGED <<phase, mpc, kind, hits, lookups, done, totalHits,
                 totalLookups, result, lPerSec>>

\* SleepFor(n_seconds) ends; done = true.
WakeUp ==
  /\ phase \in {"warmup", "measure"}
  /\ mpc = "spawn" /\ idx = NumThreads
  /\ done' = TRUE
  /\ mpc' = "join"
  /\ idx' = 0
  /\ UNCHANGED <<phase, frequent, cap, wpc, kind, hits, lookups, totalHits,
                 totalLookups, result, lPerSec>>

\* Mutant: the next thread is taken as joined without waiting for it.
JoinNoWait ==
  /\ phase \in {"warmup", "measure"}
  /\ mpc = "join" /\ idx < NumThreads
  /\ idx' = idx + 1
  /\ UNCHANGED <<phase, mpc, frequent, cap, wpc, kind, hits, lookups, done,
                 totalHits, totalLookups, result, lPerSec>>

\* t.join() returns once the thread's function has returned.
Join ==
  /\ phase \in {"warmup", "measure"}
  /\ mpc = "join" /\ idx < NumThreads
  /\ wpc[idx] = "exited"
  /\ idx' = idx + 1
  /\ UNCHANGED <<phase, mpc, frequent, cap, wpc, kind, hits, lookups, done,
                 totalHits, totalLookups, result, lPerSec>>

\* RunQueryThreads returns {total_hits, total_lookups}: the warm-up's
\* result is dropped and the measured call is entered; the measured
\* result becomes hits_lookups.
Return ==
  /\ mpc = "join" /\ idx = NumThreads
  /\ \/ /\ phase = "warmup"
        /\ phase' = "measure"
        /\ EnterRunQueryThreads
        /\ UNCHANGED result
     \/ /\ phase = "measure"
        /\ phase' = "report"
        /\ result' = [hits |-> totalHits, lookups |-> totalLookups]
        /\ UNCHANGED <<mpc, idx, done, totalHits, totalLookups, wpc>>
  /\ UNCHANGED <<frequent, cap, kind, hits, lookups, lPerSec>>

\* l_per_sec = lookups / FLAGS_run_seconds; the hit rate and the log lines
\* are formatting.
Report ==
  /\ phase = "report"
  /\ phase' = "finished"
  /\ lPerSec' = result.lookups \div RunSeconds
  /\ UNCHANGED <<mpc, idx, frequent, cap, wpc, kind, hits, lookups, done,
                 totalHits, totalLookups, result>>

(***************************************************************************)
(* A query thread t: the lambda, DoQueries, and the two atomic additions. *)
(***************************************************************************)

\* The thread runs its lambda: DoQueries(&done, frequent, large_number)
\* with the captured copy, its counters starting at 0.
Start(t) ==
  /\ wpc[t] = "new"
  /\ kind' = [kind EXCEPT ![t] = cap[t]]
  /\ hits' = [hits EXCEPT ![t] = 0]
  /\ lookups' = [lookups EXCEPT ![t] = 0]
  /\ wpc' = [wpc EXCEPT ![t] = "check"]
  /\ UNCHANGED <<phase, mpc, idx, frequent, cap, done, totalHits,
                 totalLookups, result, lPerSec>>

\* while (!*done): the loop ends once 'done' is seen set.
Check(t) ==
  /\ wpc[t] = "check"
  /\ done \/ lookups[t] < MaxLookups
  /\ wpc' = [wpc EXCEPT ![t] = IF done THEN "add_hits" ELSE "query"]
  /\ UNCHANGED <<phase, mpc, idx, frequent, cap, kind, hits, lookups, done,
                 totalHits, totalLookups, result, lPerSec>>

\* One loop body: a key by the pattern, Lookup; ++hits on a hit, Allocate
\* and Insert on a miss; ++lookups.
Query(t) ==
  /\ wpc[t] = "query"
  /\ \E hit \in BOOLEAN :
       hits' = [hits EXCEPT ![t] = IF hit THEN @ + 1 ELSE @]
  /\ lookups' = [lookups EXCEPT ![t] = @ + 1]
  /\ wpc' = [wpc EXCEPT ![t] = "check"]
  /\ UNCHANGED <<phase, mpc, idx, frequent, cap, kind, done, totalHits,
                 totalLookups, result, lPerSec>>

\* total_hits += hits_lookups.first
AddHits(t) ==
  /\ wpc[t] = "add_hits"
  /\ totalHits' = totalHits + hits[t]
  /\ wpc' = [wpc EXCEPT ![t] = "add_lookups"]
  /\ UNCHANGED <<phase, mpc, idx, frequent, cap, kind, hits, lookups, done,
                 totalLookups, result, lPerSec>>

\* total_lookups += hits_lookups.second; the lambda returns.
AddLookups(t) ==
  /\ wpc[t] = "add_lookups"
  /\ totalLookups' = totalLookups + lookups[t]
  /\ wpc' = [wpc EXCEPT ![t] = "exited"]
  /\ UNCHANGED <<phase, mpc, idx, frequent, cap, kind, hits, lookups, done,
                 totalHits, result, lPerSec>>

Main == Spawn \/ WakeUp \/ Join \/ Return \/ Report

Worker(t) == Start(t) \/ Check(t) \/ Query(t) \/ AddHits(t) \/ AddLookups(t)

\* The benchmark has ended.
Finished == phase = "finished" /\ UNCHANGED vars

Next == Main \/ (\E t \in Threads : Worker(t)) \/ Finished

Spec == Init /\ [][Next]_vars

(***************************************************************************)
(* Properties.                                                             *)
(***************************************************************************)

(* The hits and lookups RunBench reports are exactly the sums of every   *)
(* measured thread's counts: RunQueryThreads reads the atomic totals only *)
(* after joining every thread, so no thread's addition is missed and no   *)
(* thread is still counting.                                              *)
ReportedTotalsAreThreadSums ==
  phase \in {"report", "finished"} =>
    result = [hits |-> SumFunction(hits), lookups |-> SumFunction(lookups)]

=============================================================================

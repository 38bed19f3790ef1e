---------------------------- MODULE HighWaterMark ----------------------------
(***************************************************************************)
(* kudu::HighWaterMark (src/kudu/util/high_water_mark.h): a lock-free      *)
(* counter current_value_ and the highest value it has held, max_value_.   *)
(* Threads call TryIncrementBy, IncrementBy and set_value concurrently;    *)
(* each call is split at its atomic operations on the two std::atomic      *)
(* members, so any interleaving of those operations is explored.  The     *)
(* relaxed orderings do not matter here: every member is accessed only by  *)
(* atomic operations, and each atomic has a single modification order.     *)
(* int64_t is scaled to Width bits: fetch_add on the atomic wraps, and so  *)
(* does the plain old_val + delta on every build Kudu is compiled for     *)
(* (signed overflow is undefined; the add instruction wraps).             *)
(***************************************************************************)
EXTENDS Integers

CONSTANTS
  Threads,        \* the calling threads
  OpKinds,        \* the operations callers use: a subset of {"try", "inc", "set"}
  Deltas,         \* the deltas/amounts passed to TryIncrementBy and IncrementBy
  SetValues,      \* the values passed to set_value
  Limit,          \* the 'max' argument of every TryIncrementBy
  InitialValue,   \* the constructor argument
  OpsPerThread,   \* bound: calls each thread makes
  Width           \* bits of int64_t, scaled down

VARIABLES
  current,   \* current_value_
  maxv,      \* max_value_
  pc,        \* per thread: "idle", "try_load", "try_cas" or "update_max"
  arg,       \* per thread: the delta of the call in progress
  oldVal,    \* per thread: old_val of TryIncrementBy
  maxArg,    \* per thread: the value handed to UpdateMax
  ops,       \* per thread: calls started
  expected,  \* history: what current_value_ must be, by the calls' effects
  highest,   \* history: the highest value current_value_ has held
  highestSet \* history: the highest value stored by TryIncrementBy or set_value

vars == <<current, maxv, pc, arg, oldVal, maxArg, ops, expected, highest, highestSet>>

Int64 == -(2^(Width - 1))..(2^(Width - 1) - 1)

\* Two's-complement addition of int64_t values at Width bits.
Plus(x, y) == ((x + y + 2^(Width - 1)) % 2^Width) - 2^(Width - 1)

Raise(h, x) == IF x > h THEN x ELSE h

\* AtomicStoreMax (kudu/util/atomic-utils.h, not under src/): a CAS loop
\* that raises the atomic to 'value' when it is larger; one atomic step.
AtomicStoreMax(m, value) == IF value > m THEN value ELSE m

Init ==
  /\ current = InitialValue
  /\ maxv = InitialValue
  /\ pc = [t \in Threads |-> "idle"]
  /\ arg = [t \in Threads |-> 0]
  /\ oldVal = [t \in Threads |-> 0]
  /\ maxArg = [t \in Threads |-> 0]
  /\ ops = [t \in Threads |-> 0]
  /\ expected = InitialValue
  /\ highest = InitialValue
  /\ highestSet = InitialValue

Start(t) ==
  /\ pc[t] = "idle"
  /\ ops[t] < OpsPerThread
  /\ ops' = [ops EXCEPT ![t] = @ + 1]

\* TryIncrementBy(delta, Limit) is entered.
TryIncrementBy(t, d) ==
  /\ "try" \in OpKinds
  /\ Start(t)
  /\ pc' = [pc EXCEPT ![t] = "try_load"]
  /\ arg' = [arg EXCEPT ![t] = d]
  /\ UNCHANGED <<current, maxv, oldVal, maxArg, expected, highest, highestSet>>

\* Loop head: old_val = current_value(); new_val > max returns false.
TryLoad(t) ==
  /\ pc[t] = "try_load"
  /\ oldVal' = [oldVal EXCEPT ![t] = current]
  /\ pc' = [pc EXCEPT ![t] = IF Plus(current, arg[t]) > Limit THEN "idle" ELSE "try_cas"]
  /\ UNCHANGED <<current, maxv, arg, maxArg, ops, expected, highest, highestSet>>

\* Mutant: the compare dropped, the new value stored blindly.
TryCasBlindStore(t) ==
  /\ pc[t] = "try_cas"
  /\ current' = Plus(oldVal[t], arg[t])
  /\ expected' = Plus(expected, arg[t])
  /\ highest' = Raise(highest, Plus(oldVal[t], arg[t]))
  /\ highestSet' = Raise(highestSet, Plus(oldVal[t], arg[t]))
  /\ maxArg' = [maxArg EXCEPT ![t] = Plus(oldVal[t], arg[t])]
  /\ pc' = [pc EXCEPT ![t] = "update_max"]
  /\ UNCHANGED <<maxv, arg, oldVal, ops>>

\* compare_exchange_weak(old_val, new_val) succeeds: UpdateMax(new_val) next.
TryCas(t) ==
  /\ pc[t] = "try_cas"
  /\ current = oldVal[t]
  /\ current' = Plus(oldVal[t], arg[t])
  /\ expected' = Plus(expected, arg[t])
  /\ highest' = Raise(highest, Plus(oldVal[t], arg[t]))
  /\ highestSet' = Raise(highestSet, Plus(oldVal[t], arg[t]))
  /\ maxArg' = [maxArg EXCEPT ![t] = Plus(oldVal[t], arg[t])]
  /\ pc' = [pc EXCEPT ![t] = "update_max"]
  /\ UNCHANGED <<maxv, arg, oldVal, ops>>

\* compare_exchange_weak fails, because another thread changed the value or
\* spuriously: the loop reloads.
TryCasFail(t) ==
  /\ pc[t] = "try_cas"
  /\ pc' = [pc EXCEPT ![t] = "try_load"]
  /\ UNCHANGED <<current, maxv, arg, oldVal, maxArg, ops, expected, highest, highestSet>>

\* IncrementBy(amount): UpdateMax(current_value_.fetch_add(amount)), whose
\* argument is the value fetch_add returns: the one before the addition.
IncrementBy(t, a) ==
  /\ "inc" \in OpKinds
  /\ Start(t)
  /\ current' = Plus(current, a)
  /\ expected' = Plus(expected, a)
  /\ highest' = Raise(highest, Plus(current, a))
  /\ maxArg' = [maxArg EXCEPT ![t] = current]
  /\ pc' = [pc EXCEPT ![t] = "update_max"]
  /\ UNCHANGED <<maxv, arg, oldVal, highestSet>>

\* set_value(v): store, then UpdateMax(v).
SetValue(t, v) ==
  /\ "set" \in OpKinds
  /\ Start(t)
  /\ current' = v
  /\ expected' = v
  /\ highest' = Raise(highest, v)
  /\ highestSet' = Raise(highestSet, v)
  /\ maxArg' = [maxArg EXCEPT ![t] = v]
  /\ pc' = [pc EXCEPT ![t] = "update_max"]
  /\ UNCHANGED <<maxv, arg, oldVal>>

\* Mutant: UpdateMax as a plain store.
UpdateMaxStore(t) ==
  /\ pc[t] = "update_max"
  /\ maxv' = maxArg[t]
  /\ pc' = [pc EXCEPT ![t] = "idle"]
  /\ UNCHANGED <<current, arg, oldVal, maxArg, ops, expected, highest, highestSet>>

\* UpdateMax(value): AtomicStoreMax(max_value_, value); the call returns.
UpdateMax(t) ==
  /\ pc[t] = "update_max"
  /\ maxv' = AtomicStoreMax(maxv, maxArg[t])
  /\ pc' = [pc EXCEPT ![t] = "idle"]
  /\ UNCHANGED <<current, arg, oldVal, maxArg, ops, expected, highest, highestSet>>

Next ==
  \E t \in Threads :
    \/ \E d \in Deltas : TryIncrementBy(t, d)
    \/ TryLoad(t)
    \/ TryCas(t)
    \/ TryCasFail(t)
    \/ \E a \in Deltas : IncrementBy(t, a)
    \/ \E v \in SetValues : SetValue(t, v)
    \/ UpdateMax(t)

Spec == Init /\ [][Next]_vars

Quiescent == \A t \in Threads : pc[t] = "idle"

(***************************************************************************)
(* Properties.                                                             *)
(***************************************************************************)
TypeOK ==
  /\ current \in Int64 /\ maxv \in Int64 /\ expected \in Int64
  /\ highest \in Int64 /\ highestSet \in Int64
  /\ pc \in [Threads -> {"idle", "try_load", "try_cas", "update_max"}]
  /\ arg \in [Threads -> Deltas \cup {0}]
  /\ ops \in [Threads -> 0..OpsPerThread]

(* No update is lost: current_value_ is the last set_value plus every     *)
(* increment applied since, however TryIncrementBy's load/CAS pairs and   *)
(* other threads' fetch_add and store interleave.                         *)
NoLostUpdate == current = expected

(* The promise of TryIncrementBy's comment: it returns true only when    *)
(* current value + 'delta' is <= 'max', and then the current value is     *)
(* incremented by 'delta', in the integers; near the top of int64_t the   *)
(* sum wraps negative, passes the test and is stored.                     *)
IncrementsOnlyWithinMax ==
  [][\A t \in Threads :
       pc[t] = "try_cas" /\ pc'[t] = "update_max" =>
         /\ oldVal[t] + arg[t] <= Limit
         /\ current' = oldVal[t] + arg[t]]_vars

(* The header's promise: once no call is in progress, max_value() is the  *)
(* highest value current_value_ has ever held.                            *)
MaxIsHighWaterMark == Quiescent => maxv = highest

(* What max_value() does guarantee with IncrementBy callers about: once  *)
(* no call is in progress it is at least every value TryIncrementBy or    *)
(* set_value stored, and never above a value current_value_ held.         *)
MaxBoundsHighWaterMark == Quiescent => highestSet <= maxv /\ maxv <= highest

=============================================================================

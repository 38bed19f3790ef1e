---------------------------- MODULE TableScanner ----------------------------
(***************************************************************************)
(* kudu::tools::TableScanner::StartWork (src/kudu/tools/table_scanner.cc)  *)
(* and the pool tasks it starts.  The calling thread builds the scan       *)
(* tokens, deals the ones passing the tablet filter round-robin to         *)
(* num_threads lists, submits one ScanTask or CopyTask per list to a       *)
(* thread pool, waits for the pool, and returns the first non-OK thread    *)
(* status.  Every task walks its tokens (IntoKuduScanner, Open, then a     *)
(* NextBatch loop adding to total_count_ and running the callback) and     *)
(* stores its Status through a pointer into StartWork's local vector.      *)
(* Each client call that returns a Status may fail when its site is in     *)
(* FailSites; rows and statuses are abstracted to counts and site names.   *)
(***************************************************************************)
EXTENDS Integers, Sequences, FiniteSets, Functions

CONSTANTS
  NumThreads,     \* FLAGS_num_threads
  TokenBatches,   \* per token, in Build() order: the row counts of its batches
  TabletFilter,   \* indices of the tokens whose tablet passes FLAGS_tablets
  WorkTypes,      \* the entry points exercised: a subset of {"scan", "copy"}
  WriteTypeEmpty, \* FLAGS_write_type is empty (copy: create the table only)
  FailSites,      \* the calls that may return a non-OK Status
  CopySchemas     \* column names of the tables copied (source = destination)

Threads == 0..(NumThreads - 1)
OK == "OK"

VARIABLES
  work,      \* the WorkType of this StartWork call
  mpc,       \* StartWork: "setup", "submit", "wait" or "done"
  i,         \* the submission loop index
  ttokens,   \* thread_tokens: per thread, a sequence of token indices
  tpc,       \* per task: "unsubmitted", "queued", "token", "batch", "cb", "finished"
  cur,       \* per task: position in its token list
  bat,       \* per task: batches taken from the current token's scanner
  status,    \* thread_statuses
  total,     \* total_count_
  result     \* what StartWork returned ("none" before)

vars == <<work, mpc, i, ttokens, tpc, cur, bat, status, total, result>>

Tokens == 1..Len(TokenBatches)

\* Whether a call at this site may fail, and the Status it then returns.
MayFail(site) == site \in FailSites

(***************************************************************************)
(* Token dealing: thread_tokens[i++ % num_threads] for each token passing  *)
(* the filter, in Build() order; i counts only the tokens dealt.           *)
(***************************************************************************)
Filtered == SelectSeq([k \in Tokens |-> k], LAMBDA k : k \in TabletFilter)

\* Mutant: i advanced for every token, filtered out or not.
ThreadTokensIndexAll(t) ==
  SelectSeq(Filtered, LAMBDA k : (k - 1) % NumThreads = t)

ThreadTokens(t) ==
  LET n == Cardinality({p \in 1..Len(Filtered) : (p - 1) % NumThreads = t})
  IN [j \in 1..n |-> Filtered[(j - 1) * NumThreads + t + 1]]

\* The aggregation loop over thread_statuses: the first non-OK one.
FirstError(st) ==
  LET bad == {t \in Threads : st[t] # OK}
  IN IF bad = {} THEN OK ELSE st[CHOOSE t \in bad : \A u \in bad : t <= u]

(***************************************************************************)
(* The copy's rows.  StartWork checks that the destination schema equals   *)
(* the source's and, when the table has an auto-incrementing column, scans *)
(* every column but that one (by name); AddRow then fills the destination  *)
(* row, skipping that column's index.  A source value is the name of its   *)
(* column or Null.                                                         *)
(***************************************************************************)
AutoCol == "auto_incrementing_id"
Null == "NULL"
Unset == "unset"

\* Schema::GetAutoIncrementingColumnIndex: its position, or kColumnNotFound.
AutoIncrementingColumnIndex(sch) ==
  IF \E j \in DOMAIN sch : sch[j] = AutoCol
  THEN CHOOSE j \in DOMAIN sch : sch[j] = AutoCol ELSE -1

\* The projection of a copy: every column, or all but the auto-incrementing one.
CopyProjection(sch) ==
  IF AutoIncrementingColumnIndex(sch) = -1 THEN sch
  ELSE SelectSeq(sch, LAMBDA c : c # AutoCol)

\* The loop over the destination columns: src_iterator advances only past a
\* column that was set, null or not.
RECURSIVE CopyColumns(_, _, _, _, _)
CopyColumns(n, ai, row, d, s) ==
  IF d > n THEN << >>
  ELSE IF d = ai THEN << Unset >> \o CopyColumns(n, ai, row, d + 1, s)
  ELSE << row[s] >> \o CopyColumns(n, ai, row, d + 1, s + 1)

\* Mutant: the auto-incrementing index looked up in the scanned (projected)
\* schema, where it is never found, so the row is copied as a whole.
AddRowNoAutoSkip(sch, row) == row

\* AddRow: without an auto-incrementing column the row is copied as a whole
\* (memcpy and every isset bit); otherwise column by column.
AddRow(sch, row) ==
  LET ai == AutoIncrementingColumnIndex(sch)
  IN IF ai = -1 THEN row ELSE CopyColumns(Len(sch), ai, row, 1, 1)

\* StartScan or StartCopy is called (the latter CHECKs the destination client
\* and table name) and calls StartWork with its work type.
Init ==
  /\ work \in WorkTypes
  /\ mpc = "setup"
  /\ i = 0
  /\ ttokens = [t \in Threads |-> << >>]
  /\ tpc = [t \in Threads |-> "unsubmitted"]
  /\ cur = [t \in Threads |-> 1]
  /\ bat = [t \in Threads |-> 0]
  /\ status = [t \in Threads |-> OK]
  /\ total = 0
  /\ result = "none"

Return(s) == mpc' = "done" /\ result' = s

(***************************************************************************)
(* StartWork up to the thread pool: OpenTable, CreateDstTableIfNeeded, the *)
(* token builder's setters, AddPredicates, Build and ThreadPoolBuilder     *)
(* each return early on error; a copy with an empty write type returns OK  *)
(* once the destination table exists; otherwise the tokens are dealt.      *)
(***************************************************************************)
Setup ==
  /\ mpc = "setup"
  /\ \/ MayFail("setup") /\ Return("setup") /\ UNCHANGED ttokens
     \/ work = "copy" /\ WriteTypeEmpty /\ Return(OK) /\ UNCHANGED ttokens
     \/ /\ ~(work = "copy" /\ WriteTypeEmpty)
        /\ ttokens' = [t \in Threads |-> ThreadTokens(t)]
        /\ mpc' = "submit"
        /\ UNCHANGED result
  /\ UNCHANGED <<work, i, tpc, cur, bat, status, total>>

\* Mutant: the loop runs while i <= num_threads.
SubmitOffByOne ==
  /\ mpc = "submit"
  /\ i <= NumThreads
  /\ \/ /\ tpc' = [tpc EXCEPT ![i] = "queued"]
        /\ i' = i + 1
        /\ UNCHANGED <<mpc, result>>
     \/ MayFail("submit") /\ Return("submit") /\ UNCHANGED <<tpc, i>>
  /\ UNCHANGED <<work, ttokens, cur, bat, status, total>>

\* thread_pool_->Submit(task i): queued, or RETURN_NOT_OK leaves StartWork,
\* destroying thread_tokens, thread_statuses and the tokens themselves.
Submit ==
  /\ mpc = "submit"
  /\ i < NumThreads
  /\ \/ /\ tpc' = [tpc EXCEPT ![i] = "queued"]
        /\ i' = i + 1
        /\ UNCHANGED <<mpc, result>>
     \/ MayFail("submit") /\ Return("submit") /\ UNCHANGED <<tpc, i>>
  /\ UNCHANGED <<work, ttokens, cur, bat, status, total>>

\* Mutant: the loop stops one thread short.
StopSubmittingEarly == mpc = "submit" /\ i = NumThreads - 1

\* The submission loop ends.
StopSubmitting == mpc = "submit" /\ i = NumThreads

EndSubmitLoop ==
  /\ StopSubmitting
  /\ mpc' = "wait"
  /\ UNCHANGED <<work, i, ttokens, tpc, cur, bat, status, total, result>>

\* WaitFor returns once the pool is idle; Shutdown; the first error.
WaitAndAggregate ==
  /\ mpc = "wait"
  /\ \A t \in Threads : tpc[t] \in {"unsubmitted", "finished"}
  /\ Return(FirstError(status))
  /\ UNCHANGED <<work, i, ttokens, tpc, cur, bat, status, total>>

(***************************************************************************)
(* A pool task.                                                            *)
(***************************************************************************)
Finish(t, s) ==
  /\ tpc' = [tpc EXCEPT ![t] = "finished"]
  /\ status' = [status EXCEPT ![t] = s]

\* ScanTask goes straight to ScanData; CopyTask first checks the write
\* type, opens the destination table and sets up its session.
TaskStart(t) ==
  /\ tpc[t] = "queued"
  /\ \/ work = "copy" /\ MayFail("copy_setup") /\ Finish(t, "copy_setup")
     \/ tpc' = [tpc EXCEPT ![t] = "token"] /\ UNCHANGED status
  /\ UNCHANGED <<work, mpc, i, ttokens, cur, bat, total, result>>

\* ScanData's token loop: done (Status::OK), or IntoKuduScanner and Open.
NextToken(t) ==
  /\ tpc[t] = "token"
  /\ IF cur[t] > Len(ttokens[t])
     THEN Finish(t, OK) /\ UNCHANGED bat
     ELSE \/ MayFail("into_scanner") /\ Finish(t, "into_scanner") /\ UNCHANGED bat
          \/ MayFail("open") /\ Finish(t, "open") /\ UNCHANGED bat
          \/ tpc' = [tpc EXCEPT ![t] = "batch"] /\ bat' = [bat EXCEPT ![t] = 0]
             /\ UNCHANGED status
  /\ UNCHANGED <<work, mpc, i, ttokens, cur, total, result>>

\* while (HasMoreRows()): NextBatch, count += NumRows, total_count_ +=
\* NumRows (the throttler may delay, not change, the step); at the end the
\* scanner is dropped and the next token taken.
NextBatch(t) ==
  /\ tpc[t] = "batch"
  /\ LET batches == TokenBatches[ttokens[t][cur[t]]]
     IN IF bat[t] = Len(batches)
        THEN /\ tpc' = [tpc EXCEPT ![t] = "token"]
             /\ cur' = [cur EXCEPT ![t] = @ + 1]
             /\ UNCHANGED <<bat, status, total>>
        ELSE \/ MayFail("next_batch") /\ Finish(t, "next_batch")
                /\ UNCHANGED <<cur, bat, total>>
             \/ /\ total' = total + batches[bat[t] + 1]
                /\ bat' = [bat EXCEPT ![t] = @ + 1]
                /\ tpc' = [tpc EXCEPT ![t] = "cb"]
                /\ UNCHANGED <<cur, status>>
  /\ UNCHANGED <<work, mpc, i, ttokens, result>>

\* RETURN_NOT_OK(cb(batch)): ScanTask's printer always succeeds; CopyTask's
\* AddRow per row and Flush may fail.
Callback(t) ==
  /\ tpc[t] = "cb"
  /\ \/ tpc' = [tpc EXCEPT ![t] = "batch"] /\ UNCHANGED status
     \/ work = "copy" /\ MayFail("add_row") /\ Finish(t, "add_row")
     \/ work = "copy" /\ MayFail("flush") /\ Finish(t, "flush")
  /\ UNCHANGED <<work, mpc, i, ttokens, cur, bat, total, result>>

Task(t) == TaskStart(t) \/ NextToken(t) \/ NextBatch(t) \/ Callback(t)

\* StartWork has returned and the pool is idle: nothing more happens.
Terminated ==
  /\ mpc = "done"
  /\ \A t \in Threads : tpc[t] \in {"unsubmitted", "finished"}
  /\ UNCHANGED vars

Next ==
  \/ Setup \/ Submit \/ EndSubmitLoop \/ WaitAndAggregate
  \/ \E t \in Threads : Task(t)
  \/ Terminated

Spec == Init /\ [][Next]_vars

(***************************************************************************)
(* Properties.                                                             *)
(***************************************************************************)
TypeOK ==
  /\ work \in WorkTypes
  /\ mpc \in {"setup", "submit", "wait", "done"}
  /\ i \in 0..NumThreads
  /\ ttokens \in [Threads -> Seq(Tokens)]
  /\ tpc \in [Threads -> {"unsubmitted", "queued", "token", "batch", "cb", "finished"}]
  /\ status \in [Threads -> {OK} \cup FailSites]
  /\ total \in Nat
  /\ result \in {"none", OK} \cup FailSites

\* Rows of all tokens passing the filter.
FilteredRows == SumFunction([k \in TabletFilter |-> SumFunction(TokenBatches[k])])

(* An OK StartWork that scanned has counted every row of every token that *)
(* passes the tablet filter exactly once: every dealt list was submitted,  *)
(* every token of it opened and every batch of it taken.                   *)
CountOnSuccess ==
  (mpc = "done" /\ result = OK /\ ~(work = "copy" /\ WriteTypeEmpty))
    => total = FilteredRows

(* Round-robin dealing: every token passing the filter is in exactly one  *)
(* thread's list, in Build() order, and the lists' lengths differ by at   *)
(* most one, whichever tokens the filter drops.                           *)
TokensDealtEvenly ==
  mpc \in {"submit", "wait"} =>
    /\ \A k \in Tokens :
         Cardinality({<<t, j>> \in Threads \X Tokens :
                        j <= Len(ttokens[t]) /\ ttokens[t][j] = k})
           = IF k \in TabletFilter THEN 1 ELSE 0
    /\ \A t \in Threads : \A j \in 1..(Len(ttokens[t]) - 1) :
         ttokens[t][j] < ttokens[t][j + 1]
    /\ \A t, u \in Threads : Len(ttokens[t]) - Len(ttokens[u]) <= 1

(* No task outlives StartWork: once it has returned, no submitted task is *)
(* still to run, since each reads its token list and writes its status    *)
(* through pointers into StartWork's locals.                              *)
NoTaskOutlivesStartWork ==
  mpc = "done" => \A t \in Threads : tpc[t] \in {"unsubmitted", "finished"}

(* A copied row holds, in every destination column but the auto-        *)
(* incrementing one, the value the scan read for the column of that name, *)
(* and leaves the auto-incrementing column for the server to fill: the    *)
(* StartWork projection drops it by name and AddRow skips it by index,    *)
(* wherever it sits in the schema.                                         *)
CopiedRowMatchesSource ==
  work = "copy" => \A sch \in CopySchemas :
      LET p == CopyProjection(sch)
      IN \A nulls \in SUBSET DOMAIN p :
           LET row == [k \in DOMAIN p |-> IF k \in nulls THEN Null ELSE p[k]]
               out == AddRow(sch, row)
           IN /\ Len(out) = Len(sch)
              /\ \A j \in DOMAIN sch :
                   out[j] = IF sch[j] = AutoCol THEN Unset
                            ELSE row[CHOOSE k \in DOMAIN p : p[k] = sch[j]]

=============================================================================

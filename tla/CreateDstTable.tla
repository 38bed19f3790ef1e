--------------------------- MODULE CreateDstTable ---------------------------
(***************************************************************************)
(* The schema construction of CreateDstTableIfNeeded                       *)
(* (src/kudu/tools/table_scanner.cc) for a destination table that does not *)
(* exist: the source columns are re-added in order and every hole in the   *)
(* source's internal column ids is filled with INT8 dummy columns (dropped *)
(* after creation), so that the destination assigns the same ids.  A      *)
(* column of the result is a source column (by index) or a dummy; the     *)
(* result is Corruption when the ids are not increasing.                  *)
(*                                                                         *)
(* The second part is the whole procedure against a destination cluster   *)
(* whose table outlives the tool: a copy opens the destination table,     *)
(* checks an existing one, or builds the schema, the hash buckets and the  *)
(* range bounds, creates the table, drops the dummies and checks the       *)
(* result.  Every client call may fail, the process may die between any   *)
(* two of them, and the tool may be run again.                            *)
(***************************************************************************)
EXTENDS Integers, Sequences

Dummy == [kind |-> "dummy", col |-> 0]
Real(idx) == [kind |-> "real", col |-> idx]

\* Mutant: the hole loop runs while expect_column_id <= actual_column_id.
DummyColumnsInclusive(expect, actual) == [j \in 1..(actual - expect + 1) |-> Dummy]

\* while (expect_column_id < actual_column_id): one dummy per missing id.
DummyColumns(expect, actual) == [j \in 1..(actual - expect) |-> Dummy]

(***************************************************************************)
(* The for loop over the source columns, idx advancing only when a real   *)
(* column is added.                                                        *)
(***************************************************************************)
RECURSIVE BuildLoop(_, _, _, _)
BuildLoop(ids, idx, expect, cols) ==
  IF idx > Len(ids) THEN [ok |-> TRUE, cols |-> cols]
  ELSE IF expect = ids[idx]
  THEN BuildLoop(ids, idx + 1, expect + 1, Append(cols, Real(idx)))
  ELSE IF expect >= ids[idx]
  THEN [ok |-> FALSE, cols |-> cols]   \* Status::Corruption
  ELSE LET d == DummyColumns(expect, ids[idx])
       IN BuildLoop(ids, idx, expect + Len(d), cols \o d)

\* expect_column_id starts at the id of the first source column.
BuildDstColumns(ids) == BuildLoop(ids, 1, ids[1], << >>)

(***************************************************************************)
(* The procedure.                                                          *)
(***************************************************************************)
CONSTANTS
  SrcSchemas,    \* candidate source schemas: their internal column ids
  SrcHashes,     \* candidate source hash schemas: buckets per dimension
  NumRanges,     \* range partitions of the source
  HashFlags,     \* candidate --create_table_hash_bucket_nums, split at ','
  FailSites,     \* client calls that may return a non-OK Status
  MaxRuns        \* bound: invocations of the tool

OK == "OK"
Ranges == 1..NumRanges
NoTable == [exists |-> FALSE, tid |-> "none", cols |-> << >>, hash |-> << >>,
            ranges |-> << >>, created |-> FALSE]

VARIABLES
  srcIds,   \* the source table's column ids (its columns are named 1, 2, ..)
  srcHash,  \* the source table's hash schema
  flag,     \* the hash bucket flag
  createTable,    \* --create_table
  strictColumnId, \* --strict_column_id
  dst,      \* the table named dst_table_name in the destination cluster
  pc,       \* "idle", "open", "build", "create", "alter", "verify"
  plan,     \* the table creator's content: columns, hash buckets, ranges
  result,   \* what the last invocation returned
  runs      \* invocations so far

vars == <<srcIds, srcHash, flag, createTable, strictColumnId, dst, pc, plan, result, runs>>

MayFail(site) == site \in FailSites

\* The source schema's columns, and a column of the destination: a name
\* (the index of the source column it copies, DummyName for a dummy_<oid>
\* column, OtherName for a column of an unrelated table) and its id.
DummyName == 0
OtherName == -1
SrcCols == [k \in 1..Len(srcIds) |-> [name |-> k, id |-> srcIds[k]]]

\* SchemasMatch: Schema::operator== (names and definitions, not ids), and
\* the ids too under --strict_column_id.
SchemasMatch(d) ==
  /\ Len(d.cols) = Len(srcIds)
  /\ \A k \in 1..Len(srcIds) : d.cols[k].name = k
  /\ strictColumnId => \A k \in 1..Len(srcIds) : d.cols[k].id = srcIds[k]

\* The candidate destination tables before the first run: none, the source
\* itself, a table created by hand with the source's columns, another one.
DstChoices ==
  { NoTable,
    [NoTable EXCEPT !.exists = TRUE, !.tid = "src", !.cols = SrcCols],
    [NoTable EXCEPT !.exists = TRUE, !.tid = "other",
       !.cols = [k \in 1..Len(srcIds) |-> [name |-> k, id |-> k - 1]]],
    [NoTable EXCEPT !.exists = TRUE, !.tid = "other",
       !.cols = << [name |-> OtherName, id |-> 0] >>] }

\* Split(FLAGS_create_table_hash_bucket_nums, ",", SkipEmpty()) and the
\* bucket numbers: -1 (the source's) when none given, else one per
\* dimension, each a number of at least 2.
IsNumber(tok) == tok \in {"1", "3"}
Num(tok) == IF tok = "1" THEN 1 ELSE 3

\* The buckets of each created hash dimension: the flag's, or the source's
\* num_buckets where the flag gives -1.  With no hash dimensions a non-empty
\* flag string is rejected.
HashBucketNums(raw, hs) ==
  LET toks == SelectSeq(raw, LAMBDA x : x # "")
  IN IF hs = << >>
     THEN IF raw # << >> THEN [ok |-> FALSE] ELSE [ok |-> TRUE, nums |-> << >>]
     ELSE IF toks = << >> THEN [ok |-> TRUE, nums |-> [d \in DOMAIN hs |-> hs[d]]]
     ELSE IF Len(toks) # Len(hs) \/ \E d \in DOMAIN toks : ~IsNumber(toks[d]) \/ Num(toks[d]) < 2
          THEN [ok |-> FALSE]
          ELSE [ok |-> TRUE, nums |-> [d \in DOMAIN toks |-> Num(toks[d])]]

\* Combinations of buckets of the hash dimensions d, d+1, ...
RECURSIVE BucketCombos(_, _)
BucketCombos(hs, d) == IF d > Len(hs) THEN 1 ELSE hs[d] * BucketCombos(hs, d + 1)

\* ListPartitions: one partition per combination of hash buckets and range,
\* in partition key order (the hash buckets first, then the range key).
Partitions(hs) ==
  [j \in 1..(BucketCombos(hs, 1) * NumRanges) |->
     LET c == (j - 1) \div NumRanges
     IN [buckets |-> [d \in DOMAIN hs |-> (c \div BucketCombos(hs, d + 1)) % hs[d]],
         range |-> ((j - 1) % NumRanges) + 1]]

\* Mutant: a partition is kept when some bucket (not every one) is 0.
RangeBoundsAnyZero(parts) ==
  LET kept == SelectSeq(parts, LAMBDA p : \E d \in DOMAIN p.buckets : p.buckets[d] = 0)
  IN [j \in 1..Len(kept) |-> kept[j].range]

\* The range bounds added: one per partition whose hash buckets are all 0,
\* that is one per range partition.
RangeBounds(parts) ==
  LET kept == SelectSeq(parts, LAMBDA p : \A d \in DOMAIN p.buckets : p.buckets[d] = 0)
  IN [j \in 1..Len(kept) |-> kept[j].range]

\* The table the master creates from the plan: it gives the columns
\* consecutive ids from 0 in order (an assumption about the master, which
\* is not in this tree).
Created(p) ==
  [exists |-> TRUE, tid |-> "new", hash |-> p.hash, ranges |-> p.ranges,
   created |-> TRUE,
   cols |-> [j \in 1..Len(p.cols) |->
               [name |-> IF p.cols[j].kind = "dummy" THEN DummyName ELSE p.cols[j].col,
                id |-> j - 1]]]

Init ==
  /\ srcIds \in SrcSchemas
  /\ srcHash \in SrcHashes
  /\ flag \in HashFlags
  /\ createTable \in BOOLEAN
  /\ strictColumnId \in BOOLEAN
  /\ dst \in DstChoices
  /\ pc = "idle"
  /\ plan = [cols |-> << >>, hash |-> << >>, ranges |-> << >>]
  /\ result = "none"
  /\ runs = 0

Return(s) == pc' = "idle" /\ result' = s

\* The tool is run (again): StartWork of a copy reaches CreateDstTableIfNeeded.
Invoke ==
  /\ pc = "idle"
  /\ runs < MaxRuns
  /\ pc' = "open" /\ runs' = runs + 1 /\ result' = "none"
  /\ UNCHANGED <<srcIds, srcHash, flag, createTable, strictColumnId, dst, plan>>

\* OpenTable(dst): an error other than NotFound is returned; an existing
\* table must not be the source and must match its schema; a missing one
\* is NotFound without --create_table.
OpenDst ==
  /\ pc = "open"
  /\ \/ MayFail("open") /\ Return("open")
     \/ dst.exists /\ dst.tid = "src" /\ Return("AlreadyPresent")
     \/ /\ dst.exists /\ dst.tid # "src"
        /\ Return(IF SchemasMatch(dst) THEN OK ELSE "NotSupported")
     \/ ~dst.exists /\ ~createTable /\ Return("NotFound")
     \/ ~dst.exists /\ createTable /\ pc' = "build" /\ UNCHANGED result
  /\ UNCHANGED <<srcIds, srcHash, flag, createTable, strictColumnId, dst, plan, runs>>

\* The table creator is filled: the columns (Corruption on non-increasing
\* ids), the hash dimensions (InvalidArgument on a bad flag), and a range
\* bound per range partition (ListPartitions and DecodeRangeKey may fail).
Build ==
  /\ pc = "build"
  /\ LET cols == BuildDstColumns(srcIds)
         hb == HashBucketNums(flag, srcHash)
     IN \/ ~cols.ok /\ Return("Corruption") /\ UNCHANGED plan
        \/ cols.ok /\ ~hb.ok /\ Return("InvalidArgument") /\ UNCHANGED plan
        \/ cols.ok /\ hb.ok /\ MayFail("partitions") /\ Return("partitions")
           /\ UNCHANGED plan
        \/ /\ cols.ok /\ hb.ok
           /\ plan' = [cols |-> cols.cols, hash |-> hb.nums,
                       ranges |-> RangeBounds(Partitions(srcHash))]
           /\ pc' = "create"
           /\ UNCHANGED result
  /\ UNCHANGED <<srcIds, srcHash, flag, createTable, strictColumnId, dst, runs>>

HasDummies(p) == \E j \in 1..Len(p.cols) : p.cols[j].kind = "dummy"

\* table_creator->Create(): fails with nothing created, fails after the
\* master created the table (the wait for it timed out), or succeeds.
Create ==
  /\ pc = "create"
  /\ \/ MayFail("create") /\ Return("create") /\ UNCHANGED dst
     \/ MayFail("create_timeout") /\ dst' = Created(plan) /\ Return("create")
     \/ /\ dst' = Created(plan)
        /\ pc' = IF HasDummies(plan) THEN "alter" ELSE "verify"
        /\ UNCHANGED result
  /\ UNCHANGED <<srcIds, srcHash, flag, createTable, strictColumnId, plan, runs>>

\* One alterer drops every dummy column; Alter() applies all or nothing.
DropDummies ==
  /\ pc = "alter"
  /\ \/ MayFail("alter") /\ Return("alter") /\ UNCHANGED dst
     \/ /\ dst' = [dst EXCEPT !.cols = SelectSeq(@, LAMBDA c : c.name # DummyName)]
        /\ pc' = "verify"
        /\ UNCHANGED result
  /\ UNCHANGED <<srcIds, srcHash, flag, createTable, strictColumnId, plan, runs>>

\* OpenTable again and SchemasMatch against the source.
Verify ==
  /\ pc = "verify"
  /\ \/ MayFail("open") /\ Return("open")
     \/ Return(IF SchemasMatch(dst) THEN OK ELSE "NotSupported")
  /\ UNCHANGED <<srcIds, srcHash, flag, createTable, strictColumnId, dst, plan, runs>>

\* The tool dies between two calls; what it did in the cluster stays.
Crash ==
  /\ pc \notin {"idle"}
  /\ "crash" \in FailSites
  /\ Return("crashed")
  /\ UNCHANGED <<srcIds, srcHash, flag, createTable, strictColumnId, dst, plan, runs>>

\* No more invocations.
Done == pc = "idle" /\ runs = MaxRuns /\ UNCHANGED vars

Next == Invoke \/ OpenDst \/ Build \/ Create \/ DropDummies \/ Verify \/ Crash \/ Done

Spec == Init /\ [][Next]_vars

(***************************************************************************)
(* Properties.                                                             *)
(***************************************************************************)
StrictlyIncreasing(s) == \A k \in 1..(Len(s) - 1) : s[k] < s[k + 1]

\* The reference layout: one column per id from the first to the last, the
\* source column carrying that id or else a dummy.
Reference(s) ==
  [j \in 1..(s[Len(s)] - s[1] + 1) |->
     LET c == s[1] + j - 1
     IN IF \E k \in 1..Len(s) : s[k] = c
        THEN Real(CHOOSE k \in 1..Len(s) : s[k] = c)
        ELSE Dummy]

(* CreateDstTableIfNeeded accepts exactly the schemas whose internal ids  *)
(* increase strictly, and then lays out the destination columns so that   *)
(* the k-th of them has id first + k - 1: every source column lands at    *)
(* the position of its own id and every hole is exactly filled by dummies.*)
DummiesFillHolesExactly ==
  LET r == BuildDstColumns(srcIds)
  IN /\ r.ok <=> StrictlyIncreasing(srcIds)
     /\ r.ok => r.cols = Reference(srcIds)

(* A table the tool created has each source range partition exactly once *)
(* (the partition list has one entry per range and hash bucket            *)
(* combination), and per hash dimension the flag's bucket count if given, *)
(* else the source's, never fewer than 2.                                  *)
CreatedTableMirrorsSourcePartitioning ==
  dst.created =>
    /\ Len(dst.ranges) = NumRanges
    /\ {dst.ranges[j] : j \in 1..Len(dst.ranges)} = Ranges
    /\ Len(dst.hash) = Len(srcHash)
    /\ \A d \in 1..Len(dst.hash) : dst.hash[d] >= 2

(* Once no run is in progress, a table the tool created has no dummy      *)
(* columns left and matches the source: "the dummy columns will be        *)
(* dropped after the table is created", so that a rerun can use it.       *)
NoHalfCreatedTable ==
  (pc = "idle" /\ dst.created) => SchemasMatch(dst)

====

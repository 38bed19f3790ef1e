# TLA+ models of the kudu type layer, Variant, HighWaterMark, the table scan/copy tool and the cache benchmark driver

This directory checks the code under `src/kudu/` with the TLC model checker.
`PROJECT.json` holds the machine-readable index:
- the components, with what is modelled of each;
- every TLC run and the mutants that show each checked property can fail;
- the map from every TLA+ definition to the source lines it translates;
- the findings;
- the hazards, each at its source line.

## 1. The system

| Part | Source | What it is |
|---|---|---|
| Physical trait tables | `common/types.h` 103-503 | `DataTypeTraits<T>` for each physical type. Each gives `Compare` (`GenericCompare`, or `Slice::compare` for BINARY), `AreConsecutive` (integer, float or BINARY rule), `min_value`/`max_value` and `IsVirtual`. |
| Derived-type layering | `types.h` 505-668 | `DerivedTypeTraits<P>`. STRING and VARCHAR map to BINARY; UNIXTIME_MICROS and DECIMAL64 to INT64; DATE and DECIMAL32 to INT32; DECIMAL128 to INT128; IS_DELETED to BOOL. DATE overrides min/max and adds `IsValidValue`. UNIXTIME_MICROS formats with a floored seconds split. |
| TypeInfo | `types.h` 56-101 | The runtime descriptor. `IsMinValue`/`IsMaxValue` go through `Compare`. The registry that builds the descriptors is in `types.cc`, which is not in this tree. |
| Variant | `types.h` 679-882 | The boxed value: a tag, a numeric union, and a `Slice vstr_`. `vstr_` points either at the static `""` or at a heap block the box owns. |
| HighWaterMark | `util/high_water_mark.h` | A lock-free counter (`current_value_`) and the highest value it has held (`max_value_`). Threads update it concurrently. |
| TableScanner | `tools/table_scanner.cc` 761-1032 | `StartWork` deals scan tokens round-robin to `num_threads` lists and submits one `ScanTask`/`CopyTask` per list to a thread pool. It then waits and returns the first failed thread's status. Each task runs `ScanData`'s token and batch loops. |
| Flag validators | `table_scanner.cc` 170-225, 739-758, 1096-1112 | gflags validators for `--write_type` and `--replica_selection`. Both compare case-insensitively. The constructor parses `--replica_selection` again under `CHECK_OK`, and `CopyTask` maps `--write_type` to an operation type with `==`. |
| Predicate parsing | `table_scanner.cc` 230-504 | `AddPredicates` parses `--predicates` (a JSON array `["AND", [op, column, value?], ...]`) and hands one `KuduPredicate` per element to the scan token builder. |
| Cache benchmark | `util/cache-bench.cc` 139-254 | `RunBench` calls `RunQueryThreads` twice, a warm-up and the measured run. Each call spawns `--num_threads` threads running `DoQueries` until an atomic `done` is set, sleeps, sets `done`, joins them and returns two atomic totals. `RunBench` then logs lookups per second and the hit rate. |
| CreateDstTableIfNeeded | `table_scanner.cc` 506-728 | Opens the destination table and checks an existing one against the source (`SchemasMatch`). Otherwise, with `--create_table`, it builds the schema (holes in the column ids filled with dummy columns), the hash dimensions (`--create_table_hash_bucket_nums`) and one range bound per range partition. It then creates the table, drops the dummies with an Alter and checks the result. |

How the parts interact:
- `Variant::Equals` calls `TypeInfo::Compare`, so Variant depends on the trait tables.
- `StartWork` calls `AddPredicates` and, for a copy, `CreateDstTableIfNeeded` before it deals tokens.
- The HighWaterMark, TableScanner and cache benchmark models are independent of each other. The LRU/SLRU cache the benchmark drives is not in this tree.

## 2. Modules and how they correspond to the code

**`KuduTypes`** holds the trait tables as pure operators. Values are abstracted as follows:
- **Integers.** An integer of type `t` is a TLA+ integer of `Bits[t]` bits. `IntBits` is the width of C++ `int` at the same scale. So `CppPlusOne` reproduces what the build computes:
  - integer promotion below `int`;
  - wrap-around modulo 2^w for unsigned 32/64-bit;
  - two's-complement wrap for the undefined signed overflow.
- **Floats.** A float is a position on the ordered line of representable values, with the ends as the infinities, plus a `NaN` constant. `NextAfter` moves one position.
- **Slices.** A Slice is a sequence of bytes. `Slice::compare` is in `util/slice.h`, which is not under `src/`, so `MemCompare`/`SliceCompare` follow the spec's wording: memcmp first, then length.

**`MCQueries`** is the harness for the pure operators of `KuduTypes`, `PredicateParser` and `ToolFlags`. A behaviour asks one query, `TypesQuery` or `InputsQuery`, and then stops. The properties compare the operators with reference definitions written from the spec and the help texts.

A `TypesQuery` is a DataType and two operands from a bounded domain. Its references include the recursive `LexLess` and the integer `a + 1`.

**`Variant`** has one action per operation:
- `Construct` is the constructor. `vstr_` starts as `""`, then `Reset` runs.
- `Reset(v, t, src)` is `Reset(DataType, const void*)`. It runs `Clear()`, sets the tag, then copies from the source, in that order. The source is caller data, or the `value()` of a box (possibly the same box).
- `ResetString` covers the two string overloads.
- `Destroy` is the destructor.
- `Install` is the switch of `Reset` after `Clear`. An empty Slice keeps `vstr_` at `""`; anything else gets a fresh block from `Blocks`.

The heap is modelled explicitly:
- `heapLive` is the set of allocated blocks, and `heapData` is their bytes.
- A read of a freed block yields arbitrary bytes and records `use_after_free`.
- A `delete[]` of a freed block records `double_free`.
- `requested` is a history variable holding the value the caller meant to store.

**`HighWaterMark`** splits each call at its atomic operations:
- `TryIncrementBy` is `TryLoad`, then `TryCas` or `TryCasFail`. `TryCasFail` covers both a lost race and a spurious `compare_exchange_weak` failure.
- `IncrementBy` is a `fetch_add` followed by `UpdateMax`.
- `set_value` is a store followed by `UpdateMax`.

`AtomicStoreMax` is in `atomic-utils.h`, not under `src/`. It is modelled as one atomic raise.

`int64_t` is scaled to `Width` bits, and every addition is `Plus`, a two's-complement wrap. `fetch_add` on the atomic wraps by definition. `old_val + delta` in `TryIncrementBy` is undefined on overflow, and is modelled by what the build does: the add instruction wraps.

The relaxed memory orders need no modelling:
- each member is only accessed atomically;
- each atomic has a single modification order;
- no property relates the two members across threads except when no call is in progress.

History variables:
- `expected` is the value the calls' effects imply.
- `highest` is the highest value held.
- `highestSet` is the highest value stored by `TryIncrementBy` or `set_value`.

**`TableScanner`** models the main thread and the pool tasks.
- Main thread:
  - `Setup` covers every early return before the pool and the "create table only" copy path. Otherwise it deals the tokens with `ThreadTokens`.
  - `Submit` is the submission loop; a failure returns from `StartWork`.
  - `WaitAndAggregate` is the WaitFor loop, `Shutdown` and `FirstError`.
- Tasks:
  - `TaskStart` is CopyTask's setup.
  - `NextToken` is `IntoKuduScanner` and `Open`.
  - `NextBatch` is `HasMoreRows`/`NextBatch` and the `total_count_` update.
  - `Callback` is the scan printer or the copy lambda's `AddRow` and `Flush`.
- The copy's rows:
  - `CopyProjection` is StartWork's projection, which leaves out the auto-incrementing column by name.
  - `AddRow` copies the whole row when the table has no such column. Otherwise it runs the column loop (`CopyColumns`), which skips that column's index.
  - A source value is its column's name or `Null`.

Each fallible call fails nondeterministically when its site is in `FailSites`. A Status is abstracted to the name of the site that produced it.

**`PredicateParser`** holds `AddPredicates` and its helpers as pure operators.
- A JSON value is a record of its rapidjson kind. Numbers are abstracted to what `IsInt`, `IsInt64`, `IsFloat` and `IsDouble` tell apart: an int-range literal is also an int64, and a float-exact literal is also a double.
- A Status is abstracted to its code.
- The recursive `Loop` is the loop over the top-level array. Its result carries the predicates already handed to the builder and the position of the element that stopped it.

**`ToolFlags`** holds the validators, `ParseReplicaSelection`, the constructor (`Construct`, with `CHECK_OK` as an abort), `CopyTask`'s write-type mapping and StartWork's create-only case. A string is a word and its capitalisation. `IEquals` compares words only, while `==` compares both.

An `InputsQuery` is a `--predicates` value, a `--replica_selection` spelling and a `--write_type` spelling. Before the query, the flags hold their defaults (`DefaultReplicaSelection`, `DefaultWriteType`).
- The `--predicates` values are the empty and the malformed flag, non-array roots, and arrays of a head and up to two elements from 12 representative elements.
- The other two flags take each word in lower and upper case, plus unknown words and the empty string.
- Each input is checked against a reference written from its help text.

**`CacheBench`** models `RunBench` and the threads of its two `RunQueryThreads` calls.
- Main thread:
  - `Spawn` is one iteration of the spawn loop. It assigns the main thread's `frequent`, and the lambda's `[&, frequent]` copies it into `cap`.
  - `WakeUp` is the end of `SleepFor` and `done = true`.
  - `Join` is one `t.join()`, which waits for that thread to exit.
  - `Return` hands the totals back. After the warm-up it enters the measured call (`EnterRunQueryThreads`), and after the measured call it stores `result`.
  - `Report` computes `l_per_sec` with an integer division by `--run_seconds`.
- Each thread:
  - `Start` runs `DoQueries` with the captured value.
  - `Check` is the `while (!*done)` test.
  - `Query` is one loop body: a Lookup that hits or misses nondeterministically.
  - `AddHits` and `AddLookups` are the two atomic additions.
- Abstracted away: the keys, `max_key`, the entry sizes and the Insert on a miss only feed the cache, which is not in this tree.

**`CreateDstTable`** has two parts:
- The column-id loop is the recursive operator `BuildLoop`.
- The whole procedure is modelled against a destination cluster whose table outlives the tool:
  - `Invoke` runs the tool (again).
  - `OpenDst` is the first `OpenTable` and the existing-table checks.
  - `Build` fills the table creator: columns, `HashBucketNums` and `RangeBounds` over the source's `Partitions`.
  - `Create` succeeds, fails, or fails after the master created the table (a timeout).
  - `DropDummies` is the Alter.
  - `Verify` is the final `OpenTable` and `SchemasMatch`.
  - `Crash` kills the tool between any two calls.

The master, which is not in this tree, is assumed to give the created columns the ids 0, 1, .. in order (`Created`).

## 3. Runs and what they show

| Run | Expect | Shows |
|---|---|---|
| `queries_pass` | pass | Type layer: for every DataType, over bounded domains without NaN: Compare is a total order; integer and BINARY `AreConsecutive` are exactly "immediate successor", also at the unsigned wrap; the timestamp split floors for negative instants. Tool inputs: `AddPredicates` accepts exactly the documented form, with elements whose operator or column is empty skipped. On an error, the builder holds exactly the predicates of the elements before the offending one. A validated `--replica_selection` never aborts the constructor and selects what it names. Every `--write_type` the help text lists does what it names. |
| `variant_pass` | pass | Two boxes, three blocks, with any sequence of constructions, Resets (also from the other box's `value()`) and destructions. Every buffer has exactly one owner. Nothing leaks, is freed twice or is read after being freed. `value()` is what was set. |
| `variant_self_reset` | violation | `Reset(STRING, v.value())` on `v` itself stores `""`. |
| `hwm_try` | pass | Three threads mixing all three mutators. No update is lost. At rest, `max_value` is at least every value `TryIncrementBy` or `set_value` stored and at most the highest value held (`MaxBoundsHighWaterMark`). |
| `hwm_increment` | violation | After `IncrementBy(1)`, max_value lags current_value. |
| `hwm_overflow` | violation | `TryIncrementBy(2, INT64_MAX)` two below `INT64_MAX` wraps to a negative sum, passes the limit test, stores it and returns true (`IncrementsOnlyWithinMax`, an action property). |
| `scanner_pass` | pass | Scan and copy, with every client call except Submit fallible. An OK result counted every filtered row once. Tokens are dealt evenly. A copied row holds every source column's value in the destination column of the same name, wherever the auto-incrementing column sits (`CopiedRowMatchesSource`). Deadlock is checked: StartWork never waits on a task that cannot finish. |
| `scanner_submit_fail` | violation | A failed Submit returns while queued tasks still use StartWork's locals. |
| `createdst_pass` | pass | Only strictly increasing ids are accepted, and the dummies fill each hole exactly. Over failing calls, crashes and a rerun, a created table has every range exactly once and valid bucket counts. |
| `createdst_rerun` | violation | A failed Alter, a Create timeout or a crash after Create leaves a created table with dummy columns, which no rerun accepts. |
| `cachebench_pass` | pass | `RunBench` with three threads. The reported hits and lookups are exactly the sums of the measured threads' counts (`ReportedTotalsAreThreadSums`). Deadlock is checked: no join waits forever. |
| `writetype_case` | violation | `--write_type=INSERT` passes the validator, and every copy thread then fails with InvalidArgument. |

Every property of a passing run has a mutant in `PROJECT.json`: a plausible bug in a mapped definition that TLC finds violating it. Examples:
- `GenericCompare` without its second comparison;
- `Clear` not resetting `vstr_`;
- a shallow copy of another box's Slice;
- a blind store instead of the CAS;
- `UpdateMax` as a plain store;
- a submission loop one short;
- `<=` in the hole loop;
- a range bound per partition with some bucket 0;
- INT64 taking only int-range values;
- a non-array element skipped;
- `ParseReplicaSelection` without FIRST;
- INSERT_IGNORE and UPSERT swapped;
- AddRow not skipping the auto-incrementing column;
- a join that does not wait.

## 4. Findings

1. **Self-reset (spec gap).** `Variant::Reset` reads its source after `Clear()` (`types.h:757`), so a box reset from its own `value()` silently becomes `""`. There is no memory error, because `Clear` resets `vstr_`. The contract in section 4.7 does not forbid this call.
2. **IncrementBy (code bug).** At `high_water_mark.h:70`, `UpdateMax` receives the value `fetch_add` returns, which is the value before the addition. So `max_value()` can be below `current_value()`.
3. **Submit failure (code bug).** At `table_scanner.cc:1000`, `RETURN_NOT_OK(Submit(...))` can return after earlier tasks were queued. Those tasks then read freed tokens and write a destroyed `thread_statuses` vector.
4. **Dummy columns left behind (code bug).** `CreateDstTableIfNeeded` creates the table with INT8 `dummy_<oid>` columns and drops them in a separate `Alter` (`table_scanner.cc:717`). If that Alter fails, or Create times out after the master created the table, or the tool dies in between, the table keeps its dummies. Every rerun then opens it as an existing table and fails `SchemasMatch`, so the copy can never proceed without a manual fix. The comment at line 590 says "The dummy columns will be dropped after the table is created".
5. **Upper-case `--write_type` (code bug).** `ValidateWriteType` compares case-insensitively (`iequals`, `table_scanner.cc:176`), and its error message lists the values the flag "should be". So it accepts `INSERT`. `CopyTask` maps the flag with `==` against the lower-case constants (`table_scanner.cc:834`), so every copy thread fails with "invalid write operation type". This may happen after `CreateDstTableIfNeeded` has already created the destination table. `--replica_selection`, validated the same way, is parsed case-insensitively and works in any case.
6. **TryIncrementBy overflow (spec-code divergence).** At `high_water_mark.h:56`, `new_val = old_val + delta` overflows when the counter is near `INT64_MAX`. The wrapped, negative sum passes `new_val > max`, is stored by the CAS, and the call returns true. The comment says the call increments by `delta` only when the sum is `<= max`. `IncrementBy` and `set_value` can put the counter anywhere, and `max = INT64_MAX` is the natural "no limit".

## 5. Bounds and why they are enough

- **Types.**
  - Widths are scaled: int is 4 bits, the 8- and 16-bit types are 2 and 3 bits, 64 bits is 5 and 128 bits is 6. Promotion and wrap therefore happen at the same relative positions.
  - Slices have up to 3 bytes from {0x00, 0x01, 0xFF}: NUL, a small byte and a byte with the top bit set.
  - Float positions run from -3 to 3.
  - Timestamps are sampled around second boundaries on both sides of the epoch.
- **Variant.**
  - 2 boxes and 3 blocks: enough for both boxes to hold a buffer while a third is allocated during a Reset.
  - 3 types: INT32, STRING and BINARY. The two Slice types with the same physical type allow cross-type Resets, and INT32 exercises the numeric path.
  - Strings have length at most 2 over {0, 1}.
  - Symmetry is used over boxes and blocks.
- **HighWaterMark.** In `hwm_try`, three threads make 2 calls each of any of the three mutators, with deltas {1, 2}, set values {0, 3} and a limit of 3. Two threads can race past the limit from 2. A third thread can interleave between another thread's load and CAS, or between a store and its `UpdateMax`. Symmetry is used over threads. `int64_t` is 6 bits wide there (-32..31), so no value wraps. `hwm_increment` needs only one `IncrementBy` caller. `hwm_overflow` makes one call at 4 bits (`INT64_MAX` = 7) from 6 with delta 2: the smallest case where the sum wraps.
- **TableScanner.** The copied schemas have two columns and the auto-incrementing column at each position, or no such column, with every null pattern of the scanned row. There are 3 tokens over 2 threads. The filter drops the middle token, which is what makes the round-robin index matter. One token has two batches and one is empty, and both work types are explored.
- **CreateDstTable.**
  - `DummiesFillHolesExactly` is checked for every id sequence of length 1-3 over 0..4 that starts at 0: duplicates, decreasing ids, single holes and multi-id holes.
  - The procedure uses 2 range partitions; hash schemas with no dimension or two dimensions of 2 buckets; and 7 bucket flags (empty, only commas, a valid pair, a valid pair around an empty token, a count mismatch, a 1, a non-number), each also met with no hash schema.
  - Every call site may fail, and there are 2 invocations, so a rerun sees what the first run left.
- **CacheBench.** There are 3 threads: threads 0 and 2 are even and thread 1 is odd. So `frequent` is reassigned after thread 0 was created and before it must start. Each thread makes up to 2 lookups a run and then waits for `done`. `done` can also be set before a thread's first lookup, and both runs are explored. `--run_seconds` is its default of 1.
- **PredicateParser.** 7 column types cover each ParseValue branch and the unsupported default. The values cover int, int64, float, double, bool, string and array. The operators include lower case, unknown and the empty string. A flag has up to two elements after the head, so an error after an accepted element happens.

## 6. Fairness

No run checks a liveness property, and no specification assumes fairness. Each loop in the models is bounded: the token and batch loops by the tokens and batches, the query loops by `MaxLookups`, and the calls by `OpsPerThread`. So termination would hold because of the model's shape, not because of the code. What the code must guarantee instead is that a waiting thread is never stuck. The deadlock check of `scanner_pass` and `cachebench_pass` covers this: every reachable state that is not the end has a step. So StartWork's WaitFor and RunQueryThreads' joins never wait on a thread that cannot finish.

HighWaterMark would need fairness to show that `TryIncrementBy` ends. C++ bounds neither spurious CAS failures nor lost races, so that property is not stated.

## 7. Not modelled, and why

- **Debug formatting.** Escaping, float printing and the DECIMAL suffixes are string layout, and no property is about them. Only the timestamp split is modelled, because its arithmetic is the hazard.
- **The registry.** The type registry and its exactly-once initialisation are in `types.cc`, which is not under `src/`.
- **TableScanner pieces.**
  - `AddRow`'s per-type conversion and the per-tablet statistics output are data conversion and I/O. Their failures appear only as failure sites.
  - The throttler wait, `Throttler` (not under `src/`), is treated as a delay.
  - The type of `total_count_` is declared in the header, which is not in this tree. It is modelled as an atomic counter.
- **CreateDstTableIfNeeded.** `SchemaBuilder::AddColumn` failures are not modelled: names are unique, so they cannot fail here. The replication factor, the hash seeds, the range partition columns and the unpartitioned case do not affect any property and are not modelled.
- **NaN in Compare.** `KuduTypes` models NaN (`CppLess` is false on it), but `queries_pass` checks `CompareIsTotalOrder` over operands without NaN. Spec section 9 leaves NaN ordering unspecified.
- **Predicate parsing.** `LOG(DFATAL)` in ParseValue's default branch aborts a debug build on a predicate over a VARCHAR, BINARY, DATE, DECIMAL or UNIXTIME_MICROS column. The model follows the release build, which returns NotSupported; the hazard is listed in `PROJECT.json`.
- **The throttler.** `Throttler::Take` is in `util/throttler.h`, which is not under `src/`, so a batch larger than the bucket cannot be modelled.
- **Cache benchmark.** The LRU and SLRU caches are not under `src/`, so a Lookup hits or misses nondeterministically. Several parts are left out: the key patterns, which rely on `Random::Skewed`/`Uniform` and `Bits::Log2Floor` (not in this tree); `max_key`; the test parameterisation; and the log formatting. None of them changes the driver's control. One numeric edge is listed as a hazard without a property:
  - `--run_seconds=0` divides `lookups` by zero.
- **Other files.** `zlib.h` holds declarations only. The four test files (`rle-test.cc`, `cfile_set-test.cc`, `negotiation-test.cc`, `spnego_webui-itest.cc`) test the RLE codec, CFileSet, SASL negotiation and the SPNEGO web UI. That code is not in this tree, and the spec puts it out of scope. The tests hold 3,387 of the 5,779 source lines, so the map cannot cover more than about 40% of the tree; it covers most of the code that is not test code.

## 8. Plan for the next sittings

1. **Registry initialisation.** Model exactly-once initialisation under concurrent first use, from spec section 5.
2. **StartWork flags.** Add the `--fault_tolerant`/read-mode conflict and the auto-incrementing column projection to `Setup`.
3. **Liveness.** A termination property for StartWork or RunBench needs a model whose loops do not end by their bound, such as the WaitFor(5s) retry loop with tasks that may stall. It also needs the fairness the pool gives the tasks.

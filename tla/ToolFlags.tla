------------------------------ MODULE ToolFlags ------------------------------
(***************************************************************************)
(* The flags of the scan and copy tools that are checked when they are    *)
(* set and parsed again where they are used (src/kudu/tools/              *)
(* table_scanner.cc): --write_type and --replica_selection.  A string is  *)
(* its word and how it is capitalised; the code's literals are lower      *)
(* case.  iequals compares words only, == compares both.                 *)
(***************************************************************************)
EXTENDS Naturals

Str(word, caps) == [w |-> word, c |-> caps]   \* caps: "lower", "upper", "mixed"
Lit(word) == Str(word, "lower")

IEquals(a, b) == a.w = b.w

kWriteTypes ==
  {Lit(""), Lit("insert"), Lit("insert_ignore"), Lit("upsert"), Lit("upsert_ignore")}
kReplicaSelections == {Lit("closest"), Lit("first"), Lit("leader")}

\* The flags' defaults: --write_type is "insert", --replica_selection is
\* "CLOSEST", upper case unlike the parser's literals.
DefaultWriteType == Lit("insert")
DefaultReplicaSelection == Str("closest", "upper")

\* The flag validators, run by gflags when the flag is set.
IsFlagValueAcceptable(value, acceptable) == \E a \in acceptable : IEquals(a, value)
ValidateWriteType(value) == IsFlagValueAcceptable(value, kWriteTypes)
ValidateReplicaSelection(value) == IsFlagValueAcceptable(value, kReplicaSelections)

\* Mutant: the FIRST branch missing (the help text names CLOSEST and LEADER).
ParseReplicaSelectionNoFirst(str) ==
  CASE IEquals(Lit("closest"), str) -> [ok |-> TRUE, sel |-> "CLOSEST_REPLICA"]
    [] IEquals(Lit("leader"), str) -> [ok |-> TRUE, sel |-> "LEADER_ONLY"]
    [] OTHER -> [ok |-> FALSE, sel |-> "CLOSEST_REPLICA"]

\* ParseReplicaSelection, as SetReplicaSelection calls it: the selection
\* starts as CLOSEST_REPLICA and is kept only on success.
ParseReplicaSelection(str) ==
  CASE IEquals(Lit("closest"), str) -> [ok |-> TRUE, sel |-> "CLOSEST_REPLICA"]
    [] IEquals(Lit("leader"), str) -> [ok |-> TRUE, sel |-> "LEADER_ONLY"]
    [] IEquals(Lit("first"), str) -> [ok |-> TRUE, sel |-> "FIRST_REPLICA"]
    [] OTHER -> [ok |-> FALSE, sel |-> "CLOSEST_REPLICA"]

\* The TableScanner constructor: CHECK_OK(SetReplicaSelection(flag)) aborts
\* the process on an error.
Construct(replicaSelection) ==
  LET r == ParseReplicaSelection(replicaSelection)
  IN [aborted |-> ~r.ok, selection |-> r.sel]

\* Mutant: INSERT_IGNORE and UPSERT swapped in the mapping.
WriteOpTypeSwapped(opTypeStr) ==
  CASE opTypeStr = Lit("insert") -> "INSERT"
    [] opTypeStr = Lit("insert_ignore") -> "UPSERT"
    [] opTypeStr = Lit("upsert") -> "INSERT_IGNORE"
    [] opTypeStr = Lit("upsert_ignore") -> "UPSERT_IGNORE"
    [] OTHER -> "InvalidArgument"

\* CopyTask's mapping of --write_type to the operation type, compared with
\* ==; any other string fails the task with InvalidArgument.
WriteOpType(opTypeStr) ==
  CASE opTypeStr = Lit("insert") -> "INSERT"
    [] opTypeStr = Lit("insert_ignore") -> "INSERT_IGNORE"
    [] opTypeStr = Lit("upsert") -> "UPSERT"
    [] opTypeStr = Lit("upsert_ignore") -> "UPSERT_IGNORE"
    [] OTHER -> "InvalidArgument"

\* What a copy does with the write type: StartWork returns after creating
\* the table when it is empty; otherwise each CopyTask maps it.
CopyWith(writeType) ==
  IF writeType = Lit("") THEN "create_only" ELSE WriteOpType(writeType)

=============================================================================

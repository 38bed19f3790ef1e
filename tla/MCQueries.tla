------------------------------ MODULE MCQueries ------------------------------
(***************************************************************************)
(* Checks the pure operators of the project against reference definitions *)
(* written from the spec and the help texts.  A behaviour asks one query: *)
(*  - the type layer: a DataType and two operands of a bounded domain      *)
(*    (KuduTypes' Compare, AreConsecutive and the timestamp split);        *)
(*  - the tool's inputs: a --predicates value, a --replica_selection and a *)
(*    --write_type spelling, from their validators to their use            *)
(*    (PredicateParser and ToolFlags).                                     *)
(***************************************************************************)
EXTENDS KuduTypes, PredicateParser, ToolFlags, SequencesExt, TLC

CONSTANTS
  Bytes,             \* byte values a Slice is made of (NUL included)
  MaxLen,            \* longest Slice enumerated
  TimestampSamples,  \* UNIXTIME_MICROS values around second boundaries
  FloatHasNaN        \* whether NaN is among the float operands

VARIABLES
  ty, a, b,      \* a type-layer query: a DataType and two operands
  flag, sel, wt, \* a tool-input query: --predicates, --replica_selection, --write_type
  asked          \* "none", "types" or "inputs": which query was asked
vars == <<ty, a, b, flag, sel, wt, asked>>

\* Scaled widths: int is 4 bits, as INT32; narrower types are promoted.
MCBits == [t \in {"BOOL"} |-> 1] @@
          [t \in {"INT8", "UINT8"} |-> 2] @@ [t \in {"INT16", "UINT16"} |-> 3] @@
          [t \in {"INT32", "UINT32"} |-> 4] @@ [t \in {"INT64", "UINT64"} |-> 5] @@
          [t \in {"INT128"} |-> 6]

\* Timestamps around the second boundaries before and after the epoch.
MCTimestampSamples ==
  {k * 1000000 + d : k \in -2..1, d \in {-1, 0, 1}} \cup {-999999, 999999}

Slices == BoundedSeq(Bytes, MaxLen)

Dom(t) ==
  LET p == PhysicalType(t)
  IN CASE t = "UNIXTIME_MICROS" -> TimestampSamples
       [] p = "BINARY"          -> Slices
       [] p \in FloatTypes      -> (-FloatMax..FloatMax)
                                   \cup (IF FloatHasNaN THEN {NaN} ELSE {})
       [] OTHER                 -> IntMin(p)..IntMax(p)

MCColumns ==
  ("i" :> "INT32") @@ ("l" :> "INT64") @@ ("f" :> "FLOAT") @@ ("d" :> "DOUBLE")
    @@ ("s" :> "STRING") @@ ("b" :> "BOOL") @@ ("v" :> "VARCHAR")

Values == {JNum("int"), JNum("int64"), JNum("flt"), JNum("dbl"), JNum("bool"),
           JStr("x"), JArr(<< >>), JArr(<< JNum("int") >>),
           JArr(<< JNum("int"), JStr("x") >>)}
Ops == {JStr(o) : o \in {"=", ">=", "IN", "in", "NULL", "null", "NOTNULL", "LIKE", ""}}
         \cup {JNum("int")}
Names == {JStr(c) : c \in DOMAIN MCColumns \cup {"zz", ""}} \cup {JNum("int")}

Elements ==
  {JArr(<< o, c >>) : o \in Ops, c \in Names}
    \cup {JArr(<< o, c, v >>) : o \in Ops, c \in Names, v \in Values}
    \cup {JArr(<< JStr("=") >>), JStr("x"),
          JArr(<< JStr("="), JStr("i"), JNum("int"), JNum("int") >>)}

\* One element of each way to be accepted, skipped or rejected.
Representative ==
  {JArr(<< JStr(">="), JStr("i"), JNum("int") >>),
   JArr(<< JStr("null"), JStr("v") >>),
   JArr(<< JStr("IN"), JStr("d"), JArr(<< JNum("int"), JNum("flt") >>) >>),
   JArr(<< JStr("IN"), JStr("v"), JArr(<< >>) >>),
   JArr(<< JStr(""), JStr("i") >>),
   JArr(<< JStr("="), JStr(""), JNum("int") >>),
   JArr(<< JStr("="), JStr("f"), JNum("dbl") >>),
   JArr(<< JStr("="), JStr("zz"), JNum("int") >>),
   JArr(<< JStr("="), JStr("v"), JStr("x") >>),
   JArr(<< JStr("NULL"), JStr("i"), JNum("int") >>),
   JArr(<< JStr("=") >>),
   JStr("x")}

Heads == {JStr("AND"), JStr("and"), JStr("OR"), JNum("int"), JArr(<< >>)}

Flags ==
  {J("empty", "", << >>), J("malformed", "", << >>), JStr("AND"), JArr(<< >>)}
    \cup {JArr(<< h >>) : h \in Heads}
    \cup {JArr(<< h, JArr(<< JStr("NOTNULL"), JStr("s") >>) >>) : h \in Heads}
    \cup {JArr(<< JStr("AND"), e >>) : e \in Elements}
    \cup {JArr(<< JStr("and"), e1, e2 >>) : e1, e2 \in Representative}

\* --replica_selection and --write_type spellings: each word in lower and
\* upper case, words the validators do not know, and the empty string.
SelectionValues ==
  {Str(w, c) : w \in {"closest", "first", "leader", "leader_only"},
               c \in {"lower", "upper"}} \cup {Lit("")}
WriteTypeValues ==
  {Str(w, c) : w \in {"insert", "insert_ignore", "upsert", "upsert_ignore", "update"},
               c \in {"lower", "upper"}} \cup {Lit("")}

\* Before the query: the first operands of the minimal type, and the
\* flags' defaults.
Init ==
  /\ ty = "BOOL" /\ a = 0 /\ b = 0
  /\ flag = J("empty", "", << >>) /\ sel = DefaultReplicaSelection
  /\ wt = DefaultWriteType
  /\ asked = "none"

\* A caller asks the type layer about one pair of one type.
TypesQuery ==
  /\ asked = "none"
  /\ \E t \in DataTypes : \E x, y \in Dom(t) :
       /\ ty' = t
       /\ a' = x
       /\ b' = y
  /\ asked' = "types"
  /\ UNCHANGED <<flag, sel, wt>>

\* The tool is started with these flag values; gflags has run the
\* validators of --replica_selection and --write_type.
InputsQuery ==
  /\ asked = "none"
  /\ flag' \in Flags /\ sel' \in SelectionValues /\ wt' \in WriteTypeValues
  /\ asked' = "inputs"
  /\ UNCHANGED <<ty, a, b>>

\* The answer has been given; nothing more happens.
Answered == asked # "none" /\ UNCHANGED vars

Spec == Init /\ [][TypesQuery \/ InputsQuery \/ Answered]_vars

(***************************************************************************)
(* References.                                                             *)
(***************************************************************************)
RECURSIVE LexLess(_, _)
\* Unsigned lexicographic order of byte strings, a proper prefix first.
LexLess(x, y) ==
  IF y = << >> THEN FALSE
  ELSE IF x = << >> THEN TRUE
  ELSE IF Head(x) # Head(y) THEN Head(x) < Head(y)
  ELSE LexLess(Tail(x), Tail(y))

\* Every string that could lie between two slices of Slices.
Witnesses == BoundedSeq(Bytes, MaxLen + 1)

(***************************************************************************)
(* Properties.                                                             *)
(***************************************************************************)

(* TypeInfo::Compare is a total order on every type (spec section 8):      *)
(* 0 exactly for equal values, antisymmetric, transitive.  Range-predicate *)
(* tightening and merges rely on it for every DataType.                    *)
CompareIsTotalOrder ==
  /\ (Compare(ty, a, b) = 0) <=> (a = b)
  /\ Compare(ty, a, b) = -Compare(ty, b, a)
  /\ \A c \in Dom(ty) :
       (Compare(ty, a, b) = -1 /\ Compare(ty, b, c) = -1) => Compare(ty, a, c) = -1

(* For every integer type, derived types included, AreIntegersConsecutive  *)
(* holds exactly when b = a + 1 in the integers: never across the wrap at  *)
(* the top of an unsigned 32/64-bit domain.                                *)
IntegerAdjacencyIsSuccessor ==
  PhysicalType(ty) \in IntegerPhysical =>
    (AreConsecutive(ty, a, b) <=> b = a + 1)

(* BINARY AreConsecutive holds exactly when b is the immediate successor   *)
(* of a: a < b and no byte string at all lies strictly between them, which *)
(* is what turning an exclusive bound into an inclusive one needs.         *)
BinaryAdjacencyIsImmediateSuccessor ==
  IsVarLen(ty) =>
    (AreConsecutive(ty, a, b) <=>
       /\ LexLess(a, b)
       /\ ~\E c \in Witnesses : LexLess(a, c) /\ LexLess(c, b))

(* The UNIXTIME_MICROS formatter splits a timestamp into floored seconds   *)
(* and a microsecond remainder in [0, 10^6), also before the epoch.        *)
TimestampSplitIsFloor ==
  ty = "UNIXTIME_MICROS" =>
    TimestampSplit(a) = <<a \div kMicrosInSecond, a % kMicrosInSecond>>

(***************************************************************************)
(* The flags' help texts: --replica_selection names CLOSEST and LEADER     *)
(* (and the validator also FIRST) as the KuduClient selections;           *)
(* --write_type lists the lower-case operation names and the empty       *)
(* string, which means creating the table only.                           *)
(***************************************************************************)
SelectionNamed ==
  [w \in {"closest", "leader", "first"} |->
     CASE w = "closest" -> "CLOSEST_REPLICA" [] w = "leader" -> "LEADER_ONLY"
       [] OTHER -> "FIRST_REPLICA"]
HelpWriteTypes ==
  [w \in {"insert", "insert_ignore", "upsert", "upsert_ignore"} |->
     CASE w = "insert" -> "INSERT" [] w = "insert_ignore" -> "INSERT_IGNORE"
       [] w = "upsert" -> "UPSERT" [] OTHER -> "UPSERT_IGNORE"]

(* A --replica_selection value the flag validator lets through never      *)
(* makes the TableScanner constructor's CHECK_OK(SetReplicaSelection())   *)
(* abort the process, and selects the replica selection it names, in any  *)
(* capitalisation.                                                        *)
ReplicaSelectionHonoured ==
  (asked = "inputs" /\ ValidateReplicaSelection(sel)) =>
    LET t == Construct(sel)
    IN ~t.aborted /\ t.selection = SelectionNamed[sel.w]

(* Every --write_type value the help text lists passes the validator and  *)
(* makes a copy do what it names: CopyTask writes with that operation     *)
(* type, and the empty string makes StartWork create the table only.      *)
DocumentedWriteTypesHonoured ==
  (asked = "inputs" /\ wt.c = "lower" /\ wt.w \in DOMAIN HelpWriteTypes \cup {""}) =>
    /\ ValidateWriteType(wt)
    /\ CopyWith(wt) = IF wt.w = "" THEN "create_only" ELSE HelpWriteTypes[wt.w]

(***************************************************************************)
(* The reference: the help text's syntax, read declaratively.             *)
(***************************************************************************)
CmpOps == {"<", "<=", "=", ">", ">="}

\* The JSON kinds a value for a column of this type may have.
Admits(type) ==
  CASE type \in {"INT8", "INT16", "INT32"} -> {"int"}
    [] type = "INT64" -> {"int", "int64"}
    [] type = "FLOAT" -> {"flt"}
    [] type = "DOUBLE" -> {"flt", "dbl"}
    [] type = "STRING" -> {"str"}
    [] type = "BOOL" -> {"bool"}
    [] OTHER -> {}

Shaped(e) == e.t = "arr" /\ Len(e.a) \in {2, 3} /\ e.a[1].t = "str" /\ e.a[2].t = "str"

\* An element naming no operator or no column is ignored by the code.
Ignored(e) == Shaped(e) /\ (e.a[1].s = "" \/ e.a[2].s = "")

Documented(e) ==
  /\ Shaped(e) /\ e.a[2].s \in DOMAIN Columns
  /\ LET op == Upper(e.a[1].s)
         colType == Columns[e.a[2].s]
     IN \/ op \in CmpOps /\ Len(e.a) = 3 /\ e.a[3].t \in Admits(colType)
        \/ op \in {"NULL", "NOTNULL"} /\ Len(e.a) = 2
        \/ /\ op = "IN" /\ Len(e.a) = 3 /\ e.a[3].t = "arr"
           /\ \A k \in DOMAIN e.a[3].a : e.a[3].a[k].t \in Admits(colType)

Meaning(e) ==
  LET op == Upper(e.a[1].s)
      col == e.a[2].s
  IN CASE op \in CmpOps -> Pred("comparison", col, e.a[1].s, << e.a[3] >>)
       [] op = "IN" -> Pred("in", col, "IN", e.a[3].a)
       [] op = "NULL" -> Pred("IsNull", col, "IsNull", << >>)
       [] OTHER -> Pred("IsNotNull", col, "IsNotNull", << >>)

Good(objs, k) ==
  IF k = 1 THEN objs[1].t = "str" /\ Upper(objs[1].s) = "AND"
  ELSE Documented(objs[k]) \/ Ignored(objs[k])

\* The meanings of the elements 2..n that are not ignored, in order.
Conjuncts(objs, n) ==
  LET used == SelectSeq([j \in 1..(n - 1) |-> j + 1], LAMBDA k : ~Ignored(objs[k]))
  IN [j \in DOMAIN used |-> Meaning(objs[used[j]])]

FirstBad(objs) == CHOOSE k \in DOMAIN objs : ~Good(objs, k) /\ \A m \in 1..(k - 1) : Good(objs, m)

(* AddPredicates accepts exactly the documented form ["AND", predicate,   *)
(* ...] (operator names in any case, values of the JSON kind the column's *)
(* type takes, elements with an empty operator or column ignored), and    *)
(* then hands the builder one conjunct per predicate, in order, with the   *)
(* comparison, list or nullability the element spells.                     *)
ParsesExactlyTheDocumentedForm ==
  asked = "inputs" /\ flag.t = "arr" =>
    LET r == AddPredicates(flag)
    IN /\ r.ok <=> \A k \in DOMAIN flag.a : Good(flag.a, k)
       /\ r.ok => r.conj = Conjuncts(flag.a, Len(flag.a))

(* A rejected --predicates value names its first bad element, and the     *)
(* builder has by then been handed the conjuncts of exactly the elements  *)
(* before it: each AddConjunctPredicate happens before the next element   *)
(* is checked, so StartWork must not use the builder after the error.     *)
FailureLeavesPrefixInBuilder ==
  asked = "inputs" /\ flag.t = "arr" =>
    LET r == AddPredicates(flag)
    IN ~r.ok => /\ r.at = FirstBad(flag.a)
                /\ r.conj = Conjuncts(flag.a, r.at - 1)

(* The --write_type validator and CopyTask agree: a value gflags accepts  *)
(* (IsFlagValueAcceptable compares case-insensitively, and its error says *)
(* what "should be" used) never makes every copy thread fail with         *)
(* InvalidArgument, which CopyTask's case-sensitive == comparison does.   *)
AcceptedWriteTypeIsUsable ==
  (asked = "inputs" /\ ValidateWriteType(wt)) => CopyWith(wt) # "InvalidArgument"

=============================================================================

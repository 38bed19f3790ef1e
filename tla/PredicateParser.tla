--------------------------- MODULE PredicateParser ---------------------------
(***************************************************************************)
(* The --predicates parser of the scan and copy tools: AddPredicates and   *)
(* its helpers (src/kudu/tools/table_scanner.cc).  A JSON value is a       *)
(* record of its rapidjson kind, a string (for strings) and a sequence    *)
(* (for arrays); numbers are abstracted to what IsInt, IsInt64, IsFloat    *)
(* and IsDouble tell apart.  A Status is abstracted to its code; the      *)
(* result also carries the conjuncts handed to the token builder and the  *)
(* position of the element whose check returned.                          *)
(***************************************************************************)
EXTENDS Integers, Sequences

CONSTANT
  Columns   \* the table's columns: name -> client DataType

\* JSON values.
J(kind, str, arr) == [t |-> kind, s |-> str, a |-> arr]
JStr(x) == J("str", x, << >>)
JNum(kind) == J(kind, "", << >>)   \* kind: "int", "int64", "flt", "dbl", "bool"
JArr(sq) == J("arr", "", sq)

\* rapidjson's type tests: an integer literal within int is also an int64,
\* a decimal literal exact in float is also a double.
IsString(v) == v.t = "str"
IsArray(v) == v.t = "arr"
IsBool(v) == v.t = "bool"
IsInt(v) == v.t = "int"
IsInt64(v) == v.t \in {"int", "int64"}
IsFloat(v) == v.t = "flt"
IsDouble(v) == v.t \in {"flt", "dbl"}

\* ToUpperCase on the strings the model uses.
Upper(x) ==
  CASE x = "and" -> "AND" [] x = "in" -> "IN" [] x = "null" -> "NULL"
    [] OTHER -> x

Ok(x) == [ok |-> TRUE, code |-> "OK", val |-> x]
Err(code) == [ok |-> FALSE, code |-> code, val |-> << >>]

ParsePredicateType(pt) ==
  LET u == Upper(pt)
  IN CASE u = "=" -> "Equality"
       [] u \in {"<", "<=", ">", ">="} -> "Range"
       [] u = "NULL" -> "IsNull"
       [] u = "NOTNULL" -> "IsNotNull"
       [] u = "IN" -> "InList"
       [] OTHER -> "None"

\* Mutant: an INT64 column takes only values within int.
ParseValueInt64Narrow(v, type) ==
  CASE type \in {"INT8", "INT16", "INT32", "INT64"} -> IF IsInt(v) THEN Ok(v) ELSE Err("InvalidArgument")
    [] type = "STRING" -> IF IsString(v) THEN Ok(v) ELSE Err("InvalidArgument")
    [] type = "BOOL" -> IF IsBool(v) THEN Ok(v) ELSE Err("InvalidArgument")
    [] type = "FLOAT" -> IF IsFloat(v) THEN Ok(v) ELSE Err("InvalidArgument")
    [] type = "DOUBLE" -> IF IsDouble(v) THEN Ok(v) ELSE Err("InvalidArgument")
    [] OTHER -> Err("NotSupported")

\* ParseValue: the JSON kind the column type requires, else
\* InvalidArgument; other column types are NotSupported (and LOG(DFATAL)).
ParseValue(v, type) ==
  CASE type \in {"INT8", "INT16", "INT32"} -> IF IsInt(v) THEN Ok(v) ELSE Err("InvalidArgument")
    [] type = "INT64" -> IF IsInt64(v) THEN Ok(v) ELSE Err("InvalidArgument")
    [] type = "STRING" -> IF IsString(v) THEN Ok(v) ELSE Err("InvalidArgument")
    [] type = "BOOL" -> IF IsBool(v) THEN Ok(v) ELSE Err("InvalidArgument")
    [] type = "FLOAT" -> IF IsFloat(v) THEN Ok(v) ELSE Err("InvalidArgument")
    [] type = "DOUBLE" -> IF IsDouble(v) THEN Ok(v) ELSE Err("InvalidArgument")
    [] OTHER -> Err("NotSupported")

Pred(kind, col, op, vals) == [kind |-> kind, col |-> col, op |-> op, vals |-> vals]

NewComparisonPredicate(col, type, opstr, v) ==
  LET pv == ParseValue(v, type)
  IN IF ~pv.ok THEN pv
     ELSE IF opstr \notin {"<", "<=", "=", ">", ">="} THEN Err("NotSupported")
     ELSE Ok(Pred("comparison", col, opstr, << v >>))

NewIsNullPredicate(col, pt) ==
  IF pt \in {"IsNull", "IsNotNull"} THEN Ok(Pred(pt, col, pt, << >>))
  ELSE Err("NotSupported")

\* The values are parsed in order; the first failure is returned.
NewInListPredicate(col, type, obj) ==
  IF ~IsArray(obj) THEN Err("InvalidArgument")
  ELSE LET bad == {k \in DOMAIN obj.a : ~ParseValue(obj.a[k], type).ok}
       IN IF bad = {} THEN Ok(Pred("in", col, "IN", obj.a))
          ELSE ParseValue(obj.a[CHOOSE k \in bad : \A m \in bad : k <= m], type)

\* AddPredicate: Ok(<< >>) when skipped, Ok(<< predicate >>) when added.
AddPredicate(pt, col, value) ==
  IF pt = "" \/ col = "" THEN Ok(<< >>)
  ELSE IF col \notin DOMAIN Columns THEN Err("NotFound")
  ELSE LET type == Columns[col]
           kind == ParsePredicateType(pt)
           hasValue == value # << >>
           r == CASE kind \in {"Equality", "Range"} ->
                       IF ~hasValue THEN Err("InvalidArgument")
                       ELSE NewComparisonPredicate(col, type, pt, value[1])
                  [] kind \in {"IsNull", "IsNotNull"} ->
                       IF hasValue THEN Err("InvalidArgument")
                       ELSE NewIsNullPredicate(col, kind)
                  [] kind = "InList" ->
                       IF ~hasValue THEN Err("InvalidArgument")
                       ELSE NewInListPredicate(col, type, value[1])
                  [] OTHER -> Err("InvalidArgument")
       IN IF r.ok THEN Ok(<< r.val >>) ELSE r

\* Mutant: an element that is not an array is passed over.
AddElementSkipNonArray(obj) ==
  IF ~IsArray(obj) THEN Ok(<< >>)
  ELSE IF Len(obj.a) # 2 /\ Len(obj.a) # 3 THEN Err("InvalidArgument")
  ELSE IF ~IsString(obj.a[1]) \/ ~IsString(obj.a[2]) THEN Err("InvalidArgument")
  ELSE AddPredicate(obj.a[1].s, obj.a[2].s,
                    IF Len(obj.a) = 2 THEN << >> ELSE << obj.a[3] >>)

\* One element of the top-level array after the operator.
AddElement(obj) ==
  IF ~IsArray(obj) THEN Err("InvalidArgument")
  ELSE IF Len(obj.a) # 2 /\ Len(obj.a) # 3 THEN Err("InvalidArgument")
  ELSE IF ~IsString(obj.a[1]) \/ ~IsString(obj.a[2]) THEN Err("InvalidArgument")
  ELSE AddPredicate(obj.a[1].s, obj.a[2].s,
                    IF Len(obj.a) = 2 THEN << >> ELSE << obj.a[3] >>)

Result(ok, code, at, conj) == [ok |-> ok, code |-> code, at |-> at, conj |-> conj]

\* The loop over the top-level array: element 1 must be the string AND in
\* any case; each later element's predicate is handed to the builder
\* (AddConjunctPredicate) before the next one is looked at.
RECURSIVE Loop(_, _, _)
Loop(objs, i, conj) ==
  IF i > Len(objs) THEN Result(TRUE, "OK", 0, conj)
  ELSE IF i = 1
  THEN IF ~IsString(objs[1]) \/ Upper(objs[1].s) # "AND"
       THEN Result(FALSE, "InvalidArgument", 1, conj)
       ELSE Loop(objs, 2, conj)
  ELSE LET r == AddElement(objs[i])
       IN IF r.ok THEN Loop(objs, i + 1, conj \o r.val)
          ELSE Result(FALSE, r.code, i, conj)

\* AddPredicates: an empty flag adds nothing; text that is not JSON, or a
\* root that is not an array, is an error.  'predicates' is the parsed flag, or
\* J("empty", ..) or J("malformed", ..).
AddPredicates(predicates) ==
  CASE predicates.t = "empty" -> Result(TRUE, "OK", 0, << >>)
    [] predicates.t = "malformed" -> Result(FALSE, "Corruption", 0, << >>)
    [] OTHER -> IF ~IsArray(predicates) THEN Result(FALSE, "InvalidArgument", 0, << >>)
                ELSE Loop(predicates.a, 1, << >>)

=============================================================================

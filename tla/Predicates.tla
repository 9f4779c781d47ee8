----------------------------- MODULE Predicates -----------------------------
(***************************************************************************)
(* One condition of a query on its way to SQL: predicate() of core.ts      *)
(* reads the operator of the method and the kind of its argument,          *)
(* BuiltRequest.pred() makes the request's predicate, Validator.pred() of  *)
(* validate.ts accepts or refuses it and renderPred() of planner.ts        *)
(* renders it.  A column has a type, the digits that its type compares by, *)
(* the stages of its codec, and may have a blind index.  What a side of a  *)
(* comparison holds is the list of stages that its value went through.     *)
(***************************************************************************)
EXTENDS Sequences, FiniteSets, SequencesExt

CONSTANTS
  Columns,    \* the columns: [type, digits, stages, nullable, blind]
  Dialects    \* the dialects, of "mysql", "postgres" and "sqlite"

\* The operators of the condition methods, and the arguments they may meet: null,
\* undefined, a value, a value that no ip stage encodes, an array of two values, an
\* empty array, a model with one added column, a model that is no subquery, the
\* functions of a column and of a value.
Ops == {"eq", "not_eq", "gt", "gte", "lt", "lte", "contains", "contains_binary", "between", "tuple_in", "fulltext"}
Args == {"null", "undefined", "value", "badip", "pair", "empty", "model", "badmodel", "column_fn", "value_fn"}

VARIABLES
  call,      \* [op, col, compare, arg, other, single]: the method and its argument
  dialect,
  stage,     \* how far the condition is: "called", "built", "checked", "rendered" or "refused"
  pred,      \* [kind, op]: the predicate
  sql,       \* the rendered comparison: what its left and right sides hold
  code       \* why it was refused

vars == <<call, dialect, stage, pred, sql, code>>

NoPred == [kind |-> "none", op |-> "none"]
NoSql == [left |-> <<>>, right |-> <<>>]

MethodCalls ==
  {c \in [op : Ops, col : Columns, compare : BOOLEAN, arg : Args, other : Columns, single : BOOLEAN] :
     /\ c.compare => c.op \in {"eq", "not_eq", "gt", "gte", "lt", "lte"} /\ c.arg \in {"model", "value"}
     /\ c.compare \/ c.arg = "model" \/ c.other = c.col
     /\ c.single \/ c.arg = "column_fn"}

Init ==
  /\ call \in MethodCalls /\ dialect \in Dialects
  /\ stage = "called" /\ pred = NoPred /\ sql = NoSql /\ code = "none"

Column == call.col
Has(col, st) == Contains(col.stages, st)
HostStages == {"aes", "hex", "ip"}

Refuse(c) ==
  /\ stage' = "refused" /\ code' = c
  /\ UNCHANGED <<call, dialect, pred, sql>>

\* The next stage, or the refusal that the first refusing check gives.
Pass(next, refusal) ==
  IF refusal # "none" THEN Refuse(refusal)
  ELSE stage' = next /\ UNCHANGED <<call, dialect, code>>

-----------------------------------------------------------------------------
(* core.ts *)

Nullable == call.op \in {"eq", "not_eq"}
\* validateHostInput(): a value of a column with an ip stage is an address.
BadHost == call.arg = "badip" /\ Has(Column, "ip")

\* The predicate that predicate() makes, or the error it throws.
Spec0(kind, op) == [kind |-> kind, op |-> op]
In == IF call.op = "not_eq" THEN "not_in" ELSE "in"
ColumnOp == [eq |-> "eq_col", not_eq |-> "not_eq_col", gt |-> "gt_col", gte |-> "gte_col", lt |-> "lt_col", lte |-> "lte_col"]

Predicate ==
  LET arg == call.arg IN
  CASE call.op = "tuple_in" -> Spec0("tuple", "tuple_in")
    [] call.op = "between" -> Spec0("between", "between")
    [] call.op = "fulltext" -> Spec0("fulltext", "fulltext")
    [] call.compare -> Spec0("ref", ColumnOp[call.op])
    [] arg = "null" /\ call.op \in {"contains", "contains_binary"} -> Spec0("value", call.op)
    [] arg = "null" -> Spec0("null", IF call.op = "not_eq" THEN "is_not_null" ELSE "is_null")
    [] arg \in {"column_fn", "value_fn"} -> Spec0(arg, call.op)
    [] arg \in {"model", "badmodel"} -> Spec0("sub", In)
    [] arg \in {"pair", "empty"} -> Spec0("list", In)
    [] OTHER -> Spec0("value", call.op)

PredicateError ==
  LET arg == call.arg IN
  CASE call.op \in {"tuple_in", "between"} -> IF arg # "pair" THEN "CONFIG" ELSE "none"
    [] call.op = "fulltext" -> IF arg \notin {"value", "badip"} THEN "CONFIG" ELSE "none"
    [] call.compare -> IF arg # "model" THEN "CONFIG" ELSE "none"
    [] arg = "null" /\ call.op \in {"contains", "contains_binary"} -> "none"
    [] arg = "null" -> IF Nullable /\ Column.nullable THEN "none" ELSE "CONFIG"
    [] arg = "undefined" -> "CONFIG"
    [] arg = "column_fn" -> IF call.single THEN "none" ELSE "CONFIG"
    [] arg = "value_fn" -> "none"
    [] arg \in {"model", "badmodel", "pair"} -> IF Nullable THEN "none" ELSE "CONFIG"
    [] arg = "empty" -> IF Nullable THEN "EMPTY_IN" ELSE "CONFIG"
    [] OTHER -> IF BadHost THEN "CODEC_ENCODE" ELSE "none"

\* The method of the condition, and pred() with the checks of subquery().
Build ==
  /\ stage = "called"
  /\ LET refusal == IF PredicateError # "none" THEN PredicateError
                    ELSE IF Predicate.kind = "sub" /\ call.arg = "badmodel" THEN "CONFIG" ELSE "none" IN
     /\ Pass("built", refusal)
     /\ refusal = "none" => pred' = Predicate /\ UNCHANGED sql

-----------------------------------------------------------------------------
(* validate.ts *)

Equality == {"eq", "not_eq", "in", "not_in", "is_null", "is_not_null"}
Comparisons == {"eq", "not_eq", "gt", "gte", "lt", "lte"}
ColumnOps == {"eq_col", "not_eq_col", "gt_col", "gte_col", "lt_col", "lte_col"}
Times == {"date", "datetime"}

\* opsByType
OpsOf(type) ==
  CASE type \in {"i16", "i32", "i64", "f64", "decimal", "date", "time", "datetime"} -> Equality \cup Comparisons \cup {"between"}
    [] type \in {"uuid", "bytes"} -> Equality
    [] type = "varchar" -> Equality \cup Comparisons \cup {"contains", "contains_binary"}
    [] type = "text" -> (Equality \ {"in", "not_in"}) \cup Comparisons \cup {"contains", "contains_binary"}
    [] type = "bool" -> Equality \ {"in", "not_in"}
    [] OTHER -> {}

\* A faulty opAllowed() that reads the type of an encoded column.
OpAllowedType(c, op) == op \in ColumnOps \/ op \in OpsOf(c.type)

\* opAllowed(): a column of host stages compares by equality, any other codec by NULL.
OpAllowed(c, op) ==
  \/ op \in ColumnOps
  \/ op \in (IF c.stages = <<>> THEN OpsOf(c.type)
             ELSE IF Range(c.stages) \subseteq HostStages THEN Equality
             ELSE {"is_null", "is_not_null"})

\* meets() by meetKind().
MeetKind(c) ==
  CASE c.type \in {"i16", "i32", "i64"} -> <<"integer">>
    [] c.type \in {"varchar", "text"} -> <<"string">>
    [] c.type \in {"decimal", "time", "datetime"} -> <<c.type, c.digits>>
    [] OTHER -> <<c.type>>
Meets(a, b) == MeetKind(a) = MeetKind(b)

\* A faulty colPairOpAllowed() that reads the type of the columns only.
ColPairOpAllowedTypes(l, r, op) == \E base \in OpsOf(l.type) \cap Comparisons : ColumnOp[base] = op

\* colPairOpAllowed()
ColPairOpAllowed(l, r, op) ==
  IF l.stages = <<>> /\ r.stages = <<>>
  THEN \E base \in OpsOf(l.type) \cap Comparisons : ColumnOp[base] = op
  ELSE l.stages = <<"ip">> /\ r.stages = <<"ip">> /\ op \in {"eq_col", "not_eq_col"}

\* Validator.pred(), with columnFunction() and the column of sub().
CheckError ==
  LET c == Column IN
  CASE pred.kind = "tuple" -> IF c.stages # <<>> THEN "OPERATOR_NOT_ALLOWED" ELSE "none"
    [] pred.kind = "fulltext" ->
         IF c.type \in {"varchar", "text"} /\ c.stages = <<>> THEN "none" ELSE "OPERATOR_NOT_ALLOWED"
    [] pred.kind = "sub" -> IF Meets(c, call.other) THEN "none" ELSE "OPERATOR_NOT_ALLOWED"
    [] pred.kind = "column_fn" ->
         IF c.type \in Times /\ pred.op \in Comparisons THEN "none" ELSE "OPERATOR_NOT_ALLOWED"
    [] pred.kind = "value_fn" ->
         IF c.type \in Times /\ pred.op \in Comparisons THEN "none" ELSE "OPERATOR_NOT_ALLOWED"
    [] ~OpAllowed(c, pred.op) -> "OPERATOR_NOT_ALLOWED"
    [] pred.kind = "ref" ->
         IF Meets(c, call.other) /\ ColPairOpAllowed(c, call.other, pred.op) THEN "none" ELSE "OPERATOR_NOT_ALLOWED"
    [] OTHER -> "none"

Check ==
  /\ stage = "built"
  /\ Pass("checked", CheckError)
  /\ CheckError = "none" => UNCHANGED <<pred, sql>>

-----------------------------------------------------------------------------
(* planner.ts *)

\* The stages that renderValue() leaves to the executor: all up to those that the
\* dialect runs at the end, and of them the host stages.
HandlesStage(st) == dialect = "mysql" /\ st = "ip"
HostPart(c) ==
  LET n == Len(c.stages)
      host == IF n > 0 /\ HandlesStage(c.stages[n]) THEN Front(c.stages) ELSE c.stages IN
  SelectSeq(host, LAMBDA st : st \in HostStages)
SqlPart(c) == IF c.stages # <<>> /\ HandlesStage(Last(c.stages)) THEN <<Last(c.stages)>> ELSE <<>>
RenderValue(c) == HostPart(c) \o SqlPart(c)

Sides(l, r) == [left |-> l, right |-> r]

\* renderPred(): what the two sides of the comparison hold.
Rendered ==
  LET c == Column IN
  IF pred.kind \in {"sub", "ref"} THEN Sides(c.stages, call.other.stages)
  ELSE IF pred.kind \in {"null", "column_fn", "value_fn", "fulltext"} THEN NoSql
  ELSE IF pred.op \in {"contains", "contains_binary"} THEN Sides(c.stages, <<>>)
  ELSE IF Has(c, "aes") THEN Sides(<<"blind_index">>, <<"blind_index">>)
  ELSE Sides(c.stages, RenderValue(c))

RenderError ==
  CASE pred.kind = "fulltext" -> IF dialect = "sqlite" THEN "OPERATOR_NOT_ALLOWED" ELSE "none"
    [] pred.kind \in {"value", "list", "between"} /\ Has(Column, "aes") ->
         IF pred.op \notin {"eq", "not_eq", "in", "not_in"} THEN "OPERATOR_NOT_ALLOWED"
         ELSE IF ~Column.blind THEN "IR_INVALID" ELSE "none"
    [] OTHER -> "none"

Render ==
  /\ stage = "checked"
  /\ Pass("rendered", RenderError)
  /\ RenderError = "none" => sql' = Rendered /\ UNCHANGED pred

Next == Build \/ Check \/ Render

Spec == Init /\ [][Next]_vars

-----------------------------------------------------------------------------
(* Properties.                                                             *)

\* Types.
TypeOK ==
  /\ stage \in {"called", "built", "checked", "rendered", "refused"}
  /\ code = "none" <=> stage # "refused"

\* What is compared is a deterministic function of the value: no side holds an
\* encrypted form, and both sides went through the same stages.
Deterministic == ~Contains(sql.left, "aes") /\ sql.left = sql.right

\* A rendered condition with values, or with another column, compares stored forms
\* that are equal when the values are: three tables (opAllowed, colPairOpAllowed and
\* the stages that each dialect runs in SQL) must agree for that.
ComparesStoredForm == stage = "rendered" /\ pred.kind # "sub" => Deterministic

\* The planner refuses a condition that the validator accepted only where the
\* specification says so: an AES column without a blind index, and a full-text
\* search on SQLite.
AcceptedRenders ==
  stage = "checked" /\ RenderError # "none" =>
    \/ Has(Column, "aes") /\ ~Column.blind
    \/ pred.kind = "fulltext" /\ dialect = "sqlite"

\* docs/spec/codec.md:111: "a column with an `aes` stage compares its blind index ...
\* never its random-nonce ciphertext".
NeverCiphertext == stage = "rendered" /\ Has(Column, "aes") => ~Contains(sql.left, "aes")
=============================================================================

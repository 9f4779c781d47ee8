------------------------------ MODULE MCQuery ------------------------------
(***************************************************************************)
(* The parts of a read checked in one run: building and rendering the      *)
(* conditions, one predicate, the plan cache, a split IN list, and the     *)
(* relation steps.  They share no state: a behaviour chooses one part,     *)
(* whose variables are the first of v1 to v9; the others stay Unused.      *)
(***************************************************************************)
EXTENDS Integers, Sequences, FiniteSets

CONSTANTS
  Atoms, MaxCalls,            \* Conditions
  Dialects,                   \* Predicates
  Calls, CacheSize, Dialect,  \* PlanCache
  Limit, Values, MaxList,     \* SplitReads and Relations
  MaxWrites                   \* Relations

Unused == "unused"

VARIABLES part, v1, v2, v3, v4, v5, v6, v7, v8, v9

after5 == <<v6, v7, v8, v9>>
after6 == <<v7, v8, v9>>
all == <<part, v1, v2, v3, v4, v5, v6, v7, v8, v9>>

-----------------------------------------------------------------------------
(* The instances.                                                          *)

Pred(conn, atom) == [conn |-> conn, kind |-> "pred", atom |-> atom, not |-> FALSE, items |-> <<>>]
Query(kind, join, on, where) == [kind |-> kind, join |-> join, on |-> on, where |-> where]
POrQ == <<Pred("", "p"), Pred("or", "q")>>
Queries == {
  Query("root", "none", <<>>, <<>>),
  Query("root", "inner", <<>>, POrQ),
  Query("root", "left", <<Pred("", "p")>>, POrQ),
  Query("relation", "none", <<>>, <<>>)}

Col(type, digits, stages, nullable, blind) ==
  [type |-> type, digits |-> digits, stages |-> stages, nullable |-> nullable, blind |-> blind]
Columns == {
  Col("i32", 0, <<>>, FALSE, FALSE), Col("i64", 0, <<>>, TRUE, FALSE), Col("bool", 0, <<>>, FALSE, FALSE),
  Col("varchar", 0, <<>>, FALSE, FALSE), Col("text", 0, <<>>, TRUE, FALSE),
  Col("datetime", 0, <<>>, TRUE, FALSE), Col("datetime", 6, <<>>, TRUE, FALSE), Col("bytes", 0, <<>>, TRUE, FALSE),
  Col("bytes", 0, <<"ip">>, TRUE, FALSE), Col("text", 0, <<"ip", "hex">>, FALSE, FALSE),
  Col("bytes", 0, <<"aes">>, TRUE, TRUE), Col("bytes", 0, <<"aes">>, FALSE, FALSE),
  Col("text", 0, <<"aes", "hex">>, FALSE, TRUE), Col("text", 0, <<"ordered_json">>, FALSE, FALSE)}

NoPage == [form |-> "none", offset |-> 0, count |-> 0]
Literal(o, c) == [form |-> "literal", offset |-> o, count |-> c]
Indexed(o, c) == [form |-> "indexed", offset |-> o, count |-> c]
Op(op, ps) == [op |-> op, ps |-> ps]
Request(set, preds, page, params) == [set |-> set, preds |-> preds, page |-> page, params |-> params]
Requests == {
  Request("s", <<Op("eq", <<1>>), Op("in", <<1, 2>>)>>, NoPage, <<1, 2>>),
  Request("s", <<Op("eq", <<3>>), Op("in", <<2, 1, 3>>)>>, NoPage, <<1, 2, 3>>),
  Request("s", <<Op("in", <<4, 3, 2, 1>>)>>, Literal(0, 2), <<1, 2, 3, 4>>),
  Request("s", <<Op("in", <<1, 2, 3>>)>>, Indexed(4, 3), <<1, 2, 3, 0>>),
  Request("s", <<Op("eq", <<2>>)>>, Literal(3, 0), <<1, 2>>),
  Request("t", <<Op("tuple", <<2, 1>>)>>, NoPage, <<1, 2, 3>>),
  Request("t", <<Op("tuple", <<1, 1>>)>>, NoPage, <<1, 2>>)}

Item(kind, conn, at, binds) == [kind |-> kind, conn |-> conn, at |-> at, binds |-> binds]
In(conn) == Item("in", conn, 0, 0)
Wheres == {
  <<In("")>>,
  <<Item("pred", "", 1, 1), In("and")>>,
  <<In(""), Item("group", "and", 1, 1)>>,
  <<In(""), Item("group", "or", 1, 1)>>,
  <<Item("group", "", 1, 1), Item("group", "or", 2, 0), In("and")>>}
Row(id, v, holds) == [id |-> id, v |-> v, holds |-> holds]
SplitTables == {{Row(1, 1, {1}), Row(2, 2, {1, 2}), Row(3, 3, {2}), Row(4, 3, {1})}}

NoIf == [column |-> "none", value |-> 0]
OnF == [column |-> "f", value |-> 1]
Step(entity, parent, left, right, ifp, per, binds, cols, external) ==
  [entity |-> entity, parent |-> parent, left |-> left, right |-> right, ifp |-> ifp, per |-> per,
   binds |-> binds, cols |-> cols, external |-> external]
Main(cols) == Step("u", 0, <<>>, <<>>, NoIf, 0, 1, cols, FALSE)
Plans == {
  <<Main({}), Step("c", 1, <<"id">>, <<"k">>, NoIf, 0, 1, {}, FALSE), Step("c", 2, <<"f">>, <<"id">>, NoIf, 0, 0, {}, FALSE)>>,
  <<Main({}), Step("c", 1, <<"k">>, <<"k">>, OnF, 1, 2, {}, FALSE)>>,
  <<Main({}), Step("c", 1, <<"k", "f">>, <<"k", "f">>, NoIf, 0, 0, {}, FALSE)>>,
  <<Main({"k", "f"}), Step("c", 1, <<"k">>, <<"k">>, OnF, 1, 0, {"k"}, TRUE)>>}
Entry(id, k, f) == [id |-> id, k |-> k, f |-> f]
TreeTables == {[u |-> {Entry(1, 1, 1), Entry(2, 1, 2), Entry(3, 2, 1), Entry(4, 0, 1)},
                c |-> {Entry(1, 1, 1), Entry(2, 1, 3), Entry(3, 2, 0)}]}

C == INSTANCE Conditions WITH query <- v1, stack <- v2, calls <- v3, failed <- v4, request <- v5
P == INSTANCE Predicates WITH call <- v1, dialect <- v2, stage <- v3, pred <- v4, sql <- v5, code <- v6
K == INSTANCE PlanCache WITH
       engines <- v1, closed <- v2, plans <- v3, pc <- v4, given <- v5, canon <- v6, plan <- v7, binds <- v8
S == INSTANCE SplitReads WITH
       table <- v1, request <- v2, stage <- v3, parts <- v4, main <- v5, total <- v6, moved <- v7, bound <- v8,
       code <- v9, Tables <- SplitTables
R == INSTANCE Relations WITH
       db <- v1, plan <- v2, at <- v3, chunks <- v4, data <- v5, bound <- v6, writes <- v7, stage <- v8, trees <- v9,
       Tables <- TreeTables

-----------------------------------------------------------------------------
(* The run.                                                                *)

Init ==
  \/ part = "conditions" /\ C!Init /\ v6 = Unused /\ v7 = Unused /\ v8 = Unused /\ v9 = Unused
  \/ part = "predicates" /\ P!Init /\ v7 = Unused /\ v8 = Unused /\ v9 = Unused
  \/ part = "cache" /\ K!Init /\ v9 = Unused
  \/ part = "split" /\ S!Init
  \/ part = "relations" /\ R!Init

Next ==
  \/ part = "conditions" /\ C!Next /\ UNCHANGED <<part, after5>>
  \/ part = "predicates" /\ P!Next /\ UNCHANGED <<part, after6>>
  \/ part = "cache" /\ K!Next /\ UNCHANGED <<part, v9>>
  \/ part = "split" /\ S!Next /\ UNCHANGED part
  \/ part = "relations" /\ R!Next /\ UNCHANGED part

Spec == Init /\ [][Next]_all

-----------------------------------------------------------------------------
(* The properties of the parts, each of the behaviours of its part.        *)

\* Types of the part that runs (TypeOK of its module).
TypeOK ==
  /\ part = "conditions" => C!TypeOK
  /\ part = "predicates" => P!TypeOK
  /\ part = "cache" => K!TypeOK
  /\ part = "split" => S!TypeOK
  /\ part = "relations" => R!TypeOK

\* Conditions: every request that the builder returns passes the validator.
BuiltIsAccepted == part = "conditions" => C!BuiltIsAccepted

\* Conditions: the first error of a chain of calls reaches the terminal call.
NoErrorLost == part = "conditions" => C!NoErrorLost

\* Conditions: the SQL selects the rows that the calls mean, unless a root OR
\* meets the filter of a soft delete.
ReadsAsMeant == part = "conditions" => C!ReadsAsMeant

\* Conditions: no read returns a row that is deleted.
ReadsExcludeDeleted == part = "conditions" => C!ReadsExcludeDeleted

\* Predicates: a value is compared in the form in which the column stores it.
ComparesStoredForm == part = "predicates" => P!ComparesStoredForm

\* Predicates: the planner renders every predicate that the validator accepts.
AcceptedRenders == part = "predicates" => P!AcceptedRenders

\* PlanCache: each placeholder gets the value that its own request names there.
BindsOwnValues == part = "cache" => K!BindsOwnValues

\* PlanCache: requests that differ in their values and within a size class share
\* a plan.
ShapeSharesPlan == part = "cache" => K!ShapeSharesPlan

\* SplitReads and Relations: no statement exceeds the bind limit.
WithinLimit == (part = "split" => S!WithinLimit) /\ (part = "relations" => R!WithinLimit)

\* SplitReads: a row of several parts is returned once, also when it moves from
\* one part to the next.
ReturnedOnce == part = "split" => S!ReturnedOnce

\* SplitReads: the merged parts answer as one statement would.
SplitExact == part = "split" => S!SplitExact

\* Relations: under writes of other clients a child is held only by parents whose
\* key it had when it was read.
ChildrenMatch == part = "relations" => R!ChildrenMatch

\* Relations: without such writes each parent holds exactly its children.
ChildrenExact == part = "relations" => R!ChildrenExact

\* From the calls on a model to the rows: the builder and the validator agree, no
\* error is lost, the SQL selects what the calls mean, and each comparison is with
\* the stored form of its value.
RequestsMean == TypeOK /\ BuiltIsAccepted /\ NoErrorLost /\ ReadsAsMeant /\ AcceptedRenders /\ ComparesStoredForm

\* A cached plan serves every request of its form, each with its own values.
PlansShared == BindsOwnValues /\ ShapeSharesPlan

\* A read that is cut into statements of at most the bind limit answers as one
\* statement would, and each parent gets its own children.
ReadsExact == WithinLimit /\ ReturnedOnce /\ SplitExact /\ ChildrenMatch /\ ChildrenExact
=============================================================================

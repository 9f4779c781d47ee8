------------------------------- MODULE MCPlans -------------------------------
(***************************************************************************)
(* Plans and installation checked in one run: the server lock of a plan    *)
(* command, which has the variables of PlanLock, the steps of a plan,      *)
(* the chain of plans, and the installation of a set.  They share no       *)
(* state: a behaviour chooses one part, whose variables are the first of   *)
(* v1 to v16; the others stay Unused, and the lock stays free.             *)
(***************************************************************************)
EXTENDS PlanLock, FiniteSets, TLC, Integers, SequencesExt

CONSTANTS
  c1, c2, c3, s1, s2, s3,       \* PlanLock
  MaxRounds,                    \* PlanSteps
  Procs, MaxByHand, MaxCalls    \* Installation

\* Three clients with direct connections.
HomeOf == (c1 :> s1) @@ (c2 :> s2) @@ (c3 :> s3)

Unused == "unused"

VARIABLES part, v1, v2, v3, v4, v5, v6, v7, v8, v9, v10, v11, v12, v13, v14, v15, v16

after9 == <<v10, v11, v12, v13, v14, v15, v16>>
after7 == <<v8, v9, after9>>
slots == <<v1, v2, v3, v4, v5, v6, v7, after7>>
all == <<serverVars, fileOnly, part, slots>>

-----------------------------------------------------------------------------
(***************************************************************************)
(* The pairs of schemas that PlanSteps is checked with, and the documents  *)
(* of PlanChain.  A schema is the base schema with one or two changes; a   *)
(* plan leads from one to another, with the renames and the permissions    *)
(* that its author gives.                                                  *)
(***************************************************************************)
PlChanges == {"table", "column", "wide", "null", "bare", "fine", "gone", "more", "key", "child", "check", "free", "audit",
            "nob", "third", "moved"}

PlNameOrder == <<"a", "ax", "b", "c", "ck", "fb", "fn", "iax", "iay", "id", "ix", "n", "ux", "uz", "v", "w", "x", "y", "z">>
PlRank(n) == CHOOSE i \in DOMAIN PlNameOrder : PlNameOrder[i] = n

PlCol(n, ty, nu, de, i) == [name |-> n, type |-> ty, null |-> nu, def |-> de, ident |-> i]
PlObj(ki, n, cs, t, rs, de) == [kind |-> ki, name |-> <<n>>, cols |-> cs, table |-> t, refs |-> rs, def |-> de]
PlWhen(b, s) == IF b THEN s ELSE <<>>
PlIf(b, s) == IF b THEN s ELSE {}

\* The audited table, renamed by "table"; its column x is renamed by "column".
PlAName(g) == IF "table" \in g THEN "c" ELSE "a"
PlXName(g) == IF "column" \in g THEN "w" ELSE "x"
PlXType(g) == IF "wide" \in g THEN "i64" ELSE "i32"

PlA(g) ==
  [cols |-> <<PlCol("id", "i64", FALSE, FALSE, TRUE), PlCol(PlXName(g), PlXType(g), FALSE, FALSE, FALSE)>>
            \o PlWhen("bare" \notin g, <<PlCol("v", "varchar", "null" \in g, FALSE, FALSE)>>)
            \o PlWhen("gone" \notin g, <<PlCol("y", IF "fine" \in g THEN "time3" ELSE "time0", TRUE, FALSE, FALSE)>>)
            \o PlWhen("more" \in g, <<PlCol("z", "bool", FALSE, TRUE, FALSE)>>),
   key |-> <<"id">>,
   objs |-> {PlObj("unique", IF "key" \in g THEN "uz" ELSE "ux", <<PlXName(g)>>, "", <<>>, ""),
             PlObj("check", "ck", <<PlXName(g)>>, "", <<>>, IF "check" \in g THEN "neg" ELSE "pos")}
            \cup PlIf({"gone", "moved"} \cap g = {}, {PlObj("index", "ix", <<"y">>, "", <<>>, "asc")}),
   settings |-> IF "free" \in g THEN {} ELSE IF "audit" \in g THEN {"audit"} ELSE {"immutable"}]

\* A table with a foreign key to it, and a third one that "third" adds.
PlB(g) ==
  [cols |-> <<PlCol("id", "i64", FALSE, FALSE, TRUE), PlCol("ax", PlXType(g), TRUE, FALSE, FALSE)>>,
   key |-> <<"id">>,
   objs |-> {PlObj("index", IF "child" \in g THEN "iay" ELSE "iax", <<"ax">>, "", <<>>, "asc"),
             PlObj("foreign key", "fb", <<"ax">>, PlAName(g), <<PlXName(g)>>, "restrict")},
   settings |-> {}]
PlN(g) ==
  [cols |-> <<PlCol("id", "i64", FALSE, FALSE, FALSE)>>,
   key |-> <<"id">>,
   objs |-> {PlObj("foreign key", "fn", <<"id">>, PlAName(g), <<"id">>, "cascade")}
            \cup PlIf("moved" \in g, {PlObj("index", "ix", <<"id">>, "", <<>>, "asc")}),
   settings |-> {"immutable"}]

PlSchemaOf(g) ==
  [t \in {PlAName(g)} \cup PlIf("nob" \notin g, {"b"}) \cup PlIf({"third", "moved"} \cap g # {}, {"n"}) |->
     CASE t = PlAName(g) -> PlA(g) [] t = "b" -> PlB(g) [] t = "n" -> PlN(g)]

PlPlan(f, t, r) == [from |-> f, to |-> t, rename |-> r]
PlPlans ==
  {PlPlan({}, {x, y}, TRUE) : x \in PlChanges, y \in PlChanges}
  \cup {PlPlan({x}, {}, r) : x \in PlChanges, r \in BOOLEAN}
  \cup {PlPlan({}, {x}, FALSE) : x \in {"table", "column"}}
  \cup {PlPlan({x}, {y}, TRUE) : x \in {"column", "gone", "nob"}, y \in PlChanges}

PlSourceOf(p) == PlSchemaOf(p.from)
PlTargetOf(p) == PlSchemaOf(p.to)

\* The header of a plan: its renames, and a permission for everything that it
\* drops.
PlNoHeader(p) == [tables |-> {}, columns |-> {}]
PlS == INSTANCE PlanSteps WITH
       Plans <- PlPlans, SourceOf <- PlSourceOf, TargetOf <- PlTargetOf, Rank <- PlRank,
       Dialects <- {}, HeaderOf <- PlNoHeader, MaxRounds <- 0, plan <- "", dialect <- "", nulls <- FALSE, db <- <<>>,
       steps <- <<>>, k <- 0, mode <- "", rounds <- 0, wrote <- FALSE
PlHeaderOf(p) ==
  LET tables == PlIf(p.rename /\ PlAName(p.from) # PlAName(p.to), {[old |-> PlAName(p.from), new |-> PlAName(p.to)]})
      columns == PlIf(p.rename /\ PlXName(p.from) # PlXName(p.to),
                    {[table |-> PlAName(p.to), old |-> PlXName(p.from), new |-> PlXName(p.to)]})
      m == PlS!Matching(PlSourceOf(p), PlTargetOf(p), [tables |-> tables, columns |-> columns])
  IN  [tables |-> tables, columns |-> columns, dropTables |-> ToSet(PlS!DroppedTables(m)),
       dropColumns |-> UNION {{[table |-> m.tableOf[t], name |-> c] : c \in ToSet(PlS!Removed(m, t))} : t \in DOMAIN m.tableOf}]

-----------------------------------------------------------------------------
(* The documents of PlanChain: one with every header, or up to three of    *)
(* which only the hashes matter.                                           *)

PlLine(f, ns) == [form |-> f, names |-> ns]
PlHeaderLines ==
  {PlLine("rename table", <<"a", "b">>), PlLine("rename table", <<"c", "b">>), PlLine("rename column", <<"a", "x", "y">>),
   PlLine("rename column", <<"a", "z", "y">>), PlLine("rename column", <<"b", "x", "y">>), PlLine("allow drop table", <<"a">>),
   PlLine("allow drop column", <<"a", "x">>), PlLine("allow drop column", <<"a", "select">>), PlLine("other", <<"a">>)}
PlHeaderSeqs == UNION {[1..n -> PlHeaderLines] : n \in 0..2}
PlDocument(h, f, ls, tg, t) == [header |-> h, from |-> f, lines |-> ls, target |-> tg, to |-> t]
PlHashes == {"A", "B", "C"}
PlOneDocument ==
  {<<PlDocument(h, f, ls, tg, "A")>> :
     h \in BOOLEAN, f \in {"empty", "A", "bad"}, ls \in PlHeaderSeqs, tg \in {"schema", "use", "text", "blank"}}
PlLinked == {PlDocument(TRUE, f, <<>>, "schema", t) : f \in PlHashes \cup {"empty"}, t \in PlHashes}
PlSets == {<<>>} \cup PlOneDocument \cup UNION {[1..n -> PlLinked] : n \in 1..3}

-----------------------------------------------------------------------------
(***************************************************************************)
(* The sets and the databases that Installation is checked with: v1 has    *)
(* one table; v2 adds a column, an index and an audit to it, a second      *)
(* table, and a use of a table of another set.  A database starts empty,   *)
(* with v1, with v2, or with v2 changed in one place.                      *)
(***************************************************************************)
InstCol(n, t, nl, d) == [name |-> n, type |-> t, null |-> nl, default |-> d, identity |-> FALSE]
InstId == [name |-> "id", type |-> "i64", null |-> FALSE, default |-> "none", identity |-> TRUE]
InstTable(cs, os) ==
  [columns |-> cs, key |-> <<"id">>, objects |-> os, immutable |-> FALSE, audit |-> "none", excluded |-> {}, unread |-> FALSE]
InstIx == [kind |-> "index", name |-> "ix", def |-> "x"]
InstUn == [kind |-> "unique", name |-> "un", def |-> "x"]
InstX == InstCol("x", "i64", TRUE, "none")
InstY == InstCol("y", "i64", TRUE, "none")
InstZ == InstCol("z", "i64", TRUE, "none")

InstA1 == InstTable(<<InstId>>, {})
InstA2 == [InstTable(<<InstId, InstX>>, {InstIx}) EXCEPT !.audit = "h"]
InstB2 == InstTable(<<InstId, InstCol("x", "i64", FALSE, "one"), InstY>>, {InstUn})
InstE == InstTable(<<InstId>>, {})

InstOrder == <<"a", "b">>
InstTargetOf(s) == IF s = "v1" THEN "a" :> InstA1 ELSE ("a" :> InstA2) @@ ("b" :> InstB2)
InstUsedOf(s) == IF s = "v1" THEN <<>> ELSE "e" :> InstE

\* A table that differs from x in one place.
InstEdits(x) ==
  {[x EXCEPT !.columns = cs] :
     cs \in {Reverse(x.columns), <<InstId, InstCol("x", "text", TRUE, "none")>>, <<InstX>>,
             <<[InstId EXCEPT !.identity = FALSE], InstCol("x", "i64", FALSE, "one")>>}}
  \cup {[x EXCEPT !.objects = {}], [x EXCEPT !.objects = {[InstIx EXCEPT !.def = "id"]}], [x EXCEPT !.audit = "none"],
        [x EXCEPT !.immutable = TRUE], [x EXCEPT !.excluded = {"x"}], [x EXCEPT !.unread = TRUE]}

InstBase == "e" :> InstE
InstStarts ==
  {InstBase, <<>>} \cup {("a" :> x) @@ InstBase : x \in {InstA1, InstA2}}
  \cup {("a" :> x) @@ ("b" :> InstB2) @@ InstBase : x \in {InstA2} \cup InstEdits(InstA2)}
  \cup {("a" :> InstA2) @@ ("b" :> x) @@ InstBase : x \in {InstTable(<<InstId>>, {InstUn}), InstTable(<<InstId, InstY>>, {InstUn})}}

\* What another connection makes of a table: a column more, or no table.
InstGone == [columns |-> <<>>, key |-> <<>>, objects |-> {}, immutable |-> FALSE, audit |-> "none", excluded |-> {}, unread |-> FALSE]
InstWithZ(x) == IF InstZ \in ToSet(x.columns) THEN {} ELSE {[x EXCEPT !.columns = Append(@, InstZ)]}
InstByHand(t, d) ==
  IF t \in DOMAIN d THEN InstWithZ(d[t]) \cup {InstGone} ELSE {InstTable(<<InstId>>, {})}

-----------------------------------------------------------------------------
(* The instances.                                                          *)

Dialects == {"mysql", "postgres", "sqlite"}

P == INSTANCE PlanSteps WITH
       Plans <- PlPlans, SourceOf <- PlSourceOf, TargetOf <- PlTargetOf, HeaderOf <- PlHeaderOf, Rank <- PlRank,
       plan <- v1, dialect <- v2, nulls <- v3, db <- v4, steps <- v5, k <- v6, mode <- v7, rounds <- v8, wrote <- v9
C == INSTANCE PlanChain WITH
       Sets <- PlSets, Reserved <- {"select"}, Empty <- "empty",
       docs <- v1, d <- v2, line <- v3, given <- v4, plans <- v5, chain <- v6, result <- v7
I == INSTANCE Installation WITH
       Sets <- {"v1", "v2"}, Order <- InstOrder, TargetOf <- InstTargetOf, UsedOf <- InstUsedOf, Starts <- InstStarts,
       ByHand <- InstByHand,
       dialect <- v1, db <- v2, pc <- v3, op <- v4, target <- v5, joined <- v6, work <- v7, live <- v8, todo <- v9,
       left <- v10, fk <- v11, open <- v12, outcome <- v13, registered <- v14, byHand <- v15, calls <- v16

-----------------------------------------------------------------------------
(* The run.                                                                *)

NoneAfter9 ==
  /\ v10 = Unused /\ v11 = Unused /\ v12 = Unused /\ v13 = Unused /\ v14 = Unused /\ v15 = Unused /\ v16 = Unused

NoSlots ==
  /\ v1 = Unused /\ v2 = Unused /\ v3 = Unused /\ v4 = Unused /\ v5 = Unused /\ v6 = Unused /\ v7 = Unused
  /\ v8 = Unused /\ v9 = Unused /\ NoneAfter9

StartPart ==
  /\ ServerInit /\ pragma = Unused /\ using = Unused /\ k = Unused /\ locked = Unused
  /\ \/ part = "lock" /\ NoSlots
     \/ part = "steps" /\ P!Init /\ NoneAfter9
     \/ part = "chain" /\ C!Init /\ v8 = Unused /\ v9 = Unused /\ NoneAfter9
     \/ part = "install" /\ I!Init

ChainStep == part = "chain" /\ C!Next /\ UNCHANGED <<serverVars, fileOnly, part, after7>>

NextOfPart ==
  \/ part = "lock" /\ ServerNext /\ UNCHANGED <<fileOnly, part, slots>>
  \/ part = "steps" /\ P!Next /\ UNCHANGED <<serverVars, fileOnly, part, after9>>
  \/ ChainStep
  \/ part = "install" /\ I!Next /\ UNCHANGED <<serverVars, fileOnly, part>>

\* The fairness of PlanChain.
SpecOfPart == StartPart /\ [][NextOfPart]_all /\ WF_all(ChainStep)

-----------------------------------------------------------------------------
(* The properties of the other parts, each of the behaviours of its part;  *)
(* those of PlanLock are checked under their own names.                    *)

\* Types of the part that runs (TypeOK of its module).
PartTypeOK ==
  /\ part = "steps" => P!TypeOK
  /\ part = "chain" => C!TypeOK
  /\ part = "install" => I!TypeOK

\* The servers accept the statements of the steps (PlanSteps).
StatementsAccepted == part = "steps" => P!StatementsAccepted

\* The effect of a step tells whether its statement ran (PlanSteps).
EffectsTell == part = "steps" => P!EffectsTell

\* An applied plan leaves the target schema with the values (PlanSteps).
AppliedIsTarget == part = "steps" => P!AppliedIsTarget

\* A plan that was rolled back leaves the source schema (PlanSteps).
RolledBackIsSource == part = "steps" => P!RolledBackIsSource

\* No step before finalize destroys a value (PlanSteps).
NothingDestroyed == part = "steps" => P!NothingDestroyed

\* The chain is the only order of the plans (PlanChain).
ChainIsTheOrder == part = "chain" => C!ChainIsTheOrder

\* A plan repeats no line and gives no name twice (PlanChain).
ReadOnce == part = "chain" => C!ReadOnce

\* Chaining ends (PlanChain).
ChainEnds == part = "chain" ~> part = "chain" /\ C!Ended

\* A failed installation leaves nothing (Installation).
FailedLeavesNothing == part = "install" => I!FailedLeavesNothing

\* A set is registered only over tables equal to it (Installation).
NoDifferenceIsSame == part = "install" => I!NoDifferenceIsSame

\* An undisturbed addition leads to the set (Installation).
UndisturbedIsVerified == part = "install" => I!UndisturbedIsVerified

\* An idle connection has its foreign keys on (Installation).
ForeignKeysBack == part = "install" => I!ForeignKeysBack

\* What a call created is the set (Installation).
CreatedIsSet == [][part = "install" => I!CreatedIsSetStep]_all

\* No call takes anything from the database (Installation).
OnlyAdds == [][part = "install" => I!OnlyAddsStep]_all

\* The plans are sound: the steps lead from source to target and back, each server
\* accepts them, nothing is destroyed, the chain is the only order of the plans, and
\* an installation leaves the set or nothing.
PlansSound ==
  /\ PartTypeOK /\ StatementsAccepted /\ EffectsTell /\ AppliedIsTarget /\ RolledBackIsSource /\ NothingDestroyed
  /\ ChainIsTheOrder /\ ReadOnce
  /\ FailedLeavesNothing /\ NoDifferenceIsSame /\ UndisturbedIsVerified /\ ForeignKeysBack

\* Chaining comes to an end, and an installation only adds and ends with the set.
PlansMove == ChainEnds /\ CreatedIsSet /\ OnlyAdds
=============================================================================

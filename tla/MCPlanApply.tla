----------------------------- MODULE MCPlanApply -----------------------------
(***************************************************************************)
(* A chain for model checking PlanApply, on a database that only counts:   *)
(* n[p] steps of plan p are in effect.  hold has the plans whose added     *)
(* column a rollback hid, nulls the plans with a NULL in a column that the *)
(* rollback makes non-null.                                                *)
(***************************************************************************)
EXTENDS PlanApply, SequencesExt

CONSTANT Shapes   \* for each plan, its steps by kind

\* The kinds of steps: "plain"; "add", of a column that a rollback hides and a
\* second apply restores; "repeat"; "null", whose rollback needs its column
\* without NULLs; "once", without rollback; "drop", a finalize step.
Do(p, k) == [what |-> "do", p |-> p, k |-> k]

MCStep(p, k, kind) ==
  [statement       |-> Do(p, k),
   restore         |-> IF kind = "add" THEN [Do(p, k) EXCEPT !.what = "restore"] ELSE None,
   restoreIf       |-> [kind |-> "hidden", p |-> p],
   rollback        |-> IF kind \in {"once", "drop"} THEN None ELSE [Do(p, k) EXCEPT !.what = "undo"],
   rollbackRestore |-> None,
   finalize        |-> kind = "drop",
   effect          |-> [kind |-> IF kind = "repeat" THEN "repeat" ELSE "ran", p |-> p, k |-> k]]

MCChain ==
  LET End(p)  == Cardinality({k \in DOMAIN Shapes[p] : Shapes[p][k] # "drop"})
      Hash(n) == [p \in DOMAIN Shapes |-> IF p <= n THEN End(p) ELSE 0]
      Nulls(p) == {k \in DOMAIN Shapes[p] : Shapes[p][k] = "null"}
  IN  [p \in DOMAIN Shapes |->
        [from       |-> Hash(p - 1),
         to         |-> Hash(p),
         steps      |-> [k \in DOMAIN Shapes[p] |-> MCStep(p, k - 1, Shapes[p][k])],
         nullChecks |-> [x \in 1 .. Cardinality(Nulls(p)) |->
                          [p |-> p, step |-> SetToSortSeq(Nulls(p), <)[x] - 1, default |-> "d"]]]]

MCMaxSteps == Max({Len(Shapes[p]) : p \in DOMAIN Shapes})

Kind(s) == Shapes[s.p][s.k + 1]

\* A column is not both in the table and hidden.
MCDatabases ==
  LET ids == DOMAIN Shapes
  IN  {d \in [n : [ids -> 0 .. MCMaxSteps], hold : SUBSET ids, nulls : SUBSET ids] :
        \A p \in ids : /\ d.n[p] <= Len(Shapes[p])
                       /\ p \in d.hold => \A k \in 1 .. d.n[p] : Shapes[p][k] # "add"}

MCEmptyDb == [n |-> [p \in DOMAIN Shapes |-> 0], hold |-> {}, nulls |-> {}]

MCExec(s, d) ==
  CASE s.what = "do"      -> [d EXCEPT !.n[s.p] = s.k + 1]
    [] s.what = "restore" -> [d EXCEPT !.n[s.p] = s.k + 1, !.hold = @ \ {s.p}]
    [] s.what = "undo"    -> [d EXCEPT !.n[s.p] = s.k,
                                       !.hold = IF Kind(s) = "add" THEN @ \cup {s.p} ELSE @]

\* A statement needs the state before it, or after it for a repeat step.  The
\* hidden name of a column is taken once.
MCAccepts(s, d) ==
  LET before == IF s.what = "undo" THEN s.k + 1 ELSE s.k
      after  == IF s.what = "undo" THEN s.k ELSE s.k + 1
  IN  /\ d.n[s.p] = before \/ (Kind(s) = "repeat" /\ d.n[s.p] = after)
      /\ s.what = "undo" /\ Kind(s) = "add" => s.p \notin d.hold
      /\ s.what = "undo" /\ Kind(s) = "null" => s.p \notin d.nulls

MCHolds(f, d) == IF f.kind = "hidden" THEN f.p \in d.hold ELSE d.n[f.p] > f.k

MCSchemaHash(d) ==
  [p \in DOMAIN Shapes |->
    LET end == Cardinality({k \in DOMAIN Shapes[p] : Shapes[p][k] # "drop"})
    IN  IF d.n[p] > end THEN end ELSE d.n[p]]

MCHasNulls(c, d) == c.p \in d.nulls

MCFillNulls(c, d) == [d EXCEPT !.nulls = @ \ {c.p}]

\* The application puts a NULL where the applied plan allows one.
MCWrites(d) ==
  {[d EXCEPT !.nulls = @ \cup {p}] : p \in {q \in DOMAIN Shapes :
     \E k \in 1 .. d.n[q] : Shapes[q][k] = "null"}}

MCInEffect(d, e) == d.n = e

\* Two plans with every kind of step.
TwoPlans == <<<<"add", "repeat", "null", "drop">>, <<"repeat", "once", "plain", "drop">>>>

=============================================================================

-------------------------- MODULE PlanApplyProofs --------------------------
(***************************************************************************)
(* Proofs of the safety properties of PlanApply for every chain of sound   *)
(* plans.  Inv is inductive: an action lemma for each action shows that    *)
(* the action preserves it.                                                *)
(***************************************************************************)
EXTENDS PlanApply, TLAPS

-----------------------------------------------------------------------------
(* Intervals and positions.                                                *)

\* An interval from 1 determines its upper end.
LEMMA IntervalEnd ==
  ASSUME NEW m \in Nat, NEW n \in Nat, 1 .. m = 1 .. n
  PROVE  m = n
<1>1. m <= n
  <2>1. CASE m = 0 BY <2>1
  <2>2. CASE m > 0
    <3>1. m \in 1 .. n BY <2>2
    <3> QED BY <3>1
  <2> QED BY <2>1, <2>2
<1>2. n <= m
  <2>1. CASE n = 0 BY <2>1
  <2>2. CASE n > 0
    <3>1. n \in 1 .. m BY <2>2
    <3> QED BY <3>1
  <2> QED BY <2>1, <2>2
<1> QED BY <1>1, <1>2

\* position() returns the number of recorded plans.
LEMMA PositionValue ==
  ASSUME NEW n \in 0 .. Len(Chain), Recorded = 1 .. n
  PROVE  Position = n
<1>1. \E m \in 0 .. Len(Chain) : Recorded = 1 .. m
  OBVIOUS
<1>2. Position \in 0 .. Len(Chain) /\ Recorded = 1 .. Position
  BY <1>1 DEF Position
<1>3. Len(Chain) \in Nat
  BY ChainAssumption
<1> QED
  BY <1>2, <1>3, IntervalEnd

\* The numbers of plans and steps are naturals.
LEMMA Sizes ==
  /\ Len(Chain) \in Nat
  /\ MaxSteps \in Nat
  /\ \A p \in PlanIds : /\ NSteps(p) \in 0 .. MaxSteps
                        /\ FinalizeStart(p) \in 0 .. NSteps(p)
BY ChainAssumption

\* In the initial state no plan is recorded and none is in effect.
LEMMA InitInv == Init => Inv
<1> SUFFICES ASSUME Init PROVE Inv
  OBVIOUS
<1> USE Sizes
<1> DEFINE e == [p \in PlanIds |-> 0]
<1>1. Recorded = {} /\ Live = {}
  BY DEF Init, Recorded, Live
<1>2. TypeOK
  <2>1. history \in [PlanIds -> Row \cup {None}] BY DEF Init
  <2>2. db \in Databases BY EmptyAssumption DEF Init
  <2>3. drift \in BOOLEAN BY Zenon DEF Init
  <2> QED BY <2>1, <2>2, <2>3 DEF Init, TypeOK, Commands, Labels, Codes
<1>3. RowsFit
  <2>1. Recorded = 1 .. 0 BY <1>1
  <2> QED BY <2>1 DEF RowsFit
<1>4. CommandFits
  BY DEF Init, CommandFits
<1>5. StepsInEffect
  <2>1. e \in Counts BY DEF Counts
  <2>2. InEffect(db, e) BY EmptyAssumption DEF Init
  <2>3. \A p \in PlanIds : e[p] \in ByRow(p) BY DEF Init, ByRow
  <2>4. \A p \in PlanIds : p # cur BY DEF Init, PlanIds
  <2> QED BY <2>1, <2>2, <2>3, <2>4 DEF StepsInEffect
<1>6. SettledMatches
  <2> SUFFICES ASSUME NEW n \in 0 .. Len(Chain), Recorded = 1 .. n
               PROVE  SchemaHash(db) = HashAfter(n)
    BY DEF SettledMatches
  <2>1. n = 0 BY <1>1
  <2> QED BY <2>1 DEF Init, HashAfter, EmptyHash
<1> QED
  BY <1>2, <1>3, <1>4, <1>5, <1>6 DEF Inv

-----------------------------------------------------------------------------
(* Steps that leave the database and the history alone.                    *)

\* The rows fit and the schema matches as before.
LEMMA RowsUnchanged ==
  ASSUME RowsFit, SettledMatches, UNCHANGED <<db, history>>
  PROVE  RowsFit' /\ SettledMatches'
BY Zenon DEF RowsFit, SettledMatches, Recorded, Live

\* The possible counts by row are as before.
LEMMA ByRowUnchanged ==
  ASSUME NEW p \in PlanIds, history'[p] = history[p]
  PROVE  ByRow(p)' = ByRow(p)
BY DEF ByRow

\* A command that has no plan in hand, or ends, forgets only what it knew
\* beyond the rows.
LEMMA StepsForgotten ==
  ASSUME StepsInEffect, UNCHANGED <<db, history>>,
         pc' \in {"idle", "read", "next", "fnext"}
  PROVE  StepsInEffect'
<1>1. PICK e \in Counts : InEffect(db, e) /\ \A p \in PlanIds : e[p] \in ByRow(p)
  BY DEF StepsInEffect
<1>2. \A p \in PlanIds : e[p] \in ByRow(p)'
  BY <1>1, ByRowUnchanged
<1>3. \A p \in PlanIds : e[p] \in ByPosition'
  BY Sizes DEF ByPosition, Counts
<1> QED
  BY <1>1, <1>2, <1>3 DEF StepsInEffect

\* A command that ends, or only reads, keeps the invariant.
LEMMA EndInv ==
  ASSUME Inv, UNCHANGED <<db, history>>, drift' \in BOOLEAN, op' \in Commands,
         pc' \in {"idle", "read", "fnext"}, top' \in 0 .. Len(Chain),
         cur' \in 0 .. Len(Chain), i' \in 0 .. MaxSteps, j' \in Nat, code' \in Codes
  PROVE  Inv'
<1>1. TypeOK'
  BY DEF Inv, TypeOK, Labels
<1>2. CommandFits'
  BY DEF CommandFits
<1>3. StepsInEffect'
  BY StepsForgotten DEF Inv
<1> QED
  BY <1>1, <1>2, <1>3, RowsUnchanged DEF Inv

\* A command that takes the lock has read nothing yet.
LEMMA StartInv ==
  ASSUME Inv, NEW o \in Commands, NEW n \in 0 .. Len(Chain), Start(o, n)
  PROVE  Inv'
BY EndInv DEF Start, Inv, TypeOK, Codes

\* position() throws before anything changes.
LEMMA ChainErrorInv ==
  ASSUME Inv, ChainError
  PROVE  Inv'
BY EndInv DEF ChainError, Finish, Inv, TypeOK, Codes

\* A stop between two statements, a thrown event handler included, leaves
\* what the rows and the catalog say.
LEMMA StopInv ==
  ASSUME Inv, Stop
  PROVE  Inv'
BY EndInv DEF Stop, Finish, Inv, TypeOK, Codes

\* settled() lets apply through only with every row applied or done.
LEMMA ReadSettledInv ==
  ASSUME Inv, ReadSettled
  PROVE  Inv'
<1> USE Sizes DEF Inv, TypeOK
<1>1. PICK n \in 0 .. Len(Chain) :
        /\ Recorded = 1 .. n
        /\ \A p \in 1 .. n - 1 : p \in Live
  BY DEF RowsFit
<1>2. Position = n
  BY <1>1, PositionValue
<1>3. CASE pc' = "idle"
  BY <1>3, EndInv DEF ReadSettled, Finish, Goto, Codes
<1>4. CASE pc' = "fnext"
  BY <1>4, EndInv DEF ReadSettled, Finish, Goto, Codes
<1>5. CASE pc' = "next"
  <2>1. /\ n > 0 => history[n].state \in Settled
        /\ cur' = n
        /\ UNCHANGED <<db, drift, history, op, top, i, j, code>>
    BY <1>2, <1>5 DEF ReadSettled, Finish, Goto
  <2>2. Live = Recorded
    BY <1>1, <2>1 DEF Live
  <2>3. TypeOK'
    BY <1>5, <2>1 DEF Labels
  <2>4. CommandFits'
    BY <1>1, <1>5, <2>1, <2>2 DEF CommandFits, Recorded, Live
  <2>5. StepsInEffect'
    BY <1>5, <2>1, StepsForgotten
  <2> QED
    BY <2>1, <2>3, <2>4, <2>5, RowsUnchanged
<1> QED
  BY <1>3, <1>4, <1>5 DEF ReadSettled, Finish, Goto

\* Drift changes nothing the commands have recorded.
LEMMA DriftInv ==
  ASSUME Inv, Drift
  PROVE  Inv'
<1>1. TypeOK'
  BY DEF Inv, TypeOK, Drift
<1>2. CommandFits'
  BY DEF Inv, CommandFits, Drift, Recorded, Live
<1>3. StepsInEffect'
  BY Zenon DEF Inv, StepsInEffect, Drift, ByRow, ByPosition
<1> QED
  BY <1>1, <1>2, <1>3, RowsUnchanged DEF Inv, Drift

\* A write to rows keeps what is in effect.
LEMMA WriteInv ==
  ASSUME Inv, Write
  PROVE  Inv'
<1> USE DEF Inv
<1>1. db \in Databases /\ db' \in Writes(db)
  BY DEF TypeOK, Write
<1>2. /\ db' \in Databases
      /\ SchemaHash(db') = SchemaHash(db)
      /\ \A e \in Counts : InEffect(db, e) => InEffect(db', e)
  BY <1>1, RowsAssumption
<1>3. TypeOK'
  BY <1>2 DEF TypeOK, Write
<1>4. RowsFit'
  BY Zenon DEF RowsFit, Write, Recorded, Live
<1>5. CommandFits'
  BY <1>2 DEF CommandFits, Write, Recorded, Live
<1>6. StepsInEffect'
  BY <1>2, Zenon DEF StepsInEffect, Write, ByRow, ByPosition
<1>7. SettledMatches'
  BY <1>2 DEF SettledMatches, Write, Recorded, Live
<1> QED
  BY <1>3, <1>4, <1>5, <1>6, <1>7

-----------------------------------------------------------------------------
(* The last recorded plan.                                                 *)

\* The plans before the last recorded one are applied or further, and no plan
\* after it has started.
LEMMA TurnOfLast ==
  ASSUME TypeOK, RowsFit, NEW n \in PlanIds, Recorded = 1 .. n,
         NEW e \in Counts, \A p \in PlanIds : e[p] \in ByRow(p)
  PROVE  Turn(n, e)
<1> USE Sizes
<1>1. PICK m \in 0 .. Len(Chain) :
        /\ Recorded = 1 .. m
        /\ \A p \in 1 .. m - 1 : p \in Live
        /\ \A p \in 1 .. m :
             history[p].step \in
               CASE history[p].state = "applied"    -> {FinalizeStart(p)}
                 [] history[p].state = "done"       -> {NSteps(p)}
                 [] history[p].state = "finalizing" -> FinalizeStart(p) .. NSteps(p)
                 [] OTHER                           -> 0 .. FinalizeStart(p)
  BY Zenon DEF RowsFit
<1>2. n \in Nat /\ m = n
  BY <1>1, IntervalEnd DEF PlanIds
<1> SUFFICES ASSUME NEW q \in PlanIds
             PROVE  /\ q < n => e[q] \in FinalizeStart(q) .. NSteps(q)
                    /\ q > n => e[q] = 0
  BY DEF Turn
<1>3. ASSUME q < n PROVE e[q] \in FinalizeStart(q) .. NSteps(q)
  <2>1. q \in 1 .. m - 1 /\ q \in 1 .. m
    BY <1>2, <1>3 DEF PlanIds
  <2>2. q \in Live /\ q \in Recorded
    BY <1>1, <2>1, Zenon
  <2>3. history[q] # None /\ history[q].state \in {"applied", "done", "finalizing"}
    BY <2>2 DEF Live, Settled, Recorded
  <2>4. FinalizeStart(q) \in Nat /\ NSteps(q) \in Nat /\ FinalizeStart(q) <= NSteps(q)
    OBVIOUS
  <2>5. CASE history[q].state = "applied"
    <3>1. ByRow(q) = {FinalizeStart(q)} BY <2>3, <2>5 DEF ByRow
    <3> QED BY <2>4, <3>1
  <2>6. CASE history[q].state = "done"
    <3>1. ByRow(q) = {NSteps(q)} BY <2>3, <2>6 DEF ByRow
    <3> QED BY <2>4, <3>1
  <2>7. CASE history[q].state = "finalizing"
    <3>1. ByRow(q) = history[q].step .. NSteps(q) BY <2>3, <2>7 DEF ByRow
    <3>2. history[q].step \in FinalizeStart(q) .. NSteps(q) BY <1>1, <2>1, <2>7, Zenon
    <3> QED BY <2>4, <3>1, <3>2
  <2> QED
    BY <2>3, <2>5, <2>6, <2>7
<1>4. ASSUME q > n PROVE e[q] = 0
  <2>1. q \notin Recorded
    BY <1>2, <1>4
  <2> QED
    BY <2>1, Zenon DEF ByRow, Recorded
<1> QED
  BY <1>3, <1>4

\* Counts with one plan changed.
LEMMA WithCounts ==
  ASSUME NEW e \in Counts, NEW p \in PlanIds, NEW k \in 0 .. MaxSteps
  PROVE  /\ With(e, p, k) \in Counts
         /\ With(e, p, k)[p] = k
         /\ \A q \in PlanIds \ {p} : With(e, p, k)[q] = e[q]
BY DEF With, Counts

\* The step that a row records.
LEMMA RowStep ==
  ASSUME TypeOK, RowsFit, NEW p \in Recorded
  PROVE  /\ history[p] \in Row
         /\ history[p].state = "applied" => history[p].step = FinalizeStart(p)
         /\ history[p].state = "done" => history[p].step = NSteps(p)
         /\ history[p].state = "finalizing" => history[p].step \in FinalizeStart(p) .. NSteps(p)
         /\ history[p].state \in {"applying", "rolling_back"} => history[p].step \in 0 .. FinalizeStart(p)
<1>1. history[p] \in Row
  BY DEF Recorded, TypeOK
<1>2. history[p].step \in
        CASE history[p].state = "applied"    -> {FinalizeStart(p)}
          [] history[p].state = "done"       -> {NSteps(p)}
          [] history[p].state = "finalizing" -> FinalizeStart(p) .. NSteps(p)
          [] OTHER                           -> 0 .. FinalizeStart(p)
  BY Zenon DEF RowsFit
<1>3. CASE history[p].state = "applied" BY <1>1, <1>2, <1>3
<1>4. CASE history[p].state = "done" BY <1>1, <1>2, <1>4
<1>5. CASE history[p].state = "finalizing" BY <1>1, <1>2, <1>5
<1>6. CASE history[p].state \in {"applying", "rolling_back"} BY <1>1, <1>2, <1>6, Zenon
<1> QED
  BY <1>1, <1>3, <1>4, <1>5, <1>6 DEF Row, States, Settled

\* The counts that a row allows, by its state.
LEMMA ByRowValue ==
  ASSUME NEW p \in Recorded
  PROVE  /\ history[p].state = "applied" => ByRow(p) = {FinalizeStart(p)}
         /\ history[p].state = "done" => ByRow(p) = {NSteps(p)}
         /\ history[p].state = "finalizing" => ByRow(p) = history[p].step .. NSteps(p)
         /\ history[p].state = "applying" =>
              ByRow(p) = {history[p].step, history[p].step + 1} \cap 0 .. FinalizeStart(p)
         /\ history[p].state = "rolling_back" =>
              ByRow(p) = {history[p].step - 1, history[p].step} \cap 0 .. FinalizeStart(p)
BY DEF ByRow, Recorded

\* The forward resolution of an uncertain step is right: the database has the
\* steps before it in effect, and the step itself only if it can run again.
LEMMA ResolveForward ==
  ASSUME TypeOK, RowsFit, StepsInEffect, NEW n \in PlanIds, Recorded = 1 .. n,
         history[n].state \in {"applying", "rolling_back"},
         NEW k, k = Resolve(n, TRUE)
  PROVE  /\ k \in 0 .. FinalizeStart(n)
         /\ \E e \in Counts :
              /\ InEffect(db, e)
              /\ \A p \in PlanIds : e[p] \in ByRow(p)
              /\ e[n] \in {k} \cup {x \in {k + 1} : k < NSteps(n) /\ Repeats(n, k)}
<1> USE Sizes
<1>1. n \in Recorded /\ n \in Nat
  BY DEF PlanIds
<1>2. PICK e \in Counts : InEffect(db, e) /\ \A p \in PlanIds : e[p] \in ByRow(p)
  BY DEF StepsInEffect
<1>3. Turn(n, e)
  BY <1>2, TurnOfLast
<1>4. /\ history[n].step \in 0 .. FinalizeStart(n)
      /\ FinalizeStart(n) \in 0 .. NSteps(n)
      /\ NSteps(n) \in 0 .. MaxSteps
      /\ e[n] \in 0 .. MaxSteps
  BY <1>1, RowStep DEF Counts
<1>5. db \in Databases
  BY DEF TypeOK
<1> DEFINE u == IF history[n].state = "rolling_back" THEN history[n].step - 1 ELSE history[n].step
<1>6. u \in Int /\ u <= FinalizeStart(n) /\ e[n] \in {u, u + 1} \cap 0 .. FinalizeStart(n)
  <2>1. CASE history[n].state = "applying"
    BY <1>1, <1>2, <1>4, <2>1, ByRowValue
  <2>2. CASE history[n].state = "rolling_back"
    BY <1>1, <1>2, <1>4, <2>2, ByRowValue, SMTT(30)
  <2> QED BY <2>1, <2>2
<1>7. /\ u \notin 0 .. NSteps(n) - 1 => k = history[n].step
      /\ u \in 0 .. NSteps(n) - 1 /\ Repeats(n, u) => k = u
      /\ u \in 0 .. NSteps(n) - 1 /\ ~Repeats(n, u) /\ Holds(Step(n, u).effect, db) => k = u + 1
      /\ u \in 0 .. NSteps(n) - 1 /\ ~Repeats(n, u) /\ ~Holds(Step(n, u).effect, db) => k = u
  BY DEF Resolve
<1> HIDE DEF u
<1> DEFINE Ran(x) == {x} \cup {y \in {x + 1} : x < NSteps(n) /\ Repeats(n, x)}
<1> SUFFICES ASSUME u \in Int
             PROVE  \E x \in 0 .. FinalizeStart(n), f \in Counts :
                      /\ x = k
                      /\ InEffect(db, f)
                      /\ \A p \in PlanIds : f[p] \in ByRow(p)
                      /\ f[n] \in Ran(x)
  BY <1>6, Zenon
<1>8. CASE u \notin 0 .. NSteps(n) - 1
  <2>1. e[n] = history[n].step
    BY <1>4, <1>6, <1>8, SMTT(30) DEF u
  <2> QED BY <1>2, <1>4, <1>7, <1>8, <2>1, Zenon
<1>9. CASE u \in 0 .. NSteps(n) - 1 /\ Repeats(n, u)
  <2>1. ~Step(n, u).finalize
    BY <1>9, ChainAssumption
  <2>2. u < FinalizeStart(n)
    BY <1>4, <1>6, <1>9, <2>1, ChainAssumption
  <2>3. k = u
    BY <1>7, <1>9, Zenon
  <2>4. u < NSteps(n) /\ e[n] \in Ran(u)
    BY <1>4, <1>6, <1>9
  <2>5. u \in 0 .. FinalizeStart(n)
    BY <1>4, <1>9, <2>2
  <2> QED BY <1>2, <2>3, <2>4, <2>5, Zenon
<1>10. CASE u \in 0 .. NSteps(n) - 1 /\ ~Repeats(n, u) /\ u < FinalizeStart(n)
  <2>1. ~Step(n, u).finalize
    BY <1>4, <1>10, ChainAssumption
  <2>2. /\ e[n] = u /\ Holds(Step(n, u).effect, db) => InEffect(db, With(e, n, u + 1))
        /\ e[n] = u + 1 /\ ~Holds(Step(n, u).effect, db) => InEffect(db, With(e, n, u))
    BY <1>2, <1>3, <1>5, <1>10, <2>1, EffectAssumption
  <2>3. With(e, n, e[n]) = e
    BY DEF With, Counts
  <2>4. u + 1 \in 0 .. FinalizeStart(n) /\ u \in 0 .. FinalizeStart(n)
    BY <1>4, <1>10
  <2>5. u + 1 \in ByRow(n) /\ u \in ByRow(n)
    BY <1>1, <1>4, <2>4, ByRowValue, SMTT(30) DEF u
  <2>6. ASSUME NEW x \in {u, u + 1}, InEffect(db, With(e, n, x)), x = k
        PROVE  /\ x \in 0 .. FinalizeStart(n)
               /\ With(e, n, x) \in Counts
               /\ InEffect(db, With(e, n, x))
               /\ \A p \in PlanIds : With(e, n, x)[p] \in ByRow(p)
               /\ With(e, n, x)[n] \in Ran(x)
    <3>1. x \in 0 .. FinalizeStart(n) /\ x \in 0 .. MaxSteps /\ x \in ByRow(n)
      BY <1>4, <2>4, <2>5
    <3>2. With(e, n, x) \in Counts /\ With(e, n, x)[n] = x
      BY <3>1, WithCounts
    <3>3. ASSUME NEW p \in PlanIds PROVE With(e, n, x)[p] \in ByRow(p)
      <4>1. CASE p = n BY <3>1, <3>2, <4>1
      <4>2. CASE p # n
        <5>1. With(e, n, x)[p] = e[p] BY <4>2 DEF With, Counts
        <5> QED BY <1>2, <5>1
      <4> QED BY <4>1, <4>2
    <3> QED BY <2>6, <3>1, <3>2, <3>3, Zenon
  <2>7. CASE Holds(Step(n, u).effect, db)
    <3>1. k = u + 1 BY <1>7, <1>10, <2>7, Zenon
    <3>2. InEffect(db, With(e, n, u + 1)) BY <1>2, <1>6, <2>2, <2>3, <2>7
    <3> QED BY <2>6, <3>1, <3>2, Zenon
  <2>8. CASE ~Holds(Step(n, u).effect, db)
    <3>1. k = u BY <1>7, <1>10, <2>8, Zenon
    <3>2. InEffect(db, With(e, n, u)) BY <1>2, <1>6, <2>2, <2>3, <2>8
    <3> QED BY <2>6, <3>1, <3>2, Zenon
  <2> QED BY <2>7, <2>8, Zenon
<1>11. CASE u \in 0 .. NSteps(n) - 1 /\ u = FinalizeStart(n)
  <2>1. Step(n, u).finalize /\ ~Repeats(n, u)
    BY <1>11, ChainAssumption
  <2>2. e[n] = u
    BY <1>4, <1>6, <1>11
  <2>3. ~Holds(Step(n, u).effect, db)
    BY <1>2, <1>3, <1>5, <1>11, <2>1, <2>2, EffectAssumption
  <2>4. k = u
    BY <1>7, <1>11, <2>1, <2>3, Zenon
  <2>5. u \in 0 .. FinalizeStart(n) /\ e[n] \in Ran(u)
    BY <1>4, <1>11, <2>2
  <2> QED BY <1>2, <2>4, <2>5, Zenon
<1>12. u < FinalizeStart(n) \/ u = FinalizeStart(n)
  BY <1>4, <1>6
<1> QED
  BY <1>8, <1>9, <1>10, <1>11, <1>12, Zenon, Zenon

\* The backward resolution is right too: either the plan has begun to drop, or
\* its first k steps are in effect, the last one perhaps not if its rollback
\* can run again.
LEMMA ResolveBackward ==
  ASSUME TypeOK, RowsFit, StepsInEffect, NEW n \in PlanIds, Recorded = 1 .. n,
         history[n].state \notin Settled,
         NEW k, k = Resolve(n, FALSE)
  PROVE  /\ k \in 0 .. NSteps(n)
         /\ k <= FinalizeStart(n) =>
              \E e \in Counts :
                /\ InEffect(db, e)
                /\ \A p \in PlanIds : e[p] \in ByRow(p)
                /\ e[n] \in {k} \cup {x \in {k - 1} : k > 0 /\ Repeats(n, k - 1)}
<1>1. n \in Recorded /\ n \in Nat
  BY DEF PlanIds
<1>2. PICK e \in Counts : InEffect(db, e) /\ \A p \in PlanIds : e[p] \in ByRow(p)
  BY DEF StepsInEffect
<1>3. Turn(n, e)
  BY <1>2, Sizes, TurnOfLast
<1>4. /\ FinalizeStart(n) \in 0 .. NSteps(n)
      /\ NSteps(n) \in 0 .. MaxSteps
      /\ e[n] \in 0 .. MaxSteps
      /\ history[n].step \in 0 .. MaxSteps
      /\ history[n].state \in {"applying", "rolling_back", "finalizing"}
  BY <1>1, Sizes, RowStep DEF Counts, Row, States, Settled
<1>5. db \in Databases
  BY DEF TypeOK
<1> DEFINE u == IF history[n].state = "rolling_back" THEN history[n].step - 1 ELSE history[n].step
<1> DEFINE Ran(x) == {x} \cup {y \in {x - 1} : x > 0 /\ Repeats(n, x - 1)}
<1>6c. u < 0 \/ u >= NSteps(n) => k = history[n].step
  BY <1>4, SMTT(30) DEF Resolve
<1>6. /\ u \in 0 .. NSteps(n) - 1 /\ Repeats(n, u) => k = u + 1
      /\ u \in 0 .. NSteps(n) - 1 /\ ~Repeats(n, u) /\ Holds(Step(n, u).effect, db) => k = u + 1
      /\ u \in 0 .. NSteps(n) - 1 /\ ~Repeats(n, u) /\ ~Holds(Step(n, u).effect, db) => k = u
  BY DEF Resolve
<1>6a. /\ history[n].state = "rolling_back" => u = history[n].step - 1
       /\ history[n].state # "rolling_back" => u = history[n].step
  OBVIOUS
<1>6b. /\ u \in Int
       /\ history[n].step \in Int
       /\ NSteps(n) \in Int
       /\ FinalizeStart(n) \in Int
       /\ MaxSteps \in Int
  BY <1>4, Sizes
<1> HIDE DEF u
<1> USE <1>6b
<1> SUFFICES \E x \in 0 .. NSteps(n) :
               /\ x = k
               /\ x <= FinalizeStart(n) =>
                    \E f \in Counts : /\ InEffect(db, f)
                                      /\ \A p \in PlanIds : f[p] \in ByRow(p)
                                      /\ f[n] \in Ran(x)
  BY Zenon
<1>7. CASE history[n].state = "finalizing"
  <2>1. history[n].step \in FinalizeStart(n) .. NSteps(n) /\ u = history[n].step
    BY <1>1, <1>7, <1>6a, RowStep
  <2>2. e[n] \in u .. NSteps(n)
    BY <1>1, <1>2, <1>7, <2>1, ByRowValue
  <2>3. CASE u = NSteps(n)
    <3>1. k = u
      <4>1. u >= NSteps(n) BY <2>3
      <4>2. k = history[n].step BY <1>6c, <4>1, Zenon
      <4> QED BY <2>1, <4>2, Zenon
    <3>2. e[n] = u BY <1>4, <2>1, <2>2, <2>3
    <3>3. u \in 0 .. NSteps(n) /\ e[n] \in Ran(u) BY <1>4, <2>3, <3>2
    <3> QED BY <1>2, <3>1, <3>3, Zenon
  <2>4. CASE u < NSteps(n)
    <3>1. u \in 0 .. NSteps(n) - 1 /\ u >= FinalizeStart(n) /\ e[n] >= FinalizeStart(n)
      BY <1>4, <2>1, <2>2, <2>4
    <3>2. Step(n, u).finalize /\ ~Repeats(n, u)
      BY <3>1, ChainAssumption, SMTT(30)
    <3>3. Holds(Step(n, u).effect, db) <=> e[n] > u
      BY <1>2, <1>3, <1>5, <3>1, <3>2, EffectAssumption, SMTT(30)
    <3>4. CASE e[n] > u
      <4>1. k = u + 1 BY <1>6, <3>1, <3>2, <3>3, <3>4, Zenon
      <4>2. u + 1 \in 0 .. NSteps(n) /\ ~(u + 1 <= FinalizeStart(n)) BY <1>4, <3>1, SMTT(30)
      <4> QED BY <4>1, <4>2, Zenon
    <3>5. CASE ~(e[n] > u)
      <4>1. k = u BY <1>6, <3>1, <3>2, <3>3, <3>5, Zenon
      <4>2. u \in 0 .. NSteps(n) /\ e[n] = u /\ e[n] \in Ran(u) BY <1>4, <2>2, <3>1, <3>5
      <4> QED BY <1>2, <4>1, <4>2, Zenon
    <3> QED BY <3>4, <3>5, Zenon
  <2>5. u = NSteps(n) \/ u < NSteps(n) BY <2>1
  <2> QED BY <2>3, <2>4, <2>5, Zenon, Zenon

<1>8. CASE history[n].state \in {"applying", "rolling_back"}
  <2>1. history[n].step \in 0 .. FinalizeStart(n)
    BY <1>1, <1>8, RowStep
  <2>2. u \in Int /\ u <= FinalizeStart(n) /\ e[n] \in {u, u + 1} \cap 0 .. FinalizeStart(n)
    <3>1. CASE history[n].state = "applying"
      BY <1>1, <1>2, <1>4, <1>6a, <2>1, <3>1, ByRowValue
    <3>2. CASE history[n].state = "rolling_back"
      <4>1. u = history[n].step - 1 BY <1>6a, <3>2
      <4>2. e[n] \in {history[n].step - 1, history[n].step} \cap 0 .. FinalizeStart(n)
        BY <1>1, <1>2, <3>2, ByRowValue, SMTT(30)
      <4> QED BY <2>1, <4>1, <4>2, SMTT(30)
    <3> QED BY <1>8, <3>1, <3>2
  <2>3. CASE u \notin 0 .. NSteps(n) - 1
    <3>1. e[n] = history[n].step
      <4>1. u < 0 \/ u >= NSteps(n) BY <2>3
      <4>2. CASE u < 0
        <5>1. u = history[n].step - 1 BY <1>6a, <2>1, <4>2
        <5> QED BY <2>1, <2>2, <4>2, <5>1
      <4>3. CASE u >= NSteps(n)
        <5>1. u = NSteps(n) /\ FinalizeStart(n) = NSteps(n) BY <1>4, <2>2, <4>3
        <5>2. u = history[n].step BY <1>6a, <2>1, <5>1
        <5>3. e[n] = u BY <2>2, <5>1
        <5> QED BY <5>2, <5>3
      <4> QED BY <4>1, <4>2, <4>3
    <3>2. k = history[n].step /\ history[n].step \in 0 .. NSteps(n)
      <4>1. u < 0 \/ u >= NSteps(n) BY <2>3
      <4>2. k = history[n].step BY <1>6c, <4>1, Zenon
      <4>3. FinalizeStart(n) <= NSteps(n) BY <1>4
      <4>4. history[n].step \in 0 .. NSteps(n) BY <2>1, <4>3
      <4> QED BY <4>2, <4>4, Zenon
    <3>3. e[n] \in Ran(history[n].step)
      BY <3>1
    <3> QED BY <1>2, <3>2, <3>3, Zenon
  <2>4. CASE u \in 0 .. NSteps(n) - 1 /\ Repeats(n, u)
    <3>1. u + 1 \in 0 .. NSteps(n) /\ u + 1 - 1 = u /\ u + 1 > 0
      BY <1>4, <2>4
    <3>2. e[n] \in Ran(u + 1)
      <4>1. Ran(u + 1) = {u + 1, u} BY <2>4, <3>1
      <4> QED BY <2>2, <4>1, SMTT(30)
    <3>3. k = u + 1
      BY <1>6, <2>4, Zenon
    <3> QED BY <1>2, <3>1, <3>2, <3>3, Zenon
  <2>5. CASE u \in 0 .. NSteps(n) - 1 /\ ~Repeats(n, u) /\ u < FinalizeStart(n)
    <3>1. ~Step(n, u).finalize
      BY <1>4, <2>5, ChainAssumption, SMTT(30)
    <3>2. /\ e[n] = u /\ Holds(Step(n, u).effect, db) => InEffect(db, With(e, n, u + 1))
          /\ e[n] = u + 1 /\ ~Holds(Step(n, u).effect, db) => InEffect(db, With(e, n, u))
      BY <1>2, <1>3, <1>5, <2>5, <3>1, EffectAssumption, SMTT(30)
    <3>3. With(e, n, e[n]) = e
      BY DEF With, Counts
    <3>4. u + 1 \in 0 .. FinalizeStart(n) /\ u \in 0 .. FinalizeStart(n)
      BY <1>4, <2>5
    <3>5. u + 1 \in ByRow(n) /\ u \in ByRow(n)
      <4>1. CASE history[n].state = "applying"
        <5>1. ByRow(n) = {u, u + 1} \cap 0 .. FinalizeStart(n) BY <1>1, <1>6a, <4>1, ByRowValue
        <5> QED BY <3>4, <5>1
      <4>2. CASE history[n].state = "rolling_back"
        <5>1. ByRow(n) = {history[n].step - 1, history[n].step} \cap 0 .. FinalizeStart(n)
          BY <1>1, <4>2, ByRowValue
        <5>2. history[n].step - 1 = u /\ history[n].step = u + 1 BY <1>6a, <4>2, SMTT(30)
        <5> QED BY <3>4, <5>1, <5>2
      <4> QED BY <1>8, <4>1, <4>2
    <3>6. ASSUME NEW x \in {u, u + 1}, InEffect(db, With(e, n, x)), x = k
          PROVE  /\ x \in 0 .. NSteps(n)
                 /\ With(e, n, x) \in Counts
                 /\ InEffect(db, With(e, n, x))
                 /\ \A p \in PlanIds : With(e, n, x)[p] \in ByRow(p)
                 /\ With(e, n, x)[n] \in Ran(x)
      <4>1. x \in 0 .. NSteps(n) /\ x \in 0 .. MaxSteps /\ x \in ByRow(n)
        <5>1. CASE x = u BY <1>4, <3>4, <3>5, <5>1
        <5>2. CASE x = u + 1 BY <1>4, <3>4, <3>5, <5>2
        <5> QED BY <5>1, <5>2
      <4>2. With(e, n, x) \in Counts /\ With(e, n, x)[n] = x
        BY <4>1, WithCounts
      <4>3. ASSUME NEW p \in PlanIds PROVE With(e, n, x)[p] \in ByRow(p)
        <5>1. CASE p = n BY <4>1, <4>2, <5>1
        <5>2. CASE p # n
          <6>1. With(e, n, x)[p] = e[p] BY <5>2 DEF With, Counts
          <6> QED BY <1>2, <6>1
        <5> QED BY <5>1, <5>2
      <4> QED BY <3>6, <4>1, <4>2, <4>3, Zenon
    <3>7. CASE Holds(Step(n, u).effect, db)
      <4>1. k = u + 1 BY <1>6, <2>5, <3>7, Zenon
      <4>2. InEffect(db, With(e, n, u + 1)) BY <1>2, <2>2, <3>2, <3>3, <3>7
      <4> QED BY <3>6, <4>1, <4>2, Zenon
    <3>8. CASE ~Holds(Step(n, u).effect, db)
      <4>1. k = u BY <1>6, <2>5, <3>8, Zenon
      <4>2. InEffect(db, With(e, n, u)) BY <1>2, <2>2, <3>2, <3>3, <3>8
      <4> QED BY <3>6, <4>1, <4>2, Zenon
    <3> QED BY <3>7, <3>8, Zenon
  <2>6. CASE u \in 0 .. NSteps(n) - 1 /\ u = FinalizeStart(n)
    <3>1. Step(n, u).finalize /\ ~Repeats(n, u)
      BY <2>6, ChainAssumption
    <3>2. e[n] = u
      BY <1>4, <2>2, <2>6, SMTT(30)
    <3>3. ~Holds(Step(n, u).effect, db)
      BY <1>2, <1>3, <1>5, <2>6, <3>1, <3>2, EffectAssumption
    <3>4. k = u
      BY <1>6, <2>6, <3>1, <3>3, Zenon
    <3>5. u \in 0 .. NSteps(n) /\ e[n] \in Ran(u)
      BY <1>4, <2>6, <3>2
    <3> QED BY <1>2, <3>4, <3>5, Zenon
  <2>7. u < FinalizeStart(n) \/ u = FinalizeStart(n)
    BY <1>4, <2>2
  <2> QED
    BY <2>3, <2>4, <2>5, <2>6, <2>7, Zenon, Zenon
<1> QED
  BY <1>4, <1>7, <1>8, Zenon

\* A finalizing plan resolves to a position that all its finalize steps in
\* effect have passed.
LEMMA ResolveFinalizing ==
  ASSUME TypeOK, RowsFit, StepsInEffect, NEW n \in PlanIds, Recorded = 1 .. n,
         history[n].state = "finalizing",
         NEW k, k = Resolve(n, TRUE)
  PROVE  /\ k \in history[n].step .. NSteps(n)
         /\ \E e \in Counts :
              /\ InEffect(db, e)
              /\ \A p \in PlanIds : e[p] \in ByRow(p)
              /\ e[n] \in k .. NSteps(n)
<1>1. n \in Recorded /\ n \in Nat
  BY Sizes DEF PlanIds
<1>2. PICK e \in Counts : InEffect(db, e) /\ \A p \in PlanIds : e[p] \in ByRow(p)
  BY DEF StepsInEffect
<1>3. Turn(n, e) /\ db \in Databases
  BY <1>2, TurnOfLast DEF TypeOK
<1> DEFINE u == history[n].step
<1>4. /\ FinalizeStart(n) \in 0 .. NSteps(n)
      /\ NSteps(n) \in Nat
      /\ u \in FinalizeStart(n) .. NSteps(n)
      /\ e[n] \in u .. NSteps(n)
  BY <1>1, <1>2, Sizes, RowStep, ByRowValue, SMTT(30)
<1>5. /\ u \notin 0 .. NSteps(n) - 1 => k = u
      /\ u \in 0 .. NSteps(n) - 1 /\ ~Repeats(n, u) /\ Holds(Step(n, u).effect, db) => k = u + 1
      /\ u \in 0 .. NSteps(n) - 1 /\ ~Repeats(n, u) /\ ~Holds(Step(n, u).effect, db) => k = u
  BY SMTT(30) DEF Resolve
<1> HIDE DEF u
<1>6. k \in u .. NSteps(n) /\ e[n] \in k .. NSteps(n)
  <2>1. CASE u = NSteps(n)
    <3>1. u \notin 0 .. NSteps(n) - 1 BY <1>4, <2>1
    <3>2. k = u BY <1>5, <3>1, Zenon
    <3>3. u \in u .. NSteps(n) BY <1>4
    <3> QED BY <1>4, <3>2, <3>3, Zenon, Zenon
  <2>2. CASE u < NSteps(n)
    <3>1. u \in 0 .. NSteps(n) - 1 /\ u >= FinalizeStart(n) /\ FinalizeStart(n) <= e[n]
      BY <1>4, <2>2
    <3>2. Step(n, u).finalize /\ ~Repeats(n, u)
      BY <3>1, ChainAssumption, SMTT(30)
    <3>3. Holds(Step(n, u).effect, db) <=> e[n] > u
      BY <1>2, <1>3, <3>1, <3>2, EffectAssumption
    <3>4. CASE e[n] > u
      <4>1. k = u + 1 BY <1>5, <3>1, <3>2, <3>3, <3>4, Zenon
      <4>2. u + 1 \in u .. NSteps(n) /\ e[n] \in u + 1 .. NSteps(n) BY <1>4, <2>2, <3>4
      <4> QED BY <4>1, <4>2, Zenon, Zenon
    <3>5. CASE ~(e[n] > u)
      <4>1. k = u BY <1>5, <3>1, <3>2, <3>3, <3>5, Zenon
      <4>2. u \in u .. NSteps(n) BY <1>4
      <4> QED BY <1>4, <4>1, <4>2, Zenon, Zenon
    <3> QED BY <3>4, <3>5, Zenon
  <2>3. u = NSteps(n) \/ u < NSteps(n) BY <1>4
  <2> QED BY <2>1, <2>2, <2>3, Zenon
<1> QED
  BY <1>2, <1>6, Zenon DEF u

-----------------------------------------------------------------------------
(* recover.                                                                *)

\* recoverPlans() continues from a step position that fits the database.
LEMMA ReadRecoverInv ==
  ASSUME Inv, ReadRecover
  PROVE  Inv'
<1> USE DEF Inv
<1>1. PICK n \in 0 .. Len(Chain) : Recorded = 1 .. n
  BY DEF RowsFit
<1>2. Position = n
  BY <1>1, PositionValue
<1>3. UNCHANGED <<db, drift, history, op, top, j>>
  BY DEF ReadRecover
<1>4. CASE pc' = "idle"
  BY <1>4, EndInv DEF ReadRecover, Finish, Goto, TypeOK, Codes
<1>5. CASE pc' # "idle"
  <2>1. /\ n > 0
        /\ history[n].state \notin Settled
        /\ cur' = n
        /\ i' = Resolve(n, TRUE)
        /\ pc' = IF history[n].state = "finalizing" THEN "fstep" ELSE "rrecord"
        /\ UNCHANGED code
    BY <1>2, <1>5, Zenon DEF ReadRecover, Finish, Goto
  <2>2. n \in PlanIds /\ n \in Recorded /\ n \in Nat
    BY <1>1, <2>1, Sizes DEF PlanIds
  <2>3. /\ history[n] \in Row
        /\ FinalizeStart(n) \in 0 .. NSteps(n)
        /\ NSteps(n) \in 0 .. MaxSteps
        /\ MaxSteps \in Nat
    BY <2>2, RowStep, Sizes
  <2>4. RowsFit' /\ SettledMatches'
    BY <1>3, RowsUnchanged
  <2>5. \A p \in PlanIds : ByRow(p)' = ByRow(p)
    BY <1>3, ByRowUnchanged
  <2>6. CASE history[n].state = "finalizing"
    <3>1. PICK e \in Counts : /\ InEffect(db, e)
                              /\ \A p \in PlanIds : e[p] \in ByRow(p)
                              /\ e[n] \in i' .. NSteps(n)
      BY <1>1, <2>1, <2>2, <2>6, ResolveFinalizing, Zenon
    <3>2. i' \in history[n].step .. NSteps(n)
      BY <1>1, <2>1, <2>2, <2>6, ResolveFinalizing, Zenon
    <3>3. pc' = "fstep"
      BY <2>1, <2>6
    <3>4. i' \in 0 .. MaxSteps
      BY <2>3, <3>2 DEF Row
    <3>5. TypeOK'
      BY <1>3, <2>1, <2>2, <3>3, <3>4, Zenon DEF TypeOK, Labels
    <3>6. CommandFits'
      BY <1>3, <2>1, <2>2, <2>6, <3>2, <3>3, Zenon DEF CommandFits, Recorded
    <3>7. ByPosition' = i' .. NSteps(n)
      BY <2>1, <3>3, Zenon DEF ByPosition
    <3>8. StepsInEffect'
      BY <1>3, <2>1, <2>5, <3>1, <3>7, Zenon DEF StepsInEffect
    <3> QED BY <2>4, <3>5, <3>6, <3>8
  <2>7. CASE history[n].state # "finalizing"
    <3>1. history[n].state \in {"applying", "rolling_back"} /\ pc' = "rrecord"
      BY <2>1, <2>3, <2>7 DEF Row, States, Settled
    <3>2. PICK e \in Counts :
            /\ InEffect(db, e)
            /\ \A p \in PlanIds : e[p] \in ByRow(p)
            /\ e[n] \in {i'} \cup {x \in {i' + 1} : i' < NSteps(n) /\ Repeats(n, i')}
      BY <1>1, <2>1, <2>2, <3>1, ResolveForward, Zenon
    <3>3. i' \in 0 .. FinalizeStart(n)
      BY <1>1, <2>1, <2>2, <3>1, ResolveForward, Zenon
    <3>4. i' \in 0 .. MaxSteps
      BY <2>3, <3>3
    <3>5. TypeOK'
      BY <1>3, <2>1, <2>2, <3>1, <3>4, Zenon DEF TypeOK, Labels
    <3>6. CommandFits'
      BY <1>1, <1>3, <2>1, <2>2, <3>1, <3>3, Zenon DEF CommandFits, Recorded
    <3>7. ByPosition' = {i'} \cup {x \in {i' + 1} : i' < NSteps(n) /\ Repeats(n, i')}
      BY <2>1, <3>1, Zenon DEF ByPosition
    <3>8. StepsInEffect'
      BY <1>3, <2>1, <2>5, <3>2, <3>7, Zenon DEF StepsInEffect
    <3> QED BY <2>4, <3>5, <3>6, <3>8
  <2> QED BY <2>6, <2>7
<1> QED
  BY <1>4, <1>5

\* Writing the row of the last plan, or of the plan after it, keeps the shape
\* of the history.  With an applying or rolling back row nothing is claimed
\* about the schema.
LEMMA RecordLast ==
  ASSUME TypeOK, RowsFit, NEW n \in PlanIds,
         Recorded = 1 .. n \/ (Recorded = 1 .. n - 1 /\ Live = Recorded),
         NEW st \in {"applying", "rolling_back"}, NEW x \in 0 .. FinalizeStart(n),
         history' = [history EXCEPT ![n] = [state |-> st, step |-> x]]
  PROVE  /\ history' \in [PlanIds -> Row \cup {None}]
         /\ history'[n].state = st
         /\ history'[n].step = x
         /\ Recorded' = 1 .. n
         /\ RowsFit'
         /\ SettledMatches'
         /\ \A p \in PlanIds \ {n} : ByRow(p)' = ByRow(p)
<1> USE Sizes
<1> DEFINE r == [state |-> st, step |-> x]
<1>1. n \in Nat /\ n > 0 /\ n <= Len(Chain)
  BY DEF PlanIds
<1>2. r \in Row /\ r # None
  BY NoneAssumption DEF Row, States
<1>3. /\ history' \in [PlanIds -> Row \cup {None}]
      /\ history'[n] = r
      /\ \A p \in PlanIds \ {n} : history'[p] = history[p]
  BY <1>2 DEF TypeOK
<1>4. PICK m \in 0 .. Len(Chain) :
        /\ Recorded = 1 .. m
        /\ \A p \in 1 .. m - 1 : p \in Live
        /\ \A p \in 1 .. m :
             history[p].step \in
               CASE history[p].state = "applied"    -> {FinalizeStart(p)}
                 [] history[p].state = "done"       -> {NSteps(p)}
                 [] history[p].state = "finalizing" -> FinalizeStart(p) .. NSteps(p)
                 [] OTHER                           -> 0 .. FinalizeStart(p)
  BY Zenon DEF RowsFit
<1>5. m = n \/ m = n - 1
  BY <1>1, <1>4, IntervalEnd
<1>6. 1 .. n = Recorded \cup {n}
  BY <1>1
<1>7. Recorded' = 1 .. n
  <2>1. Recorded' = Recorded \cup {n}
    BY <1>2, <1>3 DEF Recorded
  <2> QED BY <1>6, <2>1
<1>8. \A p \in 1 .. n - 1 : p \in Live
  BY <1>1, <1>4, <1>5
<1>9. \A p \in 1 .. n - 1 : p \in PlanIds /\ p # n /\ history'[p] = history[p]
  BY <1>1, <1>3 DEF PlanIds
<1>10. \A p \in 1 .. n - 1 : p \in Live'
  BY <1>8, <1>9 DEF Live, Recorded
<1>11. RowsFit'
  <2>1. ASSUME NEW p \in 1 .. n
        PROVE  history'[p].step \in
                 CASE history'[p].state = "applied"    -> {FinalizeStart(p)}
                   [] history'[p].state = "done"       -> {NSteps(p)}
                   [] history'[p].state = "finalizing" -> FinalizeStart(p) .. NSteps(p)
                   [] OTHER                            -> 0 .. FinalizeStart(p)
    <3>1. CASE p = n
      <4>1. history'[p].state # "applied" /\ history'[p].state # "done"
            /\ history'[p].state # "finalizing" /\ history'[p].step \in 0 .. FinalizeStart(p)
        BY <1>3, <3>1
      <4> QED BY <4>1, Zenon
    <3>2. CASE p # n
      <4>1. p \in 1 .. n - 1 /\ p \in 1 .. m
        BY <1>1, <1>5, <3>2
      <4>2. history'[p] = history[p]
        BY <1>9, <4>1
      <4> QED BY <1>4, <4>1, <4>2, Zenon
    <3> QED BY <3>1, <3>2
  <2>2. n \in 0 .. Len(Chain)
    BY <1>1
  <2> QED BY <1>7, <1>10, <2>1, <2>2, Zenon DEF RowsFit
<1>12. SettledMatches'
  <2>1. n \notin Live' /\ n \in Recorded'
    BY <1>1, <1>3, <1>7 DEF Live, Settled
  <2> QED BY <2>1 DEF SettledMatches
<1> QED
  BY <1>3, <1>7, <1>11, <1>12, ByRowUnchanged

\* A step of a command on its plan n that keeps the history's shape keeps the
\* counts of the other plans.
LEMMA CountsCarry ==
  ASSUME NEW n \in PlanIds, NEW e \in Counts, NEW k \in 0 .. MaxSteps,
         \A p \in PlanIds : e[p] \in ByRow(p),
         \A p \in PlanIds \ {n} : ByRow(p)' = ByRow(p),
         cur' = n, k \in ByRow(n)', k \in ByPosition', InEffect(db', With(e, n, k))
  PROVE  StepsInEffect'
<1>1. With(e, n, k) \in Counts
  BY WithCounts, SMTT(30)
<1>2. ASSUME NEW p \in PlanIds
      PROVE  With(e, n, k)[p] \in ByRow(p)' /\ (p = n => With(e, n, k)[p] \in ByPosition')
  <2>1. CASE p = n
    <3>1. With(e, n, k)[p] = k BY <2>1, WithCounts
    <3> QED BY <2>1, <3>1
  <2>2. CASE p # n
    <3>1. With(e, n, k)[p] = e[p] BY <2>2, SMTT(30) DEF With, Counts
    <3> QED BY <2>2, <3>1
  <2> QED BY <2>1, <2>2
<1> QED
  BY <1>1, <1>2 DEF StepsInEffect

\* While a command works on plan cur, the counts of its steps in effect.
LEMMA InHand ==
  ASSUME Inv, pc \in {"rrecord", "step", "mark", "applied", "nulls", "brecord", "back", "unmark", "delete"}
  PROVE  /\ cur \in PlanIds
         /\ cur \in Recorded
         /\ Recorded = 1 .. cur
         /\ history[cur] \in Row
         /\ i \in 0 .. FinalizeStart(cur)
         /\ FinalizeStart(cur) \in 0 .. NSteps(cur)
         /\ NSteps(cur) \in 0 .. MaxSteps
         /\ MaxSteps \in Nat
         /\ \E e \in Counts :
              /\ InEffect(db, e)
              /\ Turn(cur, e)
              /\ \A p \in PlanIds : e[p] \in ByRow(p)
              /\ e[cur] \in ByPosition
<1> USE DEF Inv
<1>1. /\ cur > 0
      /\ Recorded = 1 .. cur
      /\ i \in 0 .. FinalizeStart(cur)
  BY DEF CommandFits
<1>2. cur \in PlanIds /\ cur \in Recorded
  BY <1>1, Sizes DEF TypeOK, PlanIds
<1>3. PICK e \in Counts : /\ InEffect(db, e)
                          /\ \A p \in PlanIds : e[p] \in ByRow(p) /\ (p = cur => e[p] \in ByPosition)
  BY DEF StepsInEffect
<1>4. Turn(cur, e)
  BY <1>1, <1>2, <1>3, TurnOfLast
<1> QED
  BY <1>1, <1>2, <1>3, <1>4, RowStep, Sizes, SMTT(30)

\* Recording the resolved position as applying keeps the count of steps.
LEMMA RecoverRecordInv ==
  ASSUME Inv, RecoverRecord
  PROVE  Inv'
<1> USE DEF Inv
<1>1. /\ pc = "rrecord" /\ pc' = "step"
      /\ UNCHANGED <<db, drift, op, top, cur, i, j, code>>
      /\ history' = [history EXCEPT ![cur] = [state |-> "applying", step |-> i]]
  BY SMTT(30) DEF RecoverRecord, Record, Goto
<1>2. PICK e \in Counts : /\ InEffect(db, e)
                          /\ \A p \in PlanIds : e[p] \in ByRow(p)
                          /\ e[cur] \in ByPosition
  BY <1>1, InHand, SMTT(30)
<1>3. /\ cur \in PlanIds
      /\ Recorded = 1 .. cur
      /\ i \in 0 .. FinalizeStart(cur)
      /\ FinalizeStart(cur) \in 0 .. NSteps(cur)
      /\ NSteps(cur) \in 0 .. MaxSteps
      /\ MaxSteps \in Nat
  BY <1>1, InHand
<1>4. /\ history' \in [PlanIds -> Row \cup {None}]
      /\ history'[cur].state = "applying"
      /\ history'[cur].step = i
      /\ Recorded' = 1 .. cur
      /\ RowsFit'
      /\ SettledMatches'
      /\ \A p \in PlanIds \ {cur} : ByRow(p)' = ByRow(p)
  BY <1>1, <1>3, RecordLast, Zenon
<1>5. TypeOK'
  BY <1>1, <1>4, SMTT(30) DEF TypeOK, Labels
<1>6. CommandFits'
  BY <1>1, <1>3, <1>4 DEF CommandFits, TypeOK
<1>7. e[cur] \in ByPosition' /\ e[cur] \in {i, i + 1}
  BY <1>1, <1>2 DEF ByPosition
<1>8. e[cur] \in ByRow(cur)'
  <2>1. cur \in Recorded' BY <1>3, <1>4, Sizes DEF PlanIds
  <2>2. ByRow(cur)' = {i, i + 1} \cap 0 .. FinalizeStart(cur)
    BY <1>1, <1>4, <2>1 DEF ByRow, Recorded
  <2>3. i + 1 = e[cur] => i + 1 \in 0 .. FinalizeStart(cur)
    <3>1. SUFFICES ASSUME i + 1 = e[cur] PROVE i < FinalizeStart(cur)
      BY <1>3
    <3>2. i < NSteps(cur) /\ Repeats(cur, i)
      BY <1>1, <1>2, <1>3, <3>1 DEF ByPosition
    <3>3. i \in 0 .. NSteps(cur) - 1
      BY <1>3, <3>2, SMTT(30)
    <3> QED BY <1>3, <3>2, <3>3, ChainAssumption
  <2> QED BY <1>3, <1>7, <2>2, <2>3
<1>9. StepsInEffect'
  BY <1>1, <1>2, <1>4, <1>7, <1>8 DEF StepsInEffect
<1> QED
  BY <1>4, <1>5, <1>6, <1>9

-----------------------------------------------------------------------------
(* apply.                                                                  *)

\* applyPlans() records the next plan before it runs its first step.
LEMMA NextPlanInv ==
  ASSUME Inv, NextPlan
  PROVE  Inv'
<1> USE DEF Inv
<1>1. CASE ~(cur < top)
  BY <1>1, EndInv DEF NextPlan, Finish, TypeOK, Codes
<1>2. CASE cur < top
  <2> SUFFICES ASSUME NEW n, n = cur + 1
               PROVE  Inv'
    OBVIOUS
  <2>1. /\ pc = "next" /\ pc' = "step" /\ cur' = n /\ i' = 0
        /\ UNCHANGED <<db, drift, op, top, j, code>>
        /\ history' = [history EXCEPT ![n] = [state |-> "applying", step |-> 0]]
    BY <1>2 DEF NextPlan, Record, Goto
  <2>2. n \in PlanIds /\ n \in 0 .. Len(Chain) /\ n - 1 = cur /\ n > 0
    BY <1>2, Sizes, SMTT(30) DEF TypeOK, PlanIds
  <2>3. Recorded = 1 .. n - 1 /\ Live = Recorded
    BY <2>1, <2>2 DEF CommandFits
  <2>4. 0 \in 0 .. FinalizeStart(n) /\ MaxSteps \in Nat
    BY <2>2, Sizes
  <2>5. /\ history' \in [PlanIds -> Row \cup {None}]
        /\ history'[n].state = "applying"
        /\ history'[n].step = 0
        /\ Recorded' = 1 .. n
        /\ RowsFit'
        /\ SettledMatches'
        /\ \A p \in PlanIds \ {n} : ByRow(p)' = ByRow(p)
    BY <2>1, <2>2, <2>3, <2>4, RecordLast, Zenon
  <2>6. TypeOK'
    BY <2>1, <2>2, <2>4, <2>5, SMTT(30) DEF TypeOK, Labels
  <2>7. CommandFits'
    BY <2>1, <2>2, <2>4, <2>5 DEF CommandFits
  <2>8. PICK e \in Counts : InEffect(db, e) /\ \A p \in PlanIds : e[p] \in ByRow(p)
    BY DEF StepsInEffect
  <2>9. n \notin Recorded
    BY <2>2, <2>3
  <2>10. e[n] = 0
    BY <2>2, <2>8, <2>9, Zenon DEF ByRow, Recorded
  <2>11. 0 \in ByRow(n)' /\ 0 \in ByPosition'
    <3>1. n \in Recorded' BY <2>2, <2>5
    <3>2. ByRow(n)' = {0, 0 + 1} \cap 0 .. FinalizeStart(n)
      BY <2>5, <3>1 DEF ByRow, Recorded
    <3> QED BY <2>1, <2>4, <3>2 DEF ByPosition
  <2>12. StepsInEffect'
    BY <2>1, <2>5, <2>8, <2>10, <2>11, SMTT(30) DEF StepsInEffect
  <2> QED BY <2>5, <2>6, <2>7, <2>12
<1> QED
  BY <1>1, <1>2

\* A step that leaves the history alone while a plan is applying or rolling
\* back keeps its shape, and nothing is claimed about the schema.
LEMMA RowsInWork ==
  ASSUME RowsFit, UNCHANGED history, NEW n \in Recorded,
         history[n].state \in {"applying", "rolling_back"}
  PROVE  RowsFit' /\ SettledMatches' /\ Recorded' = Recorded
<1>1. RowsFit' /\ Recorded' = Recorded /\ Live' = Live
  BY Zenon DEF RowsFit, Recorded, Live
<1>2. n \notin Live
  BY DEF Live, Settled
<1> QED
  BY <1>1, <1>2 DEF SettledMatches

\* A step of forward() runs in its turn and takes effect.
LEMMA RunStepInv ==
  ASSUME Inv, RunStep
  PROVE  Inv'
<1> USE DEF Inv
<1>1. /\ pc = "step" /\ i < FinalizeStart(cur)
      /\ UNCHANGED <<drift, history, op, top, cur, i, j>>
      /\ Run(ForwardStatement(cur, i, db), "mark")
  BY DEF RunStep
<1>2. PICK e \in Counts : /\ InEffect(db, e)
                          /\ Turn(cur, e)
                          /\ \A p \in PlanIds : e[p] \in ByRow(p)
                          /\ e[cur] \in ByPosition
  BY <1>1, InHand, SMTT(30)
<1>3. /\ cur \in PlanIds
      /\ cur \in Recorded
      /\ Recorded = 1 .. cur
      /\ i \in 0 .. FinalizeStart(cur)
      /\ FinalizeStart(cur) \in 0 .. NSteps(cur)
      /\ NSteps(cur) \in 0 .. MaxSteps
      /\ MaxSteps \in Nat
      /\ history[cur].state = "applying"
      /\ history[cur].step = i
  BY <1>1, InHand DEF CommandFits
<1>4. i \in 0 .. FinalizeStart(cur) - 1 /\ i + 1 \in 0 .. FinalizeStart(cur) /\ i + 1 \in 0 .. MaxSteps
  BY <1>1, <1>3
<1>5. e[cur] = i \/ (Repeats(cur, i) /\ e[cur] = i + 1)
  BY <1>1, <1>2, SMTT(30) DEF ByPosition
<1>6. /\ Accepts(ForwardStatement(cur, i, db), db)
      /\ Exec(ForwardStatement(cur, i, db), db) \in Databases
      /\ InEffect(Exec(ForwardStatement(cur, i, db), db), With(e, cur, i + 1))
  BY <1>2, <1>3, <1>4, <1>5, ForwardAssumption DEF TypeOK
<1>7. /\ db' \in Databases
      /\ InEffect(db', With(e, cur, i + 1))
      /\ pc' = "mark"
      /\ UNCHANGED code
  BY <1>1, <1>6 DEF Run, Goto
<1>8. TypeOK'
  BY <1>1, <1>7 DEF TypeOK, Labels
<1>9. RowsFit' /\ SettledMatches' /\ Recorded' = Recorded
  BY <1>1, <1>3, RowsInWork, SMTT(30)
<1>10. CommandFits'
  BY <1>1, <1>3, <1>7, <1>9, Zenon DEF CommandFits
<1>11. StepsInEffect'
  <2>1. \A p \in PlanIds : ByRow(p)' = ByRow(p)
    BY <1>1, ByRowUnchanged
  <2>2. i + 1 \in ByRow(cur)
    BY <1>3, <1>4, ByRowValue
  <2>3. i + 1 \in ByPosition'
    BY <1>1, <1>7 DEF ByPosition
  <2> QED BY <1>1, <1>2, <1>3, <1>4, <1>7, <2>1, <2>2, <2>3, CountsCarry, Zenon
<1> QED
  BY <1>8, <1>9, <1>10, <1>11

\* setStep() changes the step of a row only.
LEMMA SetStep ==
  ASSUME NEW r \in Row, NEW x
  PROVE  [r EXCEPT !.step = x] = [state |-> r.state, step |-> x]
BY DEF Row

\* setStep() after a step of forward() counts the step that just ran.
LEMMA MarkInv ==
  ASSUME Inv, Mark
  PROVE  Inv'
<1> USE DEF Inv
<1>1. /\ pc = "mark" /\ pc' = "step" /\ i' = i + 1
      /\ UNCHANGED <<db, drift, op, top, cur, j, code>>
      /\ history' = [history EXCEPT ![cur].step = i + 1]
  BY DEF Mark, Goto
<1>2. PICK e \in Counts : /\ InEffect(db, e)
                          /\ \A p \in PlanIds : e[p] \in ByRow(p)
                          /\ e[cur] \in ByPosition
  BY <1>1, InHand
<1>3. /\ cur \in PlanIds
      /\ Recorded = 1 .. cur
      /\ i \in 0 .. FinalizeStart(cur)
      /\ FinalizeStart(cur) \in 0 .. NSteps(cur)
      /\ NSteps(cur) \in 0 .. MaxSteps
      /\ MaxSteps \in Nat
      /\ history[cur] \in Row
      /\ history[cur].state = "applying"
      /\ i < FinalizeStart(cur)
  BY <1>1, InHand DEF CommandFits
<1>4. i + 1 \in 0 .. FinalizeStart(cur) /\ i + 1 \in 0 .. MaxSteps
  BY <1>3
<1>5. history' = [history EXCEPT ![cur] = [state |-> "applying", step |-> i + 1]]
  <2>1. [history[cur] EXCEPT !.step = i + 1] = [state |-> "applying", step |-> i + 1]
    BY <1>3, SetStep
  <2> QED BY <1>1, <2>1, Zenon
<1>6. /\ history' \in [PlanIds -> Row \cup {None}]
      /\ history'[cur].state = "applying"
      /\ history'[cur].step = i + 1
      /\ Recorded' = 1 .. cur
      /\ RowsFit'
      /\ SettledMatches'
      /\ \A p \in PlanIds \ {cur} : ByRow(p)' = ByRow(p)
  BY <1>3, <1>4, <1>5, RecordLast, Zenon
<1>7. TypeOK'
  BY <1>1, <1>4, <1>6 DEF TypeOK, Labels
<1>8. CommandFits'
  BY <1>1, <1>3, <1>4, <1>6 DEF CommandFits, TypeOK
<1>9. StepsInEffect'
  <2>1. e[cur] = i + 1
    BY <1>1, <1>2 DEF ByPosition
  <2>2. cur \in Recorded' /\ ByRow(cur)' = {i + 1, i + 1 + 1} \cap 0 .. FinalizeStart(cur)
    BY <1>1, <1>3, <1>6, Sizes DEF ByRow, Recorded, PlanIds
  <2>3. e[cur] \in ByRow(cur)'
    BY <1>4, <2>1, <2>2
  <2>4. e[cur] \in ByPosition'
    BY <1>1, <2>1 DEF ByPosition
  <2> QED BY <1>1, <1>2, <1>6, <2>3, <2>4 DEF StepsInEffect
<1> QED
  BY <1>6, <1>7, <1>8, <1>9

\* The comparison at the end of forward().
LEMMA VerifyInv ==
  ASSUME Inv, Verify
  PROVE  Inv'
<1> USE DEF Inv
<1>1. CASE ~Verified(Chain[cur].to)
  BY <1>1, EndInv DEF Verify, Finish, TypeOK, Codes
<1>2. CASE Verified(Chain[cur].to)
  <2>1. /\ pc = "step" /\ pc' = "applied" /\ i >= FinalizeStart(cur)
        /\ UNCHANGED <<db, drift, history, op, top, cur, i, j, code>>
    BY <1>2 DEF Verify, Goto
  <2>2. PICK e \in Counts : /\ InEffect(db, e)
                            /\ \A p \in PlanIds : e[p] \in ByRow(p)
                            /\ e[cur] \in ByPosition
    BY <2>1, InHand
  <2>3. /\ cur \in PlanIds /\ cur \in Recorded
        /\ i \in 0 .. FinalizeStart(cur)
        /\ FinalizeStart(cur) \in 0 .. NSteps(cur)
        /\ NSteps(cur) \in 0 .. MaxSteps
        /\ MaxSteps \in Nat
    BY <2>1, InHand
  <2>4. i = FinalizeStart(cur)
    BY <2>1, <2>3
  <2>5. e[cur] = FinalizeStart(cur)
    <3>1. i < NSteps(cur) => ~Repeats(cur, i)
      BY <2>3, <2>4, ChainAssumption
    <3> QED BY <2>1, <2>2, <2>4, <3>1 DEF ByPosition
  <2>6. StepsInEffect'
    <3>1. \A p \in PlanIds : ByRow(p)' = ByRow(p)
      BY <2>1, ByRowUnchanged
    <3>2. e[cur] \in ByPosition'
      BY <2>1, <2>5 DEF ByPosition
    <3> QED BY <2>1, <2>2, <3>1, <3>2 DEF StepsInEffect
  <2>7. TypeOK'
    BY <2>1, SMTT(30) DEF TypeOK, Labels
  <2>8. CommandFits'
    BY <1>2, <2>1, SMTT(30) DEF CommandFits, Recorded, Verified
  <2> QED BY <2>1, <2>6, <2>7, <2>8, RowsUnchanged
<1> QED
  BY <1>1, <1>2

\* Writing an applied, finalizing or done row keeps the shape of the history.
LEMMA RecordLive ==
  ASSUME TypeOK, RowsFit, NEW n \in Recorded,
         NEW st \in {"applied", "finalizing", "done"}, NEW x \in 0 .. MaxSteps,
         st = "applied" => x = FinalizeStart(n),
         st = "done" => x = NSteps(n),
         st = "finalizing" => x \in FinalizeStart(n) .. NSteps(n),
         history' = [history EXCEPT ![n] = [state |-> st, step |-> x]]
  PROVE  /\ history' \in [PlanIds -> Row \cup {None}]
         /\ history'[n].state = st
         /\ history'[n].step = x
         /\ Recorded' = Recorded
         /\ Live' = Live \cup {n}
         /\ RowsFit'
         /\ \A p \in PlanIds \ {n} : ByRow(p)' = ByRow(p)
<1> DEFINE r == [state |-> st, step |-> x]
<1>1. n \in PlanIds
  BY DEF Recorded
<1>2. r \in Row /\ r # None
  BY NoneAssumption DEF Row, States, Settled
<1>3. /\ history' \in [PlanIds -> Row \cup {None}]
      /\ history'[n] = r
      /\ \A p \in PlanIds \ {n} : history'[p] = history[p]
  BY <1>1, <1>2 DEF TypeOK
<1>4. Recorded' = Recorded
  BY <1>2, <1>3 DEF Recorded
<1>5. Live' = Live \cup {n}
  <2>1. n \in Live'
    BY <1>3, <1>4 DEF Live, Settled
  <2>2. \A p \in Recorded \ {n} : p \in Live' <=> p \in Live
    BY <1>3, <1>4 DEF Live, Recorded
  <2> QED BY <1>4, <2>1, <2>2 DEF Live
<1>6. PICK m \in 0 .. Len(Chain) :
        /\ Recorded = 1 .. m
        /\ \A p \in 1 .. m - 1 : p \in Live
        /\ \A p \in 1 .. m :
             history[p].step \in
               CASE history[p].state = "applied"    -> {FinalizeStart(p)}
                 [] history[p].state = "done"       -> {NSteps(p)}
                 [] history[p].state = "finalizing" -> FinalizeStart(p) .. NSteps(p)
                 [] OTHER                           -> 0 .. FinalizeStart(p)
  BY Zenon DEF RowsFit
<1>7. ASSUME NEW p \in 1 .. m
      PROVE  history'[p].step \in
               CASE history'[p].state = "applied"    -> {FinalizeStart(p)}
                 [] history'[p].state = "done"       -> {NSteps(p)}
                 [] history'[p].state = "finalizing" -> FinalizeStart(p) .. NSteps(p)
                 [] OTHER                            -> 0 .. FinalizeStart(p)
  <2>1. CASE p = n
    <3>1. history'[p].state = st /\ history'[p].step = x
      BY <1>3, <2>1
    <3>2. CASE st = "applied" BY <2>1, <3>1, <3>2
    <3>3. CASE st = "done" BY <2>1, <3>1, <3>3
    <3>4. CASE st = "finalizing" BY <2>1, <3>1, <3>4
    <3> QED BY <3>2, <3>3, <3>4
  <2>2. CASE p # n
    <3>1. history'[p] = history[p]
      BY <1>3, <1>6, <2>2 DEF Recorded
    <3> QED BY <1>6, <3>1, Zenon
  <2> QED BY <2>1, <2>2
<1>8. RowsFit'
  BY <1>4, <1>5, <1>6, <1>7, Zenon DEF RowsFit
<1> QED
  BY <1>3, <1>4, <1>5, <1>8, ByRowUnchanged

\* A row becomes applied with the steps before the finalize steps in effect.
LEMMA AppliedInv ==
  ASSUME Inv, Applied
  PROVE  Inv'
<1> USE DEF Inv
<1>1. /\ pc = "applied" /\ pc' \in {"next", "idle"} /\ code' \in Codes
      /\ UNCHANGED <<db, drift, op, top, cur, i, j>>
      /\ history' = [history EXCEPT ![cur] = [state |-> "applied", step |-> FinalizeStart(cur)]]
  BY SMTT(30) DEF Applied, Record, Goto, Finish, Codes, TypeOK
<1>2. PICK e \in Counts : /\ InEffect(db, e)
                          /\ \A p \in PlanIds : e[p] \in ByRow(p)
                          /\ e[cur] \in ByPosition
  BY <1>1, InHand, SMTT(30)
<1>3. /\ cur \in PlanIds /\ cur \in Recorded /\ Recorded = 1 .. cur
      /\ FinalizeStart(cur) \in 0 .. NSteps(cur)
      /\ NSteps(cur) \in 0 .. MaxSteps
      /\ MaxSteps \in Nat
      /\ SchemaHash(db) = Chain[cur].to
  BY <1>1, InHand, Zenon DEF CommandFits
<1>4. FinalizeStart(cur) \in 0 .. MaxSteps
  BY <1>3, SMTT(30)
<1>5. /\ history' \in [PlanIds -> Row \cup {None}]
      /\ history'[cur].state = "applied"
      /\ Recorded' = Recorded
      /\ Live' = Live \cup {cur}
      /\ RowsFit'
      /\ \A p \in PlanIds \ {cur} : ByRow(p)' = ByRow(p)
  BY <1>1, <1>3, <1>4, RecordLive, Zenon
<1>6. Live' = Recorded'
  <2>1. PICK m \in 0 .. Len(Chain) : Recorded = 1 .. m /\ \A p \in 1 .. m - 1 : p \in Live
    BY DEF RowsFit
  <2>2. m = cur /\ cur \in Nat
    BY <1>3, <2>1, IntervalEnd, Sizes DEF PlanIds
  <2>3. \A p \in 1 .. cur : p = cur \/ p \in 1 .. cur - 1
    BY <2>2, SMTT(30)
  <2> QED BY <1>3, <1>5, <2>1, <2>2, <2>3, SMTT(30) DEF Live
<1>7. SettledMatches'
  <2>1. \A n \in 0 .. Len(Chain) : Recorded' = 1 .. n => n = cur
    BY <1>3, <1>5, IntervalEnd, Sizes DEF PlanIds
  <2>2. HashAfter(cur) = Chain[cur].to
    BY <1>3, Sizes, SMTT(30) DEF HashAfter, PlanIds
  <2> QED BY <1>1, <1>3, <2>1, <2>2 DEF SettledMatches
<1>8. TypeOK'
  BY <1>1, <1>5, SMTT(30) DEF TypeOK, Labels
<1>9. CommandFits'
  BY <1>1, <1>3, <1>5, <1>6, SMTT(30) DEF CommandFits
<1>10. StepsInEffect'
  <2>1. e[cur] = FinalizeStart(cur)
    BY <1>1, <1>2 DEF ByPosition
  <2>2. cur \in Recorded' /\ ByRow(cur)' = {FinalizeStart(cur)}
    BY <1>1, <1>3, <1>5 DEF ByRow, Recorded
  <2>3. \A p \in PlanIds : e[p] \in ByPosition'
    BY <1>1 DEF ByPosition, Counts
  <2> QED BY <1>1, <1>2, <1>5, <2>1, <2>2, <2>3 DEF StepsInEffect
<1> QED
  BY <1>5, <1>7, <1>8, <1>9, <1>10

-----------------------------------------------------------------------------
(* finalize.                                                               *)

\* A step that keeps the plans in effect and the schema keeps the match.
LEMMA LiveMatches ==
  ASSUME SettledMatches, Recorded' = Recorded, Live' = Live, SchemaHash(db') = SchemaHash(db)
  PROVE  SettledMatches'
BY DEF SettledMatches

\* finalizePlans() goes on to the next applied plan.
LEMMA FinalizeNextInv ==
  ASSUME Inv, FinalizeNext
  PROVE  Inv'
<1> USE DEF Inv
<1>1. CASE pc' = "idle"
  BY <1>1, EndInv DEF FinalizeNext, Finish, Goto, TypeOK, Codes
<1>2. CASE pc' # "idle"
  <2>1. PICK n \in PlanIds :
          /\ history[n] # None
          /\ history[n].state = "applied"
          /\ cur' = n
          /\ i' = FinalizeStart(n)
          /\ history' = [history EXCEPT ![n] = [state |-> "finalizing", step |-> FinalizeStart(n)]]
          /\ pc' = "fstep"
          /\ UNCHANGED <<db, drift, op, top, j, code>>
    BY <1>2, SMTT(30) DEF FinalizeNext, Finish, Goto, Record
  <2>2. /\ n \in Recorded /\ n \in Live
        /\ n \in 0 .. Len(Chain)
        /\ FinalizeStart(n) \in 0 .. NSteps(n)
        /\ NSteps(n) \in 0 .. MaxSteps
        /\ MaxSteps \in Nat
    BY <2>1, Sizes DEF Recorded, Live, Settled, PlanIds
  <2>3. FinalizeStart(n) \in 0 .. MaxSteps /\ FinalizeStart(n) \in FinalizeStart(n) .. NSteps(n)
    BY <2>2, SMTT(30)
  <2>4. /\ history' \in [PlanIds -> Row \cup {None}]
        /\ history'[n].state = "finalizing"
        /\ history'[n].step = FinalizeStart(n)
        /\ Recorded' = Recorded
        /\ Live' = Live \cup {n}
        /\ RowsFit'
        /\ \A p \in PlanIds \ {n} : ByRow(p)' = ByRow(p)
    BY <2>1, <2>2, <2>3, RecordLive, Zenon
  <2>5. SettledMatches'
    BY <2>1, <2>2, <2>4, LiveMatches, SMTT(30)
  <2>6. TypeOK'
    BY <2>1, <2>2, <2>3, <2>4, SMTT(30) DEF TypeOK, Labels
  <2>7. CommandFits'
    BY <2>1, <2>2, <2>3, <2>4, SMTT(30) DEF CommandFits
  <2>8. StepsInEffect'
    <3>1. PICK e \in Counts : InEffect(db, e) /\ \A p \in PlanIds : e[p] \in ByRow(p)
      BY DEF StepsInEffect
    <3>2. e[n] = FinalizeStart(n)
      BY <2>1, <2>2, <3>1, ByRowValue, Zenon
    <3>3. ByRow(n)' = FinalizeStart(n) .. NSteps(n)
      BY <2>2, <2>4 DEF ByRow, Recorded
    <3>4. ByPosition' = FinalizeStart(n) .. NSteps(n)
      BY <2>1, SMTT(30) DEF ByPosition
    <3> QED BY <2>1, <2>3, <2>4, <3>1, <3>2, <3>3, <3>4, Zenon DEF StepsInEffect
  <2> QED BY <2>4, <2>5, <2>6, <2>7, <2>8, SMTT(30)
<1> QED
  BY <1>1, <1>2, SMTT(30)

\* While a command finalizes plan cur.
LEMMA InFinalize ==
  ASSUME Inv, pc \in {"fstep", "fmark"}
  PROVE  /\ cur \in PlanIds
         /\ cur \in Recorded
         /\ cur \in Live
         /\ history[cur] \in Row
         /\ history[cur].state = "finalizing"
         /\ history[cur].step \in FinalizeStart(cur) .. NSteps(cur)
         /\ i \in history[cur].step .. NSteps(cur)
         /\ FinalizeStart(cur) \in 0 .. NSteps(cur)
         /\ NSteps(cur) \in 0 .. MaxSteps
         /\ MaxSteps \in Nat
         /\ ByRow(cur) = history[cur].step .. NSteps(cur)
         /\ \E e \in Counts :
              /\ InEffect(db, e)
              /\ \A p \in PlanIds : e[p] \in ByRow(p)
              /\ e[cur] \in ByPosition
<1> USE DEF Inv
<1>1. /\ cur \in Recorded
      /\ history[cur].state = "finalizing"
      /\ i \in history[cur].step .. NSteps(cur)
  BY DEF CommandFits
<1>2. cur \in PlanIds /\ cur \in Live
  BY <1>1 DEF Recorded, Live
<1>3. PICK e \in Counts : /\ InEffect(db, e)
                          /\ \A p \in PlanIds : e[p] \in ByRow(p) /\ (p = cur => e[p] \in ByPosition)
  BY SMTT(30) DEF StepsInEffect
<1>4. ByRow(cur) = history[cur].step .. NSteps(cur)
  BY <1>1, ByRowValue
<1> QED
  BY <1>1, <1>2, <1>3, <1>4, RowStep, Sizes, Zenon

\* A finalize step that the server accepts takes effect, and keeps the schema.
LEMMA FinalizeStepInv ==
  ASSUME Inv, FinalizeStep
  PROVE  Inv'
<1> USE DEF Inv
<1> DEFINE s == Step(cur, i).statement
<1>1. /\ pc = "fstep" /\ i < NSteps(cur)
      /\ UNCHANGED <<drift, history, op, top, cur, i, j>>
      /\ Run(s, "fmark")
  BY SMTT(30) DEF FinalizeStep
<1>2. CASE ~Accepts(s, db)
  BY <1>1, <1>2, EndInv DEF Run, Finish, TypeOK, Codes
<1>3. CASE Accepts(s, db)
  <2>1. pc' = "fmark" /\ db' = Exec(s, db) /\ UNCHANGED code
    BY <1>1, <1>3, SMTT(30) DEF Run, Goto
  <2>2. PICK e \in Counts : /\ InEffect(db, e)
                            /\ \A p \in PlanIds : e[p] \in ByRow(p)
                            /\ e[cur] \in ByPosition
    BY <1>1, InFinalize, ZenonT(30)
  <2>3. /\ cur \in PlanIds /\ cur \in Recorded
        /\ history[cur] \in Row
        /\ history[cur].state = "finalizing"
        /\ history[cur].step \in FinalizeStart(cur) .. NSteps(cur)
        /\ i \in history[cur].step .. NSteps(cur)
        /\ FinalizeStart(cur) \in 0 .. NSteps(cur)
        /\ NSteps(cur) \in 0 .. MaxSteps
        /\ MaxSteps \in Nat
        /\ ByRow(cur) = history[cur].step .. NSteps(cur)
    BY <1>1, InFinalize
  <2>4. e[cur] \in i .. NSteps(cur)
    BY <1>1, <2>2, SMTT(30) DEF ByPosition
  <2>5. /\ i \in FinalizeStart(cur) .. NSteps(cur) - 1
        /\ e[cur] >= i
        /\ i + 1 \in 0 .. MaxSteps
        /\ i + 1 \in history[cur].step .. NSteps(cur)
        /\ i + 1 \in i + 1 .. NSteps(cur)
    <3>1. i < NSteps(cur)
      BY <1>1
    <3> HIDE DEF Inv
    <3> QED BY <2>3, <2>4, <3>1, SMTT(30)
  <2>6. /\ Exec(s, db) \in Databases
        /\ InEffect(Exec(s, db), With(e, cur, i + 1))
        /\ SchemaHash(Exec(s, db)) = SchemaHash(db)
    BY <1>3, <2>2, <2>3, <2>5, FinalizeAssumption, SMTT(30) DEF TypeOK
  <2> HIDE DEF s
  <2>7. TypeOK'
    BY <1>1, <2>1, <2>6 DEF TypeOK, Labels
  <2>8. RowsFit' /\ Recorded' = Recorded /\ Live' = Live
    BY <1>1, Zenon DEF RowsFit, Recorded, Live
  <2>9. SettledMatches'
    BY <2>1, <2>6, <2>8, LiveMatches, SMTT(30)
  <2>10. CommandFits'
    BY <1>1, <2>1, <2>3, <2>8 DEF CommandFits
  <2>11. StepsInEffect'
    <3>1. \A p \in PlanIds : ByRow(p)' = ByRow(p)
      BY <1>1, ByRowUnchanged, SMTT(30)
    <3>2. i + 1 \in ByRow(cur)
      BY <2>3, <2>5
    <3>3. i + 1 \in ByPosition'
      BY <1>1, <2>1, <2>5 DEF ByPosition
    <3> QED BY <1>1, <2>1, <2>2, <2>3, <2>5, <2>6, <3>1, <3>2, <3>3, CountsCarry, Zenon
  <2> QED BY <2>7, <2>8, <2>9, <2>10, <2>11
<1> QED
  BY <1>2, <1>3

\* setStep() after a finalize step counts it.
LEMMA FinalizeMarkInv ==
  ASSUME Inv, FinalizeMark
  PROVE  Inv'
<1> USE DEF Inv
<1>1. /\ pc = "fmark" /\ pc' = "fstep" /\ i' = i + 1
      /\ UNCHANGED <<db, drift, op, top, cur, j, code>>
      /\ history' = [history EXCEPT ![cur].step = i + 1]
  BY DEF FinalizeMark, Goto
<1>2. PICK e \in Counts : /\ InEffect(db, e)
                          /\ \A p \in PlanIds : e[p] \in ByRow(p)
                          /\ e[cur] \in ByPosition
  BY <1>1, InFinalize
<1>3. /\ cur \in PlanIds /\ cur \in Recorded /\ cur \in Live
      /\ history[cur] \in Row
      /\ history[cur].state = "finalizing"
      /\ history[cur].step \in FinalizeStart(cur) .. NSteps(cur)
      /\ i \in history[cur].step .. NSteps(cur)
      /\ FinalizeStart(cur) \in 0 .. NSteps(cur)
      /\ NSteps(cur) \in 0 .. MaxSteps
      /\ MaxSteps \in Nat
      /\ i < NSteps(cur)
  BY <1>1, InFinalize, SMTT(30) DEF CommandFits
<1>4. i + 1 \in 0 .. MaxSteps /\ i + 1 \in FinalizeStart(cur) .. NSteps(cur)
  BY <1>3
<1>5. history' = [history EXCEPT ![cur] = [state |-> "finalizing", step |-> i + 1]]
  <2>1. [history[cur] EXCEPT !.step = i + 1] = [state |-> "finalizing", step |-> i + 1]
    BY <1>3, SetStep
  <2> QED BY <1>1, <2>1, Zenon
<1>6. /\ history' \in [PlanIds -> Row \cup {None}]
      /\ history'[cur].state = "finalizing"
      /\ history'[cur].step = i + 1
      /\ Recorded' = Recorded
      /\ Live' = Live \cup {cur}
      /\ RowsFit'
      /\ \A p \in PlanIds \ {cur} : ByRow(p)' = ByRow(p)
  BY <1>3, <1>4, <1>5, RecordLive, Zenon
<1>7. SettledMatches'
  BY <1>1, <1>3, <1>6, LiveMatches
<1>8. TypeOK'
  BY <1>1, <1>4, <1>6 DEF TypeOK, Labels
<1>9. CommandFits'
  <2>1. i + 1 \in i + 1 .. NSteps(cur) BY <1>4
  <2> QED BY <1>1, <1>3, <1>6, <2>1 DEF CommandFits
<1>10. StepsInEffect'
  <2>1. e[cur] \in i + 1 .. NSteps(cur)
    BY <1>1, <1>2 DEF ByPosition
  <2>2. ByRow(cur)' = i + 1 .. NSteps(cur)
    BY <1>1, <1>3, <1>6 DEF ByRow, Recorded
  <2>3. ByPosition' = i + 1 .. NSteps(cur)
    BY <1>1 DEF ByPosition
  <2> QED BY <1>1, <1>2, <1>6, <2>1, <2>2, <2>3, Zenon DEF StepsInEffect
<1> QED
  BY <1>6, <1>7, <1>8, <1>9, <1>10

\* A row becomes done behind the last finalize step.
LEMMA DoneInv ==
  ASSUME Inv, Done
  PROVE  Inv'
<1> USE DEF Inv
<1>1. /\ pc = "fstep" /\ pc' \in {"fnext", "idle"} /\ code' \in Codes
      /\ i >= NSteps(cur)
      /\ UNCHANGED <<db, drift, op, top, cur, i, j>>
      /\ history' = [history EXCEPT ![cur] = [state |-> "done", step |-> NSteps(cur)]]
  BY DEF Done, Record, Goto, Finish, Codes, TypeOK
<1>2. PICK e \in Counts : /\ InEffect(db, e)
                          /\ \A p \in PlanIds : e[p] \in ByRow(p)
                          /\ e[cur] \in ByPosition
  BY <1>1, InFinalize, SMTT(30)
<1>3. /\ cur \in PlanIds /\ cur \in Recorded /\ cur \in Live
      /\ history[cur] \in Row
      /\ i \in history[cur].step .. NSteps(cur)
      /\ NSteps(cur) \in 0 .. MaxSteps
      /\ MaxSteps \in Nat
  BY <1>1, InFinalize, SMTT(30)
<1>4. /\ history' \in [PlanIds -> Row \cup {None}]
      /\ history'[cur].state = "done"
      /\ Recorded' = Recorded
      /\ Live' = Live \cup {cur}
      /\ RowsFit'
      /\ \A p \in PlanIds \ {cur} : ByRow(p)' = ByRow(p)
  BY <1>1, <1>3, RecordLive, Zenon
<1>5. SettledMatches'
  BY <1>1, <1>3, <1>4, LiveMatches, SMTT(30)
<1>6. TypeOK'
  BY <1>1, <1>4, SMTT(30) DEF TypeOK, Labels
<1>7. CommandFits'
  BY <1>1, SMTT(30) DEF CommandFits
<1>8. StepsInEffect'
  <2>1. e[cur] \in i .. NSteps(cur)
    BY <1>1, <1>2, SMTT(30) DEF ByPosition
  <2>2. e[cur] = NSteps(cur)
    <3>1. NSteps(cur) \in Int /\ history[cur].step \in Int /\ i \in Int
      BY <1>3, SMTT(30) DEF Row
    <3> QED BY <1>1, <2>1, <3>1, SMTT(30)
  <2>3. ByRow(cur)' = {NSteps(cur)}
    BY <1>1, <1>3, <1>4 DEF ByRow, Recorded
  <2>4. \A p \in PlanIds : e[p] \in ByPosition'
    BY <1>1 DEF ByPosition, Counts
  <2> QED BY <1>1, <1>2, <1>4, <2>2, <2>3, <2>4 DEF StepsInEffect
<1> QED
  BY <1>4, <1>5, <1>6, <1>7, <1>8

-----------------------------------------------------------------------------
(* rollback.                                                               *)

\* The comparison at the end of rollbackPlans().
LEMMA BackVerifyInv ==
  ASSUME Inv, BackVerify
  PROVE  Inv'
<1> USE DEF Inv
<1>1. CASE ~Verified(Chain[cur].from)
  BY <1>1, EndInv DEF BackVerify, Finish, TypeOK, Codes
<1>2. CASE Verified(Chain[cur].from)
  <2>1. /\ pc = "back" /\ pc' = "delete" /\ i = 0
        /\ UNCHANGED <<db, drift, history, op, top, cur, i, j, code>>
    BY <1>2 DEF BackVerify, Goto
  <2>2. PICK e \in Counts : /\ InEffect(db, e)
                            /\ \A p \in PlanIds : e[p] \in ByRow(p)
                            /\ e[cur] \in ByPosition
    BY <2>1, InHand
  <2>3. e[cur] = 0
    BY <2>1, <2>2 DEF ByPosition
  <2>4. StepsInEffect'
    <3>1. \A p \in PlanIds : ByRow(p)' = ByRow(p)
      BY <2>1, ByRowUnchanged
    <3>2. e[cur] \in ByPosition'
      BY <2>1, <2>3 DEF ByPosition
    <3> QED BY <2>1, <2>2, <3>1, <3>2 DEF StepsInEffect
  <2>5. TypeOK'
    BY <2>1, SMTT(30) DEF TypeOK, Labels
  <2>6. CommandFits'
    BY <1>2, <2>1 DEF CommandFits, Recorded, Verified
  <2> QED BY <2>1, <2>4, <2>5, <2>6, RowsUnchanged
<1> QED
  BY <1>1, <1>2

\* setStep() after a rollback statement discounts its step.
LEMMA UnmarkInv ==
  ASSUME Inv, Unmark
  PROVE  Inv'
<1> USE DEF Inv
<1>1. /\ pc = "unmark" /\ pc' = "back" /\ i' = i - 1
      /\ UNCHANGED <<db, drift, op, top, cur, j, code>>
      /\ history' = [history EXCEPT ![cur].step = i - 1]
  BY DEF Unmark, Goto
<1>2. PICK e \in Counts : /\ InEffect(db, e)
                          /\ \A p \in PlanIds : e[p] \in ByRow(p)
                          /\ e[cur] \in ByPosition
  BY <1>1, InHand
<1>3. /\ cur \in PlanIds
      /\ Recorded = 1 .. cur
      /\ i \in 0 .. FinalizeStart(cur)
      /\ FinalizeStart(cur) \in 0 .. NSteps(cur)
      /\ NSteps(cur) \in 0 .. MaxSteps
      /\ MaxSteps \in Nat
      /\ history[cur] \in Row
      /\ history[cur].state = "rolling_back"
      /\ i > 0
  BY <1>1, InHand, SMTT(30) DEF CommandFits
<1>4. i - 1 \in 0 .. FinalizeStart(cur) /\ i - 1 \in 0 .. MaxSteps
  BY <1>3
<1>5. history' = [history EXCEPT ![cur] = [state |-> "rolling_back", step |-> i - 1]]
  <2>1. [history[cur] EXCEPT !.step = i - 1] = [state |-> "rolling_back", step |-> i - 1]
    BY <1>3, SetStep
  <2> QED BY <1>1, <2>1, Zenon
<1>6. /\ history' \in [PlanIds -> Row \cup {None}]
      /\ history'[cur].state = "rolling_back"
      /\ history'[cur].step = i - 1
      /\ Recorded' = 1 .. cur
      /\ RowsFit'
      /\ SettledMatches'
      /\ \A p \in PlanIds \ {cur} : ByRow(p)' = ByRow(p)
  BY <1>3, <1>4, <1>5, RecordLast, Zenon
<1>7. TypeOK'
  BY <1>1, <1>4, <1>6 DEF TypeOK, Labels
<1>8. CommandFits'
  BY <1>1, <1>3, <1>4, <1>6, SMTT(30) DEF CommandFits, TypeOK
<1>9. StepsInEffect'
  <2>1. e[cur] = i - 1
    BY <1>1, <1>2 DEF ByPosition
  <2>2. cur \in Recorded' /\ ByRow(cur)' = {i - 1 - 1, i - 1} \cap 0 .. FinalizeStart(cur)
    BY <1>1, <1>3, <1>6, Sizes DEF ByRow, Recorded, PlanIds
  <2>3. e[cur] \in ByRow(cur)'
    BY <1>4, <2>1, <2>2
  <2>4. e[cur] \in ByPosition'
    BY <1>1, <2>1 DEF ByPosition
  <2> QED BY <1>1, <1>2, <1>6, <2>3, <2>4 DEF StepsInEffect
<1> QED
  BY <1>6, <1>7, <1>8, <1>9


\* A rollback starts at the recorded step of a settled row, or at the resolved
\* one; a plan that ran a finalize step is refused as irreversible.
LEMMA ReadRollbackInv ==
  ASSUME Inv, ReadRollback
  PROVE  Inv'
<1> USE DEF Inv
<1>1. PICK n \in 0 .. Len(Chain) : Recorded = 1 .. n
  BY DEF RowsFit
<1>2. Position = n
  BY <1>1, PositionValue
<1>3. UNCHANGED <<db, drift, history, op, top>> /\ j' = 0 /\ j' \in Nat
  BY SMTT(30) DEF ReadRollback
<1>4. CASE pc' = "idle" /\ UNCHANGED <<cur, i>>
  <2>1. code' \in Codes
    BY <1>4, Zenon DEF ReadRollback, Finish, Goto, TypeOK, Codes
  <2> QED BY <1>3, <1>4, <2>1, EndInv, SMTT(30) DEF TypeOK
<1>5. CASE ~(pc' = "idle" /\ UNCHANGED <<cur, i>>)
  <2>0. SUFFICES ASSUME NEW k, k = IF history[n].state \in Settled THEN history[n].step
                                 ELSE Resolve(n, FALSE)
                 PROVE  Inv'
    BY Zenon
  <2>1. /\ n > 0
        /\ cur' = n
        /\ i' = k
        /\ IF k > 0 /\ Step(n, k - 1).rollback = None
           THEN Finish("irreversible")
           ELSE Goto(IF history[n].state \in Settled THEN "nulls" ELSE "brecord")
    BY <1>2, <1>5, <2>0, Zenon DEF ReadRollback, Finish
  <2>2. n \in PlanIds /\ n \in Recorded /\ n \in Nat
    BY <1>1, <2>1, Sizes DEF PlanIds
  <2>3. /\ history[n] \in Row
        /\ FinalizeStart(n) \in 0 .. NSteps(n)
        /\ NSteps(n) \in 0 .. MaxSteps
        /\ MaxSteps \in Nat
    BY <2>2, RowStep, Sizes
  <2>4. RowsFit' /\ SettledMatches'
    BY <1>3, RowsUnchanged
  <2>5. \A p \in PlanIds : ByRow(p)' = ByRow(p)
    BY <1>3, ByRowUnchanged
  <2>6. k \in 0 .. NSteps(n)
    <3>1. CASE history[n].state \in Settled
      BY <2>0, <2>2, <2>3, <3>1, RowStep, SMTT(30) DEF Settled
    <3>2. CASE history[n].state \notin Settled
      <4>1. k = Resolve(n, FALSE)
        BY <2>0, <3>2
      <4> QED BY <1>1, <2>2, <3>2, <4>1, ResolveBackward, Zenon
    <3> QED BY <3>1, <3>2, SMTT(30)
  <2>7. k \in 0 .. MaxSteps
    BY <2>3, <2>6, SMTT(30)
  <2>8. CASE k > 0 /\ Step(n, k - 1).rollback = None
    BY <1>3, <2>1, <2>2, <2>7, <2>8, EndInv DEF Finish, TypeOK, Codes, PlanIds
  <2>9. CASE ~(k > 0 /\ Step(n, k - 1).rollback = None)
    <3>1. k \in 0 .. FinalizeStart(n)
      <4>1. SUFFICES ASSUME k > FinalizeStart(n)
                     PROVE  FALSE
        BY <2>3, <2>6
      <4>2. k > 0 /\ k - 1 \in 0 .. NSteps(n) - 1 /\ k - 1 >= FinalizeStart(n)
        BY <2>3, <2>6, <4>1, SMTT(30)
      <4>3. Step(n, k - 1).rollback = None
        BY <2>2, <4>2, ChainAssumption
      <4> QED BY <2>9, <4>2, <4>3
    <3>2. pc' = (IF history[n].state \in Settled THEN "nulls" ELSE "brecord") /\ UNCHANGED code
      BY <2>1, <2>9, SMTT(30) DEF Goto
    <3>3. TypeOK'
      BY <1>3, <2>1, <2>2, <2>7, <3>2, SMTT(30) DEF TypeOK, Labels, PlanIds
    <3>4. CommandFits'
      BY <1>1, <1>3, <2>1, <2>2, <3>1, <3>2, Zenon DEF CommandFits, Recorded
    <3>5. CASE history[n].state \in Settled
      <4>1. PICK e \in Counts : InEffect(db, e) /\ \A p \in PlanIds : e[p] \in ByRow(p)
        BY DEF StepsInEffect
      <4>2. e[n] = k
        <5>1. CASE history[n].state = "applied"
          BY <2>0, <2>2, <4>1, <5>1, RowStep, ByRowValue, ZenonT(30) DEF Settled
        <5>2. CASE history[n].state = "done"
          BY <2>0, <2>2, <4>1, <5>2, RowStep, ByRowValue DEF Settled
        <5> QED BY <3>5, <5>1, <5>2, SMTT(30) DEF Settled
      <4>3. ByPosition' = {i'}
        BY <3>2, <3>5, SMTT(30) DEF ByPosition
      <4>4. StepsInEffect'
        BY <1>3, <2>1, <2>5, <4>1, <4>2, <4>3, SMTT(30) DEF StepsInEffect
      <4> QED BY <2>4, <3>3, <3>4, <4>4
    <3>6. CASE history[n].state \notin Settled
      <4>1. PICK e \in Counts :
              /\ InEffect(db, e)
              /\ \A p \in PlanIds : e[p] \in ByRow(p)
              /\ e[n] \in {k} \cup {x \in {k - 1} : k > 0 /\ Repeats(n, k - 1)}
        <5>1. k = Resolve(n, FALSE)
          BY <2>0, <3>6
        <5>2. k <= FinalizeStart(n)
          BY <2>3, <3>1
        <5> QED BY <1>1, <2>2, <3>6, <5>1, <5>2, ResolveBackward, Zenon
      <4>2. ByPosition' = {i'} \cup {x \in {i' - 1} : i' > 0 /\ Repeats(cur', i' - 1)}
        BY <3>2, <3>6, SMTT(30) DEF ByPosition
      <4>3. StepsInEffect'
        BY <1>3, <2>1, <2>5, <4>1, <4>2 DEF StepsInEffect
      <4> QED BY <2>4, <3>3, <3>4, <4>3
    <3> QED BY <3>5, <3>6
  <2> QED BY <2>8, <2>9
<1> QED
  BY <1>4, <1>5, SMTT(30)

\* A null check changes rows, and no schema.
LEMMA NullCheckInv ==
  ASSUME Inv, NullCheck
  PROVE  Inv'
<1> USE DEF Inv
<1>1. /\ pc = "nulls" /\ MoreChecks
      /\ UNCHANGED <<drift, history, op, top, cur, i>>
  BY DEF NullCheck
<1>2. PICK e \in Counts : /\ InEffect(db, e)
                          /\ \A p \in PlanIds : e[p] \in ByRow(p)
                          /\ e[cur] \in ByPosition
  BY <1>1, InHand, SMTT(30)
<1>3. cur \in PlanIds /\ Len(NullChecks(cur)) \in Nat /\ j \in Nat
  BY <1>1, InHand, ChainAssumption, SMTT(30) DEF TypeOK
<1>4. j + 1 \in 1 .. Len(NullChecks(cur))
  <2>1. j < Len(NullChecks(cur))
    BY <1>1, Zenon DEF MoreChecks
  <2> QED BY <1>3, <2>1, SMTT(30)
<1>5. CASE pc' = "idle"
  <2>1. UNCHANGED <<db, j>> /\ code' \in Codes
    BY <1>1, <1>5, SMTT(30) DEF NullCheck, Finish, Codes
  <2> QED BY <1>1, <1>5, <2>1, EndInv, SMTT(30) DEF TypeOK
<1>6. CASE pc' # "idle"
  <2>1. /\ UNCHANGED <<pc, code>>
        /\ j' = j + 1
        /\ db' = db \/ db' = FillNulls(NullChecks(cur)[j + 1], db)
    BY <1>1, <1>6, SMTT(30) DEF NullCheck, Finish
  <2>2. NullChecks(cur)[j + 1] \in Range(NullChecks(cur))
    <3>1. j + 1 \in DOMAIN NullChecks(cur)
      BY <1>3, <1>4, ChainAssumption, SMTT(30)
    <3> QED BY <3>1, Zenon DEF Range
  <2>3. /\ db' \in Databases
        /\ SchemaHash(db') = SchemaHash(db)
        /\ InEffect(db', e)
    BY <1>2, <1>3, <2>1, <2>2, RowsAssumption, SMTT(30) DEF TypeOK
  <2>4. TypeOK'
    BY <1>1, <1>3, <2>1, <2>3 DEF TypeOK
  <2>5. RowsFit' /\ Recorded' = Recorded /\ Live' = Live
    BY <1>1, Zenon DEF RowsFit, Recorded, Live
  <2>6. SettledMatches'
    BY <2>3, <2>5, LiveMatches
  <2>7. CommandFits'
    BY <1>1, <2>1, <2>5, Zenon DEF CommandFits
  <2>8. \A p \in PlanIds : ByRow(p)' = ByRow(p)
    BY <1>1, ByRowUnchanged
  <2>9. ByPosition' = ByPosition
    BY <1>1, <2>1 DEF ByPosition
  <2>10. StepsInEffect'
    BY <1>1, <1>2, <2>3, <2>8, <2>9 DEF StepsInEffect
  <2> QED BY <2>4, <2>5, <2>6, <2>7, <2>10
<1> QED
  BY <1>5, <1>6


\* Recording the rollback keeps the count of the steps that the command read.
LEMMA RollbackRecordInv ==
  ASSUME Inv, RollbackRecord
  PROVE  Inv'
<1> USE DEF Inv
<1>1. /\ pc \in {"nulls", "brecord"} /\ pc' = "back"
      /\ UNCHANGED <<db, drift, op, top, cur, i, j, code>>
      /\ history' = [history EXCEPT ![cur] = [state |-> "rolling_back", step |-> i]]
  BY SMTT(30) DEF RollbackRecord, Record, Goto
<1>2. PICK e \in Counts : /\ InEffect(db, e)
                          /\ \A p \in PlanIds : e[p] \in ByRow(p)
                          /\ e[cur] \in ByPosition
  BY <1>1, InHand, SMTT(30)
<1>3. /\ cur \in PlanIds
      /\ Recorded = 1 .. cur
      /\ i \in 0 .. FinalizeStart(cur)
      /\ FinalizeStart(cur) \in 0 .. NSteps(cur)
      /\ NSteps(cur) \in 0 .. MaxSteps
      /\ MaxSteps \in Nat
  BY <1>1, InHand, SMTT(30)
<1>4. /\ history' \in [PlanIds -> Row \cup {None}]
      /\ history'[cur].state = "rolling_back"
      /\ history'[cur].step = i
      /\ Recorded' = 1 .. cur
      /\ RowsFit'
      /\ SettledMatches'
      /\ \A p \in PlanIds \ {cur} : ByRow(p)' = ByRow(p)
  BY <1>1, <1>3, RecordLast, Zenon
<1>5. TypeOK'
  BY <1>1, <1>4 DEF TypeOK, Labels
<1>6. CommandFits'
  BY <1>1, <1>3, <1>4, Sizes, Zenon DEF CommandFits, PlanIds
<1>7. StepsInEffect'
  <2>1. e[cur] \in {i} \cup {x \in {i - 1} : i > 0 /\ Repeats(cur, i - 1)}
    BY <1>1, <1>2 DEF ByPosition
  <2>2. cur \in Recorded'
    BY <1>3, <1>4, Sizes DEF PlanIds
  <2>3. ByRow(cur)' = {i - 1, i} \cap 0 .. FinalizeStart(cur)
    BY <1>1, <1>4, <2>2 DEF ByRow, Recorded
  <2>4. e[cur] \in ByRow(cur)'
    BY <1>3, <2>1, <2>3
  <2>5. ByPosition' = {i} \cup {x \in {i - 1} : i > 0 /\ Repeats(cur, i - 1)}
    BY <1>1 DEF ByPosition
  <2> QED BY <1>1, <1>2, <1>4, <2>1, <2>4, <2>5, Zenon DEF StepsInEffect
<1> QED
  BY <1>4, <1>5, <1>6, <1>7

\* A rollback statement undoes the last step in effect.
LEMMA BackInv ==
  ASSUME Inv, Back
  PROVE  Inv'
<1> USE DEF Inv
<1>1. /\ pc = "back" /\ i > 0
      /\ UNCHANGED <<drift, history, op, top, cur, i, j>>
  BY DEF Back
<1>2. PICK e \in Counts : /\ InEffect(db, e)
                          /\ Turn(cur, e)
                          /\ \A p \in PlanIds : e[p] \in ByRow(p)
                          /\ e[cur] \in ByPosition
  BY <1>1, InHand, SMTT(30)
<1>3. /\ cur \in PlanIds
      /\ cur \in Recorded
      /\ Recorded = 1 .. cur
      /\ i \in 0 .. FinalizeStart(cur)
      /\ FinalizeStart(cur) \in 0 .. NSteps(cur)
      /\ NSteps(cur) \in 0 .. MaxSteps
      /\ MaxSteps \in Nat
      /\ history[cur].state = "rolling_back"
      /\ history[cur].step = i
  BY <1>1, InHand, Zenon DEF CommandFits
<1>4. CASE pc' = "idle"
  <2>1. UNCHANGED db /\ code' \in Codes
    BY <1>4 DEF Back, Run, Goto, Finish, Codes
  <2> QED BY <1>1, <1>4, <2>1, EndInv, SMTT(30) DEF TypeOK
<1>5. CASE pc' # "idle"
  <2> SUFFICES ASSUME NEW s, s = BackwardStatement(cur, i - 1, db)
               PROVE  Inv'
    BY SMTT(30)
  <2>1. /\ Step(cur, i - 1).rollback # None
        /\ Accepts(s, db)
        /\ db' = Exec(s, db)
        /\ pc' = "unmark"
        /\ UNCHANGED code
    BY <1>5, SMTT(30) DEF Back, Run, Goto, Finish
  <2>2. /\ i - 1 \in 0 .. FinalizeStart(cur) - 1
        /\ i - 1 \in 0 .. FinalizeStart(cur)
        /\ i - 1 \in 0 .. MaxSteps
        /\ i - 1 + 1 = i
    BY <1>1, <1>3
  <2>3. e[cur] = i - 1 + 1 \/ (Repeats(cur, i - 1) /\ e[cur] = i - 1)
    BY <1>1, <1>2, <2>2, SMTT(30) DEF ByPosition
  <2>4. db' \in Databases /\ InEffect(db', With(e, cur, i - 1))
    BY <1>2, <1>3, <2>1, <2>2, <2>3, BackwardAssumption, Zenon DEF TypeOK
  <2>5. TypeOK'
    BY <1>1, <2>1, <2>4, SMTT(30) DEF TypeOK, Labels
  <2>6. RowsFit' /\ SettledMatches' /\ Recorded' = Recorded
    BY <1>1, <1>3, RowsInWork, SMTT(30)
  <2>7. CommandFits'
    BY <1>1, <1>3, <2>1, <2>6, Zenon DEF CommandFits
  <2>8. StepsInEffect'
    <3>1. \A p \in PlanIds : ByRow(p)' = ByRow(p)
      BY <1>1, ByRowUnchanged, SMTT(30)
    <3>2. i - 1 \in ByRow(cur)
      BY <1>3, <2>2, ByRowValue
    <3>3. i - 1 \in ByPosition'
      BY <1>1, <2>1 DEF ByPosition
    <3> QED BY <1>1, <1>2, <1>3, <2>2, <2>4, <3>1, <3>2, <3>3, CountsCarry, Zenon
  <2> QED BY <2>5, <2>6, <2>7, <2>8
<1> QED
  BY <1>4, <1>5

\* The row goes behind the comparison of the catalog with the schema before
\* the plan.
LEMMA DeleteInv ==
  ASSUME Inv, Delete
  PROVE  Inv'
<1> USE DEF Inv
<1>1. /\ pc = "delete" /\ pc' = "idle" /\ code' \in Codes
      /\ UNCHANGED <<db, drift, op, top, cur, i, j>>
      /\ history' = [history EXCEPT ![cur] = None]
  BY SMTT(30) DEF Delete, Finish, Codes
<1>2. PICK e \in Counts : /\ InEffect(db, e)
                          /\ \A p \in PlanIds : e[p] \in ByRow(p)
                          /\ e[cur] \in ByPosition
  BY <1>1, InHand, SMTT(30)
<1>3. /\ cur \in PlanIds
      /\ Recorded = 1 .. cur
      /\ SchemaHash(db) = Chain[cur].from
  BY <1>1, InHand, Zenon DEF CommandFits
<1>4. /\ cur \in 1 .. Len(Chain)
      /\ cur - 1 \in 0 .. Len(Chain)
      /\ Len(Chain) \in Nat
  BY <1>3, Sizes DEF PlanIds
<1>5. /\ history' \in [PlanIds -> Row \cup {None}]
      /\ history'[cur] = None
      /\ \A p \in PlanIds \ {cur} : history'[p] = history[p]
  BY <1>1, <1>3 DEF TypeOK
<1>6. Recorded' = 1 .. cur - 1
  <2>1. Recorded' = Recorded \ {cur}
    BY <1>5 DEF Recorded
  <2> QED BY <1>3, <1>4, <2>1
<1>7. PICK n \in 0 .. Len(Chain) :
        /\ Recorded = 1 .. n
        /\ \A p \in 1 .. n - 1 : p \in Live
        /\ \A p \in 1 .. n :
             history[p].step \in
               CASE history[p].state = "applied"    -> {FinalizeStart(p)}
                 [] history[p].state = "done"       -> {NSteps(p)}
                 [] history[p].state = "finalizing" -> FinalizeStart(p) .. NSteps(p)
                 [] OTHER                           -> 0 .. FinalizeStart(p)
  BY Zenon DEF RowsFit
<1>8. n = cur
  BY <1>3, <1>4, <1>7, IntervalEnd
<1>9. \A p \in 1 .. cur - 1 : p \in PlanIds \ {cur} /\ p \in 1 .. n /\ history'[p] = history[p]
  BY <1>4, <1>5, <1>8 DEF PlanIds
<1>10. RowsFit'
  <2>1. \A p \in 1 .. cur - 1 - 1 : p \in Live'
    BY <1>4, <1>6, <1>7, <1>8, <1>9 DEF Live
  <2>2. \A p \in 1 .. cur - 1 :
          history'[p].step \in
            CASE history'[p].state = "applied"    -> {FinalizeStart(p)}
              [] history'[p].state = "done"       -> {NSteps(p)}
              [] history'[p].state = "finalizing" -> FinalizeStart(p) .. NSteps(p)
              [] OTHER                            -> 0 .. FinalizeStart(p)
    BY <1>7, <1>9, Zenon
  <2> QED BY <1>4, <1>6, <2>1, <2>2, Zenon DEF RowsFit
<1>11. SettledMatches'
  <2>1. SUFFICES ASSUME NEW m \in 0 .. Len(Chain), Recorded' = 1 .. m
                 PROVE  SchemaHash(db') = HashAfter(m)
    BY DEF SettledMatches
  <2>2. m = cur - 1
    BY <1>4, <1>6, <2>1, IntervalEnd, SMTT(30)
  <2>3. Chain[cur].from = HashAfter(cur - 1)
    BY <1>3, ChainAssumption, SMTT(30)
  <2> QED BY <1>1, <1>3, <2>2, <2>3
<1>12. TypeOK'
  BY <1>1, <1>5, SMTT(30) DEF TypeOK, Labels
<1>13. CommandFits'
  BY <1>1, Zenon DEF CommandFits
<1>14. StepsInEffect'
  <2>1. \A p \in PlanIds \ {cur} : ByRow(p)' = ByRow(p)
    BY <1>5, ByRowUnchanged
  <2>2. ByRow(cur)' = {0}
    BY <1>1, <1>5 DEF ByRow
  <2>3. e[cur] = 0
    BY <1>1, <1>2 DEF ByPosition
  <2>4. \A p \in PlanIds : e[p] \in ByPosition'
    BY <1>1 DEF ByPosition, Counts
  <2> QED BY <1>1, <1>2, <2>1, <2>2, <2>3, <2>4, SMTT(30) DEF StepsInEffect
<1> QED
  BY <1>10, <1>11, <1>12, <1>13, <1>14


-----------------------------------------------------------------------------
(* The theorems.                                                           *)

\* Every step of every command, and everything that happens around the
\* commands, keeps the inductive invariant.
LEMMA NextInv == Inv /\ [Next]_vars => Inv'
<1> SUFFICES ASSUME Inv, [Next]_vars
             PROVE  Inv'
  BY SMTT(30)
<1>1. CASE UNCHANGED vars
  BY <1>1, ZenonT(30) DEF vars, Inv, TypeOK, RowsFit, CommandFits, StepsInEffect, SettledMatches, ByRow, ByPosition,
              Recorded, Live
<1>2. CASE \E o \in Commands, n \in 0 .. Len(Chain) : Start(o, n)
  BY <1>2, StartInv
<1>3. CASE ChainError \/ ReadSettled \/ ReadRecover \/ RecoverRecord \/ ReadRollback
  BY <1>3, ChainErrorInv, ReadSettledInv, ReadRecoverInv, RecoverRecordInv, ReadRollbackInv
<1>4. CASE NullCheck \/ RollbackRecord \/ Back \/ Unmark \/ BackVerify \/ Delete
  BY <1>4, NullCheckInv, RollbackRecordInv, BackInv, UnmarkInv, BackVerifyInv, DeleteInv
<1>5. CASE NextPlan \/ RunStep \/ Mark \/ Verify \/ Applied
  BY <1>5, NextPlanInv, RunStepInv, MarkInv, VerifyInv, AppliedInv
<1>6. CASE FinalizeNext \/ FinalizeStep \/ FinalizeMark \/ Done
  BY <1>6, FinalizeNextInv, FinalizeStepInv, FinalizeMarkInv, DoneInv
<1>7. CASE Stop \/ Write \/ Drift
  BY <1>7, StopInv, WriteInv, DriftInv
<1> QED
  BY <1>1, <1>2, <1>3, <1>4, <1>5, <1>6, <1>7 DEF Next, Command

\* The inductive invariant holds in every reachable state of apply, recover,
\* rollback and finalize, for every sound chain.
THEOREM Invariance == Spec => []Inv
BY InitInv, NextInv, PTL DEF Spec

\* The variables keep their types: no command writes a history row that is not
\* a row, or a step position outside the plan.
THEOREM TypeCorrect == Spec => []TypeOK
<1>1. Inv => TypeOK
  BY DEF Inv
<1> QED BY <1>1, Invariance, PTL

\* However the commands stop, the history rows tell how many steps of each
\* plan are in effect, up to the one uncertain step: setStep() and resolve()
\* never lose count.
THEOREM StepsCounted == Spec => []StepsInEffect
<1>1. Inv => StepsInEffect
  BY DEF Inv
<1> QED BY <1>1, Invariance, PTL

\* When no row is applying or rolling back, the database has the schema of the
\* recorded plans: position() and settled() can trust the rows.
THEOREM SchemaMatches == Spec => []SettledMatches
<1>1. Inv => SettledMatches
  BY DEF Inv
<1> QED BY <1>1, Invariance, PTL


-----------------------------------------------------------------------------
(* No statement is refused.                                                *)

\* A step of a plan is accepted where resolve() or the loop puts it.
LEMMA StepAccepted ==
  ASSUME Inv, RunStep
  PROVE  code' = code
<1> USE DEF Inv
<1>1. /\ pc = "step" /\ i < FinalizeStart(cur)
      /\ Run(ForwardStatement(cur, i, db), "mark")
  BY DEF RunStep
<1>2. PICK e \in Counts : InEffect(db, e) /\ Turn(cur, e) /\ e[cur] \in ByPosition
  BY <1>1, InHand
<1>3. cur \in PlanIds /\ i \in 0 .. FinalizeStart(cur) - 1
  BY <1>1, InHand
<1>4. e[cur] = i \/ (Repeats(cur, i) /\ e[cur] = i + 1)
  BY <1>1, <1>2, SMTT(30) DEF ByPosition
<1>5. Accepts(ForwardStatement(cur, i, db), db)
  BY <1>2, <1>3, <1>4, ForwardAssumption, SMTT(30) DEF TypeOK
<1> QED
  BY <1>1, <1>5 DEF Run, Goto

\* A rollback is refused only for a NULL that came after the null checks.
LEMMA RollbackAccepted ==
  ASSUME Inv, Back, code' = "failed", code # "failed"
  PROVE  \E c \in Range(NullChecks(cur)) : HasNulls(c, db)
<1> USE DEF Inv
<1>1. pc = "back" /\ i > 0
  BY SMTT(30) DEF Back
<1>2. PICK e \in Counts : InEffect(db, e) /\ Turn(cur, e) /\ e[cur] \in ByPosition
  BY <1>1, InHand
<1> SUFFICES ASSUME NEW s, s = BackwardStatement(cur, i - 1, db)
             PROVE  \E c \in Range(NullChecks(cur)) : HasNulls(c, db)
  BY SMTT(30)
<1>3. Step(cur, i - 1).rollback # None /\ ~Accepts(s, db)
  BY DEF Back, Run, Goto, Finish
<1>4. cur \in PlanIds /\ i - 1 \in 0 .. FinalizeStart(cur) - 1 /\ i - 1 + 1 = i
  BY <1>1, InHand
<1>5. e[cur] = i - 1 + 1 \/ (Repeats(cur, i - 1) /\ e[cur] = i - 1)
  BY <1>1, <1>2, <1>4 DEF ByPosition
<1> QED BY <1>2, <1>3, <1>4, <1>5, BackwardAssumption, SMTT(30) DEF TypeOK

\* After the last step before the finalize steps the catalog has the plan's
\* target schema, and after the last rollback the one before the plan.
LEMMA ComparisonHolds ==
  ASSUME Inv, Verify \/ BackVerify, code' = "verify", code # "verify"
  PROVE  drift
<1> USE DEF Inv
<1>1. pc \in {"step", "back"}
  BY DEF Verify, BackVerify
<1>2. PICK e \in Counts : InEffect(db, e) /\ Turn(cur, e) /\ e[cur] \in ByPosition
  BY <1>1, InHand, SMTT(30)
<1>3. /\ cur \in PlanIds
      /\ i \in 0 .. FinalizeStart(cur)
      /\ FinalizeStart(cur) \in 0 .. NSteps(cur)
      /\ NSteps(cur) \in Nat
  BY <1>1, InHand
<1>4. CASE Verify
  <2>1. pc = "step" /\ i = FinalizeStart(cur) /\ ~Verified(Chain[cur].to)
    BY <1>3, <1>4, SMTT(30) DEF Verify, Goto
  <2>2. i < NSteps(cur) => ~Repeats(cur, i)
    BY <1>3, <2>1, ChainAssumption
  <2>3. e[cur] = FinalizeStart(cur)
    BY <1>2, <2>1, <2>2, SMTT(30) DEF ByPosition
  <2>4. SchemaHash(db) = Chain[cur].to
    BY <1>2, <1>3, <2>3, HashAssumption DEF TypeOK
  <2> QED BY <2>1, <2>4, SMTT(30) DEF Verified
<1>5. CASE BackVerify
  <2>1. pc = "back" /\ i = 0 /\ ~Verified(Chain[cur].from)
    BY <1>5 DEF BackVerify, Goto
  <2>2. e[cur] = 0
    BY <1>2, <2>1, SMTT(30) DEF ByPosition
  <2>3. SchemaHash(db) = Chain[cur].from
    BY <1>2, <1>3, <2>2, HashAssumption DEF TypeOK
  <2> QED BY <2>1, <2>3 DEF Verified
<1> QED
  BY <1>4, <1>5, SMTT(30)


\* A statement of apply or recover is never refused, one of rollback only for a
\* NULL, and the comparison at the end fails only for drift: no sequence of
\* stops and commands makes the code skip a step or run it twice.
THEOREM StepsAccepted == Spec => NoStepFails
<1> DEFINE A == /\ code' = "failed" /\ code # "failed" =>
                     \/ history[cur].state = "finalizing"
                     \/ \E c \in Range(NullChecks(cur)) : HasNulls(c, db)
                /\ code' = "verify" /\ code # "verify" => drift
<1>1. Inv /\ [Next]_vars => [A]_vars
  <2> SUFFICES ASSUME Inv, Next
               PROVE  A
    BY SMTT(30)
  <2>1. CASE \E o \in Commands, n \in 0 .. Len(Chain) : Start(o, n)
    BY <2>1, SMTT(30) DEF Start
  <2>2. CASE ChainError \/ ReadSettled \/ ReadRecover \/ RecoverRecord \/ ReadRollback
    BY <2>2, Zenon DEF ChainError, ReadSettled, ReadRecover, RecoverRecord, ReadRollback, Finish, Goto
  <2>3. CASE NullCheck \/ RollbackRecord \/ Unmark \/ Delete
    BY <2>3, SMTT(30) DEF NullCheck, RollbackRecord, Unmark, Delete, Finish, Goto
  <2>4. CASE Back
    <3>1. code' = "verify" => code = "verify"
      BY <2>4 DEF Back, Run, Finish, Goto
    <3> QED BY <2>4, <3>1, RollbackAccepted, SMTT(30)
  <2>5. CASE Verify \/ BackVerify
    <3>1. code' = "failed" => code = "failed"
      BY <2>5 DEF Verify, BackVerify, Finish, Goto
    <3> QED BY <2>5, <3>1, ComparisonHolds, SMTT(30)
  <2>6. CASE NextPlan \/ Mark \/ Applied
    BY <2>6, SMTT(30) DEF NextPlan, Mark, Applied, Finish, Goto
  <2>7. CASE RunStep
    BY <2>7, StepAccepted
  <2>8. CASE FinalizeNext \/ FinalizeMark \/ Done
    BY <2>8 DEF FinalizeNext, FinalizeMark, Done, Finish, Goto
  <2>9. CASE FinalizeStep
    <3>1. history[cur].state = "finalizing"
      BY <2>9, InFinalize DEF FinalizeStep
    <3>2. code' = "verify" => code = "verify"
      BY <2>9, SMTT(30) DEF FinalizeStep, Run, Finish, Goto
    <3> QED BY <3>1, <3>2, SMTT(30)
  <2>10. CASE Stop \/ Write \/ Drift
    BY <2>10, Zenon DEF Stop, Write, Drift, Finish
  <2> QED
    BY <2>1, <2>2, <2>3, <2>4, <2>5, <2>6, <2>7, <2>8, <2>9, <2>10, Zenon DEF Next, Command
<1>2. Inv /\ [Next]_vars => Inv'
  BY NextInv, SMTT(30)
<1> QED
  BY <1>1, <1>2, InitInv, PTL DEF Spec, NoStepFails

-----------------------------------------------------------------------------
(* The commands implement SchemaVersion.                                   *)

\* A row that is rewritten as applying or rolling back, or that is deleted,
\* neither brings a plan into effect nor drops anything.
LEMMA VersionKept ==
  ASSUME NEW n \in PlanIds,
         \A p \in PlanIds \ {n} : history'[p] = history[p],
         history[n] = None \/ history[n].state \in {"applying", "rolling_back"},
         history'[n] = None \/ history'[n].state \in {"applying", "rolling_back"}
  PROVE  UNCHANGED <<Live, Dropped>>
<1>1. n \notin Live /\ n \notin Live' /\ n \notin Dropped /\ n \notin Dropped'
  BY SMTT(30) DEF Live, Dropped, Recorded, Settled
<1>2. \A p \in PlanIds \ {n} : (p \in Live' <=> p \in Live) /\ (p \in Dropped' <=> p \in Dropped)
  BY SMTT(30) DEF Live, Dropped, Recorded
<1>3. Live \subseteq PlanIds /\ Live' \subseteq PlanIds /\ Dropped \subseteq PlanIds /\ Dropped' \subseteq PlanIds
  BY DEF Live, Dropped, Recorded
<1> QED
  BY <1>1, <1>2, <1>3, SMTT(30)


\* A set of plans that has all plans before n and none after it.
LEMMA UpTo ==
  ASSUME NEW n \in Nat \ {0}, NEW S, S \subseteq 1 .. n, \A p \in 1 .. n - 1 : p \in S
  PROVE  /\ n \in S => S = 1 .. n
         /\ n \notin S => S = 1 .. n - 1
<1>1. \A p \in 1 .. n : p = n \/ p \in 1 .. n - 1
  OBVIOUS
<1>2. 1 .. n - 1 \subseteq 1 .. n /\ n \notin 1 .. n - 1
  OBVIOUS
<1> QED
  BY <1>1, <1>2, Zenon, Zenon

\* Two sets of plans that agree on every plan but n.
LEMMA AgreeExcept ==
  ASSUME NEW n, NEW P, NEW S, NEW T, S \subseteq P, T \subseteq P, n \in P,
         \A p \in P \ {n} : p \in T <=> p \in S
  PROVE  /\ (n \in S <=> n \in T) => T = S
         /\ n \in T => T = S \cup {n}
         /\ n \notin T => T = S \ {n}
<1>1. \A p \in P : p = n \/ (p \in T <=> p \in S)
  OBVIOUS
<1>2. ASSUME n \in S <=> n \in T PROVE T = S
  <2>1. \A p : p \in T <=> p \in S
    BY <1>1, <1>2
  <2> QED BY <2>1
<1>3. ASSUME n \in T PROVE T = S \cup {n}
  <2>1. \A p : p \in T <=> p \in S \cup {n}
    BY <1>1, <1>3
  <2> QED BY <2>1
<1>4. ASSUME n \notin T PROVE T = S \ {n}
  <2>1. \A p : p \in T <=> p \in S \ {n}
    BY <1>1, <1>4
  <2> QED BY <2>1
<1> QED
  BY <1>2, <1>3, <1>4

\* A plan comes into effect when its row becomes applied.
LEMMA AppliedUp ==
  ASSUME Inv, Applied
  PROVE  Version!Up(cur) /\ cur \in 1 .. Len(Chain)
<1> USE DEF Inv
<1>1. /\ pc = "applied"
      /\ history' = [history EXCEPT ![cur] = [state |-> "applied", step |-> FinalizeStart(cur)]]
  BY SMTT(30) DEF Applied, Record
<1>2. /\ cur \in PlanIds /\ cur \in Recorded
      /\ Recorded = 1 .. cur
      /\ history[cur].state = "applying"
      /\ cur \in 1 .. Len(Chain) /\ Len(Chain) \in Nat
  BY <1>1, InHand, Sizes, Zenon DEF CommandFits, PlanIds
<1>3. /\ history'[cur] = [state |-> "applied", step |-> FinalizeStart(cur)]
      /\ \A p \in PlanIds \ {cur} : history'[p] = history[p]
  BY <1>1, <1>2, SMTT(30) DEF TypeOK
<1>4. history'[cur] # None
  <2>1. [state |-> "applied", step |-> FinalizeStart(cur)] \in Row
    BY <1>2, Sizes DEF Row, States, Settled
  <2> QED BY <1>3, <2>1, NoneAssumption, SMTT(30)
<1>5. PICK n \in 0 .. Len(Chain) : Recorded = 1 .. n /\ \A p \in 1 .. n - 1 : p \in Live
  BY DEF RowsFit
<1>6. n = cur
  BY <1>2, <1>5, IntervalEnd
<1>7. Live = 1 .. cur - 1
  <2>1. cur \notin Live
    BY <1>2 DEF Live, Settled
  <2>2. Live \subseteq 1 .. cur
    BY <1>2 DEF Live
  <2>3. cur \in Nat \ {0} /\ \A p \in 1 .. cur - 1 : p \in Live
    BY <1>2, <1>5, <1>6
  <2> QED BY <2>1, <2>2, <2>3, UpTo, Zenon
<1>8. Live' = 1 .. cur
  <2>1. cur \in Live'
    BY <1>2, <1>3, <1>4, SMTT(30) DEF Live, Recorded, Settled
  <2>2. \A p \in PlanIds \ {cur} : p \in Live' <=> p \in Live
    BY <1>3, SMTT(30) DEF Live, Recorded
  <2>3. Live' \subseteq PlanIds
    BY DEF Live, Recorded
  <2>4. Live \subseteq PlanIds
    BY SMTT(30) DEF Live, Recorded
  <2>5. Live' = Live \cup {cur}
    BY <1>2, <2>1, <2>2, <2>3, <2>4, AgreeExcept, Zenon
  <2> QED BY <1>2, <1>7, <2>5, SMTT(30)
<1>9. Dropped' = Dropped
  <2>1. cur \notin Dropped /\ cur \notin Dropped'
    BY <1>2, <1>3, SMTT(30) DEF Dropped
  <2>2. \A p \in PlanIds \ {cur} : p \in Dropped' <=> p \in Dropped
    BY <1>3 DEF Dropped, Recorded
  <2>3. Dropped \subseteq PlanIds /\ Dropped' \subseteq PlanIds
    BY SMTT(30) DEF Dropped, Recorded
  <2> QED BY <2>1, <2>2, <2>3, SMTT(30)
<1> QED
  BY <1>2, <1>7, <1>8, <1>9, SMTT(30) DEF Version!Up

\* A plan goes out of effect when its row becomes rolling back: it is the last
\* plan in effect and has dropped nothing.
LEMMA RollbackDown ==
  ASSUME Inv, RollbackRecord
  PROVE  UNCHANGED <<Live, Dropped>> \/ (Version!Down(cur) /\ cur \in 1 .. Len(Chain))
<1> USE DEF Inv
<1>1. /\ pc \in {"nulls", "brecord"}
      /\ history' = [history EXCEPT ![cur] = [state |-> "rolling_back", step |-> i]]
  BY SMTT(30) DEF RollbackRecord, Record
<1>2. PICK e \in Counts : /\ \A p \in PlanIds : e[p] \in ByRow(p)
                          /\ e[cur] \in ByPosition
  BY <1>1, InHand, SMTT(30)
<1>3. /\ cur \in PlanIds /\ cur \in Recorded
      /\ Recorded = 1 .. cur
      /\ history[cur] \in Row
      /\ i \in 0 .. FinalizeStart(cur)
      /\ FinalizeStart(cur) \in 0 .. NSteps(cur)
      /\ NSteps(cur) \in 0 .. MaxSteps
      /\ MaxSteps \in Nat
      /\ cur \in 1 .. Len(Chain) /\ Len(Chain) \in Nat
  BY <1>1, InHand, Sizes, SMTT(30) DEF PlanIds
<1>4. /\ history'[cur] = [state |-> "rolling_back", step |-> i]
      /\ \A p \in PlanIds \ {cur} : history'[p] = history[p]
  BY <1>1, <1>3, SMTT(30) DEF TypeOK
<1>5. CASE history[cur].state \in {"applying", "rolling_back"}
  BY <1>3, <1>4, <1>5, VersionKept
<1>6. CASE history[cur].state \in {"applied", "finalizing", "done"}
  <2>1. PICK n \in 0 .. Len(Chain) : Recorded = 1 .. n /\ \A p \in 1 .. n - 1 : p \in Live
    BY DEF RowsFit
  <2>2. n = cur
    BY <1>3, <2>1, IntervalEnd
  <2>3. Live = 1 .. cur
    <3>1. cur \in Live /\ Live \subseteq 1 .. cur
      BY <1>3, <1>6 DEF Live, Settled
    <3>2. cur \in Nat \ {0} /\ \A p \in 1 .. cur - 1 : p \in Live
      BY <1>3, <2>1, <2>2
    <3> QED BY <3>1, <3>2, UpTo, Zenon
  <2>4. e[cur] <= FinalizeStart(cur) /\ e[cur] \in Int
    BY <1>1, <1>2, <1>3 DEF ByPosition
  <2>5. cur \notin Dropped
    <3>1. history[cur].step \in Int
      BY <1>3 DEF Row
    <3>2. CASE history[cur].state = "applied"
      BY <3>2, SMTT(30) DEF Dropped
    <3>3. CASE history[cur].state = "finalizing"
      <4>1. e[cur] \in history[cur].step .. NSteps(cur)
        BY <1>2, <1>3, <3>3, ByRowValue, Zenon
      <4> QED BY <1>3, <2>4, <3>1, <4>1, SMTT(30) DEF Dropped
    <3>4. CASE history[cur].state = "done"
      <4>1. e[cur] = NSteps(cur) /\ history[cur].step = NSteps(cur)
        BY <1>2, <1>3, <3>4, ByRowValue, RowStep, Zenon
      <4> QED BY <1>3, <2>4, <3>1, <4>1 DEF Dropped
    <3> QED BY <1>6, <3>2, <3>3, <3>4
  <2>6. cur \notin Live' /\ cur \notin Dropped'
    BY <1>4, SMTT(30) DEF Live, Dropped, Settled
  <2>7. /\ \A p \in PlanIds \ {cur} : p \in Live' <=> p \in Live
        /\ \A p \in PlanIds \ {cur} : p \in Dropped' <=> p \in Dropped
    <3>1. \A p \in PlanIds \ {cur} : p \in Live' <=> p \in Live
      BY <1>4, SMTT(30) DEF Live, Recorded
    <3>2. \A p \in PlanIds \ {cur} : p \in Dropped' <=> p \in Dropped
      BY <1>4, SMTT(30) DEF Dropped, Recorded
    <3> QED BY <3>1, <3>2
  <2>8. Live \subseteq PlanIds /\ Live' \subseteq PlanIds /\ Dropped \subseteq PlanIds /\ Dropped' \subseteq PlanIds
    BY DEF Live, Dropped, Recorded
  <2>9. Live' = 1 .. cur - 1
    <3>1. Live' = Live \ {cur}
      <4>1. cur \in PlanIds /\ cur \notin Live'
        BY <1>3, <2>6
      <4>2. Live \subseteq PlanIds /\ Live' \subseteq PlanIds
        BY <2>8
      <4>3. \A p \in PlanIds \ {cur} : p \in Live' <=> p \in Live
        BY <2>7
      <4> QED BY <4>1, <4>2, <4>3, AgreeExcept
    <3> QED BY <1>3, <2>3, <3>1
  <2>10. Dropped' = Dropped
    BY <2>5, <2>6, <2>7, <2>8, SMTT(30)
  <2> QED BY <1>3, <2>3, <2>5, <2>9, <2>10, SMTT(30) DEF Version!Down
<1> QED
  BY <1>3, <1>5, <1>6 DEF Row, States, Settled

\* Counting a finalize step, and the end of a finalization, drop what the plan
\* hid; the rows stay in effect.
LEMMA FinalizeDrops ==
  ASSUME Inv, FinalizeMark \/ Done
  PROVE  UNCHANGED <<Live, Dropped>> \/ (Version!Drop(cur) /\ cur \in 1 .. Len(Chain))
<1> USE DEF Inv
<1>1. pc \in {"fstep", "fmark"}
  BY SMTT(30) DEF FinalizeMark, Done
<1>2. /\ cur \in PlanIds /\ cur \in Recorded /\ cur \in Live
      /\ history[cur] \in Row
      /\ history[cur].state = "finalizing"
      /\ history[cur].step \in FinalizeStart(cur) .. NSteps(cur)
      /\ i \in history[cur].step .. NSteps(cur)
      /\ FinalizeStart(cur) \in 0 .. NSteps(cur)
      /\ NSteps(cur) \in 0 .. MaxSteps
      /\ MaxSteps \in Nat
      /\ cur \in 1 .. Len(Chain)
  BY <1>1, InFinalize, SMTT(30) DEF PlanIds
<1>3. \E st \in {"finalizing", "done"}, x \in history[cur].step .. NSteps(cur) :
        history' = [history EXCEPT ![cur] = [state |-> st, step |-> x]]
  <2>1. CASE FinalizeMark
    <3>1. i < NSteps(cur) /\ history' = [history EXCEPT ![cur].step = i + 1]
      BY <2>1 DEF FinalizeMark, CommandFits
    <3>2. [history[cur] EXCEPT !.step = i + 1] = [state |-> "finalizing", step |-> i + 1]
      BY <1>2, SetStep
    <3>3. i + 1 \in history[cur].step .. NSteps(cur)
      BY <1>2, <3>1, SMTT(30) DEF Row
    <3> QED BY <3>1, <3>2, <3>3, Zenon
  <2>2. CASE Done
    <3>1. NSteps(cur) \in history[cur].step .. NSteps(cur)
      BY <1>2 DEF Row
    <3> QED BY <2>2, <3>1, Zenon DEF Done, Record
  <2> QED BY <2>1, <2>2
<1>4. PICK st \in {"finalizing", "done"}, x \in history[cur].step .. NSteps(cur) :
        history' = [history EXCEPT ![cur] = [state |-> st, step |-> x]]
  BY <1>3, Zenon
<1>5. /\ history'[cur] = [state |-> st, step |-> x]
      /\ \A p \in PlanIds \ {cur} : history'[p] = history[p]
  BY <1>2, <1>4, SMTT(30) DEF TypeOK
<1>6. history'[cur] # None
  <2>1. x \in 0 .. MaxSteps
    <3>1. history[cur].step \in 0 .. MaxSteps
      BY <1>2 DEF Row
    <3> QED BY <1>2, <3>1, SMTT(30)
  <2>2. st \in States
    BY DEF States, Settled
  <2>3. [state |-> st, step |-> x] \in Row
    BY <2>1, <2>2, ZenonT(30) DEF Row
  <2> QED BY <1>5, <2>3, NoneAssumption, SMTT(30)
<1>7. cur \in Live' /\ (cur \in Dropped' <=> x > FinalizeStart(cur))
  BY <1>2, <1>5, <1>6, SMTT(30) DEF Live, Dropped, Recorded, Settled
<1>8. cur \in Dropped => cur \in Dropped'
  <2>1. cur \in Dropped <=> history[cur].step > FinalizeStart(cur)
    BY <1>2, SMTT(30) DEF Dropped
  <2> QED BY <1>2, <1>7, <2>1, SMTT(30) DEF Row
<1>9. /\ \A p \in PlanIds \ {cur} : p \in Live' <=> p \in Live
      /\ \A p \in PlanIds \ {cur} : p \in Dropped' <=> p \in Dropped
  BY <1>5, Zenon DEF Live, Dropped, Recorded
<1>10. Live \subseteq PlanIds /\ Live' \subseteq PlanIds /\ Dropped \subseteq PlanIds /\ Dropped' \subseteq PlanIds
  BY Zenon DEF Live, Dropped, Recorded
<1>11. Live' = Live
  <2>1. cur \in PlanIds /\ cur \in Live /\ cur \in Live'
    BY <1>2, <1>7, SMTT(30)
  <2>2. Live \subseteq PlanIds /\ Live' \subseteq PlanIds
    BY <1>10, SMTT(30)
  <2>3. \A p \in PlanIds \ {cur} : p \in Live' <=> p \in Live
    BY <1>9, SMTT(30)
  <2> QED BY <2>1, <2>2, <2>3, AgreeExcept, SMTT(30)
<1>12. Dropped' = Dropped \/ Dropped' = Dropped \cup {cur}
  <2>1. cur \in PlanIds /\ (cur \in Dropped => cur \in Dropped')
    BY <1>2, <1>8, SMTT(30)
  <2>2. Dropped \subseteq PlanIds /\ Dropped' \subseteq PlanIds
    BY <1>10, SMTT(30)
  <2>3. \A p \in PlanIds \ {cur} : p \in Dropped' <=> p \in Dropped
    BY <1>9
  <2> QED BY <2>1, <2>2, <2>3, AgreeExcept, SMTT(30)
<1> QED
  BY <1>2, <1>11, <1>12 DEF Version!Drop


\* Starting the finalization of an applied plan drops nothing yet.
LEMMA FinalizeStarts ==
  ASSUME Inv, FinalizeNext
  PROVE  UNCHANGED <<Live, Dropped>>
<1> USE DEF Inv
<1>1. CASE UNCHANGED history
  BY <1>1 DEF Live, Dropped, Recorded
<1>2. CASE ~UNCHANGED history
  <2>1. PICK n \in PlanIds :
          /\ history[n] # None
          /\ history[n].state = "applied"
          /\ history' = [history EXCEPT ![n] = [state |-> "finalizing", step |-> FinalizeStart(n)]]
    BY <1>2, SMTT(30) DEF FinalizeNext, Record
  <2>2. /\ history'[n] = [state |-> "finalizing", step |-> FinalizeStart(n)]
        /\ \A p \in PlanIds \ {n} : history'[p] = history[p]
    BY <2>1, SMTT(30) DEF TypeOK
  <2>3. history'[n] # None
    <3>1. [state |-> "finalizing", step |-> FinalizeStart(n)] \in Row
      BY Sizes, SMTT(30) DEF Row, States, Settled
    <3> QED BY <2>2, <3>1, NoneAssumption, Zenon
  <2>4. n \in Live /\ n \in Live'
    BY <2>1, <2>2, <2>3 DEF Live, Recorded, Settled
  <2>5. FinalizeStart(n) \in Int
    BY Sizes, SMTT(30)
  <2>6. n \notin Dropped /\ n \notin Dropped'
    BY <2>1, <2>2, <2>5, SMTT(30) DEF Dropped
  <2>7. Live \subseteq PlanIds /\ Live' \subseteq PlanIds
    BY SMTT(30) DEF Live, Recorded
  <2>8. Dropped \subseteq PlanIds /\ Dropped' \subseteq PlanIds
    BY SMTT(30) DEF Dropped, Recorded
  <2>9. \A p \in PlanIds \ {n} : p \in Live' <=> p \in Live
    BY <2>2, SMTT(30) DEF Live, Recorded
  <2>10. \A p \in PlanIds \ {n} : p \in Dropped' <=> p \in Dropped
    BY <2>2 DEF Dropped, Recorded
  <2>11. Live' = Live
    BY <2>4, <2>7, <2>9, AgreeExcept, SMTT(30)
  <2>12. Dropped' = Dropped
    BY <2>6, <2>8, <2>10, AgreeExcept
  <2> QED BY <2>11, <2>12, SMTT(30)
<1> QED
  BY <1>1, <1>2, SMTT(30)

\* Recording progress within a plan, and deleting a row whose plan is undone.
LEMMA ProgressKeeps ==
  ASSUME Inv, RecoverRecord \/ Unmark \/ Delete \/ NextPlan \/ Mark
  PROVE  UNCHANGED <<Live, Dropped>>
<1> USE DEF Inv
<1>1. CASE RecoverRecord
  <2>1. /\ cur \in PlanIds
        /\ history[cur].state \in {"applying", "rolling_back"}
        /\ history' = [history EXCEPT ![cur] = [state |-> "applying", step |-> i]]
    BY <1>1, InHand, Zenon DEF RecoverRecord, Record, CommandFits
  <2> QED BY <2>1, VersionKept, SMTT(30) DEF TypeOK
<1>2. CASE Unmark
  <2>1. /\ cur \in PlanIds
        /\ history[cur].state = "rolling_back"
        /\ history[cur] \in Row
        /\ history' = [history EXCEPT ![cur].step = i - 1]
    BY <1>2, InHand DEF Unmark, CommandFits
  <2>2. [history[cur] EXCEPT !.step = i - 1] = [state |-> "rolling_back", step |-> i - 1]
    BY <2>1, SetStep, SMTT(30)
  <2> QED BY <2>1, <2>2, VersionKept, Zenon DEF TypeOK
<1>3. CASE Delete
  <2>1. /\ cur \in PlanIds
        /\ history[cur].state = "rolling_back"
        /\ history' = [history EXCEPT ![cur] = None]
    BY <1>3, InHand, Zenon DEF Delete, CommandFits
  <2> QED BY <2>1, VersionKept DEF TypeOK
<1>4. CASE NextPlan
  <2>1. CASE UNCHANGED history
    BY <2>1, SMTT(30) DEF Live, Dropped, Recorded
  <2>2. CASE ~UNCHANGED history
    <3> SUFFICES ASSUME NEW n, n = cur + 1
                 PROVE  UNCHANGED <<Live, Dropped>>
      BY SMTT(30)
    <3>1. /\ cur < top /\ pc = "next"
          /\ history' = [history EXCEPT ![n] = [state |-> "applying", step |-> 0]]
      BY <1>4, <2>2, SMTT(30) DEF NextPlan, Record
    <3>2. n \in PlanIds /\ n \notin 1 .. cur
      BY <3>1, Sizes, SMTT(30) DEF TypeOK, PlanIds
    <3>3. history[n] = None
      BY <3>1, <3>2, SMTT(30) DEF CommandFits, Recorded
    <3> QED BY <3>1, <3>2, <3>3, VersionKept DEF TypeOK
  <2> QED BY <2>1, <2>2, SMTT(30)
<1>5. CASE Mark
  <2>1. /\ cur \in PlanIds
        /\ history[cur].state = "applying"
        /\ history[cur] \in Row
        /\ history' = [history EXCEPT ![cur].step = i + 1]
    BY <1>5, InHand DEF Mark, CommandFits
  <2>2. [history[cur] EXCEPT !.step = i + 1] = [state |-> "applying", step |-> i + 1]
    BY <2>1, SetStep
  <2> QED BY <2>1, <2>2, VersionKept, Zenon DEF TypeOK
<1> QED
  BY <1>1, <1>2, <1>3, <1>4, <1>5, SMTT(30)

\* The four commands implement SchemaVersion: through any stops, recoveries and
\* rollbacks the database moves one plan at a time along the chain, and a plan
\* that has dropped a hidden table or column stays.
THEOREM Refinement == Spec => MovesOnePlan
<1>1. Init => Version!Init
  BY DEF Init, Version!Init, Live, Dropped, Recorded
<1>2. Inv /\ [Next]_vars => [Version!Next]_<<Live, Dropped>>
  <2> SUFFICES ASSUME Inv, [Next]_vars, ~UNCHANGED <<Live, Dropped>>
               PROVE  Version!Next
    BY SMTT(30)
  <2>1. ~UNCHANGED history
    BY DEF Live, Dropped, Recorded
  <2>2. CASE Applied
    BY <2>2, AppliedUp DEF Version!Next
  <2>3. CASE RollbackRecord
    BY <2>3, RollbackDown DEF Version!Next
  <2>4. CASE FinalizeMark \/ Done
    BY <2>4, FinalizeDrops DEF Version!Next
  <2>5. CASE FinalizeNext
    BY <2>5, FinalizeStarts
  <2>6. CASE RecoverRecord \/ Unmark \/ Delete \/ NextPlan \/ Mark
    BY <2>6, ProgressKeeps, SMTT(30)
  <2>7. ~UNCHANGED vars /\ ~(\E o \in Commands, n \in 0 .. Len(Chain) : Start(o, n))
    BY <2>1, SMTT(30) DEF vars, Start
  <2>8. ~(ChainError \/ ReadSettled \/ ReadRecover \/ ReadRollback \/ NullCheck \/ Back \/ BackVerify)
    BY <2>1, Zenon DEF ChainError, ReadSettled, ReadRecover, ReadRollback, NullCheck, Back, BackVerify
  <2>9. ~(RunStep \/ Verify \/ FinalizeStep \/ Stop \/ Write \/ Drift)
    BY <2>1 DEF RunStep, Verify, FinalizeStep, Stop, Write, Drift
  <2> QED
    BY <2>2, <2>3, <2>4, <2>5, <2>6, <2>7, <2>8, <2>9 DEF Next, Command
<1> QED
  BY <1>1, <1>2, InitInv, NextInv, PTL DEF Spec, MovesOnePlan, Version!Spec
=============================================================================

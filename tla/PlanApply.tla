------------------------------ MODULE PlanApply ------------------------------
(***************************************************************************)
(* Applying a chain of schema plans to a database, one statement at a time *)
(* (dbspec/apply.ts).  Every statement commits on its own, and the history *)
(* table dbspec$plans records after each one how many steps of the plan    *)
(* are in effect.  A command (apply, recover, rollback or finalize) may    *)
(* stop between any two of its statements: a failed statement, a thrown    *)
(* event handler, a lost connection, a dead process.  Whatever it leaves,  *)
(* the next command has only the history rows and the catalog to go by.    *)
(*                                                                         *)
(* At most one command runs at a time, which is what the locks of module   *)
(* PlanLock provide.  The database is opaque here: what a statement does   *)
(* to it, when the server refuses it and what a catalog query reads are    *)
(* parameters.                                                             *)
(***************************************************************************)
EXTENDS Integers, Sequences, Functions

CONSTANTS
  Chain,            \* the plans in chain order: [from, to, steps, nullChecks]
  MaxSteps,         \* no plan has more steps
  Databases,        \* the databases (catalog and rows) the system can be in
  EmptyDb,          \* the database without a table
  Exec(_, _),       \* Exec(s, d): the database after statement s
  Accepts(_, _),    \* Accepts(s, d): the server can run statement s on d
  Holds(_, _),      \* Holds(f, d): the catalog query of effect f on d
  SchemaHash(_),    \* the schemaHash of the introspected catalog
  HasNulls(_, _),   \* HasNulls(c, d): null check c counts a row on d
  FillNulls(_, _),  \* FillNulls(c, d): d after the UPDATE of null check c
  Writes(_),        \* the databases an application's write can leave
  InEffect(_, _),   \* InEffect(d, e): on d the first e[p] steps of each plan
                    \* p of the chain are in effect
  Exclusive,        \* the lock keeps the application out too (SQLite)
  None              \* no statement, no row, no default

VARIABLES
  db,       \* the database
  drift,    \* the catalog has an object that no plan of the chain explains
  history,  \* the table dbspec$plans: a row or None for each plan
  op,       \* the running command, or the last one
  pc,       \* where it is, "idle" when no command runs
  top,      \* how many plans of the chain the command was given
  cur,      \* the plan it works on
  i,        \* the step position of its loop
  j,        \* the null checks it has made
  code      \* how the last command ended

vars == <<db, drift, history, op, pc, top, cur, i, j, code>>

-----------------------------------------------------------------------------
(* Plans, steps and history rows.  A step position counts steps from 0, as *)
(* the code does: Step(p, k) is the step after the first k.                *)

PlanIds == 1 .. Len(Chain)

Steps(p) == Chain[p].steps

NSteps(p) == Len(Steps(p))

Step(p, k) == Steps(p)[k + 1]

Repeats(p, k) == Step(p, k).effect.kind = "repeat"

\* The index of the first finalize step.
FinalizeStart(p) ==
  CHOOSE k \in 0 .. NSteps(p) :
    /\ \A n \in 0 .. k - 1 : ~Step(p, n).finalize
    /\ k < NSteps(p) => Step(p, k).finalize

Settled == {"applied", "done"}

States == {"applying", "finalizing", "rolling_back"} \cup Settled

Row == [state : States, step : 0 .. MaxSteps]

\* How many steps of each plan are in effect.
Counts == [PlanIds -> 0 .. MaxSteps]

\* The hash of the schema before the first plan.
EmptyHash == SchemaHash(EmptyDb)

\* The hash the database has after the first n plans.
HashAfter(n) == IF n = 0 THEN EmptyHash ELSE Chain[n].to

Recorded == {p \in PlanIds : history[p] # None}

\* position(): the number of recorded plans.
Position == CHOOSE n \in 0 .. Len(Chain) : Recorded = 1 .. n

\* position() throws a chain error unless the records are at the front of
\* the command's chain and every row before the last is applied or done.
PositionOk ==
  \E n \in 0 .. top :
    /\ Recorded = 1 .. n
    /\ \A p \in 1 .. n - 1 : history[p].state \in Settled

\* verify(want): introspection finds nothing unsupported and the wanted hash.
Verified(want) == ~drift /\ SchemaHash(db) = want

-----------------------------------------------------------------------------
(* The statements a command runs.                                          *)

\* forward(): the restore statement when the table still has the column
\* that an earlier rollback of this plan hid.
ForwardStatement(p, k, d) ==
  IF Step(p, k).restore # None /\ Holds(Step(p, k).restoreIf, d)
  THEN Step(p, k).restore ELSE Step(p, k).statement

\* rollbackPlans(): the same choice for the rollback of a step.
BackwardStatement(p, k, d) ==
  IF Step(p, k).rollbackRestore # None /\ Holds(Step(p, k).restoreIf, d)
  THEN Step(p, k).rollbackRestore ELSE Step(p, k).rollback

\* Faulty variants of resolve(): it trusts the recorded step, or takes a repeat
\* step for one that ran.
ResolveByRow(p, forward) == history[p].step

ResolveRepeatRan(p, forward) ==
  LET row       == history[p]
      uncertain == IF row.state = "rolling_back" THEN row.step - 1 ELSE row.step
  IN  IF uncertain \notin 0 .. NSteps(p) - 1 THEN row.step
      ELSE IF Repeats(p, uncertain) \/ Holds(Step(p, uncertain).effect, db)
           THEN uncertain + 1 ELSE uncertain

\* resolve(): the position to continue an interrupted row from.  The one
\* uncertain step is the one after the recorded position, or the one before
\* it in a rollback; the catalog tells whether its statement took effect.  A
\* repeat step cannot be told: forward it runs again, backward its rollback
\* runs again.
Resolve(p, forward) ==
  LET row       == history[p]
      rolling   == row.state = "rolling_back"
      uncertain == IF rolling THEN row.step - 1 ELSE row.step
      took      == IF Repeats(p, uncertain) THEN ~forward
                   ELSE Holds(Step(p, uncertain).effect, db)
  IN  IF uncertain \notin 0 .. NSteps(p) - 1 THEN row.step
      ELSE IF took THEN uncertain + 1 ELSE uncertain

\* The null checks of a plan in step order; a rollback of the first k steps
\* makes those of these steps.
NullChecks(p) == Chain[p].nullChecks

MoreChecks == j < Len(NullChecks(cur)) /\ NullChecks(cur)[j + 1].step < i

-----------------------------------------------------------------------------
(* The commands.  Next to the command's own variables, a step changes the  *)
(* database or the history, never both: that is why a stop between the two *)
(* leaves one step uncertain.                                              *)

Goto(l) == pc' = l /\ UNCHANGED code

\* The command ends, and its cleanup releases the lock.
Finish(c) == pc' = "idle" /\ code' = c

Record(p, state, step) == history' = [history EXCEPT ![p] = [state |-> state, step |-> step]]

Init ==
  /\ db = EmptyDb
  /\ drift = FALSE
  /\ history = [p \in PlanIds |-> None]
  /\ op = "apply"
  /\ pc = "idle"
  /\ top = Len(Chain)
  /\ cur = 0
  /\ i = 0
  /\ j = 0
  /\ code = "ok"

\* A command takes the lock.  It is given the first n plans of the chain: an
\* older release of the application knows fewer plans than the newest.
Start(o, n) ==
  /\ pc = "idle"
  /\ op' = o
  /\ top' = n
  /\ pc' = "read"
  /\ code' = "running"
  /\ UNCHANGED <<db, drift, history, cur, i, j>>

\* position() rejects the history.
ChainError ==
  /\ pc = "read"
  /\ ~PositionOk
  /\ Finish("chain")
  /\ UNCHANGED <<db, drift, history, op, top, cur, i, j>>

\* settled(), of apply and finalize.
ReadSettled ==
  /\ pc = "read"
  /\ op \in {"apply", "finalize"}
  /\ PositionOk
  /\ \/ /\ Position > 0
        /\ history[Position].state \notin Settled
        /\ Finish("interrupted")
        /\ UNCHANGED cur
     \/ /\ Position > 0 => history[Position].state \in Settled
        /\ ~Verified(HashAfter(Position))
        /\ Finish("drift")
        /\ UNCHANGED cur
     \/ /\ Position > 0 => history[Position].state \in Settled
        /\ Verified(HashAfter(Position))
        /\ Goto(IF op = "apply" THEN "next" ELSE "fnext")
        /\ cur' = IF op = "apply" THEN Position ELSE 0
  /\ UNCHANGED <<db, drift, history, op, top, i, j>>

\* A faulty recover that leaves a rolling back plan where it is.
RecoverApplyingOnly ==
  /\ pc = "read"
  /\ op = "recover"
  /\ PositionOk
  /\ \/ /\ Position > 0 => history[Position].state \in Settled \cup {"rolling_back"}
        /\ Finish("ok")
        /\ UNCHANGED <<cur, i>>
     \/ /\ Position > 0
        /\ history[Position].state \in {"applying", "finalizing"}
        /\ cur' = Position
        /\ i' = Resolve(Position, TRUE)
        /\ Goto(IF history[Position].state = "finalizing" THEN "fstep" ELSE "rrecord")
  /\ UNCHANGED <<db, drift, history, op, top, j>>

\* recoverPlans(): an interrupted row continues forward from the resolved
\* step.  A finalizing row keeps the step it has; the others are recorded.
ReadRecover ==
  /\ pc = "read"
  /\ op = "recover"
  /\ PositionOk
  /\ \/ /\ Position > 0 => history[Position].state \in Settled
        /\ Finish("ok")
        /\ UNCHANGED <<cur, i>>
     \/ /\ Position > 0
        /\ history[Position].state \notin Settled
        /\ cur' = Position
        /\ i' = Resolve(Position, TRUE)
        /\ Goto(IF history[Position].state = "finalizing" THEN "fstep" ELSE "rrecord")
  /\ UNCHANGED <<db, drift, history, op, top, j>>

RecoverRecord ==
  /\ pc = "rrecord"
  /\ Record(cur, "applying", i)
  /\ Goto("step")
  /\ UNCHANGED <<db, drift, op, top, cur, i, j>>

\* A faulty rollback that finds an irreversible step only when it gets there.
RollbackUnchecked ==
  /\ pc = "read"
  /\ op = "rollback"
  /\ PositionOk
  /\ Position > 0
  /\ LET applied == history[Position].state \in Settled
     IN  /\ applied => Verified(Chain[Position].to)
         /\ cur' = Position
         /\ i' = IF applied THEN history[Position].step ELSE Resolve(Position, FALSE)
         /\ Goto(IF applied THEN "nulls" ELSE "brecord")
  /\ j' = 0
  /\ UNCHANGED <<db, drift, history, op, top>>

\* rollbackPlans(), up to the null checks.
ReadRollback ==
  /\ pc = "read"
  /\ op = "rollback"
  /\ PositionOk
  /\ \/ /\ Position = 0
        /\ Finish("ok")
        /\ UNCHANGED <<cur, i>>
     \/ /\ Position > 0
        /\ history[Position].state \in Settled
        /\ ~Verified(Chain[Position].to)
        /\ Finish("drift")
        /\ UNCHANGED <<cur, i>>
     \/ /\ Position > 0
        /\ LET applied == history[Position].state \in Settled
               k       == IF applied THEN history[Position].step
                          ELSE Resolve(Position, FALSE)
           IN  /\ applied => Verified(Chain[Position].to)
               /\ cur' = Position
               /\ i' = k
               /\ IF k > 0 /\ Step(Position, k - 1).rollback = None
                  THEN Finish("irreversible")
                  ELSE Goto(IF applied THEN "nulls" ELSE "brecord")
  /\ j' = 0
  /\ UNCHANGED <<db, drift, history, op, top>>

\* One null check: a NULL in a column that becomes non-null again takes the
\* column's default, and stops the command when there is none.
NullCheck ==
  /\ pc = "nulls"
  /\ MoreChecks
  /\ LET c == NullChecks(cur)[j + 1]
     IN  \/ ~HasNulls(c, db) /\ j' = j + 1 /\ UNCHANGED <<db, pc, code>>
         \/ HasNulls(c, db) /\ c.default = None /\ Finish("nulls") /\ UNCHANGED <<db, j>>
         \/ /\ HasNulls(c, db)
            /\ c.default # None
            /\ db' = FillNulls(c, db)
            /\ j' = j + 1
            /\ UNCHANGED <<pc, code>>
  /\ UNCHANGED <<drift, history, op, top, cur, i>>

\* A faulty rollback that keeps the row as it is while it undoes steps.
RollbackUnrecorded ==
  /\ \/ pc = "nulls" /\ ~MoreChecks
     \/ pc = "brecord"
  /\ Goto("back")
  /\ UNCHANGED <<db, drift, history, op, top, cur, i, j>>

RollbackRecord ==
  /\ \/ pc = "nulls" /\ ~MoreChecks
     \/ pc = "brecord"
  /\ Record(cur, "rolling_back", i)
  /\ Goto("back")
  /\ UNCHANGED <<db, drift, op, top, cur, i, j>>

\* run(): the server runs the statement, or refuses it and the command fails.
Run(s, next) ==
  \/ /\ Accepts(s, db)
     /\ db' = Exec(s, db)
     /\ Goto(next)
  \/ /\ ~Accepts(s, db)
     /\ Finish("failed")
     /\ UNCHANGED db

\* The loop of rollbackPlans(), from the last step to the first.
Back ==
  /\ pc = "back"
  /\ i > 0
  /\ IF Step(cur, i - 1).rollback = None
     THEN Finish("irreversible") /\ UNCHANGED db
     ELSE Run(BackwardStatement(cur, i - 1, db), "unmark")
  /\ UNCHANGED <<drift, history, op, top, cur, i, j>>

Unmark ==
  /\ pc = "unmark"
  /\ history' = [history EXCEPT ![cur].step = i - 1]
  /\ i' = i - 1
  /\ Goto("back")
  /\ UNCHANGED <<db, drift, op, top, cur, j>>

\* The end of rollbackPlans(): the catalog has the schema before the plan,
\* and the row goes.
BackVerify ==
  /\ pc = "back"
  /\ i = 0
  /\ IF Verified(Chain[cur].from) THEN Goto("delete") ELSE Finish("verify")
  /\ UNCHANGED <<db, drift, history, op, top, cur, i, j>>

Delete ==
  /\ pc = "delete"
  /\ history' = [history EXCEPT ![cur] = None]
  /\ Finish("ok")
  /\ UNCHANGED <<db, drift, op, top, cur, i, j>>

\* The loop of applyPlans() over the plans that are not recorded.
NextPlan ==
  /\ pc = "next"
  /\ IF cur < top
     THEN /\ cur' = cur + 1
          /\ i' = 0
          /\ Record(cur + 1, "applying", 0)
          /\ Goto("step")
     ELSE /\ Finish("ok")
          /\ UNCHANGED <<history, cur, i>>
  /\ UNCHANGED <<db, drift, op, top, j>>

\* forward(): the steps before the finalize steps, then the comparison of the
\* catalog with the plan's target.
RunStep ==
  /\ pc = "step"
  /\ i < FinalizeStart(cur)
  /\ Run(ForwardStatement(cur, i, db), "mark")
  /\ UNCHANGED <<drift, history, op, top, cur, i, j>>

Mark ==
  /\ pc = "mark"
  /\ history' = [history EXCEPT ![cur].step = i + 1]
  /\ i' = i + 1
  /\ Goto("step")
  /\ UNCHANGED <<db, drift, op, top, cur, j>>

Verify ==
  /\ pc = "step"
  /\ i >= FinalizeStart(cur)
  /\ IF Verified(Chain[cur].to) THEN Goto("applied") ELSE Finish("verify")
  /\ UNCHANGED <<db, drift, history, op, top, cur, i, j>>

Applied ==
  /\ pc = "applied"
  /\ Record(cur, "applied", FinalizeStart(cur))
  /\ IF op = "apply" THEN Goto("next") ELSE Finish("ok")
  /\ UNCHANGED <<db, drift, op, top, cur, i, j>>

\* The loop of finalizePlans() over the applied plans, oldest first.
FinalizeNext ==
  /\ pc = "fnext"
  /\ LET todo == {p \in PlanIds : /\ cur < p
                                  /\ history[p] # None
                                  /\ history[p].state = "applied"}
     IN  IF todo = {}
         THEN Finish("ok") /\ UNCHANGED <<history, cur, i>>
         ELSE \E p \in todo :
                /\ \A q \in todo : p <= q
                /\ cur' = p
                /\ i' = FinalizeStart(p)
                /\ Record(p, "finalizing", FinalizeStart(p))
                /\ Goto("fstep")
  /\ UNCHANGED <<db, drift, op, top, j>>

\* finalizeFrom().
FinalizeStep ==
  /\ pc = "fstep"
  /\ i < NSteps(cur)
  /\ Run(Step(cur, i).statement, "fmark")
  /\ UNCHANGED <<drift, history, op, top, cur, i, j>>

FinalizeMark ==
  /\ pc = "fmark"
  /\ history' = [history EXCEPT ![cur].step = i + 1]
  /\ i' = i + 1
  /\ Goto("fstep")
  /\ UNCHANGED <<db, drift, op, top, cur, j>>

Done ==
  /\ pc = "fstep"
  /\ i >= NSteps(cur)
  /\ Record(cur, "done", NSteps(cur))
  /\ IF op = "finalize" THEN Goto("fnext") ELSE Finish("ok")
  /\ UNCHANGED <<db, drift, op, top, cur, i, j>>

-----------------------------------------------------------------------------
(* What happens around the commands.                                       *)

\* The command stops before its next statement: the event handler throws, a
\* lock wait times out, a row breaks a foreign key of SQLite, the connection or
\* the process is lost.
Stop ==
  /\ pc # "idle"
  /\ Finish("stopped")
  /\ UNCHANGED <<db, drift, history, op, top, cur, i, j>>

\* The application writes rows.
Write ==
  /\ Exclusive => pc = "idle"
  /\ db' \in Writes(db)
  /\ UNCHANGED <<drift, history, op, pc, top, cur, i, j, code>>

\* Someone adds an object to the schema without a plan, or takes it away.
Drift ==
  /\ drift' = ~drift
  /\ UNCHANGED <<db, history, op, pc, top, cur, i, j, code>>

Commands == {"apply", "recover", "rollback", "finalize"}

Command ==
  \/ ChainError \/ ReadSettled \/ ReadRecover \/ RecoverRecord \/ ReadRollback
  \/ NullCheck \/ RollbackRecord \/ Back \/ Unmark \/ BackVerify \/ Delete
  \/ NextPlan \/ RunStep \/ Mark \/ Verify \/ Applied
  \/ FinalizeNext \/ FinalizeStep \/ FinalizeMark \/ Done

Next ==
  \/ \E o \in Commands, n \in 0 .. Len(Chain) : Start(o, n)
  \/ Command
  \/ Stop
  \/ Write
  \/ Drift

Spec == Init /\ [][Next]_vars

\* A command that runs goes on, someone runs recover with the whole chain
\* again and again, and at some point commands no longer stop half way.
FairSpec ==
  /\ Spec
  /\ WF_vars(Command)
  /\ SF_vars(Start("recover", Len(Chain)))
  /\ <>[][~Stop]_vars

-----------------------------------------------------------------------------
(* Properties.                                                             *)

Labels == {"idle", "read", "rrecord", "nulls", "brecord", "back", "unmark", "delete",
           "next", "step", "mark", "applied", "fnext", "fstep", "fmark"}

Codes == {"running", "ok", "chain", "interrupted", "drift", "irreversible", "nulls", "failed", "verify",
          "stopped"}

\* The variables have their types, and the history has rows for the first
\* plans of the chain only.
TypeOK ==
  /\ db \in Databases
  /\ drift \in BOOLEAN
  /\ history \in [PlanIds -> Row \cup {None}]
  /\ op \in Commands
  /\ pc \in Labels
  /\ top \in 0 .. Len(Chain)
  /\ cur \in 0 .. Len(Chain)
  /\ i \in 0 .. MaxSteps
  /\ j \in Nat
  /\ code \in Codes

\* The numbers of steps of plan p that can be in effect by its history row:
\* one step of an applying or rolling back plan is uncertain.
ByRow(p) ==
  LET row == history[p]
  IN  IF row = None THEN {0}
      ELSE CASE row.state = "applying"     -> {row.step, row.step + 1} \cap 0 .. FinalizeStart(p)
             [] row.state = "rolling_back" -> {row.step - 1, row.step} \cap 0 .. FinalizeStart(p)
             [] row.state = "applied"      -> {FinalizeStart(p)}
             [] row.state = "finalizing"   -> row.step .. NSteps(p)
             [] row.state = "done"         -> {NSteps(p)}

\* The same by where the running command is: it has run the first i steps of
\* plan cur, and the next statement once more when that is a repeat step.
ByPosition ==
  CASE pc \in {"step", "rrecord"} ->
         {i} \cup {k \in {i + 1} : i < NSteps(cur) /\ Repeats(cur, i)}
    [] pc \in {"back", "brecord"} ->
         {i} \cup {k \in {i - 1} : i > 0 /\ Repeats(cur, i - 1)}
    [] pc = "mark"               -> {i + 1}
    [] pc = "unmark"             -> {i - 1}
    [] pc = "fstep"              -> i .. NSteps(cur)
    [] pc = "fmark"              -> i + 1 .. NSteps(cur)
    [] pc = "nulls"              -> {i}
    [] pc = "applied"            -> {FinalizeStart(cur)}
    [] pc = "delete"             -> {0}
    [] OTHER                     -> 0 .. MaxSteps

\* After any sequence of commands, stops, recoveries and rollbacks, the
\* database is one in which each plan has as many steps in effect as its row
\* says, give or take the one uncertain step: setStep() after every statement
\* and resolve() never lose count of it.
StepsInEffect ==
  \E e \in Counts :
    /\ InEffect(db, e)
    /\ \A p \in PlanIds : e[p] \in ByRow(p) /\ (p = cur => e[p] \in ByPosition)

\* The plans whose row says that they are in effect, and those with a finalize
\* step run.
Live == {p \in Recorded : history[p].state \in Settled \cup {"finalizing"}}

Dropped == {p \in Recorded : /\ history[p].state \in {"finalizing", "done"}
                             /\ history[p].step > FinalizeStart(p)}

\* Whenever no row is applying or rolling back, the schema of the database is
\* the one the chain gives after the recorded plans, whatever interrupted,
\* recovered and rolled back commands came before: a row becomes applied, and
\* a row is deleted, only behind a comparison of the catalog.
SettledMatches ==
  \A n \in 0 .. Len(Chain) :
    Recorded = 1 .. n /\ Live = Recorded => SchemaHash(db) = HashAfter(n)

\* A statement that works where its plan puts it is never refused, and the
\* final comparison never fails: resolve() continues where the plan stopped,
\* so that no step is skipped or run twice.  Excepted are the finalize steps,
\* rows that hold a NULL the rollback cannot restore, and drift.
NoStepFails ==
  [][/\ code' = "failed" /\ code # "failed" =>
          \/ history[cur].state = "finalizing"
          \/ \E c \in Range(NullChecks(cur)) : HasNulls(c, db)
     /\ code' = "verify" /\ code # "verify" => drift]_vars

Version == INSTANCE SchemaVersion WITH Length <- Len(Chain), live <- Live, dropped <- Dropped

\* The four commands, however they are interrupted, move the database one plan
\* at a time along the chain and never roll back a plan that dropped a hidden
\* table or column.
MovesOnePlan == Version!Spec

\* What a history row can hold: the finalize steps are counted only by a
\* finalizing or done plan, and only the last plan is applying or rolling back.
RowsFit ==
  \E n \in 0 .. Len(Chain) :
    /\ Recorded = 1 .. n
    /\ \A p \in 1 .. n - 1 : p \in Live
    /\ \A p \in 1 .. n :
         history[p].step \in
           CASE history[p].state = "applied"    -> {FinalizeStart(p)}
             [] history[p].state = "done"       -> {NSteps(p)}
             [] history[p].state = "finalizing" -> FinalizeStart(p) .. NSteps(p)
             [] OTHER                           -> 0 .. FinalizeStart(p)

\* What a running command has read from the history or the catalog stays true
\* until it uses it.
CommandFits ==
  /\ pc = "next" => Recorded = 1 .. cur /\ Live = Recorded
  /\ pc \in {"rrecord", "step", "mark", "applied", "nulls", "brecord", "back", "unmark", "delete"} =>
       cur > 0 /\ Recorded = 1 .. cur /\ i \in 0 .. FinalizeStart(cur)
  /\ pc \in {"step", "mark", "applied"} => history[cur].state = "applying"
  /\ pc \in {"back", "unmark", "delete"} => history[cur].state = "rolling_back"
  /\ pc = "rrecord" => history[cur].state \in {"applying", "rolling_back"}
  /\ pc \in {"step", "mark", "back", "unmark"} => history[cur].step = i
  /\ pc = "mark" => i < FinalizeStart(cur)
  /\ pc = "unmark" => i > 0
  /\ pc = "applied" => SchemaHash(db) = Chain[cur].to
  /\ pc = "delete" => SchemaHash(db) = Chain[cur].from
  /\ pc \in {"fstep", "fmark"} =>
       /\ cur \in Recorded
       /\ history[cur].state = "finalizing"
       /\ i \in history[cur].step .. NSteps(cur)
  /\ pc = "fmark" => i < NSteps(cur)

\* The inductive invariant.
Inv == TypeOK /\ RowsFit /\ CommandFits /\ StepsInEffect /\ SettledMatches

Interrupted == \E p \in Recorded : history[p].state \in {"applying", "rolling_back"}

\* recover continues an applying or rolling back plan to applied (or a
\* rollback in between undoes it), unless the schema drifted.
RecoverCompletes == Interrupted ~> (~Interrupted \/ drift)

\* docs/spec/plans.md:117: "An interrupted or failed plan stops at a known
\* step; `recover` continues it and `rollback` undoes it step by step."  A
\* recover with the whole chain is not refused by position(), and does not
\* fail on a statement.
RecoverContinues == op = "recover" /\ top = Len(Chain) => code \notin {"chain", "failed"}

-----------------------------------------------------------------------------
(* What the theorems assume of the chain: each statement does what its     *)
(* plan says when it runs where the plan puts it, and its effect tells     *)
(* whether it ran.  The assumptions speak about one statement at a time;   *)
(* that the commands keep to the order in which they apply is what the     *)
(* theorems show.                                                          *)

\* The plans before p are applied or further, and the plans after it have not
\* started.
Turn(p, e) ==
  \A q \in PlanIds : /\ q < p => e[q] \in FinalizeStart(q) .. NSteps(q)
                     /\ q > p => e[q] = 0

With(e, p, n) == [e EXCEPT ![p] = n]

\* The plans are linked by their hashes, and their finalize steps come last,
\* have an effect of their own and no rollback.
ASSUME ChainAssumption ==
  /\ MaxSteps \in Nat
  /\ Len(Chain) \in Nat
  /\ \A p \in PlanIds :
       /\ NSteps(p) \in 0 .. MaxSteps
       /\ Len(NullChecks(p)) \in Nat
       /\ DOMAIN NullChecks(p) = 1 .. Len(NullChecks(p))
       /\ Chain[p].from = HashAfter(p - 1)
       /\ FinalizeStart(p) \in 0 .. NSteps(p)
       /\ \A k \in 0 .. NSteps(p) - 1 :
            /\ Step(p, k).finalize <=> k >= FinalizeStart(p)
            /\ Step(p, k).finalize => ~Repeats(p, k) /\ Step(p, k).rollback = None

\* Rows and histories are not None.
ASSUME NoneAssumption == None \notin Row

\* No plan is in effect on the empty database.
ASSUME EmptyAssumption ==
  /\ EmptyDb \in Databases
  /\ InEffect(EmptyDb, [p \in PlanIds |-> 0])

\* A step that runs in its turn takes effect, a repeat step also when it runs
\* a second time.
ASSUME ForwardAssumption ==
  \A d \in Databases, e \in Counts, p \in PlanIds :
    InEffect(d, e) /\ Turn(p, e) =>
      \A k \in 0 .. FinalizeStart(p) - 1 :
        LET s == ForwardStatement(p, k, d)
        IN  e[p] = k \/ (Repeats(p, k) /\ e[p] = k + 1) =>
              /\ Accepts(s, d)
              /\ Exec(s, d) \in Databases
              /\ InEffect(Exec(s, d), With(e, p, k + 1))

\* A rollback undoes its step, if the server accepts it, as it does when no
\* column that becomes non-null holds a NULL.
ASSUME BackwardAssumption ==
  \A d \in Databases, e \in Counts, p \in PlanIds :
    InEffect(d, e) /\ Turn(p, e) =>
      \A k \in 0 .. FinalizeStart(p) - 1 :
        LET s == BackwardStatement(p, k, d)
        IN  /\ Step(p, k).rollback # None
            /\ e[p] = k + 1 \/ (Repeats(p, k) /\ e[p] = k)
            => /\ \/ Accepts(s, d)
                  \/ \E c \in Range(NullChecks(p)) : HasNulls(c, d)
               /\ Accepts(s, d) => /\ Exec(s, d) \in Databases
                                   /\ InEffect(Exec(s, d), With(e, p, k))

\* The effect of a step that is not a repeat step tells whether it ran.
ASSUME EffectAssumption ==
  \A d \in Databases, e \in Counts, p \in PlanIds :
    InEffect(d, e) /\ Turn(p, e) =>
      \A k \in 0 .. NSteps(p) - 1 :
        /\ ~Step(p, k).finalize /\ ~Repeats(p, k) =>
             /\ e[p] = k /\ Holds(Step(p, k).effect, d) => InEffect(d, With(e, p, k + 1))
             /\ e[p] = k + 1 /\ ~Holds(Step(p, k).effect, d) => InEffect(d, With(e, p, k))
        /\ Step(p, k).finalize =>
             (FinalizeStart(p) <= e[p] => (Holds(Step(p, k).effect, d) <=> e[p] > k))

\* A finalize step that the server accepts takes effect, and it is accepted
\* only once.
ASSUME FinalizeAssumption ==
  \A d \in Databases, e \in Counts, p \in PlanIds :
    InEffect(d, e) =>
      \A k \in FinalizeStart(p) .. NSteps(p) - 1 :
        LET s == Step(p, k).statement
        IN  e[p] >= k /\ Accepts(s, d) => /\ e[p] = k
                                          /\ Exec(s, d) \in Databases
                                          /\ InEffect(Exec(s, d), With(e, p, k + 1))
                                          /\ SchemaHash(Exec(s, d)) = SchemaHash(d)

\* The schema is the one of the chain when whole plans are in effect.
ASSUME HashAssumption ==
  \A d \in Databases, e \in Counts, p \in PlanIds :
    InEffect(d, e) /\ Turn(p, e) =>
      /\ e[p] = FinalizeStart(p) => SchemaHash(d) = Chain[p].to
      /\ e[p] = 0 => SchemaHash(d) = Chain[p].from

\* Writing rows changes no schema.
ASSUME RowsAssumption ==
  \A d \in Databases :
    /\ \A w \in Writes(d) : /\ w \in Databases
                            /\ SchemaHash(w) = SchemaHash(d)
                            /\ \A e \in Counts : InEffect(d, e) => InEffect(w, e)
    /\ \A p \in PlanIds : \A c \in Range(NullChecks(p)) :
         LET w == FillNulls(c, d)
         IN  /\ w \in Databases
             /\ SchemaHash(w) = SchemaHash(d)
             /\ \A e \in Counts : InEffect(d, e) => InEffect(w, e)
=============================================================================

---------------------------- MODULE Transaction ----------------------------
(***************************************************************************)
(* transaction() of database.ts: the begin, the callback with its nested   *)
(* transactions, the end of the transaction on its pooled session, and the *)
(* retry after a deadlock.  Every statement may fail in the ways its       *)
(* database knows, and a subscriber of the statement events may throw      *)
(* after it, which the code reports as a SUBSCRIBER error of the statement. *)
(*                                                                         *)
(* A write is <<attempt, number>>.  mine is what the callback of each flow *)
(* (0 for the outer one, f for nested transaction f) has done by its own   *)
(* account; the database is not asked.                                     *)
(***************************************************************************)
EXTENDS Integers, Sequences

CONSTANTS
  Worlds,      \* the circumstances of a call, see World
  Flows,       \* the nested transactions that can be open at a time
  Retry,       \* options.retry
  MaxCalls     \* bound on the writes and nested transactions of one attempt

\* A world: the database, the failures its statements meet, the statements at
\* whose event a subscriber throws, whether it does so for a failed statement
\* too (mute), the errors a callback catches (of a statement, of an inner
\* transaction, of one whose rollback failed), what it calls besides, and
\* whether it goes on without awaiting its nested transactions (overlap).
World ==
  [dialect : {"mysql", "postgres", "sqlite"},
   faults  : SUBSET {"fail", "deadlock", "rollback", "lost", "cancel"},
   throws  : SUBSET {"level", "begin", "local", "mode", "lock", "insert", "savepoint",
                     "release", "rollback_to", "clean", "commit", "rollback"},
   mute    : BOOLEAN,
   catches : SUBSET {"statement", "inner", "broken"},
   holding : SUBSET {"lock", "local"},
   overlap : BOOLEAN]

ASSUME TransactionAssumption ==
  /\ \A w \in Worlds : w \in World
  /\ Flows \subseteq Nat \ {0}
  /\ Retry \in Nat
  /\ MaxCalls \in Nat

VARIABLES
  world, opt, \* the circumstances; isolation, readOnly or timeoutMs is given
  server,     \* the session as the server sees it
  committed,  \* the writes of this call that are committed
  session,    \* the pool has it ("pool"), a transaction ("held"), or "closed"
  frame,      \* the TxFrame
  nest,       \* the nested transactions
  mine,
  pc, step,   \* where the call is; how many statements of begin() it has run
  attempt, n, \* the attempt and its number of calls
  code,       \* the error of the call, "ok" for none
  cleanup,    \* the first error of the cleanup statements in finish()
  discard

client == <<session, frame, nest, mine, pc, step, attempt, n, code, cleanup, discard>>
vars == <<world, opt, server, committed, client>>

dialect == world.dialect

-----------------------------------------------------------------------------
(* The database.                                                           *)

\* tx is "savepoint" in a transaction that a SAVEPOINT of SQLite opened.
Fresh == [alive |-> TRUE, tx |-> "none", work |-> {}, marks |-> <<>>, left |-> {}]

Ended(s) == [s EXCEPT !.work = {}, !.marks = <<>>, !.tx = "none"]

\* The failures that a statement of the kind can meet.
May(kind) ==
  LET sqlite == dialect = "sqlite"
  IN  world.faults \cap
       CASE kind = "insert" -> IF sqlite THEN {"fail", "rollback"} ELSE {"fail", "deadlock", "lost"}
         [] kind = "commit" -> IF sqlite THEN {"fail"} ELSE {"fail", "lost"} \cup {f \in {"deadlock"} : dialect = "postgres"}
         [] kind = "begin"  -> IF sqlite THEN {"fail"} ELSE {"lost"}
         [] kind \in {"level", "local", "lock", "clean"} -> IF sqlite THEN {} ELSE {"fail", "lost"}
         [] OTHER -> IF sqlite THEN {} ELSE {"lost"}

\* What can come of a statement: what the server does, and whether a subscriber
\* throws.  can: the server accepts it in the state it is in.
Results(kind, can) ==
  {res \in (IF ~server.alive THEN {"lost"} ELSE IF can THEN {"ok"} \cup May(kind) ELSE {"fail"}) \X BOOLEAN :
    res[2] => kind \in world.throws /\ (res[1] # "ok" => world.mute)}

\* observed(): the subscriber's error takes the place of the statement's.
Raised(res) ==
  IF res[2] THEN "SUBSCRIBER"
  ELSE CASE res[1] = "ok"       -> "ok"
         [] res[1] = "deadlock" -> "DEADLOCK"
         [] res[1] = "lost"     -> "LOST"
         [] OTHER               -> "DRIVER"

\* The session after a failed statement.
Failed(r) ==
  CASE r = "lost" -> [Fresh EXCEPT !.alive = FALSE]
    [] r = "rollback" \/ (r = "deadlock" /\ dialect = "mysql") -> Ended(server)
    [] OTHER -> IF dialect = "postgres" /\ server.tx = "open" THEN [server EXCEPT !.tx = "aborted"] ELSE server

Named(name) == {i \in DOMAIN server.marks : server.marks[i].name = name}

Last(name) == CHOOSE i \in Named(name) : \A j \in Named(name) : j <= i

\* Outside a transaction MySQL ignores a SAVEPOINT and SQLite begins one.
Save(name) ==
  IF server.tx = "none" /\ dialect = "mysql" THEN server
  ELSE [server EXCEPT !.marks = Append(@, [name |-> name, before |-> server.work]),
                      !.tx = IF @ = "none" THEN "savepoint" ELSE @]

\* A release takes the savepoints after it along.  The one that began the
\* transaction commits it.
Released(name) ==
  IF server.tx = "savepoint" /\ Last(name) = 1 THEN Ended(server)
  ELSE [server EXCEPT !.marks = SubSeq(@, 1, Last(name) - 1)]

ReleaseCommits(name) == IF server.tx = "savepoint" /\ Last(name) = 1 THEN server.work ELSE {}

RolledBack(name) ==
  [server EXCEPT !.work = server.marks[Last(name)].before,
                 !.marks = SubSeq(@, 1, Last(name)),
                 !.tx = IF @ = "aborted" THEN "open" ELSE @]

-----------------------------------------------------------------------------
(* begin() and the end of a call.                                          *)

\* The statements of begin().
Steps ==
  CASE dialect = "mysql"    -> IF opt THEN <<"level", "begin">> ELSE <<"begin">>
    [] dialect = "postgres" -> IF opt THEN <<"begin", "local">> ELSE <<"begin">>
    [] dialect = "sqlite"   -> IF opt THEN <<"begin", "mode">> ELSE <<"begin">>

NoFlow == [pc |-> "out", parent |-> 0, name |-> 0, before |-> {}, err |-> "ok", bad |-> FALSE]

NewFrame(o) ==
  [savepoints |-> 0, inserted |-> {}, canceled |-> FALSE,
   todo |-> IF dialect = "sqlite" /\ o THEN {"mode"} ELSE {}]

Init ==
  /\ world \in Worlds
  /\ opt = FALSE
  /\ server = Fresh
  /\ committed = {}
  /\ session = "pool"
  /\ frame = NewFrame(FALSE)
  /\ nest = [f \in Flows |-> NoFlow]
  /\ mine = [g \in Flows \cup {0} |-> {}]
  /\ pc = "idle"
  /\ step = 0
  /\ attempt = 0
  /\ n = 0
  /\ code = "ok"
  /\ cleanup = "ok"
  /\ discard = FALSE

\* run() takes a session of the pool, or a new one when it was closed.
Reserve(o) ==
  /\ session' = "held"
  /\ server' = IF session = "closed" THEN Fresh ELSE server
  /\ frame' = NewFrame(o)
  /\ mine' = [g \in Flows \cup {0} |-> {}]
  /\ pc' = "begin"
  /\ code' = "ok"
  /\ UNCHANGED <<world, nest, step, n, cleanup, discard>>

Call(o) ==
  /\ pc = "idle"
  /\ opt' = o
  /\ attempt' = 0
  /\ committed' = {}
  /\ Reserve(o)

\* A faulty loop that does not count its attempts.
AgainUncounted ==
  /\ pc = "retry"
  /\ Reserve(opt)
  /\ UNCHANGED <<opt, attempt, committed>>

\* The next attempt, after the wait.
Again ==
  /\ pc = "retry"
  /\ attempt' = attempt + 1
  /\ Reserve(opt)
  /\ UNCHANGED <<opt, committed>>

\* Nothing refers to the frame any more; mine[0] stays for the properties.
Forget ==
  /\ frame' = NewFrame(FALSE)
  /\ nest' = [f \in Flows |-> NoFlow]
  /\ mine' = [g \in Flows \cup {0} |-> IF g = 0 THEN mine[0] ELSE {}]
  /\ step' = 0
  /\ n' = 0
  /\ cleanup' = "ok"
  /\ discard' = FALSE

\* A faulty loop that also tries again after a lost connection.
GiveBackLost(s, e, d) ==
  LET closes == d /\ dialect # "sqlite"
  IN  /\ session' = IF closes THEN "closed" ELSE "pool"
      /\ server' = IF closes THEN Fresh ELSE s
      /\ code' = e
      /\ pc' = IF e \in {"DEADLOCK", "LOST"} /\ attempt < Retry THEN "retry" ELSE "idle"
      /\ Forget
      /\ UNCHANGED <<world, opt, attempt>>

\* The session s goes back to the pool, or is closed, which ends its
\* transaction; the one SQLite connection stays.  A DEADLOCK error runs the
\* whole transaction again.
GiveBack(s, e, d) ==
  LET closes == d /\ dialect # "sqlite"
  IN  /\ session' = IF closes THEN "closed" ELSE "pool"
      /\ server' = IF closes THEN Fresh ELSE s
      /\ code' = e
      /\ pc' = IF e = "DEADLOCK" /\ attempt < Retry THEN "retry" ELSE "idle"
      /\ Forget
      /\ UNCHANGED <<world, opt, attempt>>

\* The session after a statement of begin() that worked.
Begun(kind) ==
  CASE kind = "level" -> [server EXCEPT !.left = @ \cup {"level"}]
    [] kind = "begin" -> [server EXCEPT !.tx = "open", !.left = @ \ {"level"}]
    [] kind = "mode"  -> [server EXCEPT !.left = @ \cup {"mode"}]
    [] kind = "local" -> server

\* One statement of begin().  A failure before BEGIN has worked closes the
\* session; a later one ends the transaction like a failed callback.
BeginResult(kind, res) ==
  LET s     == IF res[1] = "ok" THEN Begun(kind) ELSE Failed(res[1])
      e     == Raised(res)
      began == (kind = "begin" /\ e = "SUBSCRIBER") \/ \E k \in 1 .. step : Steps[k] = "begin"
  IN  \/ /\ e = "ok"
         /\ server' = s
         /\ step' = step + 1
         /\ pc' = IF step + 1 = Len(Steps) THEN "callback" ELSE "begin"
         /\ UNCHANGED <<world, opt, session, frame, nest, mine, attempt, n, code, cleanup, discard>>
      \/ e # "ok" /\ ~began /\ GiveBack(s, e, TRUE)
      \/ /\ e # "ok" /\ began
         /\ server' = s
         /\ code' = e
         /\ pc' = "finish"
         /\ UNCHANGED <<world, opt, session, frame, nest, mine, step, attempt, n, cleanup, discard>>

Begin ==
  /\ pc = "begin"
  /\ LET kind == Steps[step + 1]
     IN  \E res \in Results(kind, ~(dialect = "sqlite" /\ kind = "begin" /\ server.tx # "none")) :
           BeginResult(kind, res)
  /\ UNCHANGED committed

-----------------------------------------------------------------------------
(* The callback and its nested transactions.                               *)

Active(g) == IF g = 0 THEN TRUE ELSE nest[g].pc = "in"

\* The flow g goes on with its next statement.  A callback that awaits its
\* nested transaction has none meanwhile.
Runs(g) ==
  /\ pc = "callback"
  /\ Active(g)
  /\ world.overlap \/ \A f \in Flows : nest[f].pc # "out" => nest[f].parent # g

\* The callback of flow g throws: a nested transaction is undone, the outer one
\* ends.
Throw(g, e, flows) ==
  IF g = 0 THEN pc' = "finish" /\ code' = e /\ nest' = flows
  ELSE nest' = [flows EXCEPT ![g].pc = "undo", ![g].err = e] /\ UNCHANGED <<pc, code>>

\* Flow g gets the error e of a statement or of a nested transaction; what is
\* left of the nested transactions is flows.
Raise(g, e, what, flows) ==
  \/ (what \in world.catches \/ ~Active(g)) /\ nest' = flows /\ UNCHANGED <<pc, code>>
  \/ Active(g) /\ Throw(g, e, flows)

Continue(flows) == nest' = flows /\ UNCHANGED <<pc, code>>

\* A write.  Once the signal is aborted, a statement ends with CANCELED whether
\* it has run or not; SQLite is not asked.
Write(g) ==
  /\ Runs(g)
  /\ n < MaxCalls
  /\ n' = n + 1
  /\ \E res \in IF frame.canceled /\ dialect = "sqlite" THEN {<<"fail", FALSE>>}
                ELSE Results("insert", server.tx # "aborted") :
       LET w    == <<attempt, n>>
           done == res[1] = "ok"
           e    == IF frame.canceled THEN "CANCELED" ELSE Raised(res)
       IN  /\ server' = IF ~done THEN Failed(res[1])
                        ELSE IF server.tx = "none" THEN server ELSE [server EXCEPT !.work = @ \cup {w}]
           /\ committed' = IF done /\ server.tx = "none" THEN committed \cup {w} ELSE committed
           /\ mine' = IF done THEN [mine EXCEPT ![g] = @ \cup {w}] ELSE mine
           /\ frame' = IF e = "ok" THEN [frame EXCEPT !.inserted = @ \cup {w}] ELSE frame
           /\ IF e = "ok" THEN Continue(nest) ELSE Raise(g, e, "statement", nest)
  /\ UNCHANGED <<world, opt, session, step, attempt, cleanup, discard>>

\* lock() and setLocal() of MySQL, whose effect outlives the transaction: the
\* frame notes what finish() has to undo once the statement has returned.
Hold(g, x) ==
  /\ Runs(g)
  /\ dialect = "mysql"
  /\ x \notin frame.todo
  /\ \E res \in Results("lock", TRUE) :
       LET e == Raised(res)
       IN  /\ server' = IF res[1] = "ok" THEN [server EXCEPT !.left = @ \cup {x}] ELSE Failed(res[1])
           /\ frame' = IF e = "ok" THEN [frame EXCEPT !.todo = @ \cup {x}] ELSE frame
           /\ IF e = "ok" THEN Continue(nest) ELSE Raise(g, e, "statement", nest)
  /\ UNCHANGED <<world, opt, committed, session, mine, step, attempt, n, cleanup, discard>>

\* savepoint(): flow g starts a nested transaction, f, the first name that is
\* free.
Enter(g, f) ==
  /\ Runs(g)
  /\ n < MaxCalls
  /\ n' = n + 1
  /\ nest[f].pc = "out"
  /\ \A h \in Flows : h < f => nest[h].pc # "out"
  /\ \E res \in Results("savepoint", server.tx # "aborted") :
       LET e    == Raised(res)
           name == frame.savepoints + 1
       IN  /\ server' = IF res[1] = "ok" THEN Save(name) ELSE Failed(res[1])
           /\ frame' = IF e = "ok" THEN [frame EXCEPT !.savepoints = name] ELSE frame
           /\ mine' = [mine EXCEPT ![f] = {}]
           /\ IF e = "ok"
              THEN Continue([nest EXCEPT ![f] = [NoFlow EXCEPT !.pc = "in", !.parent = g, !.name = name,
                                                               !.before = frame.inserted]])
              ELSE Raise(g, e, "inner", nest)
  /\ UNCHANGED <<world, opt, committed, session, step, attempt, cleanup, discard>>

\* savepointStep(): nothing is sent when SQLite has ended the transaction.
Skipped == dialect = "sqlite" /\ server.tx = "none"

ReleaseResults(f) ==
  IF Skipped THEN {<<"skipped", FALSE>>}
  ELSE Results("release", Named(nest[f].name) # {} /\ server.tx # "aborted")

ReleaseEffect(f, r) ==
  /\ server' = CASE r = "ok" -> Released(nest[f].name)
                 [] r = "skipped" -> server
                 [] OTHER -> Failed(r)
  /\ committed' = IF r = "ok" THEN committed \cup ReleaseCommits(nest[f].name) ELSE committed

Out(f) == [nest EXCEPT ![f] = NoFlow]

\* A faulty finally that keeps the facts of a savepoint rolled back.
LeaveKeeping(f, kept) == frame' = [frame EXCEPT !.savepoints = @ - 1]

\* The finally of savepoint(); the facts of wasInserted() go back unless the
\* savepoint was released after its callback.
Leave(f, kept) ==
  frame' = [frame EXCEPT !.savepoints = @ - 1, !.inserted = IF kept THEN @ ELSE nest[f].before]

\* The callback of f returns, and its savepoint is released.
Resolve(f) ==
  /\ Runs(f)
  /\ \E res \in ReleaseResults(f) :
       LET e == IF res[1] = "skipped" THEN "ok" ELSE Raised(res)
           g == nest[f].parent
       IN  /\ ReleaseEffect(f, res[1])
           /\ Leave(f, e = "ok")
           /\ mine' = [mine EXCEPT ![g] = @ \cup mine[f], ![f] = {}]
           /\ IF e = "ok" THEN Continue(Out(f)) ELSE Raise(g, e, "inner", Out(f))
  /\ UNCHANGED <<world, opt, session, step, attempt, n, cleanup, discard>>

\* A faulty end of a failed callback that only releases the savepoint.
UndoToNothing(f) ==
  /\ pc = "callback"
  /\ nest[f].pc = "undo"
  /\ nest' = [nest EXCEPT ![f].pc = "undone"]
  /\ UNCHANGED <<world, opt, server, committed, session, frame, mine, pc, step, attempt, n, code, cleanup, discard>>

\* The callback of f has failed: ROLLBACK TO SAVEPOINT, then RELEASE, whatever
\* came of the first.
UndoTo(f) ==
  /\ pc = "callback"
  /\ nest[f].pc = "undo"
  /\ \E res \in IF Skipped THEN {<<"skipped", FALSE>>} ELSE Results("rollback_to", Named(nest[f].name) # {}) :
       /\ server' = CASE res[1] = "ok" -> RolledBack(nest[f].name)
                      [] res[1] = "skipped" -> server
                      [] OTHER -> Failed(res[1])
       /\ nest' = [nest EXCEPT ![f].pc = "undone", ![f].bad = res[1] # "skipped" /\ Raised(res) # "ok"]
  /\ UNCHANGED <<world, opt, committed, session, frame, mine, pc, step, attempt, n, code, cleanup, discard>>

UndoRelease(f) ==
  /\ pc = "callback"
  /\ nest[f].pc = "undone"
  /\ \E res \in ReleaseResults(f) :
       LET bad == nest[f].bad \/ (res[1] # "skipped" /\ Raised(res) # "ok")
       IN  /\ ReleaseEffect(f, res[1])
           /\ Leave(f, FALSE)
           /\ mine' = [mine EXCEPT ![f] = {}]
           /\ Raise(nest[f].parent, IF bad THEN "ROLLBACK" ELSE nest[f].err,
                    IF bad THEN "broken" ELSE "inner", Out(f))
  /\ UNCHANGED <<world, opt, session, step, attempt, n, cleanup, discard>>

Return ==
  /\ Runs(0)
  /\ pc' = "finish"
  /\ UNCHANGED <<world, opt, server, committed, session, frame, nest, mine, step, attempt, n, code, cleanup, discard>>

\* The callback throws an error of its own, or a transactionConflict().
AppThrow(g, e) ==
  /\ Runs(g)
  /\ Throw(g, e, nest)
  /\ UNCHANGED <<world, opt, server, committed, session, frame, mine, step, attempt, n, cleanup, discard>>

\* The signal of the connection handle is aborted.
Cancel ==
  /\ pc = "callback"
  /\ "cancel" \in world.faults
  /\ ~frame.canceled
  /\ frame' = [frame EXCEPT !.canceled = TRUE]
  /\ UNCHANGED <<world, opt, server, committed, session, nest, mine, pc, step, attempt, n, code, cleanup, discard>>

-----------------------------------------------------------------------------
(* finish(): commit when code is still "ok".                               *)

\* A cancelled transaction closes its session instead of a ROLLBACK.
Drops == code # "ok" /\ dialect # "sqlite" /\ frame.canceled

Drop ==
  /\ pc = "finish"
  /\ Drops
  /\ GiveBack(server, code, TRUE)
  /\ UNCHANGED committed

\* A faulty cleanup whose failures do not close the session.
CleanedAnyway(x, res) ==
  /\ server' = IF res[1] = "ok" THEN [server EXCEPT !.left = @ \ {x}] ELSE Failed(res[1])
  /\ frame' = [frame EXCEPT !.todo = @ \ {x}]
  /\ cleanup' = IF cleanup = "ok" THEN Raised(res) ELSE cleanup
  /\ UNCHANGED discard

\* One cleanup statement; all of them are tried.
Cleaned(x, res) ==
  /\ server' = IF res[1] = "ok" THEN [server EXCEPT !.left = @ \ {x}] ELSE Failed(res[1])
  /\ frame' = [frame EXCEPT !.todo = @ \ {x}]
  /\ cleanup' = IF cleanup = "ok" THEN Raised(res) ELSE cleanup
  /\ discard' = (discard \/ Raised(res) \notin {"ok", "SUBSCRIBER"})

Clean(x) ==
  /\ pc = "finish"
  /\ ~Drops
  /\ x \in frame.todo
  /\ x = "local" => "lock" \notin frame.todo
  /\ \E res \in Results("clean", TRUE) : Cleaned(x, res)
  /\ UNCHANGED <<world, opt, committed, session, nest, mine, pc, step, attempt, n, code>>

\* A faulty choice that commits after a failed callback.
CommitsAnyway == cleanup = "ok"

Commits == code = "ok" /\ cleanup = "ok"

\* The session after a COMMIT.
AfterCommit(r) ==
  CASE r = "lost" -> Failed(r)
    [] r \notin {"ok", "lost"} /\ dialect = "sqlite" -> server
    [] OTHER -> Ended(server)

\* COMMIT.  PostgreSQL answers the COMMIT of an aborted transaction with a
\* ROLLBACK and no error, MySQL a COMMIT without a transaction with nothing; a
\* lost COMMIT may have worked.  After a failed one SQLite tells whether the
\* transaction is open, which is then rolled back; the session of another
\* database is closed.
Commit ==
  /\ pc = "finish"
  /\ frame.todo = {}
  /\ Commits
  /\ \E res \in Results("commit", dialect = "sqlite" => server.tx # "none"), worked \in BOOLEAN :
       LET e     == Raised(res)
           after == AfterCommit(res[1])
       IN  /\ IF res[1] = "lost" THEN worked => server.alive ELSE worked <=> res[1] = "ok"
           /\ committed' = IF worked /\ server.tx \in {"open", "savepoint"} THEN committed \cup server.work ELSE committed
           /\ \/ e \in {"ok", "SUBSCRIBER"} /\ GiveBack(after, e, FALSE)
              \/ /\ e \notin {"ok", "SUBSCRIBER"}
                 /\ dialect # "sqlite" \/ after.tx = "none"
                 /\ GiveBack(after, e, TRUE)
              \/ /\ e \notin {"ok", "SUBSCRIBER"}
                 /\ dialect = "sqlite" /\ after.tx # "none"
                 /\ server' = after
                 /\ pc' = "uncommit"
                 /\ code' = e
                 /\ UNCHANGED <<world, opt, session, frame, nest, mine, step, attempt, n, cleanup, discard>>

Uncommit ==
  /\ pc = "uncommit"
  /\ \E res \in Results("rollback", TRUE) :
       GiveBack(IF res[1] = "ok" THEN Ended(server) ELSE Failed(res[1]),
                IF Raised(res) = "ok" THEN code ELSE "ROLLBACK", FALSE)
  /\ UNCHANGED committed

\* The error of the call after its rollback, which ended with e.
EndError(e) ==
  CASE e # "ok" \/ (code # "ok" /\ cleanup # "ok") -> "ROLLBACK"
    [] e = "ok" /\ code = "ok"                      -> cleanup
    [] OTHER                                        -> code

Rollback ==
  /\ pc = "finish"
  /\ ~Drops
  /\ frame.todo = {}
  /\ ~Commits
  /\ \E res \in IF Skipped THEN {<<"ok", FALSE>>} ELSE Results("rollback", TRUE) :
       GiveBack(IF res[1] = "ok" THEN Ended(server) ELSE Failed(res[1]), EndError(Raised(res)),
                discard \/ Raised(res) \notin {"ok", "SUBSCRIBER"})
  /\ UNCHANGED committed

Client ==
  \/ Again \/ Begin \/ Drop \/ Commit \/ Uncommit \/ Rollback
  \/ \E x \in {"mode", "lock", "local"} : Clean(x)
  \/ \E f \in Flows : UndoTo(f) \/ UndoRelease(f)

Callback ==
  \/ \E g \in Flows \cup {0} :
       \/ Write(g)
       \/ \E x \in world.holding : Hold(g, x)
       \/ \E f \in Flows : Enter(g, f)
       \/ \E e \in {"APP", "DEADLOCK"} : AppThrow(g, e)
  \/ \E f \in Flows : Resolve(f)
  \/ Return
  \/ Cancel

Next == (\E o \in BOOLEAN : Call(o)) \/ Client \/ Callback

Spec == Init /\ [][Next]_vars

\* The event loop runs what is ready, the database answers, and the callbacks
\* end.
FairSpec ==
  /\ Spec
  /\ WF_vars(Client)
  /\ \A g \in Flows \cup {0} : SF_vars(AppThrow(g, "DEADLOCK") \/ (IF g = 0 THEN Return ELSE Resolve(g)))

-----------------------------------------------------------------------------
(* Properties.                                                             *)

Errors == {"ok", "APP", "DEADLOCK", "DRIVER", "LOST", "CANCELED", "SUBSCRIBER", "ROLLBACK"}

Written == (0 .. Retry) \X (0 .. MaxCalls)

\* Types of the session and of transaction() and its frame: the attempts stay
\* within `retry`, and an error is one of the codes the client reports.
TypeOK ==
  /\ server.tx \in {"none", "open", "aborted", "savepoint"}
  /\ server.work \subseteq Written
  /\ server.left \subseteq {"level", "mode", "lock", "local"}
  /\ committed \subseteq Written
  /\ session \in {"pool", "held", "closed"}
  /\ frame.savepoints \in Nat
  /\ \A f \in Flows : nest[f].pc \in {"out", "in", "undo", "undone"} /\ nest[f].err \in Errors
  /\ pc \in {"idle", "retry", "begin", "callback", "finish", "uncommit"}
  /\ attempt \in 0 .. Retry
  /\ code \in Errors /\ cleanup \in Errors

\* src/packages/ts/src/database.ts:1025: "A session returned to the pool is either
\* clean or discarded."  Between two calls no session is held, and the one in the
\* pool has no transaction, named lock, value or mode of the call before.
CleanOrDiscarded ==
  pc \in {"idle", "retry"} =>
    \/ session = "closed"
    \/ session = "pool" /\ server.alive /\ server.tx = "none" /\ server.left = {}

\* docs/spec/interfaces.md:160: "A callback error or exception rolls back the
\* transaction; otherwise the transaction commits and the callback result is
\* returned."  A call that returns has committed what its callback did.
ReturnCommits == pc = "idle" /\ code = "ok" => committed = mine[0]

\* The other half: a call that fails has committed nothing, of no attempt; only
\* an error of the COMMIT itself leaves open whether all of it is committed.
FailureUndoes ==
  pc = "idle" /\ code # "ok" =>
    committed = {} \/ (code \in {"SUBSCRIBER", "LOST"} /\ committed = mine[0])

\* All or nothing: what a call reports is what the database has.
AllOrNothing == ReturnCommits /\ FailureUndoes

\* docs/spec/interfaces.md:174: "An inner failure rolls back only the inner work
\* unless the outer callback returns it."  The open transaction holds the work of
\* its callbacks, without that of the nested transactions that have failed.
InnerOnly ==
  pc = "callback" /\ server.tx = "open" =>
    server.work = UNION {mine[g] : g \in {h \in Flows : nest[h].pc \in {"in", "undo"}} \cup {0}}

Settling == \E f \in Flows : nest[f].pc = "undone"

\* wasInserted() never reports a row that a savepoint has taken back.
InsertedSound == pc = "callback" /\ server.tx = "open" /\ ~Settling => frame.inserted \subseteq server.work

\* A nested transaction that failed has taken back its own work and its own
\* inserted facts, and no others.
NestedSound == InnerOnly /\ InsertedSound

\* Every call ends, however often it is tried again.
EveryCallEnds == pc # "idle" ~> pc = "idle"

-----------------------------------------------------------------------------
(* The circumstances in which the module is model checked.                 *)

Databases == {"mysql", "postgres", "sqlite"}

\* The statements whose events a subscriber may fail at.  GET_LOCK is left out:
\* the code forgets a lock whose subscriber failed.
Subscribed == {"level", "begin", "local", "mode", "insert", "savepoint",
               "release", "rollback_to", "clean", "commit", "rollback"}

Quiet(d, faults, catches) ==
  [dialect |-> d, faults |-> faults, throws |-> {}, mute |-> FALSE,
   catches |-> catches, holding |-> {}, overlap |-> FALSE]

Loud(d, faults, catches) ==
  [Quiet(d, faults, catches) EXCEPT !.throws = Subscribed, !.holding = {"lock", "local"}]

\* Callbacks that go on after a failed nested transaction, callbacks that catch
\* nothing on a SQLite that may roll everything back, and callbacks that catch
\* failed statements where a failed statement leaves the transaction as it was.
Lawful ==
  {Loud(d, {"fail", "deadlock", "lost", "cancel"}, {"inner"}) : d \in Databases}
    \cup {Loud("sqlite", {"fail", "rollback", "cancel"}, {})}
    \cup {Quiet(d, {"fail", "lost"}, {"statement", "inner"}) : d \in {"mysql", "sqlite"}}
=============================================================================

----------------------------- MODULE NestedProofs -----------------------------
(***************************************************************************)
(* A call of transaction() commits all of its callback's work or none, and *)
(* a nested transaction that fails takes back its own work only: for every *)
(* number of attempts, writes and nested transactions, at every depth, on  *)
(* worlds that are Reported and Faithful.                                  *)
(*                                                                         *)
(* Neither property is inductive.  NestedInv adds what the open            *)
(* transaction has at each moment: the work of the callbacks that are open *)
(* (BelowIn), with a savepoint of each nested one in the order of their    *)
(* depths (MarksIn), the nested transactions being a stack (StackIn); and  *)
(* when the database may have ended the transaction by itself, that the    *)
(* callbacks are already on their way out (CallbackInv).                   *)
(***************************************************************************)
EXTENDS TransactionProofs

\* What the callbacks must respect for the properties to hold: they await their
\* nested transactions, and none of them goes on after an error that may have ended
\* or aborted its transaction: a failed statement of PostgreSQL, a failed statement
\* or a rollback that failed on MySQL where deadlocks occur, a failed statement or
\* nested transaction of a SQLite that rolls back by itself.
Faithful ==
  \A w \in Worlds :
    /\ ~w.overlap
    /\ w.dialect = "postgres" => "statement" \notin w.catches
    /\ w.dialect = "mysql" /\ "deadlock" \in w.faults => w.catches \subseteq {"inner"}
    /\ w.dialect = "sqlite" /\ "rollback" \in w.faults => w.catches \subseteq {"broken"}

\* The circumstances of the model checked run are ones that the theorems are about.
LEMMA LawfulWorlds == ASSUME Worlds = Lawful PROVE Reported /\ Faithful
<1>1. \A d, f, c : LET q == Quiet(d, f, c) IN q.dialect = d /\ q.faults = f /\ q.catches = c /\ ~q.overlap /\ ~q.mute /\ q.throws = {}
  BY DEF Quiet
<1>2. \A d, f, c : LET q == Loud(d, f, c) IN q.dialect = d /\ q.faults = f /\ q.catches = c /\ ~q.overlap /\ ~q.mute /\ q.throws = Subscribed
  BY DEF Quiet, Loud
<1>3. "lock" \notin Subscribed
  BY DEF Subscribed
<1> QED
  BY <1>1, <1>2, <1>3 DEF Lawful, Reported, Faithful

\* What the server keeps of a transaction.
Ledger(s) ==
  /\ s.tx \in {"none", "open", "aborted"}
  /\ s.work \in SUBSET Writes /\ s.marks \in Seq(Marks)
  /\ s.tx = "none" => s.work = {} /\ s.marks = <<>>
  /\ ~s.alive => s.tx = "none"

\* The database may end the transaction at a failed write.
Ends == (dialect = "mysql" /\ "deadlock" \in world.faults) \/ (dialect = "sqlite" /\ "rollback" \in world.faults)

\* Whether the rollback of a nested transaction failed because the database has
\* ended the transaction: on MySQL it does, on SQLite nothing was sent.
Told(bad) == (dialect = "mysql" => bad) /\ (dialect = "sqlite" => ~bad)

\* During the callback: the open transaction has the work of the callbacks, without
\* that of the one being undone once it was rolled back; an aborted one is being
\* undone, and so is one that the database has ended.
CallbackInv ==
  /\ server.tx # "none" =>
       /\ MarksIn(nest, mine, server)
       /\ Settling => server.work = BelowIn(nest, mine, frame.savepoints)
       /\ ~Settling => /\ server.work = BelowIn(nest, mine, frame.savepoints + 1)
                       /\ frame.inserted \subseteq server.work
  /\ server.tx = "aborted" => dialect = "postgres" /\ \E f \in Flows : nest[f].pc = "undo"
  /\ server.tx = "none" /\ server.alive =>
       /\ Ends
       /\ \E f \in Flows : \/ nest[f].pc = "undo"
                           \/ nest[f].pc = "undone" /\ Told(nest[f].bad)

\* The inductive invariant of a call and its nested transactions.
NestedInv ==
  /\ attempt \in Nat /\ n \in Nat
  /\ StackIn(nest, frame.savepoints, mine)
  /\ Ledger(server)
  /\ pc # "callback" => frame.savepoints = 0
  /\ pc # "idle" => committed = {}
  /\ AllOrNothing
  /\ pc \in {"idle", "retry"} => server.tx = "none"
  /\ pc \in {"begin", "callback"} => code = "ok"
  /\ pc = "begin" =>
       /\ \A g \in Flows \cup {0} : mine[g] = {}
       /\ frame.inserted = {} /\ server.work = {} /\ server.marks = <<>>
       /\ step = 1 /\ dialect # "mysql" => server.tx = "open"
  /\ pc = "callback" => CallbackInv
  /\ pc = "finish" /\ code = "ok" /\ cleanup = "ok" /\ server.alive =>
       server.tx = "open" /\ server.work = mine[0]
  /\ pc = "uncommit" => code # "ok"

\* How a statement of flow g ends with the error e, when x is left of the flows.
Outcome(g, e, what, x) ==
  \/ e = "ok" /\ Continue(x)
  \/ e # "ok" /\ what \in world.catches /\ Continue(x)
  \/ e # "ok" /\ Throw(g, e, x)

\* A nested callback throws.
LEMMA ThrowFails ==
  ASSUME NEW x, NEW k, NEW m, StackIn(x, k, m), NEW g \in Flows, NEW e, e # "ok", Throw(g, e, x)
  PROVE  Failing(x, nest', g) /\ UNCHANGED <<pc, code>>
<1>1. x = [f \in Flows |-> x[f]] /\ FlowShape(x[g])
  BY DEF StackIn
<1>2. nest' = [x EXCEPT ![g].pc = "undo", ![g].err = e] /\ UNCHANGED <<pc, code>>
  BY ZeroFlow DEF Throw
<1>3. /\ nest' = [f \in Flows |-> nest'[f]] /\ nest'[g] = [x[g] EXCEPT !.pc = "undo", !.err = e]
      /\ \A f \in Flows : f # g => nest'[f] = x[f]
  BY <1>1, <1>2
<1>4. /\ FlowShape(nest'[g]) /\ nest'[g].pc = "undo" /\ nest'[g].err = e
      /\ nest'[g].parent = x[g].parent /\ nest'[g].name = x[g].name /\ nest'[g].before = x[g].before
  BY <1>1, <1>3, ZenonT(60) DEF FlowShape
<1> QED
  BY <1>2, <1>3, <1>4, Zenon DEF Moved, Failing

\* A step of the innermost callback.
LEMMA StepEnds ==
  ASSUME NestedInv, pc = "callback", NEW x, NEW k, NEW g, NEW e, NEW what,
         StackIn(x, k, mine'), AllIn(x), Top(x, k, g), Outcome(g, e, what, x),
         frame'.savepoints = k, Ledger(server'),
         server'.tx # "none" => /\ MarksIn(x, mine', server')
                                /\ server'.work = BelowIn(x, mine', k + 1)
                                /\ frame'.inserted \subseteq server'.work,
         server'.tx = "aborted" => dialect = "postgres" /\ e # "ok" /\ what \notin world.catches,
         server'.tx = "none" /\ server'.alive => Ends /\ e # "ok" /\ what \notin world.catches,
         UNCHANGED <<world, attempt, committed>>, n' \in Nat
  PROVE  NestedInv'
<1>1. dialect' = dialect /\ (Ends' <=> Ends) /\ committed' = {} /\ attempt' \in Nat /\ code = "ok"
  BY DEF dialect, Ends, NestedInv
<1>2. Ledger(server)'
  BY DEF Ledger
<1>3. CASE Continue(x) /\ (e = "ok" \/ what \in world.catches)
  <2>1. nest' = x /\ pc' = "callback" /\ code' = "ok"
    BY <1>1, <1>3, Zenon DEF Continue
  <2>2. StackIn(nest, frame.savepoints, mine)'
    BY <2>1
  <2>3. \A f \in Flows : x[f].pc \in {"in", "out"}
    BY DEF AllIn, OpenIn
  <2>4. ~Settling'
    BY <2>1, <2>3 DEF Settling
  <2>5. MarksIn(x, mine', server') => MarksIn(nest, mine, server)'
    BY <2>1
  <2>6. BelowIn(x, mine', k + 1) = BelowIn(nest, mine, frame.savepoints + 1)'
    BY <2>1, SMTT(30)
  <2>7. CallbackInv'
    BY <1>3, <2>4, <2>5, <2>6, SMTT(30) DEF CallbackInv
  <2> QED
    BY <1>1, <1>2, <2>1, <2>2, <2>7 DEF NestedInv, AllOrNothing, ReturnCommits, FailureUndoes
<1>4. CASE e # "ok" /\ Throw(g, e, x) /\ g = 0
  <2>1. nest' = x /\ pc' = "finish" /\ code' # "ok"
    BY <1>4 DEF Throw
  <2>2. StackIn(nest, frame.savepoints, mine)'
    BY <2>1
  <2>3. k = 0
    BY <1>4 DEF Top, DepthIn
  <2> QED
    BY <1>1, <1>2, <2>1, <2>2, <2>3 DEF NestedInv, AllOrNothing, ReturnCommits, FailureUndoes
<1>5. CASE e # "ok" /\ Throw(g, e, x) /\ g # 0
  <2>0. g \in Flows
    BY <1>5, Zenon DEF Top, OpenIn
  <2>1. pc' = "callback" /\ code' = "ok"
    BY <1>1, <1>5 DEF Throw
  <2>2. /\ StackIn(nest', k, mine') /\ nest'[g].pc = "undo"
        /\ \A f \in Flows : nest'[f].pc # "undone"
        /\ BelowIn(nest', mine', k + 1) = BelowIn(x, mine', k + 1)
        /\ MarksIn(x, mine', server') => MarksIn(nest', mine', server')
    <3>1. Failing(x, nest', g)
      BY <1>5, <2>0, ThrowFails, ZenonT(60)
    <3>2. /\ StackIn(nest', k, mine') /\ OpenIn(nest') = OpenIn(x) /\ g \in OpenIn(nest')
          /\ \A f \in Flows : nest'[f].pc # "undone"
          /\ \A d : BelowIn(nest', mine', d) = BelowIn(x, mine', d)
          /\ \A s : MarksIn(x, mine', s) => MarksIn(nest', mine', s)
      BY <2>0, <3>1, FailFits
    <3> QED
      BY <3>1, <3>2, Zenon DEF Failing
  <2>3. StackIn(nest, frame.savepoints, mine)'
    BY <2>2, ZenonT(60)
  <2>4. ~Settling'
    BY <2>2 DEF Settling
  <2>5. MarksIn(x, mine', server') => MarksIn(nest, mine, server)'
    BY <2>2
  <2>6. BelowIn(x, mine', k + 1) = BelowIn(nest, mine, frame.savepoints + 1)'
    BY <2>2
  <2>7. CallbackInv'
    BY <1>1, <2>0, <2>1, <2>2, <2>4, <2>5, <2>6, Zenon DEF CallbackInv
  <2> QED
    BY <1>1, <1>2, <2>1, <2>3, <2>7, Zenon DEF NestedInv, AllOrNothing, ReturnCommits, FailureUndoes
<1> QED
  BY <1>3, <1>4, <1>5 DEF Outcome

\* A failed statement ends the transaction, aborts it or leaves it as it was.
LEMMA FailedLedger ==
  ASSUME Sound(server), Ledger(server), NEW r
  PROVE  /\ Ledger(Failed(r))
         /\ Failed(r).tx # "none" => /\ server.tx # "none"
                                     /\ Failed(r).work = server.work /\ Failed(r).marks = server.marks
         /\ Failed(r).tx = "aborted" => dialect = "postgres" \/ server.tx = "aborted"
         /\ Failed(r).tx = "none" /\ Failed(r).alive =>
              server.tx = "none" \/ r = "rollback" \/ (r = "deadlock" /\ dialect = "mysql")
         /\ Failed(r).alive => server.alive
<1>1. CASE r = "lost"
  <2>1. Failed(r).alive = FALSE /\ Failed(r).tx = "none" /\ Failed(r).work = {} /\ Failed(r).marks = <<>>
    BY <1>1 DEF Failed, Fresh
  <2> QED
    BY <2>1 DEF Ledger
<1>2. CASE r = "rollback" \/ (r = "deadlock" /\ dialect = "mysql")
  <2>1. /\ Failed(r).alive = server.alive /\ Failed(r).tx = "none"
        /\ Failed(r).work = {} /\ Failed(r).marks = <<>>
    BY <1>2 DEF Failed, Ended, Sound, Shape
  <2> QED
    BY <1>2, <2>1 DEF Ledger
<1>3. CASE r # "lost" /\ ~(r = "rollback" \/ (r = "deadlock" /\ dialect = "mysql"))
  <2>1. CASE dialect = "postgres" /\ server.tx = "open"
    <3>1. /\ Failed(r).alive = server.alive /\ Failed(r).tx = "aborted"
          /\ Failed(r).work = server.work /\ Failed(r).marks = server.marks
      BY <1>3, <2>1 DEF Failed, Sound, Shape
    <3> QED
      BY <2>1, <3>1, Zenon DEF Ledger
  <2>2. CASE ~(dialect = "postgres" /\ server.tx = "open")
    <3>1. Failed(r) = server
      BY <1>3, <2>2 DEF Failed
    <3> QED
      BY <3>1
  <2> QED
    BY <2>1, <2>2
<1> QED
  BY <1>1, <1>2, <1>3, SMTT(30)

\* The end of a transaction.
LEMMA EndedLedger ==
  ASSUME Sound(server)
  PROVE  Ledger(Ended(server)) /\ Ended(server).tx = "none"
<1>1. Ended(server).tx = "none" /\ Ended(server).work = {} /\ Ended(server).marks = <<>>
  BY DEF Ended, Sound, Shape
<1> QED
  BY <1>1 DEF Ledger

\* What a statement can end with.
LEMMA ResultKinds ==
  ASSUME NEW kind, NEW can, NEW res \in Results(kind, can)
  PROVE  /\ res[1] = "rollback" => dialect = "sqlite" /\ "rollback" \in world.faults
         /\ res[1] = "deadlock" => "deadlock" \in world.faults
         /\ ~server.alive => res[1] = "lost"
         /\ kind \in {"savepoint", "release", "rollback_to", "rollback"} /\ can => res[1] \in {"ok", "lost"}
         /\ server.alive /\ ~can => res[1] = "fail"
<1>1. res[1] \in (IF ~server.alive THEN {"lost"} ELSE IF can THEN {"ok"} \cup May(kind) ELSE {"fail"})
  BY DEF Results
<1>2. May(kind) \subseteq world.faults /\ ("rollback" \in May(kind) => dialect = "sqlite")
  BY DEF May
<1>3. kind \in {"savepoint", "release", "rollback_to", "rollback"} => May(kind) \subseteq {"lost"}
  BY DEF May
<1> QED
  BY <1>1, <1>2, <1>3

\* The callback that runs is the innermost, on an open transaction or a lost
\* connection.
LEMMA RunsOpen ==
  ASSUME Faithful, world \in Worlds, NestedInv, NEW g \in Flows \cup {0}, Runs(g)
  PROVE  /\ pc = "callback" /\ Active(g) /\ Top(nest, frame.savepoints, g) /\ AllIn(nest) /\ ~Settling
         /\ StackIn(nest, frame.savepoints, mine) /\ Ledger(server)
         /\ server.tx = "open" \/ (server.tx = "none" /\ ~server.alive)
         /\ server.tx = "open" =>
              /\ MarksIn(nest, mine, server)
              /\ server.work = BelowIn(nest, mine, frame.savepoints + 1)
              /\ frame.inserted \subseteq server.work
<1>1. pc = "callback" /\ Active(g) /\ ~world.overlap
  BY DEF Runs, Faithful
<1>2. StackIn(nest, frame.savepoints, mine) /\ Ledger(server) /\ CallbackInv
  BY <1>1 DEF NestedInv
<1>3. Top(nest, frame.savepoints, g) /\ AllIn(nest)
  BY <1>1, <1>2, TopRuns
<1>4. \A f \in Flows : nest[f].pc \in {"in", "out"}
  BY <1>3 DEF AllIn, OpenIn
<1>5. ~Settling
  BY <1>4 DEF Settling
<1>6. server.tx \in {"none", "open", "aborted"}
  BY <1>2 DEF Ledger
<1>7. server.tx # "aborted" /\ (server.tx = "none" => ~server.alive)
  BY <1>2, <1>4 DEF CallbackInv
<1>8. server.tx = "open" =>
        /\ MarksIn(nest, mine, server)
        /\ server.work = BelowIn(nest, mine, frame.savepoints + 1)
        /\ frame.inserted \subseteq server.work
  BY <1>2, <1>5 DEF CallbackInv
<1> QED
  BY <1>1, <1>2, <1>3, <1>5, <1>6, <1>7, <1>8

\* An error reaches a callback that runs.
LEMMA RaiseOutcome ==
  ASSUME NEW g, NEW e, NEW what, NEW x, Active(g), e # "ok", Raise(g, e, what, x)
  PROVE  Outcome(g, e, what, x)
BY DEF Raise, Outcome, Continue

\* A statement of the innermost callback fails: what the database then takes
\* back, the callback does not outlive.
LEMMA FailedStep ==
  ASSUME Faithful, world \in Worlds, Sound(server), NestedInv, NEW g \in Flows \cup {0}, Runs(g),
         NEW r, r = "rollback" => dialect = "sqlite" /\ "rollback" \in world.faults,
         r = "deadlock" => "deadlock" \in world.faults,
         NEW e, e # "ok", NEW what, what = "statement" \/ r = "lost", Outcome(g, e, what, nest),
         server' = Failed(r), mine' = mine,
         frame'.savepoints = frame.savepoints, frame'.inserted = frame.inserted,
         UNCHANGED <<world, attempt, committed>>, n' \in Nat
  PROVE  NestedInv'
<1> DEFINE k == frame.savepoints
<1>1. /\ pc = "callback" /\ Top(nest, k, g) /\ AllIn(nest) /\ StackIn(nest, k, mine) /\ Ledger(server)
      /\ server.tx = "open" \/ (server.tx = "none" /\ ~server.alive)
      /\ server.tx = "open" => /\ MarksIn(nest, mine, server) /\ server.work = BelowIn(nest, mine, k + 1)
                               /\ frame.inserted \subseteq server.work
  BY RunsOpen, Zenon
<1>2. /\ Ledger(server')
      /\ server'.tx # "none" => /\ server.tx # "none"
                                /\ server'.work = server.work /\ server'.marks = server.marks
      /\ server'.tx = "aborted" => dialect = "postgres" \/ server.tx = "aborted"
      /\ server'.tx = "none" /\ server'.alive =>
              server.tx = "none" \/ r = "rollback" \/ (r = "deadlock" /\ dialect = "mysql")
      /\ server'.alive => server.alive
  BY <1>1, FailedLedger, Zenon
<1>3. r = "lost" => server'.tx = "none" /\ ~server'.alive
  BY SMTT(30) DEF Failed, Fresh
<1>4. server'.tx # "none" => /\ MarksIn(nest, mine', server')
                             /\ server'.work = BelowIn(nest, mine', k + 1)
                             /\ frame'.inserted \subseteq server'.work
  BY <1>1, <1>2 DEF MarksIn, MarkedIn
<1>5. server'.tx = "aborted" => dialect = "postgres" /\ what \notin world.catches
  BY <1>1, <1>2, <1>3, ZenonT(60) DEF Faithful, dialect
<1>6. server'.tx = "none" /\ server'.alive => Ends /\ what \notin world.catches
  BY <1>1, <1>2, <1>3 DEF Faithful, dialect, Ends
<1>7. StackIn(nest, k, mine')
  BY <1>1, Zenon
<1> QED
  BY <1>1, <1>2, <1>4, <1>5, <1>6, <1>7, StepEnds, Zenon

\* The fields of a frame.
LEMMA FrameFields ==
  ASSUME FrameShape(frame), NEW v
  PROVE  /\ [frame EXCEPT !.inserted = v].savepoints = frame.savepoints /\ [frame EXCEPT !.inserted = v].inserted = v
         /\ [frame EXCEPT !.savepoints = v].savepoints = v /\ [frame EXCEPT !.savepoints = v].inserted = frame.inserted
         /\ [frame EXCEPT !.todo = v].savepoints = frame.savepoints
         /\ [frame EXCEPT !.todo = v].inserted = frame.inserted
         /\ [frame EXCEPT !.canceled = v].savepoints = frame.savepoints
         /\ [frame EXCEPT !.canceled = v].inserted = frame.inserted
BY DEF FrameShape

\* A write belongs to the innermost callback.
LEMMA WriteNested ==
  ASSUME Reported, Faithful, SessionInv, NestedInv, NEW g \in Flows \cup {0}, Write(g)
  PROVE  NestedInv'
<1> DEFINE k == frame.savepoints
           w == <<attempt, n>>
           results == IF frame.canceled /\ dialect = "sqlite" THEN {<<"fail", FALSE>>}
                      ELSE Results("insert", server.tx # "aborted")
           err(res) == IF frame.canceled THEN "CANCELED" ELSE Raised(res)
<1>1. /\ Runs(g) /\ world \in Worlds /\ ~world.mute /\ Sound(server) /\ FrameShape(frame)
      /\ attempt \in Nat /\ n \in Nat /\ n' \in Nat /\ UNCHANGED <<world, attempt>>
  BY DEF Write, SessionInv, NestedInv, Reported
<1>2. PICK res \in results :
        /\ server' = (IF res[1] # "ok" THEN Failed(res[1])
                      ELSE IF server.tx = "none" THEN server ELSE [server EXCEPT !.work = @ \cup {w}])
        /\ committed' = (IF res[1] = "ok" /\ server.tx = "none" THEN committed \cup {w} ELSE committed)
        /\ mine' = (IF res[1] = "ok" THEN [mine EXCEPT ![g] = @ \cup {w}] ELSE mine)
        /\ frame' = (IF err(res) = "ok" THEN [frame EXCEPT !.inserted = @ \cup {w}] ELSE frame)
        /\ IF err(res) = "ok" THEN Continue(nest) ELSE Raise(g, err(res), "statement", nest)
  BY Zenon DEF Write
<1>3. /\ res[1] = "ok" => server.alive
      /\ res[1] # "ok" => err(res) # "ok"
      /\ res[1] = "rollback" => dialect = "sqlite" /\ "rollback" \in world.faults
      /\ res[1] = "deadlock" => "deadlock" \in world.faults
  <2>1. CASE frame.canceled /\ dialect = "sqlite"
    BY <1>2, <2>1
  <2>2. CASE ~(frame.canceled /\ dialect = "sqlite")
    <3>1. res \in Results("insert", server.tx # "aborted")
      BY <1>2, <2>2, Zenon
    <3>2. (res[2] => res[1] = "ok") /\ (res[1] = "ok" => server.alive)
      BY <1>1, <3>1, ResultFacts DEF Sound
    <3>3. Raised(res) = "ok" => res[1] = "ok"
      BY <3>2, RaisedFacts, SMTT(30)
    <3> QED
      BY <3>1, <3>2, <3>3, ResultKinds
  <2> QED
    BY <2>1, <2>2
<1>4. /\ pc = "callback" /\ Active(g) /\ Top(nest, k, g) /\ AllIn(nest) /\ StackIn(nest, k, mine) /\ Ledger(server)
      /\ server.tx = "open" \/ (server.tx = "none" /\ ~server.alive)
      /\ server.tx = "open" => /\ MarksIn(nest, mine, server) /\ server.work = BelowIn(nest, mine, k + 1)
                               /\ frame.inserted \subseteq server.work
  BY <1>1, RunsOpen
<1> DEFINE e == err(res)
<1>5. Outcome(g, e, "statement", nest)
  <2>1. CASE e = "ok"
    BY <1>2, <2>1 DEF Outcome
  <2>2. CASE e # "ok"
    BY <1>2, <1>4, <2>2, RaiseOutcome
  <2> QED
    BY <2>1, <2>2
<1>6. /\ frame'.savepoints = k
      /\ frame'.inserted \subseteq frame.inserted \cup {w}
      /\ e # "ok" => frame'.inserted = frame.inserted
  BY <1>1, <1>2, FrameFields
<1>7. CASE res[1] # "ok"
  <2>1. server' = Failed(res[1]) /\ mine' = mine /\ committed' = committed /\ e # "ok"
    BY <1>2, <1>3, <1>7
  <2>2. frame'.savepoints = frame.savepoints /\ frame'.inserted = frame.inserted
    BY <1>6, <2>1
  <2> HIDE DEF e
  <2> QED
    BY <1>1, <1>3, <1>5, <2>1, <2>2, FailedStep
<1>8. CASE res[1] = "ok"
  <2>1. server.tx = "open" /\ server.alive
    BY <1>3, <1>4, <1>8
  <2>2. /\ server' = [server EXCEPT !.work = server.work \cup {w}] /\ committed' = committed
        /\ mine' = [mine EXCEPT ![g] = mine[g] \cup {w}]
    BY <1>2, <1>8, <2>1
  <2>3. w \in Writes
    BY <1>1 DEF Writes
  <2> HIDE DEF e, w
  <2>4. /\ server'.alive = server.alive /\ server'.tx = "open" /\ server'.work = server.work \cup {w}
        /\ server'.marks = server.marks
    BY <1>1, <2>1, <2>2, Zenon DEF Sound, Shape
  <2>5. mine \in [Flows \cup {0} -> SUBSET Writes]
    BY <1>4 DEF StackIn
  <2>6. Added(mine, mine', g, w)
    BY <2>2, <2>3, <2>5 DEF Added
  <2>7. /\ StackIn(nest, k, mine') /\ BelowIn(nest, mine', k + 1) = BelowIn(nest, mine, k + 1) \cup {w}
        /\ \A s : MarksIn(nest, mine, s) => MarksIn(nest, mine', s)
    BY <1>4, <2>3, <2>6, AddFits, ZenonT(60)
  <2>8. MarksIn(nest, mine', server) => MarksIn(nest, mine', server')
    BY <2>4, SMTT(30) DEF MarksIn, MarkedIn
  <2>9. Ledger(server')
    BY <1>4, <2>1, <2>3, <2>4 DEF Ledger
  <2>10. /\ MarksIn(nest, mine', server') /\ server'.work = BelowIn(nest, mine', k + 1)
         /\ frame'.inserted \subseteq server'.work
    BY <1>4, <1>6, <2>1, <2>4, <2>7, <2>8, Zenon
  <2> QED
    BY <1>1, <1>4, <1>5, <1>6, <2>2, <2>4, <2>7, <2>9, <2>10, StepEnds, ZenonT(60)
<1> QED
  BY <1>7, <1>8

\* lock() and setLocal() change nothing of the transaction.
LEMMA HoldNested ==
  ASSUME Reported, Faithful, SessionInv, NestedInv, NEW g \in Flows \cup {0}, NEW x, Hold(g, x)
  PROVE  NestedInv'
<1> DEFINE k == frame.savepoints
<1>1. /\ Runs(g) /\ world \in Worlds /\ ~world.mute /\ Sound(server) /\ FrameShape(frame)
      /\ n' \in Nat /\ UNCHANGED <<world, attempt, committed, mine>> /\ dialect = "mysql"
  BY DEF Hold, SessionInv, NestedInv, Reported
<1>2. PICK res \in Results("lock", TRUE) :
        /\ server' = (IF res[1] = "ok" THEN [server EXCEPT !.left = server.left \cup {x}] ELSE Failed(res[1]))
        /\ frame' = (IF Raised(res) = "ok" THEN [frame EXCEPT !.todo = frame.todo \cup {x}] ELSE frame)
        /\ IF Raised(res) = "ok" THEN Continue(nest) ELSE Raise(g, Raised(res), "statement", nest)
  BY Zenon DEF Hold
<1>3. /\ res[2] => res[1] = "ok"
      /\ res[1] = "ok" => server.alive
      /\ res[1] = "rollback" => dialect = "sqlite" /\ "rollback" \in world.faults
      /\ res[1] = "deadlock" => "deadlock" \in world.faults
  BY <1>1, <1>2, ResultFacts, ResultKinds, Zenon DEF Sound
<1> DEFINE e == Raised(res)
<1>4. e = "ok" => res[1] = "ok"
  BY <1>3, RaisedFacts, SMTT(30)
<1>5. /\ pc = "callback" /\ Active(g) /\ Top(nest, k, g) /\ AllIn(nest) /\ StackIn(nest, k, mine) /\ Ledger(server)
      /\ server.tx = "open" \/ (server.tx = "none" /\ ~server.alive)
      /\ server.tx = "open" => /\ MarksIn(nest, mine, server) /\ server.work = BelowIn(nest, mine, k + 1)
                               /\ frame.inserted \subseteq server.work
  BY <1>1, RunsOpen
<1> HIDE DEF e
<1>6. Outcome(g, e, "statement", nest)
  <2>1. CASE e = "ok"
    BY <1>2, <2>1 DEF Outcome, e
  <2>2. CASE e # "ok"
    BY <1>2, <1>5, <2>2, RaiseOutcome DEF e
  <2> QED
    BY <2>1, <2>2
<1>7. frame'.savepoints = frame.savepoints /\ frame'.inserted = frame.inserted
  BY <1>1, <1>2, FrameFields, SMTT(30)
<1>8. CASE res[1] # "ok"
  <2>1. server' = Failed(res[1]) /\ e # "ok"
    BY <1>2, <1>4, <1>8
  <2> QED
    BY <1>1, <1>3, <1>6, <1>7, <2>1, FailedStep
<1>9. CASE res[1] = "ok"
  <2>1. server.tx = "open" /\ server' = [server EXCEPT !.left = server.left \cup {x}]
    BY <1>2, <1>3, <1>5, <1>9
  <2>2. /\ server'.alive = server.alive /\ server'.tx = "open" /\ server'.work = server.work
        /\ server'.marks = server.marks
    BY <1>1, <2>1 DEF Sound, Shape
  <2>3. Ledger(server')
    BY <1>5, <2>1, <2>2 DEF Ledger
  <2>4. StackIn(nest, k, mine') /\ MarksIn(nest, mine', server') /\ server'.work = BelowIn(nest, mine', k + 1)
    BY <1>1, <1>5, <2>1, <2>2 DEF MarksIn, MarkedIn
  <2>5. frame'.inserted \subseteq server'.work
    BY <1>5, <1>7, <2>1, <2>2, SMTT(30)
  <2> QED
    BY <1>1, <1>5, <1>6, <1>7, <2>2, <2>3, <2>4, <2>5, StepEnds, Zenon
<1> QED
  BY <1>8, <1>9

\* The savepoint of a nested transaction that starts is its mark.
LEMMA PushMarks ==
  ASSUME NEW x, NEW m, NEW t, MarksIn(x, m, t), NEW y, NEW f, OpenIn(y) = OpenIn(x) \cup {f},
         \A h \in OpenIn(x) : y[h] = x[h], \A d : BelowIn(y, m, d) = BelowIn(x, m, d),
         NEW i \in DOMAIN t.marks, MarkedIn(y, m, t, f, i)
  PROVE  MarksIn(y, m, t)
BY DEF MarksIn, MarkedIn

\* A nested transaction starts inside the innermost.
LEMMA EnterNested ==
  ASSUME Reported, Faithful, SessionInv, NestedInv, NEW g \in Flows \cup {0}, NEW f \in Flows, Enter(g, f)
  PROVE  NestedInv'
<1> DEFINE k == frame.savepoints
           flow == [NoFlow EXCEPT !.pc = "in", !.parent = g, !.name = k + 1, !.before = frame.inserted]
<1>1. /\ Runs(g) /\ world \in Worlds /\ ~world.mute /\ Sound(server) /\ FrameShape(frame)
      /\ n' \in Nat /\ UNCHANGED <<world, attempt, committed>> /\ nest[f].pc = "out"
      /\ mine' = [mine EXCEPT ![f] = {}]
  BY DEF Enter, SessionInv, NestedInv, Reported
<1>2. PICK res \in Results("savepoint", server.tx # "aborted") :
        /\ server' = (IF res[1] = "ok" THEN Save(k + 1) ELSE Failed(res[1]))
        /\ frame' = (IF Raised(res) = "ok" THEN [frame EXCEPT !.savepoints = k + 1] ELSE frame)
        /\ IF Raised(res) = "ok" THEN Continue([nest EXCEPT ![f] = flow])
           ELSE Raise(g, Raised(res), "inner", nest)
  BY DEF Enter
<1>3. /\ pc = "callback" /\ Active(g) /\ Top(nest, k, g) /\ AllIn(nest) /\ StackIn(nest, k, mine) /\ Ledger(server)
      /\ server.tx = "open" \/ (server.tx = "none" /\ ~server.alive)
      /\ server.tx = "open" => /\ MarksIn(nest, mine, server) /\ server.work = BelowIn(nest, mine, k + 1)
                               /\ frame.inserted \subseteq server.work
  BY <1>1, RunsOpen, Zenon
<1>4. /\ res[2] => res[1] = "ok"
      /\ res[1] = "ok" => server.alive
      /\ res[1] \in {"ok", "lost"}
  BY <1>1, <1>2, <1>3, ResultFacts, ResultKinds, Zenon DEF Sound
<1> DEFINE e == Raised(res)
<1>5. e = "ok" => res[1] = "ok"
  BY <1>4, RaisedFacts
<1> HIDE DEF e
<1>6. f \notin OpenIn(nest) /\ mine[f] = {} /\ mine \in [Flows \cup {0} -> SUBSET Writes] /\ k \in Nat
  BY <1>1, <1>3 DEF StackIn, OpenIn
<1>7. mine' = mine
  BY <1>1, <1>6
<1>8. CASE e # "ok"
  <2>1. Outcome(g, e, "inner", nest)
    BY <1>2, <1>3, <1>8, RaiseOutcome DEF e
  <2>2. frame' = frame
    BY <1>2, <1>8 DEF e
  <2>3. CASE res[1] # "ok"
    <3>1. res[1] = "lost" /\ server' = Failed(res[1])
      BY <1>2, <1>4, <2>3
    <3> QED
      BY <1>1, <1>7, <1>8, <2>1, <2>2, <3>1, FailedStep, Zenon
  <2>4. CASE res[1] = "ok"
    <3>1. server.tx = "open" /\ server' = Save(k + 1)
      BY <1>2, <1>3, <1>4, <2>4, SMTT(30)
    <3>2. /\ server'.alive = server.alive /\ server'.tx = "open" /\ server'.work = server.work
          /\ server'.marks = Append(server.marks, [name |-> k + 1, before |-> server.work])
      BY <1>1, <3>1, SavepointFields
    <3>3. server.work \in SUBSET Writes /\ server.marks \in Seq(Marks)
      BY <1>3, SMTT(30) DEF Ledger
    <3>4. MarksIn(nest, mine', server') /\ server'.marks \in Seq(Marks)
      <4>1. StackIn(nest, k, mine) /\ MarksIn(nest, mine, server)
        BY <1>3, <3>1, Zenon
      <4>2. MarksIn(nest, mine, server') /\ server'.marks \in Seq(Marks)
        BY <3>2, <3>3, <4>1, SaveMarks, Zenon
      <4> QED
        BY <1>7, <4>2, Zenon
    <3>5. Ledger(server')
      BY <1>3, <3>1, <3>2, <3>3, <3>4 DEF Ledger
    <3>6. /\ StackIn(nest, k, mine') /\ server'.work = BelowIn(nest, mine', k + 1)
          /\ frame'.inserted \subseteq server'.work /\ frame'.savepoints = k
      BY <1>3, <1>7, <2>2, <3>1, <3>2, Zenon
    <3> QED
      BY <1>1, <1>3, <1>8, <2>1, <3>2, <3>4, <3>5, <3>6, StepEnds, Zenon
  <2> QED
    BY <2>3, <2>4
<1>9. CASE e = "ok"
  <2>1. server.tx = "open" /\ server' = Save(k + 1) /\ Continue([nest EXCEPT ![f] = flow])
    BY <1>2, <1>3, <1>4, <1>5, <1>9 DEF e
  <2>2. /\ server'.alive = server.alive /\ server'.tx = "open" /\ server'.work = server.work
        /\ server'.marks = Append(server.marks, [name |-> k + 1, before |-> server.work])
    BY <1>1, <2>1, SavepointFields
  <2>3. server.work \in SUBSET Writes /\ server.marks \in Seq(Marks)
    BY <1>3 DEF Ledger
  <2>4. frame'.savepoints = k + 1 /\ frame'.inserted = frame.inserted
    BY <1>1, <1>2, <1>9, FrameFields DEF e
  <2>5. FlowShape(flow) /\ flow.pc = "in" /\ flow.parent = g /\ flow.name = k + 1 /\ flow.before = frame.inserted
    BY Zenon DEF FlowShape, NoFlow
  <2> DEFINE y == [nest EXCEPT ![f] = flow]
  <2> HIDE DEF flow
  <2>6. Moved(nest, y, f) /\ y[f] = flow
    BY <1>3, <2>5 DEF Moved, StackIn
  <2>7. Outcome(g, e, "inner", y)
    BY <1>9, <2>1, Zenon DEF Outcome
  <2> HIDE DEF y
  <2>8. /\ StackIn(y, k + 1, mine) /\ AllIn(y) /\ OpenIn(y) = OpenIn(nest) \cup {f}
        /\ \A d : BelowIn(y, mine, d) = BelowIn(nest, mine, d)
        /\ BelowIn(y, mine, k + 2) = BelowIn(nest, mine, k + 1)
    BY <1>1, <1>3, <2>1, <2>5, <2>6, PushFits
  <2>9. Top(y, k + 1, f)
    BY <2>5, <2>6, <2>8, ZeroFlow, ZenonT(60) DEF Top, DepthIn
  <2>10. MarksIn(nest, mine, server') /\ server'.marks \in Seq(Marks)
    <3>1. StackIn(nest, k, mine) /\ MarksIn(nest, mine, server)
      BY <1>3, <2>1, Zenon
    <3> QED
      BY <2>2, <2>3, <3>1, SaveMarks, Zenon
  <2>11. MarksIn(y, mine, server')
    <3> DEFINE mark == [name |-> k + 1, before |-> server.work]
               i == Len(server.marks) + 1
    <3>1. mark \in Marks /\ mark.name = k + 1 /\ mark.before = BelowIn(nest, mine, k + 1)
      BY <1>3, <1>6, <2>1, <2>3 DEF Marks
    <3> HIDE DEF mark
    <3>2. DOMAIN server'.marks = 1 .. i /\ i \in 1 .. i /\ server'.marks[i] = mark
      BY <2>2, <2>3, <3>1 DEF mark
    <3>3. MarkedIn(y, mine, server', f, i)
      BY <2>5, <2>6, <2>8, <3>1, <3>2 DEF MarkedIn
    <3>4. \A h \in OpenIn(nest) : y[h] = nest[h]
      BY <1>6, <2>6 DEF Moved, OpenIn
    <3> HIDE DEF i
    <3> QED
      BY <2>8, <2>10, <3>2, <3>3, <3>4, PushMarks, Zenon
  <2>12. Ledger(server')
    BY <1>3, <2>1, <2>2, <2>3, <2>10, ZenonT(60) DEF Ledger
  <2>13. Outcome(f, "ok", "inner", y)
    BY <2>1 DEF Outcome, y
  <2>14. k + 1 + 1 = k + 2
    BY <1>6
  <2>15. /\ StackIn(y, k + 1, mine') /\ MarksIn(y, mine', server')
         /\ server'.work = BelowIn(y, mine', k + 1 + 1) /\ frame'.inserted \subseteq server'.work
    BY <1>3, <1>7, <2>1, <2>2, <2>4, <2>8, <2>11, <2>14, Zenon
  <2> QED
    BY <1>1, <1>3, <2>2, <2>4, <2>8, <2>9, <2>12, <2>13, <2>15, StepEnds, ZenonT(60)
<1> QED
  BY <1>8, <1>9

\* The database has the savepoint of the innermost flow.
LEMMA TopMark ==
  ASSUME NEW k, StackIn(nest, k, mine), Ledger(server), MarksIn(nest, mine, server),
         NEW f \in OpenIn(nest), nest[f].name = k
  PROVE  \E i \in DOMAIN server.marks : MarkedIn(nest, mine, server, f, i) /\ Last(k) = i /\ Named(k) # {}
<1>1. PICK i \in DOMAIN server.marks : MarkedIn(nest, mine, server, f, i)
  BY DEF MarksIn
<1>2. server.marks \in Seq(Marks) /\ k \in Nat
  BY DEF Ledger, StackIn
<1>3. server.marks[i].name = k /\ \A j \in DOMAIN server.marks : j > i => server.marks[j].name > k
  BY <1>1 DEF MarkedIn
<1>4. Last(k) = i /\ Named(k) # {}
  BY <1>2, <1>3, LastIs
<1> QED
  BY <1>1, <1>4

\* Its release keeps the savepoints of the others and commits nothing.
LEMMA ReleaseTop ==
  ASSUME Sound(server), server.tx = "open",
         NEW k, StackIn(nest, k, mine), Ledger(server), MarksIn(nest, mine, server),
         NEW f \in OpenIn(nest), nest[f].name = k,
         NEW y, NEW m2, NEW w, Popped(nest, mine, k, f, y, m2, w)
  PROVE  /\ Ledger(Released(k)) /\ Released(k).tx = "open" /\ Released(k).work = server.work
         /\ MarksIn(y, m2, Released(k)) /\ ReleaseCommits(k) = {}
<1>1. PICK i \in DOMAIN server.marks : MarkedIn(nest, mine, server, f, i) /\ Last(k) = i
  BY TopMark
<1>2. /\ Released(k).alive = server.alive /\ Released(k).tx = "open" /\ Released(k).work = server.work
      /\ Released(k).marks = SubSeq(server.marks, 1, i - 1)
  BY <1>1, SavepointFields, ZenonT(60)
<1>3. server.marks \in Seq(Marks)
  BY SMTT(30) DEF Ledger
<1>4. MarksIn(y, m2, Released(k)) /\ Released(k).marks \in Seq(Marks)
  BY <1>1, <1>2, <1>3, CutMarks, SMTT(30) DEF Popped
<1>5. Ledger(Released(k))
  BY <1>2, <1>4 DEF Ledger
<1>6. ReleaseCommits(k) = {}
  BY Zenon DEF ReleaseCommits
<1> QED
  BY <1>2, <1>4, <1>5, <1>6

\* The fields of the frame after the finally of savepoint().
LEMMA LeaveFields ==
  ASSUME FrameShape(frame), NEW f, NEW kept, Leave(f, kept)
  PROVE  /\ frame'.savepoints = frame.savepoints - 1
         /\ frame'.inserted = frame.inserted \/ frame'.inserted = nest[f].before
         /\ ~kept => frame'.inserted = nest[f].before
<1> DEFINE a == frame.savepoints - 1
           b == IF kept THEN frame.inserted ELSE nest[f].before
<1>1. frame' = [frame EXCEPT !.savepoints = a, !.inserted = b]
  BY DEF Leave
<1>2. (b = frame.inserted \/ b = nest[f].before) /\ (~kept => b = nest[f].before)
  OBVIOUS
<1> HIDE DEF a, b
<1>3. frame'.savepoints = a /\ frame'.inserted = b
  BY <1>1 DEF FrameShape
<1> QED
  BY <1>2, <1>3 DEF a

\* The flows after the end of the innermost.
LEMMA OutPops ==
  ASSUME NEW k, StackIn(nest, k, mine), NEW f \in OpenIn(nest), nest[f].name = k,
         NEW w, HandedOver(mine, mine', f, nest[f].parent, w)
  PROVE  /\ StackIn(Out(f), k - 1, mine') /\ AllIn(Out(f)) /\ Top(Out(f), k - 1, nest[f].parent)
         /\ Popped(nest, mine, k, f, Out(f), mine', w)
<1>1. f \in Flows /\ nest = [h \in Flows |-> nest[h]]
  BY DEF StackIn, OpenIn
<1>2. Moved(nest, Out(f), f) /\ Out(f)[f] = NoFlow
  BY <1>1, NoFlowShape DEF Out, Moved
<1> QED
  BY <1>2, PopFits, Zenon

\* The parent of the innermost flow is active.
LEMMA ParentRuns ==
  ASSUME NEW k, StackIn(nest, k, mine), NEW f \in OpenIn(nest), nest[f].name = k
  PROVE  Active(nest[f].parent)
<1>1. /\ nest[f].parent \in OpenIn(nest) \cup {0} /\ DepthIn(nest, nest[f].parent) = k - 1 /\ k \in Nat
  BY DEF StackIn
<1>2. CASE nest[f].parent = 0
  BY <1>2 DEF Active
<1>3. CASE nest[f].parent # 0
  <2>1. nest[f].parent \in OpenIn(nest) /\ nest[nest[f].parent].name = k - 1
    BY <1>1, <1>3, SMTT(30) DEF DepthIn
  <2>2. nest[nest[f].parent].pc = "in"
    BY <1>1, <2>1 DEF StackIn
  <2> QED
    BY <1>3, <2>2 DEF Active
<1> QED
  BY <1>2, <1>3

\* The callback of a nested transaction returns: its work is that of the flow
\* that started it.
LEMMA ResolveNested ==
  ASSUME Reported, Faithful, SessionInv, NestedInv, NEW f \in Flows, Resolve(f)
  PROVE  NestedInv'
<1> DEFINE k == frame.savepoints
           g == nest[f].parent
           err(res) == IF res[1] = "skipped" THEN "ok" ELSE Raised(res)
<1>1. /\ Runs(f) /\ world \in Worlds /\ ~world.mute /\ Sound(server) /\ FrameShape(frame)
      /\ n' \in Nat /\ UNCHANGED <<world, attempt>>
  BY Zenon DEF Resolve, SessionInv, NestedInv, Reported
<1>2. PICK res \in ReleaseResults(f) :
        /\ ReleaseEffect(f, res[1])
        /\ Leave(f, err(res) = "ok")
        /\ mine' = [mine EXCEPT ![g] = @ \cup mine[f], ![f] = {}]
        /\ IF err(res) = "ok" THEN Continue(Out(f)) ELSE Raise(g, err(res), "inner", Out(f))
  BY Zenon DEF Resolve
<1>3. /\ pc = "callback" /\ Active(f) /\ Top(nest, k, f) /\ AllIn(nest) /\ StackIn(nest, k, mine) /\ Ledger(server)
      /\ server.tx = "open" \/ (server.tx = "none" /\ ~server.alive)
      /\ server.tx = "open" => /\ MarksIn(nest, mine, server) /\ server.work = BelowIn(nest, mine, k + 1)
                               /\ frame.inserted \subseteq server.work
  BY <1>1, RunsOpen, ZenonT(60)
<1>4. f \in OpenIn(nest) /\ nest[f].name = k
  BY <1>3, ZeroFlow, ZenonT(60) DEF Top, DepthIn
<1>5. /\ k \in Nat /\ mine \in [Flows \cup {0} -> SUBSET Writes] /\ g \in Flows \cup {0} /\ g # f
      /\ nest[f].before \subseteq BelowIn(nest, mine, k)
  <2>1. /\ k \in Nat /\ mine \in [Flows \cup {0} -> SUBSET Writes] /\ g \in OpenIn(nest) \cup {0}
        /\ DepthIn(nest, g) = k - 1 /\ nest[f].before \subseteq BelowIn(nest, mine, k)
    BY <1>3, <1>4, SMTT(30) DEF StackIn
  <2>2. DepthIn(nest, f) = k
    BY <1>3 DEF Top
  <2> QED
    BY <2>1, <2>2, SMTT(30) DEF OpenIn
<1>6. HandedOver(mine, mine', f, g, mine[f])
  BY <1>2, <1>5, Zenon DEF HandedOver
<1>7. /\ StackIn(Out(f), k - 1, mine') /\ AllIn(Out(f)) /\ Top(Out(f), k - 1, g)
      /\ Popped(nest, mine, k, f, Out(f), mine', mine[f])
  BY <1>3, <1>4, <1>6, OutPops, Zenon
<1>8. BelowIn(nest, mine, k + 1) = BelowIn(nest, mine, k) \cup mine[f]
  BY <1>3, <1>4, TopWork
<1>9. res \in Results("release", Named(k) # {} /\ server.tx # "aborted")
  BY <1>1, <1>2, <1>3, <1>4, Zenon DEF ReleaseResults, Skipped, Sound
<1>10. /\ res[2] => res[1] = "ok"
       /\ res[1] = "ok" => server.alive
       /\ res[1] \in {"ok", "lost"}
  <2>1. server.tx = "open" => Named(k) # {}
    BY <1>3, <1>4, TopMark, Zenon
  <2> QED
    BY <1>1, <1>3, <1>9, <2>1, ResultFacts, ResultKinds, Zenon DEF Sound
<1> DEFINE e == err(res)
<1>11. e = "ok" => res[1] = "ok"
  BY <1>10, RaisedFacts, SMTT(30)
<1>12. Leave(f, e = "ok")
  BY <1>2
<1>13. Outcome(g, e, "inner", Out(f))
  <2>1. CASE e = "ok"
    BY <1>2, <2>1, Zenon DEF Outcome
  <2>2. CASE e # "ok"
    <3>1. Raise(g, e, "inner", Out(f)) /\ Active(g)
      BY <1>2, <1>3, <1>4, <2>2, ParentRuns, Zenon
    <3> HIDE DEF e
    <3> QED
      BY <2>2, <3>1, RaiseOutcome
  <2> QED
    BY <2>1, <2>2
<1> HIDE DEF e
<1>14. frame'.savepoints = k - 1 /\ (frame'.inserted = frame.inserted \/ frame'.inserted = nest[f].before)
  BY <1>1, <1>12, LeaveFields, Zenon
<1>15. k - 1 + 1 = k
  BY <1>5
<1>16. CASE res[1] = "ok"
  <2>1. server.tx = "open"
    BY <1>3, <1>10, <1>16, Zenon
  <2>2. server' = Released(k) /\ committed' = committed \cup ReleaseCommits(k)
    BY <1>2, <1>4, <1>16 DEF ReleaseEffect
  <2>3. /\ Ledger(server') /\ server'.tx = "open" /\ server'.work = server.work
        /\ MarksIn(Out(f), mine', server') /\ ReleaseCommits(k) = {}
    BY <1>1, <1>3, <1>4, <1>7, <2>1, <2>2, ReleaseTop, ZenonT(60)
  <2>4. committed' = committed
    BY <2>2, <2>3
  <2>5. server'.work = BelowIn(Out(f), mine', k - 1 + 1) /\ frame'.inserted \subseteq server'.work
    BY <1>3, <1>5, <1>7, <1>8, <1>14, <1>15, <2>1, <2>3, Zenon DEF Popped
  <2> QED
    BY <1>1, <1>3, <1>7, <1>13, <1>14, <2>3, <2>4, <2>5, StepEnds, ZenonT(60)
<1>17. CASE res[1] = "lost"
  <2>1. server' = Failed("lost") /\ committed' = committed
    BY <1>2, <1>17 DEF ReleaseEffect
  <2>2. server'.tx = "none" /\ ~server'.alive /\ Ledger(server')
    BY <1>1, <1>3, <2>1, FailedLedger, ZenonT(60) DEF Failed, Fresh
  <2> QED
    BY <1>1, <1>3, <1>7, <1>13, <1>14, <2>1, <2>2, StepEnds, Zenon
<1> QED
  BY <1>10, <1>16, <1>17

\* The flow that is undone is the innermost, and the only one.
LEMMA UndoTop ==
  ASSUME NEW k, StackIn(nest, k, mine), NEW f \in Flows, nest[f].pc \in {"undo", "undone"}
  PROVE  /\ f \in OpenIn(nest) /\ nest[f].name = k /\ nest[f].err # "ok" /\ k \in Nat
         /\ nest[f].before \subseteq BelowIn(nest, mine, k)
         /\ \A h \in Flows : nest[h].pc \in {"undo", "undone"} => h = f
<1>1. f \in OpenIn(nest) /\ nest[f].pc # "in"
  BY DEF OpenIn
<1>2. nest[f].name = k /\ nest[f].err # "ok" /\ k \in Nat /\ nest[f].before \subseteq BelowIn(nest, mine, k)
  BY <1>1, Zenon DEF StackIn
<1>3. ASSUME NEW h \in Flows, nest[h].pc \in {"undo", "undone"} PROVE h = f
  <2>1. h \in OpenIn(nest) /\ nest[h].pc # "in"
    BY <1>3 DEF OpenIn
  <2>2. nest[h].name = k
    BY <2>1 DEF StackIn
  <2> QED
    BY <1>1, <1>2, <2>1, <2>2 DEF StackIn
<1> QED
  BY <1>1, <1>2, <1>3

\* A nested transaction that failed ends: what it did is nobody's work.
LEMMA UndoReleaseNested ==
  ASSUME Reported, Faithful, SessionInv, NestedInv, NEW f \in Flows, UndoRelease(f)
  PROVE  NestedInv'
<1> DEFINE k == frame.savepoints
           g == nest[f].parent
           worse(res) == nest[f].bad \/ (res[1] # "skipped" /\ Raised(res) # "ok")
           what(res) == IF worse(res) THEN "broken" ELSE "inner"
           err(res) == IF worse(res) THEN "ROLLBACK" ELSE nest[f].err
<1>1. /\ pc = "callback" /\ nest[f].pc = "undone" /\ world \in Worlds /\ ~world.mute /\ Sound(server)
      /\ FrameShape(frame) /\ n' \in Nat /\ UNCHANGED <<world, attempt>> /\ mine' = [mine EXCEPT ![f] = {}]
      /\ StackIn(nest, k, mine) /\ Ledger(server) /\ CallbackInv
  BY Zenon DEF UndoRelease, SessionInv, NestedInv, Reported
<1>2. PICK res \in ReleaseResults(f) :
        ReleaseEffect(f, res[1]) /\ Leave(f, FALSE) /\ Raise(g, err(res), what(res), Out(f))
  BY Zenon DEF UndoRelease
<1>3. /\ f \in OpenIn(nest) /\ nest[f].name = k /\ nest[f].err # "ok" /\ k \in Nat
      /\ nest[f].before \subseteq BelowIn(nest, mine, k)
      /\ \A h \in Flows : nest[h].pc \in {"undo", "undone"} => h = f
  BY <1>1, UndoTop, Zenon
<1>4. Settling
  BY <1>1, Zenon DEF Settling
<1>5. /\ server.tx \in {"none", "open"}
      /\ server.tx = "open" => MarksIn(nest, mine, server) /\ server.work = BelowIn(nest, mine, k)
      /\ server.tx = "none" /\ server.alive => Ends /\ Told(nest[f].bad)
  <2>1. server.tx \in {"none", "open", "aborted"}
    BY <1>1, Zenon DEF Ledger
  <2>2. ~\E h \in Flows : nest[h].pc = "undo"
    BY <1>1, <1>3, SMTT(30)
  <2>3. server.tx # "aborted"
    BY <1>1, <2>2 DEF CallbackInv
  <2>4. server.tx = "none" /\ server.alive =>
          Ends /\ \E h \in Flows : nest[h].pc = "undone" /\ Told(nest[h].bad)
    BY <1>1, <2>2, Zenon DEF CallbackInv
  <2>5. server.tx = "none" /\ server.alive => Ends /\ Told(nest[f].bad)
    <3>1. ASSUME NEW h \in Flows, nest[h].pc = "undone", Told(nest[h].bad)
          PROVE  Told(nest[f].bad)
      <4>1. h = f
        BY <1>3, <3>1
      <4> QED
        BY <3>1, <4>1, ZenonT(60)
    <3> QED
      BY <2>4, <3>1, Zenon
  <2>6. server.tx = "open" => MarksIn(nest, mine, server) /\ server.work = BelowIn(nest, mine, k)
    BY <1>1, <1>4, ZenonT(60) DEF CallbackInv
  <2> QED
    BY <2>1, <2>3, <2>5, <2>6
<1>6. HandedOver(mine, mine', f, g, {})
  <2>1. /\ mine \in [Flows \cup {0} -> SUBSET Writes] /\ g \in OpenIn(nest) \cup {0} /\ DepthIn(nest, g) = k - 1
    BY <1>1, <1>3 DEF StackIn
  <2>2. DepthIn(nest, f) = k
    BY <1>3, ZeroFlow, SMTT(30) DEF DepthIn, OpenIn
  <2>3. g # f /\ g \in Flows \cup {0}
    BY <1>3, <2>1, <2>2 DEF OpenIn
  <2> QED
    BY <1>1, <2>1, <2>3, SMTT(30) DEF HandedOver
<1>7. /\ StackIn(Out(f), k - 1, mine') /\ AllIn(Out(f)) /\ Top(Out(f), k - 1, g)
      /\ Popped(nest, mine, k, f, Out(f), mine', {})
  BY <1>1, <1>3, <1>6, OutPops, ZenonT(60)
<1>8. frame'.savepoints = k - 1 /\ frame'.inserted = nest[f].before /\ k - 1 + 1 = k
  <2>1. Leave(f, FALSE) /\ FrameShape(frame)
    BY <1>1, <1>2, Zenon
  <2>2. frame'.savepoints = k - 1 /\ frame'.inserted = nest[f].before
    BY <2>1, LeaveFields, Zenon
  <2> QED
    BY <1>3, <2>2
<1> DEFINE e == err(res)
           wh == what(res)
<1>9. e # "ok"
  BY <1>3
<1>10. Outcome(g, e, wh, Out(f))
  <2>1. Raise(g, e, wh, Out(f)) /\ Active(g)
    BY <1>1, <1>2, <1>3, ParentRuns, Zenon
  <2> HIDE DEF e, wh
  <2> QED
    BY <1>9, <2>1, RaiseOutcome
<1>11. /\ nest[f].bad => wh = "broken"
       /\ ~nest[f].bad /\ res[1] = "skipped" => wh = "inner"
  BY Zenon
<1> HIDE DEF e, wh
<1>12. CASE server.tx = "open"
  <2>1. Named(k) # {} /\ ~Skipped
    BY <1>1, <1>3, <1>5, <1>12, TopMark, Zenon DEF Skipped
  <2>2. res \in Results("release", TRUE)
    BY <1>2, <1>3, <1>12, <2>1, Zenon DEF ReleaseResults
  <2>3. res[1] \in {"ok", "lost"}
    BY <2>2, ResultKinds, Zenon
  <2>4. CASE res[1] = "ok"
    <3>1. server' = Released(k) /\ committed' = committed \cup ReleaseCommits(k)
      BY <1>2, <1>3, <2>4 DEF ReleaseEffect
    <3>2. /\ Ledger(server') /\ server'.tx = "open" /\ server'.work = server.work
          /\ MarksIn(Out(f), mine', server') /\ ReleaseCommits(k) = {}
      BY <1>1, <1>3, <1>5, <1>7, <1>12, <3>1, ReleaseTop, ZenonT(60)
    <3>3. committed' = committed
      BY <3>1, <3>2
    <3>4. server'.work = BelowIn(Out(f), mine', k - 1 + 1) /\ frame'.inserted \subseteq server'.work
      BY <1>3, <1>5, <1>7, <1>8, <1>12, <3>2, Zenon DEF Popped
    <3> QED
      BY <1>1, <1>7, <1>8, <1>10, <3>2, <3>3, <3>4, StepEnds, ZenonT(60)
  <2>5. CASE res[1] = "lost"
    <3>1. server' = Failed("lost") /\ committed' = committed
      BY <1>2, <2>5 DEF ReleaseEffect
    <3>2. server'.tx = "none" /\ ~server'.alive /\ Ledger(server')
      BY <1>1, <3>1, FailedLedger, Zenon DEF Failed, Fresh
    <3> QED
      BY <1>1, <1>7, <1>8, <1>10, <3>1, <3>2, StepEnds, Zenon
  <2> QED
    BY <2>3, <2>4, <2>5
<1>13. CASE server.tx = "none"
  <2>1. Named(k) = {}
    BY <1>1, <1>13 DEF Ledger, Named
  <2>2. CASE Skipped
    <3>1. /\ server' = server /\ committed' = committed /\ dialect = "sqlite" /\ server.alive
          /\ res[1] = "skipped"
      BY <1>1, <1>2, <2>2 DEF ReleaseResults, ReleaseEffect, Skipped, Sound
    <3>2. Ends /\ wh = "inner"
      BY <1>5, <1>11, <1>13, <3>1, Zenon DEF Told
    <3>3. wh \notin world.catches
      BY <1>1, <3>1, <3>2, Zenon DEF Ends, Faithful, dialect
    <3> QED
      BY <1>1, <1>7, <1>8, <1>9, <1>10, <1>13, <3>1, <3>2, <3>3, StepEnds, ZenonT(60)
  <2>3. CASE ~Skipped
    <3>1. res \in Results("release", FALSE)
      BY <1>2, <1>3, <2>1, <2>3, Zenon DEF ReleaseResults
    <3>2. res[1] \in {"fail", "lost"} /\ (server.alive => res[1] = "fail") /\ (~server.alive => res[1] = "lost")
      BY <3>1, Zenon DEF Results
    <3>3. server' = Failed(res[1]) /\ committed' = committed
      BY <1>2, <3>2, SMTT(30) DEF ReleaseEffect
    <3>4. /\ Ledger(server') /\ server'.tx = "none" /\ (server'.alive => server.alive)
      BY <1>1, <1>13, <3>3, FailedLedger
    <3>5. server.alive => Ends /\ wh \notin world.catches
      BY <1>1, <1>5, <1>11, <1>13, <2>3, Zenon DEF Ends, Faithful, dialect, Skipped, Told
    <3> QED
      BY <1>1, <1>7, <1>8, <1>9, <1>10, <3>3, <3>4, <3>5, StepEnds, Zenon
  <2> QED
    BY <2>2, <2>3
<1> QED
  BY <1>5, <1>12, <1>13

\* The flows after a ROLLBACK TO SAVEPOINT.
LEMMA UndoMoves ==
  ASSUME NEW k, StackIn(nest, k, mine), NEW f \in Flows, UndoTo(f)
  PROVE  \E res \in (IF Skipped THEN {<<"skipped", FALSE>>} ELSE Results("rollback_to", Named(nest[f].name) # {})) :
           /\ server' = (CASE res[1] = "ok" -> RolledBack(nest[f].name)
                           [] res[1] = "skipped" -> server
                           [] OTHER -> Failed(res[1]))
           /\ Moved(nest, nest', f) /\ nest'[f].pc = "undone" /\ nest'[f].err = nest[f].err
           /\ nest'[f].parent = nest[f].parent /\ nest'[f].name = nest[f].name /\ nest'[f].before = nest[f].before
           /\ res[1] # "skipped" /\ Raised(res) # "ok" => nest'[f].bad
           /\ res[1] = "skipped" => ~nest'[f].bad
<1>1. PICK res \in (IF Skipped THEN {<<"skipped", FALSE>>} ELSE Results("rollback_to", Named(nest[f].name) # {})) :
        /\ server' = (CASE res[1] = "ok" -> RolledBack(nest[f].name)
                        [] res[1] = "skipped" -> server
                        [] OTHER -> Failed(res[1]))
        /\ nest' = [nest EXCEPT ![f].pc = "undone", ![f].bad = res[1] # "skipped" /\ Raised(res) # "ok"]
  BY Zenon DEF UndoTo
<1> DEFINE b == res[1] # "skipped" /\ Raised(res) # "ok"
<1>2. nest' = [nest EXCEPT ![f].pc = "undone", ![f].bad = b]
  BY <1>1
<1>3. nest = [h \in Flows |-> nest[h]] /\ FlowShape(nest[f])
  BY DEF StackIn
<1> HIDE DEF b
<1>4. /\ nest' = [h \in Flows |-> nest'[h]] /\ nest'[f] = [nest[f] EXCEPT !.pc = "undone", !.bad = b]
      /\ \A h \in Flows : h # f => nest'[h] = nest[h]
  BY <1>2, <1>3, Zenon
<1>5. /\ FlowShape(nest'[f]) /\ nest'[f].pc = "undone" /\ nest'[f].err = nest[f].err
      /\ nest'[f].parent = nest[f].parent /\ nest'[f].name = nest[f].name /\ nest'[f].before = nest[f].before
  BY <1>3, <1>4, ZenonT(60) DEF FlowShape
<1>6. nest'[f].bad = b
  BY <1>3, <1>4 DEF FlowShape
<1>7. /\ res[1] # "skipped" /\ Raised(res) # "ok" => nest'[f].bad
      /\ res[1] = "skipped" => ~nest'[f].bad
  BY <1>6, Zenon DEF b
<1>8. Moved(nest, nest', f)
  BY <1>4, <1>5 DEF Moved
<1> QED
  BY <1>1, <1>5, <1>7, <1>8, Zenon

\* ROLLBACK TO SAVEPOINT takes the work of the innermost flow back, and no other.
LEMMA UndoToNested ==
  ASSUME Reported, Faithful, SessionInv, NestedInv, NEW f \in Flows, UndoTo(f)
  PROVE  NestedInv'
<1> DEFINE k == frame.savepoints
<1>1. /\ pc = "callback" /\ nest[f].pc = "undo" /\ world \in Worlds /\ ~world.mute /\ Sound(server)
      /\ UNCHANGED <<world, attempt, n, committed, frame, mine, pc, code>> /\ dialect' = dialect /\ (Ends' <=> Ends)
      /\ attempt \in Nat /\ n \in Nat /\ committed = {} /\ code = "ok"
      /\ StackIn(nest, k, mine) /\ Ledger(server) /\ CallbackInv
  BY DEF UndoTo, SessionInv, NestedInv, Reported, dialect, Ends
<1>2. /\ f \in OpenIn(nest) /\ nest[f].name = k /\ k \in Nat
      /\ \A h \in Flows : nest[h].pc \in {"undo", "undone"} => h = f
  BY <1>1, UndoTop
<1>3. PICK res \in (IF Skipped THEN {<<"skipped", FALSE>>} ELSE Results("rollback_to", Named(k) # {})) :
        /\ server' = (CASE res[1] = "ok" -> RolledBack(k)
                        [] res[1] = "skipped" -> server
                        [] OTHER -> Failed(res[1]))
        /\ Moved(nest, nest', f) /\ nest'[f].pc = "undone" /\ nest'[f].err = nest[f].err
        /\ nest'[f].parent = nest[f].parent /\ nest'[f].name = nest[f].name /\ nest'[f].before = nest[f].before
        /\ res[1] # "skipped" /\ Raised(res) # "ok" => nest'[f].bad
        /\ res[1] = "skipped" => ~nest'[f].bad
  BY <1>1, <1>2, UndoMoves, ZenonT(60)
<1>4. /\ StackIn(nest', k, mine)
      /\ \A d : BelowIn(nest', mine, d) = BelowIn(nest, mine, d)
      /\ \A s : MarksIn(nest, mine, s) => MarksIn(nest', mine, s)
  BY <1>1, <1>3, UndoneFits
<1>5. Settling'
  BY <1>3 DEF Settling
<1>6. ASSUME Ledger(server'), server'.tx \in {"none", "open"},
             server'.tx = "open" => MarksIn(nest, mine, server') /\ server'.work = BelowIn(nest, mine, k),
             server'.tx = "none" /\ server'.alive => Ends /\ Told(nest'[f].bad)
      PROVE  NestedInv'
  <2>1. StackIn(nest, frame.savepoints, mine)' /\ Ledger(server)'
    BY <1>1, <1>4, <1>6, Zenon DEF Ledger
  <2>2. server'.tx # "none" => /\ MarksIn(nest, mine, server)'
                               /\ server'.work = BelowIn(nest, mine, frame.savepoints)'
    BY <1>1, <1>4, <1>6, Zenon
  <2>3. server'.tx = "none" /\ server'.alive =>
          /\ Ends'
          /\ \E h \in Flows : nest'[h].pc = "undone" /\ Told(nest[h].bad)'
    BY <1>1, <1>3, <1>6, Zenon DEF Told
  <2>4. CallbackInv'
    BY <1>5, <1>6, <2>2, <2>3, Zenon DEF CallbackInv
  <2> QED
    BY <1>1, <2>1, <2>4 DEF NestedInv, AllOrNothing, ReturnCommits, FailureUndoes
<1>7. CASE server.tx # "none"
  <2>1. MarksIn(nest, mine, server) /\ server.tx \in {"open", "aborted"}
    BY <1>1, <1>7 DEF CallbackInv, Ledger
  <2>2. PICK i \in DOMAIN server.marks : MarkedIn(nest, mine, server, f, i) /\ Last(k) = i /\ Named(k) # {}
    BY <1>1, <1>2, <2>1, TopMark, Zenon
  <2>3. res \in Results("rollback_to", TRUE)
    BY <1>3, <1>7, <2>2, Zenon DEF Skipped
  <2>4. res[1] \in {"ok", "lost"}
    BY <2>3, ResultKinds, ZenonT(60)
  <2>5. CASE res[1] = "ok"
    <3>1. server' = RolledBack(k)
      BY <1>3, <2>5
    <3>2. /\ server'.alive = server.alive /\ server'.tx = "open" /\ server'.work = server.marks[i].before
          /\ server'.marks = SubSeq(server.marks, 1, i)
      BY <1>1, <2>1, <2>2, <3>1, SavepointFields, Zenon
    <3>3. server.marks \in Seq(Marks) /\ server.marks[i].before = BelowIn(nest, mine, k)
      BY <1>1, <1>2, <2>2, Zenon DEF Ledger, MarkedIn
    <3>4. MarksIn(nest, mine, server') /\ server'.marks \in Seq(Marks)
      BY <1>1, <1>2, <2>1, <2>2, <3>2, <3>3, BackMarks, ZenonT(60)
    <3>5. server.marks[i].before \in SUBSET Writes
      <4>1. server.marks[i] \in Marks
        BY <2>2, <3>3
      <4> QED
        BY <4>1 DEF Marks
    <3>6. Ledger(server')
      BY <1>1, <1>7, <3>2, <3>4, <3>5, Zenon DEF Ledger
    <3> QED
      BY <1>6, <3>2, <3>3, <3>4, <3>6
  <2>6. CASE res[1] = "lost"
    <3>1. server' = Failed("lost")
      BY <1>3, <2>6
    <3>2. server'.tx = "none" /\ ~server'.alive /\ Ledger(server')
      BY <1>1, <3>1, FailedLedger, Zenon DEF Failed, Fresh
    <3> QED
      BY <1>6, <3>2
  <2> QED
    BY <2>4, <2>5, <2>6, SMTT(30)
<1>8. CASE server.tx = "none"
  <2>1. Named(k) = {} /\ (server.alive => Ends)
    BY <1>1, <1>8 DEF Ledger, Named, CallbackInv
  <2>2. CASE Skipped
    <3>1. server' = server /\ dialect = "sqlite" /\ res[1] = "skipped"
      BY <1>3, <2>2 DEF Skipped
    <3>2. Told(nest'[f].bad)
      BY <1>3, <3>1, Zenon DEF Told
    <3> QED
      BY <1>1, <1>6, <1>8, <2>1, <3>1, <3>2, Zenon
  <2>3. CASE ~Skipped
    <3>1. res \in Results("rollback_to", FALSE)
      BY <1>3, <2>1, <2>3, ZenonT(60)
    <3>2. res[1] \in {"fail", "lost"} /\ ~res[2]
      BY <1>1, <3>1 DEF Results
    <3>3. Raised(res) # "ok"
      BY <3>2 DEF Raised
    <3>4. server' = Failed(res[1]) /\ nest'[f].bad
      BY <1>3, <3>2, <3>3
    <3>5. Ledger(server') /\ server'.tx = "none" /\ (server'.alive => server.alive)
      BY <1>1, <1>8, <3>4, FailedLedger, Zenon
    <3>6. Told(nest'[f].bad)
      BY <1>8, <2>3, <3>4, Zenon DEF Told, Skipped
    <3> QED
      BY <1>6, <2>1, <3>5, <3>6
  <2> QED
    BY <2>2, <2>3, SMTT(30)
<1> QED
  BY <1>7, <1>8

\* A callback throws an error of its own.
LEMMA AppThrowNested ==
  ASSUME Faithful, SessionInv, NestedInv, NEW g \in Flows \cup {0}, NEW e \in {"APP", "DEADLOCK"}, AppThrow(g, e)
  PROVE  NestedInv'
<1> DEFINE k == frame.savepoints
<1>1. /\ Runs(g) /\ world \in Worlds /\ Throw(g, e, nest) /\ e # "ok" /\ n' \in Nat
      /\ UNCHANGED <<world, server, committed, frame, mine, attempt>>
  BY DEF AppThrow, SessionInv, NestedInv
<1>2. /\ pc = "callback" /\ Top(nest, k, g) /\ AllIn(nest) /\ StackIn(nest, k, mine) /\ Ledger(server)
      /\ server.tx = "open" \/ (server.tx = "none" /\ ~server.alive)
      /\ server.tx = "open" => /\ MarksIn(nest, mine, server) /\ server.work = BelowIn(nest, mine, k + 1)
                               /\ frame.inserted \subseteq server.work
  BY <1>1, RunsOpen, Zenon
<1>3. Outcome(g, e, "statement", nest)
  BY <1>1, Zenon DEF Outcome
<1>4. StackIn(nest, k, mine') /\ frame'.savepoints = k
  BY <1>1, <1>2, Zenon
<1>5. server'.tx # "none" => /\ MarksIn(nest, mine', server') /\ server'.work = BelowIn(nest, mine', k + 1)
                             /\ frame'.inserted \subseteq server'.work
  BY <1>1, <1>2, Zenon
<1>6. Ledger(server') /\ server'.tx # "aborted" /\ ~(server'.tx = "none" /\ server'.alive)
  BY <1>1, <1>2, Zenon
<1> QED
  BY <1>1, <1>2, <1>3, <1>4, <1>5, <1>6, StepEnds, ZenonT(60)

\* The outer callback returns: the transaction holds what it did.
LEMMA ReturnNested ==
  ASSUME Faithful, SessionInv, NestedInv, Return
  PROVE  NestedInv'
<1> DEFINE k == frame.savepoints
<1>1. /\ Runs(0) /\ world \in Worlds /\ pc' = "finish"
      /\ UNCHANGED <<world, server, committed, frame, nest, mine, attempt, n, code, cleanup>>
  BY ZenonT(60) DEF Return, SessionInv
<1>2. /\ pc = "callback" /\ Top(nest, k, 0) /\ StackIn(nest, k, mine) /\ Ledger(server)
      /\ server.tx = "open" \/ (server.tx = "none" /\ ~server.alive)
      /\ server.tx = "open" => server.work = BelowIn(nest, mine, k + 1)
  BY <1>1, RunsOpen
<1>3. k = 0
  BY <1>2 DEF Top, DepthIn
<1>4. BelowIn(nest, mine, k + 1) = mine[0]
  <2>1. \A h \in Flows : mine[h] = {}
    BY <1>2, <1>3 DEF StackIn
  <2>2. DepthIn(nest, 0) = 0
    BY DEF DepthIn
  <2>3. ASSUME NEW v PROVE v \in BelowIn(nest, mine, k + 1) <=> v \in mine[0]
    BY <1>3, <2>1, <2>2, BelowIs
  <2> QED
    BY <2>3, SMTT(30)
<1>5. server.alive => server.tx = "open" /\ server.work = mine[0]
  BY <1>2, <1>4
<1>6. StackIn(nest, frame.savepoints, mine)' /\ Ledger(server)'
  BY <1>1, <1>2, Zenon DEF Ledger
<1> QED
  BY <1>1, <1>2, <1>3, <1>5, <1>6, Zenon DEF NestedInv, AllOrNothing, ReturnCommits, FailureUndoes

\* The signal is aborted.
LEMMA CancelNested ==
  ASSUME SessionInv, NestedInv, Cancel
  PROVE  NestedInv'
<1>1. /\ pc = "callback" /\ FrameShape(frame) /\ frame' = [frame EXCEPT !.canceled = TRUE]
      /\ UNCHANGED <<world, server, committed, nest, mine, pc, attempt, n, code>>
  BY DEF Cancel, SessionInv
<1>2. frame'.savepoints = frame.savepoints /\ frame'.inserted = frame.inserted
  BY <1>1, FrameFields
<1>3. dialect' = dialect /\ (Ends' <=> Ends) /\ (Settling' <=> Settling)
  BY <1>1 DEF dialect, Ends, Settling
<1>4. CallbackInv'
  <2>1. CallbackInv
    BY <1>1 DEF NestedInv
  <2>2. /\ (MarksIn(nest, mine, server)' <=> MarksIn(nest, mine, server))
        /\ BelowIn(nest, mine, frame.savepoints)' = BelowIn(nest, mine, frame.savepoints)
        /\ BelowIn(nest, mine, frame.savepoints + 1)' = BelowIn(nest, mine, frame.savepoints + 1)
    BY <1>1, <1>2
  <2> QED
    BY <1>1, <1>2, <1>3, <2>1, <2>2 DEF CallbackInv, Told
<1>5. StackIn(nest, frame.savepoints, mine)' /\ Ledger(server)'
  <2>1. StackIn(nest, frame.savepoints, mine) /\ Ledger(server)
    BY DEF NestedInv
  <2> QED
    BY <1>1, <1>2, <2>1
<1> QED
  BY <1>1, <1>4, <1>5 DEF NestedInv, AllOrNothing, ReturnCommits, FailureUndoes

\* No nested transaction is open.
LEMMA EmptyStack ==
  ASSUME NEW x, x = [f \in Flows |-> x[f]], \A f \in Flows : FlowShape(x[f]) /\ x[f].pc = "out" /\ x[f].name = 0,
         NEW m \in [Flows \cup {0} -> SUBSET Writes], \A f \in Flows : m[f] = {}
  PROVE  StackIn(x, 0, m)
<1>1. OpenIn(x) = {}
  BY DEF OpenIn
<1>2. 1 .. 0 = {}
  OBVIOUS
<1> QED
  BY <1>1, <1>2 DEF StackIn

\* The converse.
LEMMA StackEmpty ==
  ASSUME NEW x, NEW m, StackIn(x, 0, m)
  PROVE  /\ OpenIn(x) = {} /\ x = [f \in Flows |-> x[f]]
         /\ \A f \in Flows : FlowShape(x[f]) /\ x[f].pc = "out" /\ x[f].name = 0 /\ m[f] = {}
<1>1. OpenIn(x) = {}
  BY DEF StackIn
<1> QED
  BY <1>1 DEF StackIn, OpenIn

\* A new frame has no savepoint and no facts.
LEMMA NewFrameFields ==
  ASSUME NEW o
  PROVE  NewFrame(o).savepoints = 0 /\ NewFrame(o).inserted = {}
BY DEF NewFrame

\* A new session has no transaction.
LEMMA FreshFields == Ledger(Fresh) /\ Fresh.alive /\ Fresh.tx = "none" /\ Fresh.work = {} /\ Fresh.marks = <<>>
<1>1. Fresh.alive /\ Fresh.tx = "none" /\ Fresh.work = {} /\ Fresh.marks = <<>>
  BY DEF Fresh
<1> QED
  BY <1>1 DEF Ledger

\* Nothing was called yet.
LEMMA InitNested == Init => NestedInv
<1> SUFFICES ASSUME Init PROVE NestedInv
  OBVIOUS
<1>1. /\ server = Fresh /\ committed = {} /\ frame = NewFrame(FALSE) /\ pc = "idle" /\ attempt = 0 /\ n = 0
      /\ code = "ok" /\ nest = [f \in Flows |-> NoFlow] /\ mine = [g \in Flows \cup {0} |-> {}]
  BY DEF Init
<1>2. frame.savepoints = 0
  BY <1>1, NewFrameFields, Zenon
<1>3. StackIn(nest, 0, mine)
  <2>1. /\ nest = [f \in Flows |-> nest[f]]
        /\ \A f \in Flows : FlowShape(nest[f]) /\ nest[f].pc = "out" /\ nest[f].name = 0
    BY <1>1, NoFlowShape
  <2>2. mine \in [Flows \cup {0} -> SUBSET Writes] /\ \A f \in Flows : mine[f] = {}
    BY <1>1
  <2> QED
    BY <2>1, <2>2, EmptyStack, Zenon
<1>4. mine[0] = {}
  BY <1>1, SMTT(30)
<1> QED
  BY <1>1, <1>2, <1>3, <1>4, FreshFields, Zenon DEF NestedInv, AllOrNothing, ReturnCommits, FailureUndoes

\* run() starts an attempt without any work.
LEMMA ReserveNested ==
  ASSUME SessionInv, NestedInv, pc \in {"idle", "retry"}, NEW o, Reserve(o),
         committed' = {}, attempt' \in Nat
  PROVE  NestedInv'
<1>1. /\ pc' = "begin" /\ code' = "ok" /\ UNCHANGED <<world, nest, step, n>> /\ frame' = NewFrame(o)
      /\ mine' = [g \in Flows \cup {0} |-> {}] /\ server' = (IF session = "closed" THEN Fresh ELSE server)
  BY DEF Reserve
<1>2. frame'.savepoints = 0 /\ frame'.inserted = {}
  BY <1>1, NewFrameFields
<1>3. /\ StackIn(nest, 0, mine) /\ Ledger(server) /\ server.tx = "none" /\ n \in Nat /\ step = 0
  BY DEF NestedInv, SessionInv
<1>4. StackIn(nest', 0, mine')
  <2>1. /\ nest' = [f \in Flows |-> nest'[f]]
        /\ \A f \in Flows : FlowShape(nest'[f]) /\ nest'[f].pc = "out" /\ nest'[f].name = 0
    BY <1>1, <1>3, StackEmpty
  <2>2. mine' \in [Flows \cup {0} -> SUBSET Writes] /\ \A f \in Flows : mine'[f] = {}
    BY <1>1
  <2> QED
    BY <2>1, <2>2, EmptyStack, Zenon
<1>5. Ledger(server') /\ server'.work = {} /\ server'.marks = <<>> /\ server'.tx = "none"
  BY <1>1, <1>3, FreshFields DEF Ledger
<1>6. \A g \in Flows \cup {0} : mine'[g] = {}
  BY <1>1
<1>7. Ledger(server)' /\ StackIn(nest, frame.savepoints, mine)'
  BY <1>2, <1>4, <1>5
<1> QED
  BY <1>1, <1>2, <1>3, <1>5, <1>6, <1>7, SMTT(30) DEF NestedInv, AllOrNothing, ReturnCommits, FailureUndoes

\* The end of an attempt reports what was committed.
LEMMA GiveBackNested ==
  ASSUME NestedInv, SessionInv', NEW s, NEW e, NEW d, GiveBack(s, e, d), Ledger(s),
         e = "ok" => committed' = mine[0],
         e # "ok" => committed' = {} \/ (e \in {"SUBSCRIBER", "LOST"} /\ committed' = mine[0])
  PROVE  NestedInv'
<1>1. /\ session' = (IF d /\ dialect # "sqlite" THEN "closed" ELSE "pool")
      /\ server' = (IF d /\ dialect # "sqlite" THEN Fresh ELSE s)
      /\ code' = e /\ pc' = (IF e = "DEADLOCK" /\ attempt < Retry THEN "retry" ELSE "idle")
      /\ frame' = NewFrame(FALSE) /\ nest' = [f \in Flows |-> NoFlow] /\ n' = 0 /\ attempt' = attempt
      /\ mine' = [g \in Flows \cup {0} |-> IF g = 0 THEN mine[0] ELSE {}]
  BY DEF GiveBack, Forget
<1>2. pc' \in {"idle", "retry"} /\ (pc' = "retry" => e = "DEADLOCK")
  BY <1>1
<1>3. Ledger(server') /\ server'.tx = "none"
  <2>1. CASE d /\ dialect # "sqlite"
    BY <1>1, <2>1, FreshFields
  <2>2. CASE ~(d /\ dialect # "sqlite")
    <3>1. server' = s /\ session' = "pool"
      BY <1>1, <2>2, SMTT(30)
    <3>2. server'.tx = "none"
      BY <1>2, <3>1, SMTT(30) DEF SessionInv, CleanOrDiscarded
    <3> QED
      BY <3>1, <3>2
  <2> QED
    BY <2>1, <2>2
<1>4. mine \in [Flows \cup {0} -> SUBSET Writes] /\ attempt \in Nat
  BY DEF NestedInv, StackIn
<1>5. mine'[0] = mine[0] /\ mine' \in [Flows \cup {0} -> SUBSET Writes] /\ \A f \in Flows : mine'[f] = {}
  BY <1>1, <1>4, ZeroFlow, ZenonT(60)
<1>6. /\ nest' = [f \in Flows |-> nest'[f]]
      /\ \A f \in Flows : FlowShape(nest'[f]) /\ nest'[f].pc = "out" /\ nest'[f].name = 0
  BY <1>1, NoFlowShape
<1>7. StackIn(nest', 0, mine') /\ frame'.savepoints = 0
  BY <1>1, <1>5, <1>6, EmptyStack, NewFrameFields, ZenonT(60)
<1>8. Ledger(server)' /\ StackIn(nest, frame.savepoints, mine)'
  BY <1>3, <1>7
<1>9. AllOrNothing'
  BY <1>1, <1>5 DEF AllOrNothing, ReturnCommits, FailureUndoes
<1>10. pc' # "idle" => committed' = {}
  BY <1>2, SMTT(30)
<1> QED
  BY <1>1, <1>2, <1>3, <1>4, <1>7, <1>8, <1>9, <1>10, ZenonT(60) DEF NestedInv

\* The state of the call in finish().
LEMMA FinishNested ==
  ASSUME NestedInv, pc' = "finish", Ledger(server'), UNCHANGED <<nest, mine, attempt, n, committed>>,
         pc # "idle", frame'.savepoints = frame.savepoints, frame.savepoints = 0,
         code' = "ok" /\ cleanup' = "ok" /\ server'.alive => server'.tx = "open" /\ server'.work = mine[0]
  PROVE  NestedInv'
<1>1. StackIn(nest, frame.savepoints, mine)' /\ Ledger(server)'
  <2>1. StackIn(nest, frame.savepoints, mine)
    BY ZenonT(60) DEF NestedInv
  <2> QED
    BY <2>1
<1> QED
  BY <1>1 DEF NestedInv, AllOrNothing, ReturnCommits, FailureUndoes

\* The statements of begin() do no work; BEGIN opens the transaction.
LEMMA BegunLedger ==
  ASSUME Sound(server), Ledger(server), server.alive, server.work = {}, server.marks = <<>>,
         NEW kind \in {"level", "begin", "mode", "local"}
  PROVE  /\ Ledger(Begun(kind)) /\ Begun(kind).alive /\ Begun(kind).work = {} /\ Begun(kind).marks = <<>>
         /\ Begun(kind).tx = (IF kind = "begin" THEN "open" ELSE server.tx)
<1>1. Begun(kind).alive
  BY BegunFacts
<1>2. /\ Begun(kind).work = {} /\ Begun(kind).marks = <<>>
      /\ Begun(kind).tx = (IF kind = "begin" THEN "open" ELSE server.tx)
  <2>1. CASE kind = "level"
    BY <2>1 DEF Begun, Sound, Shape
  <2>2. CASE kind = "begin"
    BY <2>2, Zenon DEF Begun, Sound, Shape
  <2>3. CASE kind = "mode"
    BY <2>3 DEF Begun, Sound, Shape
  <2>4. CASE kind = "local"
    BY <2>4 DEF Begun
  <2> QED
    BY <2>1, <2>2, <2>3, <2>4
<1> QED
  BY <1>1, <1>2 DEF Ledger

\* begin(): the callback starts on an open transaction without work.
LEMMA BeginNested ==
  ASSUME Reported, SessionInv, NestedInv, SessionInv', Begin
  PROVE  NestedInv'
<1> DEFINE kind == Steps[step + 1]
           can == ~(dialect = "sqlite" /\ kind = "begin" /\ server.tx # "none")
<1>1. PICK res \in Results(kind, can) : BeginResult(kind, res)
  BY DEF Begin
<1>2. /\ pc = "begin" /\ world \in Worlds /\ ~world.mute /\ Sound(server) /\ Ledger(server) /\ committed' = committed
      /\ \A g \in Flows \cup {0} : mine[g] = {}
      /\ frame.inserted = {} /\ server.work = {} /\ server.marks = <<>> /\ frame.savepoints = 0
      /\ step = 1 /\ dialect # "mysql" => server.tx = "open"
      /\ attempt \in Nat /\ n \in Nat /\ committed = {} /\ code = "ok"
  BY Zenon DEF Begin, SessionInv, NestedInv, Reported
<1>3. StackIn(nest, 0, mine) /\ OpenIn(nest) = {} /\ \A f \in Flows : nest[f].pc = "out"
  <2>1. StackIn(nest, 0, mine)
    BY <1>2, ZenonT(60) DEF NestedInv
  <2> QED
    BY <2>1, StackEmpty
<1>4. (step = 0 /\ server.alive /\ server.tx = "none") \/ (step = 1 /\ opt)
  BY <1>2, SMTT(30) DEF SessionInv
<1>5. /\ kind \in {"level", "begin", "mode", "local"}
      /\ Len(Steps) = (IF opt THEN 2 ELSE 1)
      /\ ~opt => kind = "begin"
      /\ opt /\ dialect = "mysql" => Steps[1] = "level" /\ Steps[2] = "begin"
      /\ opt /\ dialect # "mysql" => Steps[1] = "begin" /\ Steps[2] = (IF dialect = "sqlite" THEN "mode" ELSE "local")
  BY <1>2, <1>4, StepsAre, Dialects, SMTT(30)
<1>6. /\ res[1] = "ok" => server.alive
      /\ res[2] => res[1] = "ok"
  BY <1>1, <1>2, ResultFacts DEF Sound
<1>7. Raised(res) = "ok" => res[1] = "ok"
  BY <1>6, RaisedFacts
<1> DEFINE s == IF res[1] = "ok" THEN Begun(kind) ELSE Failed(res[1])
<1>8. /\ Ledger(s)
      /\ res[1] = "ok" => /\ s.alive /\ s.work = {} /\ s.marks = <<>>
                          /\ s.tx = (IF kind = "begin" THEN "open" ELSE server.tx)
  BY <1>2, <1>5, <1>6, BegunLedger, FailedLedger, Zenon
<1>9. \/ /\ Raised(res) = "ok" /\ server' = s /\ step' = step + 1
         /\ pc' = (IF step + 1 = Len(Steps) THEN "callback" ELSE "begin")
         /\ UNCHANGED <<world, frame, nest, mine, attempt, n, code>>
      \/ Raised(res) # "ok" /\ GiveBack(s, Raised(res), TRUE)
      \/ /\ Raised(res) # "ok" /\ server' = s /\ pc' = "finish" /\ code' = Raised(res)
         /\ UNCHANGED <<frame, nest, mine, attempt, n>>
  BY <1>1, Zenon DEF BeginResult
<1>10. ASSUME Raised(res) = "ok" PROVE kind = (IF step = 0 THEN Steps[1] ELSE Steps[2])
  BY <1>4
<1> HIDE DEF kind, can, s
<1>11. CASE Raised(res) = "ok"
  <2>1. /\ server' = s /\ step' = step + 1 /\ pc' = (IF step + 1 = Len(Steps) THEN "callback" ELSE "begin")
        /\ UNCHANGED <<world, frame, nest, mine, attempt, n, code>> /\ dialect' = dialect
    BY <1>9, <1>11 DEF dialect
  <2>2. /\ server'.alive /\ server'.work = {} /\ server'.marks = <<>> /\ Ledger(server')
        /\ server'.tx = (IF kind = "begin" THEN "open" ELSE server.tx)
    BY <1>7, <1>8, <1>11, <2>1, SMTT(30)
  <2>3. StackIn(nest, frame.savepoints, mine)' /\ Ledger(server)'
    BY <1>2, <1>3, <2>1, <2>2
  <2>4. CASE step + 1 # Len(Steps)
    <3>1. step' = 1 /\ (dialect # "mysql" => kind = "begin") /\ pc' = "begin"
      BY <1>4, <1>5, <1>10, <1>11, <2>1, <2>4, SMTT(30)
    <3>2. step' = 1 /\ dialect' # "mysql" => server'.tx = "open"
      BY <2>1, <2>2, <3>1, SMTT(30)
    <3>3. (\A g \in Flows \cup {0} : mine'[g] = {}) /\ frame'.inserted = {} /\ frame'.savepoints = 0
      BY <1>2, <2>1
    <3> QED
      BY <1>2, <2>1, <2>2, <2>3, <3>1, <3>2, <3>3, ZenonT(60) DEF NestedInv, AllOrNothing, ReturnCommits, FailureUndoes
  <2>5. CASE step + 1 = Len(Steps)
    <3>1. pc' = "callback" /\ server'.tx = "open"
      <4>1. kind = "begin" \/ (step = 1 /\ dialect # "mysql")
        BY <1>4, <1>5, <1>10, <1>11, <2>5
      <4> QED
        BY <1>2, <2>1, <2>2, <2>5, <4>1, ZenonT(60)
    <3>2. OpenIn(nest') = {} /\ ~Settling'
      BY <1>3, <2>1, Zenon DEF Settling
    <3>3. MarksIn(nest, mine, server)'
      BY <3>2 DEF MarksIn
    <3>4. BelowIn(nest, mine, frame.savepoints + 1)' = {}
      <4>1. ASSUME NEW v PROVE v \notin BelowIn(nest', mine', frame'.savepoints + 1)
        BY <1>2, <2>1, BelowIs
      <4> QED
        BY <4>1, SMTT(30)
    <3>5. frame'.inserted = {}
      BY <1>2, <2>1
    <3>6. CallbackInv'
      BY <2>2, <3>1, <3>2, <3>3, <3>4, <3>5, Zenon DEF CallbackInv
    <3> QED
      BY <1>2, <2>1, <2>3, <3>1, <3>6, Zenon DEF NestedInv, AllOrNothing, ReturnCommits, FailureUndoes
  <2> QED
    BY <2>4, <2>5
<1>12. CASE Raised(res) # "ok" /\ GiveBack(s, Raised(res), TRUE)
  BY <1>2, <1>8, <1>12, GiveBackNested, ZenonT(60)
<1>13. CASE /\ Raised(res) # "ok" /\ server' = s /\ pc' = "finish" /\ code' = Raised(res)
            /\ UNCHANGED <<frame, nest, mine, attempt, n>>
  BY <1>2, <1>8, <1>13, FinishNested
<1> QED
  BY <1>9, <1>11, <1>12, <1>13, Zenon

\* The cleanup statements change nothing of the transaction, or the call fails.
LEMMA CleanNested ==
  ASSUME Reported, SessionInv, NestedInv, NEW x, Clean(x)
  PROVE  NestedInv'
<1>1. /\ pc = "finish" /\ pc' = pc /\ ~world.mute /\ Sound(server) /\ FrameShape(frame) /\ Ledger(server)
      /\ frame.savepoints = 0 /\ UNCHANGED <<committed, nest, mine, attempt, n, code>>
  BY Zenon DEF Clean, SessionInv, NestedInv, Reported
<1>2. PICK res \in Results("clean", TRUE) :
        /\ server' = (IF res[1] = "ok" THEN [server EXCEPT !.left = server.left \ {x}] ELSE Failed(res[1]))
        /\ frame' = [frame EXCEPT !.todo = frame.todo \ {x}]
        /\ cleanup' = (IF cleanup = "ok" THEN Raised(res) ELSE cleanup)
  BY Zenon DEF Clean, Cleaned
<1>3. (res[2] => res[1] = "ok") /\ (res[1] = "ok" => server.alive)
  BY <1>1, <1>2, ResultFacts, Zenon DEF Sound
<1>4. Raised(res) = "ok" => res[1] = "ok"
  BY <1>3, RaisedFacts
<1>5. frame'.savepoints = frame.savepoints
  BY <1>1, <1>2, FrameFields
<1>6. CASE res[1] = "ok"
  <2>1. server' = [server EXCEPT !.left = server.left \ {x}]
    BY <1>2, <1>6
  <2>2. /\ server'.alive = server.alive /\ server'.tx = server.tx /\ server'.work = server.work
        /\ server'.marks = server.marks
    BY <1>1, <2>1 DEF Sound, Shape
  <2>3. Ledger(server')
    BY <1>1, <2>2 DEF Ledger
  <2>4. code' = "ok" /\ cleanup' = "ok" /\ server'.alive => server'.tx = "open" /\ server'.work = mine[0]
    BY <1>1, <1>2, <1>3, <1>6, <2>2, SMTT(30) DEF NestedInv
  <2> QED
    BY <1>1, <1>5, <2>3, <2>4, FinishNested, Zenon
<1>7. CASE res[1] # "ok"
  <2>1. server' = Failed(res[1]) /\ cleanup' # "ok"
    BY <1>2, <1>4, <1>7, SMTT(30)
  <2>2. Ledger(server')
    BY <1>1, <2>1, FailedLedger
  <2> QED
    BY <1>1, <1>5, <2>1, <2>2, FinishNested
<1> QED
  BY <1>6, <1>7

\* COMMIT commits the work of the outer callback, all of it or nothing.
LEMMA CommitNested ==
  ASSUME Reported, SessionInv, NestedInv, SessionInv', Commit
  PROVE  NestedInv'
<1>1. /\ pc = "finish" /\ code = "ok" /\ cleanup = "ok" /\ ~world.mute /\ Sound(server) /\ Ledger(server)
      /\ committed = {} /\ frame.savepoints = 0 /\ attempt \in Nat /\ n \in Nat
      /\ server.alive => server.tx = "open" /\ server.work = mine[0]
  BY Zenon DEF Commit, Commits, SessionInv, NestedInv, Reported
<1>2. PICK res \in Results("commit", dialect = "sqlite" => server.tx # "none"), worked \in BOOLEAN :
        /\ IF res[1] = "lost" THEN worked => server.alive ELSE worked <=> res[1] = "ok"
        /\ committed' = (IF worked /\ server.tx \in {"open", "savepoint"} THEN committed \cup server.work ELSE committed)
        /\ \/ Raised(res) \in {"ok", "SUBSCRIBER"} /\ GiveBack(AfterCommit(res[1]), Raised(res), FALSE)
           \/ Raised(res) \notin {"ok", "SUBSCRIBER"} /\ GiveBack(AfterCommit(res[1]), Raised(res), TRUE)
           \/ /\ Raised(res) \notin {"ok", "SUBSCRIBER"} /\ dialect = "sqlite"
              /\ server' = AfterCommit(res[1]) /\ pc' = "uncommit" /\ code' = Raised(res)
              /\ UNCHANGED <<frame, nest, mine, attempt, n>>
  BY ZenonT(60) DEF Commit
<1>3. /\ res[2] => res[1] = "ok"
      /\ res[1] = "ok" => server.alive
      /\ dialect = "sqlite" => res[1] # "lost"
  BY <1>1, <1>2, ResultFacts, Zenon DEF Sound
<1>4. Raised(res) \in {"ok", "SUBSCRIBER"} <=> res[1] = "ok"
  BY <1>3, RaisedFacts, SMTT(30)
<1>5. /\ res[1] = "ok" => committed' = mine[0]
      /\ res[1] \notin {"ok", "lost"} => committed' = {}
      /\ res[1] = "lost" => committed' \in {{}, mine[0]} /\ Raised(res) = "LOST"
  <2>1. CASE res[1] = "ok"
    BY <1>1, <1>2, <1>3, <2>1, SMTT(30)
  <2>2. CASE res[1] = "lost"
    <3>1. Raised(res) = "LOST"
      BY <1>3, <2>2, SMTT(30) DEF Raised
    <3> QED
      BY <1>1, <1>2, <2>2, <3>1
  <2>3. CASE res[1] \notin {"ok", "lost"}
    BY <1>1, <1>2, <2>3
  <2> QED
    BY <2>1, <2>2, <2>3, SMTT(30)
<1>6. Ledger(AfterCommit(res[1]))
  BY <1>1, FailedLedger, EndedLedger DEF AfterCommit
<1> DEFINE e == Raised(res)
           s == AfterCommit(res[1])
<1>7. /\ e = "ok" => committed' = mine[0]
      /\ e # "ok" => committed' = {} \/ (e \in {"SUBSCRIBER", "LOST"} /\ committed' = mine[0])
  BY <1>4, <1>5
<1>8. \/ GiveBack(s, e, FALSE)
      \/ GiveBack(s, e, TRUE)
      \/ /\ e # "ok" /\ committed' = {} /\ server' = s /\ pc' = "uncommit" /\ code' = e
         /\ UNCHANGED <<frame, nest, mine, attempt, n>>
  BY <1>2, <1>3, <1>4, <1>5, ZenonT(60)
<1> HIDE DEF e, s
<1>9. CASE \E d \in BOOLEAN : GiveBack(s, e, d)
  BY <1>6, <1>7, <1>9, GiveBackNested DEF s
<1>10. CASE /\ e # "ok" /\ committed' = {} /\ server' = s /\ pc' = "uncommit" /\ code' = e
            /\ UNCHANGED <<frame, nest, mine, attempt, n>>
  <2>1. StackIn(nest, frame.savepoints, mine)' /\ Ledger(server)'
    <3>1. StackIn(nest, frame.savepoints, mine)
      BY DEF NestedInv
    <3> QED
      BY <1>6, <1>10, <3>1, SMTT(30) DEF s
  <2> QED
    BY <1>1, <1>10, <2>1, ZenonT(60) DEF NestedInv, AllOrNothing, ReturnCommits, FailureUndoes
<1> QED
  BY <1>8, <1>9, <1>10, Zenon

\* The steps that end a failed call commit nothing.
LEMMA FailureNested ==
  ASSUME Reported, SessionInv, NestedInv, SessionInv', Drop \/ Uncommit \/ Rollback
  PROVE  NestedInv'
<1>1. Sound(server) /\ Ledger(server)
  BY DEF SessionInv, NestedInv
<1>2. \E s, e, d : GiveBack(s, e, d) /\ Ledger(s) /\ e # "ok" /\ committed' = {}
  <2>1. CASE Drop
    <3>1. GiveBack(server, code, TRUE) /\ code # "ok" /\ committed' = {}
      BY <2>1, Zenon DEF Drop, Drops, NestedInv
    <3> QED
      BY <1>1, <3>1, Zenon
  <2>2. CASE Uncommit
    <3>1. PICK res : GiveBack(IF res[1] = "ok" THEN Ended(server) ELSE Failed(res[1]),
                              IF Raised(res) = "ok" THEN code ELSE "ROLLBACK", FALSE)
      BY <2>2, Zenon DEF Uncommit
    <3>2. Ledger(IF res[1] = "ok" THEN Ended(server) ELSE Failed(res[1]))
      BY <1>1, FailedLedger, EndedLedger, SMTT(30)
    <3>3. code # "ok" /\ committed' = {}
      BY <2>2 DEF Uncommit, NestedInv
    <3>4. (IF Raised(res) = "ok" THEN code ELSE "ROLLBACK") # "ok"
      BY <3>3
    <3> QED
      BY <3>1, <3>2, <3>3, <3>4, Zenon
  <2>3. CASE Rollback
    <3>1. PICK res : GiveBack(IF res[1] = "ok" THEN Ended(server) ELSE Failed(res[1]), EndError(Raised(res)),
                              discard \/ Raised(res) \notin {"ok", "SUBSCRIBER"})
      BY <2>3 DEF Rollback
    <3>2. Ledger(IF res[1] = "ok" THEN Ended(server) ELSE Failed(res[1]))
      BY <1>1, FailedLedger, EndedLedger
    <3>3. committed' = {} /\ ~(code = "ok" /\ cleanup = "ok")
      BY <2>3, Zenon DEF Rollback, NestedInv, Commits
    <3>4. EndError(Raised(res)) # "ok"
      BY <3>3 DEF EndError
    <3> QED
      BY <3>1, <3>2, <3>3, <3>4, SMTT(30)
  <2> QED
    BY <2>1, <2>2, <2>3
<1> QED
  BY <1>2, GiveBackNested, SMTT(30)

\* Every step keeps the invariant.
LEMMA NextNested ==
  ASSUME Reported, Faithful
  PROVE  SessionInv /\ NestedInv /\ [Next]_vars => NestedInv'
<1> SUFFICES ASSUME SessionInv, NestedInv, [Next]_vars PROVE NestedInv'
  OBVIOUS
<1>0. SessionInv'
  BY NextSession, SMTT(30)
<1>1. CASE UNCHANGED vars
  <2>1. /\ UNCHANGED <<world, server, committed, frame, nest, mine, pc, step, attempt, n, code, cleanup>>
        /\ dialect' = dialect /\ (Ends' <=> Ends) /\ (Settling' <=> Settling)
    BY <1>1, Zenon DEF vars, client, dialect, Ends, Settling
  <2>2. (CallbackInv' <=> CallbackInv) /\ (AllOrNothing' <=> AllOrNothing)
    BY <2>1, Zenon DEF CallbackInv, Told, AllOrNothing, ReturnCommits, FailureUndoes
  <2> QED
    BY <2>1, <2>2 DEF NestedInv
<1>2. ASSUME NEW o \in BOOLEAN, Call(o) PROVE NestedInv'
  BY <1>2, ReserveNested DEF Call
<1>3. CASE Again
  <2>1. committed' = {} /\ attempt' \in Nat
    BY <1>3 DEF Again, NestedInv
  <2> QED
    BY <1>3, <2>1, ReserveNested, SMTT(30) DEF Again
<1>4. CASE Begin \/ Commit \/ Drop \/ Uncommit \/ Rollback
  BY <1>0, <1>4, BeginNested, CommitNested, FailureNested
<1>5. ASSUME NEW x, Clean(x) PROVE NestedInv'
  BY <1>5, CleanNested
<1>6. ASSUME NEW f \in Flows, UndoTo(f) \/ UndoRelease(f) \/ Resolve(f) PROVE NestedInv'
  BY <1>6, UndoToNested, UndoReleaseNested, ResolveNested
<1>7. ASSUME NEW g \in Flows \cup {0}, NEW x, Write(g) \/ Hold(g, x) PROVE NestedInv'
  BY <1>7, WriteNested, HoldNested
<1>8. ASSUME NEW g \in Flows \cup {0}, NEW f \in Flows, Enter(g, f) PROVE NestedInv'
  BY <1>8, EnterNested
<1>9. ASSUME NEW g \in Flows \cup {0}, NEW e \in {"APP", "DEADLOCK"}, AppThrow(g, e) PROVE NestedInv'
  BY <1>9, AppThrowNested
<1>10. CASE Return \/ Cancel
  BY <1>10, ReturnNested, CancelNested
<1> QED
  BY <1>1, <1>2, <1>3, <1>4, <1>5, <1>6, <1>7, <1>8, <1>9, <1>10, ZenonT(60) DEF Next, Client, Callback

\* The open transaction has the work of the callbacks that are open, and the
\* savepoints of the nested ones: NestedInv holds in every state.
THEOREM NestedKept == ASSUME Reported, Faithful PROVE Spec => []NestedInv
<1>1. Init => NestedInv
  BY InitNested
<1>2. SessionInv /\ NestedInv /\ [Next]_vars => NestedInv'
  BY NextNested
<1>3. Spec => []SessionInv
  BY SessionKept
<1> QED
  BY <1>1, <1>2, <1>3, PTL DEF Spec

\* "A callback error or exception rolls back the transaction; otherwise the
\* transaction commits" (docs/spec/interfaces.md): a call that returns has
\* committed all that its callback did, and a call that fails nothing, unless the
\* COMMIT itself was lost or its subscriber failed; for every `retry`, number of
\* writes and depth of nesting.
THEOREM CallIsAllOrNothing == ASSUME Reported, Faithful PROVE Spec => []AllOrNothing
<1>1. NestedInv => AllOrNothing
  BY DEF NestedInv
<1> QED
  BY <1>1, NestedKept, PTL

\* The work that the properties ask for is that of the callbacks less deep than
\* the one that is undone, or of all of them.
LEMMA WorkBelow ==
  ASSUME NEW k, StackIn(nest, k, mine), NEW d, d = IF Settling THEN k ELSE k + 1
  PROVE  BelowIn(nest, mine, d) =
           UNION {mine[g] : g \in {h \in Flows : nest[h].pc \in {"in", "undo"}} \cup {0}}
<1> DEFINE G == {h \in Flows : nest[h].pc \in {"in", "undo"}} \cup {0}
<1>1. /\ k \in Nat /\ \A h \in Flows : nest[h].pc \in {"out", "in", "undo", "undone"}
      /\ \A h \in Flows : nest[h].pc = "out" => mine[h] = {}
  BY DEF StackIn, FlowShape, OpenIn
<1>2. \A h \in Flows \cup {0} : DepthIn(nest, h) \in 0 .. k
  BY DepthRange
<1>3. \A h \in G : DepthIn(nest, h) < d
  <2>1. CASE ~Settling
    BY <1>1, <1>2, <2>1, SMTT(30)
  <2>2. CASE Settling
    <3>1. PICK f \in Flows : nest[f].pc = "undone"
      BY <2>2, SMTT(30) DEF Settling
    <3>2. f \in OpenIn(nest) /\ nest[f].name = k /\ f # 0 /\ d = k
      BY <2>2, <3>1, UndoTop, ZeroFlow, SMTT(30)
    <3>3. DepthIn(nest, f) = k
      BY <3>2, SMTT(30) DEF DepthIn
    <3>4. \A h \in OpenIn(nest) \cup {0} : DepthIn(nest, h) = k => h = f
      BY <3>2, <3>3, DepthOne, SMTT(30)
    <3>5. \A h \in G : h \in OpenIn(nest) \cup {0} /\ h # f
      BY <3>1, <3>2 DEF OpenIn
    <3> QED
      BY <1>1, <1>2, <3>2, <3>4, <3>5, SMTT(30)
  <2> QED
    BY <2>1, <2>2
<1>4. ASSUME NEW h \in Flows \cup {0}, DepthIn(nest, h) < d, h \notin G PROVE mine[h] = {}
  <2>1. CASE nest[h].pc = "undone"
    <3>1. Settling /\ h \in Flows /\ h # 0
      BY <1>4, <2>1, ZeroFlow, SMTT(30) DEF Settling
    <3>2. nest[h].name = k /\ d = k
      BY <2>1, <3>1, UndoTop, SMTT(30)
    <3> QED
      BY <1>1, <1>4, <3>1, <3>2, SMTT(30) DEF DepthIn
  <2> QED
    BY <1>1, <1>4, <2>1
<1>5. ASSUME NEW v PROVE v \in BelowIn(nest, mine, d) <=> \E g \in G : v \in mine[g]
  BY <1>3, <1>4, BelowIs
<1> QED
  BY <1>5

\* "An inner failure rolls back only the inner work unless the outer callback
\* returns it" (docs/spec/interfaces.md): the open transaction has the work of its
\* callbacks without that of the nested transactions that failed, and wasInserted()
\* reports no row that a savepoint took back, at every depth of nesting.
THEOREM NestedIsSound == ASSUME Reported, Faithful PROVE Spec => []NestedSound
<1>1. NestedInv => NestedSound
  <2> SUFFICES ASSUME NestedInv, pc = "callback", server.tx = "open" PROVE InnerOnly /\ InsertedSound
    BY DEF NestedSound, InnerOnly, InsertedSound
  <2>1. CallbackInv /\ StackIn(nest, frame.savepoints, mine)
    BY SMTT(30) DEF NestedInv
  <2>2. server.work = BelowIn(nest, mine, IF Settling THEN frame.savepoints ELSE frame.savepoints + 1)
    BY <2>1, SMTT(30) DEF CallbackInv
  <2>3. InnerOnly
    BY <2>1, <2>2, WorkBelow, SMTT(30) DEF InnerOnly
  <2>4. InsertedSound
    BY <2>1 DEF CallbackInv, InsertedSound
  <2> QED
    BY <2>3, <2>4, SMTT(30)
<1> QED
  BY <1>1, NestedKept, PTL
=============================================================================

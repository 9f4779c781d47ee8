-------------------------- MODULE TransactionProofs --------------------------
(***************************************************************************)
(* A session that transaction() returns to the pool is clean or discarded, *)
(* for every number of attempts, writes and nested transactions, whatever  *)
(* fails, on worlds whose subscribers fail as Reported says.               *)
(*                                                                         *)
(* After it, the facts about nested transactions as a stack, and about the *)
(* savepoints of a session, that NestedProofs rests on.                    *)
(***************************************************************************)
EXTENDS Transaction, TLAPS

\* A subscriber fails only at the event of a statement that worked, and not at
\* that of lock() or setLocal(): the code takes a subscriber's failure for the
\* success of its statement, and notes a lock once its call has returned.
Reported == \A w \in Worlds : ~w.mute /\ "lock" \notin w.throws

Shape(s) == s = [alive |-> s.alive, tx |-> s.tx, work |-> s.work, marks |-> s.marks, left |-> s.left]

FrameShape(x) == x = [savepoints |-> x.savepoints, inserted |-> x.inserted, canceled |-> x.canceled, todo |-> x.todo]

\* A session as the server can have it: SQLite's is never lost, and one that is
\* lost has nothing left.
Sound(s) == Shape(s) /\ (dialect = "sqlite" => s.alive) /\ (~s.alive => s.left = {})

\* The inductive invariant: what outlives the transaction is in the frame's list
\* of what finish() undoes, until a cleanup fails, which discards the session.
SessionInv ==
  /\ world \in Worlds
  /\ Sound(server)
  /\ FrameShape(frame)
  /\ discard => cleanup # "ok"
  /\ CleanOrDiscarded
  /\ pc \in {"idle", "retry", "begin", "callback", "finish", "uncommit"}
  /\ pc \in {"idle", "retry"} => step = 0
  /\ pc = "begin" =>
       /\ frame.todo = (IF dialect = "sqlite" /\ opt THEN {"mode"} ELSE {})
       /\ \/ step = 0 /\ server.alive /\ server.tx = "none" /\ server.left = {}
          \/ step = 1 /\ opt /\ server.left \subseteq {l \in {"level"} : dialect = "mysql"}
  /\ pc = "callback" => server.left \subseteq frame.todo
  /\ pc = "finish" => server.left \subseteq frame.todo \/ (discard /\ dialect # "sqlite")
  /\ pc = "uncommit" => dialect = "sqlite" /\ server.left = {}

\* A result is that of a live session unless the connection is lost, SQLite's never
\* is, and a subscriber's failure stands for a statement that worked.
LEMMA ResultFacts ==
  ASSUME ~world.mute, NEW kind, NEW can, NEW res \in Results(kind, can),
         dialect = "sqlite" => server.alive
  PROVE  /\ res[2] => res[1] = "ok" /\ kind \in world.throws
         /\ res[1] = "ok" => server.alive
         /\ dialect = "sqlite" => res[1] # "lost"
<1>1. /\ res[1] \in (IF ~server.alive THEN {"lost"} ELSE IF can THEN {"ok"} \cup May(kind) ELSE {"fail"})
      /\ res[2] => kind \in world.throws /\ (res[1] # "ok" => world.mute)
  BY DEF Results
<1>2. dialect = "sqlite" => "lost" \notin May(kind)
  BY DEF May
<1> QED
  BY <1>1, <1>2

\* The client takes a statement for done only when it is.
LEMMA RaisedFacts ==
  ASSUME NEW res, res[2] => res[1] = "ok"
  PROVE  /\ Raised(res) \in {"ok", "SUBSCRIBER"} <=> res[1] = "ok"
         /\ Raised(res) = "ok" => ~res[2]
         /\ Raised(res) = "SUBSCRIBER" => res[2]
<1>1. CASE res[2]
  BY <1>1 DEF Raised
<1>2. CASE ~res[2] /\ res[1] = "ok"
  BY <1>2 DEF Raised
<1>3. CASE ~res[2] /\ res[1] # "ok"
  BY <1>3 DEF Raised
<1> QED
  BY <1>1, <1>2, <1>3

\* A change of one field keeps the others.
LEMMA ShapeKept ==
  ASSUME NEW s, Shape(s), NEW v
  PROVE  /\ Shape([s EXCEPT !.tx = v]) /\ Shape([s EXCEPT !.work = v])
         /\ Shape([s EXCEPT !.marks = v]) /\ Shape([s EXCEPT !.left = v])
<1>1. /\ [s EXCEPT !.tx = v] = [alive |-> s.alive, tx |-> v, work |-> s.work, marks |-> s.marks, left |-> s.left]
      /\ [s EXCEPT !.work = v] = [alive |-> s.alive, tx |-> s.tx, work |-> v, marks |-> s.marks, left |-> s.left]
      /\ [s EXCEPT !.marks = v] = [alive |-> s.alive, tx |-> s.tx, work |-> s.work, marks |-> v, left |-> s.left]
      /\ [s EXCEPT !.left = v] = [alive |-> s.alive, tx |-> s.tx, work |-> s.work, marks |-> s.marks, left |-> v]
  BY DEF Shape
<1>2. ASSUME NEW a, NEW b, NEW c, NEW d, NEW e
      PROVE  Shape([alive |-> a, tx |-> b, work |-> c, marks |-> d, left |-> e])
  BY DEF Shape
<1> QED
  BY <1>1, <1>2

\* A failed statement leaves nothing behind that was not there.
LEMMA FailedFacts ==
  ASSUME Sound(server), NEW r, dialect = "sqlite" => r # "lost"
  PROVE  Sound(Failed(r)) /\ Failed(r).left \subseteq server.left
<1>1. CASE r = "lost"
  BY <1>1 DEF Failed, Fresh, Sound, Shape
<1>2. CASE r # "lost"
  BY <1>2, Zenon DEF Failed, Ended, Sound, Shape
<1> QED
  BY <1>1, <1>2

\* The end of a transaction keeps what outlives it.
LEMMA EndedFacts ==
  ASSUME Sound(server)
  PROVE  /\ Sound(Ended(server)) /\ Ended(server).left = server.left /\ Ended(server).tx = "none"
         /\ Ended(server).alive <=> server.alive
<1>1. Shape(Ended(server))
  <2>1. Ended(server) = [[[server EXCEPT !.work = {}] EXCEPT !.marks = <<>>] EXCEPT !.tx = "none"]
    BY DEF Ended, Sound, Shape
  <2>2. Shape([server EXCEPT !.work = {}])
    BY ShapeKept, Zenon DEF Sound
  <2>3. Shape([[server EXCEPT !.work = {}] EXCEPT !.marks = <<>>])
    BY <2>2, ShapeKept, Zenon
  <2>4. Shape([[[server EXCEPT !.work = {}] EXCEPT !.marks = <<>>] EXCEPT !.tx = "none"])
    BY <2>3, ShapeKept, Zenon
  <2> QED
    BY <2>1, <2>4
<1>2. Ended(server).left = server.left /\ Ended(server).tx = "none"
  BY DEF Ended, Sound, Shape
<1>3. Ended(server).alive <=> server.alive
  BY DEF Ended, Sound, Shape
<1> QED
  BY <1>1, <1>2, <1>3 DEF Sound

\* So do the statements on savepoints.
LEMMA SavepointFacts ==
  ASSUME Sound(server), NEW name
  PROVE  /\ Sound(Save(name)) /\ Save(name).left = server.left
         /\ Sound(Released(name)) /\ Released(name).left = server.left
         /\ Sound(RolledBack(name)) /\ RolledBack(name).left = server.left
<1>1. Sound(Save(name)) /\ Save(name).left = server.left
  BY Zenon DEF Save, Sound, Shape
<1>2. Sound(Released(name)) /\ Released(name).left = server.left
  BY EndedFacts, Zenon DEF Released, Sound, Shape
<1>3. Sound(RolledBack(name)) /\ RolledBack(name).left = server.left
  <2> DEFINE m == server.marks[Last(name)].before
             k == SubSeq(server.marks, 1, Last(name))
             t == IF server.tx = "aborted" THEN "open" ELSE server.tx
  <2>1. RolledBack(name) = [server EXCEPT !.work = m, !.marks = k, !.tx = t]
    BY DEF RolledBack
  <2> HIDE DEF m, k, t
  <2>2. RolledBack(name) = [alive |-> server.alive, tx |-> t, work |-> m, marks |-> k, left |-> server.left]
    BY <2>1, Zenon DEF Sound, Shape
  <2> QED
    BY <2>2 DEF Sound, Shape
<1> QED
  BY <1>1, <1>2, <1>3

\* A frame as run() makes it.
LEMMA NewFrameFacts ==
  ASSUME NEW o
  PROVE  FrameShape(NewFrame(o)) /\ NewFrame(o).todo = (IF dialect = "sqlite" /\ o THEN {"mode"} ELSE {})
BY DEF NewFrame, FrameShape

\* Nothing was called yet.
LEMMA InitSession == Init => SessionInv
<1> SUFFICES ASSUME Init PROVE SessionInv
  OBVIOUS
<1>1. Sound(server) /\ server.alive /\ server.tx = "none" /\ server.left = {}
  BY DEF Init, Fresh, Sound, Shape
<1>2. FrameShape(frame)
  BY NewFrameFacts, Zenon DEF Init
<1> QED
  BY <1>1, <1>2, Zenon DEF Init, SessionInv, CleanOrDiscarded

\* A session that is clean, or that is discarded on a database that can, makes an
\* end between two calls.
LEMMA GiveBackKeeps ==
  ASSUME SessionInv, NEW s, NEW e, NEW d, GiveBack(s, e, d), Sound(s),
         (d /\ dialect # "sqlite") \/ (s.alive /\ s.tx = "none" /\ s.left = {})
  PROVE  SessionInv'
<1>1. world' = world /\ dialect' = dialect
  BY DEF GiveBack, dialect
<1>2. step' = 0 /\ cleanup' = "ok" /\ ~discard' /\ frame' = NewFrame(FALSE) /\ pc' \in {"idle", "retry"}
  BY DEF GiveBack, Forget
<1>3. FrameShape(frame')
  BY <1>2, NewFrameFacts, Zenon
<1>4. CASE d /\ dialect # "sqlite"
  <2>1. session' = "closed" /\ server' = Fresh
    BY <1>4 DEF GiveBack
  <2> QED
    BY <1>1, <1>2, <1>3, <2>1, Zenon DEF SessionInv, Sound, Shape, Fresh, CleanOrDiscarded
<1>5. CASE ~(d /\ dialect # "sqlite")
  <2>1. session' = "pool" /\ server' = s
    BY <1>5 DEF GiveBack
  <2> QED
    BY <1>1, <1>2, <1>3, <1>5, <2>1, Zenon DEF SessionInv, Sound, Shape, CleanOrDiscarded
<1> QED
  BY <1>4, <1>5

\* run() takes a clean session of the pool or a new one.
LEMMA ReserveKeeps ==
  ASSUME SessionInv, NEW o, pc \in {"idle", "retry"}, Reserve(o), opt' = o
  PROVE  SessionInv'
<1>1. /\ world' = world /\ dialect' = dialect /\ pc' = "begin" /\ frame' = NewFrame(o)
      /\ UNCHANGED <<step, cleanup, discard>>
  BY DEF Reserve, dialect
<1>2. FrameShape(frame') /\ frame'.todo = (IF dialect = "sqlite" /\ o THEN {"mode"} ELSE {})
  BY <1>1, NewFrameFacts
<1>3. Sound(server') /\ server'.alive /\ server'.tx = "none" /\ server'.left = {}
  <2>1. CASE session = "closed"
    BY <2>1 DEF Reserve, Fresh, Sound, Shape
  <2>2. CASE session # "closed"
    BY <2>2 DEF Reserve, SessionInv, CleanOrDiscarded
  <2> QED
    BY <2>1, <2>2
<1> QED
  BY <1>1, <1>2, <1>3 DEF SessionInv, Sound, CleanOrDiscarded

\* The database is one of the three.
LEMMA Dialects == world \in Worlds => dialect \in {"mysql", "postgres", "sqlite"}
BY TransactionAssumption DEF World, dialect

\* The statements of begin().
LEMMA StepsAre ==
  ASSUME world \in Worlds
  PROVE  /\ ~opt => Steps = <<"begin">>
         /\ opt /\ dialect = "mysql" => Steps = <<"level", "begin">>
         /\ opt /\ dialect = "postgres" => Steps = <<"begin", "local">>
         /\ opt /\ dialect = "sqlite" => Steps = <<"begin", "mode">>
BY Dialects DEF Steps

\* A statement of begin() that worked.
LEMMA BegunFacts ==
  ASSUME Sound(server), server.alive, NEW kind \in {"level", "begin", "mode", "local"}
  PROVE  /\ Sound(Begun(kind)) /\ Begun(kind).alive
         /\ kind = "level" => Begun(kind).left = server.left \cup {"level"}
         /\ kind = "begin" => Begun(kind).left = server.left \ {"level"}
         /\ kind = "mode" => Begun(kind).left = server.left \cup {"mode"}
         /\ kind = "local" => Begun(kind) = server
<1>1. CASE kind = "level"
  BY <1>1, ShapeKept, Zenon DEF Begun, Sound, Shape
<1>2. CASE kind = "begin"
  <2>1. Begun(kind) = [[server EXCEPT !.tx = "open"] EXCEPT !.left = server.left \ {"level"}]
    BY <1>2 DEF Begun, Sound, Shape
  <2>a. Shape([server EXCEPT !.tx = "open"])
    BY ShapeKept, Zenon DEF Sound
  <2>b. Shape([[server EXCEPT !.tx = "open"] EXCEPT !.left = server.left \ {"level"}])
    BY <2>a, ShapeKept, Zenon
  <2>2. Shape(Begun(kind))
    BY <2>1, <2>b
  <2>3. Begun(kind).alive /\ Begun(kind).left = server.left \ {"level"}
    BY <2>1 DEF Sound, Shape
  <2> QED
    BY <1>2, <2>2, <2>3 DEF Sound
<1>3. CASE kind = "mode"
  BY <1>3, ShapeKept, Zenon DEF Begun, Sound, Shape
<1>4. CASE kind = "local"
  BY <1>4 DEF Begun
<1> QED
  BY <1>1, <1>2, <1>3, <1>4

\* One statement of begin(): a failure before BEGIN closes the session, a later one
\* leaves nothing that finish() does not undo.
LEMMA BeginKeeps ==
  ASSUME Reported, SessionInv, Begin
  PROVE  SessionInv'
<1> DEFINE kind == Steps[step + 1]
           can == ~(dialect = "sqlite" /\ kind = "begin" /\ server.tx # "none")
<1>1. PICK res \in Results(kind, can) : BeginResult(kind, res)
  BY DEF Begin
<1>2. pc = "begin" /\ world \in Worlds /\ ~world.mute /\ Sound(server)
  BY DEF Begin, SessionInv, Reported
<1>3. /\ frame.todo = (IF dialect = "sqlite" /\ opt THEN {"mode"} ELSE {})
      /\ \/ step = 0 /\ server.alive /\ server.tx = "none" /\ server.left = {}
         \/ step = 1 /\ opt /\ server.left \subseteq {l \in {"level"} : dialect = "mysql"}
  BY <1>2 DEF SessionInv
<1>4. /\ kind \in {"level", "begin", "mode", "local"}
      /\ Len(Steps) = (IF opt THEN 2 ELSE 1)
      /\ ~opt => kind = "begin"
      /\ opt /\ dialect = "mysql" => Steps[1] = "level" /\ Steps[2] = "begin"
      /\ opt /\ dialect # "mysql" => Steps[1] = "begin" /\ Steps[2] = (IF dialect = "sqlite" THEN "mode" ELSE "local")
  BY <1>2, <1>3, StepsAre, Dialects
<1>5. /\ res[2] => res[1] = "ok" /\ kind \in world.throws
      /\ res[1] = "ok" => server.alive
      /\ dialect = "sqlite" => res[1] # "lost"
  BY <1>1, <1>2, ResultFacts DEF Sound
<1>6. (Raised(res) \in {"ok", "SUBSCRIBER"} <=> res[1] = "ok")
  BY <1>5, RaisedFacts
<1> DEFINE s == IF res[1] = "ok" THEN Begun(kind) ELSE Failed(res[1])
<1>7. /\ Sound(s)
      /\ res[1] # "ok" => s.left \subseteq server.left
      /\ res[1] = "ok" =>
           /\ s.alive
           /\ kind = "level" => s.left = server.left \cup {"level"}
           /\ kind = "begin" => s.left = server.left \ {"level"}
           /\ kind = "mode" => s.left = server.left \cup {"mode"}
           /\ kind = "local" => s = server
  BY <1>2, <1>4, <1>5, BegunFacts, FailedFacts
<1> DEFINE began == (kind = "begin" /\ Raised(res) = "SUBSCRIBER") \/ \E k \in 1 .. step : Steps[k] = "begin"
<1>8. began <=> (kind = "begin" /\ Raised(res) = "SUBSCRIBER") \/ (step = 1 /\ dialect # "mysql")
  BY <1>3, <1>4
<1>9. \/ /\ Raised(res) = "ok" /\ server' = s /\ step' = step + 1
         /\ pc' = (IF step + 1 = Len(Steps) THEN "callback" ELSE "begin")
         /\ UNCHANGED <<world, opt, session, frame, cleanup, discard>>
      \/ Raised(res) # "ok" /\ ~began /\ GiveBack(s, Raised(res), TRUE)
      \/ /\ Raised(res) # "ok" /\ began /\ server' = s /\ pc' = "finish"
         /\ UNCHANGED <<world, opt, session, frame, step, cleanup, discard>>
  BY <1>1, Zenon DEF BeginResult
<1> HIDE DEF kind, can, s, began
<1>10. CASE Raised(res) = "ok"
  <2>1. /\ server' = s /\ step' = step + 1 /\ pc' = (IF step + 1 = Len(Steps) THEN "callback" ELSE "begin")
        /\ UNCHANGED <<world, opt, session, frame, cleanup, discard>> /\ dialect' = dialect
    BY <1>9, <1>10 DEF dialect
  <2>2. res[1] = "ok"
    BY <1>6, <1>10
  <2>3. CASE step = 0 /\ opt
    <3>1. kind = Steps[1] /\ pc' = "begin" /\ step' = 1
      BY <1>4, <2>1, <2>3 DEF kind
    <3>2. s.left \subseteq {l \in {"level"} : dialect = "mysql"}
      BY <1>3, <1>4, <1>7, <2>2, <2>3, <3>1
    <3> QED
      BY <1>2, <1>3, <1>7, <2>1, <2>3, <3>1, <3>2 DEF SessionInv, Sound, CleanOrDiscarded
  <2>4. CASE step = 0 /\ ~opt
    <3>1. kind = "begin" /\ pc' = "callback" /\ s.left = {}
      BY <1>3, <1>4, <1>7, <2>1, <2>2, <2>4
    <3> QED
      BY <1>2, <1>7, <2>1, <3>1 DEF SessionInv, Sound, CleanOrDiscarded
  <2>5. CASE step = 1
    <3>1. kind = Steps[2] /\ pc' = "callback"
      BY <1>3, <1>4, <2>1, <2>5 DEF kind
    <3>2. s.left \subseteq frame.todo
      BY <1>2, <1>3, <1>4, <1>7, <2>2, <2>5, <3>1
    <3> QED
      BY <1>2, <1>7, <2>1, <3>1, <3>2 DEF SessionInv, Sound, CleanOrDiscarded
  <2> QED
    BY <1>3, <2>3, <2>4, <2>5
<1>11. CASE Raised(res) # "ok" /\ ~began
  <2>1. GiveBack(s, Raised(res), TRUE)
    BY <1>9, <1>11, Zenon
  <2>2. dialect # "sqlite" \/ (s.alive /\ s.tx = "none" /\ s.left = {})
    <3>1. ASSUME dialect = "sqlite" PROVE s.alive /\ s.tx = "none" /\ s.left = {}
      <4>1. step = 0 /\ kind = "begin" /\ res[1] # "ok"
        BY <1>3, <1>4, <1>6, <1>8, <1>11, <3>1 DEF kind
      <4>2. res[1] = "fail"
        BY <1>1, <1>3, <3>1, <4>1 DEF Results, May, kind, can
      <4>3. s = server
        BY <3>1, <4>2 DEF s, Failed
      <4> QED
        BY <1>3, <4>1, <4>3
    <3> QED
      BY <3>1
  <2> QED
    BY <1>7, <2>1, <2>2, GiveBackKeeps, Zenon
<1>12. CASE Raised(res) # "ok" /\ began
  <2>1. /\ server' = s /\ pc' = "finish" /\ UNCHANGED <<world, opt, session, frame, step, cleanup, discard>>
        /\ dialect' = dialect
    BY <1>9, <1>12 DEF dialect
  <2>2. s.left \subseteq frame.todo
    <3>1. CASE kind = "begin" /\ Raised(res) = "SUBSCRIBER"
      BY <1>3, <1>6, <1>7, <3>1
    <3>2. CASE step = 1 /\ dialect # "mysql"
      <4>1. kind = (IF dialect = "sqlite" THEN "mode" ELSE "local")
        BY <1>3, <1>4, <3>2 DEF kind
      <4> QED
        BY <1>3, <1>7, <3>2, <4>1
    <3> QED
      BY <1>8, <1>12, <3>1, <3>2
  <2> QED
    BY <1>2, <1>7, <2>1, <2>2 DEF SessionInv, Sound, CleanOrDiscarded
<1> QED
  BY <1>10, <1>11, <1>12

\* The steps of the callback that add nothing to what outlives the transaction keep
\* the invariant.
LEMMA CallbackKeeps ==
  ASSUME SessionInv, pc = "callback", pc' \in {"callback", "finish"},
         Sound(server)', FrameShape(frame'), server'.left \subseteq frame'.todo,
         UNCHANGED <<world, session, cleanup, discard>>
  PROVE  SessionInv'
BY DEF SessionInv, CleanOrDiscarded

\* An error ends the callback or a nested one.
LEMMA RaiseFacts ==
  ASSUME NEW g, NEW e, NEW what, NEW flows, pc = "callback",
         Raise(g, e, what, flows) \/ Throw(g, e, flows) \/ Continue(flows)
  PROVE  pc' \in {"callback", "finish"}
BY DEF Raise, Throw, Continue

\* Changes of one field of the frame.
LEMMA FrameFacts ==
  ASSUME NEW x, FrameShape(x), NEW a
  PROVE  /\ FrameShape([x EXCEPT !.inserted = a]) /\ [x EXCEPT !.inserted = a].todo = x.todo
         /\ FrameShape([x EXCEPT !.savepoints = a]) /\ [x EXCEPT !.savepoints = a].todo = x.todo
         /\ FrameShape([x EXCEPT !.canceled = a]) /\ [x EXCEPT !.canceled = a].todo = x.todo
         /\ FrameShape([x EXCEPT !.todo = a]) /\ [x EXCEPT !.todo = a].todo = a
<1>1. /\ [x EXCEPT !.inserted = a] = [savepoints |-> x.savepoints, inserted |-> a, canceled |-> x.canceled, todo |-> x.todo]
      /\ [x EXCEPT !.savepoints = a] = [savepoints |-> a, inserted |-> x.inserted, canceled |-> x.canceled, todo |-> x.todo]
      /\ [x EXCEPT !.canceled = a] = [savepoints |-> x.savepoints, inserted |-> x.inserted, canceled |-> a, todo |-> x.todo]
      /\ [x EXCEPT !.todo = a] = [savepoints |-> x.savepoints, inserted |-> x.inserted, canceled |-> x.canceled, todo |-> a]
  BY DEF FrameShape
<1>2. ASSUME NEW c, NEW d, NEW e, NEW f
      PROVE  /\ FrameShape([savepoints |-> c, inserted |-> d, canceled |-> e, todo |-> f])
             /\ [savepoints |-> c, inserted |-> d, canceled |-> e, todo |-> f].todo = f
  BY DEF FrameShape
<1> QED
  BY <1>1, <1>2

\* The finally of savepoint() changes two fields.
LEMMA LeaveFacts ==
  ASSUME FrameShape(frame), NEW f, NEW kept, Leave(f, kept)
  PROVE  FrameShape(frame') /\ frame'.todo = frame.todo
<1> DEFINE a == frame.savepoints - 1
           b == IF kept THEN frame.inserted ELSE nest[f].before
<1>1. frame' = [frame EXCEPT !.savepoints = a, !.inserted = b]
  BY DEF Leave
<1> HIDE DEF a, b
<1>2. frame' = [[frame EXCEPT !.savepoints = a] EXCEPT !.inserted = b]
  BY <1>1 DEF FrameShape
<1>3. FrameShape([frame EXCEPT !.savepoints = a]) /\ [frame EXCEPT !.savepoints = a].todo = frame.todo
  BY FrameFacts, Zenon
<1> QED
  BY <1>2, <1>3, FrameFacts, Zenon

\* A write adds work to the transaction, is committed outside one, or fails.
LEMMA WriteKeeps ==
  ASSUME Reported, SessionInv, NEW g, Write(g)
  PROVE  SessionInv'
<1>1. /\ pc = "callback" /\ ~world.mute /\ Sound(server) /\ FrameShape(frame)
      /\ server.left \subseteq frame.todo /\ UNCHANGED <<world, session, cleanup, discard>>
  BY DEF Write, Runs, SessionInv, Reported
<1> DEFINE w == <<attempt, n>>
<1>2. PICK res \in (IF frame.canceled /\ dialect = "sqlite" THEN {<<"fail", FALSE>>}
                    ELSE Results("insert", server.tx # "aborted")) :
        /\ server' = (IF res[1] # "ok" THEN Failed(res[1])
                     ELSE IF server.tx = "none" THEN server ELSE [server EXCEPT !.work = @ \cup {w}])
        /\ frame' \in {frame, [frame EXCEPT !.inserted = @ \cup {w}]}
        /\ pc' \in {"callback", "finish"}
  <2>1. PICK res \in (IF frame.canceled /\ dialect = "sqlite" THEN {<<"fail", FALSE>>}
                      ELSE Results("insert", server.tx # "aborted")) :
          LET done == res[1] = "ok"
              e == IF frame.canceled THEN "CANCELED" ELSE Raised(res)
          IN  /\ server' = (IF ~done THEN Failed(res[1])
                           ELSE IF server.tx = "none" THEN server ELSE [server EXCEPT !.work = @ \cup {w}])
              /\ frame' = (IF e = "ok" THEN [frame EXCEPT !.inserted = @ \cup {w}] ELSE frame)
              /\ IF e = "ok" THEN Continue(nest) ELSE Raise(g, e, "statement", nest)
    BY Zenon DEF Write
  <2> QED
    BY <1>1, <2>1, RaiseFacts, Zenon
<1>3. dialect = "sqlite" => res[1] # "lost"
  <2>1. CASE frame.canceled /\ dialect = "sqlite"
    BY <2>1
  <2>2. CASE ~(frame.canceled /\ dialect = "sqlite")
    <3>1. res \in Results("insert", server.tx # "aborted")
      BY <2>2, Zenon
    <3> QED
      BY <1>1, <3>1, ResultFacts DEF Sound
  <2> QED
    BY <2>1, <2>2
<1>4. Sound(server') /\ server'.left \subseteq server.left
  <2>1. CASE res[1] # "ok"
    BY <1>1, <1>2, <1>3, <2>1, FailedFacts
  <2>2. CASE res[1] = "ok"
    <3>1. ASSUME NEW v PROVE Sound([server EXCEPT !.work = v]) /\ [server EXCEPT !.work = v].left = server.left
      BY <1>1, ShapeKept DEF Sound, Shape
    <3> QED
      BY <1>1, <1>2, <2>2, <3>1
  <2> QED
    BY <2>1, <2>2
<1>5. FrameShape(frame') /\ frame'.todo = frame.todo
  <2>1. ASSUME NEW a PROVE FrameShape([frame EXCEPT !.inserted = a]) /\ [frame EXCEPT !.inserted = a].todo = frame.todo
    BY <1>1, FrameFacts, Zenon
  <2> QED
    BY <1>1, <1>2, <2>1, Zenon
<1>6. Sound(server)'
  BY <1>1, <1>4 DEF Sound, dialect
<1> QED
  BY <1>1, <1>2, <1>4, <1>5, <1>6, CallbackKeeps

\* lock() and setLocal() of MySQL put what they leave on the list of finish(): no
\* subscriber fails at their events.
LEMMA HoldKeeps ==
  ASSUME Reported, SessionInv, NEW g, NEW x, Hold(g, x)
  PROVE  SessionInv'
<1>1. /\ pc = "callback" /\ dialect = "mysql" /\ ~world.mute /\ "lock" \notin world.throws
      /\ Sound(server) /\ FrameShape(frame)
      /\ server.left \subseteq frame.todo /\ UNCHANGED <<world, session, cleanup, discard>>
  BY DEF Hold, Runs, SessionInv, Reported
<1>2. PICK res \in Results("lock", TRUE) :
        /\ server' = (IF res[1] = "ok" THEN [server EXCEPT !.left = @ \cup {x}] ELSE Failed(res[1]))
        /\ frame' = (IF Raised(res) = "ok" THEN [frame EXCEPT !.todo = @ \cup {x}] ELSE frame)
        /\ pc' \in {"callback", "finish"}
  <2>1. PICK res \in Results("lock", TRUE) :
          /\ server' = (IF res[1] = "ok" THEN [server EXCEPT !.left = @ \cup {x}] ELSE Failed(res[1]))
          /\ frame' = (IF Raised(res) = "ok" THEN [frame EXCEPT !.todo = @ \cup {x}] ELSE frame)
          /\ IF Raised(res) = "ok" THEN Continue(nest) ELSE Raise(g, Raised(res), "statement", nest)
    BY Zenon DEF Hold
  <2> QED
    BY <1>1, <2>1, RaiseFacts, Zenon
<1>3. /\ ~res[2] /\ (res[1] = "ok" => server.alive)
  BY <1>1, <1>2, ResultFacts, Zenon DEF Sound
<1>4. Raised(res) = "ok" <=> res[1] = "ok"
  BY <1>3, RaisedFacts
<1>5. CASE res[1] = "ok"
  <2>1. server' = [server EXCEPT !.left = server.left \cup {x}] /\ frame' = [frame EXCEPT !.todo = frame.todo \cup {x}]
    BY <1>2, <1>4, <1>5
  <2>2. Shape(server')
    BY <1>1, <2>1, ShapeKept, Zenon DEF Sound
  <2>3. server'.alive /\ server'.left = server.left \cup {x}
    BY <1>1, <1>3, <1>5, <2>1 DEF Sound, Shape
  <2>4. FrameShape(frame') /\ frame'.todo = frame.todo \cup {x}
    BY <1>1, <2>1, FrameFacts, Zenon
  <2>5. Sound(server)'
    BY <2>2, <2>3 DEF Sound
  <2> QED
    BY <1>1, <1>2, <2>3, <2>4, <2>5, CallbackKeeps
<1>6. CASE res[1] # "ok"
  <2>1. server' = Failed(res[1]) /\ frame' = frame
    BY <1>2, <1>4, <1>6
  <2>2. Sound(server') /\ server'.left \subseteq server.left
    BY <1>1, <2>1, FailedFacts
  <2>3. Sound(server)'
    BY <1>1, <2>2 DEF Sound, dialect
  <2> QED
    BY <1>1, <1>2, <2>1, <2>2, <2>3, CallbackKeeps
<1> QED
  BY <1>5, <1>6

\* The start of a nested transaction.
LEMMA EnterKeeps ==
  ASSUME Reported, SessionInv, NEW g, NEW f, Enter(g, f)
  PROVE  SessionInv'
<1>1. /\ pc = "callback" /\ ~world.mute /\ Sound(server) /\ FrameShape(frame)
      /\ server.left \subseteq frame.todo /\ UNCHANGED <<world, session, cleanup, discard>>
  BY DEF Enter, Runs, SessionInv, Reported
<1> DEFINE name == frame.savepoints + 1
<1>2. PICK res \in Results("savepoint", server.tx # "aborted") :
        /\ server' = (IF res[1] = "ok" THEN Save(name) ELSE Failed(res[1]))
        /\ frame' \in {frame, [frame EXCEPT !.savepoints = name]}
        /\ pc' \in {"callback", "finish"}
  <2>1. PICK res \in Results("savepoint", server.tx # "aborted") :
          /\ server' = (IF res[1] = "ok" THEN Save(name) ELSE Failed(res[1]))
          /\ frame' = (IF Raised(res) = "ok" THEN [frame EXCEPT !.savepoints = name] ELSE frame)
          /\ \/ \E flows : Continue(flows)
             \/ Raise(g, Raised(res), "inner", nest)
    BY DEF Enter
  <2> QED
    BY <1>1, <2>1, RaiseFacts
<1> HIDE DEF name
<1>3. dialect = "sqlite" => res[1] # "lost"
  BY <1>1, <1>2, ResultFacts DEF Sound
<1>4. Sound(server') /\ server'.left \subseteq server.left
  BY <1>1, <1>2, <1>3, FailedFacts, SavepointFacts
<1>5. FrameShape(frame') /\ frame'.todo = frame.todo
  <2>1. FrameShape([frame EXCEPT !.savepoints = name]) /\ [frame EXCEPT !.savepoints = name].todo = frame.todo
    BY <1>1, FrameFacts, Zenon
  <2> QED
    BY <1>1, <1>2, <2>1, Zenon
<1>6. Sound(server)'
  BY <1>1, <1>4 DEF Sound, dialect
<1> QED
  BY <1>1, <1>2, <1>4, <1>5, <1>6, CallbackKeeps

\* The release of a savepoint, which commits the transaction that it began.
LEMMA ReleaseFacts ==
  ASSUME ~world.mute, Sound(server), NEW f, NEW res \in ReleaseResults(f), ReleaseEffect(f, res[1])
  PROVE  Sound(server') /\ server'.left \subseteq server.left
<1>1. dialect = "sqlite" => res[1] # "lost"
  <2>1. CASE Skipped
    BY <2>1 DEF ReleaseResults
  <2>2. CASE ~Skipped
    <3>1. res \in Results("release", Named(nest[f].name) # {} /\ server.tx # "aborted")
      BY <2>2 DEF ReleaseResults
    <3> QED
      BY <3>1, ResultFacts DEF Sound
  <2> QED
    BY <2>1, <2>2
<1>2. server' \in {Released(nest[f].name), server, Failed(res[1])}
  BY DEF ReleaseEffect
<1> QED
  BY <1>1, <1>2, FailedFacts, SavepointFacts

\* The end of a nested transaction, after its callback has returned or failed.
LEMMA NestedEndKeeps ==
  ASSUME Reported, SessionInv, NEW f, Resolve(f) \/ UndoRelease(f)
  PROVE  SessionInv'
<1>1. /\ pc = "callback" /\ ~world.mute /\ Sound(server) /\ FrameShape(frame)
      /\ server.left \subseteq frame.todo /\ UNCHANGED <<world, session, cleanup, discard>>
  BY Zenon DEF Resolve, UndoRelease, Runs, SessionInv, Reported
<1>2. PICK res \in ReleaseResults(f) :
        /\ ReleaseEffect(f, res[1])
        /\ \E kept \in BOOLEAN : Leave(f, kept)
        /\ \E g, e, what : Continue(Out(f)) \/ Raise(g, e, what, Out(f))
  <2>1. CASE Resolve(f)
    <3>1. PICK res \in ReleaseResults(f) :
            LET e == IF res[1] = "skipped" THEN "ok" ELSE Raised(res)
                g == nest[f].parent
            IN  /\ ReleaseEffect(f, res[1])
                /\ Leave(f, e = "ok")
                /\ IF e = "ok" THEN Continue(Out(f)) ELSE Raise(g, e, "inner", Out(f))
      BY <2>1 DEF Resolve
    <3>2. ((IF res[1] = "skipped" THEN "ok" ELSE Raised(res)) = "ok") \in BOOLEAN
      OBVIOUS
    <3> QED
      BY <3>1, Zenon
  <2>2. CASE UndoRelease(f)
    <3>1. PICK res \in ReleaseResults(f) :
            /\ ReleaseEffect(f, res[1])
            /\ Leave(f, FALSE)
            /\ \E g, e, what : Raise(g, e, what, Out(f))
      BY <2>2, Zenon DEF UndoRelease
    <3> QED
      BY <3>1, Zenon
  <2> QED
    BY <2>1, <2>2
<1>3. Sound(server') /\ server'.left \subseteq server.left
  BY <1>1, <1>2, ReleaseFacts
<1>4. FrameShape(frame') /\ frame'.todo = frame.todo
  BY <1>1, <1>2, LeaveFacts
<1>5. pc' \in {"callback", "finish"}
  BY <1>1, <1>2, RaiseFacts
<1>6. Sound(server)'
  BY <1>1, <1>3 DEF Sound, dialect
<1> QED
  BY <1>1, <1>3, <1>4, <1>5, <1>6, CallbackKeeps

\* ROLLBACK TO SAVEPOINT.
LEMMA UndoToKeeps ==
  ASSUME Reported, SessionInv, NEW f, UndoTo(f)
  PROVE  SessionInv'
<1>1. /\ pc = "callback" /\ pc' = pc /\ ~world.mute /\ Sound(server) /\ FrameShape(frame)
      /\ server.left \subseteq frame.todo /\ UNCHANGED <<world, session, frame, cleanup, discard>>
  BY DEF UndoTo, SessionInv, Reported
<1>2. PICK res \in (IF Skipped THEN {<<"skipped", FALSE>>} ELSE Results("rollback_to", Named(nest[f].name) # {})) :
        server' \in {RolledBack(nest[f].name), server, Failed(res[1])}
  BY Zenon DEF UndoTo
<1>3. dialect = "sqlite" => res[1] # "lost"
  <2>1. CASE Skipped
    BY <1>2, <2>1
  <2>2. CASE ~Skipped
    BY <1>1, <1>2, <2>2, ResultFacts DEF Sound
  <2> QED
    BY <2>1, <2>2
<1>4. Sound(server') /\ server'.left \subseteq server.left
  BY <1>1, <1>2, <1>3, FailedFacts, SavepointFacts
<1>5. Sound(server)'
  BY <1>1, <1>4 DEF Sound, dialect
<1> QED
  BY <1>1, <1>4, <1>5, CallbackKeeps

\* The steps of a callback that send no statement.
LEMMA SilentKeeps ==
  ASSUME Reported, SessionInv, Return \/ Cancel \/ \E g, e : AppThrow(g, e)
  PROVE  SessionInv'
<1>1. /\ pc = "callback" /\ Sound(server) /\ FrameShape(frame)
      /\ server.left \subseteq frame.todo /\ UNCHANGED <<world, session, server, cleanup, discard>>
  BY DEF Return, Cancel, AppThrow, Runs, SessionInv
<1>2. Sound(server)'
  BY <1>1 DEF Sound, dialect
<1>3. CASE Return
  BY <1>1, <1>2, <1>3, CallbackKeeps DEF Return
<1>4. CASE Cancel
  <2>1. frame' = [frame EXCEPT !.canceled = TRUE] /\ pc' = pc
    BY <1>4 DEF Cancel
  <2>2. FrameShape(frame') /\ frame'.todo = frame.todo
    BY <1>1, <2>1, FrameFacts, Zenon
  <2> QED
    BY <1>1, <1>2, <2>1, <2>2, CallbackKeeps
<1>5. ASSUME NEW g, NEW e, AppThrow(g, e) PROVE SessionInv'
  <2>1. pc' \in {"callback", "finish"} /\ frame' = frame
    BY <1>1, <1>5, RaiseFacts DEF AppThrow
  <2> QED
    BY <1>1, <1>2, <2>1, CallbackKeeps
<1> QED
  BY <1>3, <1>4, <1>5

\* A cleanup that fails discards the session, and one of SQLite does not fail.
LEMMA CleanKeeps ==
  ASSUME Reported, SessionInv, NEW x, Clean(x)
  PROVE  SessionInv'
<1>1. /\ pc = "finish" /\ pc' = pc /\ ~world.mute /\ Sound(server) /\ FrameShape(frame)
      /\ server.left \subseteq frame.todo \/ (discard /\ dialect # "sqlite")
      /\ discard => cleanup # "ok"
      /\ UNCHANGED <<world, opt, session, step>> /\ dialect' = dialect
  BY DEF Clean, SessionInv, Reported, dialect
<1>2. PICK res \in Results("clean", TRUE) : Cleaned(x, res)
  BY Zenon DEF Clean
<1>3. /\ res[2] => res[1] = "ok"
      /\ res[1] = "ok" => server.alive
      /\ dialect = "sqlite" => res[1] # "lost"
  BY <1>1, <1>2, ResultFacts, Zenon DEF Sound
<1>4. dialect = "sqlite" => res[1] = "ok"
  BY <1>1, <1>2 DEF Results, May, Sound
<1>5. Raised(res) \in {"ok", "SUBSCRIBER"} <=> res[1] = "ok"
  BY <1>3, RaisedFacts
<1>6. frame' = [frame EXCEPT !.todo = frame.todo \ {x}]
  BY <1>2 DEF Cleaned
<1>7. FrameShape(frame') /\ frame'.todo = frame.todo \ {x}
  <2>1. ASSUME NEW a PROVE FrameShape([frame EXCEPT !.todo = a]) /\ [frame EXCEPT !.todo = a].todo = a
    BY <1>1, FrameFacts, ZenonT(60)
  <2> QED
    BY <1>6, <2>1
<1>8. discard' <=> discard \/ res[1] # "ok"
  BY <1>2, <1>5, Zenon DEF Cleaned
<1>9. discard' => cleanup' # "ok"
  <2>1. cleanup' = (IF cleanup = "ok" THEN Raised(res) ELSE cleanup)
    BY <1>2 DEF Cleaned
  <2> QED
    BY <1>1, <1>5, <1>8, <2>1
<1>10. CASE res[1] = "ok"
  <2>1. server' = [server EXCEPT !.left = server.left \ {x}]
    BY <1>2, <1>10 DEF Cleaned
  <2>2. Shape(server')
    BY <1>1, <2>1, ShapeKept, Zenon DEF Sound
  <2>3. server'.alive /\ server'.left = server.left \ {x}
    BY <1>1, <1>3, <1>10, <2>1 DEF Sound, Shape
  <2>4. Sound(server)'
    BY <2>2, <2>3 DEF Sound
  <2>5. server'.left \subseteq frame'.todo \/ (discard' /\ dialect # "sqlite")
    BY <1>1, <1>7, <1>8, <2>3
  <2> QED
    BY <1>1, <1>7, <1>9, <2>4, <2>5 DEF SessionInv, CleanOrDiscarded
<1>11. CASE res[1] # "ok"
  <2>1. server' = Failed(res[1])
    BY <1>2, <1>11 DEF Cleaned
  <2>2. Sound(server')
    BY <1>1, <1>3, <2>1, FailedFacts
  <2>3. Sound(server)'
    BY <1>1, <2>2 DEF Sound
  <2> QED
    BY <1>1, <1>4, <1>7, <1>8, <1>9, <1>11, <2>3 DEF SessionInv, CleanOrDiscarded
<1> QED
  BY <1>10, <1>11

\* A COMMIT that worked leaves a clean session, for no cleanup has failed before it.
LEMMA CommitKeeps ==
  ASSUME Reported, SessionInv, Commit
  PROVE  SessionInv'
<1>1. /\ pc = "finish" /\ ~world.mute /\ Sound(server) /\ server.left = {}
  BY DEF Commit, Commits, SessionInv, Reported
<1>2. PICK res \in Results("commit", dialect = "sqlite" => server.tx # "none") :
        \/ Raised(res) \in {"ok", "SUBSCRIBER"} /\ GiveBack(AfterCommit(res[1]), Raised(res), FALSE)
        \/ /\ Raised(res) \notin {"ok", "SUBSCRIBER"}
           /\ dialect # "sqlite" \/ AfterCommit(res[1]).tx = "none"
           /\ GiveBack(AfterCommit(res[1]), Raised(res), TRUE)
        \/ /\ Raised(res) \notin {"ok", "SUBSCRIBER"} /\ dialect = "sqlite"
           /\ server' = AfterCommit(res[1]) /\ pc' = "uncommit"
           /\ UNCHANGED <<world, session, frame, cleanup, discard>>
  BY Zenon DEF Commit
<1>3. /\ res[2] => res[1] = "ok"
      /\ res[1] = "ok" => server.alive
      /\ dialect = "sqlite" => res[1] # "lost"
  BY <1>1, <1>2, ResultFacts DEF Sound
<1>4. Raised(res) \in {"ok", "SUBSCRIBER"} <=> res[1] = "ok"
  BY <1>3, RaisedFacts
<1>5. CASE res[1] = "ok"
  <2>1. AfterCommit(res[1]) = Ended(server)
    BY <1>5 DEF AfterCommit
  <2>2. GiveBack(Ended(server), Raised(res), FALSE)
    BY <1>2, <1>4, <1>5, <2>1, Zenon
  <2> QED
    BY <1>1, <1>3, <1>5, <2>2, EndedFacts, GiveBackKeeps, Zenon
<1>6. CASE res[1] # "ok" /\ dialect = "sqlite"
  <2>1. AfterCommit(res[1]) = server
    BY <1>3, <1>6 DEF AfterCommit
  <2>2. CASE server.tx = "none" /\ GiveBack(server, Raised(res), TRUE)
    BY <1>1, <1>6, <2>2, GiveBackKeeps, Zenon DEF Sound
  <2>3. CASE server' = server /\ pc' = "uncommit" /\ UNCHANGED <<world, session, frame, cleanup, discard>>
    <3>1. Sound(server)' /\ dialect' = dialect
      BY <1>1, <2>3 DEF Sound, dialect
    <3> QED
      BY <1>1, <1>6, <2>3, <3>1 DEF SessionInv, CleanOrDiscarded
  <2> QED
    BY <1>2, <1>4, <1>6, <2>1, <2>2, <2>3, Zenon
<1>7. CASE res[1] # "ok" /\ dialect # "sqlite"
  <2>1. GiveBack(AfterCommit(res[1]), Raised(res), TRUE)
    BY <1>2, <1>4, <1>7, Zenon
  <2>2. Sound(AfterCommit(res[1]))
    BY <1>1, <1>7, FailedFacts, EndedFacts DEF AfterCommit
  <2> QED
    BY <1>7, <2>1, <2>2, GiveBackKeeps, Zenon
<1> QED
  BY <1>5, <1>6, <1>7

\* The ROLLBACK after a failed COMMIT of SQLite.
LEMMA UncommitKeeps ==
  ASSUME Reported, SessionInv, Uncommit
  PROVE  SessionInv'
<1>1. dialect = "sqlite" /\ ~world.mute /\ Sound(server) /\ server.left = {} /\ server.alive
  BY DEF Uncommit, SessionInv, Reported, Sound
<1>2. PICK res \in Results("rollback", TRUE) :
        \E e : GiveBack(IF res[1] = "ok" THEN Ended(server) ELSE Failed(res[1]), e, FALSE)
  BY Zenon DEF Uncommit
<1>3. res[1] = "ok"
  BY <1>1, <1>2 DEF Results, May
<1>4. \E e : GiveBack(Ended(server), e, FALSE)
  BY <1>2, <1>3, Zenon
<1> QED
  BY <1>1, <1>4, EndedFacts, GiveBackKeeps, Zenon

\* A ROLLBACK that fails closes the session; SQLite's does not fail.
LEMMA RollbackKeeps ==
  ASSUME Reported, SessionInv, Rollback
  PROVE  SessionInv'
<1>1. /\ pc = "finish" /\ ~world.mute /\ Sound(server)
      /\ server.left = {} \/ (discard /\ dialect # "sqlite")
  BY DEF Rollback, SessionInv, Reported
<1>2. PICK res \in (IF Skipped THEN {<<"ok", FALSE>>} ELSE Results("rollback", TRUE)) :
        \E e : GiveBack(IF res[1] = "ok" THEN Ended(server) ELSE Failed(res[1]), e,
                         discard \/ Raised(res) \notin {"ok", "SUBSCRIBER"})
  BY Zenon DEF Rollback
<1>3. /\ res[2] => res[1] = "ok"
      /\ res[1] = "ok" => server.alive
      /\ dialect = "sqlite" => res[1] = "ok"
  <2>1. CASE Skipped
    BY <1>1, <1>2, <2>1 DEF Skipped, Sound
  <2>2. CASE ~Skipped
    <3>1. dialect = "sqlite" => res[1] = "ok"
      BY <1>1, <1>2, <2>2 DEF Results, May, Sound
    <3> QED
      BY <1>1, <1>2, <2>2, <3>1, ResultFacts, Zenon DEF Sound
  <2> QED
    BY <2>1, <2>2
<1>4. Raised(res) \in {"ok", "SUBSCRIBER"} <=> res[1] = "ok"
  BY <1>3, RaisedFacts
<1>5. CASE res[1] = "ok"
  <2>1. PICK e : GiveBack(Ended(server), e, discard \/ Raised(res) \notin {"ok", "SUBSCRIBER"})
    BY <1>2, <1>5
  <2> QED
    BY <1>1, <1>3, <1>5, <2>1, EndedFacts, GiveBackKeeps, Zenon
<1>6. CASE res[1] # "ok"
  <2>1. PICK e : GiveBack(Failed(res[1]), e, discard \/ Raised(res) \notin {"ok", "SUBSCRIBER"})
    BY <1>2, <1>6
  <2>2. Sound(Failed(res[1]))
    BY <1>1, <1>3, FailedFacts
  <2> QED
    BY <1>3, <1>4, <1>6, <2>1, <2>2, GiveBackKeeps, Zenon
<1> QED
  BY <1>5, <1>6

\* Every step keeps the invariant.
LEMMA NextSession == ASSUME Reported PROVE SessionInv /\ [Next]_vars => SessionInv'
<1> SUFFICES ASSUME SessionInv, [Next]_vars PROVE SessionInv'
  OBVIOUS
<1>1. CASE UNCHANGED vars
  <2>1. dialect' = dialect /\ UNCHANGED <<world, opt, server, session, frame, pc, step, cleanup, discard>>
    BY <1>1 DEF vars, client, dialect
  <2> QED
    BY <2>1 DEF SessionInv, Sound, CleanOrDiscarded
<1>2. ASSUME NEW o \in BOOLEAN, Call(o) PROVE SessionInv'
  BY <1>2, ReserveKeeps DEF Call
<1>3. CASE Again
  BY <1>3, ReserveKeeps DEF Again
<1>4. CASE Drop
  <2>1. GiveBack(server, code, TRUE) /\ dialect # "sqlite" /\ Sound(server)
    BY <1>4, Zenon DEF Drop, Drops, SessionInv
  <2> QED
    BY <2>1, GiveBackKeeps, Zenon
<1>5. CASE Begin \/ Commit \/ Uncommit \/ Rollback
  BY <1>5, BeginKeeps, CommitKeeps, UncommitKeeps, RollbackKeeps
<1>6. ASSUME NEW x, Clean(x) PROVE SessionInv'
  BY <1>6, CleanKeeps
<1>7. ASSUME NEW f \in Flows, UndoTo(f) \/ UndoRelease(f) \/ Resolve(f) PROVE SessionInv'
  BY <1>7, UndoToKeeps, NestedEndKeeps
<1>8. ASSUME NEW g, NEW x, Write(g) \/ Hold(g, x) \/ Enter(g, x) PROVE SessionInv'
  BY <1>8, WriteKeeps, HoldKeeps, EnterKeeps
<1>9. CASE Return \/ Cancel \/ \E g, e : AppThrow(g, e)
  BY <1>9, SilentKeeps
<1> QED
  BY <1>1, <1>2, <1>3, <1>4, <1>5, <1>6, <1>7, <1>8, <1>9 DEF Next, Client, Callback

\* What outlives a transaction is undone by finish() or goes with its session:
\* SessionInv holds in every state.
THEOREM SessionKept == ASSUME Reported PROVE Spec => []SessionInv
<1>1. Init => SessionInv
  BY InitSession
<1>2. SessionInv /\ [Next]_vars => SessionInv'
  BY NextSession
<1> QED
  BY <1>1, <1>2, PTL DEF Spec

\* "A session returned to the pool is either clean or discarded" (finish() of
\* database.ts): for every `retry`, number of calls and of nested transactions,
\* and every set of worlds in which subscribers fail as Reported says.
THEOREM CleanAfterEveryCall == ASSUME Reported PROVE Spec => []CleanOrDiscarded
<1>1. SessionInv => CleanOrDiscarded
  BY DEF SessionInv
<1> QED
  BY <1>1, SessionKept, PTL

-----------------------------------------------------------------------------
(* The stack of nested transactions, and its savepoints.                 *)

\* Writes, and the savepoints of a session.
Writes == Nat \X Nat
Marks == [name : Nat, before : SUBSET Writes]

\* A nested transaction as a record.
FlowShape(x) ==
  /\ DOMAIN x = {"pc", "parent", "name", "before", "err", "bad"}
  /\ x = [i \in DOMAIN x |-> x[i]]
  /\ x.pc \in {"out", "in", "undo", "undone"}

\* The open nested transactions, and the depth of a callback: the number in the
\* name of its savepoint.
OpenIn(x) == {f \in Flows : x[f].pc # "out"}

DepthIn(x, g) == IF g = 0 THEN 0 ELSE x[g].name

\* The work, by the account m, of the callbacks of x less deep than d.
BelowIn(x, m, d) == UNION {m[g] : g \in {h \in Flows \cup {0} : DepthIn(x, h) < d}}

\* The nested transactions x are a stack of k flows by the account m: one of each
\* depth, each started by the one above, all running but the innermost, which may
\* be being undone.
StackIn(x, k, m) ==
  /\ x = [f \in Flows |-> x[f]] /\ \A f \in Flows : FlowShape(x[f])
  /\ m \in [Flows \cup {0} -> SUBSET Writes]
  /\ k \in Nat
  /\ \A f \in OpenIn(x) :
       /\ x[f].name \in 1 .. k
       /\ x[f].parent \in OpenIn(x) \cup {0}
       /\ DepthIn(x, x[f].parent) = x[f].name - 1
       /\ x[f].pc # "in" => x[f].name = k /\ x[f].err # "ok"
       /\ x[f].before \subseteq BelowIn(x, m, x[f].name)
       /\ \A h \in OpenIn(x) : x[h].name = x[f].name => h = f
  /\ \A d \in 1 .. k : \E f \in OpenIn(x) : x[f].name = d
  /\ \A f \in Flows \ OpenIn(x) : m[f] = {} /\ x[f].name = 0

\* x and y differ in flow f only.
Moved(x, y, f) ==
  y = [h \in Flows |-> y[h]] /\ FlowShape(y[f]) /\ \A h \in Flows : h # f => y[h] = x[h]

\* From x to y the callback of g fails.
Failing(x, y, g) ==
  /\ Moved(x, y, g) /\ y[g].pc = "undo" /\ y[g].err # "ok"
  /\ y[g].parent = x[g].parent /\ y[g].name = x[g].name /\ y[g].before = x[g].before

\* From m to m2 the account of flow g has the write w more.
Added(m, m2, g, w) ==
  /\ m2 \in [Flows \cup {0} -> SUBSET Writes] /\ m2[g] = m[g] \cup {w}
  /\ \A h \in Flows \cup {0} : h # g => m2[h] = m[h]

\* From m to m2 flow f ends, and the part w of its work becomes that of flow g.
HandedOver(m, m2, f, g, w) ==
  /\ m2 \in [Flows \cup {0} -> SUBSET Writes] /\ m2[f] = {} /\ m2[g] = m[g] \cup w
  /\ \A h \in Flows \cup {0} : h \notin {f, g} => m2[h] = m[h]

\* From x and m to y and m2 flow f, the innermost, is gone, all but its work w.
Popped(x, m, k, f, y, m2, w) ==
  /\ OpenIn(y) = OpenIn(x) \ {f} /\ \A h \in Flows : h # f => y[h] = x[h]
  /\ \A d \in 0 .. k - 1 : BelowIn(y, m2, d) = BelowIn(x, m, d)
  /\ BelowIn(y, m2, k) = BelowIn(x, m, k) \cup w

\* Every open callback runs.
AllIn(x) == \A f \in OpenIn(x) : x[f].pc = "in"

\* g is the innermost callback.
Top(x, k, g) == g \in OpenIn(x) \cup {0} /\ DepthIn(x, g) = k

\* The savepoint i is that of flow f: it has what was done before f, and those after
\* it belong to deeper flows.
MarkedIn(x, m, s, f, i) ==
  /\ s.marks[i].name = x[f].name
  /\ s.marks[i].before = BelowIn(x, m, x[f].name)
  /\ \A j \in DOMAIN s.marks : j > i => s.marks[j].name > x[f].name

\* Every open flow has its savepoint.
MarksIn(x, m, s) == \A f \in OpenIn(x) : \E i \in DOMAIN s.marks : MarkedIn(x, m, s, f, i)

\* A flow that is not open.
LEMMA NoFlowShape == FlowShape(NoFlow) /\ NoFlow.pc = "out" /\ NoFlow.name = 0
BY DEF FlowShape, NoFlow

\* The outer callback is not a nested one.
LEMMA ZeroFlow == 0 \notin Flows
BY TransactionAssumption

\* A write is below a depth when a callback less deep has done it.
LEMMA BelowIs ==
  ASSUME NEW x, NEW m, NEW d, NEW w
  PROVE  w \in BelowIn(x, m, d) <=> \E g \in Flows \cup {0} : DepthIn(x, g) < d /\ w \in m[g]
BY DEF BelowIn

\* Flows of the same names have the same work.
LEMMA BelowSame ==
  ASSUME NEW x, NEW y, NEW m, NEW d, \A f \in Flows : x[f].name = y[f].name
  PROVE  BelowIn(x, m, d) = BelowIn(y, m, d)
<1>1. \A g \in Flows \cup {0} : DepthIn(x, g) = DepthIn(y, g)
  BY DEF DepthIn
<1> QED
  BY <1>1 DEF BelowIn

\* No callback is deeper than the innermost.
LEMMA DepthRange ==
  ASSUME NEW x, NEW k, NEW m, StackIn(x, k, m), NEW g \in Flows \cup {0}
  PROVE  DepthIn(x, g) \in 0 .. k
<1>1. k \in Nat
  BY DEF StackIn
<1>2. CASE g = 0
  BY <1>1, <1>2 DEF DepthIn
<1>3. CASE g # 0 /\ g \in OpenIn(x)
  BY <1>1, <1>3 DEF DepthIn, StackIn
<1>4. CASE g # 0 /\ g \notin OpenIn(x)
  BY <1>1, <1>4 DEF DepthIn, StackIn
<1> QED
  BY <1>2, <1>3, <1>4

\* There is one callback of each depth.
LEMMA DepthOne ==
  ASSUME NEW x, NEW k, NEW m, StackIn(x, k, m),
         NEW g \in OpenIn(x) \cup {0}, NEW h \in OpenIn(x) \cup {0}, DepthIn(x, g) = DepthIn(x, h)
  PROVE  g = h
<1>1. \A f \in OpenIn(x) : f # 0 /\ DepthIn(x, f) = x[f].name /\ x[f].name \in 1 .. k
  BY ZeroFlow DEF StackIn, DepthIn, OpenIn
<1>2. DepthIn(x, 0) = 0
  BY DEF DepthIn
<1>3. CASE g \in OpenIn(x) /\ h \in OpenIn(x)
  BY <1>1, <1>3 DEF StackIn
<1> QED
  BY <1>1, <1>2, <1>3

\* The callback that goes on is the innermost: the others await.
LEMMA TopRuns ==
  ASSUME StackIn(nest, frame.savepoints, mine), ~world.overlap, NEW g \in Flows \cup {0}, Runs(g)
  PROVE  Top(nest, frame.savepoints, g) /\ AllIn(nest)
<1> DEFINE k == frame.savepoints
<1>1. g \in OpenIn(nest) \cup {0}
  BY ZeroFlow DEF Runs, Active, OpenIn
<1>2. \A f \in OpenIn(nest) : nest[f].parent # g
  BY DEF Runs, OpenIn
<1>3. DepthIn(nest, g) \in 0 .. k
  BY <1>1, ZeroFlow DEF StackIn, DepthIn, OpenIn
<1>4. ASSUME DepthIn(nest, g) # k PROVE FALSE
  <2>1. DepthIn(nest, g) + 1 \in 1 .. k
    BY <1>3, <1>4 DEF StackIn
  <2>2. PICK f \in OpenIn(nest) : nest[f].name = DepthIn(nest, g) + 1
    BY <2>1, SMTT(30) DEF StackIn
  <2>3. /\ nest[f].parent \in OpenIn(nest) \cup {0}
        /\ DepthIn(nest, nest[f].parent) = nest[f].name - 1
    BY <2>2 DEF StackIn
  <2>4. DepthIn(nest, nest[f].parent) = DepthIn(nest, g)
    BY <2>2, <2>3, <1>3
  <2>5. nest[f].parent = g
    BY <1>1, <2>3, <2>4, DepthOne
  <2> QED
    BY <1>2, <2>2, <2>5
<1>5. ASSUME NEW f \in OpenIn(nest), nest[f].pc # "in" PROVE FALSE
  <2>1. nest[f].name = k /\ nest[f].name \in 1 .. k
    BY <1>5 DEF StackIn
  <2>2. g # 0
    BY <1>4, <2>1 DEF DepthIn
  <2>3. g = f
    BY <1>1, <1>4, <1>5, <2>1, <2>2 DEF StackIn, DepthIn
  <2> QED
    BY <1>5, <2>2, <2>3 DEF Runs, Active
<1> QED
  BY <1>1, <1>4, <1>5 DEF Top, AllIn

\* Flows that differ in how far the innermost is make the same stack.
LEMMA Refit ==
  ASSUME NEW x, NEW k, NEW m, StackIn(x, k, m), NEW y,
         y = [f \in Flows |-> y[f]], \A f \in Flows : FlowShape(y[f]),
         \A f \in Flows : /\ y[f].name = x[f].name /\ y[f].parent = x[f].parent /\ y[f].before = x[f].before
                          /\ y[f].pc = "out" <=> x[f].pc = "out",
         \A f \in Flows : y[f].pc \notin {"in", "out"} => y[f].name = k /\ y[f].err # "ok"
  PROVE  /\ StackIn(y, k, m) /\ OpenIn(y) = OpenIn(x)
         /\ \A d : BelowIn(y, m, d) = BelowIn(x, m, d)
         /\ \A s : MarksIn(x, m, s) => MarksIn(y, m, s)
<1>1. OpenIn(y) = OpenIn(x)
  BY DEF OpenIn
<1>2. \A d : BelowIn(y, m, d) = BelowIn(x, m, d)
  BY BelowSame
<1>3. \A f \in Flows \cup {0} : DepthIn(y, f) = DepthIn(x, f)
  BY DEF DepthIn
<1>4. ASSUME NEW f \in OpenIn(y)
      PROVE  /\ y[f].name \in 1 .. k
             /\ y[f].parent \in OpenIn(y) \cup {0}
             /\ DepthIn(y, y[f].parent) = y[f].name - 1
             /\ y[f].pc # "in" => y[f].name = k /\ y[f].err # "ok"
             /\ y[f].before \subseteq BelowIn(y, m, y[f].name)
             /\ \A h \in OpenIn(y) : y[h].name = y[f].name => h = f
  <2>1. f \in Flows /\ f \in OpenIn(x)
    BY <1>1, <1>4 DEF OpenIn
  <2>2. /\ x[f].name \in 1 .. k
        /\ x[f].parent \in OpenIn(x) \cup {0}
        /\ DepthIn(x, x[f].parent) = x[f].name - 1
        /\ x[f].before \subseteq BelowIn(x, m, x[f].name)
        /\ \A h \in OpenIn(x) : x[h].name = x[f].name => h = f
    BY <2>1, Zenon DEF StackIn
  <2>3. y[f].pc # "in" => y[f].name = k /\ y[f].err # "ok"
    BY <1>4 DEF OpenIn
  <2>4. x[f].parent \in Flows \cup {0}
    BY <2>2 DEF OpenIn
  <2>5. \A h \in OpenIn(y) : y[h].name = y[f].name => h = f
    BY <1>1, <2>1, <2>2 DEF OpenIn
  <2> QED
    BY <1>1, <1>2, <1>3, <2>1, <2>2, <2>3, <2>4, <2>5
<1>5. StackIn(y, k, m)
  <2>1. m \in [Flows \cup {0} -> SUBSET Writes] /\ k \in Nat
    BY DEF StackIn
  <2>2. \A d \in 1 .. k : \E f \in OpenIn(y) : y[f].name = d
    BY <1>1 DEF StackIn, OpenIn
  <2>3. \A f \in Flows \ OpenIn(y) : m[f] = {} /\ y[f].name = 0
    BY <1>1 DEF StackIn
  <2> QED
    BY <1>4, <2>1, <2>2, <2>3, Zenon DEF StackIn
<1>6. ASSUME NEW s, MarksIn(x, m, s) PROVE MarksIn(y, m, s)
  BY <1>1, <1>2, <1>6 DEF MarksIn, MarkedIn, OpenIn
<1> QED
  BY <1>1, <1>2, <1>5, <1>6

\* A callback fails: its flow is to be undone.
LEMMA FailFits ==
  ASSUME NEW x, NEW k, NEW m, StackIn(x, k, m), AllIn(x), NEW g \in Flows, Top(x, k, g),
         NEW y, Failing(x, y, g)
  PROVE  /\ StackIn(y, k, m) /\ OpenIn(y) = OpenIn(x) /\ g \in OpenIn(y)
         /\ \A f \in Flows : y[f].pc # "undone"
         /\ \A d : BelowIn(y, m, d) = BelowIn(x, m, d)
         /\ \A s : MarksIn(x, m, s) => MarksIn(y, m, s)
<1>1. \A f \in Flows : FlowShape(x[f])
  BY DEF StackIn
<1>2. g \in OpenIn(x) /\ x[g].name = k
  BY ZeroFlow DEF Top, DepthIn, OpenIn
<1>5. \A f \in Flows : x[f].pc \in {"in", "out"}
  BY DEF AllIn, OpenIn
<1>6. x[g].pc # "out"
  BY <1>2 DEF OpenIn
<1>7. \A f \in Flows : /\ FlowShape(y[f])
                       /\ y[f].name = x[f].name /\ y[f].parent = x[f].parent /\ y[f].before = x[f].before
                       /\ y[f].pc = "out" <=> x[f].pc = "out"
                       /\ y[f].pc \notin {"in", "out"} => y[f].name = k /\ y[f].err # "ok"
                       /\ y[f].pc # "undone"
  BY <1>1, <1>2, <1>5, <1>6 DEF Failing, Moved
<1>8. y = [f \in Flows |-> y[f]]
  BY DEF Failing, Moved
<1>9. /\ StackIn(y, k, m) /\ OpenIn(y) = OpenIn(x)
      /\ \A d : BelowIn(y, m, d) = BelowIn(x, m, d)
      /\ \A s : MarksIn(x, m, s) => MarksIn(y, m, s)
  BY <1>7, <1>8, Refit
<1> QED
  BY <1>2, <1>7, <1>9

\* ROLLBACK TO SAVEPOINT was sent for the innermost flow.
LEMMA UndoneFits ==
  ASSUME NEW x, NEW k, NEW m, StackIn(x, k, m), NEW f \in Flows, x[f].pc = "undo",
         NEW y, Moved(x, y, f), y[f].pc = "undone", y[f].err = x[f].err,
         y[f].parent = x[f].parent, y[f].name = x[f].name, y[f].before = x[f].before
  PROVE  /\ StackIn(y, k, m) /\ OpenIn(y) = OpenIn(x) /\ f \in OpenIn(y)
         /\ \A d : BelowIn(y, m, d) = BelowIn(x, m, d)
         /\ \A s : MarksIn(x, m, s) => MarksIn(y, m, s)
<1>1. \A h \in Flows : FlowShape(x[h])
  BY DEF StackIn
<1>2. f \in OpenIn(x)
  BY DEF OpenIn
<1>5. \A h \in Flows : x[h].pc \notin {"in", "out"} => x[h].name = k /\ x[h].err # "ok"
  BY Zenon DEF StackIn, OpenIn
<1>7. \A h \in Flows : /\ FlowShape(y[h])
                       /\ y[h].name = x[h].name /\ y[h].parent = x[h].parent /\ y[h].before = x[h].before
                       /\ y[h].pc = "out" <=> x[h].pc = "out"
                       /\ y[h].pc \notin {"in", "out"} => y[h].name = k /\ y[h].err # "ok"
  BY <1>1, <1>5 DEF Moved
<1>8. y = [h \in Flows |-> y[h]]
  BY DEF Moved
<1>9. /\ StackIn(y, k, m) /\ OpenIn(y) = OpenIn(x)
      /\ \A d : BelowIn(y, m, d) = BelowIn(x, m, d)
      /\ \A s : MarksIn(x, m, s) => MarksIn(y, m, s)
  BY <1>7, <1>8, Refit
<1> QED
  BY <1>2, <1>9

\* The innermost callback has done one more write.
LEMMA AddFits ==
  ASSUME NEW x, NEW k, NEW m, StackIn(x, k, m), NEW g, Top(x, k, g), NEW w \in Writes,
         NEW m2, Added(m, m2, g, w)
  PROVE  /\ StackIn(x, k, m2) /\ BelowIn(x, m2, k + 1) = BelowIn(x, m, k + 1) \cup {w}
         /\ \A s : MarksIn(x, m, s) => MarksIn(x, m2, s)
<1>1. m \in [Flows \cup {0} -> SUBSET Writes] /\ k \in Nat
  BY DEF StackIn
<1>2. g \in Flows \cup {0} /\ DepthIn(x, g) = k /\ (g \in Flows => g \in OpenIn(x))
  BY ZeroFlow DEF Top, OpenIn
<1>4. ASSUME NEW d \in 0 .. k PROVE BelowIn(x, m2, d) = BelowIn(x, m, d)
  <2>1. ASSUME NEW v PROVE v \in BelowIn(x, m2, d) <=> v \in BelowIn(x, m, d)
    BY <1>1, <1>2, <1>4, BelowIs DEF Added
  <2> QED
    BY <2>1
<1>5. BelowIn(x, m2, k + 1) = BelowIn(x, m, k + 1) \cup {w}
  <2>1. ASSUME NEW v PROVE v \in BelowIn(x, m2, k + 1) <=> v \in BelowIn(x, m, k + 1) \cup {w}
    BY <1>1, <1>2, BelowIs DEF Added
  <2> QED
    BY <2>1
<1>6. \A f \in OpenIn(x) : x[f].name \in 1 .. k /\ BelowIn(x, m2, x[f].name) = BelowIn(x, m, x[f].name)
  BY <1>1, <1>4 DEF StackIn
<1>7. \A f \in Flows \ OpenIn(x) : m2[f] = {}
  BY <1>2 DEF StackIn, Added
<1>8. StackIn(x, k, m2)
  BY <1>6, <1>7, Zenon DEF StackIn, Added
<1>9. ASSUME NEW s, MarksIn(x, m, s) PROVE MarksIn(x, m2, s)
  BY <1>6, <1>9 DEF MarksIn, MarkedIn
<1> QED
  BY <1>5, <1>8, <1>9

\* A nested transaction starts.
LEMMA PushFits ==
  ASSUME NEW x, NEW k, NEW m, StackIn(x, k, m), AllIn(x), NEW g, Top(x, k, g),
         NEW f \in Flows, x[f].pc = "out", NEW y, Moved(x, y, f),
         y[f].pc = "in", y[f].parent = g, y[f].name = k + 1, y[f].before \subseteq BelowIn(x, m, k + 1)
  PROVE  /\ StackIn(y, k + 1, m) /\ AllIn(y) /\ OpenIn(y) = OpenIn(x) \cup {f}
         /\ \A d : BelowIn(y, m, d) = BelowIn(x, m, d)
         /\ BelowIn(y, m, k + 2) = BelowIn(x, m, k + 1)
<1>2. x = [h \in Flows |-> x[h]] /\ (\A h \in Flows : FlowShape(x[h])) /\ k \in Nat
  BY DEF StackIn
<1>3. y = [h \in Flows |-> y[h]] /\ FlowShape(y[f]) /\ \A h \in Flows : h # f => y[h] = x[h]
  BY DEF Moved
<1>4. f \notin OpenIn(x) /\ m[f] = {} /\ x[f].name = 0
  BY DEF StackIn, OpenIn
<1>5. OpenIn(y) = OpenIn(x) \cup {f} /\ AllIn(y)
  BY <1>3, <1>4 DEF OpenIn, AllIn
<1>6. \A h \in Flows \cup {0} : h # f => DepthIn(y, h) = DepthIn(x, h)
  BY <1>3 DEF DepthIn
<1>7. ASSUME NEW d PROVE BelowIn(y, m, d) = BelowIn(x, m, d)
  <2>1. ASSUME NEW v PROVE v \in BelowIn(y, m, d) <=> v \in BelowIn(x, m, d)
    BY <1>4, <1>6, BelowIs
  <2> QED
    BY <2>1, Zenon
<1>8. \A h \in Flows \cup {0} : DepthIn(x, h) \in 0 .. k
  BY DepthRange
<1>9. BelowIn(y, m, k + 2) = BelowIn(x, m, k + 1)
  <2>1. ASSUME NEW v PROVE v \in BelowIn(x, m, k + 2) <=> v \in BelowIn(x, m, k + 1)
    BY <1>2, <1>8, BelowIs
  <2> QED
    BY <1>7, <2>1
<1>10. ASSUME NEW h \in OpenIn(y)
       PROVE  /\ y[h].name \in 1 .. k + 1
              /\ y[h].parent \in OpenIn(y) \cup {0}
              /\ DepthIn(y, y[h].parent) = y[h].name - 1
              /\ y[h].pc = "in"
              /\ y[h].before \subseteq BelowIn(y, m, y[h].name)
              /\ \A j \in OpenIn(y) : y[j].name = y[h].name => j = h
  <2>1. y[h].pc = "in"
    BY <1>5, <1>10 DEF AllIn
  <2>2. CASE h = f
    <3>1. g \in OpenIn(x) \cup {0} /\ g # f /\ DepthIn(y, g) = k
      BY <1>4, <1>6, ZeroFlow DEF Top, OpenIn
    <3>2. \A j \in OpenIn(x) : j # f /\ j \in Flows /\ x[j].name \in 1 .. k
      BY <1>4, Zenon DEF StackIn, OpenIn
    <3>3. \A j \in OpenIn(y) : y[j].name = k + 1 => j = f
      BY <1>2, <1>3, <1>5, <3>2
    <3> QED
      BY <1>2, <1>3, <1>5, <1>7, <2>1, <2>2, <3>1, <3>3
  <2>3. CASE h # f
    <3>1. h \in OpenIn(x) /\ h \in Flows /\ y[h] = x[h]
      BY <1>3, <1>5, <1>10, <2>3 DEF OpenIn
    <3>2. /\ x[h].name \in 1 .. k
          /\ x[h].parent \in OpenIn(x) \cup {0}
          /\ DepthIn(x, x[h].parent) = x[h].name - 1
          /\ x[h].before \subseteq BelowIn(x, m, x[h].name)
          /\ \A j \in OpenIn(x) : x[j].name = x[h].name => j = h
      BY <3>1, Zenon DEF StackIn
    <3>3. x[h].parent # f /\ x[h].parent \in Flows \cup {0}
      BY <1>4, <3>2, ZeroFlow DEF OpenIn
    <3>4. \A j \in OpenIn(y) : y[j].name = y[h].name => j = h
      BY <1>2, <1>3, <1>5, <3>1, <3>2 DEF OpenIn
    <3>5. DepthIn(y, y[h].parent) = y[h].name - 1
      BY <1>6, <3>1, <3>2, <3>3
    <3>6. y[h].name \in 1 .. k + 1
      BY <1>2, <3>1, <3>2
    <3> QED
      BY <1>5, <1>7, <2>1, <3>1, <3>2, <3>4, <3>5, <3>6
  <2> QED
    BY <2>2, <2>3
<1>11. ASSUME NEW d \in 1 .. k + 1 PROVE \E h \in OpenIn(y) : y[h].name = d
  <2>1. CASE d = k + 1
    BY <1>3, <1>5, <2>1
  <2>2. CASE d # k + 1
    <3>1. d \in 1 .. k
      BY <1>2, <2>2
    <3>2. PICK h \in OpenIn(x) : x[h].name = d
      BY <3>1 DEF StackIn
    <3> QED
      BY <1>3, <1>4, <1>5, <3>2 DEF OpenIn
  <2> QED
    BY <2>1, <2>2
<1>12. \A h \in Flows \ OpenIn(y) : m[h] = {} /\ y[h].name = 0
  BY <1>3, <1>5 DEF StackIn
<1>13. StackIn(y, k + 1, m)
  <2>1. m \in [Flows \cup {0} -> SUBSET Writes] /\ k + 1 \in Nat
    BY <1>2 DEF StackIn
  <2>2. \A h \in Flows : FlowShape(y[h])
    BY <1>2, <1>3
  <2> QED
    BY <1>3, <1>10, <1>11, <1>12, <2>1, <2>2 DEF StackIn
<1> QED
  BY <1>5, <1>7, <1>9, <1>13

\* The innermost nested transaction ends: its work becomes that of the flow that
\* started it, or nobody's.
LEMMA PopFits ==
  ASSUME NEW x, NEW k, NEW m, StackIn(x, k, m), NEW f \in OpenIn(x), x[f].name = k,
         NEW g, g = x[f].parent, NEW m2, NEW w, HandedOver(m, m2, f, g, w), NEW y, Moved(x, y, f), y[f] = NoFlow
  PROVE  /\ StackIn(y, k - 1, m2) /\ AllIn(y) /\ Top(y, k - 1, g)
         /\ Popped(x, m, k, f, y, m2, w)
<1>a. /\ m2 \in [Flows \cup {0} -> SUBSET Writes] /\ m2[f] = {} /\ m2[g] = m[g] \cup w
      /\ \A h \in Flows \cup {0} : h \notin {f, g} => m2[h] = m[h]
  BY DEF HandedOver
<1>1. /\ x = [h \in Flows |-> x[h]] /\ (\A h \in Flows : FlowShape(x[h])) /\ k \in Nat
      /\ m \in [Flows \cup {0} -> SUBSET Writes] /\ f \in Flows /\ f # 0
  BY ZeroFlow DEF StackIn, OpenIn
<1>2. /\ y = [h \in Flows |-> y[h]] /\ \A h \in Flows : h # f => y[h] = x[h]
  BY DEF Moved
<1>3. OpenIn(y) = OpenIn(x) \ {f}
  BY <1>1, <1>2, NoFlowShape DEF OpenIn
<1>4. k \in Nat \ {0} /\ g \in OpenIn(x) \cup {0} /\ DepthIn(x, g) = k - 1
  BY <1>1 DEF StackIn
<1>5. DepthIn(x, f) = k /\ g # f /\ g \in Flows \cup {0}
  BY <1>1, <1>4 DEF DepthIn, OpenIn
<1>6. \A h \in Flows \cup {0} : h # f => DepthIn(y, h) = DepthIn(x, h)
  BY <1>2 DEF DepthIn
<1>7. \A h \in Flows \cup {0} : DepthIn(x, h) \in 0 .. k
  BY DepthRange
<1>8. ASSUME NEW d \in 0 .. k - 1 PROVE BelowIn(y, m2, d) = BelowIn(x, m, d)
  <2>1. ASSUME NEW v PROVE v \in BelowIn(y, m2, d) <=> v \in BelowIn(x, m, d)
    BY <1>a, <1>4, <1>5, <1>6, <1>7, BelowIs
  <2> QED
    BY <2>1, Zenon
<1>9. BelowIn(y, m2, k) = BelowIn(x, m, k) \cup w
  <2>1. ASSUME NEW v, v \in BelowIn(y, m2, k) PROVE v \in BelowIn(x, m, k) \cup w
    <3>1. PICK h \in Flows \cup {0} : DepthIn(y, h) < k /\ v \in m2[h]
      BY <2>1, BelowIs
    <3>2. h # f
      BY <1>a, <3>1
    <3>3. DepthIn(x, h) < k /\ (h # g => v \in m[h]) /\ (h = g => v \in m[g] \cup w)
      BY <1>a, <1>6, <3>1, <3>2
    <3> QED
      BY <3>3, BelowIs
  <2>2. ASSUME NEW v, v \in BelowIn(x, m, k) PROVE v \in BelowIn(y, m2, k)
    <3>1. PICK h \in Flows \cup {0} : DepthIn(x, h) < k /\ v \in m[h]
      BY <2>2, BelowIs
    <3>2. h # f
      BY <1>4, <1>5, <3>1
    <3>3. DepthIn(y, h) < k /\ v \in m2[h]
      BY <1>a, <1>6, <3>1, <3>2
    <3> QED
      BY <3>3, BelowIs
  <2>3. ASSUME NEW v, v \in w PROVE v \in BelowIn(y, m2, k)
    <3>1. DepthIn(y, g) < k /\ v \in m2[g]
      BY <1>a, <1>4, <1>5, <1>6, <2>3
    <3> QED
      BY <1>5, <3>1, BelowIs
  <2> QED
    BY <2>1, <2>2, <2>3
<1>10. ASSUME NEW h \in OpenIn(y)
       PROVE  /\ y[h].name \in 1 .. k - 1
              /\ y[h].parent \in OpenIn(y) \cup {0}
              /\ DepthIn(y, y[h].parent) = y[h].name - 1
              /\ y[h].pc = "in"
              /\ y[h].before \subseteq BelowIn(y, m2, y[h].name)
              /\ \A j \in OpenIn(y) : y[j].name = y[h].name => j = h
  <2>1. h \in OpenIn(x) /\ h # f /\ h \in Flows /\ y[h] = x[h]
    BY <1>2, <1>3, <1>10 DEF OpenIn
  <2>2. /\ x[h].name \in 1 .. k
        /\ x[h].parent \in OpenIn(x) \cup {0}
        /\ DepthIn(x, x[h].parent) = x[h].name - 1
        /\ x[h].pc # "in" => x[h].name = k
        /\ x[h].before \subseteq BelowIn(x, m, x[h].name)
        /\ \A j \in OpenIn(x) : x[j].name = x[h].name => j = h
    BY <2>1, Zenon DEF StackIn
  <2>3. x[h].name # k
    BY <2>1, <2>2
  <2>4. x[h].name \in 1 .. k - 1 /\ x[h].name \in 0 .. k - 1
    BY <1>4, <2>2, <2>3
  <2>5. x[h].parent # f
    BY <1>4, <1>5, <2>2, <2>4
  <2>6. x[h].parent \in OpenIn(y) \cup {0} /\ x[h].parent \in Flows \cup {0}
    BY <1>3, <2>2, <2>5 DEF OpenIn
  <2>7. \A j \in OpenIn(y) : y[j].name = y[h].name => j = h
    BY <1>2, <1>3, <2>1, <2>2 DEF OpenIn
  <2>8. DepthIn(y, y[h].parent) = y[h].name - 1
    BY <1>6, <2>1, <2>2, <2>5, <2>6
  <2> QED
    BY <1>8, <2>1, <2>2, <2>3, <2>4, <2>6, <2>7, <2>8
<1>11. ASSUME NEW d \in 1 .. k - 1 PROVE \E h \in OpenIn(y) : y[h].name = d
  <2>1. d \in 1 .. k
    BY <1>4
  <2>2. PICK h \in OpenIn(x) : x[h].name = d
    BY <2>1 DEF StackIn
  <2>3. h # f
    BY <1>4, <2>2
  <2> QED
    BY <1>2, <1>3, <2>2, <2>3 DEF OpenIn
<1>12. \A h \in Flows \ OpenIn(y) : m2[h] = {} /\ y[h].name = 0
  <2>1. ASSUME NEW h \in Flows \ OpenIn(y) PROVE m2[h] = {} /\ y[h].name = 0
    <3>1. CASE h = f
      BY <1>a, <1>2, <3>1, NoFlowShape
    <3>2. CASE h # f
      <4>1. h \notin OpenIn(x) /\ y[h] = x[h]
        BY <1>2, <1>3, <2>1, <3>2
      <4>2. h # g
        BY <1>1, <1>4, <4>1, <2>1, ZeroFlow
      <4> QED
        BY <1>a, <2>1, <3>2, <4>1, <4>2 DEF StackIn
    <3> QED
      BY <3>1, <3>2
  <2> QED
    BY <2>1
<1>13. StackIn(y, k - 1, m2)
  <2>1. k - 1 \in Nat
    BY <1>4
  <2>2. \A h \in Flows : FlowShape(y[h])
    BY <1>1, <1>2, NoFlowShape
  <2> QED
    BY <1>a, <1>2, <1>10, <1>11, <1>12, <2>1, <2>2, Zenon DEF StackIn
<1>14. AllIn(y)
  BY <1>10 DEF AllIn
<1>15. Top(y, k - 1, g)
  BY <1>3, <1>4, <1>5, <1>6 DEF Top
<1> QED
  BY <1>2, <1>3, <1>8, <1>9, <1>13, <1>14, <1>15 DEF Popped

\* The work of the innermost flow comes last.
LEMMA TopWork ==
  ASSUME NEW x, NEW k, NEW m, StackIn(x, k, m), NEW f \in OpenIn(x), x[f].name = k
  PROVE  BelowIn(x, m, k + 1) = BelowIn(x, m, k) \cup m[f]
<1>1. k \in Nat /\ k # 0 /\ f \in Flows /\ DepthIn(x, f) = k
  BY ZeroFlow DEF StackIn, OpenIn, DepthIn
<1>2. \A h \in Flows \cup {0} : DepthIn(x, h) \in 0 .. k
  BY DepthRange
<1>3. \A h \in OpenIn(x) : DepthIn(x, h) = k => h = f
  BY <1>1, DepthOne
<1>4. \A h \in Flows \ OpenIn(x) : m[h] = {}
  BY DEF StackIn
<1>5. \A h \in Flows \cup {0} : h # f /\ DepthIn(x, h) = k => m[h] = {}
  BY <1>1, <1>3, <1>4 DEF DepthIn
<1>6. ASSUME NEW v PROVE v \in BelowIn(x, m, k + 1) <=> v \in BelowIn(x, m, k) \/ v \in m[f]
  BY <1>1, <1>2, <1>5, BelowIs
<1> QED
  BY <1>6

\* The last savepoint of a name.
LEMMA LastIs ==
  ASSUME server.marks \in Seq(Marks), NEW name \in Nat, NEW i \in DOMAIN server.marks,
         server.marks[i].name = name, \A j \in DOMAIN server.marks : j > i => server.marks[j].name > name
  PROVE  Last(name) = i /\ Named(name) # {}
<1>1. i \in Named(name) /\ \A j \in Named(name) : j \in Int /\ j <= i
  BY DEF Named
<1>2. Last(name) \in Named(name) /\ \A j \in Named(name) : j <= Last(name)
  BY <1>1 DEF Last
<1> QED
  BY <1>1, <1>2

\* SAVEPOINT, RELEASE and ROLLBACK TO in an open transaction.
LEMMA SavepointFields ==
  ASSUME Sound(server), server.tx \in {"open", "aborted"}, NEW name
  PROVE  /\ Save(name).alive = server.alive /\ Save(name).tx = server.tx /\ Save(name).work = server.work
         /\ Save(name).marks = Append(server.marks, [name |-> name, before |-> server.work])
         /\ Released(name).alive = server.alive /\ Released(name).tx = server.tx
         /\ Released(name).work = server.work /\ Released(name).marks = SubSeq(server.marks, 1, Last(name) - 1)
         /\ RolledBack(name).alive = server.alive /\ RolledBack(name).tx = "open"
         /\ RolledBack(name).work = server.marks[Last(name)].before
         /\ RolledBack(name).marks = SubSeq(server.marks, 1, Last(name))
<1>1. /\ Save(name).alive = server.alive /\ Save(name).tx = server.tx /\ Save(name).work = server.work
      /\ Save(name).marks = Append(server.marks, [name |-> name, before |-> server.work])
  BY DEF Save, Sound, Shape
<1>2. /\ Released(name).alive = server.alive /\ Released(name).tx = server.tx
      /\ Released(name).work = server.work /\ Released(name).marks = SubSeq(server.marks, 1, Last(name) - 1)
  BY Zenon DEF Released, Sound, Shape
<1>3. /\ RolledBack(name).alive = server.alive /\ RolledBack(name).tx = "open"
      /\ RolledBack(name).work = server.marks[Last(name)].before
      /\ RolledBack(name).marks = SubSeq(server.marks, 1, Last(name))
  BY Zenon DEF RolledBack, Sound, Shape
<1> QED
  BY <1>1, <1>2, <1>3

\* A savepoint of a new name leaves the marks of the open flows.
LEMMA SaveMarks ==
  ASSUME NEW x, NEW k, NEW m, StackIn(x, k, m), NEW s, s.marks \in Seq(Marks), MarksIn(x, m, s),
         NEW b \in SUBSET Writes, NEW t, t.marks = Append(s.marks, [name |-> k + 1, before |-> b])
  PROVE  MarksIn(x, m, t) /\ t.marks \in Seq(Marks)
<1> DEFINE e == [name |-> k + 1, before |-> b]
<1>1. k \in Nat /\ e \in Marks /\ e.name = k + 1
  BY DEF StackIn, Marks
<1> HIDE DEF e
<1>2. /\ t.marks \in Seq(Marks) /\ DOMAIN t.marks = 1 .. Len(s.marks) + 1 /\ DOMAIN s.marks = 1 .. Len(s.marks)
      /\ Len(s.marks) \in Nat /\ t.marks[Len(s.marks) + 1] = e
      /\ \A i \in DOMAIN s.marks : t.marks[i] = s.marks[i]
  BY <1>1 DEF e
<1>3. ASSUME NEW f \in OpenIn(x) PROVE \E i \in DOMAIN t.marks : MarkedIn(x, m, t, f, i)
  <2>1. PICK i \in DOMAIN s.marks : MarkedIn(x, m, s, f, i)
    BY <1>3 DEF MarksIn
  <2>2. x[f].name \in 1 .. k
    BY <1>3 DEF StackIn
  <2>3. ASSUME NEW j \in DOMAIN t.marks, j > i PROVE t.marks[j].name > x[f].name
    BY <1>1, <1>2, <2>1, <2>2, <2>3 DEF MarkedIn
  <2>4. t.marks[i].name = x[f].name /\ t.marks[i].before = BelowIn(x, m, x[f].name) /\ i \in DOMAIN t.marks
    BY <1>2, <2>1 DEF MarkedIn
  <2> QED
    BY <2>3, <2>4 DEF MarkedIn
<1> QED
  BY <1>2, <1>3 DEF MarksIn

\* The marks of the flows that stay open are before that of the innermost.
LEMMA CutMarks ==
  ASSUME NEW x, NEW k, NEW m, StackIn(x, k, m), NEW s, s.marks \in Seq(Marks), MarksIn(x, m, s),
         NEW f \in OpenIn(x), x[f].name = k, NEW i \in DOMAIN s.marks, MarkedIn(x, m, s, f, i),
         NEW y, NEW m2, OpenIn(y) = OpenIn(x) \ {f}, \A h \in Flows : h # f => y[h] = x[h],
         \A d \in 0 .. k - 1 : BelowIn(y, m2, d) = BelowIn(x, m, d),
         NEW t, t.marks = SubSeq(s.marks, 1, i - 1)
  PROVE  MarksIn(y, m2, t) /\ t.marks \in Seq(Marks)
<1>1. /\ DOMAIN s.marks = 1 .. Len(s.marks) /\ Len(s.marks) \in Nat /\ i \in 1 .. Len(s.marks)
  OBVIOUS
<1>2. /\ t.marks \in Seq(Marks) /\ DOMAIN t.marks = 1 .. i - 1
      /\ \A j \in 1 .. i - 1 : t.marks[j] = s.marks[j]
  BY <1>1
<1>3. ASSUME NEW h \in OpenIn(y) PROVE \E j \in DOMAIN t.marks : MarkedIn(y, m2, t, h, j)
  <2>1. h \in OpenIn(x) /\ h # f /\ y[h] = x[h] /\ x[h].name \in 1 .. k /\ k \in Nat
    BY <1>3, Zenon DEF OpenIn, StackIn
  <2>2. x[h].name # k
    BY <2>1, Zenon DEF StackIn
  <2>3. x[h].name \in 0 .. k - 1 /\ x[h].name < k
    BY <2>1, <2>2
  <2>4. PICK j \in DOMAIN s.marks : MarkedIn(x, m, s, h, j)
    BY <2>1 DEF MarksIn
  <2>5. j < i
    <3>1. s.marks[j].name = x[h].name /\ s.marks[i].name = k
      BY <2>4 DEF MarkedIn
    <3>2. j > i => s.marks[j].name > k
      BY <2>4 DEF MarkedIn
    <3> QED
      BY <1>1, <2>1, <2>3, <2>4, <3>1, <3>2
  <2>6. j \in DOMAIN t.marks /\ t.marks[j] = s.marks[j]
    BY <1>1, <1>2, <2>4, <2>5
  <2>7. ASSUME NEW l \in DOMAIN t.marks, l > j PROVE t.marks[l].name > y[h].name
    BY <1>1, <1>2, <2>1, <2>4, <2>7 DEF MarkedIn
  <2>8. BelowIn(y, m2, x[h].name) = BelowIn(x, m, x[h].name)
    BY <2>3
  <2> QED
    BY <2>1, <2>4, <2>6, <2>7, <2>8, Zenon DEF MarkedIn
<1> QED
  BY <1>2, <1>3 DEF MarksIn

\* ROLLBACK TO SAVEPOINT keeps the mark of the innermost flow too.
LEMMA BackMarks ==
  ASSUME NEW x, NEW k, NEW m, StackIn(x, k, m), NEW s, s.marks \in Seq(Marks), MarksIn(x, m, s),
         NEW f \in OpenIn(x), x[f].name = k, NEW i \in DOMAIN s.marks, MarkedIn(x, m, s, f, i),
         NEW t, t.marks = SubSeq(s.marks, 1, i)
  PROVE  MarksIn(x, m, t) /\ t.marks \in Seq(Marks)
<1>1. /\ DOMAIN s.marks = 1 .. Len(s.marks) /\ Len(s.marks) \in Nat /\ i \in 1 .. Len(s.marks)
  OBVIOUS
<1>2. /\ t.marks \in Seq(Marks) /\ DOMAIN t.marks = 1 .. i
      /\ \A j \in 1 .. i : t.marks[j] = s.marks[j]
  BY <1>1
<1>3. ASSUME NEW h \in OpenIn(x) PROVE \E j \in DOMAIN t.marks : MarkedIn(x, m, t, h, j)
  <2>1. x[h].name \in 1 .. k /\ k \in Nat
    BY <1>3 DEF StackIn
  <2>2. PICK j \in DOMAIN s.marks : MarkedIn(x, m, s, h, j)
    BY <1>3 DEF MarksIn
  <2>3. j <= i
    <3>1. s.marks[j].name = x[h].name
      BY <2>2 DEF MarkedIn
    <3>2. j > i => s.marks[j].name > k
      BY <2>2 DEF MarkedIn
    <3> QED
      BY <1>1, <2>1, <2>2, <3>1, <3>2
  <2>4. j \in DOMAIN t.marks /\ t.marks[j] = s.marks[j]
    BY <1>1, <1>2, <2>2, <2>3
  <2>5. ASSUME NEW l \in DOMAIN t.marks, l > j PROVE t.marks[l].name > x[h].name
    BY <1>1, <1>2, <2>2, <2>5 DEF MarkedIn
  <2> QED
    BY <2>2, <2>4, <2>5 DEF MarkedIn
<1> QED
  BY <1>2, <1>3 DEF MarksIn
=============================================================================

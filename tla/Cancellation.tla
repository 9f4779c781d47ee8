---------------------------- MODULE Cancellation ----------------------------
(***************************************************************************)
(* Cancelling a statement on MySQL and PostgreSQL (cancellable() and the   *)
(* pools of driver.ts).  A call with a signal holds a connection of the    *)
(* pool for its statement; an abort asks the server to stop what runs on   *)
(* that connection.  PostgreSQL is asked on a socket of its own, MySQL by  *)
(* KILL QUERY, which needs a connection of the same pool.  A transaction's *)
(* session runs its statement and then a ROLLBACK or COMMIT that no signal *)
(* cancels.                                                                *)
(***************************************************************************)
EXTENDS Integers, Sequences, TLAPS

CONSTANTS
  Calls,    \* the calls of execute() that can be open
  Size,     \* bounds.size, the connections of the pool
  Drivers   \* the drivers to check, of "mysql" and "postgres"

ASSUME SizeAssumption == Size \in Nat

NoConn == 0
Conns == 1..Size

VARIABLES
  driver,
  free,      \* the idle connections of the pool
  queue,     \* the requests that wait for a connection, oldest first
  pc,        \* where each call is
  session,   \* the call is a statement of a transaction's session
  conn,      \* the connection the call holds
  aborted,   \* the signal of the call is aborted
  stop,      \* the stop request of the call
  killer,    \* the connection that its KILL QUERY holds
  work       \* how the statement of the call ended

vars == <<driver, free, queue, pc, session, conn, aborted, stop, killer, work>>

Init ==
  /\ driver \in Drivers
  /\ free = Conns
  /\ queue = <<>>
  /\ pc = [c \in Calls |-> "out"]
  /\ session = [c \in Calls |-> FALSE]
  /\ conn = [c \in Calls |-> NoConn]
  /\ aborted = [c \in Calls |-> FALSE]
  /\ stop = [c \in Calls |-> "none"]
  /\ killer = [c \in Calls |-> NoConn]
  /\ work = [c \in Calls |-> "none"]

At(c, l) == pc[c] = l
Goto(c, l) == pc' = [pc EXCEPT ![c] = l]

\* The application calls execute(), or the execute() of a transaction, and asks
\* the pool for a connection.
Call(c, tx) ==
  /\ At(c, "out")
  /\ session' = [session EXCEPT ![c] = tx]
  /\ aborted' = [aborted EXCEPT ![c] = FALSE]
  /\ stop' = [stop EXCEPT ![c] = "none"]
  /\ work' = [work EXCEPT ![c] = "none"]
  /\ Goto(c, "connect")
  /\ queue' = Append(queue, [call |-> c, kill |-> FALSE])
  /\ UNCHANGED <<driver, free, conn, killer>>

\* The pool gives a free connection to the oldest request.
Grant(k) ==
  /\ queue # <<>>
  /\ k \in free
  /\ free' = free \ {k}
  /\ queue' = Tail(queue)
  /\ LET r == Head(queue) IN
     \/ /\ ~r.kill
        /\ conn' = [conn EXCEPT ![r.call] = k]
        /\ Goto(r.call, "start")
        /\ UNCHANGED <<stop, killer>>
     \/ /\ r.kill
        /\ killer' = [killer EXCEPT ![r.call] = k]
        /\ stop' = [stop EXCEPT ![r.call] = "sent"]
        /\ UNCHANGED <<conn, pc>>
  /\ UNCHANGED <<driver, session, aborted, work>>

\* The statement is sent.  cancellable() listens for the abort, unless the
\* signal is aborted already: then it only waits for the statement to end.
Start(c) ==
  /\ At(c, "start")
  /\ Goto(c, IF aborted[c] THEN "late" ELSE "run")
  /\ UNCHANGED <<driver, free, queue, session, conn, aborted, stop, killer, work>>

\* stop(): pgCancel() opens its own socket, mysqlKill() asks the pool.
AskStop(c) ==
  IF driver = "postgres"
  THEN stop' = [stop EXCEPT ![c] = "sent"] /\ UNCHANGED queue
  ELSE /\ stop' = [stop EXCEPT ![c] = "asked"]
       /\ queue' = Append(queue, [call |-> c, kill |-> TRUE])

\* The signal is aborted.
Abort(c) ==
  /\ pc[c] \in {"connect", "start", "run"}
  /\ ~aborted[c]
  /\ aborted' = [aborted EXCEPT ![c] = TRUE]
  /\ IF At(c, "run") THEN AskStop(c) ELSE UNCHANGED <<stop, queue>>
  /\ UNCHANGED <<driver, free, pc, session, conn, killer, work>>

\* The calls whose statement the server runs on connection k.
RunningOn(k) == {c \in Calls : conn[c] = k /\ pc[c] \in {"run", "late", "control"} /\ work[c] = "none"}

\* The server handles the stop request: it interrupts whatever statement runs on
\* the connection, or the request fails, which the call does not report.
Stopped(c) ==
  /\ stop[c] = "sent"
  /\ \/ work' = [d \in Calls |-> IF d \in RunningOn(conn[c]) THEN "interrupted" ELSE work[d]]
     \/ UNCHANGED work
  /\ stop' = [stop EXCEPT ![c] = "done"]
  /\ free' = IF killer[c] = NoConn THEN free ELSE free \cup {killer[c]}
  /\ killer' = [killer EXCEPT ![c] = NoConn]
  /\ UNCHANGED <<driver, queue, pc, session, conn, aborted>>

\* The statement ends by itself.
EndWork(c) ==
  /\ pc[c] \in {"run", "late", "control"}
  /\ work[c] = "none"
  /\ work' = [work EXCEPT ![c] = "ok"]
  /\ UNCHANGED <<driver, free, queue, pc, session, conn, aborted, stop, killer>>

\* The answer of the statement is read; the abort listener is removed.
Settle(c) ==
  /\ pc[c] \in {"run", "late"}
  /\ work[c] # "none"
  /\ Goto(c, "await")
  /\ UNCHANGED <<driver, free, queue, session, conn, aborted, stop, killer, work>>

Release(c) ==
  /\ free' = free \cup {conn[c]}
  /\ conn' = [conn EXCEPT ![c] = NoConn]
  /\ Goto(c, "out")
  /\ UNCHANGED work

\* execute() ends and the pool takes the connection back; a session keeps it and
\* sends the COMMIT or ROLLBACK of its transaction.
Leave(c) ==
  IF session[c]
  THEN /\ Goto(c, "control")
       /\ work' = [work EXCEPT ![c] = "none"]
       /\ UNCHANGED <<free, conn>>
  ELSE Release(c)

\* A faulty cancellable() that does not wait for the stop request.
FinishAtOnce(c) ==
  /\ At(c, "await")
  /\ Leave(c)
  /\ UNCHANGED <<driver, queue, session, aborted, stop, killer>>

\* A faulty call that sends the statement again after its signal was aborted.
FinishAgain(c) ==
  /\ At(c, "await")
  /\ stop[c] \in {"none", "done"}
  /\ IF aborted[c]
     THEN Goto(c, "start") /\ work' = [work EXCEPT ![c] = "none"] /\ UNCHANGED <<free, conn>>
     ELSE Leave(c)
  /\ UNCHANGED <<driver, queue, session, aborted, stop, killer>>

\* subscriberFailure(): the call goes on when its stop request has ended.
Finish(c) ==
  /\ At(c, "await")
  /\ stop[c] \in {"none", "done"}
  /\ Leave(c)
  /\ UNCHANGED <<driver, queue, session, aborted, stop, killer>>

\* The COMMIT or ROLLBACK ends and the session is released.
EndSession(c) ==
  /\ At(c, "control")
  /\ work[c] # "none"
  /\ Release(c)
  /\ UNCHANGED <<driver, queue, session, aborted, stop, killer>>

Next ==
  \/ \E c \in Calls :
       \/ \E tx \in BOOLEAN : Call(c, tx)
       \/ Start(c)
       \/ Abort(c)
       \/ Stopped(c)
       \/ EndWork(c)
       \/ Settle(c)
       \/ Finish(c)
       \/ EndSession(c)
  \/ \E k \in Conns : Grant(k)

Spec == Init /\ [][Next]_vars

\* What a call does with its connection.
Proceed(c) == Start(c) \/ EndWork(c) \/ Settle(c) \/ Finish(c) \/ EndSession(c)

\* Statements and stop requests that reached the server end, the pool serves its
\* queue, and the event loop runs what is ready.
FairSpec ==
  /\ Spec
  /\ WF_vars(\E k \in Conns : Grant(k))
  /\ \A c \in Calls : WF_vars(Proceed(c)) /\ WF_vars(Stopped(c))

-----------------------------------------------------------------------------
(* Properties.                                                             *)

\* Types of the pool and its calls: a connection is idle, held by one call, or
\* held by one KILL QUERY.
TypeOK ==
  /\ \A c, d \in Calls : conn[c] # NoConn => conn[c] \notin free /\ killer[d] # conn[c] /\ (conn[d] = conn[c] => c = d)
  /\ driver \in Drivers
  /\ free \subseteq Conns
  /\ queue \in Seq([call : Calls, kill : BOOLEAN])
  /\ pc \in [Calls -> {"out", "connect", "start", "run", "late", "await", "control"}]
  /\ session \in [Calls -> BOOLEAN]
  /\ conn \in [Calls -> Conns \cup {NoConn}]
  /\ aborted \in [Calls -> BOOLEAN]
  /\ stop \in [Calls -> {"none", "asked", "sent", "done"}]
  /\ killer \in [Calls -> Conns \cup {NoConn}]
  /\ work \in [Calls -> {"none", "ok", "interrupted"}]

\* A stop request interrupts the statement of the aborted call and nothing else:
\* not the statement of the next user of the connection, whose signal is not
\* aborted, and not the COMMIT or ROLLBACK of the same session.
HitsOwnStatement ==
  \A c \in Calls : work[c] = "interrupted" => aborted[c] /\ ~At(c, "control")

\* docs/spec/config.md:29: "cancelling the context or the signal ends the
\* statement in flight with CANCELED while the connection stays usable".  An
\* aborted call ends and gives its connection back.
AbortPending(c) == aborted[c] /\ pc[c] # "out"
AbortedCallEnds == \A c \in Calls : AbortPending(c) ~> At(c, "out")

-----------------------------------------------------------------------------
(* Proofs, for every set of calls and every size of the pool.              *)

\* The types of the fields that are not Boolean.
Fields ==
  /\ driver \in Drivers
  /\ free \subseteq Conns
  /\ pc \in [Calls -> {"out", "connect", "start", "run", "late", "await", "control"}]
  /\ conn \in [Calls -> Conns \cup {NoConn}]
  /\ stop \in [Calls -> {"none", "asked", "sent", "done"}]
  /\ killer \in [Calls -> Conns \cup {NoConn}]
  /\ work \in [Calls -> {"none", "ok", "interrupted"}]

Flags == session \in [Calls -> BOOLEAN] /\ aborted \in [Calls -> BOOLEAN]

\* A connection is idle, held by one call, or held by one KILL QUERY.
Exclusive ==
  /\ \A c \in Calls : conn[c] # NoConn =>
       /\ conn[c] \notin free
       /\ \A d \in Calls : killer[d] # conn[c] /\ (conn[d] = conn[c] => c = d)
  /\ \A c \in Calls : killer[c] # NoConn =>
       /\ killer[c] \notin free
       /\ \A d \in Calls : killer[d] = killer[c] => c = d

\* A request waits for a call that is connecting, or for the KILL QUERY of one whose
\* stop was asked for; no call waits twice.
Queued ==
  /\ queue \in Seq([call : Calls, kill : BOOLEAN])
  /\ \A i \in 1..Len(queue) :
       IF queue[i].kill THEN stop[queue[i].call] = "asked" ELSE pc[queue[i].call] = "connect"
  /\ \A i, j \in 1..Len(queue) : queue[i].call = queue[j].call => i = j

\* A stop request is under way only while the call waits for its own statement or
\* for the request, so the call still holds the connection that it names.
Stopping ==
  \A c \in Calls :
    /\ stop[c] \in {"asked", "sent"} => aborted[c] /\ pc[c] \in {"run", "await"}
    /\ ~aborted[c] => stop[c] = "none"
    /\ killer[c] # NoConn => stop[c] = "sent"
    /\ pc[c] \in {"start", "run", "late", "await", "control"} => conn[c] # NoConn

\* The inductive invariant.
CancelInv == Fields /\ Flags /\ Exclusive /\ Queued /\ Stopping /\ HitsOwnStatement

\* No connection of the pool is the mark for none.
LEMMA NoConnIsNone == NoConn \notin Conns
BY SizeAssumption DEF NoConn, Conns

\* No call is open and every connection is idle.
LEMMA InitCancel == Init => CancelInv
<1> SUFFICES ASSUME Init PROVE CancelInv
  OBVIOUS
<1>1. Flags
  BY Zenon DEF Init, Flags
<1>2. Fields /\ Exclusive /\ HitsOwnStatement
  BY DEF Init, Fields, Exclusive, HitsOwnStatement
<1>3. Queued
  BY DEF Init, Queued
<1>4. Stopping
  BY DEF Init, Stopping
<1> QED
  BY <1>1, <1>2, <1>3, <1>4 DEF CancelInv

\* Every step keeps the flags Boolean.
LEMMA NextFlags == Flags /\ [Next]_vars => Flags'
<1> SUFFICES ASSUME Flags, [Next]_vars PROVE Flags'
  OBVIOUS
<1> USE DEF Flags
<1>1. ASSUME NEW c \in Calls, NEW tx \in BOOLEAN, Call(c, tx) PROVE Flags'
  BY <1>1, Zenon DEF Call
<1>2. ASSUME NEW c \in Calls, Abort(c) PROVE Flags'
  BY <1>2, Zenon DEF Abort
<1>3. ASSUME UNCHANGED <<session, aborted>> PROVE Flags'
  BY <1>3, Zenon
<1>4. ASSUME NEW c \in Calls, Start(c) \/ Stopped(c) \/ EndWork(c) \/ Settle(c) \/ Finish(c) \/ EndSession(c)
      PROVE  UNCHANGED <<session, aborted>>
  BY <1>4 DEF Start, Stopped, EndWork, Settle, Finish, EndSession
<1>5. ASSUME NEW k \in Conns, Grant(k) PROVE UNCHANGED <<session, aborted>>
  BY <1>5 DEF Grant
<1>6. CASE UNCHANGED vars
  BY <1>6, <1>3 DEF vars
<1> QED
  BY <1>1, <1>2, <1>3, <1>4, <1>5, <1>6 DEF Next

\* A request names a call.
LEMMA RequestCalls ==
  ASSUME queue \in Seq([call : Calls, kill : BOOLEAN])
  PROVE  \A i \in 1..Len(queue) : queue[i].call \in Calls
<1> TAKE i \in 1..Len(queue)
<1> DEFINE R == [call : Calls, kill : BOOLEAN]
<1>1. queue \in Seq(R)
  OBVIOUS
<1>2. \A r \in R : r.call \in Calls
  OBVIOUS
<1> HIDE DEF R
<1> QED
  BY <1>1, <1>2

\* A request joins the queue at its end.
LEMMA JoinQueue ==
  ASSUME NEW c \in Calls, NEW b \in BOOLEAN, queue \in Seq([call : Calls, kill : BOOLEAN]),
         queue' = Append(queue, [call |-> c, kill |-> b])
  PROVE  /\ queue' \in Seq([call : Calls, kill : BOOLEAN]) /\ Len(queue') = Len(queue) + 1 /\ Len(queue) \in Nat
         /\ \A i \in 1..Len(queue) : queue'[i] = queue[i]
         /\ queue'[Len(queue) + 1].call = c /\ (queue'[Len(queue) + 1].kill <=> b)
<1>1. [call |-> c, kill |-> b] \in [call : Calls, kill : BOOLEAN]
  BY Zenon
<1> QED
  BY <1>1

\* The oldest request leaves the queue.
LEMMA LeaveQueue ==
  ASSUME queue \in Seq([call : Calls, kill : BOOLEAN]), queue # <<>>, queue' = Tail(queue)
  PROVE  /\ queue' \in Seq([call : Calls, kill : BOOLEAN]) /\ Len(queue') = Len(queue) - 1 /\ Len(queue) \in Nat \ {0}
         /\ \A i \in 1..Len(queue') : queue'[i] = queue[i + 1]
         /\ Head(queue) = queue[1] /\ Head(queue).call \in Calls
<1>1. /\ queue' \in Seq([call : Calls, kill : BOOLEAN]) /\ Len(queue') = Len(queue) - 1 /\ Len(queue) \in Nat \ {0}
      /\ Head(queue) = queue[1]
  OBVIOUS
<1>2. \A i \in 1..Len(queue') : queue'[i] = queue[i + 1]
  BY <1>1
<1> QED
  BY <1>1, <1>2, RequestCalls

\* The call starts without a stop request and waits for a connection once.
LEMMA CallKeeps ==
  ASSUME CancelInv, Flags', NEW c \in Calls, NEW tx \in BOOLEAN, Call(c, tx)
  PROVE  CancelInv'
<1> USE DEF CancelInv
<1>1. /\ pc[c] = "out" /\ pc' = [pc EXCEPT ![c] = "connect"] /\ stop' = [stop EXCEPT ![c] = "none"]
      /\ work' = [work EXCEPT ![c] = "none"] /\ UNCHANGED <<driver, free, conn, killer>>
      /\ queue' = Append(queue, [call |-> c, kill |-> FALSE])
      /\ aborted' = [aborted EXCEPT ![c] = FALSE]
  BY DEF Call, At, Goto
<1>2. Fields'
  BY <1>1 DEF Fields
<1>3. Exclusive'
  BY <1>1 DEF Exclusive
<1>4. \A d \in Calls : d # c => pc'[d] = pc[d] /\ stop'[d] = stop[d] /\ work'[d] = work[d] /\ (aborted'[d] <=> aborted[d])
  BY <1>1 DEF Fields, Flags
<1>5. pc'[c] = "connect" /\ stop'[c] = "none" /\ work'[c] = "none" /\ ~aborted'[c]
  BY <1>1 DEF Fields, Flags
<1>6. Stopping'
  BY <1>1, <1>4, <1>5 DEF Stopping, Fields
<1>7. HitsOwnStatement'
  BY <1>4, <1>5 DEF HitsOwnStatement, At
<1>8. \A i \in 1..Len(queue) : queue[i].call \in Calls /\ queue[i].call # c
  BY <1>1, RequestCalls DEF Queued, Stopping
<1>9. Queued'
  <2>1. /\ queue' \in Seq([call : Calls, kill : BOOLEAN]) /\ Len(queue') = Len(queue) + 1 /\ Len(queue) \in Nat
        /\ \A i \in 1..Len(queue) : queue'[i] = queue[i]
        /\ queue'[Len(queue) + 1].call = c /\ ~queue'[Len(queue) + 1].kill
    BY <1>1, JoinQueue DEF Queued
  <2> QED
    BY <1>4, <1>5, <1>8, <2>1 DEF Queued
<1> QED
  BY <1>2, <1>3, <1>6, <1>7, <1>9

\* The pool gives a connection to the call or to the KILL QUERY that waited longest.
LEMMA GrantKeeps ==
  ASSUME CancelInv, Flags', NEW k \in Conns, Grant(k)
  PROVE  CancelInv'
<1> USE DEF CancelInv
<1> DEFINE c == Head(queue).call
<1>1. /\ queue # <<>> /\ k \in free /\ free' = free \ {k} /\ queue' = Tail(queue)
      /\ UNCHANGED <<driver, aborted, work>>
  BY DEF Grant
<1>2. /\ queue' \in Seq([call : Calls, kill : BOOLEAN]) /\ Len(queue') = Len(queue) - 1 /\ Len(queue) \in Nat \ {0}
      /\ \A i \in 1..Len(queue') : queue'[i] = queue[i + 1]
      /\ Head(queue) = queue[1] /\ c \in Calls
  BY <1>1, LeaveQueue DEF Queued
<1>3. \A i \in 1..Len(queue') : queue'[i].call \in Calls /\ queue'[i].call # c
  <2> TAKE i \in 1..Len(queue')
  <2>1. i + 1 \in 1..Len(queue) /\ 1 \in 1..Len(queue) /\ i + 1 # 1
    BY <1>2
  <2> QED
    BY <1>2, <2>1, RequestCalls DEF Queued
<1>4. k # NoConn
  BY NoConnIsNone
<1>5. CASE ~Head(queue).kill
  <2>1. conn' = [conn EXCEPT ![c] = k] /\ pc' = [pc EXCEPT ![c] = "start"] /\ stop' = stop /\ killer' = killer
    BY <1>5 DEF Grant, Goto
  <2>2. pc[c] = "connect"
    BY <1>2, <1>5 DEF Queued
  <2> HIDE DEF c
  <2>3. Fields' /\ Exclusive'
    BY <1>1, <1>2, <1>4, <2>1 DEF Fields, Exclusive
  <2>4. Stopping' /\ HitsOwnStatement'
    BY <1>1, <1>2, <1>4, <2>1, <2>2 DEF Fields, Stopping, HitsOwnStatement, At
  <2>5. Queued'
    <3>1. \A i \in 1..Len(queue') : i + 1 \in 1..Len(queue)
      BY <1>2
    <3>2. \A i \in 1..Len(queue') :
            IF queue'[i].kill THEN stop'[queue'[i].call] = "asked" ELSE pc'[queue'[i].call] = "connect"
      <4> TAKE i \in 1..Len(queue')
      <4>1. queue'[i] = queue[i + 1] /\ i + 1 \in 1..Len(queue) /\ queue'[i].call \in Calls /\ queue'[i].call # c
        BY <1>2, <1>3, <3>1
      <4>2. IF queue[i + 1].kill THEN stop[queue[i + 1].call] = "asked" ELSE pc[queue[i + 1].call] = "connect"
        BY <4>1 DEF Queued
      <4> QED
        BY <2>1, <4>1, <4>2 DEF Fields
    <3>3. \A i, j \in 1..Len(queue') : queue'[i].call = queue'[j].call => i = j
      BY <1>2, <3>1 DEF Queued
    <3> QED
      BY <1>2, <3>2, <3>3 DEF Queued
  <2> QED
    BY <2>3, <2>4, <2>5
<1>6. CASE Head(queue).kill
  <2>1. killer' = [killer EXCEPT ![c] = k] /\ stop' = [stop EXCEPT ![c] = "sent"] /\ conn' = conn /\ pc' = pc
    BY <1>6 DEF Grant
  <2>2. stop[c] = "asked"
    BY <1>2, <1>6 DEF Queued
  <2> HIDE DEF c
  <2>3. Fields' /\ Exclusive'
    BY <1>1, <1>2, <1>4, <2>1 DEF Fields, Exclusive
  <2>4. Stopping' /\ HitsOwnStatement'
    BY <1>1, <1>2, <1>4, <2>1, <2>2 DEF Fields, Stopping, HitsOwnStatement, At
  <2>5. Queued'
    <3>1. \A i \in 1..Len(queue') : i + 1 \in 1..Len(queue)
      BY <1>2
    <3>2. \A i \in 1..Len(queue') :
            IF queue'[i].kill THEN stop'[queue'[i].call] = "asked" ELSE pc'[queue'[i].call] = "connect"
      <4> TAKE i \in 1..Len(queue')
      <4>1. queue'[i] = queue[i + 1] /\ i + 1 \in 1..Len(queue) /\ queue'[i].call \in Calls /\ queue'[i].call # c
        BY <1>2, <1>3, <3>1
      <4>2. IF queue[i + 1].kill THEN stop[queue[i + 1].call] = "asked" ELSE pc[queue[i + 1].call] = "connect"
        BY <4>1 DEF Queued
      <4> QED
        BY <2>1, <4>1, <4>2 DEF Fields
    <3>3. \A i, j \in 1..Len(queue') : queue'[i].call = queue'[j].call => i = j
      BY <1>2, <3>1 DEF Queued
    <3> QED
      BY <1>2, <3>2, <3>3 DEF Queued
  <2> QED
    BY <2>3, <2>4, <2>5
<1> QED
  BY <1>5, <1>6

\* The abort of a running call asks for one stop.
LEMMA AbortKeeps ==
  ASSUME CancelInv, Flags', NEW c \in Calls, Abort(c)
  PROVE  CancelInv'
<1> USE DEF CancelInv
<1>1. /\ pc[c] \in {"connect", "start", "run"} /\ ~aborted[c] /\ aborted' = [aborted EXCEPT ![c] = TRUE]
      /\ UNCHANGED <<driver, free, pc, conn, killer, work>>
  BY DEF Abort
<1>2. \A d \in Calls : d # c => (aborted'[d] <=> aborted[d])
  BY <1>1 DEF Flags
<1>3. aborted'[c] /\ stop[c] = "none" /\ killer[c] = NoConn
  BY <1>1 DEF Flags, Stopping
<1>4. Exclusive' /\ HitsOwnStatement'
  BY <1>1, <1>2 DEF Exclusive, HitsOwnStatement, At
<1>5. CASE pc[c] # "run"
  <2>1. stop' = stop /\ queue' = queue
    BY <1>5 DEF Abort, At
  <2> QED
    BY <1>1, <1>2, <1>3, <1>4, <2>1 DEF Fields, Stopping, Queued
<1>6. CASE pc[c] = "run"
  <2>1. AskStop(c)
    BY <1>6 DEF Abort, At
  <2>2. CASE driver = "postgres"
    <3>1. stop' = [stop EXCEPT ![c] = "sent"] /\ queue' = queue
      BY <2>1, <2>2 DEF AskStop
    <3>2. Fields' /\ Stopping'
      BY <1>1, <1>2, <1>3, <1>6, <3>1 DEF Fields, Stopping
    <3>3. Queued'
      BY <1>1, <1>3, <3>1 DEF Fields, Queued
    <3> QED
      BY <1>4, <3>2, <3>3
  <2>3. CASE driver # "postgres"
    <3>1. stop' = [stop EXCEPT ![c] = "asked"] /\ queue' = Append(queue, [call |-> c, kill |-> TRUE])
      BY <2>1, <2>3 DEF AskStop
    <3>2. Fields' /\ Stopping'
      BY <1>1, <1>2, <1>3, <1>6, <3>1 DEF Fields, Stopping
    <3>3. \A i \in 1..Len(queue) : queue[i].call \in Calls /\ queue[i].call # c
      BY <1>3, <1>6, RequestCalls DEF Queued
    <3>4. /\ queue' \in Seq([call : Calls, kill : BOOLEAN]) /\ Len(queue') = Len(queue) + 1 /\ Len(queue) \in Nat
          /\ \A i \in 1..Len(queue) : queue'[i] = queue[i]
          /\ queue'[Len(queue) + 1].call = c /\ queue'[Len(queue) + 1].kill
      BY <3>1, JoinQueue DEF Queued
    <3>5. Queued'
      BY <1>1, <3>1, <3>3, <3>4 DEF Queued, Fields
    <3> QED
      BY <1>4, <3>2, <3>5
  <2> QED
    BY <2>2, <2>3
<1> QED
  BY <1>5, <1>6

\* A stop request that the server handles names the connection that its call holds,
\* and nobody else runs a statement there.
LEMMA StoppedKeeps ==
  ASSUME CancelInv, Flags', NEW c \in Calls, Stopped(c)
  PROVE  CancelInv'
<1> USE DEF CancelInv
<1>1. /\ stop[c] = "sent" /\ stop' = [stop EXCEPT ![c] = "done"]
      /\ free' = (IF killer[c] = NoConn THEN free ELSE free \cup {killer[c]})
      /\ killer' = [killer EXCEPT ![c] = NoConn]
      /\ UNCHANGED <<driver, queue, pc, conn, aborted>>
  BY DEF Stopped
<1>2. aborted[c] /\ pc[c] \in {"run", "await"} /\ conn[c] # NoConn
  BY <1>1 DEF Stopping
<1>3. \A d \in RunningOn(conn[c]) : d = c
  BY <1>2 DEF RunningOn, Exclusive
<1>4. /\ work' \in [Calls -> {"none", "ok", "interrupted"}]
      /\ \A d \in Calls : d # c => work'[d] = work[d]
  BY <1>3 DEF Stopped, Fields
<1>5. Fields'
  BY <1>1, <1>4 DEF Fields
<1>6. Exclusive'
  BY <1>1 DEF Fields, Exclusive
<1>7. Stopping' /\ HitsOwnStatement'
  BY <1>1, <1>2, <1>4 DEF Fields, Stopping, HitsOwnStatement, At
<1>8. Queued'
  <2>1. \A i \in 1..Len(queue) : queue[i].kill => queue[i].call # c
    BY <1>1 DEF Queued
  <2> QED
    BY <1>1, <2>1, RequestCalls DEF Queued, Fields
<1> QED
  BY <1>5, <1>6, <1>7, <1>8

\* A call that sends its statement, whose statement ends or whose answer is read.
LEMMA ProceedKeeps ==
  ASSUME CancelInv, Flags', NEW c \in Calls, Start(c) \/ EndWork(c) \/ Settle(c)
  PROVE  CancelInv'
<1> USE DEF CancelInv
<1>1. /\ UNCHANGED <<driver, free, queue, conn, aborted, stop, killer>>
      /\ \/ pc[c] = "start" /\ pc' \in {[pc EXCEPT ![c] = "late"], [pc EXCEPT ![c] = "run"]} /\ work' = work
         \/ pc[c] # "connect" /\ work[c] = "none" /\ work' = [work EXCEPT ![c] = "ok"] /\ pc' = pc
         \/ pc[c] \in {"run", "late"} /\ pc' = [pc EXCEPT ![c] = "await"] /\ work' = work
  BY DEF Start, EndWork, Settle, Goto, At
<1>2. Fields' /\ Exclusive'
  BY <1>1 DEF Fields, Exclusive
<1>3. Stopping' /\ HitsOwnStatement'
  BY <1>1 DEF Fields, Stopping, HitsOwnStatement, At
<1>4. \A d \in Calls : pc[d] = "connect" => pc'[d] = "connect"
  BY <1>1 DEF Fields
<1>5. Queued'
  BY <1>1, <1>4, RequestCalls DEF Queued
<1> QED
  BY <1>2, <1>3, <1>5

\* A call gives its connection back, or goes on to the end of its transaction, when
\* no stop request of it is under way.
LEMMA LeaveKeeps ==
  ASSUME CancelInv, Flags', NEW c \in Calls, Finish(c) \/ EndSession(c)
  PROVE  CancelInv'
<1> USE DEF CancelInv
<1>1. /\ UNCHANGED <<driver, queue, aborted, stop, killer>>
      /\ pc[c] \in {"await", "control"}
      /\ \/ /\ pc' = [pc EXCEPT ![c] = "control"] /\ work' = [work EXCEPT ![c] = "none"]
            /\ pc[c] = "await" /\ stop[c] \in {"none", "done"} /\ free' = free /\ conn' = conn
         \/ /\ pc' = [pc EXCEPT ![c] = "out"] /\ work' = work
            /\ pc[c] = "await" => stop[c] \in {"none", "done"}
            /\ free' = free \cup {conn[c]} /\ conn' = [conn EXCEPT ![c] = NoConn]
  BY DEF Finish, EndSession, Leave, Release, Goto, At
<1>2. conn[c] # NoConn /\ stop[c] \in {"none", "done"} /\ killer[c] = NoConn
  BY <1>1 DEF Stopping, Fields
<1>3. Fields'
  BY <1>1, <1>2 DEF Fields
<1>4. Exclusive'
  BY <1>1, <1>2 DEF Fields, Exclusive
<1>5. Stopping' /\ HitsOwnStatement'
  BY <1>1, <1>2 DEF Fields, Stopping, HitsOwnStatement, At
<1>6. \A d \in Calls : pc[d] = "connect" => pc'[d] = "connect"
  BY <1>1 DEF Fields
<1>7. Queued'
  BY <1>1, <1>6, RequestCalls DEF Queued
<1> QED
  BY <1>3, <1>4, <1>5, <1>7

\* Every step preserves CancelInv.
LEMMA NextCancel == CancelInv /\ [Next]_vars => CancelInv'
<1> SUFFICES ASSUME CancelInv, [Next]_vars PROVE CancelInv'
  OBVIOUS
<1>1. Flags'
  BY NextFlags DEF CancelInv
<1>2. CASE UNCHANGED vars
  BY <1>1, <1>2 DEF vars, CancelInv, Fields, Exclusive, Queued, Stopping, HitsOwnStatement, At
<1> QED
  BY <1>1, <1>2, CallKeeps, GrantKeeps, AbortKeeps, StoppedKeeps, ProceedKeeps, LeaveKeeps DEF Next

\* The inductive invariant holds throughout.
THEOREM CancelKept == Spec => []CancelInv
BY InitCancel, NextCancel, PTL DEF Spec

\* The types, and that a connection is idle, held by one call or held by one KILL
\* QUERY, for any number of calls and connections.
THEOREM ConnectionsAreExclusive == Spec => []TypeOK
<1>1. CancelInv => TypeOK
  BY Zenon DEF CancelInv, Fields, Flags, Exclusive, Queued, TypeOK
<1> QED
  BY <1>1, CancelKept, PTL

\* A stop request interrupts its own call's statement only.
THEOREM StopHitsOwn == Spec => []HitsOwnStatement
<1>1. CancelInv => HitsOwnStatement
  BY DEF CancelInv
<1> QED
  BY <1>1, CancelKept, PTL
=============================================================================

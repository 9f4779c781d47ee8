------------------------------ MODULE Listener ------------------------------
(***************************************************************************)
(* A LISTEN subscription (PostgresListener of listen.ts and listen() of    *)
(* database.ts).  Notifications, the loss of the connection and the abort  *)
(* of the handle's signal arrive as events between the calls of the        *)
(* application, which may call receive() while another receive waits.      *)
(***************************************************************************)
EXTENDS Integers, Sequences, FiniteSets

CONSTANTS
  Receives,       \* the calls of receive()
  Notifications   \* bound on the notifications that arrive

NoReceive == "none"

VARIABLES
  arrived,    \* how many notifications have arrived; they are numbered from 1
  queued,     \* this.queue
  waiter,     \* the receive that this.waiter settles
  closed,     \* this.closed
  failure,    \* this.failure is set
  connection, \* "open", "lost", or how far close() is: "unlisten", "end", "ended"
  aborted,    \* the signal of the handle is aborted
  state,      \* each receive: "new", "waiting", "closing" or its answer
  got         \* the notifications that receives returned, in order

vars == <<arrived, queued, waiter, closed, failure, connection, aborted, state, got>>

Init ==
  /\ arrived = 0
  /\ queued = <<>> /\ got = <<>>
  /\ waiter = NoReceive
  /\ closed = FALSE /\ failure = FALSE /\ aborted = FALSE
  /\ connection = "open"
  /\ state = [r \in Receives |-> "new"]

Answer(r, a) == state' = [state EXCEPT ![r] = a]

\* The 'notification' event.
Notify ==
  /\ connection \in {"open", "unlisten"}
  /\ arrived < Notifications
  /\ arrived' = arrived + 1
  /\ \/ /\ waiter = NoReceive
        /\ queued' = Append(queued, arrived + 1)
        /\ UNCHANGED <<waiter, state, got>>
     \/ /\ waiter # NoReceive
        /\ Answer(waiter, "notified")
        /\ got' = Append(got, arrived + 1)
        /\ waiter' = NoReceive
        /\ UNCHANGED queued
  /\ UNCHANGED <<closed, failure, connection, aborted>>

\* A faulty 'error' event that keeps the error also when a receive took it.
LoseTwice ==
  /\ connection = "open"
  /\ connection' = "lost"
  /\ closed' = TRUE
  /\ failure' = TRUE
  /\ IF waiter = NoReceive THEN UNCHANGED state ELSE Answer(waiter, "lost")
  /\ waiter' = NoReceive
  /\ UNCHANGED <<arrived, queued, aborted, got>>

\* The 'error' event: the connection is lost.
Lose ==
  /\ connection \in {"open", "unlisten"}
  /\ connection' = IF connection = "open" THEN "lost" ELSE "end"
  /\ closed' = TRUE
  /\ \/ /\ waiter # NoReceive
        /\ Answer(waiter, "lost")
        /\ waiter' = NoReceive
        /\ UNCHANGED failure
     \/ /\ waiter = NoReceive
        /\ failure' = TRUE
        /\ UNCHANGED <<state, waiter>>
  /\ UNCHANGED <<arrived, queued, aborted, got>>

\* close(): UNLISTEN *, then end(), whatever the UNLISTEN answers.
BeginClose ==
  IF closed
  THEN UNCHANGED <<closed, connection>>
  ELSE closed' = TRUE /\ connection' = "unlisten"

\* A faulty close() that ends the connection only when UNLISTEN * succeeded.
CloseStepPlain ==
  /\ connection = "unlisten" /\ connection' = "ended"
  /\ UNCHANGED <<arrived, queued, waiter, closed, failure, aborted, state, got>>

CloseStep ==
  /\ \/ connection = "unlisten" /\ connection' = "end"
     \/ connection = "end" /\ connection' = "ended"
  /\ UNCHANGED <<arrived, queued, waiter, closed, failure, aborted, state, got>>

\* A receive whose abort closed the subscription is answered after close().
Cancelled(r) ==
  /\ state[r] = "closing"
  /\ connection \in {"ended", "lost"}
  /\ Answer(r, "canceled")
  /\ UNCHANGED <<arrived, queued, waiter, closed, failure, connection, aborted, got>>

\* A faulty receive() that returns the newest queued notification.
ReceiveNewest(r) ==
  /\ state[r] = "new" /\ ~closed /\ queued # <<>>
  /\ Answer(r, "notified")
  /\ got' = Append(got, queued[Len(queued)])
  /\ queued' = SubSeq(queued, 1, Len(queued) - 1)
  /\ UNCHANGED <<arrived, waiter, closed, failure, connection, aborted>>

\* receive(): a closed subscription fails, with the connection's error once; a
\* queued notification is returned; an aborted signal closes the subscription;
\* otherwise this receive becomes the waiter.
Receive(r) ==
  /\ state[r] = "new"
  /\ \/ /\ closed
        /\ Answer(r, IF failure THEN "lost" ELSE "config")
        /\ failure' = FALSE
        /\ UNCHANGED <<queued, got, waiter, closed, connection>>
     \/ /\ ~closed /\ queued # <<>>
        /\ Answer(r, "notified")
        /\ got' = Append(got, Head(queued))
        /\ queued' = Tail(queued)
        /\ UNCHANGED <<failure, waiter, closed, connection>>
     \/ /\ ~closed /\ queued = <<>> /\ aborted
        /\ Answer(r, "closing")
        /\ BeginClose
        /\ UNCHANGED <<failure, queued, got, waiter>>
     \/ /\ ~closed /\ queued = <<>> /\ ~aborted
        /\ Answer(r, "waiting")
        /\ waiter' = r
        /\ UNCHANGED <<failure, queued, got, closed, connection>>
  /\ UNCHANGED <<arrived, aborted>>

Waiting == {r \in Receives : state[r] = "waiting"}

\* The signal is aborted: every waiting receive has its own abort listener, and
\* the first of them closes the subscription unless it is closed.
Abort ==
  /\ ~aborted
  /\ aborted' = TRUE
  /\ \/ /\ Waiting = {}
        /\ UNCHANGED <<state, waiter, closed, connection>>
     \/ \E first \in Waiting :
          /\ state' = [r \in Receives |->
               IF r = first /\ ~closed THEN "closing" ELSE IF r \in Waiting THEN "canceled" ELSE state[r]]
          /\ waiter' = NoReceive
          /\ BeginClose
  /\ UNCHANGED <<arrived, queued, failure, got>>

\* The application closes the subscription.
Close ==
  /\ ~closed
  /\ BeginClose
  /\ UNCHANGED <<arrived, queued, waiter, failure, aborted, state, got>>

Next ==
  \/ Notify
  \/ Lose
  \/ CloseStep
  \/ Abort
  \/ Close
  \/ \E r \in Receives : Receive(r) \/ Cancelled(r)

Spec == Init /\ [][Next]_vars

\* close() ends, and the receives that wait for its end are answered.
FairSpec == Spec /\ WF_vars(CloseStep) /\ \A r \in Receives : WF_vars(Cancelled(r))

-----------------------------------------------------------------------------
(* Properties.                                                             *)

\* Types of the subscription; the waiter is a receive that waits.
TypeOK ==
  /\ arrived \in 0..Notifications
  /\ queued \in Seq(1..Notifications) /\ got \in Seq(1..Notifications)
  /\ waiter \in Waiting \cup {NoReceive}
  /\ {closed, failure, aborted} \subseteq BOOLEAN
  /\ connection \in {"open", "lost", "unlisten", "end", "ended"}
  /\ state \in [Receives -> {"new", "waiting", "closing", "notified", "lost", "config", "canceled"}]

\* docs/spec/dialects.md:434: "Notifications that arrive while no receive is
\* pending are kept in arrival order": none is lost, returned twice or returned
\* out of order, whatever the order of receives, aborts and connection errors.
InArrivalOrder == got \o queued = [i \in 1..arrived |-> i]

\* docs/spec/dialects.md:434: "A lost connection ends the subscription with
\* CONNECTION_LOST": one receive reports the loss, the one that waited or else
\* the next one that is called, and every other receive fails with CONFIG.
LossReportedOnce ==
  LET reports == {r \in Receives : state[r] = "lost"} IN
  /\ Cardinality(reports) <= 1
  /\ connection = "lost" => (failure <=> reports = {})

\* docs/spec/dialects.md:435: a cancelled receive "fails with CANCELED and closes
\* the subscription", also when the UNLISTEN of that close fails.
ClosedAfterCancel(r) == state[r] = "canceled" /\ closed /\ connection \in {"ended", "lost"}
Closing(r) == state[r] = "closing"
CancelEnds == \A r \in Receives : Closing(r) ~> ClosedAfterCancel(r)

\* What the properties rest on, preserved by every step: nothing is queued while a
\* receive waits, the subscription is closed once its connection is not open, and
\* only a lost connection leaves an error or a receive that reports one.
ListenInv ==
  /\ TypeOK /\ InArrivalOrder /\ LossReportedOnce
  /\ waiter # NoReceive => queued = <<>>
  /\ closed <=> connection # "open"
  /\ connection \in {"open", "unlisten"} => ~failure
  /\ connection \in {"open", "unlisten"} \/ failure => \A r \in Receives : state[r] # "lost"
  /\ \A r, q \in Receives : state[r] = "lost" /\ state[q] = "lost" => r = q
=============================================================================

---------------------------- MODULE MarkdownPool ----------------------------
(***************************************************************************)
(* The session pool of a markdown connection (MarkdownPool of markdown.ts). *)
(* acquire() runs without a pause from its last wait to the count of the   *)
(* session it hands out; between two pauses of one call any other call,    *)
(* release, abort or close may run.  Sessions are counted, not named.      *)
(***************************************************************************)
EXTENDS Integers, Sequences, FiniteSets

CONSTANTS
  Calls,     \* the calls of acquire() that can be open
  Size,      \* bounds.size
  IdleSize   \* bounds.idleSize

ASSUME BoundsAssumption == Size \in Nat \ {0} /\ IdleSize \in Nat
ASSUME CallsAssumption == IsFiniteSet(Calls)

VARIABLES
  idle, open, inUse,   \* the counts of the pool
  closed,
  waiters,   \* the calls that wait, oldest first
  ready,     \* the woken calls that have not run yet, in order
  pc,        \* where each call is; "held" has a session
  aborted    \* the signal of the call is aborted

counts == <<idle, open, inUse>>
vars == <<counts, closed, waiters, ready, pc, aborted>>

Init ==
  /\ idle = 0 /\ open = 0 /\ inUse = 0
  /\ closed = FALSE
  /\ waiters = <<>>
  /\ ready = <<>>
  /\ pc = [t \in Calls |-> "out"]
  /\ aborted = [t \in Calls |-> FALSE]

\* A faulty acquire() that forgets to count the expired sessions it closes.
HandOutExpired(t) ==
  \E k \in 0..idle :
    /\ inUse' = inUse + 1
    /\ IF k < idle
       THEN idle' = idle - k - 1 /\ UNCHANGED open /\ pc' = [pc EXCEPT ![t] = "held"]
       ELSE idle' = 0 /\ open' = open + 1 /\ pc' = [pc EXCEPT ![t] = "dial"]

\* Hands out an idle session, after closing the k broken or expired ones that
\* were returned after it, or starts to connect a new one when none is left.
HandOut(t) ==
  \E k \in 0..idle :
    /\ inUse' = inUse + 1
    /\ IF k < idle
       THEN /\ idle' = idle - k - 1
            /\ open' = open - k
            /\ pc' = [pc EXCEPT ![t] = "held"]
       ELSE /\ idle' = 0
            /\ open' = open - k + 1
            /\ pc' = [pc EXCEPT ![t] = "dial"]

Leave(t) == pc' = [pc EXCEPT ![t] = "out"] /\ UNCHANGED <<counts, waiters>>

Wait(t) ==
  /\ pc' = [pc EXCEPT ![t] = "wait"]
  /\ waiters' = Append(waiters, t)
  /\ UNCHANGED counts

\* acquire() up to its next pause.
Enter(t, cancel) ==
  \/ closed /\ Leave(t)
  \/ ~closed /\ inUse >= Size /\ cancel /\ Leave(t)
  \/ ~closed /\ inUse >= Size /\ ~cancel /\ Wait(t)
  \/ ~closed /\ inUse < Size /\ HandOut(t) /\ UNCHANGED waiters

\* A call of acquire(); its signal may be aborted already.
Acquire(t, cancel) ==
  /\ pc[t] = "out"
  /\ aborted' = [aborted EXCEPT ![t] = cancel]
  /\ Enter(t, cancel)
  /\ UNCHANGED <<closed, ready>>

\* A woken call looks at the pool again.
Resume(t) ==
  /\ ready # <<>> /\ t = Head(ready)
  /\ ready' = Tail(ready)
  /\ Enter(t, aborted[t])
  /\ UNCHANGED <<closed, aborted>>

\* wakeOne(), while the call t moves to l.
WakeOne(t, l) ==
  \/ /\ waiters = <<>>
     /\ pc' = [pc EXCEPT ![t] = l]
     /\ UNCHANGED <<waiters, ready>>
  \/ /\ waiters # <<>>
     /\ waiters' = Tail(waiters)
     /\ ready' = Append(ready, Head(waiters))
     /\ pc' = [pc EXCEPT ![t] = l, ![Head(waiters)] = "woken"]

Dialed(t) ==
  /\ pc[t] = "dial"
  /\ pc' = [pc EXCEPT ![t] = "held"]
  /\ UNCHANGED <<counts, closed, waiters, ready, aborted>>

\* A faulty acquire() that gives up a session that does not connect silently.
DialFailedSilent(t) ==
  /\ pc[t] = "dial"
  /\ open' = open - 1
  /\ inUse' = inUse - 1
  /\ pc' = [pc EXCEPT ![t] = "out"]
  /\ UNCHANGED <<idle, closed, waiters, ready, aborted>>

\* The new session does not connect, or its signal is aborted meanwhile.
DialFailed(t) ==
  /\ pc[t] = "dial"
  /\ open' = open - 1
  /\ inUse' = inUse - 1
  /\ WakeOne(t, "out")
  /\ UNCHANGED <<idle, closed, aborted>>

\* The session comes back: a broken one, one of a closed pool and one that the
\* pool need not keep are closed.
Release(t, broken) ==
  /\ pc[t] = "held"
  /\ inUse' = inUse - 1
  /\ IF broken \/ closed \/ idle >= IdleSize
     THEN open' = open - 1 /\ UNCHANGED idle
     ELSE idle' = idle + 1 /\ UNCHANGED open
  /\ WakeOne(t, "out")
  /\ UNCHANGED <<closed, aborted>>

Without(s, i) == [n \in 1..(Len(s) - 1) |-> s[IF n < i THEN n ELSE n + 1]]

\* An abort takes a waiting call out of the queue; a woken one goes on.
Abort(t) ==
  /\ pc[t] \in {"wait", "woken", "dial"}
  /\ ~aborted[t]
  /\ aborted' = [aborted EXCEPT ![t] = TRUE]
  /\ IF pc[t] = "wait"
     THEN /\ \E i \in DOMAIN waiters : waiters[i] = t /\ waiters' = Without(waiters, i)
          /\ pc' = [pc EXCEPT ![t] = "out"]
     ELSE UNCHANGED <<waiters, pc>>
  /\ UNCHANGED <<counts, closed, ready>>

\* A faulty close() that leaves the waiting calls where they are.
CloseSilent ==
  /\ ~closed
  /\ closed' = TRUE
  /\ open' = open - idle
  /\ idle' = 0
  /\ UNCHANGED <<inUse, waiters, ready, pc, aborted>>

\* close() closes the idle sessions and wakes every waiting call.
Close ==
  /\ ~closed
  /\ closed' = TRUE
  /\ open' = open - idle
  /\ idle' = 0
  /\ waiters' = <<>>
  /\ ready' = ready \o waiters
  /\ pc' = [t \in Calls |-> IF pc[t] = "wait" THEN "woken" ELSE pc[t]]
  /\ UNCHANGED <<inUse, aborted>>

Next ==
  \/ \E t \in Calls :
       \/ \E cancel \in BOOLEAN : Acquire(t, cancel)
       \/ Resume(t)
       \/ Dialed(t)
       \/ DialFailed(t)
       \/ \E broken \in BOOLEAN : Release(t, broken)
       \/ Abort(t)
  \/ Close

Spec == Init /\ [][Next]_vars

\* What a call does once it has a place in the pool.
Proceed(t) == Dialed(t) \/ DialFailed(t) \/ \E broken \in BOOLEAN : Release(t, broken)

\* The event loop runs the woken calls, connecting ends and sessions come back.
FairSpec ==
  /\ Spec
  /\ WF_vars(\E t \in Calls : Resume(t))
  /\ \A t \in Calls : WF_vars(Proceed(t))

-----------------------------------------------------------------------------
(* Properties.                                                             *)

\* Types of the fields of MarkdownPool: the counts stay natural numbers, so no
\* path of acquire() and release() gives a session back twice.
TypeOK ==
  /\ idle \in Nat /\ open \in Nat /\ inUse \in Nat
  /\ closed \in BOOLEAN
  /\ waiters \in Seq(Calls)
  /\ ready \in Seq(Calls)
  /\ pc \in [Calls -> {"out", "wait", "woken", "dial", "held"}]
  /\ aborted \in [Calls -> BOOLEAN]

\* The counts of stats() are exact: every open session is in use or idle, the
\* pool never opens more than bounds.size, and keeps at most bounds.idleSize.
Accounted == open = inUse + idle /\ open <= Size /\ idle <= IdleSize

\* No wake-up is lost: while a call waits in an open pool, the sessions in use
\* and the woken calls that have not run yet account for every place, so the
\* next release or the next woken call finds the oldest waiter.
NoLostWaiter == waiters # <<>> => ~closed /\ inUse + Len(ready) >= Size

\* The calls that hold a place of the pool, and where the queued calls are: what
\* the counts and the wake-ups rest on, preserved by every step.
Users == {t \in Calls : pc[t] \in {"dial", "held"}}

Queued(s, l) ==
  /\ \A i \in DOMAIN s : pc[s[i]] = l
  /\ \A i, j \in DOMAIN s : s[i] = s[j] => i = j

Inv ==
  /\ TypeOK /\ Accounted /\ NoLostWaiter
  /\ inUse = Cardinality(Users)
  /\ Queued(waiters, "wait") /\ Queued(ready, "woken")

\* Once no new calls of acquire() come in, every call that waits goes on; a
\* stream of new calls may overtake it, since acquire() looks before it waits.
EveryWaiterServed ==
  <>[][\A t \in Calls, cancel \in BOOLEAN : ~Acquire(t, cancel)]_vars
    => \A t \in Calls : pc[t] = "wait" ~> pc[t] # "wait"
=============================================================================

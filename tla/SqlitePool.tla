----------------------------- MODULE SqlitePool -----------------------------
(***************************************************************************)
(* The pool over the one SQLite connection (SqlitePoolDriver of driver.ts). *)
(* reserve() takes the connection for a transaction or session, execute()  *)
(* runs one statement; both first await idle(), which waits while the      *)
(* connection is busy.  JavaScript runs one continuation at a time: a      *)
(* continuation that becomes ready goes to the end of the queue, and the   *)
(* application's own code runs between any two of them.                    *)
(***************************************************************************)
EXTENDS Integers, Sequences, SequencesExt, SequenceTheorems, TLAPS

CONSTANTS Calls   \* the calls of reserve() and execute() that can be open

VARIABLES
  busy,      \* state.busy
  waiters,   \* the calls that wait in idle(), oldest first
  queue,     \* the calls whose continuation is ready, in order
  pc,        \* where each call is
  kind,      \* "reserve" or "execute"
  aborted,   \* the signal of the call is aborted
  result     \* how the call ended: "ran", "canceled", or "none"

vars == <<busy, waiters, queue, pc, kind, aborted, result>>

Init ==
  /\ busy = FALSE
  /\ waiters = <<>>
  /\ queue = <<>>
  /\ pc = [t \in Calls |-> "out"]
  /\ kind = [t \in Calls |-> "execute"]
  /\ aborted = [t \in Calls |-> FALSE]
  /\ result = [t \in Calls |-> "none"]

Goto(t, l) == pc' = [pc EXCEPT ![t] = l]

End(t, r) == Goto(t, "out") /\ result' = [result EXCEPT ![t] = r]

\* The loop of idle(): wait for the connection, or return to the caller, whose
\* continuation is ready after those that are ready now.
Idle(t, rest) ==
  IF busy
  THEN /\ Goto(t, "wait")
       /\ waiters' = Append(waiters, t)
       /\ queue' = rest
  ELSE /\ Goto(t, "take")
       /\ queue' = Append(rest, t)
       /\ UNCHANGED waiters

\* The application calls reserve() or execute().
Call(t, k) ==
  /\ pc[t] = "out"
  /\ kind' = [kind EXCEPT ![t] = k]
  /\ aborted' = [aborted EXCEPT ![t] = FALSE]
  /\ result' = [result EXCEPT ![t] = "none"]
  /\ Idle(t, queue)
  /\ UNCHANGED busy

\* A woken call goes through the loop of idle() again.
Check(t) ==
  /\ queue # <<>> /\ t = Head(queue)
  /\ pc[t] = "check"
  /\ IF busy /\ aborted[t]
     THEN End(t, "canceled") /\ queue' = Tail(queue) /\ UNCHANGED waiters
     ELSE Idle(t, Tail(queue)) /\ UNCHANGED result
  /\ UNCHANGED <<busy, kind, aborted>>

\* A faulty execute() that reads the signal only before it waits.
TakeUnchecked(t) ==
  /\ queue # <<>> /\ t = Head(queue)
  /\ pc[t] = "take"
  /\ queue' = Tail(queue)
  /\ IF kind[t] = "reserve" THEN busy' = TRUE /\ Goto(t, "session") /\ UNCHANGED result
                            ELSE End(t, "ran") /\ UNCHANGED busy
  /\ UNCHANGED <<waiters, kind, aborted>>

\* After idle(): reserve() takes the connection, execute() runs its statement.
Take(t) ==
  /\ queue # <<>> /\ t = Head(queue)
  /\ pc[t] = "take"
  /\ queue' = Tail(queue)
  /\ \/ /\ kind[t] = "reserve"
        /\ busy' = TRUE
        /\ Goto(t, "session")
        /\ UNCHANGED result
     \/ /\ kind[t] = "execute"
        /\ End(t, IF aborted[t] THEN "canceled" ELSE "ran")
        /\ UNCHANGED busy
  /\ UNCHANGED <<waiters, kind, aborted>>

\* A faulty release() that wakes the oldest waiter only.
ReleaseOne(t) ==
  /\ pc[t] = "session"
  /\ busy' = FALSE
  /\ waiters' = IF waiters = <<>> THEN <<>> ELSE Tail(waiters)
  /\ queue' = IF waiters = <<>> THEN queue ELSE Append(queue, Head(waiters))
  /\ pc' = [c \in Calls |-> IF c = t THEN "out"
                            ELSE IF waiters # <<>> /\ c = Head(waiters) THEN "check" ELSE pc[c]]
  /\ UNCHANGED <<kind, aborted, result>>

\* The session ends: every waiter is woken.
Release(t) ==
  /\ pc[t] = "session"
  /\ busy' = FALSE
  /\ waiters' = <<>>
  /\ queue' = queue \o waiters
  /\ pc' = [c \in Calls |-> IF c = t THEN "out" ELSE IF Contains(waiters, c) THEN "check" ELSE pc[c]]
  /\ UNCHANGED <<kind, aborted, result>>

\* The signal of a statement is aborted; a waiting one is rejected at once.
Abort(t) ==
  /\ pc[t] \in {"wait", "check", "take"}
  /\ kind[t] = "execute"
  /\ ~aborted[t]
  /\ aborted' = [aborted EXCEPT ![t] = TRUE]
  /\ IF pc[t] = "wait"
     THEN End(t, "canceled") /\ waiters' = RemoveFirst(waiters, t)
     ELSE UNCHANGED <<pc, result, waiters>>
  /\ UNCHANGED <<busy, queue, kind>>

Run(t) == Check(t) \/ Take(t)

Next ==
  \E t \in Calls :
    \/ \E k \in {"reserve", "execute"} : Call(t, k)
    \/ Run(t)
    \/ Release(t)
    \/ Abort(t)

Spec == Init /\ [][Next]_vars

\* The event loop runs what is ready, and sessions end.
FairSpec == Spec /\ WF_vars(\E t \in Calls : Run(t)) /\ \A t \in Calls : WF_vars(Release(t))

-----------------------------------------------------------------------------
(* Properties.                                                             *)

\* Types of the driver and its calls: `waiters` holds each call suspended in
\* idle() once, and the queue each call whose continuation is due.
TypeOK ==
  /\ busy \in BOOLEAN
  /\ pc \in [Calls -> {"out", "wait", "check", "take", "session"}]
  /\ kind \in [Calls -> {"reserve", "execute"}]
  /\ aborted \in [Calls -> BOOLEAN]
  /\ result \in [Calls -> {"none", "ran", "canceled"}]
  /\ waiters \in Seq(Calls) /\ IsInjective(waiters) /\ Range(waiters) = {t \in Calls : pc[t] = "wait"}
  /\ queue \in Seq(Calls) /\ IsInjective(queue) /\ Range(queue) = {t \in Calls : pc[t] \in {"check", "take"}}

\* No wake-up is lost: a call waits only while a session is open whose release
\* will wake it, whatever was woken, aborted or called in between.
NoLostWaiter == waiters # <<>> => busy /\ \E t \in Calls : pc[t] = "session"

\* A statement whose signal was aborted while it waited, also after it was
\* woken, does not run.
AbortedNeverRuns == \A t \in Calls : aborted[t] => result[t] # "ran"

\* Every call that waits for the connection goes on.
Waits(t) == pc[t] = "wait"
EveryWaiterServed == \A t \in Calls : Waits(t) ~> ~Waits(t)

\* src/packages/ts/src/driver.ts:770: reserve() "Takes the one SQLite connection
\* when no transaction or session uses it."
OneSession == \A t, u \in Calls : pc[t] = "session" /\ pc[u] = "session" => t = u

-----------------------------------------------------------------------------
(* Proofs, for every set of calls.                                         *)

\* A call that joins a list at its end is in it once.
LEMMA AppendOnce ==
  ASSUME NEW S, NEW s \in Seq(S), IsInjective(s), NEW t \in S, t \notin Range(s)
  PROVE  /\ Append(s, t) \in Seq(S) /\ IsInjective(Append(s, t))
         /\ Range(Append(s, t)) = Range(s) \cup {t}
BY DEF IsInjective, Range

\* The first call leaves a list: the others stay, each once.
LEMMA TailOnce ==
  ASSUME NEW S, NEW s \in Seq(S), IsInjective(s), s # <<>>
  PROVE  /\ Tail(s) \in Seq(S) /\ IsInjective(Tail(s)) /\ Head(s) \in Range(s)
         /\ Range(Tail(s)) = Range(s) \ {Head(s)}
<1>1. /\ Tail(s) \in Seq(S) /\ Len(s) \in Nat \ {0} /\ Len(Tail(s)) = Len(s) - 1
      /\ Head(s) = s[1] /\ DOMAIN s = 1..Len(s) /\ DOMAIN Tail(s) = 1..(Len(s) - 1)
      /\ \A j \in 1..(Len(s) - 1) : Tail(s)[j] = s[j + 1]
  OBVIOUS
<1>2. IsInjective(Tail(s)) /\ Head(s) \in Range(s)
  BY <1>1 DEF IsInjective, Range
<1>3. ASSUME NEW x \in Range(Tail(s)) PROVE x \in Range(s) \ {Head(s)}
  BY <1>1, <1>3 DEF IsInjective, Range
<1>4. ASSUME NEW x \in Range(s) \ {Head(s)} PROVE x \in Range(Tail(s))
  <2>1. PICK i \in 2..Len(s) : s[i] = x
    BY <1>1, <1>4 DEF Range
  <2>2. i - 1 \in 1..(Len(s) - 1) /\ Tail(s)[i - 1] = x
    BY <1>1, <2>1
  <2> QED
    BY <1>1, <2>2 DEF Range
<1> QED
  BY <1>1, <1>2, <1>3, <1>4

\* Two lists without a common call, one after the other.
LEMMA ConcatOnce ==
  ASSUME NEW S, NEW s \in Seq(S), NEW q \in Seq(S), IsInjective(s), IsInjective(q),
         Range(s) \cap Range(q) = {}
  PROVE  /\ s \o q \in Seq(S) /\ IsInjective(s \o q)
         /\ Range(s \o q) = Range(s) \cup Range(q)
<1>1. /\ s \o q \in Seq(S) /\ Len(s) \in Nat /\ Len(q) \in Nat
      /\ DOMAIN s = 1..Len(s) /\ DOMAIN q = 1..Len(q) /\ DOMAIN (s \o q) = 1..(Len(s) + Len(q))
      /\ \A j \in 1..Len(s) : (s \o q)[j] = s[j]
      /\ \A j \in 1..(Len(s) + Len(q)) : j > Len(s) => (s \o q)[j] = q[j - Len(s)]
  OBVIOUS
<1>2. IsInjective(s \o q)
  <2> SUFFICES ASSUME NEW a \in 1..(Len(s) + Len(q)), NEW b \in 1..(Len(s) + Len(q)),
                      (s \o q)[a] = (s \o q)[b]
               PROVE  a = b
    BY <1>1 DEF IsInjective
  <2>1. CASE a <= Len(s) /\ b <= Len(s)
    BY <1>1, <2>1 DEF IsInjective
  <2>2. CASE a > Len(s) /\ b > Len(s)
    <3>1. a - Len(s) \in 1..Len(q) /\ b - Len(s) \in 1..Len(q)
      BY <1>1, <2>2
    <3> QED
      BY <1>1, <2>2, <3>1 DEF IsInjective
  <2>3. ASSUME NEW i \in 1..Len(s), NEW j \in 1..Len(q) PROVE s[i] # q[j]
    BY <1>1 DEF Range
  <2>4. CASE a <= Len(s) /\ b > Len(s)
    BY <1>1, <2>3, <2>4
  <2>5. CASE a > Len(s) /\ b <= Len(s)
    BY <1>1, <2>3, <2>5
  <2> QED
    BY <1>1, <2>1, <2>2, <2>4, <2>5
<1>3. ASSUME NEW x \in Range(s \o q) PROVE x \in Range(s) \cup Range(q)
  <2>1. PICK j \in 1..(Len(s) + Len(q)) : x = (s \o q)[j]
    BY <1>1 DEF Range
  <2>2. CASE j <= Len(s)
    BY <1>1, <2>1, <2>2 DEF Range
  <2>3. CASE j > Len(s)
    <3>1. j - Len(s) \in 1..Len(q) /\ x = q[j - Len(s)]
      BY <1>1, <2>1, <2>3
    <3> QED
      BY <1>1, <3>1 DEF Range
  <2> QED
    BY <1>1, <2>2, <2>3
<1>4. ASSUME NEW x \in Range(s) \cup Range(q) PROVE x \in Range(s \o q)
  <2>1. CASE x \in Range(s)
    BY <1>1, <2>1 DEF Range
  <2>2. CASE x \in Range(q)
    <3>1. PICK j \in 1..Len(q) : x = q[j]
      BY <1>1, <2>2 DEF Range
    <3>2. Len(s) + j \in 1..(Len(s) + Len(q)) /\ (s \o q)[Len(s) + j] = x
      BY <1>1, <3>1
    <3> QED
      BY <1>1, <3>2 DEF Range
  <2> QED
    BY <1>4, <2>1, <2>2
<1> QED
  BY <1>1, <1>2, <1>3, <1>4

\* indexOf() and splice(): one call leaves a list, the others stay, each once.
LEMMA RemoveOnce ==
  ASSUME NEW S, NEW s \in Seq(S), IsInjective(s), NEW t \in Range(s)
  PROVE  /\ RemoveFirst(s, t) \in Seq(S) /\ IsInjective(RemoveFirst(s, t))
         /\ Range(RemoveFirst(s, t)) = Range(s) \ {t}
<1>1. PICK i \in 1..Len(s) : s[i] = t
  BY DEF Range
<1>2. RemoveFirst(s, t) = RemoveAt(s, i)
  BY <1>1 DEF RemoveFirst, SelectInSeq, Min, IsInjective
<1>a. Len(s) \in Nat /\ DOMAIN s = 1..Len(s) /\ s \in Seq(S)
  OBVIOUS
<1> DEFINE p == SubSeq(s, 1, i - 1)
           q == SubSeq(s, i + 1, Len(s))
<1>b. p \in Seq(S) /\ Len(p) = i - 1 /\ \A j \in 1..(i - 1) : p[j] = s[j]
  <2>1. 1 \in Int /\ i - 1 \in Int /\ \A j \in 1..(i - 1) : s[j] \in S
    BY <1>1, <1>a
  <2>2. /\ p \in Seq(S) /\ Len(p) = (IF 1 <= i - 1 THEN (i - 1) - 1 + 1 ELSE 0)
        /\ \A j \in 1..((i - 1) - 1 + 1) : p[j] = s[1 + j - 1]
    BY <2>1, SubSeqProperties
  <2> HIDE DEF p
  <2> QED
    BY <1>1, <1>a, <2>2
<1>c. q \in Seq(S) /\ Len(q) = Len(s) - i /\ \A j \in 1..(Len(s) - i) : q[j] = s[i + j]
  <2>1. i + 1 \in Int /\ Len(s) \in Int /\ \A j \in (i + 1)..Len(s) : s[j] \in S
    BY <1>1, <1>a
  <2>2. /\ q \in Seq(S) /\ Len(q) = (IF i + 1 <= Len(s) THEN Len(s) - (i + 1) + 1 ELSE 0)
        /\ \A j \in 1..(Len(s) - (i + 1) + 1) : q[j] = s[(i + 1) + j - 1]
    BY <2>1, SubSeqProperties
  <2> HIDE DEF q
  <2>3. Len(q) = Len(s) - i
    <3>1. i \in Int /\ i <= Len(s)
      BY <1>1, <1>a
    <3>2. CASE i + 1 <= Len(s)
      BY <3>1, <3>2, <1>a, <2>2
    <3>3. CASE i = Len(s)
      BY <3>1, <3>3, <1>a, <2>2
    <3>4. \A n \in Nat : \A m \in 1..n : m + 1 <= n \/ m = n
      OBVIOUS
    <3> QED
      BY <3>2, <3>3, <3>4, <1>1, <1>a
  <2>4. ASSUME NEW j \in 1..(Len(s) - i) PROVE q[j] = s[i + j]
    <3>1. j \in 1..(Len(s) - (i + 1) + 1) /\ (i + 1) + j - 1 = i + j
      BY <1>1, <1>a
    <3> QED
      BY <3>1, <2>2
  <2> QED
    BY <2>2, <2>3, <2>4
<1>d. RemoveAt(s, i) = p \o q
  BY DEF RemoveAt
<1> HIDE DEF p, q
<1>3. RemoveAt(s, i) \in Seq(S) /\ Len(RemoveAt(s, i)) = Len(s) - 1
  <2>1. p \o q \in Seq(S) /\ Len(p \o q) = Len(p) + Len(q)
    BY <1>b, <1>c, ConcatProperties
  <2> QED
    BY <1>1, <1>a, <1>b, <1>c, <1>d, <2>1
<1>4. \A j \in 1..(Len(s) - 1) : RemoveAt(s, i)[j] = IF j < i THEN s[j] ELSE s[j + 1]
  BY <1>1, <1>a, <1>b, <1>c, <1>d, ConcatProperties
<1>5. IsInjective(RemoveAt(s, i))
  BY <1>1, <1>a, <1>3, <1>4 DEF IsInjective
<1>6. ASSUME NEW x \in Range(RemoveAt(s, i)) PROVE x \in Range(s) \ {t}
  BY <1>1, <1>a, <1>3, <1>4 DEF Range, IsInjective
<1>7. ASSUME NEW x \in Range(s) \ {t} PROVE x \in Range(RemoveAt(s, i))
  <2>1. PICK j \in 1..Len(s) : s[j] = x /\ j # i
    BY <1>1, <1>a, <1>7 DEF Range
  <2>2. CASE j < i
    <3>1. j \in 1..(Len(s) - 1) /\ RemoveAt(s, i)[j] = x
      BY <1>1, <1>a, <1>4, <2>1, <2>2
    <3> QED
      BY <1>3, <1>a, <3>1 DEF Range
  <2>3. CASE j > i
    <3>1. j - 1 \in 1..(Len(s) - 1) /\ RemoveAt(s, i)[j - 1] = x
      BY <1>1, <1>a, <1>4, <2>1, <2>3
    <3> QED
      BY <1>3, <1>a, <3>1 DEF Range
  <2> QED
    BY <1>1, <1>a, <2>1, <2>2, <2>3
<1> QED
  BY <1>2, <1>3, <1>5, <1>6, <1>7

\* The types of the driver's fields and calls.
Fields ==
  /\ pc \in [Calls -> {"out", "wait", "check", "take", "session"}]
  /\ kind \in [Calls -> {"reserve", "execute"}]
  /\ result \in [Calls -> {"none", "ran", "canceled"}]

\* The lists hold each call once, as its place in idle() says.
Lists ==
  /\ waiters \in Seq(Calls) /\ IsInjective(waiters) /\ Range(waiters) = {t \in Calls : pc[t] = "wait"}
  /\ queue \in Seq(Calls) /\ IsInjective(queue) /\ Range(queue) = {t \in Calls : pc[t] \in {"check", "take"}}

Flags == busy \in BOOLEAN /\ aborted \in [Calls -> BOOLEAN]

\* The inductive invariant.  busy names a session that is open, which its release()
\* unsets; several sessions can be open at once, and the first release unsets it
\* for all of them.  A call that has not ended has not run.
PoolInv ==
  /\ TypeOK
  /\ NoLostWaiter
  /\ busy => \E t \in Calls : pc[t] = "session"
  /\ \A t \in Calls : pc[t] # "out" => result[t] = "none"
  /\ AbortedNeverRuns

\* They are the parts of TypeOK, before and after a step.
LEMMA TypeParts ==
  /\ TypeOK <=> Fields /\ Lists /\ Flags
  /\ TypeOK' <=> Fields' /\ Lists' /\ Flags'
BY Zenon DEF TypeOK, Fields, Lists, Flags

\* The pool starts without calls.
LEMMA InitPool == Init => PoolInv
<1> SUFFICES ASSUME Init PROVE PoolInv
  OBVIOUS
<1>1. Flags
  BY Zenon DEF Init, Flags
<1>2. Fields
  BY DEF Init, Fields
<1>3. Lists
  BY DEF Init, Lists, IsInjective, Range
<1> QED
  BY <1>1, <1>2, <1>3, TypeParts DEF Init, PoolInv, NoLostWaiter, AbortedNeverRuns

\* Every step keeps busy and the signals Boolean.
LEMMA NextFlags == Flags /\ [Next]_vars => Flags'
<1> SUFFICES ASSUME Flags, [Next]_vars PROVE Flags'
  OBVIOUS
<1> USE DEF Flags
<1>1. ASSUME NEW t \in Calls, NEW kk \in {"reserve", "execute"}, Call(t, kk) PROVE Flags'
  BY <1>1, Zenon DEF Call
<1>2. ASSUME NEW t \in Calls, Check(t) PROVE Flags'
  BY <1>2, Zenon DEF Check
<1>3. ASSUME NEW t \in Calls, Take(t) PROVE Flags'
  BY <1>3, Zenon DEF Take
<1>4. ASSUME NEW t \in Calls, Release(t) PROVE Flags'
  BY <1>4, Zenon DEF Release
<1>5. ASSUME NEW t \in Calls, Abort(t) PROVE Flags'
  BY <1>5, Zenon DEF Abort
<1>6. CASE UNCHANGED vars
  BY <1>6, Zenon DEF vars
<1> QED
  BY <1>1, <1>2, <1>3, <1>4, <1>5, <1>6 DEF Next, Run

\* idle() puts a call that is in neither list into one of them: among the waiters
\* while the connection is busy, else at the end of the queue.
LEMMA IdleKeeps ==
  ASSUME NEW t \in Calls, NEW rest, Fields, Lists, Idle(t, rest), pc[t] # "wait",
         rest \in Seq(Calls), IsInjective(rest),
         Range(rest) = {c \in Calls : pc[c] \in {"check", "take"}} \ {t}
  PROVE  Lists' /\ pc' \in [Calls -> {"out", "wait", "check", "take", "session"}]
<1>1. CASE busy
  <2>1. pc' = [pc EXCEPT ![t] = "wait"] /\ waiters' = Append(waiters, t) /\ queue' = rest
    BY <1>1 DEF Idle, Goto
  <2>2. t \notin Range(waiters)
    BY DEF Lists
  <2>3. /\ waiters' \in Seq(Calls) /\ IsInjective(waiters') /\ Range(waiters') = Range(waiters) \cup {t}
    BY <2>1, <2>2, AppendOnce DEF Lists
  <2>4. Range(waiters)' = {c \in Calls : pc'[c] = "wait"}
    BY <2>1, <2>3 DEF Lists, Fields
  <2>5. Range(queue)' = {c \in Calls : pc'[c] \in {"check", "take"}}
    BY <2>1 DEF Fields
  <2> QED
    BY <2>1, <2>3, <2>4, <2>5 DEF Lists, Fields, IsInjective
<1>2. CASE ~busy
  <2>1. pc' = [pc EXCEPT ![t] = "take"] /\ waiters' = waiters /\ queue' = Append(rest, t)
    BY <1>2 DEF Idle, Goto
  <2>2. t \notin Range(rest)
    OBVIOUS
  <2>3. /\ queue' \in Seq(Calls) /\ IsInjective(queue') /\ Range(queue') = Range(rest) \cup {t}
    BY <2>1, <2>2, AppendOnce
  <2>4. Range(waiters)' = {c \in Calls : pc'[c] = "wait"}
    BY <2>1 DEF Lists, Fields
  <2>5. Range(queue)' = {c \in Calls : pc'[c] \in {"check", "take"}}
    BY <2>1, <2>3 DEF Fields
  <2> QED
    BY <2>1, <2>3, <2>4, <2>5 DEF Lists, Fields, IsInjective
<1> QED
  BY <1>1, <1>2

\* The application's call.
LEMMA CallKeeps ==
  ASSUME PoolInv, Flags', NEW t \in Calls, NEW kk \in {"reserve", "execute"}, Call(t, kk)
  PROVE  PoolInv'
<1>1. Fields /\ Lists
  BY TypeParts DEF PoolInv
<1>2. pc[t] = "out" /\ Idle(t, queue) /\ busy' = busy
  BY DEF Call
<1>3. Lists' /\ pc' \in [Calls -> {"out", "wait", "check", "take", "session"}]
  BY <1>1, <1>2, IdleKeeps DEF Lists
<1>4. Fields'
  BY <1>1, <1>3 DEF Fields, Call
<1>5. /\ pc' \in {[pc EXCEPT ![t] = "wait"], [pc EXCEPT ![t] = "take"]}
      /\ busy \/ waiters' = waiters
  BY <1>2 DEF Idle, Goto
<1>6. (\E c \in Calls : pc[c] = "session") => \E c \in Calls : pc'[c] = "session"
  BY <1>1, <1>2, <1>5 DEF Fields
<1>7. NoLostWaiter' /\ (busy' => \E c \in Calls : pc'[c] = "session")
  BY <1>2, <1>5, <1>6 DEF PoolInv, NoLostWaiter
<1>8. /\ \A c \in Calls : pc'[c] # "out" => result'[c] = "none"
      /\ \A c \in Calls : aborted'[c] => result'[c] # "ran"
  BY <1>1, <1>5 DEF PoolInv, Fields, Call, AbortedNeverRuns
<1> QED
  BY <1>3, <1>4, <1>7, <1>8, TypeParts DEF PoolInv, AbortedNeverRuns

\* A woken call that goes through the loop again.
LEMMA CheckKeeps ==
  ASSUME PoolInv, Flags', NEW t \in Calls, Check(t)
  PROVE  PoolInv'
<1>1. Fields /\ Lists
  BY TypeParts DEF PoolInv
<1>2. pc[t] = "check" /\ t = Head(queue) /\ queue # <<>> /\ busy' = busy /\ aborted' = aborted /\ kind' = kind
  BY DEF Check
<1>3. /\ Tail(queue) \in Seq(Calls) /\ IsInjective(Tail(queue))
      /\ Range(Tail(queue)) = {c \in Calls : pc[c] \in {"check", "take"}} \ {t}
  BY <1>1, <1>2, TailOnce DEF Lists
<1>4. CASE busy /\ aborted[t]
  <2>1. /\ pc' = [pc EXCEPT ![t] = "out"] /\ result' = [result EXCEPT ![t] = "canceled"]
        /\ queue' = Tail(queue) /\ waiters' = waiters
    BY <1>4 DEF Check, End, Goto
  <2>2. Fields'
    BY <1>1, <1>2, <2>1 DEF Fields
  <2>3. Range(queue)' = {c \in Calls : pc'[c] \in {"check", "take"}} /\ Range(waiters)' = {c \in Calls : pc'[c] = "wait"}
    BY <1>1, <1>2, <1>3, <2>1 DEF Fields, Lists
  <2>4. Lists'
    BY <1>1, <1>3, <2>1, <2>3 DEF Lists
  <2>5. \A c \in Calls : pc[c] = "session" => pc'[c] = "session"
    BY <1>1, <1>2, <2>1 DEF Fields
  <2> QED
    <3>1. TypeOK' /\ NoLostWaiter' /\ (busy' => \E c \in Calls : pc'[c] = "session")
      BY <1>2, <2>1, <2>2, <2>4, <2>5, TypeParts DEF PoolInv, NoLostWaiter
    <3>2. /\ \A c \in Calls : pc'[c] # "out" => result'[c] = "none"
          /\ \A c \in Calls : aborted'[c] => result'[c] # "ran"
      BY <1>1, <1>2, <2>1 DEF Fields, PoolInv, AbortedNeverRuns
    <3> QED
      BY <3>1, <3>2 DEF PoolInv, AbortedNeverRuns
<1>5. CASE ~(busy /\ aborted[t])
  <2>1. Idle(t, Tail(queue)) /\ result' = result
    BY <1>5 DEF Check
  <2>2. Lists' /\ pc' \in [Calls -> {"out", "wait", "check", "take", "session"}]
    BY <1>1, <1>2, <1>3, <2>1, IdleKeeps
  <2>3. /\ pc' \in {[pc EXCEPT ![t] = "wait"], [pc EXCEPT ![t] = "take"]}
        /\ busy \/ waiters' = waiters
    BY <2>1 DEF Idle, Goto
  <2>4. Fields'
    BY <1>1, <1>2, <2>1, <2>2 DEF Fields
  <2>5. \A c \in Calls : (pc[c] = "session" => pc'[c] = "session") /\ (pc'[c] # "out" => pc[c] # "out")
    BY <1>1, <1>2, <2>3 DEF Fields
  <2> QED
    BY <1>2, <2>1, <2>2, <2>3, <2>4, <2>5, TypeParts DEF PoolInv, NoLostWaiter, AbortedNeverRuns
<1> QED
  BY <1>4, <1>5

\* A call that goes on after idle(): it takes the connection, or runs its statement
\* unless its signal was aborted.
LEMMA TakeKeeps ==
  ASSUME PoolInv, Flags', NEW t \in Calls, Take(t)
  PROVE  PoolInv'
<1>1. Fields /\ Lists
  BY TypeParts DEF PoolInv
<1>2. /\ pc[t] = "take" /\ t = Head(queue) /\ queue # <<>> /\ queue' = Tail(queue)
      /\ waiters' = waiters /\ aborted' = aborted /\ kind' = kind
  BY DEF Take
<1>3. /\ Tail(queue) \in Seq(Calls) /\ IsInjective(Tail(queue))
      /\ Range(Tail(queue)) = {c \in Calls : pc[c] \in {"check", "take"}} \ {t}
  BY <1>1, <1>2, TailOnce DEF Lists
<1>4. \/ busy' /\ pc' = [pc EXCEPT ![t] = "session"] /\ result' = result
      \/ /\ busy' = busy /\ pc' = [pc EXCEPT ![t] = "out"]
         /\ result' = [result EXCEPT ![t] = IF aborted[t] THEN "canceled" ELSE "ran"]
  BY DEF Take, End, Goto
<1>5. Fields'
  BY <1>1, <1>2, <1>4 DEF Fields
<1>6. Range(queue)' = {c \in Calls : pc'[c] \in {"check", "take"}} /\ Range(waiters)' = {c \in Calls : pc'[c] = "wait"}
  BY <1>1, <1>2, <1>3, <1>4 DEF Fields, Lists
<1>7. Lists'
  BY <1>1, <1>2, <1>3, <1>6 DEF Lists
<1>8. NoLostWaiter' /\ (busy' => \E c \in Calls : pc'[c] = "session")
  <2>1. CASE busy' /\ pc' = [pc EXCEPT ![t] = "session"]
    BY <2>1, <1>1 DEF Fields, NoLostWaiter
  <2>2. CASE busy' = busy /\ pc' = [pc EXCEPT ![t] = "out"]
    BY <2>2, <1>1, <1>2 DEF Fields, NoLostWaiter, PoolInv
  <2> QED
    BY <1>4, <2>1, <2>2
<1>9. /\ \A c \in Calls : pc'[c] # "out" => result'[c] = "none"
      /\ \A c \in Calls : aborted'[c] => result'[c] # "ran"
  BY <1>1, <1>2, <1>4 DEF PoolInv, Fields, AbortedNeverRuns
<1> QED
  BY <1>5, <1>7, <1>8, <1>9, TypeParts DEF PoolInv, AbortedNeverRuns

\* The end of a session wakes every waiter, in their order.
LEMMA ReleaseKeeps ==
  ASSUME PoolInv, Flags', NEW t \in Calls, Release(t)
  PROVE  PoolInv'
<1>1. Fields /\ Lists
  BY TypeParts DEF PoolInv
<1>2. /\ pc[t] = "session" /\ ~busy' /\ waiters' = <<>> /\ queue' = queue \o waiters
      /\ pc' = [c \in Calls |-> IF c = t THEN "out" ELSE IF Contains(waiters, c) THEN "check" ELSE pc[c]]
      /\ UNCHANGED <<kind, aborted, result>>
  BY DEF Release
<1>3. \A c : Contains(waiters, c) <=> c \in Range(waiters)
  BY <1>1 DEF Lists, Contains, Range
<1>4. \A c \in Calls : pc'[c] = IF c = t THEN "out" ELSE IF pc[c] = "wait" THEN "check" ELSE pc[c]
  BY <1>1, <1>2, <1>3 DEF Lists
<1>5. Fields'
  BY <1>1, <1>2 DEF Fields
<1>6. /\ queue' \in Seq(Calls) /\ IsInjective(queue') /\ Range(queue') = Range(queue) \cup Range(waiters)
  <2>1. Range(queue) \cap Range(waiters) = {}
    BY <1>1 DEF Lists
  <2> QED
    BY <1>1, <1>2, <2>1, ConcatOnce DEF Lists
<1>7. Range(queue') = {c \in Calls : pc'[c] \in {"check", "take"}}
  BY <1>1, <1>2, <1>4, <1>6 DEF Lists
<1>8. waiters' \in Seq(Calls) /\ IsInjective(waiters') /\ Range(waiters') = {}
  BY <1>2 DEF IsInjective, Range
<1>9. {c \in Calls : pc'[c] = "wait"} = {}
  BY <1>4
<1>10. Lists'
  BY <1>6, <1>7, <1>8, <1>9 DEF Lists
<1>11. /\ \A c \in Calls : pc'[c] # "out" => result'[c] = "none"
       /\ \A c \in Calls : aborted'[c] => result'[c] # "ran"
  BY <1>1, <1>2, <1>4 DEF PoolInv, Fields, AbortedNeverRuns
<1> QED
  BY <1>2, <1>5, <1>10, <1>11, TypeParts DEF PoolInv, NoLostWaiter, AbortedNeverRuns

\* The abort of a signal: a waiting call leaves the waiters, a woken one reads the
\* signal later.
LEMMA AbortKeeps ==
  ASSUME PoolInv, Flags', NEW t \in Calls, Abort(t)
  PROVE  PoolInv'
<1>1. Fields /\ Lists
  BY TypeParts DEF PoolInv
<1>2. /\ pc[t] \in {"wait", "check", "take"} /\ aborted' = [aborted EXCEPT ![t] = TRUE]
      /\ busy' = busy /\ queue' = queue /\ kind' = kind
  BY DEF Abort
<1>3. CASE pc[t] = "wait"
  <2>1. /\ pc' = [pc EXCEPT ![t] = "out"] /\ result' = [result EXCEPT ![t] = "canceled"]
        /\ waiters' = RemoveFirst(waiters, t)
    BY <1>3 DEF Abort, End, Goto
  <2>2. t \in Range(waiters) /\ waiters # <<>>
    BY <1>1, <1>3 DEF Lists, Range
  <2>3. waiters' \in Seq(Calls) /\ IsInjective(waiters') /\ Range(waiters') = Range(waiters) \ {t}
    BY <1>1, <2>1, <2>2, RemoveOnce DEF Lists
  <2>4. Fields'
    BY <1>1, <1>2, <2>1 DEF Fields
  <2>5. Range(queue') = {c \in Calls : pc'[c] \in {"check", "take"}} /\ Range(waiters') = {c \in Calls : pc'[c] = "wait"}
    BY <1>1, <1>2, <1>3, <2>1, <2>3 DEF Fields, Lists
  <2>6. Lists'
    BY <1>1, <1>2, <2>3, <2>5 DEF Lists
  <2>7. NoLostWaiter' /\ (busy' => \E c \in Calls : pc'[c] = "session")
    BY <1>1, <1>2, <1>3, <2>1, <2>2 DEF PoolInv, NoLostWaiter, Fields
  <2>8. /\ \A c \in Calls : pc'[c] # "out" => result'[c] = "none"
        /\ \A c \in Calls : aborted'[c] => result'[c] # "ran"
    BY <1>1, <1>2, <2>1 DEF PoolInv, Fields, AbortedNeverRuns
  <2> QED
    BY <2>4, <2>6, <2>7, <2>8, TypeParts DEF PoolInv, AbortedNeverRuns
<1>4. CASE pc[t] # "wait"
  <2>1. pc' = pc /\ result' = result /\ waiters' = waiters
    BY <1>4 DEF Abort
  <2>2. Fields' /\ Lists' /\ NoLostWaiter' /\ (busy' => \E c \in Calls : pc'[c] = "session")
    BY <1>1, <1>2, <2>1 DEF Fields, Lists, NoLostWaiter, PoolInv
  <2>3. /\ \A c \in Calls : pc'[c] # "out" => result'[c] = "none"
        /\ \A c \in Calls : aborted'[c] => result'[c] # "ran"
    BY <1>1, <1>2, <2>1 DEF PoolInv, Fields, AbortedNeverRuns
  <2> QED
    BY <2>2, <2>3, TypeParts DEF PoolInv, AbortedNeverRuns
<1> QED
  BY <1>3, <1>4

\* Every step of the pool preserves PoolInv.
LEMMA NextPool == PoolInv /\ [Next]_vars => PoolInv'
<1> SUFFICES ASSUME PoolInv, [Next]_vars PROVE PoolInv'
  OBVIOUS
<1>1. Flags'
  BY TypeParts, NextFlags DEF PoolInv
<1>2. CASE UNCHANGED vars
  BY <1>2 DEF vars, PoolInv, TypeOK, NoLostWaiter, AbortedNeverRuns
<1> QED
  BY <1>1, <1>2, CallKeeps, CheckKeeps, TakeKeeps, ReleaseKeeps, AbortKeeps DEF Next, Run

\* The types, the lists of idle() and what PoolInv adds hold throughout.
THEOREM PoolKept == Spec => []PoolInv
BY InitPool, NextPool, PTL DEF Spec

\* No wake-up is lost, for any number of calls and however they interleave.
THEOREM WaitersAreWoken == Spec => []NoLostWaiter
<1>1. PoolInv => NoLostWaiter
  BY DEF PoolInv
<1> QED
  BY <1>1, PoolKept, PTL

\* execute() runs no statement whose signal was aborted before it started.
THEOREM NoAbortedRun == Spec => []AbortedNeverRuns
<1>1. PoolInv => AbortedNeverRuns
  BY DEF PoolInv
<1> QED
  BY <1>1, PoolKept, PTL
=============================================================================

-------------------------- MODULE ConnectionsProofs --------------------------
(***************************************************************************)
(* The connection layer keeps its promises for every number of calls,      *)
(* texts, receives and rows and every bound of the code: the pool of       *)
(* markdown sessions its counts and its wake-ups, a PostgreSQL client its  *)
(* prepared statements, a subscription the order of its notifications and  *)
(* a rotation of AES keys the rows that others wrote.                      *)
(***************************************************************************)
EXTENDS MCConnections, FiniteSetTheorems, SequenceTheorems, TLAPS

\* Cardinality is the same operator in every module that extends FiniteSets.
LEMMA SameCount == \A S : A!Cardinality(S) = Cardinality(S) /\ L!Cardinality(S) = Cardinality(S)
BY Zenon DEF A!Cardinality, L!Cardinality, Cardinality

-----------------------------------------------------------------------------
(* MarkdownPool.                                                           *)

\* The calls that hold a place of the pool are finitely many.
LEMMA UsersFinite == IsFiniteSet(Users) /\ Cardinality(Users) \in Nat
BY CallsAssumption, FS_Subset, FS_CardinalityType DEF Users

\* acquire() takes a place: one more call holds one.
LEMMA UsersUp ==
  ASSUME NEW t \in Calls, t \notin Users, Users' = Users \cup {t}
  PROVE  Cardinality(Users') = Cardinality(Users) + 1
BY UsersFinite, FS_AddElement

\* A failed connect and release() give a place back: the call held one.
LEMMA UsersDown ==
  ASSUME NEW t \in Calls, t \in Users, Users' = Users \ {t}
  PROVE  Cardinality(Users') = Cardinality(Users) - 1 /\ Cardinality(Users) > 0
<1>1. Cardinality(Users') = Cardinality(Users) - 1
  BY UsersFinite, FS_RemoveElement
<1>2. Cardinality(Users) # 0
  BY UsersFinite, FS_EmptySet
<1>. QED BY <1>1, <1>2, UsersFinite

\* The session that acquire() hands out is counted within the bounds.
LEMMA HandOutBounds ==
  ASSUME Inv, NEW t \in Calls, inUse < Size, HandOut(t)
  PROVE  /\ inUse' = inUse + 1
         /\ idle' \in Nat /\ open' \in Nat /\ inUse' \in Nat /\ Accounted'
         /\ \E l \in {"dial", "held"} : pc' = [pc EXCEPT ![t] = l]
<1>1. PICK k \in 0..idle :
        /\ inUse' = inUse + 1
        /\ IF k < idle
           THEN idle' = idle - k - 1 /\ open' = open - k /\ pc' = [pc EXCEPT ![t] = "held"]
           ELSE idle' = 0 /\ open' = open - k + 1 /\ pc' = [pc EXCEPT ![t] = "dial"]
  BY DEF HandOut
<1>2. /\ idle \in Nat /\ open \in Nat /\ inUse \in Nat
      /\ open = inUse + idle /\ open <= Size /\ idle <= IdleSize
  BY DEF Inv, TypeOK, Accounted
<1>3. CASE k < idle
  <2>1. /\ idle' = idle - k - 1 /\ open' = open - k /\ inUse' = inUse + 1
        /\ pc' = [pc EXCEPT ![t] = "held"]
    BY <1>1, <1>3
  <2>2. idle' \in Nat /\ open' \in Nat /\ inUse' \in Nat /\ Accounted'
    <3>1. /\ inUse + 1 \in Nat /\ idle - k - 1 \in Nat /\ open - k \in Nat
          /\ open - k = inUse + 1 + (idle - k - 1) /\ open - k <= Size /\ idle - k - 1 <= IdleSize
      BY <1>2, <1>3, BoundsAssumption
    <3>. QED BY <2>1, <3>1, Zenon DEF Accounted
  <2>. QED BY <2>1, <2>2
<1>4. CASE ~(k < idle)
  <2>1. /\ idle' = 0 /\ open' = open - k + 1 /\ inUse' = inUse + 1
        /\ pc' = [pc EXCEPT ![t] = "dial"]
    BY <1>1, <1>4
  <2>2. idle' \in Nat /\ open' \in Nat /\ inUse' \in Nat /\ Accounted'
    BY <1>2, <1>4, <2>1, BoundsAssumption DEF Accounted
  <2>. QED BY <2>1, <2>2
<1>. QED BY <1>3, <1>4

\* Taking the oldest waiter out of a queue of distinct calls at one place
\* leaves such a queue, which no longer holds that waiter.
LEMMA QueueTail ==
  ASSUME NEW s \in Seq(Calls), s # <<>>, NEW l, Queued(s, l)
  PROVE  /\ Tail(s) \in Seq(Calls) /\ Len(Tail(s)) = Len(s) - 1
         /\ Head(s) \in Calls /\ pc[Head(s)] = l
         /\ Queued(Tail(s), l)
         /\ \A i \in DOMAIN Tail(s) : Tail(s)[i] # Head(s)
<1>1. /\ Tail(s) \in Seq(Calls) /\ Len(Tail(s)) = Len(s) - 1 /\ Head(s) = s[1]
      /\ Len(s) \in Nat \ {0} /\ DOMAIN s = 1..Len(s) /\ DOMAIN Tail(s) = 1..(Len(s) - 1)
  OBVIOUS
<1>2. \A i \in DOMAIN Tail(s) : i + 1 \in DOMAIN s /\ Tail(s)[i] = s[i + 1]
  BY <1>1
<1>3. Head(s) \in Calls /\ pc[Head(s)] = l
  BY <1>1 DEF Queued
<1>4. Queued(Tail(s), l)
  BY <1>1, <1>2 DEF Queued
<1>5. ASSUME NEW i \in DOMAIN Tail(s) PROVE Tail(s)[i] # Head(s)
  BY <1>1, <1>2 DEF Queued
<1>. QED BY <1>1, <1>3, <1>4, <1>5

\* A queue whose calls stay where they are stays a queue.
LEMMA QueueKept ==
  ASSUME NEW s \in Seq(Calls), NEW l, Queued(s, l), \A i \in DOMAIN s : pc'[s[i]] = l
  PROVE  /\ \A i \in DOMAIN s : pc'[s[i]] = l
         /\ \A i, j \in DOMAIN s : s[i] = s[j] => i = j
BY DEF Queued

\* The pool starts empty.
LEMMA InitInv == Init => Inv
<1>. SUFFICES ASSUME Init PROVE Inv
  OBVIOUS
<1>1. TypeOK /\ Accounted /\ NoLostWaiter
  <2>1. idle \in Nat /\ open \in Nat /\ inUse \in Nat /\ waiters \in Seq(Calls) /\ ready \in Seq(Calls)
    BY DEF Init
  <2>2. Accounted /\ NoLostWaiter
    BY BoundsAssumption DEF Init, Accounted, NoLostWaiter
  <2>. QED BY <2>1, <2>2, Zenon DEF Init, TypeOK
<1>2. Users = {}
  BY DEF Init, Users
<1>3. inUse = Cardinality(Users)
  BY <1>2, FS_EmptySet DEF Init
<1>4. Queued(waiters, "wait") /\ Queued(ready, "woken")
  BY DEF Init, Queued
<1>. QED BY <1>1, <1>3, <1>4 DEF Inv

\* acquire() up to its next pause, by a call that is in no queue and holds no
\* place; q stands for the woken calls that are left.
LEMMA EnterInv ==
  ASSUME Inv, NEW t \in Calls, NEW cancel \in BOOLEAN, Enter(t, cancel),
         t \notin Users, pc[t] # "wait",
         \A i \in DOMAIN ready' : ready'[i] # t,
         ready' \in Seq(Calls), Queued(ready', "woken"), Len(ready') >= Len(ready) - 1,
         aborted' \in [Calls -> BOOLEAN], UNCHANGED closed
  PROVE  Inv'
<1>. USE DEF counts
<1>0. /\ TypeOK /\ Accounted /\ NoLostWaiter /\ inUse = Cardinality(Users)
      /\ Queued(waiters, "wait")
      /\ idle \in Nat /\ open \in Nat /\ inUse \in Nat
      /\ waiters \in Seq(Calls)
      /\ pc \in [Calls -> {"out", "wait", "woken", "dial", "held"}]
  BY DEF Inv, TypeOK
<1>1. \A i \in DOMAIN waiters : waiters[i] \in Calls /\ waiters[i] # t
  BY <1>0 DEF Queued
<1>2. \A i \in DOMAIN ready' : ready'[i] \in Calls
  OBVIOUS
<1>3. ASSUME NEW l \in {"out", "wait", "dial", "held"}, pc' = [pc EXCEPT ![t] = l]
      PROVE  /\ pc' \in [Calls -> {"out", "wait", "woken", "dial", "held"}]
             /\ Queued(ready, "woken")'
             /\ waiters' = waiters => Queued(waiters, "wait")'
             /\ l \in {"dial", "held"} => Users' = Users \cup {t}
             /\ l \notin {"dial", "held"} => Users' = Users
  <2>1. pc' \in [Calls -> {"out", "wait", "woken", "dial", "held"}]
    BY <1>0, <1>3
  <2>2. \A u \in Calls : u # t => pc'[u] = pc[u]
    BY <1>0, <1>3
  <2>3. pc'[t] = l
    BY <1>0, <1>3
  <2>4. Queued(ready, "woken")'
    BY <1>2, <2>2 DEF Queued
  <2>5. waiters' = waiters => Queued(waiters, "wait")'
    BY <1>0, <1>1, <2>2 DEF Queued
  <2>6. l \in {"dial", "held"} => Users' = Users \cup {t}
    BY <2>2, <2>3 DEF Users
  <2>7. l \notin {"dial", "held"} => Users' = Users
    BY <2>2, <2>3 DEF Users
  <2>. QED BY <2>1, <2>4, <2>5, <2>6, <2>7
<1>4. CASE closed /\ Leave(t)
  <2>1. UNCHANGED <<idle, open, inUse, waiters>> /\ pc' = [pc EXCEPT ![t] = "out"]
    BY <1>4 DEF Leave
  <2>2. waiters = <<>>
    BY <1>0, <1>4 DEF NoLostWaiter
  <2>3. Accounted' /\ NoLostWaiter'
    BY <1>0, <2>1, <2>2 DEF Accounted, NoLostWaiter
  <2>4. Users' = Users /\ Queued(waiters, "wait")' /\ Queued(ready, "woken")'
    BY <1>3, <2>1
  <2>5. TypeOK'
    BY <1>0, <1>3, <2>1, Zenon DEF TypeOK
  <2>. QED BY <1>0, <2>1, <2>3, <2>4, <2>5, Zenon DEF Inv
<1>5. CASE ~closed /\ inUse >= Size /\ cancel /\ Leave(t)
  <2>1. UNCHANGED <<idle, open, inUse, waiters>> /\ pc' = [pc EXCEPT ![t] = "out"]
    BY <1>5 DEF Leave
  <2>2. Accounted'
    BY <1>0, <2>1 DEF Accounted
  <2>3. Len(ready') \in Nat
    OBVIOUS
  <2>4. inUse' + Len(ready') >= Size
    BY <1>0, <1>5, <2>1, <2>3, BoundsAssumption
  <2>5. NoLostWaiter'
    BY <1>5, <2>4, Zenon DEF NoLostWaiter
  <2>6. Users' = Users /\ Queued(waiters, "wait")' /\ Queued(ready, "woken")'
    BY <1>3, <2>1
  <2>7. TypeOK'
    BY <1>0, <1>3, <2>1, Zenon DEF TypeOK
  <2>. QED BY <1>0, <2>1, <2>2, <2>5, <2>6, <2>7, Zenon DEF Inv
<1>6. CASE ~closed /\ inUse >= Size /\ ~cancel /\ Wait(t)
  <2>1. UNCHANGED <<idle, open, inUse>> /\ waiters' = Append(waiters, t) /\ pc' = [pc EXCEPT ![t] = "wait"]
    BY <1>6 DEF Wait
  <2>2. Accounted'
    BY <1>0, <2>1 DEF Accounted
  <2>3. inUse' + Len(ready') >= Size
    BY <1>0, <1>6, <2>1, BoundsAssumption
  <2>4. NoLostWaiter'
    BY <1>6, <2>3, Zenon DEF NoLostWaiter
  <2>5. waiters' \in Seq(Calls)
    BY <1>0, <2>1
  <2>6. Queued(waiters, "wait")'
    <3>1. DOMAIN waiters = 1..Len(waiters) /\ Len(waiters) \in Nat
      BY <1>0
    <3>2. DOMAIN waiters' = 1..(Len(waiters) + 1)
      BY <1>0, <2>1
    <3>3. \A i \in DOMAIN waiters' : waiters'[i] = IF i = Len(waiters) + 1 THEN t ELSE waiters[i]
      BY <1>0, <2>1, <3>1, <3>2
    <3>4. \A i \in DOMAIN waiters' : i # Len(waiters) + 1 => i \in DOMAIN waiters
      BY <3>1, <3>2
    <3>5. \A i \in DOMAIN waiters' : pc'[waiters'[i]] = "wait"
      BY <1>0, <1>1, <2>1, <3>3, <3>4 DEF Queued
    <3>6. \A i, j \in DOMAIN waiters' : waiters'[i] = waiters'[j] => i = j
      BY <1>0, <1>1, <3>3, <3>4 DEF Queued
    <3>. QED BY <3>5, <3>6 DEF Queued
  <2>7. Users' = Users /\ Queued(ready, "woken")'
    BY <1>3, <2>1
  <2>8. TypeOK'
    BY <1>0, <1>3, <2>1, <2>5, Zenon DEF TypeOK
  <2>. QED BY <1>0, <2>1, <2>2, <2>4, <2>6, <2>7, <2>8, Zenon DEF Inv
<1>7. CASE ~closed /\ inUse < Size /\ HandOut(t) /\ UNCHANGED waiters
  <2>1. /\ inUse' = inUse + 1
        /\ idle' \in Nat /\ open' \in Nat /\ inUse' \in Nat /\ Accounted'
        /\ \E l \in {"dial", "held"} : pc' = [pc EXCEPT ![t] = l]
    BY <1>7, HandOutBounds, Zenon
  <2>3. waiters # <<>> => inUse' + Len(ready') >= Size
    <3>1. Len(ready) \in Nat /\ Len(ready') \in Nat
      BY DEF Inv, TypeOK
    <3>. QED BY <1>0, <1>7, <2>1, <3>1, BoundsAssumption DEF NoLostWaiter
  <2>4. NoLostWaiter'
    BY <1>7, <2>3, Zenon DEF NoLostWaiter
  <2>5. /\ Users' = Users \cup {t} /\ Queued(waiters, "wait")' /\ Queued(ready, "woken")'
        /\ pc' \in [Calls -> {"out", "wait", "woken", "dial", "held"}]
    <3>1. PICK l \in {"dial", "held"} : pc' = [pc EXCEPT ![t] = l]
      BY <2>1
    <3>2. l \in {"out", "wait", "dial", "held"}
      OBVIOUS
    <3>. QED BY <1>3, <1>7, <3>1, <3>2, Zenon
  <2>6. inUse' = Cardinality(Users')
    BY <1>0, <2>1, <2>5, UsersUp
  <2>7. TypeOK'
    BY <1>0, <1>7, <2>1, <2>5, Zenon DEF TypeOK
  <2>. QED BY <2>1, <2>4, <2>5, <2>6, <2>7, Zenon DEF Inv
<1>. QED BY <1>4, <1>5, <1>6, <1>7 DEF Enter

\* A call that a failed connect or a release takes out of the pool gives back
\* its place and wakes the oldest waiter.
LEMMA LeaveInv ==
  ASSUME Inv, NEW t \in Calls, t \in Users, WakeOne(t, "out"),
         inUse' = inUse - 1,
         \/ open' = open - 1 /\ idle' = idle
         \/ open' = open /\ idle' = idle + 1 /\ idle < IdleSize,
         UNCHANGED <<closed, aborted>>
  PROVE  Inv'
<1>0. /\ TypeOK /\ Accounted /\ NoLostWaiter /\ inUse = Cardinality(Users)
      /\ Queued(waiters, "wait") /\ Queued(ready, "woken")
      /\ idle \in Nat /\ open \in Nat /\ inUse \in Nat
      /\ waiters \in Seq(Calls) /\ ready \in Seq(Calls)
      /\ pc \in [Calls -> {"out", "wait", "woken", "dial", "held"}]
  BY DEF Inv, TypeOK
<1>1. pc[t] # "wait" /\ pc[t] # "woken"
  BY DEF Users
<1>2. \A i \in DOMAIN waiters : waiters[i] \in Calls /\ waiters[i] # t /\ pc[waiters[i]] = "wait"
  BY <1>0, <1>1 DEF Queued
<1>3. \A i \in DOMAIN ready : ready[i] \in Calls /\ ready[i] # t /\ pc[ready[i]] = "woken"
  BY <1>0, <1>1 DEF Queued
<1>4. ASSUME Users' = Users \ {t}
      PROVE  /\ inUse' = Cardinality(Users') /\ inUse' \in Nat
             /\ open' \in Nat /\ idle' \in Nat /\ Accounted'
  <2>1. Cardinality(Users') = Cardinality(Users) - 1 /\ Cardinality(Users) > 0
    BY <1>4, UsersDown
  <2>2. inUse' = Cardinality(Users') /\ inUse' \in Nat
    BY <1>0, <2>1
  <2>. QED BY <1>0, <2>1, <2>2, BoundsAssumption, SMTT(30) DEF Accounted

<1>5. CASE waiters = <<>> /\ pc' = [pc EXCEPT ![t] = "out"] /\ UNCHANGED <<waiters, ready>>
  <2>1. \A u \in Calls : u # t => pc'[u] = pc[u]
    BY <1>0, <1>5
  <2>2. pc'[t] = "out" /\ pc' \in [Calls -> {"out", "wait", "woken", "dial", "held"}]
    BY <1>0, <1>5
  <2>3. Users' = Users \ {t}
    BY <2>1, <2>2 DEF Users
  <2>4. Queued(waiters, "wait")' /\ Queued(ready, "woken")'
    BY <1>0, <1>3, <1>5, <2>1 DEF Queued
  <2>5. NoLostWaiter'
    BY <1>5 DEF NoLostWaiter
  <2>6. TypeOK'
    BY <1>0, <1>4, <1>5, <2>2, <2>3, Zenon DEF TypeOK
  <2>. QED BY <1>4, <2>3, <2>4, <2>5, <2>6, Zenon DEF Inv
<1>6. CASE /\ waiters # <<>> /\ waiters' = Tail(waiters) /\ ready' = Append(ready, Head(waiters))
           /\ pc' = [pc EXCEPT ![t] = "out", ![Head(waiters)] = "woken"]
  <2>. DEFINE h == Head(waiters)
  <2>0. /\ waiters' \in Seq(Calls) /\ h \in Calls /\ pc[h] = "wait"
        /\ Queued(waiters', "wait") /\ \A i \in DOMAIN waiters' : waiters'[i] # h
    BY <1>0, <1>6, QueueTail
  <2>1. h # t
    BY <1>1, <2>0
  <2>2. \A u \in Calls : u # t /\ u # h => pc'[u] = pc[u]
    BY <1>0, <1>6, <2>0
  <2>3. pc'[t] = "out" /\ pc'[h] = "woken" /\ pc' \in [Calls -> {"out", "wait", "woken", "dial", "held"}]
    BY <1>0, <1>6, <2>0, <2>1
  <2>. HIDE DEF h
  <2>4. Users' = Users \ {t}
    BY <2>0, <2>1, <2>2, <2>3 DEF Users
  <2>5. \A i \in DOMAIN waiters' : waiters'[i] \in Calls /\ waiters'[i] # t
    BY <1>1, <2>0 DEF Queued
  <2>6. Queued(waiters, "wait")'
    BY <2>0, <2>2, <2>5 DEF Queued
  <2>7. ready' = Append(ready, h)
    BY <1>6 DEF h
  <2>8. /\ DOMAIN ready' = 1..(Len(ready) + 1) /\ DOMAIN ready = 1..Len(ready) /\ Len(ready) \in Nat
        /\ Len(ready') = Len(ready) + 1 /\ ready' \in Seq(Calls)
    BY <1>0, <2>0, <2>7
  <2>9. \A i \in DOMAIN ready' : ready'[i] = IF i = Len(ready) + 1 THEN h ELSE ready[i]
    BY <1>0, <2>7, <2>8
  <2>10. \A i \in DOMAIN ready' : i # Len(ready) + 1 => i \in DOMAIN ready /\ ready[i] # h
    BY <1>3, <2>0, <2>8
  <2>11. Queued(ready, "woken")'
    <3>1. \A i \in DOMAIN ready' : pc'[ready'[i]] = "woken"
      BY <1>3, <2>2, <2>3, <2>9, <2>10
    <3>2. \A i, j \in DOMAIN ready' : ready'[i] = ready'[j] => i = j
      BY <1>0, <2>9, <2>10 DEF Queued
    <3>. QED BY <3>1, <3>2 DEF Queued
  <2>12. ~closed /\ inUse' + Len(ready') >= Size
    BY <1>0, <1>6, <2>8, BoundsAssumption DEF NoLostWaiter
  <2>13. NoLostWaiter'
    BY <2>12 DEF NoLostWaiter
  <2>14. TypeOK'
    BY <1>0, <1>4, <2>0, <2>3, <2>4, <2>8, Zenon DEF TypeOK
  <2>. QED BY <1>4, <2>4, <2>6, <2>11, <2>13, <2>14, Zenon DEF Inv
<1>. QED BY <1>5, <1>6 DEF WakeOne

\* A new call of acquire().
LEMMA AcquireInv ==
  ASSUME Inv, NEW t \in Calls, NEW cancel \in BOOLEAN, Acquire(t, cancel)
  PROVE  Inv'
<1>1. t \notin Users /\ pc[t] # "wait" /\ pc[t] # "woken" /\ UNCHANGED <<closed, ready>> /\ Enter(t, cancel)
  BY DEF Acquire, Users
<1>2. Queued(ready, "woken") /\ ready \in Seq(Calls) /\ Len(ready) \in Nat
  BY DEF Inv, TypeOK
<1>3. \A i \in DOMAIN ready : ready[i] # t
  BY <1>1, <1>2 DEF Queued
<1>4. aborted' \in [Calls -> BOOLEAN]
  BY Zenon DEF Acquire, Inv, TypeOK
<1>. QED BY <1>1, <1>2, <1>3, <1>4, EnterInv

\* A woken call looks at the pool again.
LEMMA ResumeInv ==
  ASSUME Inv, NEW t \in Calls, Resume(t)
  PROVE  Inv'
<1>1. ready # <<>> /\ t = Head(ready) /\ ready' = Tail(ready) /\ Enter(t, aborted[t]) /\ UNCHANGED <<closed, aborted>>
  BY DEF Resume
<1>2. Queued(ready, "woken") /\ ready \in Seq(Calls) /\ Len(ready) \in Nat
  BY DEF Inv, TypeOK
<1>3. /\ ready' \in Seq(Calls) /\ Len(ready') = Len(ready) - 1 /\ pc[t] = "woken"
      /\ Queued(ready', "woken") /\ \A i \in DOMAIN ready' : ready'[i] # t
  BY <1>1, <1>2, QueueTail
<1>4. t \notin Users /\ pc[t] # "wait"
  BY <1>3 DEF Users
<1>5. aborted' \in [Calls -> BOOLEAN] /\ aborted[t] \in BOOLEAN
  BY <1>1, Zenon DEF Inv, TypeOK
<1>6. Len(ready') >= Len(ready) - 1
  BY <1>2, <1>3
<1>. QED BY <1>1, <1>3, <1>4, <1>5, <1>6, EnterInv

\* A failed connect gives the place back.
LEMMA DialFailedInv ==
  ASSUME Inv, NEW t \in Calls, DialFailed(t)
  PROVE  Inv'
<1>1. t \in Users
  BY DEF DialFailed, Users
<1>. QED BY <1>1, LeaveInv DEF DialFailed

\* release() gives the place back and keeps or closes the session.
LEMMA ReleaseInv ==
  ASSUME Inv, NEW t \in Calls, NEW broken \in BOOLEAN, Release(t, broken)
  PROVE  Inv'
<1>1. t \in Users
  BY DEF Release, Users
<1>2. inUse' = inUse - 1 /\ WakeOne(t, "out") /\ UNCHANGED <<closed, aborted>>
  BY DEF Release
<1>3. idle \in Nat
  BY DEF Inv, TypeOK
<1>4. \/ open' = open - 1 /\ idle' = idle
      \/ open' = open /\ idle' = idle + 1 /\ ~(idle >= IdleSize)
  BY DEF Release
<1>5. \/ open' = open - 1 /\ idle' = idle
      \/ open' = open /\ idle' = idle + 1 /\ idle < IdleSize
  BY <1>3, <1>4, BoundsAssumption
<1>. QED BY <1>1, <1>2, <1>5, LeaveInv, Zenon

\* A session that is connected keeps its place.
LEMMA DialedInv ==
  ASSUME Inv, NEW t \in Calls, Dialed(t)
  PROVE  Inv'
<1>0. /\ TypeOK /\ Accounted /\ NoLostWaiter /\ inUse = Cardinality(Users)
      /\ Queued(waiters, "wait") /\ Queued(ready, "woken")
      /\ waiters \in Seq(Calls) /\ ready \in Seq(Calls)
      /\ pc \in [Calls -> {"out", "wait", "woken", "dial", "held"}]
  BY DEF Inv, TypeOK
<1>1. /\ pc[t] = "dial" /\ pc' = [pc EXCEPT ![t] = "held"]
      /\ UNCHANGED <<idle, open, inUse, closed, waiters, ready, aborted>>
  BY DEF Dialed, counts
<1>2. \A u \in Calls : u # t => pc'[u] = pc[u]
  BY <1>0, <1>1
<1>3. pc'[t] = "held" /\ pc' \in [Calls -> {"out", "wait", "woken", "dial", "held"}]
  BY <1>0, <1>1
<1>4. Users' = Users
  BY <1>1, <1>2, <1>3 DEF Users
<1>5. \A i \in DOMAIN waiters : waiters[i] \in Calls /\ waiters[i] # t
  BY <1>0, <1>1 DEF Queued
<1>6. \A i \in DOMAIN ready : ready[i] \in Calls /\ ready[i] # t
  BY <1>0, <1>1 DEF Queued
<1>7. Queued(waiters, "wait")' /\ Queued(ready, "woken")'
  BY <1>0, <1>1, <1>2, <1>5, <1>6 DEF Queued
<1>8. TypeOK'
  BY <1>0, <1>1, <1>3, Zenon DEF TypeOK
<1>9. Accounted' /\ NoLostWaiter'
  BY <1>0, <1>1, Zenon DEF Accounted, NoLostWaiter
<1>. QED BY <1>0, <1>1, <1>4, <1>7, <1>8, <1>9, Zenon DEF Inv

\* An abort takes a waiting call out of the queue of distinct waiters.
LEMMA AbortInv ==
  ASSUME Inv, NEW t \in Calls, Abort(t)
  PROVE  Inv'
<1>0. /\ TypeOK /\ Accounted /\ NoLostWaiter /\ inUse = Cardinality(Users)
      /\ Queued(waiters, "wait") /\ Queued(ready, "woken")
      /\ waiters \in Seq(Calls) /\ ready \in Seq(Calls)
      /\ pc \in [Calls -> {"out", "wait", "woken", "dial", "held"}]
  BY DEF Inv, TypeOK
<1>1. /\ UNCHANGED <<idle, open, inUse, closed, ready>>
      /\ aborted' \in [Calls -> BOOLEAN]
  BY Zenon DEF Abort, counts, Inv, TypeOK
<1>2. Accounted'
  BY <1>0, <1>1, Zenon DEF Accounted
<1>3. CASE pc[t] = "wait"
  <2>1. PICK n \in DOMAIN waiters : waiters[n] = t /\ waiters' = Without(waiters, n)
    BY <1>3 DEF Abort
  <2>2. pc' = [pc EXCEPT ![t] = "out"]
    BY <1>3 DEF Abort
  <2>3. pc' \in [Calls -> {"out", "wait", "woken", "dial", "held"}] /\ pc'[t] = "out"
    BY <1>0, <2>2
  <2>4. \A u \in Calls : u # t => pc'[u] = pc[u]
    BY <1>0, <2>2
  <2>5. Users' = Users
    BY <1>3, <2>3, <2>4 DEF Users
  <2>6. \A m \in DOMAIN ready : ready[m] \in Calls /\ ready[m] # t
    BY <1>0, <1>3 DEF Queued
  <2>7. Queued(ready, "woken")'
    BY <1>0, <1>1, <2>4, <2>6 DEF Queued
  <2>8. Len(waiters) \in Nat \ {0} /\ DOMAIN waiters = 1..Len(waiters) /\ n \in 1..Len(waiters)
    BY <1>0
  <2>9. /\ DOMAIN waiters' = 1..(Len(waiters) - 1)
        /\ \A m \in DOMAIN waiters' : waiters'[m] = waiters[IF m < n THEN m ELSE m + 1]
    BY <2>1 DEF Without
  <2>10. \A m \in DOMAIN waiters' : (IF m < n THEN m ELSE m + 1) \in DOMAIN waiters \ {n}
    BY <2>8, <2>9
  <2>11. \A m \in DOMAIN waiters' : waiters'[m] \in Calls /\ waiters'[m] # t
    BY <1>0, <2>1, <2>9, <2>10 DEF Queued
  <2>12. waiters' \in Seq(Calls)
    <3>1. Len(waiters) - 1 \in Nat
      BY <2>8
    <3>2. waiters' \in [1..(Len(waiters) - 1) -> Calls]
      BY <2>1, <2>9, <2>11 DEF Without
    <3>. QED BY <3>1, <3>2
  <2>13. Queued(waiters, "wait")'
    <3>1. \A m \in DOMAIN waiters' : pc'[waiters'[m]] = "wait"
      BY <1>0, <2>4, <2>9, <2>10, <2>11 DEF Queued
    <3>2. ASSUME NEW a \in DOMAIN waiters', NEW b \in DOMAIN waiters', waiters'[a] = waiters'[b]
          PROVE  a = b
      <4>. DEFINE old(m) == IF m < n THEN m ELSE m + 1
      <4>0. /\ old(a) \in DOMAIN waiters /\ old(b) \in DOMAIN waiters
            /\ waiters'[a] = waiters[old(a)] /\ waiters'[b] = waiters[old(b)]
        BY <2>9, <2>10
      <4>. HIDE DEF old
      <4>2. old(a) = old(b)
        BY <1>0, <3>2, <4>0 DEF Queued
      <4>1. (IF a < n THEN a ELSE a + 1) = (IF b < n THEN b ELSE b + 1)
        BY <4>2 DEF old
      <4>. QED BY <2>8, <2>9, <4>1
    <3>. QED BY <3>1, <3>2 DEF Queued
  <2>14. NoLostWaiter'
    BY <1>0, <1>1, <2>8 DEF NoLostWaiter
  <2>15. TypeOK'
    BY <1>0, <1>1, <2>3, <2>12, Zenon DEF TypeOK
  <2>. QED BY <1>0, <1>1, <1>2, <2>5, <2>7, <2>13, <2>14, <2>15, Zenon DEF Inv
<1>4. CASE pc[t] # "wait"
  <2>1. UNCHANGED <<waiters, pc>>
    BY <1>4 DEF Abort
  <2>2. Users' = Users /\ Queued(waiters, "wait")' /\ Queued(ready, "woken")' /\ NoLostWaiter'
    BY <1>0, <1>1, <2>1, Zenon DEF Users, Queued, NoLostWaiter
  <2>3. TypeOK'
    BY <1>0, <1>1, <2>1, Zenon DEF TypeOK
  <2>. QED BY <1>0, <1>1, <1>2, <2>2, <2>3, Zenon DEF Inv
<1>. QED BY <1>3, <1>4

\* close() moves the waiters behind the woken calls.
LEMMA CloseInv ==
  ASSUME Inv, Close
  PROVE  Inv'
<1>0. /\ TypeOK /\ Accounted /\ inUse = Cardinality(Users)
      /\ Queued(waiters, "wait") /\ Queued(ready, "woken")
      /\ idle \in Nat /\ open \in Nat /\ inUse \in Nat
      /\ waiters \in Seq(Calls) /\ ready \in Seq(Calls)
      /\ pc \in [Calls -> {"out", "wait", "woken", "dial", "held"}]
  BY DEF Inv, TypeOK
<1>1. /\ closed' = TRUE /\ waiters' = <<>> /\ ready' = ready \o waiters
      /\ open' = open - idle /\ idle' = 0 /\ UNCHANGED <<inUse, aborted>>
      /\ pc' = [t \in Calls |-> IF pc[t] = "wait" THEN "woken" ELSE pc[t]]
  BY DEF Close
<1>2. pc' \in [Calls -> {"out", "wait", "woken", "dial", "held"}]
  BY <1>0, <1>1
<1>3. Users' = Users
  BY <1>0, <1>1 DEF Users
<1>4. open' \in Nat /\ Accounted'
  BY <1>0, <1>1, BoundsAssumption DEF Accounted
<1>5. NoLostWaiter' /\ Queued(waiters, "wait")' /\ waiters' \in Seq(Calls)
  BY <1>1 DEF NoLostWaiter, Queued
<1>6. Queued(ready, "woken")' /\ ready' \in Seq(Calls)
  <2>1. /\ Len(ready) \in Nat /\ Len(waiters) \in Nat
        /\ DOMAIN ready = 1..Len(ready) /\ DOMAIN waiters = 1..Len(waiters)
        /\ DOMAIN ready' = 1..(Len(ready) + Len(waiters)) /\ ready' \in Seq(Calls)
    BY <1>0, <1>1
  <2>2. \A m \in DOMAIN ready' :
          \/ m \in DOMAIN ready /\ ready'[m] = ready[m]
          \/ m - Len(ready) \in DOMAIN waiters /\ ready'[m] = waiters[m - Len(ready)]
    BY <1>0, <1>1, <2>1
  <2>3. \A m \in DOMAIN ready : ready[m] \in Calls /\ pc[ready[m]] = "woken"
    BY <1>0 DEF Queued
  <2>4. \A m \in DOMAIN waiters : waiters[m] \in Calls /\ pc[waiters[m]] = "wait"
    BY <1>0 DEF Queued
  <2>5. \A m \in DOMAIN ready' : pc'[ready'[m]] = "woken"
    BY <1>1, <2>2, <2>3, <2>4
  <2>6. ASSUME NEW a \in DOMAIN ready', NEW b \in DOMAIN ready', ready'[a] = ready'[b]
        PROVE  a = b
    <3>1. CASE a \in DOMAIN ready /\ b \in DOMAIN ready /\ ready'[a] = ready[a] /\ ready'[b] = ready[b]
      BY <1>0, <2>6, <3>1 DEF Queued
    <3>2. CASE /\ a - Len(ready) \in DOMAIN waiters /\ ready'[a] = waiters[a - Len(ready)]
               /\ b - Len(ready) \in DOMAIN waiters /\ ready'[b] = waiters[b - Len(ready)]
      <4>1. a - Len(ready) = b - Len(ready)
        BY <1>0, <2>6, <3>2 DEF Queued
      <4>. QED BY <2>1, <4>1
    <3>. QED BY <2>2, <2>3, <2>4, <2>6, <3>1, <3>2
  <2>. QED BY <2>1, <2>5, <2>6 DEF Queued
<1>7. TypeOK'
  BY <1>0, <1>1, <1>2, <1>4, <1>5, <1>6, Zenon DEF TypeOK
<1>. QED BY <1>0, <1>1, <1>3, <1>4, <1>5, <1>6, <1>7, Zenon DEF Inv

\* Every step of the pool preserves the invariant.
LEMMA NextInv == Inv /\ [Next]_vars => Inv'
<1>. SUFFICES ASSUME Inv, [Next]_vars PROVE Inv'
  OBVIOUS
<1>1. CASE UNCHANGED vars
  BY <1>1, Zenon DEF vars, counts, Inv, TypeOK, Accounted, NoLostWaiter, Users, Queued
<1>2. CASE Close
  BY <1>2, CloseInv
<1>3. ASSUME NEW t \in Calls,
             \/ \E cancel \in BOOLEAN : Acquire(t, cancel)
             \/ Resume(t) \/ Dialed(t) \/ DialFailed(t)
             \/ \E broken \in BOOLEAN : Release(t, broken)
             \/ Abort(t)
      PROVE  Inv'
  BY <1>3, AcquireInv, ResumeInv, DialedInv, DialFailedInv, ReleaseInv, AbortInv, Zenon
<1>. QED BY <1>1, <1>2, <1>3, Zenon DEF Next

-----------------------------------------------------------------------------
(* AesRotation: v1 is driver, v2 rows, v3 view, v4 locked, v5 batch, v6    *)
(* pc, v7 rotated, v8 written and v9 writes.                               *)

\* The SELECT returns at most LIMIT rows: their ranks in the order of the primary
\* key are different numbers below it.
LEMMA FewSelected ==
  ASSUME NEW S \in SUBSET Int, IsFiniteSet(S), NEW n \in Nat
  PROVE  LET F == {r \in S : Cardinality({q \in S : q < r}) < n} IN
         IsFiniteSet(F) /\ Cardinality(F) <= n
<1>. DEFINE Below(r) == {q \in S : q < r}
            F == {r \in S : Cardinality(Below(r)) < n}
            rank == [r \in F |-> Cardinality(Below(r))]
<1>0. \A r \in S : r \in Int
  OBVIOUS
<1>1. \A r \in S : IsFiniteSet(Below(r)) /\ Cardinality(Below(r)) \in Nat
  BY FS_Subset, FS_CardinalityType
<1>2. ASSUME NEW r \in S, NEW s \in S, r < s
      PROVE  Cardinality(Below(r)) < Cardinality(Below(s))
  <2>0. \A q \in S : q < r => q < s
    BY <1>0, <1>2
  <2>1. Below(r) \subseteq Below(s)
    BY <2>0, Zenon
  <2>2. r \in Below(s) /\ r \notin Below(r)
    BY <1>0, <1>2
  <2>3. Below(r) # Below(s)
    BY <2>2
  <2>4. IsFiniteSet(Below(s)) /\ Cardinality(Below(s)) \in Nat /\ Cardinality(Below(r)) \in Nat
    BY <1>1
  <2>. HIDE DEF Below
  <2>5. Cardinality(Below(r)) <= Cardinality(Below(s)) /\ Cardinality(Below(r)) # Cardinality(Below(s))
    BY <2>1, <2>3, <2>4, FS_Subset
  <2>. QED BY <2>4, <2>5
<1>3. rank \in Injection(F, 0..(n-1))
  <2>1. rank \in [F -> 0..(n-1)]
    <3>1. \A r \in F : Cardinality(Below(r)) \in Nat /\ Cardinality(Below(r)) < n
      BY <1>1, Zenon
    <3>. HIDE DEF Below, F
    <3>. QED BY <3>1
  <2>2. \A r, s \in F : rank[r] = rank[s] => r = s
    <3>. SUFFICES ASSUME NEW r \in F, NEW s \in F, r # s PROVE rank[r] # rank[s]
      OBVIOUS
    <3>1. r < s \/ s < r
      BY <1>0
    <3>2. r \in S /\ s \in S /\ rank[r] = Cardinality(Below(r)) /\ rank[s] = Cardinality(Below(s))
      OBVIOUS
    <3>. HIDE DEF Below, rank, F
    <3>. QED BY <3>1, <3>2, <1>1, <1>2
  <2>. QED BY <2>1, <2>2 DEF Injection, IsInjective
<1>4. IsFiniteSet(F)
  BY FS_Subset
<1>5. IsFiniteSet(0..(n-1)) /\ Cardinality(0..(n-1)) = n
  BY FS_Interval
<1>. HIDE DEF rank
<1>. QED BY <1>3, <1>4, <1>5, FS_Injection


\* What the transaction holds has the types of rows, and what it reads and rotates
\* stays a row of the table.
LEMMA RotatedRow ==
  ASSUME NEW s \in A!Stored
  PROVE  /\ A!RotateRow(s) \in A!Stored
         /\ A!RotateRow(s).version = Current /\ A!RotateRow(s).key = Current
BY RotationAssumption DEF A!Stored, A!RotateRow, A!Versions

\* Before a rotation starts, the table is readable and nothing is locked.
LEMMA RotationInit == ASSUME A!Init PROVE A!RotationInv
<1>1. v2 \in [Rows -> A!Stored] /\ \A r \in Rows : A!IsReadable(v2[r])
  BY DEF A!Init, A!IsReadable
<1>2. DOMAIN A!NoRows = {}
  BY DEF A!NoRows
<1>3. Cardinality(DOMAIN A!NoRows) <= Batch
  BY <1>2, FS_EmptySet, RotationAssumption
<1>. QED BY <1>1, <1>2, <1>3, SameCount DEF A!Init, A!RotationInv, A!TypeOK, A!Readable

\* A write of another client leaves the rows that the rotation has updated alone.
LEMMA RotationWrite ==
  ASSUME A!RotationInv, NEW r \in Rows, NEW v \in Declared, NEW t \in Plaintexts \cup {A!Null}, A!Write(r, v, t)
  PROVE  A!RotationInv'
<1>. DEFINE s == [version |-> v, key |-> v, text |-> t]
<1>1. s \in A!Stored /\ A!IsReadable(s)
  BY DEF A!Stored, A!IsReadable, A!Versions
<1>2. /\ v2 \in [Rows -> A!Stored] /\ v3 \in [Rows -> A!Stored] /\ v4 \subseteq Rows /\ v8 \subseteq Rows
      /\ r \notin v4 /\ v2' = [v2 EXCEPT ![r] = s]
      /\ v3' = v3 \/ v3' = [v3 EXCEPT ![r] = s]
      /\ v4' = v4 /\ v5' = v5 /\ v6' = v6 /\ v7' = v7
      /\ v8' = v8 \/ v8' = v8 \cup {r}
  BY DEF A!RotationInv, A!TypeOK, A!Write
<1>3. v3' # [v3 EXCEPT ![r] = s] => v6 # "idle" /\ r \in v8'
  BY DEF A!Write, A!Snapshot
<1>. HIDE DEF s
<1>4. A!TypeOK'
  BY <1>1, <1>2 DEF A!RotationInv, A!TypeOK
<1>5. A!Readable'
  BY <1>1, <1>2 DEF A!RotationInv, A!Readable
<1>6. (\A q \in v4 : v3[q].version = Current /\ v3[q].key = Current /\ v2[q].version # Current)'
  BY <1>2 DEF A!RotationInv
<1>7. (\A q \in Rows \ (v4 \cup v8) : v3[q] = v2[q])'
  BY <1>2, <1>3 DEF A!RotationInv
<1>8. (v6 = "idle" => v4 = {} /\ v3 = v2 /\ v5 = A!NoRows)'
  BY <1>2, <1>3 DEF A!RotationInv
<1>. QED BY <1>2, <1>4, <1>5, <1>6, <1>7, <1>8 DEF A!RotationInv

\* The transaction starts on the committed rows.
LEMMA RotationBegin == ASSUME A!RotationInv, A!Begin PROVE A!RotationInv'
<1>1. A!TypeOK'
  BY FS_EmptySet, SameCount DEF A!RotationInv, A!TypeOK, A!Begin
<1>. QED BY <1>1 DEF A!RotationInv, A!Begin, A!Readable

\* Commit and rollback leave a readable table and no lock.
LEMMA RotationLeave ==
  ASSUME A!RotationInv, NEW res \in [Rows -> A!Stored], \A r \in Rows : A!IsReadable(res[r]), A!Leave(res)
  PROVE  A!RotationInv'
<1>1. /\ v6' = "idle" /\ v2' = res /\ v3' = res /\ v4' = {} /\ v5' = A!NoRows /\ v8' = v8 /\ v8 \subseteq Rows
  BY DEF A!Leave, A!RotationInv, A!TypeOK
<1>2. DOMAIN A!NoRows = {}
  BY DEF A!NoRows
<1>3. Cardinality(DOMAIN A!NoRows) <= Batch
  BY <1>2, FS_EmptySet, RotationAssumption
<1>. QED BY <1>1, <1>2, <1>3, SameCount DEF A!RotationInv, A!TypeOK, A!Readable

\* What the commit makes of the table: the rotated rows and the others as they are.
LEMMA Committed ==
  ASSUME A!RotationInv
  PROVE  LET res == [r \in Rows |-> IF r \in v4 THEN v3[r] ELSE v2[r]] IN
         res \in [Rows -> A!Stored] /\ \A r \in Rows : A!IsReadable(res[r])
BY DEF A!RotationInv, A!TypeOK, A!Readable, A!IsReadable

\* A batch holds rows that are not at the current version, so none that the
\* rotation has updated, and no more than LIMIT.
LEMMA RotationSelect == ASSUME A!RotationInv, A!Select PROVE A!RotationInv'
<1>1. CASE A!Pending = {}
  <2>. DEFINE res == [r \in Rows |-> IF r \in v4 THEN v3[r] ELSE v2[r]]
  <2>1. A!Leave(res)
    BY <1>1 DEF A!Select
  <2>2. res \in [Rows -> A!Stored] /\ \A r \in Rows : A!IsReadable(res[r])
    BY Committed
  <2>. HIDE DEF res
  <2>. QED BY <2>1, <2>2, RotationLeave
<1>2. CASE A!Pending # {}
  <2>1. /\ v5' = [r \in A!FirstPending |-> v3[r]] /\ v6' = "rotate"
        /\ v2' = v2 /\ v3' = v3 /\ v4' = v4 /\ v7' = v7 /\ v8' = v8 /\ v6 = "select"
    BY <1>2 DEF A!Select
  <2>2. A!Pending \subseteq Rows /\ A!Pending \in SUBSET Int /\ IsFiniteSet(A!Pending)
    BY RotationAssumption, FS_Subset DEF A!Pending
  <2>3. Cardinality(A!FirstPending) <= Batch
    BY <2>2, FewSelected, RotationAssumption, SameCount DEF A!FirstPending
  <2>4. A!FirstPending \subseteq Rows \ v4 /\ \A r \in A!FirstPending : v3[r].version # Current
    BY DEF A!FirstPending, A!Pending, A!RotationInv
  <2>5. A!TypeOK'
    BY <2>1, <2>3, <2>4, SameCount DEF A!RotationInv, A!TypeOK
  <2>. QED BY <2>1, <2>4, <2>5 DEF A!RotationInv, A!Readable
<1>. QED BY <1>1, <1>2

\* One UPDATE: it locks one more row, which was at another version in the table.
LEMMA RotationRotate ==
  ASSUME A!RotationInv, v6 = "rotate", NEW r \in DOMAIN v5, v2[r].version = v5[r].version, A!Rotate(r)
  PROVE  A!RotationInv'
<1>1. /\ v3' = [v3 EXCEPT ![r] = A!RotateRow(v5[r])] /\ v4' = v4 \cup {r}
      /\ v5' = [q \in DOMAIN v5 \ {r} |-> v5[q]] /\ v6' \in {"select", "rotate"} /\ v7' = v7 + 1
      /\ v2' = v2 /\ v8' = v8
  BY DEF A!Rotate
<1>2. /\ v2 \in [Rows -> A!Stored] /\ v3 \in [Rows -> A!Stored] /\ v4 \subseteq Rows /\ v8 \subseteq Rows
      /\ (\A q \in DOMAIN v5 : v5[q] \in A!Stored) /\ DOMAIN v5 \subseteq Rows \ v4 /\ Cardinality(DOMAIN v5) <= Batch
      /\ r \in Rows /\ r \notin v4 /\ v5[r] \in A!Stored
  BY SameCount DEF A!RotationInv, A!TypeOK
<1>3. /\ A!RotateRow(v5[r]) \in A!Stored
      /\ A!RotateRow(v5[r]).version = Current /\ A!RotateRow(v5[r]).key = Current
  BY <1>2, RotatedRow
<1>4. IsFiniteSet(v4) /\ IsFiniteSet(DOMAIN v5)
  BY <1>2, RotationAssumption, FS_Subset
<1>5. Cardinality(v4) = v7 /\ Cardinality(v4') = v7'
  <2>1. Cardinality(v4 \cup {r}) = Cardinality(v4) + 1
    BY <1>2, <1>4, FS_AddElement
  <2>2. Cardinality(v4) = v7
    BY SameCount DEF A!RotationInv, A!TypeOK
  <2>. QED BY <1>1, <2>1, <2>2
<1>6. Cardinality(DOMAIN v5') <= Batch
  <2>1. DOMAIN v5' = DOMAIN v5 \ {r}
    BY <1>1
  <2>2. Cardinality(DOMAIN v5 \ {r}) <= Cardinality(DOMAIN v5)
    BY <1>4, FS_Subset
  <2>3. Cardinality(DOMAIN v5) \in Nat /\ Cardinality(DOMAIN v5 \ {r}) \in Nat
    BY <1>4, FS_Subset, FS_CardinalityType
  <2>. QED BY <1>2, <2>1, <2>2, <2>3, RotationAssumption
<1>7. A!TypeOK'
  BY <1>1, <1>2, <1>3, <1>5, <1>6, SameCount DEF A!TypeOK
<1>8. (\A q \in v4 : v3[q].version = Current /\ v3[q].key = Current /\ v2[q].version # Current)'
  BY <1>1, <1>2, <1>3 DEF A!RotationInv
<1>9. (\A q \in Rows \ (v4 \cup v8) : v3[q] = v2[q])'
  BY <1>1, <1>2 DEF A!RotationInv
<1>. QED BY <1>1, <1>2, <1>7, <1>8, <1>9 DEF A!RotationInv, A!Readable

LEMMA RotationUpdate == ASSUME A!RotationInv, A!Update PROVE A!RotationInv'
<1>1. PICK r \in DOMAIN v5 :
        IF A!Refused(v5[r]) \/ v2[r].version # v5[r].version THEN A!Leave(v2) ELSE A!Rotate(r)
  BY DEF A!Update
<1>2. CASE A!Leave(v2)
  <2>1. v2 \in [Rows -> A!Stored] /\ \A q \in Rows : A!IsReadable(v2[q])
    BY DEF A!RotationInv, A!TypeOK, A!Readable
  <2>. QED BY <1>2, <2>1, RotationLeave
<1>3. CASE v2[r].version = v5[r].version /\ A!Rotate(r)
  <2>1. v6 = "rotate"
    BY DEF A!Update
  <2>. QED BY <1>3, <2>1, RotationRotate
<1>. QED BY <1>1, <1>2, <1>3

\* Every step of the rotation and of the other clients keeps the invariant.
LEMMA RotationStep == ASSUME A!RotationInv, A!Next PROVE A!RotationInv'
<1>1. CASE A!Begin
  BY <1>1, RotationBegin
<1>2. CASE A!Select
  BY <1>2, RotationSelect
<1>3. CASE A!Update
  BY <1>3, RotationUpdate
<1>4. CASE \E r \in Rows, v \in Declared, t \in Plaintexts \cup {A!Null} : A!Write(r, v, t)
  BY <1>4, RotationWrite
<1>. QED BY <1>1, <1>2, <1>3, <1>4 DEF A!Next

\* The commit of a rotation: each row that no other client wrote is current, and a
\* row that is current in the table, written by another client, is not touched.
LEMMA RotationCommits ==
  ASSUME A!RotationInv, A!Next
  PROVE  A!RotatesAllStep /\ A!NewVersionKeptStep
<1>1. CASE A!Select
  <2>1. CASE A!Pending = {}
    <3>1. /\ v2' = [r \in Rows |-> IF r \in v4 THEN v3[r] ELSE v2[r]]
          /\ \A r \in Rows : v3[r].version = Current
      BY <1>1, <2>1 DEF A!Select, A!Leave, A!Pending
    <3>2. /\ v4 \subseteq Rows /\ v8 \subseteq Rows
          /\ \A r \in v4 : v2[r].version # Current
          /\ \A r \in Rows \ (v4 \cup v8) : v3[r] = v2[r]
      BY DEF A!RotationInv, A!TypeOK
    <3>. QED BY <3>1, <3>2 DEF A!RotatesAllStep, A!NewVersionKeptStep
  <2>2. CASE A!Pending # {}
    BY <1>1, <2>2 DEF A!Select, A!RotatesAllStep, A!NewVersionKeptStep
  <2>. QED BY <2>1, <2>2
<1>2. CASE A!Update
  <2>1. v6 = "rotate" /\ (v6' = "idle" => v2' = v2)
    BY <1>2 DEF A!Update, A!Leave, A!Rotate
  <2>. QED BY <2>1 DEF A!RotatesAllStep, A!NewVersionKeptStep
<1>3. CASE A!Begin
  BY <1>3 DEF A!Begin, A!RotatesAllStep, A!NewVersionKeptStep
<1>4. CASE \E r \in Rows, v \in Declared, t \in Plaintexts \cup {A!Null} : A!Write(r, v, t)
  BY <1>4 DEF A!Write, A!RotatesAllStep, A!NewVersionKeptStep
<1>. QED BY <1>1, <1>2, <1>3, <1>4 DEF A!Next

-----------------------------------------------------------------------------
(* Listener: v1 is arrived, v2 queued, v3 waiter, v4 closed, v5 failure,   *)
(* v6 connection, v7 aborted, v8 state and v9 got.                         *)

\* The answers of receive(), and where one that has none is.
Phases == {"new", "waiting", "closing", "notified", "lost", "config", "canceled"}

\* The parts of the invariant: the types, the order of the notifications and the
\* account of a lost connection.
ListenTypes ==
  /\ v1 \in 0..Notifications
  /\ v3 = "none" \/ (v3 \in Receives /\ v8[v3] = "waiting")
  /\ v4 \in BOOLEAN /\ v5 \in BOOLEAN /\ v7 \in BOOLEAN
  /\ v6 \in {"open", "lost", "unlisten", "end", "ended"}
  /\ v8 \in [Receives -> Phases]

Counted(n) == [i \in 1..n |-> i]

ListenOrder ==
  /\ v2 \in Seq(1..Notifications) /\ v9 \in Seq(1..Notifications)
  /\ v9 \o v2 = Counted(v1)
  /\ v3 # "none" => v2 = <<>>

ListenLoss ==
  /\ v6 = "lost" => (v5 <=> \A r \in Receives : v8[r] # "lost")
  /\ v4 <=> v6 # "open"
  /\ v6 \in {"open", "unlisten"} => ~v5
  /\ v6 \in {"open", "unlisten"} \/ v5 => \A r \in Receives : v8[r] # "lost"
  /\ \A r, q \in Receives : v8[r] = "lost" /\ v8[q] = "lost" => r = q

\* At most one receive reports the loss exactly when two that do are the same.
LEMMA OneReport ==
  ASSUME \A r, q \in Receives : v8[r] = "lost" /\ v8[q] = "lost" => r = q
  PROVE  Cardinality({r \in Receives : v8[r] = "lost"}) <= 1
<1>. DEFINE R == {r \in Receives : v8[r] = "lost"}
<1>1. CASE R = {}
  BY <1>1, FS_EmptySet
<1>2. CASE R # {}
  <2>1. PICK r \in R : TRUE
    BY <1>2
  <2>2. R = {r}
    BY <2>1
  <2>3. Cardinality({r}) = 1
    BY FS_Singleton
  <2>. QED BY <2>2, <2>3
<1>. QED BY <1>1, <1>2

LEMMA ListenParts == L!ListenInv <=> ListenTypes /\ ListenOrder /\ ListenLoss
<1>1. L!TypeOK <=> ListenTypes /\ v2 \in Seq(1..Notifications) /\ v9 \in Seq(1..Notifications)
  <2>1. v3 \in L!Waiting \cup {L!NoReceive} <=> v3 = "none" \/ (v3 \in Receives /\ v8[v3] = "waiting")
    BY Zenon DEF L!Waiting, L!NoReceive
  <2>2. {v4, v5, v7} \subseteq BOOLEAN <=> v4 \in BOOLEAN /\ v5 \in BOOLEAN /\ v7 \in BOOLEAN
    BY Zenon
  <2>. QED BY <2>1, <2>2, Zenon DEF L!TypeOK, ListenTypes, Phases
<1>2. L!LossReportedOnce <=> /\ Cardinality({r \in Receives : v8[r] = "lost"}) <= 1
                             /\ v6 = "lost" => (v5 <=> {r \in Receives : v8[r] = "lost"} = {})
  BY SameCount, Zenon DEF L!LossReportedOnce
<1>3. {r \in Receives : v8[r] = "lost"} = {} <=> \A r \in Receives : v8[r] # "lost"
  BY Zenon
<1>. QED BY <1>1, <1>2, <1>3, OneReport, Zenon DEF L!ListenInv, ListenOrder, Counted, ListenLoss, L!InArrivalOrder, L!NoReceive

LEMMA ListenInit == ASSUME L!Init PROVE L!ListenInv
<1>1. ListenTypes
  <2>1. v1 \in 0..Notifications
    BY ListenerAssumption DEF L!Init
  <2>. QED BY <2>1, Zenon DEF L!Init, ListenTypes, Phases, L!NoReceive
<1>2. ListenOrder
  BY DEF L!Init, ListenOrder, Counted, L!NoReceive
<1>3. ListenLoss
  BY DEF L!Init, ListenLoss
<1>. QED BY <1>1, <1>2, <1>3, ListenParts


\* One more notification continues the count.
LEMMA Counting == ASSUME NEW n \in Nat PROVE Append(Counted(n), n + 1) = Counted(n + 1) /\ Counted(n) \in Seq(Int)
<1>1. Counted(n) \in Seq(Int) /\ Len(Counted(n)) = n /\ \A i \in 1..n : Counted(n)[i] = i
  BY DEF Counted
<1>2. Counted(n + 1) \in Seq(Int) /\ Len(Counted(n + 1)) = n + 1 /\ \A i \in 1..(n + 1) : Counted(n + 1)[i] = i
  BY DEF Counted
<1>. DEFINE a == Append(Counted(n), n + 1)
<1>3. /\ a \in Seq(Int) /\ Len(a) = n + 1
      /\ \A i \in 1..n : a[i] = i
      /\ a[n + 1] = n + 1
  <2>1. n + 1 \in Int
    OBVIOUS
  <2>2. /\ a \in Seq(Int) /\ Len(a) = Len(Counted(n)) + 1
        /\ \A i \in 1..Len(Counted(n)) : a[i] = Counted(n)[i]
        /\ a[Len(Counted(n)) + 1] = n + 1
    BY <1>1, <2>1, AppendProperties
  <2>. HIDE DEF a
  <2>. QED BY <1>1, <2>2
<1>. HIDE DEF a
<1>4. \A i \in 1..Len(a) : a[i] = Counted(n + 1)[i]
  BY <1>2, <1>3
<1>5. a = Counted(n + 1)
  BY <1>2, <1>3, <1>4, SeqEqual
<1>. QED BY <1>1, <1>5 DEF a

\* A notification comes after all others, whether it is queued or answers the
\* receive that waits while nothing is queued.
LEMMA ComesLast ==
  ASSUME NEW S, NEW g \in Seq(S), NEW q \in Seq(S), NEW e \in S
  PROVE  /\ g \o Append(q, e) = Append(g \o q, e)
         /\ q = <<>> => Append(g, e) \o q = Append(g \o q, e)
         /\ Append(q, e) \in Seq(S) /\ Append(g, e) \in Seq(S)
<1>1. /\ Append(q, e) = q \o <<e>> /\ g \o q \in Seq(S) /\ <<e>> \in Seq(S)
      /\ Append(q, e) \in Seq(S) /\ Append(g, e) \in Seq(S)
  BY AppendIsConcat, AppendProperties, ConcatProperties
<1>2. Append(g \o q, e) = (g \o q) \o <<e>>
  BY <1>1, AppendIsConcat, Zenon
<1>. DEFINE u == <<e>>
<1>3. u \in Seq(S)
  BY <1>1
<1>. HIDE DEF u
<1>4. (g \o q) \o u = g \o (q \o u)
  BY <1>3, ConcatAssociative, SMT
<1>5. g \o Append(q, e) = Append(g \o q, e)
  BY <1>1, <1>2, <1>4, Zenon DEF u
<1>6. ASSUME q = <<>> PROVE Append(g, e) \o q = Append(g \o q, e)
  <2>1. Append(g, e) \o <<>> = Append(g, e) /\ g \o <<>> = g
    BY <1>1, ConcatEmptySeq, Zenon
  <2>. QED BY <1>6, <2>1, Zenon
<1>. QED BY <1>1, <1>5, <1>6

\* The number of a notification that arrives follows the last one.
LEMMA Arrival ==
  ASSUME NEW g \in Seq(1..Notifications), NEW q \in Seq(1..Notifications), NEW n \in Nat, n < Notifications
  PROVE  /\ Append(q, n + 1) \in Seq(1..Notifications) /\ Append(g, n + 1) \in Seq(1..Notifications)
         /\ g \o q = Counted(n) => /\ g \o Append(q, n + 1) = Counted(n + 1)
                                   /\ q = <<>> => Append(g, n + 1) \o q = Counted(n + 1)
<1>1. Append(Counted(n), n + 1) = Counted(n + 1)
  BY Counting
<1>. DEFINE N == 1..Notifications
            e == n + 1
<1>2. e \in N /\ g \in Seq(N) /\ q \in Seq(N)
  BY ListenerAssumption
<1>. HIDE DEF N, e
<1>3. /\ g \o Append(q, e) = Append(g \o q, e)
      /\ q = <<>> => Append(g, e) \o q = Append(g \o q, e)
      /\ Append(q, e) \in Seq(N) /\ Append(g, e) \in Seq(N)
  BY <1>2, ComesLast
<1>. QED BY <1>1, <1>3, Zenon DEF N, e

\* Taking the oldest notification from the queue keeps the order.
LEMMA Taking ==
  ASSUME NEW g \in Seq(1..Notifications), NEW q \in Seq(1..Notifications), q # <<>>
  PROVE  /\ Append(g, Head(q)) \o Tail(q) = g \o q
         /\ Append(g, Head(q)) \in Seq(1..Notifications) /\ Tail(q) \in Seq(1..Notifications)
<1>. DEFINE N == 1..Notifications
<1>. HIDE DEF N
<1>1. g \in Seq(N) /\ q \in Seq(N)
  BY DEF N
<1>2. Head(q) \in N /\ Tail(q) \in Seq(N) /\ Head(q) = q[1] /\ <<Head(q)>> \in Seq(N)
  BY <1>1, HeadTailProperties
<1>3. Append(g, Head(q)) \in Seq(N) /\ Append(g, Head(q)) = g \o <<Head(q)>>
  BY <1>1, <1>2, AppendProperties, AppendIsConcat, Zenon
<1>4. q = <<Head(q)>> \o Tail(q)
  <2>1. Len(q) \in Nat \ {0}
    BY <1>1, EmptySeq
  <2>2. 1 \in 1..Len(q) /\ Len(q) \in 1..Len(q) /\ 1 + 1 = 2
    BY <2>1
  <2>3. SubSeq(q, 1, Len(q)) = <<q[1]>> \o SubSeq(q, 1 + 1, Len(q))
    BY <1>1, <2>2, SubSeqRecursiveFirst, Zenon
  <2>4. SubSeq(q, 1, Len(q)) = q /\ Tail(q) = SubSeq(q, 2, Len(q))
    BY <1>1, SubSeqFull, TailIsSubSeq, Zenon
  <2>. QED BY <1>2, <2>2, <2>3, <2>4, Zenon
<1>5. (g \o <<Head(q)>>) \o Tail(q) = g \o (<<Head(q)>> \o Tail(q))
  <2>. DEFINE u == <<Head(q)>>
              t == Tail(q)
  <2>1. u \in Seq(N) /\ t \in Seq(N)
    BY <1>2
  <2>. HIDE DEF u, t
  <2>2. (g \o u) \o t = g \o (u \o t)
    BY <1>1, <2>1, ConcatAssociative, SMT
  <2>. QED BY <2>2, Zenon DEF u, t
<1>. QED BY <1>2, <1>3, <1>4, <1>5, Zenon DEF N

LEMMA ListenNotify == ASSUME ListenTypes, ListenOrder, ListenLoss, L!Notify PROVE ListenTypes' /\ ListenOrder' /\ ListenLoss'
<1>1. /\ v6 \in {"open", "unlisten"} /\ v1 < Notifications /\ v1' = v1 + 1
      /\ v4' = v4 /\ v5' = v5 /\ v6' = v6 /\ v7' = v7
  BY DEF L!Notify
<1>2. v1' \in 0..Notifications /\ v1 \in Nat
  BY <1>1, ListenerAssumption DEF ListenTypes
<1>3. CASE v3 = "none"
  <2>1. v2' = Append(v2, v1 + 1) /\ v3' = v3 /\ v8' = v8 /\ v9' = v9
    BY <1>3, ListenerAssumption DEF L!Notify, L!NoReceive
  <2>2. ListenTypes'
    BY <1>1, <1>2, <2>1, Zenon DEF ListenTypes
  <2>3. ListenOrder'
    <3>0. v9 \in Seq(1..Notifications) /\ v2 \in Seq(1..Notifications) /\ v9 \o v2 = Counted(v1)
      BY Zenon DEF ListenOrder
    <3>1. /\ v9 \in Seq(1..Notifications) /\ v9 \o Append(v2, v1 + 1) = Counted(v1 + 1)
          /\ Append(v2, v1 + 1) \in Seq(1..Notifications)
      BY <1>1, <1>2, <3>0, Arrival
    <3>. QED BY <1>1, <1>3, <2>1, <3>1, Zenon DEF ListenOrder
  <2>4. ListenLoss'
    BY <1>1, <2>1, Zenon DEF ListenLoss
  <2>. QED BY <2>2, <2>3, <2>4
<1>4. CASE v3 # "none"
  <2>1. v3 \in Receives /\ v8 \in [Receives -> Phases]
    BY <1>4, Zenon DEF ListenTypes
  <2>2. v9' = Append(v9, v1 + 1) /\ v3' = "none" /\ v2' = v2 /\ v8' = [v8 EXCEPT ![v3] = "notified"]
    BY <1>4, Zenon DEF L!Notify, L!NoReceive, L!Answer
  <2>3. ListenTypes'
    <3>1. v8' \in [Receives -> Phases]
      BY <2>1, <2>2 DEF Phases
    <3>. QED BY <1>1, <1>2, <2>2, <3>1, Zenon DEF ListenTypes
  <2>4. ListenOrder'
    BY <1>1, <1>2, <1>4, <2>2, Arrival DEF ListenOrder
  <2>5. ListenLoss'
    <3>1. \A r \in Receives : v8[r] # "lost" /\ v8'[r] # "lost"
      BY <1>1, <2>1, <2>2 DEF ListenLoss
    <3>2. v6' # "lost"
      BY <1>1
    <3>. QED BY <1>1, <3>1, <3>2, Zenon DEF ListenLoss
  <2>. QED BY <2>3, <2>4, <2>5
<1>. QED BY <1>3, <1>4

\* What changes neither the notifications nor the receive that waits, or only
\* lets it go, keeps their order.
LEMMA OrderKept ==
  ASSUME ListenOrder, v1' = v1, v2' = v2, v9' = v9, v3' = v3 \/ v3' = "none"
  PROVE  ListenOrder'
BY Zenon DEF ListenOrder

LEMMA ListenLose == ASSUME ListenTypes, ListenOrder, ListenLoss, L!Lose PROVE ListenTypes' /\ ListenOrder' /\ ListenLoss'
<1>1. /\ v6 \in {"open", "unlisten"} /\ v6' \in {"lost", "end"} /\ v4' = TRUE
      /\ v1' = v1 /\ v2' = v2 /\ v7' = v7 /\ v9' = v9
  BY DEF L!Lose
<1>2. ~v5 /\ \A r \in Receives : v8[r] # "lost"
  BY <1>1, Zenon DEF ListenLoss
<1>3. CASE v3 # "none"
  <2>1. v3 \in Receives /\ v8 \in [Receives -> Phases]
    BY <1>3, Zenon DEF ListenTypes
  <2>2. v3' = "none" /\ v8' = [v8 EXCEPT ![v3] = "lost"] /\ v5' = v5
    BY <1>3, Zenon DEF L!Lose, L!NoReceive, L!Answer
  <2>3. v8' \in [Receives -> Phases] /\ \A r \in Receives : v8'[r] = "lost" <=> r = v3
    BY <1>2, <2>1, <2>2 DEF Phases
  <2>4. ListenTypes'
    BY <1>1, <2>2, <2>3, Zenon DEF ListenTypes
  <2>5. ListenOrder'
    BY <1>1, <2>2, OrderKept
  <2>6. ListenLoss'
    <3>1. v6' # "open" /\ v6' \notin {"open", "unlisten"}
      BY <1>1
    <3>. QED BY <1>1, <1>2, <2>1, <2>2, <2>3, <3>1, Zenon DEF ListenLoss
  <2>. QED BY <2>4, <2>5, <2>6
<1>4. CASE v3 = "none"
  <2>1. v5' = TRUE /\ v8' = v8 /\ v3' = v3
    BY <1>4, Zenon DEF L!Lose, L!NoReceive
  <2>2. ListenTypes'
    BY <1>1, <2>1, Zenon DEF ListenTypes
  <2>3. ListenOrder'
    BY <1>1, <2>1, OrderKept
  <2>4. ListenLoss'
    <3>1. v6' # "open" /\ v6' \notin {"open", "unlisten"}
      BY <1>1
    <3>. QED BY <1>1, <1>2, <2>1, <3>1, Zenon DEF ListenLoss
  <2>. QED BY <2>2, <2>3, <2>4
<1>. QED BY <1>3, <1>4

LEMMA ListenCloseStep == ASSUME ListenTypes, ListenOrder, ListenLoss, L!CloseStep PROVE ListenTypes' /\ ListenOrder' /\ ListenLoss'
<1>1. /\ v6 \in {"unlisten", "end"} /\ v6' \in {"end", "ended"}
      /\ v1' = v1 /\ v2' = v2 /\ v3' = v3 /\ v4' = v4 /\ v5' = v5 /\ v7' = v7 /\ v8' = v8 /\ v9' = v9
  BY DEF L!CloseStep
<1>2. v6 # "open" /\ v6' # "open" /\ v6' # "lost" /\ v6' \notin {"open", "unlisten"}
      /\ v6' \in {"open", "lost", "unlisten", "end", "ended"}
  BY <1>1
<1>3. ListenTypes'
  BY <1>1, <1>2, Zenon DEF ListenTypes
<1>4. ListenOrder'
  BY <1>1, OrderKept
<1>5. ListenLoss'
  BY <1>1, <1>2, Zenon DEF ListenLoss
<1>. QED BY <1>3, <1>4, <1>5

\* A receive that gets an answer other than the loss: nobody else's changes.
LEMMA Answered ==
  ASSUME ListenTypes, NEW r \in Receives, v8[r] \in {"new", "closing"}, NEW a \in Phases, a # "lost", L!Answer(r, a)
  PROVE  /\ v8' \in [Receives -> Phases]
         /\ v3 # "none" => v3 \in Receives /\ v8'[v3] = "waiting"
         /\ v8'[r] = a
         /\ \A q \in Receives : v8'[q] = "lost" <=> v8[q] = "lost"
BY DEF ListenTypes, L!Answer

LEMMA ListenCancelled ==
  ASSUME ListenTypes, ListenOrder, ListenLoss, NEW r \in Receives, L!Cancelled(r)
  PROVE  ListenTypes' /\ ListenOrder' /\ ListenLoss'
<1>1. /\ v8[r] = "closing" /\ L!Answer(r, "canceled")
      /\ v1' = v1 /\ v2' = v2 /\ v3' = v3 /\ v4' = v4 /\ v5' = v5 /\ v6' = v6 /\ v7' = v7 /\ v9' = v9
  BY DEF L!Cancelled
<1>2. /\ v8' \in [Receives -> Phases]
      /\ v3 # "none" => v3 \in Receives /\ v8'[v3] = "waiting"
      /\ \A q \in Receives : v8'[q] = "lost" <=> v8[q] = "lost"
  BY <1>1, Answered DEF Phases
<1>3. ListenTypes'
  BY <1>1, <1>2, Zenon DEF ListenTypes
<1>4. ListenOrder'
  BY <1>1, OrderKept
<1>5. ListenLoss'
  BY <1>1, <1>2, Zenon DEF ListenLoss
<1>. QED BY <1>3, <1>4, <1>5

\* close() closes an open subscription and leaves a closed one as it is.
LEMMA CloseBegins ==
  ASSUME ListenTypes, ListenLoss, L!BeginClose
  PROVE  /\ v4' = TRUE /\ v6' \in {"open", "lost", "unlisten", "end", "ended"} /\ v6' # "open"
         /\ v6' # v6 => v6 = "open" /\ v6' = "unlisten"
BY DEF ListenTypes, ListenLoss, L!BeginClose

LEMMA ListenReceive ==
  ASSUME ListenTypes, ListenOrder, ListenLoss, NEW r \in Receives, L!Receive(r)
  PROVE  ListenTypes' /\ ListenOrder' /\ ListenLoss'
<1>1. v8[r] = "new" /\ v1' = v1 /\ v7' = v7
  BY DEF L!Receive
<1>2. CASE v4 /\ L!Answer(r, IF v5 THEN "lost" ELSE "config") /\ v5' = FALSE /\ UNCHANGED <<v2, v9, v3, v4, v6>>
  <2>1. v2' = v2 /\ v9' = v9 /\ v3' = v3 /\ v4' = v4 /\ v6' = v6 /\ v6 # "open"
    BY <1>2 DEF ListenLoss
  <2>2. /\ v8' = [v8 EXCEPT ![r] = IF v5 THEN "lost" ELSE "config"]
        /\ v8 \in [Receives -> Phases] /\ v5 \in BOOLEAN
    BY <1>2, Zenon DEF L!Answer, ListenTypes
  <2>3. /\ v8' \in [Receives -> Phases]
        /\ \A q \in Receives : q # r => v8'[q] = v8[q]
        /\ v5 => v8'[r] = "lost"
        /\ ~v5 => v8'[r] = "config"
    BY <2>2 DEF Phases
  <2>4. ListenTypes'
    <3>1. v3 # "none" => v3 \in Receives /\ v3 # r /\ v8'[v3] = "waiting"
      BY <1>1, <2>3, Zenon DEF ListenTypes
    <3>. QED BY <1>1, <1>2, <2>1, <2>3, <3>1, Zenon DEF ListenTypes
  <2>5. ListenOrder'
    BY <1>1, <2>1, OrderKept
  <2>6. ListenLoss'
    <3>1. v6 \in {"open", "unlisten"} => v6 = "unlisten" /\ ~v5 /\ \A q \in Receives : v8'[q] # "lost"
      BY <2>1, <2>3, Zenon DEF ListenLoss
    <3>2. \A p, q \in Receives : v8'[p] = "lost" /\ v8'[q] = "lost" => p = q
      BY <2>3, Zenon DEF ListenLoss
    <3>3. v6 = "lost" => ~\A q \in Receives : v8'[q] # "lost"
      BY <1>1, <2>3, Zenon DEF ListenLoss
    <3>4. ~v5' /\ v4'
      BY <1>2, <2>1
    <3>. QED BY <2>1, <3>1, <3>2, <3>3, <3>4, Zenon DEF ListenLoss
  <2>. QED BY <2>4, <2>5, <2>6
<1>3. CASE ~v4 /\ v2 # <<>> /\ L!Answer(r, "notified") /\ v9' = Append(v9, Head(v2)) /\ v2' = Tail(v2)
           /\ UNCHANGED <<v5, v3, v4, v6>>
  <2>1. v5' = v5 /\ v3' = v3 /\ v4' = v4 /\ v6' = v6
    BY <1>3
  <2>2. /\ v8' \in [Receives -> Phases]
        /\ v3 # "none" => v3 \in Receives /\ v8'[v3] = "waiting"
        /\ \A q \in Receives : v8'[q] = "lost" <=> v8[q] = "lost"
    BY <1>1, <1>3, Answered DEF Phases
  <2>3. ListenTypes'
    BY <1>1, <2>1, <2>2, Zenon DEF ListenTypes
  <2>4. ListenOrder'
    <3>1. v3 = "none"
      BY <1>3, Zenon DEF ListenOrder
    <3>2. /\ Append(v9, Head(v2)) \o Tail(v2) = v9 \o v2
          /\ Append(v9, Head(v2)) \in Seq(1..Notifications) /\ Tail(v2) \in Seq(1..Notifications)
      BY <1>3, Taking, Zenon DEF ListenOrder
    <3>. QED BY <1>1, <1>3, <2>1, <3>1, <3>2, Zenon DEF ListenOrder
  <2>5. ListenLoss'
    BY <2>1, <2>2, Zenon DEF ListenLoss
  <2>. QED BY <2>3, <2>4, <2>5
<1>4. CASE ~v4 /\ L!Answer(r, "closing") /\ L!BeginClose /\ UNCHANGED <<v5, v2, v9, v3>>
  <2>1. v5' = v5 /\ v2' = v2 /\ v9' = v9 /\ v3' = v3
    BY <1>4
  <2>2. /\ v8' \in [Receives -> Phases]
        /\ v3 # "none" => v3 \in Receives /\ v8'[v3] = "waiting"
        /\ \A q \in Receives : v8'[q] = "lost" <=> v8[q] = "lost"
    BY <1>1, <1>4, Answered DEF Phases
  <2>3. v4' = TRUE /\ v6' = "unlisten" /\ v6 = "open"
    BY <1>4 DEF L!BeginClose, ListenLoss
  <2>4. ListenTypes'
    BY <1>1, <2>1, <2>2, <2>3, Zenon DEF ListenTypes
  <2>5. ListenOrder'
    BY <1>1, <2>1, OrderKept
  <2>6. ListenLoss'
    <3>1. v6' # "open" /\ v6' # "lost"
      BY <2>3
    <3>2. ~v5 /\ \A q \in Receives : v8[q] # "lost"
      BY <2>3 DEF ListenLoss
    <3>3. v5' = v5 /\ \A q \in Receives : v8'[q] # "lost"
      BY <2>1, <2>2, <3>2, Zenon
    <3>. QED BY <2>3, <3>1, <3>2, <3>3, Zenon DEF ListenLoss
  <2>. QED BY <2>4, <2>5, <2>6
<1>5. CASE ~v4 /\ v2 = <<>> /\ L!Answer(r, "waiting") /\ v3' = r /\ UNCHANGED <<v5, v2, v9, v4, v6>>
  <2>1. v5' = v5 /\ v2' = v2 /\ v9' = v9 /\ v4' = v4 /\ v6' = v6
    BY <1>5
  <2>2. v8' \in [Receives -> Phases] /\ v8'[r] = "waiting" /\ \A q \in Receives : v8'[q] = "lost" <=> v8[q] = "lost"
    BY <1>1, <1>5, Answered DEF Phases
  <2>3. ListenTypes'
    BY <1>1, <1>5, <2>1, <2>2, Zenon DEF ListenTypes
  <2>4. ListenOrder'
    BY <1>1, <1>5, <2>1, Zenon DEF ListenOrder
  <2>5. ListenLoss'
    BY <2>1, <2>2, Zenon DEF ListenLoss
  <2>. QED BY <2>3, <2>4, <2>5
<1>. QED BY <1>2, <1>3, <1>4, <1>5, Zenon DEF L!Receive

LEMMA ListenAbort == ASSUME ListenTypes, ListenOrder, ListenLoss, L!Abort PROVE ListenTypes' /\ ListenOrder' /\ ListenLoss'
<1>1. v7' = TRUE /\ v1' = v1 /\ v2' = v2 /\ v5' = v5 /\ v9' = v9
  BY DEF L!Abort
<1>2. CASE UNCHANGED <<v8, v3, v4, v6>>
  <2>1. v8' = v8 /\ v3' = v3 /\ v4' = v4 /\ v6' = v6
    BY <1>2
  <2>2. ListenTypes'
    BY <1>1, <2>1, Zenon DEF ListenTypes
  <2>3. ListenOrder'
    BY <1>1, <2>1, OrderKept
  <2>4. ListenLoss'
    BY <1>1, <2>1, Zenon DEF ListenLoss
  <2>. QED BY <2>2, <2>3, <2>4
<1>3. CASE \E first \in L!Waiting :
             /\ v8' = [r \in Receives |->
                  IF r = first /\ ~v4 THEN "closing" ELSE IF r \in L!Waiting THEN "canceled" ELSE v8[r]]
             /\ v3' = L!NoReceive
             /\ L!BeginClose
  <2>1. v3' = "none" /\ L!BeginClose
    BY <1>3, Zenon DEF L!NoReceive
  <2>2. /\ v8' \in [Receives -> Phases]
        /\ \A q \in Receives : v8'[q] = "lost" <=> v8[q] = "lost"
    <3>1. PICK first \in L!Waiting :
             v8' = [r \in Receives |->
                  IF r = first /\ ~v4 THEN "closing" ELSE IF r \in L!Waiting THEN "canceled" ELSE v8[r]]
      BY <1>3, Zenon
    <3>2. v8 \in [Receives -> Phases] /\ v8[first] = "waiting" /\ \A q \in L!Waiting : v8[q] = "waiting"
      BY Zenon DEF ListenTypes, L!Waiting
    <3>. HIDE DEF L!Waiting
    <3>. QED BY <3>1, <3>2 DEF Phases
  <2>3. /\ v4' = TRUE /\ v6' \in {"open", "lost", "unlisten", "end", "ended"} /\ v6' # "open"
        /\ v6' # v6 => v6 = "open" /\ v6' = "unlisten"
    BY <2>1, CloseBegins
  <2>4. ListenTypes'
    BY <1>1, <2>1, <2>2, <2>3, Zenon DEF ListenTypes
  <2>5. ListenOrder'
    BY <1>1, <2>1, OrderKept
  <2>6. ListenLoss'
    BY <1>1, <2>2, <2>3 DEF ListenLoss
  <2>. QED BY <2>4, <2>5, <2>6
<1>. QED BY <1>2, <1>3, Zenon DEF L!Abort

LEMMA ListenClose == ASSUME ListenTypes, ListenOrder, ListenLoss, L!Close PROVE ListenTypes' /\ ListenOrder' /\ ListenLoss'
<1>1. /\ ~v4 /\ v1' = v1 /\ v2' = v2 /\ v3' = v3 /\ v5' = v5 /\ v7' = v7 /\ v8' = v8 /\ v9' = v9
      /\ v4' = TRUE /\ v6' = "unlisten"
  BY DEF L!Close, L!BeginClose
<1>2. ListenTypes'
  BY <1>1, Zenon DEF ListenTypes
<1>3. ListenOrder'
  BY <1>1, OrderKept
<1>4. ListenLoss'
  <2>1. v6 = "open" /\ v6' # "open" /\ v6' # "lost"
    BY <1>1, Zenon DEF ListenLoss
  <2>. QED BY <1>1, <2>1, Zenon DEF ListenLoss
<1>. QED BY <1>2, <1>3, <1>4

\* Every event and every call keeps the invariant of the subscription.
LEMMA ListenerStep == ASSUME L!ListenInv, L!Next PROVE L!ListenInv'
<1>1. ListenTypes /\ ListenOrder /\ ListenLoss
  BY ListenParts
<1>2. ListenTypes' /\ ListenOrder' /\ ListenLoss'
  BY <1>1, ListenNotify, ListenLose, ListenCloseStep, ListenAbort, ListenClose, ListenReceive, ListenCancelled, Zenon
     DEF L!Next
<1>3. (L!ListenInv <=> ListenTypes /\ ListenOrder /\ ListenLoss)'
  BY ListenParts, PTL
<1>. QED BY <1>2, <1>3

-----------------------------------------------------------------------------
(* PgStatements: v1 is names, v2 parsed, v3 prepared, v4 gone, v5 schema,  *)
(* v6 pc, v7 sql, v8 evicted, v9 held, v10 open, v11 discard, v12 outcome. *)

PgPlaces == {"idle", "query", "again", "ran", "failed", "deallocate"}
PgOutcomes == {"none", "ran", "refused", "missing", "stale", "not deallocated"}
PgForms == [Sqls -> 0..MaxSchema \cup {-1}]

PgTypes ==
  /\ v2 \subseteq Sqls /\ v4 \subseteq Sqls /\ v3 \in PgForms /\ v5 \in 0..MaxSchema
  /\ v6 \in PgPlaces /\ v7 \in Sqls \cup {"none"} /\ v8 \in Sqls \cup {"none"}
  /\ v9 \in BOOLEAN /\ v10 \in BOOLEAN /\ v11 \in BOOLEAN
  /\ v12 \in PgOutcomes

PgNames == v1 \in Seq(Sqls) /\ Len(v1) <= CacheSize /\ \A i, j \in DOMAIN v1 : v1[i] = v1[j] => i = j

\* A client is usable: outside a transaction, with every name that the driver
\* would use known to the server.
Usable(op, ps, pr, gn) == ~op /\ \A s \in ps \ gn : pr[s] # -1

PgUse ==
  /\ v6 \in {"again", "ran", "failed"} => v11
  /\ ~v11 => Usable(v10, v2, v3, v4)
  /\ v6 = "idle" => ~v11
  /\ v6 = "query" => v7 \in Sqls
  /\ v6 = "deallocate" => v8 \in Sqls

LEMMA PgParts == P!ClientInv <=> PgTypes /\ PgNames /\ PgUse
<1>1. /\ {v7, v8} \subseteq Sqls \cup {"none"} <=> v7 \in Sqls \cup {"none"} /\ v8 \in Sqls \cup {"none"}
      /\ {v9, v10, v11} \subseteq BOOLEAN <=> v9 \in BOOLEAN /\ v10 \in BOOLEAN /\ v11 \in BOOLEAN
  BY Zenon
<1>2. P!TypeOK <=> PgTypes /\ PgNames
  BY <1>1, Zenon DEF P!TypeOK, PgTypes, PgNames, PgPlaces, PgOutcomes, PgForms, P!None, P!Absent
<1>. QED BY <1>2, Zenon DEF P!ClientInv, PgUse, P!ClientUsable, P!Absent, Usable

LEMMA PgInit == ASSUME P!Init PROVE P!ClientInv
<1>1. v3 \in PgForms /\ v5 \in 0..MaxSchema
  BY StatementsAssumption DEF P!Init, PgForms, P!Unprepared, P!Absent
<1>2. PgTypes
  BY <1>1, Zenon DEF P!Init, PgTypes, PgPlaces, PgOutcomes, P!None
<1>3. PgNames
  BY StatementsAssumption DEF P!Init, PgNames
<1>4. PgUse
  BY Zenon DEF P!Init, PgUse, Usable
<1>. QED BY <1>2, <1>3, <1>4, PgParts

\* The cache without the text at i, and with it as the newest, holds the same texts.
LEMMA Renewed ==
  ASSUME NEW ns \in Seq(Sqls), \A i, j \in DOMAIN ns : ns[i] = ns[j] => i = j, NEW k \in DOMAIN ns
  PROVE  LET w == [n \in 1..(Len(ns) - 1) |-> ns[IF n < k THEN n ELSE n + 1]]
             a == Append(w, ns[k]) IN
         a \in Seq(Sqls) /\ Len(a) = Len(ns) /\ \A i, j \in DOMAIN a : a[i] = a[j] => i = j
<1>. DEFINE w == [n \in 1..(Len(ns) - 1) |-> ns[IF n < k THEN n ELSE n + 1]]
            a == Append(w, ns[k])
<1>1. Len(ns) \in Nat /\ DOMAIN ns = 1..Len(ns) /\ k \in 1..Len(ns) /\ \A i \in 1..Len(ns) : ns[i] \in Sqls
  OBVIOUS
<1>0. Len(ns) \in Nat
  BY <1>1
<1>2. \A n \in 1..(Len(ns) - 1) : (IF n < k THEN n ELSE n + 1) \in 1..Len(ns) \ {k}
  BY <1>1
<1>3. /\ w \in Seq(Sqls) /\ Len(w) = Len(ns) - 1
      /\ \A n \in 1..(Len(ns) - 1) : w[n] = ns[IF n < k THEN n ELSE n + 1]
  BY <1>1, <1>2
<1>. HIDE DEF w
<1>4. /\ a \in Seq(Sqls) /\ Len(a) = Len(ns) /\ a[Len(ns)] = ns[k] /\ DOMAIN a = 1..Len(ns)
      /\ \A n \in 1..(Len(ns) - 1) : a[n] = w[n]
  <2>1. /\ a \in Seq(Sqls) /\ Len(a) = Len(w) + 1 /\ a[Len(w) + 1] = ns[k]
        /\ \A n \in 1..Len(w) : a[n] = w[n]
    <3>. DEFINE e == ns[k]
    <3>1. w \in Seq(Sqls) /\ e \in Sqls /\ a = Append(w, e)
      BY <1>1, <1>3
    <3>. HIDE DEF e, a
    <3>2. /\ a \in Seq(Sqls) /\ Len(a) = Len(w) + 1 /\ a[Len(w) + 1] = e
          /\ \A n \in 1..Len(w) : a[n] = w[n]
      BY <3>1, AppendProperties
    <3>. QED BY <3>2 DEF e
  <2>2. DOMAIN a = 1..Len(a)
    BY <2>1, LenProperties, Zenon
  <2>3. Len(w) + 1 = Len(ns)
    BY <1>1, <1>3
  <2>. HIDE DEF a
  <2>. QED BY <1>3, <2>1, <2>2, <2>3, Zenon
<1>. HIDE DEF a
<1>5. \A n \in 1..(Len(ns) - 1) : a[n] = ns[IF n < k THEN n ELSE n + 1]
  BY <1>3, <1>4
<1>6. ASSUME NEW i \in DOMAIN a, NEW j \in DOMAIN a, a[i] = a[j] PROVE i = j
  <2>. DEFINE From(n) == IF n = Len(ns) THEN k ELSE IF n < k THEN n ELSE n + 1
  <2>1. ASSUME NEW n \in 1..Len(ns) PROVE From(n) \in DOMAIN ns /\ a[n] = ns[From(n)]
    <3>1. CASE n = Len(ns)
      BY <3>1, <1>1, <1>4
    <3>2. CASE n # Len(ns)
      <4>1. n \in 1..(Len(ns) - 1)
        BY <1>0, <3>2
      <4>. QED BY <3>2, <4>1, <1>1, <1>2, <1>5, Zenon
    <3>. QED BY <3>1, <3>2
  <2>2. ASSUME NEW m \in 1..Len(ns), NEW n \in 1..Len(ns), From(m) = From(n) PROVE m = n
    <3>1. m \in Int /\ n \in Int /\ k \in Int /\ Len(ns) \in Int /\ k <= Len(ns) /\ m <= Len(ns) /\ n <= Len(ns)
      BY <1>1
    <3>2. CASE m = Len(ns)
      BY <2>2, <3>1, <3>2
    <3>3. CASE n = Len(ns)
      BY <2>2, <3>1, <3>3
    <3>4. CASE m # Len(ns) /\ n # Len(ns)
      BY <2>2, <3>1, <3>4
    <3>. QED BY <3>2, <3>3, <3>4
  <2>3. i \in 1..Len(ns) /\ j \in 1..Len(ns)
    BY <1>4
  <2>. HIDE DEF From
  <2>4. ns[From(i)] = ns[From(j)] /\ From(i) \in DOMAIN ns /\ From(j) \in DOMAIN ns
    BY <1>6, <2>1, <2>3, Zenon
  <2>5. From(i) = From(j)
    BY <2>4
  <2>. QED BY <2>2, <2>3, <2>5
<1>. QED BY <1>4, <1>6 DEF w, a

\* A new text is added, and the oldest leaves a full cache.
LEMMA Added ==
  ASSUME NEW ns \in Seq(Sqls), \A i, j \in DOMAIN ns : ns[i] = ns[j] => i = j,
         NEW s \in Sqls, \A i \in DOMAIN ns : ns[i] # s
  PROVE  LET a == Append(ns, s) IN
         /\ a \in Seq(Sqls) /\ Len(a) = Len(ns) + 1 /\ \A i, j \in DOMAIN a : a[i] = a[j] => i = j
         /\ Tail(a) \in Seq(Sqls) /\ Len(Tail(a)) = Len(ns) /\ Head(a) \in Sqls
         /\ \A i, j \in DOMAIN Tail(a) : Tail(a)[i] = Tail(a)[j] => i = j
<1>. DEFINE a == Append(ns, s)
<1>1. /\ Len(ns) \in Nat /\ DOMAIN ns = 1..Len(ns)
      /\ a \in Seq(Sqls) /\ Len(a) = Len(ns) + 1 /\ DOMAIN a = 1..(Len(ns) + 1)
      /\ a[Len(ns) + 1] = s /\ \A i \in 1..Len(ns) : a[i] = ns[i]
  OBVIOUS
<1>. HIDE DEF a
<1>2. a # <<>>
  BY <1>1
<1>3. \A i, j \in DOMAIN a : a[i] = a[j] => i = j
  BY <1>1
<1>4. /\ Tail(a) \in Seq(Sqls) /\ Len(Tail(a)) = Len(ns) /\ Head(a) \in Sqls /\ DOMAIN Tail(a) = 1..Len(ns)
      /\ \A i \in 1..Len(ns) : Tail(a)[i] = a[i + 1]
  BY <1>1, <1>2
<1>5. \A i, j \in DOMAIN Tail(a) : Tail(a)[i] = Tail(a)[j] => i = j
  <2>. SUFFICES ASSUME NEW i \in 1..Len(ns), NEW j \in 1..Len(ns), Tail(a)[i] = Tail(a)[j] PROVE i = j
    BY <1>4
  <2>1. i + 1 \in DOMAIN a /\ j + 1 \in DOMAIN a /\ a[i + 1] = a[j + 1]
    BY <1>1, <1>4
  <2>. QED BY <1>3, <2>1
<1>. QED BY <1>1, <1>3, <1>4, <1>5 DEF a

LEMMA PgName ==
  ASSUME PgNames, NEW s \in Sqls, P!Name(s)
  PROVE  PgNames' /\ v8' \in Sqls \cup {"none"}
<1>1. CASE \E i \in DOMAIN v1 : v1[i] = s /\ v1' = Append(P!Without(i), s) /\ v8' = P!None
  BY <1>1, Renewed DEF PgNames, P!Without, P!None
<1>2. CASE \A i \in DOMAIN v1 : v1[i] # s
  <2>1. CASE Len(v1) < CacheSize /\ v1' = Append(v1, s) /\ v8' = P!None
    BY <1>2, <2>1, Added, StatementsAssumption DEF PgNames, P!None
  <2>2. CASE v1' = Tail(Append(v1, s)) /\ v8' = Head(Append(v1, s))
    BY <1>2, <2>2, Added, StatementsAssumption DEF PgNames
  <2>. QED BY <1>2, <2>1, <2>2, Zenon DEF P!Name
<1>. QED BY <1>1, <1>2, Zenon DEF P!Name

LEMMA PgExecute ==
  ASSUME PgTypes, PgNames, PgUse, NEW s \in Sqls, NEW tx \in BOOLEAN, P!Execute(s, tx)
  PROVE  PgTypes' /\ PgNames' /\ PgUse'
<1>1. /\ v6 = "idle" /\ P!Name(s) /\ v6' = "query" /\ v7' = s /\ v9' = tx /\ v12' = "none"
      /\ v2' = v2 /\ v3' = v3 /\ v4' = v4 /\ v5' = v5 /\ v10' = v10 /\ v11' = v11
  BY DEF P!Execute, P!None
<1>2. PgNames' /\ v8' \in Sqls \cup {"none"}
  BY <1>1, PgName
<1>3. PgTypes'
  BY <1>1, <1>2, Zenon DEF PgTypes, PgPlaces, PgOutcomes
<1>4. PgUse'
  <2>1. v6' \notin {"again", "ran", "failed"} /\ v6' # "idle" /\ v6' # "deallocate"
    BY <1>1
  <2>2. ~v11' => Usable(v10', v2', v3', v4')
    BY <1>1, Zenon DEF PgUse
  <2>. QED BY <1>1, <2>1, <2>2, Zenon DEF PgUse, Usable
<1>. QED BY <1>2, <1>3, <1>4

\* The end of a call: a client that is to be discarded is replaced by a new one,
\* and another one is usable if it was.
LEMMA PgEnd ==
  ASSUME PgTypes, PgNames, NEW o \in PgOutcomes, NEW ps \in SUBSET Sqls, NEW pr \in PgForms, NEW gn \in SUBSET Sqls,
         ~v11 => Usable(v10, ps, pr, gn), P!End(o, ps, pr, gn)
  PROVE  PgTypes' /\ PgNames' /\ PgUse'
<1>1. /\ v12' = o /\ v6' = "idle" /\ v7' = "none" /\ v8' = "none" /\ v9' = FALSE /\ v11' = FALSE /\ v5' = v5
  BY DEF P!End, P!None
<1>2. CASE v11
  <2>1. v1' = <<>> /\ v2' = {} /\ v3' = P!Unprepared /\ v4' = {} /\ v10' = FALSE
    BY <1>2, Zenon DEF P!End
  <2>2. P!Unprepared \in PgForms
    BY DEF P!Unprepared, PgForms, P!Absent
  <2>3. PgTypes'
    BY <1>1, <2>1, <2>2, Zenon DEF PgTypes, PgPlaces
  <2>4. PgNames'
    BY <2>1, StatementsAssumption DEF PgNames
  <2>5. Usable(v10', v2', v3', v4')
    BY <2>1, Zenon DEF Usable
  <2>6. v6' \notin {"again", "ran", "failed"} /\ v6' # "query" /\ v6' # "deallocate" /\ ~v11'
    BY <1>1
  <2>7. PgUse'
    BY <2>5, <2>6, Zenon DEF PgUse, Usable
  <2>. QED BY <2>3, <2>4, <2>7
<1>3. CASE ~v11
  <2>1. v1' = v1 /\ v2' = ps /\ v3' = pr /\ v4' = gn /\ v10' = v10
    BY <1>3, Zenon DEF P!End
  <2>3. PgTypes'
    BY <1>1, <2>1, Zenon DEF PgTypes, PgPlaces
  <2>4. PgNames'
    BY <2>1, Zenon DEF PgNames
  <2>5. Usable(v10', v2', v3', v4')
    BY <1>3, <2>1, Zenon
  <2>6. v6' \notin {"again", "ran", "failed"} /\ v6' # "query" /\ v6' # "deallocate" /\ ~v11'
    BY <1>1
  <2>7. PgUse'
    BY <2>5, <2>6, Zenon DEF PgUse, Usable
  <2>. QED BY <2>3, <2>4, <2>7
<1>. QED BY <1>2, <1>3

\* A statement that ran: the call ends, or the evicted name is deallocated first.
LEMMA PgSucceed ==
  ASSUME PgTypes, PgNames, NEW ps \in SUBSET Sqls, NEW pr \in PgForms,
         ~v11 => Usable(v10, ps, pr, v4), P!Succeed(ps, pr)
  PROVE  PgTypes' /\ PgNames' /\ PgUse'
<1>1. v4 \in SUBSET Sqls /\ "ran" \in PgOutcomes
  BY Zenon DEF PgTypes, PgOutcomes
<1>2. CASE P!End("ran", ps, pr, v4)
  BY <1>1, <1>2, PgEnd
<1>3. CASE /\ v8 # P!None
           /\ v6' = "deallocate" /\ v2' = ps /\ v3' = pr
           /\ UNCHANGED <<v1, v4, v10, v5, P!call, v12>>
  <2>1. /\ v8 \in Sqls /\ v1' = v1 /\ v4' = v4 /\ v10' = v10 /\ v5' = v5 /\ v7' = v7 /\ v8' = v8 /\ v9' = v9
        /\ v11' = v11 /\ v12' = v12
    BY <1>3 DEF PgTypes, P!None, P!call
  <2>2. PgTypes'
    BY <1>3, <2>1, Zenon DEF PgTypes, PgPlaces
  <2>3. PgNames'
    BY <2>1, Zenon DEF PgNames
  <2>4. PgUse'
    <3>1. v6' \notin {"again", "ran", "failed"} /\ v6' # "query" /\ v6' # "idle"
      BY <1>3
    <3>2. ~v11' => Usable(v10', v2', v3', v4')
      BY <1>3, <2>1, Zenon
    <3>. QED BY <2>1, <3>1, <3>2, Zenon DEF PgUse, Usable
  <2>. QED BY <2>2, <2>3, <2>4
<1>. QED BY <1>2, <1>3, Zenon DEF P!Succeed

LEMMA PgParse == ASSUME PgTypes, PgNames, PgUse, P!ParseQuery PROVE PgTypes' /\ PgNames' /\ PgUse'
<1>. DEFINE ps == v2 \cup {v7}
            pr == [v3 EXCEPT ![v7] = v5]
<1>1. v6 = "query" /\ v7 \in Sqls /\ v2 \in SUBSET Sqls /\ v4 \in SUBSET Sqls /\ v3 \in PgForms /\ v5 \in 0..MaxSchema
  BY Zenon DEF P!ParseQuery, PgTypes, PgUse
<1>2. ps \in SUBSET Sqls /\ pr \in PgForms
  BY <1>1 DEF PgForms
<1>3. ~v11 => Usable(v10, v2, v3, v4)
  BY Zenon DEF PgUse
<1>4. ~v11 => Usable(v10, ps, pr, v4)
  <2>1. v5 # -1 /\ \A s \in Sqls : pr[s] = IF s = v7 THEN v5 ELSE v3[s]
    BY <1>1, StatementsAssumption DEF PgForms
  <2>. HIDE DEF pr
  <2>. QED BY <1>1, <1>3, <2>1, Zenon DEF Usable
<1>5. P!Succeed(ps, pr) \/ P!End("refused", ps, pr, v4) \/ P!End("refused", v2, v3, v4)
  BY Zenon DEF P!ParseQuery
<1>6. "refused" \in PgOutcomes
  BY Zenon DEF PgOutcomes
<1>. HIDE DEF ps, pr
<1>. QED BY <1>1, <1>2, <1>3, <1>4, <1>5, <1>6, PgSucceed, PgEnd

LEMMA PgBind == ASSUME PgTypes, PgNames, PgUse, P!BindQuery PROVE PgTypes' /\ PgNames' /\ PgUse'
<1>1. v2 \in SUBSET Sqls /\ v4 \in SUBSET Sqls /\ v3 \in PgForms /\ {"missing", "refused", "stale"} \subseteq PgOutcomes
  BY Zenon DEF PgTypes, PgOutcomes
<1>2. ~v11 => Usable(v10, v2, v3, v4)
  BY Zenon DEF PgUse
<1>3. CASE P!Succeed(v2, v3)
  BY <1>1, <1>2, <1>3, PgSucceed
<1>4. CASE \E o \in {"missing", "refused", "stale"} : P!End(o, v2, v3, v4)
  BY <1>1, <1>2, <1>4, PgEnd
<1>5. CASE v6' = "again" /\ v11' = TRUE /\ UNCHANGED <<P!client, v5, v7, v8, v9, v12>>
  <2>1. /\ v1' = v1 /\ v2' = v2 /\ v3' = v3 /\ v4' = v4 /\ v5' = v5 /\ v7' = v7 /\ v8' = v8 /\ v9' = v9 /\ v10' = v10
        /\ v12' = v12
    BY <1>5 DEF P!client
  <2>2. PgTypes'
    BY <1>5, <2>1, Zenon DEF PgTypes, PgPlaces
  <2>3. PgNames'
    BY <2>1, Zenon DEF PgNames
  <2>4. PgUse'
    <3>1. v11' /\ v6' # "idle" /\ v6' # "query" /\ v6' # "deallocate"
      BY <1>5
    <3>. QED BY <3>1, Zenon DEF PgUse
  <2>. QED BY <2>2, <2>3, <2>4
<1>. QED BY <1>3, <1>4, <1>5, Zenon DEF P!BindQuery

LEMMA PgAgain == ASSUME PgTypes, PgNames, PgUse, P!Again PROVE PgTypes' /\ PgNames' /\ PgUse'
<1>1. /\ v6 = "again" /\ v3' = P!Unprepared /\ v6' \in {"ran", "failed"} /\ (v10' = v10 \/ v10' = TRUE)
      /\ v1' = v1 /\ v2' = v2 /\ v4' = v4 /\ v5' = v5 /\ v7' = v7 /\ v8' = v8 /\ v9' = v9 /\ v11' = v11 /\ v12' = v12
  BY DEF P!Again, P!call
<1>2. P!Unprepared \in PgForms /\ v6' \in PgPlaces
  BY <1>1 DEF P!Unprepared, PgForms, P!Absent, PgPlaces
<1>3. PgTypes'
  BY <1>1, <1>2, Zenon DEF PgTypes
<1>4. PgNames'
  BY <1>1, Zenon DEF PgNames
<1>5. PgUse'
  <2>1. v11 /\ v6' # "idle" /\ v6' # "query" /\ v6' # "deallocate"
    BY <1>1 DEF PgUse
  <2>. QED BY <1>1, <2>1, Zenon DEF PgUse
<1>. QED BY <1>3, <1>4, <1>5

LEMMA PgAgainEnds == ASSUME PgTypes, PgNames, PgUse, P!AgainEnds PROVE PgTypes' /\ PgNames' /\ PgUse'
<1>1. v2 \in SUBSET Sqls /\ v4 \in SUBSET Sqls /\ v3 \in PgForms /\ "refused" \in PgOutcomes
  BY Zenon DEF PgTypes, PgOutcomes
<1>2. ~v11 => Usable(v10, v2, v3, v4)
  BY Zenon DEF PgUse
<1>3. P!Succeed(v2, v3) \/ P!End("refused", v2, v3, v4)
  BY Zenon DEF P!AgainEnds
<1>. QED BY <1>1, <1>2, <1>3, PgSucceed, PgEnd

LEMMA PgDeallocate == ASSUME PgTypes, PgNames, PgUse, P!Deallocate PROVE PgTypes' /\ PgNames' /\ PgUse'
<1>. DEFINE pr == [v3 EXCEPT ![v8] = P!Absent]
            gn == v4 \cup {v8}
<1>1. /\ v6 = "deallocate" /\ v8 \in Sqls /\ v2 \in SUBSET Sqls /\ v4 \in SUBSET Sqls /\ v3 \in PgForms
      /\ "ran" \in PgOutcomes /\ "not deallocated" \in PgOutcomes
  BY Zenon DEF P!Deallocate, PgTypes, PgUse, PgOutcomes
<1>2. gn \in SUBSET Sqls /\ pr \in PgForms /\ \A s \in Sqls : s # v8 => pr[s] = v3[s]
  BY <1>1 DEF PgForms, P!Absent
<1>3. ~v11 => Usable(v10, v2, v3, v4)
  BY Zenon DEF PgUse
<1>4. ~v11 => Usable(v10, v2, pr, gn)
  <2>. HIDE DEF pr
  <2>. QED BY <1>1, <1>2, <1>3, Zenon DEF Usable
<1>5. P!End("not deallocated", v2, v3, v4) \/ P!End("ran", v2, pr, gn)
  BY Zenon DEF P!Deallocate
<1>. HIDE DEF gn, pr
<1>. QED BY <1>1, <1>2, <1>3, <1>4, <1>5, PgEnd

LEMMA PgSchema == ASSUME PgTypes, PgNames, PgUse, P!ChangeSchema PROVE PgTypes' /\ PgNames' /\ PgUse'
<1>1. /\ v1' = v1 /\ v2' = v2 /\ v3' = v3 /\ v4' = v4 /\ v6' = v6 /\ v7' = v7 /\ v8' = v8 /\ v9' = v9 /\ v10' = v10
      /\ v11' = v11 /\ v12' = v12
  BY DEF P!ChangeSchema, P!client, P!call
<1>2. v5' \in 0..MaxSchema
  BY StatementsAssumption DEF P!ChangeSchema, PgTypes
<1>3. PgTypes'
  BY <1>1, <1>2, Zenon DEF PgTypes
<1>4. PgNames'
  BY <1>1, Zenon DEF PgNames
<1>5. PgUse'
  BY <1>1, Zenon DEF PgUse
<1>. QED BY <1>3, <1>4, <1>5

\* Every step of a call, and a schema change of another connection, keeps the
\* invariant of the client.
LEMMA StatementsStep == ASSUME P!ClientInv, P!Next PROVE P!ClientInv'
<1>1. PgTypes /\ PgNames /\ PgUse
  BY PgParts
<1>2. PgTypes' /\ PgNames' /\ PgUse'
  BY <1>1, PgExecute, PgParse, PgBind, PgAgain, PgAgainEnds, PgDeallocate, PgSchema, Zenon DEF P!Next
<1>3. (P!ClientInv <=> PgTypes /\ PgNames /\ PgUse)'
  BY PgParts, PTL
<1>. QED BY <1>2, <1>3

-----------------------------------------------------------------------------
(* The parts together.                                                     *)

LEMMA PartStarts == StartPart => PartInv
<1>. SUFFICES ASSUME StartPart PROVE PartInv
  OBVIOUS
<1>1. Inv
  BY InitInv DEF StartPart
<1>2. CASE part = "markdown"
  BY <1>1, <1>2 DEF PartInv
<1>3. CASE part = "pg" /\ P!Init
  BY <1>1, <1>3, PgInit DEF PartInv
<1>4. CASE part = "listen" /\ L!Init
  BY <1>1, <1>4, ListenInit DEF PartInv
<1>5. CASE part = "aes" /\ A!Init
  BY <1>1, <1>5, RotationInit DEF PartInv
<1>. QED BY <1>2, <1>3, <1>4, <1>5, Zenon DEF StartPart

\* A step that leaves the variables of a part alone keeps its invariant.
LEMMA PoolIdle == ASSUME Inv, UNCHANGED vars PROVE Inv'
BY NextInv

LEMMA PgIdle == ASSUME P!ClientInv, UNCHANGED slots PROVE P!ClientInv'
<1>1. PgTypes /\ PgNames /\ PgUse
  BY PgParts
<1>2. /\ v1' = v1 /\ v2' = v2 /\ v3' = v3 /\ v4' = v4 /\ v5' = v5 /\ v6' = v6 /\ v7' = v7 /\ v8' = v8 /\ v9' = v9
      /\ v10' = v10 /\ v11' = v11 /\ v12' = v12
  BY DEF slots, after9
<1>3. PgTypes' /\ PgNames' /\ PgUse'
  BY <1>1, <1>2, Zenon DEF PgTypes, PgNames, PgUse
<1>4. (P!ClientInv <=> PgTypes /\ PgNames /\ PgUse)'
  BY PgParts, PTL
<1>. QED BY <1>3, <1>4

LEMMA ListenIdle == ASSUME L!ListenInv, UNCHANGED slots PROVE L!ListenInv'
<1>1. ListenTypes /\ ListenOrder /\ ListenLoss
  BY ListenParts
<1>2. /\ v1' = v1 /\ v2' = v2 /\ v3' = v3 /\ v4' = v4 /\ v5' = v5 /\ v6' = v6 /\ v7' = v7 /\ v8' = v8 /\ v9' = v9
  BY DEF slots
<1>3. ListenTypes' /\ ListenOrder' /\ ListenLoss'
  BY <1>1, <1>2, Zenon DEF ListenTypes, ListenOrder, ListenLoss
<1>4. (L!ListenInv <=> ListenTypes /\ ListenOrder /\ ListenLoss)'
  BY ListenParts, PTL
<1>. QED BY <1>3, <1>4

LEMMA RotationIdle == ASSUME A!RotationInv, UNCHANGED slots PROVE A!RotationInv'
<1>1. /\ v1' = v1 /\ v2' = v2 /\ v3' = v3 /\ v4' = v4 /\ v5' = v5 /\ v6' = v6 /\ v7' = v7 /\ v8' = v8 /\ v9' = v9
  BY DEF slots
<1>. QED BY <1>1, Zenon DEF A!RotationInv, A!TypeOK, A!Readable

\* Every step of a part keeps what its state satisfies.
LEMMA PartStep == PartInv /\ [NextOfPart]_all => PartInv'
<1>. SUFFICES ASSUME PartInv, [NextOfPart]_all PROVE PartInv'
  OBVIOUS
<1>1. part \in {"markdown", "pg", "listen", "aes"} /\ Inv
  BY DEF PartInv
<1>2. CASE UNCHANGED all
  <2>1. UNCHANGED vars /\ UNCHANGED slots /\ part' = part
    BY <1>2 DEF all
  <2>. QED BY <1>1, <2>1, PoolIdle, PgIdle, ListenIdle, RotationIdle, Zenon DEF PartInv
<1>3. CASE MarkdownStep(Next)
  <2>1. part = "markdown" /\ part' = part /\ Next
    BY <1>3 DEF MarkdownStep
  <2>2. Inv'
    BY <1>1, <2>1, NextInv
  <2>. QED BY <2>1, <2>2 DEF PartInv
<1>4. CASE part = "pg" /\ P!Next /\ UNCHANGED <<vars, part>>
  <2>1. Inv'
    BY <1>1, <1>4, PoolIdle
  <2>2. P!ClientInv'
    BY <1>4, StatementsStep DEF PartInv
  <2>. QED BY <1>4, <2>1, <2>2 DEF PartInv
<1>5. CASE ListenStep(L!Next)
  <2>1. part = "listen" /\ part' = part /\ L!Next /\ UNCHANGED vars
    BY <1>5 DEF ListenStep
  <2>2. Inv'
    BY <1>1, <2>1, PoolIdle
  <2>3. L!ListenInv'
    BY <2>1, ListenerStep DEF PartInv
  <2>. QED BY <2>1, <2>2, <2>3 DEF PartInv
<1>6. CASE part = "aes" /\ A!Next /\ UNCHANGED <<vars, part, after9>>
  <2>1. Inv'
    BY <1>1, <1>6, PoolIdle
  <2>2. A!RotationInv'
    BY <1>6, RotationStep DEF PartInv
  <2>. QED BY <1>6, <2>1, <2>2 DEF PartInv
<1>. QED BY <1>2, <1>3, <1>4, <1>5, <1>6, Zenon DEF NextOfPart

\* The invariants of the pool, of a PostgreSQL client, of a subscription and of a
\* rotation, in every behaviour of the run.
THEOREM PartsKept == SpecOfPart => []PartInv
BY PartStarts, PartStep, PTL DEF SpecOfPart

\* The counts of the markdown pool are exact and within its bounds, and no waiter
\* is left beside a free place, in every behaviour of the run.
THEOREM PoolKept == SpecOfPart => [](Accounted /\ NoLostWaiter)
<1>1. PartInv => Accounted /\ NoLostWaiter
  BY DEF PartInv, Inv
<1>. QED BY <1>1, PartsKept, PTL

\* A PostgreSQL client keeps every name that it would use prepared and is never
\* left inside a transaction; receive() answers with each notification once and
\* in arrival order, and once with a lost connection; every AES value in the table
\* can be read with the key of its version.
THEOREM DriversHold == SpecOfPart => []DriversSound
<1>1. PartInv => DriversSound
  <2>. SUFFICES ASSUME PartInv PROVE DriversSound
    OBVIOUS
  <2>1. part = "pg" => P!TypeOK /\ P!ClientUsable
    BY DEF PartInv, P!ClientInv
  <2>2. part = "listen" => L!TypeOK /\ L!InArrivalOrder /\ L!LossReportedOnce
    BY DEF PartInv, L!ListenInv
  <2>3. part = "aes" => A!TypeOK /\ A!Readable
    BY DEF PartInv, A!RotationInv
  <2>. QED BY <2>1, <2>2, <2>3
       DEF DriversSound, PartTypeOK, ClientUsable, InArrivalOrder, LossReportedOnce, Readable
<1>. QED BY <1>1, PartsKept, PTL

\* rotate() commits with every row that no other client wrote under the current
\* version, and overwrites no row that another client has written under it.
THEOREM RotationHolds == SpecOfPart => RotationKeeps
<1>. DEFINE RA == part = "aes" => A!RotatesAllStep
            NV == part = "aes" => A!NewVersionKeptStep
<1>1. PartInv /\ [NextOfPart]_all => [RA]_all /\ [NV]_all
  <2>. SUFFICES ASSUME PartInv, NextOfPart, part = "aes" PROVE A!RotatesAllStep /\ A!NewVersionKeptStep
    OBVIOUS
  <2>1. A!Next
    BY DEF NextOfPart, MarkdownStep, ListenStep
  <2>. QED BY <2>1, RotationCommits DEF PartInv
<1>2. SpecOfPart => [][NextOfPart]_all
  BY PTL DEF SpecOfPart
<1>3. SpecOfPart => [][RA]_all /\ [][NV]_all
  BY <1>1, <1>2, PartsKept, PTL
<1>. QED BY <1>3 DEF RotationKeeps, RotatesAll, NewVersionKept

\* acquire(), release() and close() keep the counts of stats() exact and the
\* sessions within bounds.size and bounds.idleSize, whatever waits, connects,
\* fails or is aborted in between.
THEOREM Bounded == Spec => []Accounted
<1>1. Inv => Accounted
  BY DEF Inv
<1>. QED BY <1>1, InitInv, NextInv, PTL DEF Spec

\* No release of a session and no failed connect leaves a call waiting beside a
\* free place that no woken call is about to look at.
THEOREM WakesUp == Spec => []NoLostWaiter
<1>1. Inv => NoLostWaiter
  BY DEF Inv
<1>. QED BY <1>1, InitInv, NextInv, PTL DEF Spec

\* The variables keep their types; the counts never go below zero.
THEOREM PoolTypes == Spec => []TypeOK
<1>1. Inv => TypeOK
  BY DEF Inv
<1>. QED BY <1>1, InitInv, NextInv, PTL DEF Spec
=============================================================================

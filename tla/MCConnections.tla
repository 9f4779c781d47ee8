--------------------------- MODULE MCConnections ---------------------------
(***************************************************************************)
(* The connection layer checked in one run: the pool of markdown sessions, *)
(* whose variables are those of MarkdownPool, the prepared statements of a *)
(* PostgreSQL client, the notification listener, and the rotation of AES   *)
(* keys.  They share no state: a behaviour chooses one part, whose         *)
(* variables are the first of v1 to v12; the others stay Unused, and the   *)
(* markdown pool stays as it started.                                      *)
(***************************************************************************)
EXTENDS MarkdownPool

CONSTANTS
  Sqls, CacheSize, MaxSchema,                        \* PgStatements
  Receives, Notifications,                           \* Listener
  Rows, Declared, Current, Plaintexts, Batch, MaxWrites   \* AesRotation

Unused == "unused"

ASSUME StatementsAssumption == CacheSize \in Nat /\ MaxSchema \in Nat
ASSUME ListenerAssumption == Notifications \in Nat /\ "none" \notin Receives
ASSUME RotationAssumption == IsFiniteSet(Rows) /\ Rows \subseteq Int /\ Current \in Declared /\ Batch \in Nat

VARIABLES part, v1, v2, v3, v4, v5, v6, v7, v8, v9, v10, v11, v12

after9 == <<v10, v11, v12>>
slots == <<v1, v2, v3, v4, v5, v6, v7, v8, v9, after9>>
all == <<vars, part, slots>>

-----------------------------------------------------------------------------
(* The instances.                                                          *)

P == INSTANCE PgStatements WITH
       names <- v1, parsed <- v2, prepared <- v3, gone <- v4, schema <- v5, pc <- v6, sql <- v7, evicted <- v8,
       held <- v9, open <- v10, discard <- v11, outcome <- v12
L == INSTANCE Listener WITH
       arrived <- v1, queued <- v2, waiter <- v3, closed <- v4, failure <- v5, connection <- v6, aborted <- v7,
       state <- v8, got <- v9
A == INSTANCE AesRotation WITH
       Drivers <- {"sqlite", "mysql", "postgres"},
       driver <- v1, rows <- v2, view <- v3, locked <- v4, batch <- v5, pc <- v6, rotated <- v7, written <- v8,
       writes <- v9
-----------------------------------------------------------------------------
(* The run.                                                                *)

NoneAfter9 == v10 = Unused /\ v11 = Unused /\ v12 = Unused
NoSlots ==
  /\ v1 = Unused /\ v2 = Unused /\ v3 = Unused /\ v4 = Unused /\ v5 = Unused /\ v6 = Unused /\ v7 = Unused
  /\ v8 = Unused /\ v9 = Unused /\ NoneAfter9

StartPart ==
  /\ Init
  /\ \/ part = "markdown" /\ NoSlots
     \/ part = "pg" /\ P!Init
     \/ part = "listen" /\ L!Init /\ NoneAfter9
     \/ part = "aes" /\ A!Init /\ NoneAfter9

MarkdownStep(Act) == part = "markdown" /\ Act /\ UNCHANGED <<part, slots>>
ListenStep(Act) == part = "listen" /\ Act /\ UNCHANGED <<vars, part, after9>>

NextOfPart ==
  \/ MarkdownStep(Next)
  \/ part = "pg" /\ P!Next /\ UNCHANGED <<vars, part>>
  \/ ListenStep(L!Next)
  \/ part = "aes" /\ A!Next /\ UNCHANGED <<vars, part, after9>>

\* The fairness of MarkdownPool and Listener.
Fairness ==
  /\ WF_all(MarkdownStep(\E t \in Calls : Resume(t)))
  /\ \A t \in Calls : WF_all(MarkdownStep(Proceed(t)))
  /\ WF_all(ListenStep(L!CloseStep))
  /\ \A r \in Receives : WF_all(ListenStep(L!Cancelled(r)))

SpecOfPart == StartPart /\ [][NextOfPart]_all /\ Fairness

-----------------------------------------------------------------------------
(* The properties of the other parts, each of the behaviours of its part;  *)
(* those of MarkdownPool are checked under their own names.                *)

\* Types of the part that runs (TypeOK of its module).
PartTypeOK ==
  /\ part = "pg" => P!TypeOK
  /\ part = "listen" => L!TypeOK
  /\ part = "aes" => A!TypeOK

\* PgStatements: what pgAgain() does to a client never reaches the next call.
ClientUsable == part = "pg" => P!ClientUsable

\* Listener: receive() returns the notifications in arrival order, each once.
InArrivalOrder == part = "listen" => L!InArrivalOrder

\* Listener: one receive reports a lost connection.
LossReportedOnce == part = "listen" => L!LossReportedOnce

\* Listener: a cancelled receive fails with CANCELED and the subscription closes.
CancelEnds == \A r \in Receives : part = "listen" /\ L!Closing(r) ~> (part = "listen" /\ L!ClosedAfterCancel(r))

\* AesRotation: every committed value can be read with the key of its version.
Readable == part = "aes" => A!Readable

\* AesRotation: a rotation that commits leaves every row that no other client
\* wrote at the current version.
RotatesAll == [][part = "aes" => A!RotatesAllStep]_all

\* AesRotation: rotate() does not overwrite a row that another client has written
\* under the current version since it was read.
NewVersionKept == [][part = "aes" => A!NewVersionKeptStep]_all

\* What the state of each part satisfies besides, so that every step preserves it.
PartInv ==
  /\ part \in {"markdown", "pg", "listen", "aes"} /\ Inv
  /\ part = "pg" => P!ClientInv
  /\ part = "listen" => L!ListenInv
  /\ part = "aes" => A!RotationInv

\* What a driver holds is sound: the prepared statement names of a PostgreSQL
\* client stay usable, receive() delivers each notification once and in order and
\* reports a loss once, and every AES value can be read with its version's key.
DriversSound == PartTypeOK /\ ClientUsable /\ InArrivalOrder /\ LossReportedOnce /\ Readable

\* AesRotation: rotate() brings every row to the current version and overwrites
\* nothing that another client wrote under it.
RotationKeeps == RotatesAll /\ NewVersionKept

\* MarkdownPool and Listener: a call that waits for a session goes on, and a
\* cancelled receive ends.
WaitsEnd == EveryWaiterServed /\ CancelEnds
=============================================================================

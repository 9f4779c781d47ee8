---------------------------- MODULE CatalogStream ----------------------------
(***************************************************************************)
(* One streamed read of the catalog (Session.collect() of catalog.ts): the *)
(* rows are converted as they arrive, under a budget of rows and of bytes, *)
(* and a page stops at the row after its last.  node:sqlite decodes a text *)
(* that is not UTF-8 with U+FFFD; a row that shows one stops the read, and *)
(* the whole answer is read again with the bytes of each text.             *)
(***************************************************************************)
EXTENDS Integers, Sequences, SequencesExt, FiniteSetsExt

CONSTANTS
  Results,    \* the results of a statement: sequences of rows
  Dialects,
  RowLimits, ByteLimits, Keeps    \* maxRows, maxBytes and keep; NoKeep without keep

NoKeep == -1

VARIABLES
  dialect, result, maxRows, maxBytes, keep,
  at,         \* the rows that the stream has delivered
  pass,       \* 1, or 2 while the stored bytes are read
  rows,       \* out.rows
  bytes, past, lossy, overflow, failure,
  stopped,    \* the session is to be discarded
  state       \* "scan", "done" or the error

input == <<dialect, result, maxRows, maxBytes, keep>>
vars == <<input, at, pass, rows, bytes, past, lossy, overflow, failure, stopped, state>>

\* A page asks for one row more than it keeps.
Init ==
  /\ dialect \in Dialects /\ result \in Results
  /\ maxRows \in RowLimits /\ maxBytes \in ByteLimits /\ keep \in Keeps
  /\ keep # NoKeep => maxRows = keep + 1 /\ Len(result) <= keep + 1
  /\ \A i \in 1..Len(result) : result[i].marked => dialect = "sqlite"
  /\ at = 0 /\ pass = 1 /\ rows = <<>> /\ bytes = 0
  /\ past = FALSE /\ lossy = FALSE /\ overflow = FALSE /\ failure = FALSE
  /\ stopped = FALSE /\ state = "scan"

\* The size of a text that was decoded with replacements differs from its bytes.
Size(row) == IF pass = 1 /\ row.marked THEN row.size + 1 ELSE row.size

\* A faulty read that counts a row before it keeps the page's last.
DeliverCounting(row) ==
  /\ IF Len(rows) >= maxRows THEN overflow' = TRUE /\ UNCHANGED <<past, failure, bytes, rows>>
     ELSE IF keep # NoKeep /\ Len(rows) >= keep THEN past' = TRUE /\ UNCHANGED <<overflow, failure, bytes, rows>>
     ELSE IF row.bad THEN failure' = TRUE /\ UNCHANGED <<past, overflow, bytes, rows>>
     ELSE /\ bytes' = bytes + Size(row)
          /\ rows' = Append(rows, [row |-> at + 1, pass |-> pass])
          /\ UNCHANGED <<past, overflow, failure>>

\* deliver(): the sentinel of a page, the row budget, the conversion of the cells and
\* the byte budget, in this order.
Deliver(row) ==
  IF keep # NoKeep /\ Len(rows) >= keep THEN past' = TRUE /\ UNCHANGED <<overflow, failure, bytes, rows>>
  ELSE IF Len(rows) >= maxRows THEN overflow' = TRUE /\ UNCHANGED <<past, failure, bytes, rows>>
  ELSE IF row.bad THEN failure' = TRUE /\ UNCHANGED <<past, overflow, bytes, rows>>
  ELSE /\ bytes' = bytes + Size(row)
       /\ IF bytes + Size(row) > maxBytes
          THEN overflow' = TRUE /\ UNCHANGED <<past, failure, rows>>
          ELSE rows' = Append(rows, [row |-> at + 1, pass |-> pass]) /\ UNCHANGED <<past, overflow, failure>>

Halted == past \/ overflow \/ failure \/ (lossy /\ pass = 1)

\* The row callback of the scan: the first read stops at a row with a replacement.
Row ==
  /\ state = "scan" /\ ~Halted /\ at < Len(result)
  /\ IF pass = 1 /\ result[at + 1].marked
     THEN lossy' = TRUE /\ UNCHANGED <<at, rows, bytes, past, overflow, failure>>
     ELSE Deliver(result[at + 1]) /\ at' = at + 1 /\ UNCHANGED lossy
  /\ UNCHANGED <<input, pass, stopped, state>>

\* A faulty second read that goes on after the rows of the first.
ReadStoredKeeping ==
  /\ state = "scan" /\ pass = 1 /\ lossy
  /\ pass' = 2 /\ at' = 0
  /\ UNCHANGED <<input, rows, bytes, past, lossy, overflow, failure, stopped, state>>

\* sqliteStoredRead(): everything that was kept is thrown away.
ReadStored ==
  /\ state = "scan" /\ pass = 1 /\ lossy
  /\ pass' = 2 /\ at' = 0
  /\ rows' = <<>> /\ bytes' = 0 /\ past' = FALSE
  /\ UNCHANGED <<input, lossy, overflow, failure, stopped, state>>

\* A faulty end that keeps the session after a conversion error.
EndKeeping ==
  /\ state = "scan"
  /\ ~(lossy /\ pass = 1)
  /\ Halted \/ at = Len(result)
  /\ stopped' = overflow
  /\ state' = IF failure THEN "value" ELSE IF overflow THEN "limit" ELSE "done"
  /\ UNCHANGED <<input, at, pass, rows, bytes, past, lossy, overflow, failure>>

\* The scan has ended: a conversion error before the budget's, and the session is
\* marked as stopped.
End ==
  /\ state = "scan"
  /\ ~(lossy /\ pass = 1)
  /\ Halted \/ at = Len(result)
  /\ stopped' = (failure \/ overflow)
  /\ state' = IF failure THEN "value" ELSE IF overflow THEN "limit" ELSE "done"
  /\ UNCHANGED <<input, at, pass, rows, bytes, past, lossy, overflow, failure>>

Next == Row \/ ReadStored \/ End
Spec == Init /\ [][Next]_vars

-----------------------------------------------------------------------------
(* Properties.                                                             *)

\* Types of a result that is read.
TypeOK ==
  /\ at \in 0..Len(result) /\ pass \in {1, 2} /\ bytes \in Nat
  /\ {past, lossy, overflow, failure, stopped} \subseteq BOOLEAN
  /\ state \in {"scan", "done", "limit", "value"}

\* catalog.ts:14: "A result over its budget is refused, never truncated."  An answer
\* holds every row of the result, or the page's rows with past telling whether more
\* follow, and its sizes are within the byte budget.
NeverTruncated ==
  state = "done" =>
    /\ past = (keep # NoKeep /\ Len(result) > keep)
    /\ Len(rows) = (IF past THEN keep ELSE Len(result))
    /\ \A i \in 1..Len(rows) : rows[i].row = i
    /\ FoldLeft(LAMBDA n, r : n + result[r.row].size, 0, rows) <= maxBytes

\* collect(): "no row of the two reads is mixed, so the answer is the result of one
\* execution", and no row that lost its bytes is in an answer.
OneExecution ==
  /\ \A i, j \in 1..Len(rows) : rows[i].pass = rows[j].pass
  /\ state = "done" => \A i \in 1..Len(rows) : result[rows[i].row].marked => rows[i].pass = 2

\* Session.stopped: on MySQL and PostgreSQL a connection on which rows were not read
\* is never used for the rest of the session.
UnreadDiscards == state # "scan" /\ dialect # "sqlite" /\ at < Len(result) => stopped
=============================================================================

---------------------------- MODULE PgStatements ----------------------------
(***************************************************************************)
(* The prepared statements of one PostgreSQL client (StatementNames,       *)
(* pgExecute() and pgAgain() of driver.ts).  The client library notes each *)
(* name it has parsed and never parses it again; the driver keeps the      *)
(* names in a cache of limited size, deallocates an evicted one after the  *)
(* statement, and runs a statement whose prepared form is older than a     *)
(* schema change once more without a name.  A name stands for its SQL.     *)
(***************************************************************************)
EXTENDS Integers, Sequences

CONSTANTS
  Sqls,        \* the statement texts
  CacheSize,   \* statementCacheSize
  MaxSchema    \* bound on the schema changes

None == "none"
Absent == -1

VARIABLES
  names,      \* StatementNames: the texts it holds, oldest use first
  parsed,     \* the names that pg lists as parsed
  prepared,   \* the schema version under which the server prepared each name
  gone,       \* the names that the driver deallocated on this client
  schema,     \* the schema version of the database
  pc,         \* where the running call is
  sql, evicted,   \* the text of the call, and the text that its name evicted
  held,       \* the call runs in a transaction's session
  open,       \* the transaction of pgAgain() is open on the server
  discard,    \* again() was called: the client does not return to the pool
  outcome     \* how the last call ended

client == <<names, parsed, prepared, gone, open>>
call == <<sql, evicted, held, discard>>
vars == <<client, schema, pc, call, outcome>>

Unprepared == [s \in Sqls |-> Absent]

Init ==
  /\ names = <<>> /\ parsed = {} /\ prepared = Unprepared /\ gone = {} /\ open = FALSE
  /\ schema = 0
  /\ pc = "idle" /\ sql = None /\ evicted = None /\ held = FALSE /\ discard = FALSE
  /\ outcome = None

\* A faulty cache that does not look for the text before it adds it.
NameTwice(s) ==
  LET all == Append(names, s) IN
  IF Len(all) <= CacheSize
  THEN names' = all /\ evicted' = None
  ELSE names' = Tail(all) /\ evicted' = Head(all)

\* The texts without the one at i.
Without(i) == [n \in 1..(Len(names) - 1) |-> names[IF n < i THEN n ELSE n + 1]]

\* StatementNames.name(): a text that is held becomes the newest; a new one is
\* added, and the oldest leaves when the cache is over its limit.
Name(s) ==
  \/ \E i \in DOMAIN names : names[i] = s /\ names' = Append(Without(i), s) /\ evicted' = None
  \/ /\ \A i \in DOMAIN names : names[i] # s
     /\ IF Len(names) < CacheSize
        THEN names' = Append(names, s) /\ evicted' = None
        ELSE names' = Tail(Append(names, s)) /\ evicted' = Head(Append(names, s))

\* execute() of the pool, or of a session.
Execute(s, tx) ==
  /\ pc = "idle"
  /\ Name(s)
  /\ pc' = "query" /\ sql' = s /\ held' = tx /\ outcome' = None
  /\ UNCHANGED <<parsed, prepared, gone, schema, open, discard>>

\* The call ends with pg's list ps and the server's statements pr.  The pool
\* closes a client that is to be discarded and opens a new one.
End(o, ps, pr, gn) ==
  /\ outcome' = o
  /\ pc' = "idle" /\ sql' = None /\ evicted' = None /\ held' = FALSE /\ discard' = FALSE
  /\ names' = IF discard THEN <<>> ELSE names
  /\ parsed' = IF discard THEN {} ELSE ps
  /\ prepared' = IF discard THEN Unprepared ELSE pr
  /\ gone' = IF discard THEN {} ELSE gn
  /\ open' = IF discard THEN FALSE ELSE open
  /\ UNCHANGED schema

Succeed(ps, pr) ==
  \/ evicted = None /\ End("ran", ps, pr, gone)
  \/ /\ evicted # None
     /\ pc' = "deallocate" /\ parsed' = ps /\ prepared' = pr
     /\ UNCHANGED <<names, gone, open, schema, call, outcome>>

\* A name that pg has not listed: the server parses it, unless it refuses the
\* text, and runs it, unless the statement fails.
ParseQuery ==
  /\ pc = "query"
  /\ sql \notin parsed
  /\ LET ps == parsed \cup {sql}
         pr == [prepared EXCEPT ![sql] = schema] IN
     \/ Succeed(ps, pr)
     \/ End("refused", ps, pr, gone)
     \/ End("refused", parsed, prepared, gone)

\* A faulty pgExecute() that keeps the client after the second attempt.
BindQueryKeeping ==
  /\ pc = "query"
  /\ sql \in parsed
  /\ \/ prepared[sql] # Absent /\ Succeed(parsed, prepared)
     \/ /\ prepared[sql] \notin {Absent, schema} /\ ~held
        /\ pc' = "again"
        /\ UNCHANGED <<client, schema, call, outcome>>

\* A name that pg lists as parsed is bound without parsing.  The server may
\* refuse one that it prepared before a schema change: outside a transaction it
\* runs again and the client will be discarded.
BindQuery ==
  /\ pc = "query"
  /\ sql \in parsed
  /\ \/ prepared[sql] = Absent /\ End("missing", parsed, prepared, gone)
     \/ prepared[sql] # Absent /\ Succeed(parsed, prepared)
     \/ prepared[sql] # Absent /\ End("refused", parsed, prepared, gone)
     \/ prepared[sql] \notin {Absent, schema} /\ held /\ End("stale", parsed, prepared, gone)
     \/ /\ prepared[sql] \notin {Absent, schema} /\ ~held
        /\ pc' = "again" /\ discard' = TRUE
        /\ UNCHANGED <<client, schema, sql, evicted, held, outcome>>

\* pgAgain(): BEGIN, DEALLOCATE ALL, the statement without a name and COMMIT; a
\* statement that fails leaves the transaction open.
Again ==
  /\ pc = "again"
  /\ prepared' = Unprepared
  /\ \/ pc' = "ran" /\ UNCHANGED open
     \/ pc' = "failed" /\ open' = TRUE
  /\ UNCHANGED <<names, parsed, gone, schema, call, outcome>>

AgainEnds ==
  \/ pc = "ran" /\ Succeed(parsed, prepared)
  \/ pc = "failed" /\ End("refused", parsed, prepared, gone)

\* DEALLOCATE of the evicted name, on the same connection.
Deallocate ==
  /\ pc = "deallocate"
  /\ \/ prepared[evicted] = Absent /\ End("not deallocated", parsed, prepared, gone)
     \/ /\ prepared[evicted] # Absent
        /\ End("ran", parsed, [prepared EXCEPT ![evicted] = Absent], gone \cup {evicted})

\* Another connection changes the schema.
ChangeSchema ==
  /\ schema < MaxSchema
  /\ schema' = schema + 1
  /\ UNCHANGED <<client, pc, call, outcome>>

Next ==
  \/ \E s \in Sqls, tx \in BOOLEAN : Execute(s, tx)
  \/ ParseQuery
  \/ BindQuery
  \/ Again
  \/ AgainEnds
  \/ Deallocate
  \/ ChangeSchema

Spec == Init /\ [][Next]_vars

-----------------------------------------------------------------------------
(* Properties.                                                             *)

\* Types of the client; the cache holds each text once and stays within
\* statementCacheSize.
TypeOK ==
  /\ names \in Seq(Sqls) /\ Len(names) <= CacheSize
  /\ \A i, j \in DOMAIN names : names[i] = names[j] => i = j
  /\ parsed \subseteq Sqls /\ gone \subseteq Sqls
  /\ prepared \in [Sqls -> 0..MaxSchema \cup {Absent}]
  /\ schema \in 0..MaxSchema
  /\ pc \in {"idle", "query", "again", "ran", "failed", "deallocate"}
  /\ {sql, evicted} \subseteq Sqls \cup {None}
  /\ {held, open, discard} \subseteq BOOLEAN
  /\ outcome \in {None, "ran", "refused", "missing", "stale", "not deallocated"}

\* What pgAgain() does to a client never reaches the next call: no client goes
\* back to the pool inside the transaction of a failed second attempt, or with
\* names that DEALLOCATE ALL took from the server.
ClientUsable ==
  pc = "idle" => ~open /\ \A s \in parsed \ gone : prepared[s] # Absent

\* What ClientUsable rests on, preserved by every step: from the second attempt to
\* the end of its call the client is marked to be discarded, and a client that is
\* not marked is usable.
ClientInv ==
  /\ TypeOK /\ ClientUsable
  /\ pc \in {"again", "ran", "failed"} => discard
  /\ ~discard => ~open /\ \A s \in parsed \ gone : prepared[s] # Absent
  /\ pc = "idle" => ~discard
  /\ pc = "query" => sql \in Sqls
  /\ pc = "deallocate" => evicted \in Sqls
=============================================================================

------------------------------- MODULE MCTools -------------------------------
(***************************************************************************)
(* The tools of the repository checked in one run: one step of the checks, *)
(* whose variables are those of StepRun, the test servers, the migration   *)
(* of their MySQL data, a run of the checks, the search of a document's    *)
(* set, and the editor server with dbspec-fmt.  They share no state: a     *)
(* behaviour chooses one part, whose variables are the first of v1 to v18; *)
(* the others stay Unused, and no step is started.                         *)
(***************************************************************************)
EXTENDS StepRun, Sequences, FiniteSets, TLC

CONSTANTS
  Starters, MaxStarts,   \* TestServers
  MaxVersion,            \* MySqlMigration
  Runs,                  \* CheckRun
  MaxChanges,            \* SetResolution
  MaxEdits, MaxQueue     \* EditorServer

Unused == "unused"

VARIABLES part, v1, v2, v3, v4, v5, v6, v7, v8, v9, v10, v11, v12, v13, v14, v15, v16, v17, v18

after14 == <<v15, v16, v17, v18>>
after12 == <<v13, v14, after14>>
after10 == <<v11, v12, after12>>
slots == <<v1, v2, v3, v4, v5, v6, v7, v8, v9, v10, after10>>
all == <<vars, part, slots>>

-----------------------------------------------------------------------------
(***************************************************************************)
(* The file systems that SetResolution is checked with: /w/d/a.dbs is the  *)
(* document, /w/d and /w may hold a set file, and the tree has at most one *)
(* entry that is not a plain file or directory.                            *)
(***************************************************************************)
FsDocument == <<"w", "d", "a.dbs">>
FsDbs == {"a.dbs", "b.dbs", "c.dbs"}

FsEntry(kind, ino) == [kind |-> kind, ino |-> ino, to |-> <<"w", "d">>, exact |-> TRUE]
FsFull ==
  <<"w">> :> FsEntry("directory", 0) @@ <<"w", "d">> :> FsEntry("directory", 0) @@ <<"w", "l">> :> FsEntry("link", 0)
  @@ <<"w", "set">> :> FsEntry("file", 1) @@ <<"w", "d", "set">> :> FsEntry("file", 2) @@ <<"w", "d", "a.dbs">> :> FsEntry("file", 3)
  @@ <<"w", "d", "b.dbs">> :> FsEntry("file", 4) @@ <<"w", "c.dbs">> :> FsEntry("file", 5)

\* The trees that differ from f at path x: a link, a directory that cannot be
\* listed, no entry, a directory, another case of the name, one file twice.
FsWithout(f, x) == [p \in DOMAIN f \ {x} |-> f[p]]
FsPut(f, x, e) == [f EXCEPT ![x] = e]
FsChanged(f, x) ==
  LET e == f[x] IN
  IF e.kind = "directory"
  THEN {FsPut(f, x, [e EXCEPT !.kind = "link", !.to = <<"w">>]), FsPut(f, x, [e EXCEPT !.kind = "sealed"])}
  ELSE {FsWithout(f, x), FsPut(f, x, [e EXCEPT !.kind = "link", !.to = <<"w", "d", "b.dbs">>]),
        FsPut(f, x, [e EXCEPT !.kind = "directory"]), FsPut(f, x, [e EXCEPT !.exact = FALSE]), FsPut(f, x, [e EXCEPT !.ino = 4])}

\* The contents of the upper and the lower set file and of the three documents.
FsSetFile(ds, es) == [good |-> TRUE, documents |-> ds, external |-> es, name |-> ""]
FsText(name) == [good |-> FALSE, documents |-> <<>>, external |-> <<>>, name |-> name]
FsLower ==
  {FsSetFile(<<<<"a.dbs">>, <<"b.dbs">>>>, <<<<"..", "c.dbs">>>>),
   FsSetFile(<<<<"b.dbs">>, <<"a.dbs">>>>, <<>>),
   FsSetFile(<<<<"a.dbs">>>>, <<<<"..", "l", "b.dbs">>>>),
   FsSetFile(<<<<"a.dbs">>>>, <<<<"..", "d", "b.dbs">>, <<"..", "..", "w", "c.dbs">>>>),
   FsSetFile(<<<<"a.dbs">>, <<"b.dbs">>, <<"b.dbs">>>>, <<>>),
   FsSetFile(<<<<"a.dbs">>, <<"..", "c.dbs">>>>, <<>>),
   FsSetFile(<<<<"a.dbs">>>>, <<<<"..", "c.dbs", "..", "c.dbs">>>>),
   FsText("x")}
FsUpper ==
  {FsSetFile(<<<<"c.dbs">>>>, <<>>),
   FsSetFile(<<<<"d", "b.dbs">>, <<"d", "a.dbs">>, <<"c.dbs">>>>, <<>>),
   FsSetFile(<<<<"l", "a.dbs">>, <<"d", "a.dbs">>>>, <<>>),
   FsSetFile(<<<<"d", "a.dbs">>>>, <<<<"l", "b.dbs">>>>)}
FsNamesGiven == {<<"n", "o", "p">>, <<"n", "n", "p">>, <<"n", "o", "o">>, <<"", "o", "p">>, <<"n", "", "p">>}
FsBytes(ns) == {<<u, l, FsText(n[1]), FsText(n[2]), FsText(n[3])>> : u \in FsUpper, l \in FsLower, n \in ns}

FsNoUpper == FsWithout(FsFull, <<"w", "set">>)
FsNoLower == FsWithout(FsFull, <<"w", "d", "set">>)
FsOneOff == {FsFull} \cup UNION {FsChanged(FsFull, x) : x \in DOMAIN FsFull}
FsTrees ==
  {[entries |-> f, bytes |-> b] : f \in {FsFull, FsNoUpper, FsNoLower}, b \in FsBytes(FsNamesGiven)}
  \cup {[entries |-> f, bytes |-> b] :
          f \in FsOneOff \cup {FsWithout(f, <<"w", "d", "set">>) : f \in FsOneOff} \cup {FsWithout(f, <<"w", "set">>) : f \in FsOneOff},
          b \in FsBytes({<<"n", "o", "p">>})}

\* A tree with only the lower set file may change under the search.
FsChanges(t) ==
  IF t.entries = FsNoUpper /\ t.bytes[1] = FsSetFile(<<<<"c.dbs">>>>, <<>>) /\ t.bytes[3].name = "n" /\ t.bytes[4].name = "o"
  THEN {[t EXCEPT !.entries = f] : f \in UNION {FsChanged(t.entries, x) : x \in DOMAIN t.entries}}
  ELSE {}

-----------------------------------------------------------------------------
(* The instances.                                                          *)

StartOrder == <<"mysql", "proxysql">>
StopOrder == <<"proxysql", "mysql">>
Targets == <<"cases">>
NeedsOf(t) == {"privilege"}

S == INSTANCE TestServers WITH
       Procs <- Starters,
       dir <- v1, env <- v2, pid <- v3, running <- v4, lost <- v5, excl <- v6, shared <- v7, starts <- v8, pc <- v9,
       op <- v10, ports <- v11, at <- v12, failed <- v13, rewrote <- v14
M == INSTANCE MySqlMigration WITH
       setting <- v1, up <- v2, data <- v3, kept <- v4, work <- v5, done <- v6, dump <- v7, last <- v8, pc <- v9,
       part <- v10, found <- v11, verified <- v12
C == INSTANCE CheckRun WITH
       pc <- v1, ready <- v2, blocked <- v3, setup <- v4, status <- v5, next <- v6, lost <- v7, disk <- v8, exit <- v9,
       db <- v10
F == INSTANCE SetResolution WITH
       Document <- FsDocument, SetName <- "set", Dbs <- FsDbs, Trees <- FsTrees, Changes <- FsChanges,
       tree <- v1, changes <- v2, given <- v3, pc <- v4, depth <- v5, owners <- v6, errors <- v7, i <- v8, j <- v9,
       passed <- v10, files <- v11, result <- v12

\* Two files: one declares x, with or without a table; the other uses x.
Text(n, tb, u, b, c) == [name |-> n, table |-> tb, uses |-> u, bad |-> b, canonical |-> c]
Base == Text("x", TRUE, "", FALSE, TRUE)
User == Text("y", FALSE, "x", FALSE, FALSE)
Texts ==
  {Base, Text("x", FALSE, "", FALSE, TRUE), Text("", FALSE, "", FALSE, TRUE)}
  \cup {Text("y", FALSE, "x", b, c) : b \in BOOLEAN, c \in BOOLEAN}
Disks == {[a |-> Base, b |-> User], [a |-> User, b |-> [name |-> "absent"]]}
E == INSTANCE EditorServer WITH
       Order <- <<"a", "b">>,
       disk <- v1, setFile <- v2, editor <- v3, pending <- v4, watching <- v5, queue <- v6, texts <- v7, analyses <- v8,
       todo <- v9, byUri <- v10, busy <- v11, published <- v12, shown <- v13, reply <- v14, fmt <- v15, status <- v16,
       disturbed <- v17, edits <- v18

-----------------------------------------------------------------------------
(* The run.                                                                *)

NoneAfter14 == v15 = Unused /\ v16 = Unused /\ v17 = Unused /\ v18 = Unused
NoneAfter12 == v13 = Unused /\ v14 = Unused /\ NoneAfter14

NoneAfter10 == v11 = Unused /\ v12 = Unused /\ NoneAfter12
NoSlots ==
  /\ v1 = Unused /\ v2 = Unused /\ v3 = Unused /\ v4 = Unused /\ v5 = Unused /\ v6 = Unused /\ v7 = Unused
  /\ v8 = Unused /\ v9 = Unused /\ v10 = Unused /\ NoneAfter10

StartPart ==
  /\ Init
  /\ \/ part = "step" /\ NoSlots
     \/ part = "servers" /\ S!Init /\ NoneAfter14
     \/ part = "migration" /\ M!Init /\ NoneAfter12
     \/ part = "checks" /\ C!Init /\ NoneAfter10
     \/ part = "files" /\ F!Init /\ NoneAfter12
     \/ part = "editor" /\ E!Init

StepStep(Act) == part = "step" /\ Act /\ UNCHANGED <<part, slots>>
ServersStep(Act) == part = "servers" /\ Act /\ UNCHANGED <<vars, part, after14>>

NextOfPart ==
  \/ StepStep(Next)
  \/ ServersStep(S!Next)
  \/ part = "migration" /\ M!Next /\ UNCHANGED <<vars, part, after12>>
  \/ part = "checks" /\ C!Next /\ UNCHANGED <<vars, part, after10>>
  \/ part = "files" /\ F!Next /\ UNCHANGED <<vars, part, after12>>
  \/ part = "editor" /\ E!Next /\ UNCHANGED <<vars, part>>

\* The fairness of TestServers and StepRun.
Fairness ==
  /\ \A p \in Starters : WF_all(ServersStep(S!Step(p)))
  /\ WF_all(StepStep(RunnerStep))
  /\ \A p \in Children : WF_all(StepStep(LeftEnds(p)))

SpecOfPart == StartPart /\ [][NextOfPart]_all /\ Fairness

-----------------------------------------------------------------------------
(* The properties of the other parts, each of the behaviours of its part;  *)
(* those of StepRun are checked under their own names.                     *)

\* Types of the part that runs (TypeOK of its module).
PartTypeOK ==
  /\ part = "servers" => S!TypeOK
  /\ part = "migration" => M!TypeOK
  /\ part = "checks" => C!TypeOK
  /\ part = "files" => F!TypeOK
  /\ part = "editor" => E!TypeOK

\* TestServers: at most one server runs on a data directory, whatever starts and
\* stops interleave, fail or are killed.
NoSecondServer == part = "servers" => S!NoSecondServer

\* TestServers: the environment file names the servers that run.
EnvNamesServers == part = "servers" => S!EnvNamesServers

\* TestServers: no start and no stop takes a server from the holder of a lease.
LeasedServersStay == [][part = "servers" => S!LeasedServersStayStep]_all

\* TestServers: a start ends.
StartEnds == \A p \in Starters : part = "servers" /\ S!Starting(p) ~> (part = "servers" /\ ~S!Starting(p))

\* MySqlMigration: the data that a migration found has a copy after every step.
FoundDataKept == [][part = "migration" => M!FoundDataKeptStep]_all

\* MySqlMigration: a verified migration is recorded with the dumped data in place.
RecordedIsDump == [][part = "migration" => M!RecordedIsDumpStep]_all

\* CheckRun: while a target runs, what it needs is prepared.
NeedsPrepared == part = "checks" => C!NeedsPrepared

\* CheckRun: a record on disk that says passed is true.
PassedIsTrue == part = "checks" => C!PassedIsTrue

\* CheckRun: a run that reaches its end leaves no database without saying so.
LeavesNothing == part = "checks" => C!LeavesNothing

\* CheckRun: what dead runs left is dropped before a run creates its databases.
DeadDropped == [][part = "checks" => C!DeadDroppedStep]_all

\* SetResolution: a set is made of every file of its set file.
NoPartialSet == part = "files" => F!NoPartialSet

\* SetResolution: a document has the set of the nearest set file that lists it.
ResolvesNearest == part = "files" => F!ResolvesNearest

\* SetResolution: every file of a set is in it or has its diagnostic.
EveryFileAccounted == part = "files" => F!EveryFileAccounted

\* EditorServer: the client shows what the buffers and the disk say.
NeverStale == part = "editor" => E!NeverStale

\* EditorServer: a formatting edit formats the text that the buffer has.
FormatsOwnText == [][part = "editor" => E!FormatsOwnTextStep]_all

\* EditorServer: dbspec-fmt --write leaves canonical files.
WriteSettles == part = "editor" => E!WriteSettles

\* The servers and runs that share a checkout stay apart: one server on a data
\* directory, named by the environment file, and runs that have what they need, tell
\* the truth and leave nothing.
RunsSound == PartTypeOK /\ NoSecondServer /\ EnvNamesServers /\ NeedsPrepared /\ PassedIsTrue /\ LeavesNothing

\* A document has its whole set or none, and the editor and dbspec-fmt show and
\* write what the files and buffers say.
EditorSound == NoPartialSet /\ ResolvesNearest /\ EveryFileAccounted /\ NeverStale /\ WriteSettles

\* No step of the tools takes a leased server, the last copy of migrated data, the
\* database of a live run or text that was typed meanwhile.
ToolsKeep == LeasedServersStay /\ FoundDataKept /\ RecordedIsDump /\ DeadDropped /\ FormatsOwnText

\* A start of the servers ends, and a program that exits is settled.
ToolsEnd == StartEnds /\ ExitSettles
=============================================================================

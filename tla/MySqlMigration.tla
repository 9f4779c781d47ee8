--------------------------- MODULE MySqlMigration ---------------------------
(***************************************************************************)
(* The MySQL migration of the test servers (scripts/test-servers-mysql.mts *)
(* and the start() that calls it): when lower_case_table_names of the data *)
(* directory differs from the declared one, the data is dumped, the old    *)
(* directories are kept aside, and new servers are filled from the dump.   *)
(* Progress is recorded step by step, so that a run that failed or was     *)
(* killed is resumed by the next start.  The contents of a data directory  *)
(* are a version: 0 is a new server, and each write of a user makes a      *)
(* later one.                                                              *)
(***************************************************************************)
EXTENDS Integers, Sequences, FiniteSets, SequencesExt

CONSTANT MaxVersion   \* bound on the versions of the data

None == -1
Names == <<"mysql", "mysql-replica">>   \* the data directories, primary first
Dirs == {"mysql", "mysql-replica"}
Steps == <<"preflight", "dump", "stop", "keep", "start", "restore", "verify", "record">>

VARIABLES
  setting,   \* the settings of the servers, of "old" and "declared"
  up,        \* the servers that run
  data,      \* the contents of each data directory
  kept,      \* the contents of the directories kept aside
  work,      \* the work folder of the migration exists
  done,      \* the steps it records as done
  dump,      \* the contents that its dump and its counts hold
  last,      \* the latest version written
  pc,        \* the step that the running migration is in
  part,      \* how far the step has come
  found,     \* the contents when the work folder was made, if no fresh start took them
  verified   \* the servers were verified, and no fresh start replaced them since

disk == <<setting, data, kept>>
folder == <<work, done, dump>>
vars == <<setting, up, data, kept, work, done, dump, last, pc, part, found, verified>>

Init ==
  /\ setting = "old" /\ up = Dirs /\ data = [d \in Dirs |-> 1] /\ kept = [d \in Dirs |-> None]
  /\ work = FALSE /\ done = {} /\ dump = None
  /\ last = 1 /\ pc = "idle" /\ part = 0 /\ found = None /\ verified = FALSE

\* A check writes to the servers; no migration holds the exclusive lease.  The
\* replica applies the change.
Write ==
  /\ pc = "idle" /\ up = Dirs /\ data["mysql"] # None /\ last < MaxVersion
  /\ last' = last + 1
  /\ data' = [d \in Dirs |-> last + 1]
  /\ UNCHANGED <<setting, up, kept, folder, pc, part, found, verified>>

\* start() with all servers running calls the migration, which has nothing to do
\* when the settings match and no work folder is left.  A new work folder is
\* made, or the first step that is not done is resumed.
Migrate ==
  /\ pc = "idle" /\ up = Dirs
  /\ work \/ setting = "old"
  /\ work' = TRUE
  /\ found' = IF work THEN found ELSE data["mysql"]
  /\ dump' = IF work THEN dump ELSE None
  /\ done' = IF work THEN done ELSE {}
  /\ kept' = IF work THEN kept ELSE [d \in Dirs |-> None]   \* a new stamp
  /\ pc' = SelectSeq(Steps, LAMBDA s : s \notin done')[1]
  /\ part' = 0
  /\ verified' = (work /\ verified)
  /\ UNCHANGED <<setting, up, data, last>>

\* start() with a server missing stops the others, removes the directory and
\* starts new servers; it does not look at the work folder.
FreshStart ==
  /\ pc = "idle" /\ up # Dirs
  /\ up' = Dirs /\ data' = [d \in Dirs |-> 0] /\ setting' = "declared"
  /\ found' = IF "dump" \in done THEN found ELSE None
  /\ verified' = FALSE
  /\ UNCHANGED <<kept, folder, last, pc, part>>

In(s, n) == pc = s /\ part = n

\* The step has done its work; the done file is written next.
Done == part' = 9

\* preflight: names that the new settings would merge end the migration.
Preflight == In("preflight", 0) /\ up = Dirs /\ Done /\ UNCHANGED <<setting, up, data, kept, folder>>

\* dump: the counts, the users and all databases.
Dump == In("dump", 0) /\ up = Dirs /\ dump' = data["mysql"] /\ Done /\ UNCHANGED <<setting, up, data, kept, work, done>>

\* stop: mysql-stop stops the replica and then the primary.
StopOne(n, d) == In("stop", n) /\ up' = up \ {d} /\ UNCHANGED <<setting, data, kept, folder>>
StopServers ==
  \/ StopOne(0, "mysql-replica") /\ part' = 1
  \/ StopOne(1, "mysql") /\ Done

\* keep: a data directory that exists is renamed, which fails when a directory of
\* an earlier attempt has the name already.
KeepOne(n) ==
  /\ In("keep", n)
  /\ LET d == Names[n + 1] IN
     /\ data[d] # None => kept[d] = None
     /\ kept' = IF data[d] # None THEN [kept EXCEPT ![d] = data[d]] ELSE kept
     /\ data' = [data EXCEPT ![d] = None]
  /\ UNCHANGED <<setting, up, folder>>
Keep ==
  \/ KeepOne(0) /\ part' = 1
  \/ KeepOne(1) /\ Done

\* start: the new directories of an earlier attempt are removed; the primary and
\* the replica are initialized and started on their ports.
StartServer(n) ==
  /\ In("start", n)
  /\ LET d == Names[n] IN
     /\ d \notin up
     /\ data' = [data EXCEPT ![d] = 0] /\ up' = up \cup {d}
     /\ UNCHANGED <<kept, folder>>
StartServers ==
  \/ In("start", 0) /\ data' = [d \in Dirs |-> None] /\ part' = 1 /\ UNCHANGED <<setting, up, kept, folder>>
  \/ StartServer(1) /\ part' = 2 /\ UNCHANGED setting
  \/ StartServer(2) /\ Done /\ setting' = "declared"

\* restore: the dump replaces the databases of the primary, and the replica
\* follows; a restore that fails midway leaves neither.
Restore ==
  /\ In("restore", 0) /\ up = Dirs
  /\ data' = [d \in Dirs |-> dump] /\ Done
  /\ UNCHANGED <<setting, up, kept, folder>>
RestoreFails ==
  /\ In("restore", 0) /\ up = Dirs
  /\ data' = [d \in Dirs |-> 0] /\ pc' = "idle" /\ part' = 0
  /\ UNCHANGED <<setting, up, kept, folder, last, found, verified>>

\* A faulty verify that asks only whether the servers answer.
VerifyAnswers == In("verify", 0) /\ up = Dirs /\ Done /\ UNCHANGED <<setting, up, data, kept, folder>>

\* verify: both servers hold the recorded counts.
Verify ==
  /\ In("verify", 0) /\ up = Dirs
  /\ \A d \in Dirs : data[d] = dump
  /\ Done
  /\ UNCHANGED <<setting, up, data, kept, folder>>

\* record: the settings marker is written and the work folder moves to the kept
\* directories, which ends the migration.
Record ==
  /\ In("record", 0)
  /\ setting' = "declared" /\ work' = FALSE
  /\ pc' = "idle" /\ part' = 0
  /\ UNCHANGED <<up, data, kept, done, dump, last, found, verified>>

Body == Preflight \/ Dump \/ StopServers \/ Keep \/ StartServers \/ Restore \/ Verify

\* A faulty mark that records the next step as done as well.
MarkNext ==
  /\ part = 9
  /\ done' = done \cup {pc, Steps[SelectInSeq(Steps, LAMBDA s : s = pc) + 1]}
  /\ pc' = SelectSeq(Steps, LAMBDA s : s \notin done')[1]
  /\ part' = 0
  /\ verified' = (verified \/ pc = "verify")
  /\ UNCHANGED <<disk, up, work, dump, last, found>>

\* The done file of the step is written, and the next step that is not done runs.
Mark ==
  /\ part = 9
  /\ done' = done \cup {pc}
  /\ pc' = SelectSeq(Steps, LAMBDA s : s \notin done')[1]
  /\ part' = 0
  /\ verified' = (verified \/ pc = "verify")
  /\ UNCHANGED <<disk, up, work, dump, last, found>>

\* A step fails, or the process is killed: the process ends and its lease with it.
Stops ==
  /\ pc # "idle"
  /\ pc' = "idle" /\ part' = 0
  /\ UNCHANGED <<disk, up, folder, last, found, verified>>

\* A server dies.
ServerDies(d) ==
  /\ d \in up
  /\ up' = up \ {d}
  /\ UNCHANGED <<disk, folder, last, pc, part, found, verified>>

Next ==
  \/ Write
  \/ Migrate
  \/ FreshStart
  \/ Body /\ UNCHANGED <<last, pc, found, verified>>
  \/ RestoreFails
  \/ Record
  \/ Mark
  \/ Stops
  \/ \E d \in Dirs : ServerDies(d)

Spec == Init /\ [][Next]_vars

-----------------------------------------------------------------------------
(* Properties.                                                             *)

Contents == None..MaxVersion

\* Types of the data directories and of the work folder.
TypeOK ==
  /\ setting \in {"old", "declared"} /\ up \subseteq Dirs
  /\ data \in [Dirs -> Contents] /\ kept \in [Dirs -> Contents]
  /\ work \in BOOLEAN /\ done \subseteq {Steps[i] : i \in DOMAIN Steps}
  /\ {dump, last, found} \subseteq Contents /\ verified \in BOOLEAN
  /\ pc \in {Steps[i] : i \in DOMAIN Steps} \cup {"idle"} /\ part \in {0, 1, 2, 9}

\* test-servers-mysql.mts:10, the existing data is moved and not deleted: no
\* step of a migration takes away the last copy of what it found, be it in a
\* data directory, kept aside or in the dump, whichever steps failed, were
\* killed and are resumed; a fresh start in between takes the data
\* directories, and then what was dumped is still in the dump.
HasCopy(v) == dump >= v \/ \E d \in Dirs : data[d] >= v \/ kept[d] >= v
FoundDataKeptStep == work /\ pc # "idle" /\ HasCopy(found) => HasCopy(found)'
FoundDataKept == [][FoundDataKeptStep]_vars

\* A verified migration that is recorded left the dumped data in the primary,
\* or later data, unless the servers were replaced after they were verified.
RecordedIsDumpStep == work /\ ~work' /\ verified => data["mysql"] >= dump
RecordedIsDump == [][RecordedIsDumpStep]_vars
=============================================================================

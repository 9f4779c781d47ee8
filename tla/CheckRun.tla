------------------------------ MODULE CheckRun ------------------------------
(***************************************************************************)
(* Runs of the check runner (scripts/check/run.mts) on shared servers.  A  *)
(* run prepares what its targets need, creates databases of its own        *)
(* (databases.mts), runs each target whose needs are prepared, drops the   *)
(* databases and keeps a record on disk (record.mts).  A step may fail, a  *)
(* write of the record may fail, and a run may crash or be killed; the     *)
(* next run then drops what it left.                                       *)
(***************************************************************************)
EXTENDS Integers, Sequences, FiniteSets, SequencesExt

CONSTANTS
  Runs,          \* the runs
  Targets,       \* the targets of every run, in order
  NeedsOf(_)     \* the needs that a target declares

Needs == {"tools", "databases", "privilege"}
Places == {"mysql", "postgres"}   \* where the databases of a run are
None == "none"

\* SETUP_NEEDS and expandNeeds(): what the setup of a need needs itself.
SetupNeeds(n) == CASE n = "databases" -> {"tools"} [] n = "privilege" -> {"databases", "tools"} [] OTHER -> {}
ExpandNeeds(ns) == ns \cup UNION {SetupNeeds(n) : n \in ns}
TargetNeeds(t) == ExpandNeeds(NeedsOf(t))
TargetSet == {Targets[i] : i \in DOMAIN Targets}
Wanted == UNION {TargetNeeds(t) : t \in TargetSet}

VARIABLES
  pc,        \* where each run is
  ready,     \* what is really prepared for it
  blocked,   \* failedSetup: the step that keeps each need from being prepared
  setup,     \* the setup steps that failed
  status,    \* the status of each target
  next,      \* the place of the next target
  lost,      \* a write of the report or the record failed
  disk,      \* the result that the record on disk has
  exit,      \* the exit status
  db         \* the databases of each run on the servers

vars == <<pc, ready, blocked, setup, status, next, lost, disk, exit, db>>

Init ==
  /\ pc = [r \in Runs |-> "out"] /\ ready = [r \in Runs |-> {}]
  /\ blocked = [r \in Runs |-> [n \in Needs |-> None]]
  /\ setup = [r \in Runs |-> {}] /\ status = [r \in Runs |-> [t \in TargetSet |-> "pending"]]
  /\ next = [r \in Runs |-> 1] /\ lost = [r \in Runs |-> FALSE]
  /\ disk = [r \in Runs |-> None] /\ exit = [r \in Runs |-> None]
  /\ db = [r \in Runs |-> {}]

At(r, l) == pc[r] = l
Goto(r, l) == pc' = [pc EXCEPT ![r] = l]
Alive(r) == pc[r] \notin {"out", "ended", "killed"}

\* save(): the record replaces the one on disk, or the write fails and is noted.
Save(r, result) ==
  \/ disk' = [disk EXCEPT ![r] = result] /\ UNCHANGED lost
  \/ lost' = [lost EXCEPT ![r] = TRUE] /\ UNCHANGED disk

\* A setup step ended; the failed ones are remembered in the record.
EndSetup(r, name, passed) ==
  /\ setup' = IF passed THEN setup ELSE [setup EXCEPT ![r] = @ \cup {name}]
  /\ Save(r, "incomplete")

\* startRecord() writes the first record, or the run ends at once.
Begin(r) ==
  /\ At(r, "out")
  /\ \/ /\ disk' = [disk EXCEPT ![r] = "incomplete"]
        /\ Goto(r, "ci") /\ UNCHANGED exit
     \/ Goto(r, "ended") /\ exit' = [exit EXCEPT ![r] = "1"] /\ UNCHANGED disk
  /\ UNCHANGED <<ready, blocked, setup, status, next, lost, db>>

\* The CI setup steps, and the downloads: the ones that failed block their need,
\* unless a failure is known already.
Prepare(r, name, from, to) ==
  /\ At(r, from)
  /\ \E ok \in BOOLEAN :
       /\ ok \/ name = "ci" \/ "tools" \in Wanted
       /\ blocked' = IF ok \/ blocked[r]["tools"] # None THEN blocked
                     ELSE [blocked EXCEPT ![r]["tools"] = name]
       /\ ready' = IF ok /\ blocked[r]["tools"] = None THEN [ready EXCEPT ![r] = @ \cup {"tools"}]
                   ELSE [ready EXCEPT ![r] = @ \ {"tools"}]
       /\ EndSetup(r, name, ok)
  /\ Goto(r, to)
  /\ UNCHANGED <<status, next, exit, db>>
CiSetup(r) == Prepare(r, "ci", "ci", "downloads")
Downloads(r) == Prepare(r, "downloads", "downloads", "servers")

Block(r, ns, name) == blocked' = [blocked EXCEPT ![r] = [n \in Needs |-> IF n \in ns THEN name ELSE @[n]]]

\* The servers step reads their environment and holds the shared lease.  It is
\* left out when the run is given no servers, when no target needs a database,
\* and when a need of the databases is not prepared.
Servers(r) ==
  /\ At(r, "servers")
  /\ \/ /\ Block(r, {"databases", "privilege"}, IF blocked[r]["tools"] # None THEN blocked[r]["tools"] ELSE "no servers")
        /\ Goto(r, "targets") /\ UNCHANGED <<setup, disk, lost>>
     \/ /\ "databases" \in Wanted /\ blocked[r]["tools"] = None
        /\ \/ Goto(r, "privilege") /\ EndSetup(r, "servers", TRUE) /\ UNCHANGED blocked
           \/ Goto(r, "targets") /\ EndSetup(r, "servers", FALSE) /\ Block(r, {"databases", "privilege"}, "servers")
  /\ UNCHANGED <<ready, status, next, exit, db>>

\* The privilege server is started when a target needs it.
Privilege(r) ==
  /\ At(r, "privilege")
  /\ Goto(r, "create")
  /\ \/ "privilege" \notin Wanted /\ UNCHANGED <<ready, blocked, setup, disk, lost>>
     \/ /\ "privilege" \in Wanted /\ EndSetup(r, "privilege", TRUE)
        /\ ready' = [ready EXCEPT ![r] = @ \cup {"privilege"}] /\ UNCHANGED blocked
     \/ /\ "privilege" \in Wanted /\ EndSetup(r, "privilege", FALSE)
        /\ Block(r, {"privilege"}, "privilege") /\ UNCHANGED ready
  /\ UNCHANGED <<status, next, exit, db>>

\* A faulty deadRuns() that takes every other run for dead.
DeadRunsAll(r) == {q \in Runs : db[q] # {}}

\* deadRuns(): the runs whose databases exist and whose process is gone.
DeadRuns(r) == {q \in Runs : db[q] # {} /\ ~Alive(q)}

\* A faulty databases/create that goes on when it could not drop them all.
DropDeadLenient(r) ==
  /\ At(r, "create")
  /\ \E dropped \in SUBSET DeadRuns(r) :
       /\ db' = [q \in Runs |-> IF q \in dropped THEN {} ELSE db[q]]
       /\ Goto(r, "creating") /\ UNCHANGED <<blocked, setup, disk, lost>>
  /\ UNCHANGED <<ready, status, next, exit>>

\* databases/create: it drops what dead runs left, and stops if it cannot.
DropDead(r) ==
  /\ At(r, "create")
  /\ \E dropped \in SUBSET DeadRuns(r) :
       /\ db' = [q \in Runs |-> IF q \in dropped THEN {} ELSE db[q]]
       /\ \/ dropped = DeadRuns(r) /\ Goto(r, "creating") /\ UNCHANGED <<blocked, setup, disk, lost>>
          \/ Goto(r, "targets") /\ EndSetup(r, "create", FALSE) /\ Block(r, {"databases"}, "create")
  /\ UNCHANGED <<ready, status, next, exit>>

\* It then creates and fills the databases of the run, one server after another.
Create(r) ==
  /\ At(r, "creating")
  /\ \/ \E p \in Places \ db[r] : db' = [db EXCEPT ![r] = @ \cup {p}] /\ UNCHANGED <<pc, ready, blocked, setup, disk, lost>>
     \/ /\ db[r] = Places /\ Goto(r, "targets") /\ EndSetup(r, "create", TRUE)
        /\ ready' = [ready EXCEPT ![r] = @ \cup {"databases"}] /\ UNCHANGED <<db, blocked>>
     \/ /\ Goto(r, "targets") /\ EndSetup(r, "create", FALSE)
        /\ Block(r, {"databases"}, "create") /\ UNCHANGED <<db, ready>>
  /\ UNCHANGED <<status, next, exit>>

Blocked(r, t) == {n \in TargetNeeds(t) : blocked[r][n] # None}
SetStatus(r, t, s) == status' = [status EXCEPT ![r][t] = s] /\ Save(r, "incomplete")

\* A target with a need that is not prepared is recorded as not run.
Skip(r) ==
  /\ At(r, "targets") /\ next[r] <= Len(Targets)
  /\ LET t == Targets[next[r]] IN
     /\ Blocked(r, t) # {}
     /\ SetStatus(r, t, "not-run")
  /\ next' = [next EXCEPT ![r] = @ + 1]
  /\ UNCHANGED <<pc, ready, blocked, setup, exit, db>>

StartTarget(r) ==
  /\ At(r, "targets") /\ next[r] <= Len(Targets)
  /\ LET t == Targets[next[r]] IN
     /\ Blocked(r, t) = {}
     /\ SetStatus(r, t, "running")
  /\ Goto(r, "running")
  /\ UNCHANGED <<ready, blocked, setup, next, exit, db>>

EndTarget(r) ==
  /\ At(r, "running")
  /\ \E s \in {"passed", "failed"} : SetStatus(r, Targets[next[r]], s)
  /\ Goto(r, "targets")
  /\ next' = [next EXCEPT ![r] = @ + 1]
  /\ UNCHANGED <<ready, blocked, setup, exit, db>>

ServersRead(r) == blocked[r]["databases"] \in {None, "create"}

\* A faulty runner that drops the databases only when all of them were created.
DropCreated(r) ==
  /\ At(r, "targets") /\ next[r] > Len(Targets)
  /\ Goto(r, "finish")
  /\ \/ /\ blocked[r]["databases"] = None
        /\ db' = [db EXCEPT ![r] = {}] /\ EndSetup(r, "drop", TRUE)
     \/ blocked[r]["databases"] # None /\ UNCHANGED <<db, setup, disk, lost>>
  /\ UNCHANGED <<ready, blocked, status, next, exit>>

\* databases/drop, whenever the servers step passed: it drops the databases and
\* purges the binary logs.  Each part is tried, and one that fails fails the step.
Drop(r) ==
  /\ At(r, "targets") /\ next[r] > Len(Targets)
  /\ Goto(r, "finish")
  /\ \/ /\ ServersRead(r)
        /\ \E left \in SUBSET db[r], purged \in BOOLEAN :
             /\ db' = [db EXCEPT ![r] = left]
             /\ EndSetup(r, "drop", left = {} /\ purged)
     \/ ~ServersRead(r) /\ UNCHANGED <<db, setup, disk, lost>>
  /\ UNCHANGED <<ready, blocked, status, next, exit>>

\* A faulty finish() that looks at the targets only.
FailedTargets(r) == \E t \in TargetSet : status[r][t] = "failed"

\* The run failed: a target that did not pass, a failed setup step or a lost write.
Failed(r) == lost[r] \/ setup[r] # {} \/ \E t \in TargetSet : status[r][t] # "passed"

\* finish() writes the result, and the exit status counts that write too.
Finish(r) ==
  /\ At(r, "finish")
  /\ Save(r, IF Failed(r) THEN "failed" ELSE "passed")
  /\ exit' = [exit EXCEPT ![r] = IF Failed(r) \/ lost'[r] THEN "1" ELSE "0"]
  /\ Goto(r, "ended")
  /\ UNCHANGED <<ready, blocked, setup, status, next, db>>

\* An error that the runner does not handle: the record says that it crashed.
Crash(r) ==
  /\ Alive(r)
  /\ Save(r, "crashed")
  /\ exit' = [exit EXCEPT ![r] = "1"] /\ Goto(r, "ended")
  /\ UNCHANGED <<ready, blocked, setup, status, next, db>>

Kill(r) ==
  /\ Alive(r)
  /\ Goto(r, "killed")
  /\ UNCHANGED <<ready, blocked, setup, status, next, lost, disk, exit, db>>

Next ==
  \E r \in Runs :
    \/ Begin(r)
    \/ CiSetup(r)
    \/ Downloads(r)
    \/ Servers(r)
    \/ Privilege(r)
    \/ DropDead(r)
    \/ Create(r)
    \/ Skip(r)
    \/ StartTarget(r)
    \/ EndTarget(r)
    \/ Drop(r)
    \/ Finish(r)
    \/ Crash(r)
    \/ Kill(r)

Spec == Init /\ [][Next]_vars

-----------------------------------------------------------------------------
(* Properties.                                                             *)

\* Types of the runs and of their databases.
TypeOK ==
  /\ pc \in [Runs -> {"out", "ci", "downloads", "servers", "privilege", "create", "creating", "targets",
                      "running", "finish", "ended", "killed"}]
  /\ ready \in [Runs -> SUBSET Needs] /\ db \in [Runs -> SUBSET Places]
  /\ status \in [Runs -> [TargetSet -> {"pending", "running", "passed", "failed", "not-run"}]]
  /\ next \in [Runs -> 1..Len(Targets) + 1]
  /\ exit \in [Runs -> {None, "0", "1"}]

\* run.mts:12, a target that needs a failed setup step is not run: while a target
\* runs, everything that it needs is prepared, and the databases that its run
\* created are there, whatever other runs start, clean up or are killed.
NeedsPrepared ==
  \A r \in Runs : At(r, "running") =>
    LET ns == TargetNeeds(Targets[next[r]]) IN
    ns \subseteq ready[r] /\ ("databases" \in ns => db[r] = Places)

\* A record on disk that says passed is true: every target passed, every setup
\* step passed, the databases of the run are gone, and the exit status is 0.
PassedIsTrue ==
  \A r \in Runs : disk[r] = "passed" =>
    /\ exit[r] = "0"
    /\ \A t \in TargetSet : status[r][t] = "passed"
    /\ setup[r] = {} /\ db[r] = {}

\* run.mts:330, "A database is removed to the extent it was created, even if
\* creating it fails midway": a run that reaches its end leaves a database only
\* when its drop step failed, and then says so with its exit status.
LeavesNothing ==
  \A r \in Runs : At(r, "finish") /\ db[r] # {} => "drop" \in setup[r]

\* A run whose databases/create passed has dropped what dead runs had left.
DeadDroppedStep ==
  \A r \in Runs : At(r, "create") /\ pc'[r] = "creating" => \A q \in Runs : ~Alive(q) => db'[q] = {}
DeadDropped == [][DeadDroppedStep]_vars
=============================================================================

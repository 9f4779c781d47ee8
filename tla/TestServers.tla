---------------------------- MODULE TestServers -----------------------------
(***************************************************************************)
(* The shared test servers of a checkout (scripts/test-servers.mts).       *)
(* Several processes start, stop, reload and use the servers at once; they *)
(* meet in the server directory (pid files and the environment file) and   *)
(* in the leases of the servers.  A server is named by the number of the   *)
(* start that chose its ports.  The MySQL migration is in MySqlMigration.  *)
(***************************************************************************)
EXTENDS Integers, Sequences, FiniteSets

CONSTANTS
  Procs,        \* the processes that run the script or a check
  StartOrder,   \* the servers in the order in which start() starts them
  StopOrder,    \* the same servers in the order in which stopServers() stops them
  MaxStarts     \* bound on the starts that choose ports

Servers == {StartOrder[i] : i \in DOMAIN StartOrder}
NoPorts == 0
Ports == 1..MaxStarts
Free == "free"
Dead == "dead"   \* the holder and its releaser are gone

VARIABLES
  dir,       \* the server directory exists
  env,       \* the ports that the environment file records
  pid,       \* the server that each pid file names
  running,   \* the servers that run on each data directory
  lost,      \* servers whose start was killed before their pid file was written
  excl,      \* the holder of the exclusive lease
  shared,    \* the holders of shared leases
  starts,    \* the starts that chose ports so far
  pc, op,    \* where each process is, and the command it runs
  ports,     \* the ports that it chose or read
  at,        \* its place in StartOrder or StopOrder
  failed,    \* stopServers() met an error
  rewrote    \* an environment file was overwritten with other ports

files == <<dir, env, pid>>
servers == <<running, lost>>
leases == <<excl, shared>>
procs == <<pc, op, ports, at, failed>>
vars == <<files, servers, leases, starts, procs, rewrote>>

Init ==
  /\ dir = FALSE /\ env = NoPorts /\ pid = [s \in Servers |-> NoPorts]
  /\ running = [s \in Servers |-> {}] /\ lost = [s \in Servers |-> {}]
  /\ excl = Free /\ shared = {} /\ starts = 0
  /\ pc = [p \in Procs |-> "idle"] /\ op = [p \in Procs |-> "none"]
  /\ ports = [p \in Procs |-> NoPorts] /\ at = [p \in Procs |-> 0]
  /\ failed = [p \in Procs |-> FALSE] /\ rewrote = FALSE

At(p, l) == pc[p] = l
Goto(p, l) == pc' = [pc EXCEPT ![p] = l]

\* The process ends; the releaser removes its leases.
End(p) ==
  /\ pc' = [pc EXCEPT ![p] = "idle"] /\ op' = [op EXCEPT ![p] = "none"]
  /\ ports' = [ports EXCEPT ![p] = NoPorts] /\ at' = [at EXCEPT ![p] = 0]
  /\ failed' = [failed EXCEPT ![p] = FALSE]
  /\ excl' = IF excl = p THEN Free ELSE excl
  /\ shared' = shared \ {p}

Begin(p, o, n, l) ==
  /\ At(p, "idle")
  /\ op' = [op EXCEPT ![p] = o] /\ ports' = [ports EXCEPT ![p] = n] /\ Goto(p, l)
  /\ UNCHANGED <<files, servers, leases, at, failed, rewrote>>

PidRunning(s) == pid[s] # NoPorts /\ pid[s] \in running[s]
AllRunning == \A s \in Servers : PidRunning(s)

\* start() with an environment file whose servers all run reads its ports.
StartReuse(p) == env # NoPorts /\ AllRunning /\ Begin(p, "start", env, "reuse") /\ UNCHANGED starts

\* start() otherwise, also when the SQL thread of the replica has stopped on a
\* live server: it chooses free ports before it asks for the lease.
StartFresh(p) ==
  /\ starts < MaxStarts
  /\ starts' = starts + 1
  /\ Begin(p, "start", starts + 1, "lease")

\* tls reads the ports of the environment file and takes no lease.
Tls(p) == env # NoPorts /\ Begin(p, "tls", env, "reuse") /\ UNCHANGED starts

Stop(p) == dir /\ Begin(p, "stop", NoPorts, "lease") /\ UNCHANGED starts

\* A check reads the environment file, and then holds a shared lease.
Use(p) == env # NoPorts /\ Begin(p, "use", env, "share") /\ UNCHANGED starts

\* The commands that start() of running servers and tls send to the servers on
\* the ports that were read; they fail when those servers are gone.
Reuse(p) ==
  /\ At(p, "reuse")
  /\ \/ /\ \A s \in Servers : ports[p] \in running[s]
        /\ Goto(p, "rewrite")
        /\ UNCHANGED <<op, ports, at, failed, leases>>
     \/ End(p)
  /\ UNCHANGED <<files, servers, starts, rewrote>>

\* writeEnvironment() of a process that reuses the servers: a temporary file and
\* a rename in the directory, which must exist.
Rewrite(p) ==
  /\ At(p, "rewrite")
  /\ env' = IF dir THEN ports[p] ELSE env
  /\ rewrote' = (rewrote \/ (dir /\ env # ports[p]))
  /\ End(p)
  /\ UNCHANGED <<dir, pid, servers, starts>>

\* A faulty request that only looks for another exclusive lease.
HoldExclusiveAmongUsers(p) ==
  /\ At(p, "lease")
  /\ IF excl \in {Free, Dead}
     THEN /\ excl' = p
          /\ pc' = [pc EXCEPT ![p] = IF dir THEN "stop" ELSE "make"]
          /\ at' = [at EXCEPT ![p] = 1]
          /\ UNCHANGED <<op, ports, failed, shared>>
     ELSE End(p)
  /\ UNCHANGED <<files, servers, starts, rewrote>>

\* holdExclusive(): refused while any lease is held, except an exclusive one that
\* its dead holder left; the process then ends.
HoldExclusive(p) ==
  /\ At(p, "lease")
  /\ IF excl \in {Free, Dead} /\ shared = {}
     THEN /\ excl' = p
          /\ pc' = [pc EXCEPT ![p] = IF dir THEN "stop" ELSE "make"]
          /\ at' = [at EXCEPT ![p] = 1]
          /\ UNCHANGED <<op, ports, failed, shared>>
     ELSE End(p)
  /\ UNCHANGED <<files, servers, starts, rewrote>>

\* The shared lease is refused while an exclusive one exists, dead or not.
HoldShared(p) ==
  /\ At(p, "share")
  /\ IF excl = Free
     THEN shared' = shared \cup {p} /\ Goto(p, "using") /\ UNCHANGED <<excl, op, ports, at, failed>>
     ELSE End(p)
  /\ UNCHANGED <<files, servers, starts, rewrote>>

EndUse(p) == At(p, "using") /\ End(p) /\ UNCHANGED <<files, servers, starts, rewrote>>

\* One server of stopServers(): only its pid file says that it runs.  A failed
\* stop is remembered, and the others are stopped all the same.
StopServer(p) ==
  LET s == StopOrder[at[p]] IN
  /\ pc[p] \in {"stop", "cleanup"}
  /\ at[p] <= Len(StopOrder)
  /\ \/ /\ PidRunning(s)
        /\ running' = [running EXCEPT ![s] = @ \ {pid[s]}]
        /\ pid' = [pid EXCEPT ![s] = NoPorts]
        /\ UNCHANGED failed
     \/ PidRunning(s) /\ failed' = [failed EXCEPT ![p] = TRUE] /\ UNCHANGED <<running, pid>>
     \/ ~PidRunning(s) /\ UNCHANGED <<running, pid, failed>>
  /\ at' = [at EXCEPT ![p] = @ + 1]
  /\ UNCHANGED <<dir, env, lost, leases, starts, pc, op, ports, rewrote>>

\* A faulty removal that leaves the environment file.
RemoveDirKeepingEnv == dir' = FALSE /\ pid' = [s \in Servers |-> NoPorts] /\ UNCHANGED env

RemoveDir == dir' = FALSE /\ env' = NoPorts /\ pid' = [s \in Servers |-> NoPorts]

\* A faulty stop that removes the directory although a server still runs.
StopEndsAnyway(p) ==
  /\ At(p, "stop") /\ at[p] > Len(StopOrder)
  /\ \/ op[p] = "start" /\ Goto(p, "make") /\ UNCHANGED <<op, ports, at, failed, leases>>
     \/ op[p] = "stop" /\ End(p)
  /\ RemoveDir
  /\ UNCHANGED <<servers, starts, rewrote>>

\* The end of stopEarlierStart() and of stop: the directory is removed, unless a
\* server could not be stopped.
StopEnds(p) ==
  /\ At(p, "stop") /\ at[p] > Len(StopOrder)
  /\ \/ failed[p] /\ End(p) /\ UNCHANGED files
     \/ /\ ~failed[p] /\ op[p] = "start" /\ RemoveDir
        /\ Goto(p, "make")
        /\ UNCHANGED <<op, ports, at, failed, leases>>
     \/ ~failed[p] /\ op[p] = "stop" /\ RemoveDir /\ End(p)
  /\ UNCHANGED <<servers, starts, rewrote>>

\* The directories are made; a socket folder of another checkout is refused.
MakeDirs(p) ==
  /\ At(p, "make")
  /\ \/ op[p] = "stop" /\ End(p) /\ UNCHANGED dir
     \/ op[p] = "start" /\ dir' = TRUE /\ End(p)
     \/ /\ op[p] = "start" /\ dir' = TRUE
        /\ Goto(p, "launch") /\ at' = [at EXCEPT ![p] = 1]
        /\ UNCHANGED <<op, ports, failed, leases>>
  /\ UNCHANGED <<env, pid, servers, starts, rewrote>>

Cleanup(p) == Goto(p, "cleanup") /\ at' = [at EXCEPT ![p] = 1]

\* The next server is started in a session of its own, or cannot be.
Launch(p) ==
  /\ At(p, "launch") /\ at[p] <= Len(StartOrder)
  /\ \/ running' = [running EXCEPT ![StartOrder[at[p]]] = @ \cup {ports[p]}] /\ Goto(p, "spawned") /\ UNCHANGED at
     \/ Cleanup(p) /\ UNCHANGED running
  /\ UNCHANGED <<files, lost, leases, starts, op, ports, failed, rewrote>>

\* The pid file of the started server is written.
WritePid(p) ==
  /\ At(p, "spawned")
  /\ pid' = [pid EXCEPT ![StartOrder[at[p]]] = ports[p]]
  /\ Goto(p, "wait")
  /\ UNCHANGED <<dir, env, servers, leases, starts, op, ports, at, failed, rewrote>>

\* A faulty startLogged() that waits only for the ready line.
ReadyOnly(p) ==
  /\ At(p, "wait")
  /\ ports[p] \in running[StartOrder[at[p]]]
  /\ Goto(p, "launch") /\ at' = [at EXCEPT ![p] = @ + 1]
  /\ UNCHANGED <<files, servers, leases, starts, op, ports, failed, rewrote>>

\* startLogged() ends: the server is ready and the commands that set it up
\* succeed; or one fails; or the server exited, or was killed at the deadline.
Ready(p) ==
  /\ At(p, "wait")
  /\ LET s == StartOrder[at[p]] IN
     \/ ports[p] \in running[s] /\ Goto(p, "launch") /\ at' = [at EXCEPT ![p] = @ + 1] /\ UNCHANGED running
     \/ Cleanup(p) /\ running' = [running EXCEPT ![s] = @ \ {ports[p]}]
     \/ Cleanup(p) /\ UNCHANGED running
  /\ UNCHANGED <<files, lost, leases, starts, op, ports, failed, rewrote>>

\* The environment file is written last.
WriteEnv(p) ==
  /\ At(p, "launch") /\ at[p] > Len(StartOrder)
  /\ env' = ports[p]
  /\ End(p)
  /\ UNCHANGED <<dir, pid, servers, starts, rewrote>>

\* A failed start has stopped what it started and keeps the directory.
CleanupEnds(p) ==
  /\ At(p, "cleanup") /\ at[p] > Len(StopOrder)
  /\ End(p)
  /\ UNCHANGED <<files, servers, starts, rewrote>>

\* A process is killed.  Its exclusive lease stays, dead; a server that it had
\* just started runs without a pid file.
Kill(p) ==
  /\ pc[p] # "idle"
  /\ excl' = IF excl = p THEN Dead ELSE excl
  /\ shared' = shared \ {p}
  /\ lost' = IF At(p, "spawned") THEN [lost EXCEPT ![StartOrder[at[p]]] = @ \cup {ports[p]}] ELSE lost
  /\ pc' = [pc EXCEPT ![p] = "idle"] /\ op' = [op EXCEPT ![p] = "none"]
  /\ ports' = [ports EXCEPT ![p] = NoPorts] /\ at' = [at EXCEPT ![p] = 0]
  /\ failed' = [failed EXCEPT ![p] = FALSE]
  /\ UNCHANGED <<files, running, starts, rewrote>>

\* A server dies by itself; its pid file stays.
ServerDies(s, g) ==
  /\ g \in running[s]
  /\ running' = [running EXCEPT ![s] = @ \ {g}]
  /\ UNCHANGED <<files, lost, leases, starts, procs, rewrote>>

Step(p) ==
  \/ Reuse(p)
  \/ Rewrite(p)
  \/ HoldExclusive(p)
  \/ HoldShared(p)
  \/ StopServer(p)
  \/ StopEnds(p)
  \/ MakeDirs(p)
  \/ Launch(p)
  \/ WritePid(p)
  \/ Ready(p)
  \/ WriteEnv(p)
  \/ CleanupEnds(p)

Next ==
  \/ \E p \in Procs :
       \/ StartReuse(p)
       \/ StartFresh(p)
       \/ Tls(p)
       \/ Stop(p)
       \/ Use(p)
       \/ EndUse(p)
       \/ Step(p)
       \/ Kill(p)
  \/ \E s \in Servers, g \in Ports : ServerDies(s, g)

Spec == Init /\ [][Next]_vars

\* A command that runs goes on: every wait of start() has a deadline or is for a
\* process that ends.  Nothing says that a check ever ends.
FairSpec == Spec /\ \A p \in Procs : WF_vars(Step(p))

-----------------------------------------------------------------------------
(* Properties.                                                             *)

\* Types of the server directory, the leases and the processes.
TypeOK ==
  /\ dir \in BOOLEAN /\ env \in Ports \cup {NoPorts}
  /\ pid \in [Servers -> Ports \cup {NoPorts}]
  /\ running \in [Servers -> SUBSET Ports] /\ lost \in [Servers -> SUBSET Ports]
  /\ excl \in Procs \cup {Free, Dead} /\ shared \subseteq Procs
  /\ pc \in [Procs -> {"idle", "reuse", "rewrite", "lease", "share", "using", "stop", "make", "launch",
                       "spawned", "wait", "cleanup"}]
  /\ ports \in [Procs -> Ports \cup {NoPorts}]
  /\ at \in [Procs -> 0..Len(StartOrder) + 1]

\* test-servers.mts:338, "a start never leaves a second server pair running on
\* one datadir": whatever starts, stops and servers fail or are killed, at most
\* one server runs on a data directory, besides one whose start was killed
\* before it wrote the pid file that would have told the next start of it.
NoSecondServer == \A s \in Servers : Cardinality(running[s] \ lost[s]) <= 1

\* The environment file names the servers that run: while nobody rebuilds them,
\* no server of another start runs.  The reuse path, which writes the ports it
\* read earlier without a lease, is the one that can break this.
EnvNamesServers ==
  env # NoPorts /\ excl = Free /\ ~rewrote => \A s \in Servers : running[s] \ lost[s] \subseteq {env}

\* A process that holds a shared lease keeps its servers: no start and no stop
\* takes a server away from it; only the server itself can die.
LeasedServersStayStep ==
  shared # {} /\ (\E p \in Procs : pc'[p] # pc[p] \/ at'[p] # at[p])
    => \A s \in Servers : running[s] \subseteq running'[s]
LeasedServersStay == [][LeasedServersStayStep]_vars

\* A start that chose its ports ends, and no lease of it blocks the next one.
Starting(p) == op[p] = "start"
StartEnds == \A p \in Procs : Starting(p) ~> ~Starting(p)
=============================================================================

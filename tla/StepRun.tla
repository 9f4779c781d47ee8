------------------------------ MODULE StepRun -------------------------------
(***************************************************************************)
(* One step of the check runner (runStep() and endGroup() of               *)
(* scripts/check/step.mts).  The step's program leads a process group of   *)
(* its own and has a temporary directory.  When the program exits, the     *)
(* runner lists and stops what is left of the group, waits for the output  *)
(* pipe to close, looks for leftovers and removes the directory.  The      *)
(* runner may itself be ended by a signal at any moment.                   *)
(***************************************************************************)
EXTENDS Integers, TLAPS

CONSTANT Children   \* the processes that the program may start

Leader == "leader"
Procs == Children \cup {Leader}

VARIABLES
  pc,        \* where the step is
  proc,      \* each process: not started, in the group, in a session of its own,
             \* ended, or ended by the runner
  active,    \* the runner would end the group of the step when it ends
  temp,      \* the temporary directory: none, empty, or with entries
  code,      \* the exit of the program: none, 0 or not
  problems,  \* the step left something, or it could not be checked
  errors,    \* the cleanup failed
  refused,   \* a signal to the group could not be sent
  outcome,   \* how the step settled
  settles,   \* how often it settled
  runner     \* the runner lives

vars == <<pc, proc, active, temp, code, problems, errors, refused, outcome, settles, runner>>

Init ==
  /\ pc = "start" /\ proc = [p \in Procs |-> "none"] /\ active = FALSE /\ temp = "none"
  /\ code = "none" /\ problems = FALSE /\ errors = FALSE /\ refused = FALSE
  /\ outcome = "none" /\ settles = 0 /\ runner = TRUE

Group == {p \in Procs : proc[p] = "in"}
Alive == {p \in Procs : proc[p] \in {"in", "out"}}
At(l) == runner /\ pc = l
Settle(o) == outcome' = o /\ settles' = settles + 1

\* The directory is made and the program is started, or spawn() throws.
Start ==
  /\ At("start")
  /\ \/ /\ proc' = [proc EXCEPT ![Leader] = "in"] /\ active' = TRUE /\ temp' = "empty" /\ pc' = "run"
        /\ UNCHANGED <<outcome, settles>>
     \/ Settle("failed") /\ pc' = "done" /\ UNCHANGED <<proc, active, temp>>
  /\ UNCHANGED <<code, problems, errors, refused, runner>>

\* The error event comes instead of the program: there is no group.
SpawnError ==
  /\ At("run") /\ proc[Leader] = "in" /\ \A p \in Children : proc[p] = "none"
  /\ proc' = [proc EXCEPT ![Leader] = "none"]
  /\ active' = FALSE /\ temp' = "none" /\ Settle("failed") /\ pc' = "done"
  /\ UNCHANGED <<code, problems, errors, refused, runner>>

\* A process of the group starts another one, which may open its own session.
Fork(p) ==
  /\ Group # {} /\ proc[p] = "none" /\ p # Leader
  /\ \E s \in {"in", "out"} : proc' = [proc EXCEPT ![p] = s]
  /\ UNCHANGED <<pc, active, temp, code, problems, errors, refused, outcome, settles, runner>>

\* A process of the step writes a temporary file.
WriteTemp ==
  /\ Alive # {} /\ temp = "empty"
  /\ temp' = "entries"
  /\ UNCHANGED <<pc, proc, active, code, problems, errors, refused, outcome, settles, runner>>

EndProc(p) ==
  /\ p # Leader /\ proc[p] \in {"in", "out"}
  /\ proc' = [proc EXCEPT ![p] = "ended"]
  /\ UNCHANGED <<pc, active, temp, code, problems, errors, refused, outcome, settles, runner>>

\* The program exits; the runner reads the event once.
Exit ==
  /\ proc[Leader] = "in"
  /\ proc' = [proc EXCEPT ![Leader] = "ended"]
  /\ \E c \in {"zero", "other"} : code' = c
  /\ pc' = IF runner THEN "list" ELSE pc
  /\ UNCHANGED <<active, temp, problems, errors, refused, outcome, settles, runner>>

\* A faulty exit handler that waits for the pipe before it ends the group.
ListLate ==
  /\ At("list")
  /\ problems' = (Group # {}) /\ active' = (Group # {}) /\ pc' = "close"
  /\ UNCHANGED <<proc, temp, code, errors, refused, outcome, settles, runner>>

\* endGroup() lists the group; a list that cannot be read stops the group too.
List ==
  /\ At("list")
  /\ \/ /\ problems' = (Group # {}) /\ pc' = (IF Group = {} THEN "close" ELSE "term")
        /\ active' = (Group # {}) /\ UNCHANGED errors
     \/ errors' = TRUE /\ problems' = TRUE /\ pc' = "term" /\ UNCHANGED active
  /\ UNCHANGED <<proc, temp, code, refused, outcome, settles, runner>>

\* stopGroup(): SIGTERM, which a process may ignore; an absent group needs no more.
Term ==
  /\ At("term")
  /\ \/ Group = {} /\ pc' = (IF errors THEN "check" ELSE "close") /\ active' = errors /\ UNCHANGED <<proc, errors, problems, refused>>
     \/ /\ Group # {}
        /\ \E gone \in SUBSET Group : proc' = [p \in Procs |-> IF p \in gone THEN "killed" ELSE proc[p]]
        /\ pc' = "observe" /\ UNCHANGED <<active, errors, problems, refused>>
     \/ /\ Group # {} /\ errors' = TRUE /\ problems' = TRUE /\ refused' = TRUE /\ pc' = "kill"
        /\ UNCHANGED <<proc, active>>
  /\ UNCHANGED <<temp, code, outcome, settles, runner>>

\* After a failed cleanup the group stays active and the pipe is not awaited.
AfterStop(failed) ==
  /\ pc' = IF failed THEN "check" ELSE "close"
  /\ active' = failed

\* The group is observed once.
Observe ==
  /\ At("observe")
  /\ \/ Group = {} /\ AfterStop(errors) /\ UNCHANGED <<errors, problems>>
     \/ Group # {} /\ pc' = "kill" /\ UNCHANGED <<active, errors, problems>>
     \/ pc' = "kill" /\ errors' = TRUE /\ problems' = TRUE /\ UNCHANGED active
  /\ UNCHANGED <<proc, temp, code, refused, outcome, settles, runner>>

\* Three seconds later SIGKILL ends what is left, or it cannot be sent.
Kill ==
  /\ At("kill")
  /\ \/ /\ proc' = [p \in Procs |-> IF p \in Group THEN "killed" ELSE proc[p]]
        /\ AfterStop(errors) /\ UNCHANGED <<errors, problems, refused>>
     \/ /\ errors' = TRUE /\ problems' = TRUE /\ refused' = TRUE /\ AfterStop(TRUE) /\ UNCHANGED proc
  /\ UNCHANGED <<temp, code, outcome, settles, runner>>

\* The output pipe closes when no process of the step holds it.
Close ==
  /\ At("close") /\ Alive = {}
  /\ problems' = (problems \/ temp = "entries") /\ pc' = "check"
  /\ UNCHANGED <<proc, active, temp, code, errors, refused, outcome, settles, runner>>

\* A faulty end that looks at the exit of the program only.
FinishByCode ==
  /\ At("check")
  /\ temp' = "none" /\ pc' = "done"
  /\ Settle(IF code = "zero" /\ ~errors THEN "passed" ELSE "failed")
  /\ UNCHANGED <<proc, active, code, problems, errors, refused, runner>>

\* The directory is removed, unless that fails, and the step settles.
Finish ==
  /\ At("check")
  /\ \E removed \in BOOLEAN :
       /\ temp' = IF removed THEN "none" ELSE temp
       /\ errors' = (errors \/ ~removed)
  /\ pc' = "done"
  /\ Settle(IF code = "zero" /\ ~problems /\ ~errors' THEN "passed" ELSE "failed")
  /\ UNCHANGED <<proc, active, code, problems, refused, runner>>

\* A faulty runner that ends without a signal to the group of its step.
RunnerEndsAlone ==
  /\ runner /\ runner' = FALSE
  /\ UNCHANGED <<pc, proc, active, temp, code, problems, errors, refused, outcome, settles>>

\* The runner ends, or gets SIGINT, SIGTERM or SIGHUP: SIGKILL to an active group.
RunnerEnds ==
  /\ runner /\ runner' = FALSE
  /\ \/ /\ proc' = [p \in Procs |-> IF active /\ p \in Group THEN "killed" ELSE proc[p]]
        /\ code' = IF active /\ Leader \in Group THEN "other" ELSE code
        /\ UNCHANGED refused
     \/ active /\ Group # {} /\ refused' = TRUE /\ UNCHANGED <<proc, code>>
  /\ UNCHANGED <<pc, active, temp, problems, errors, outcome, settles>>

RunnerStep == Start \/ List \/ Term \/ Observe \/ Kill \/ Close \/ Finish

Next ==
  \/ Start
  \/ SpawnError
  \/ \E p \in Children : Fork(p) \/ EndProc(p)
  \/ WriteTemp
  \/ Exit
  \/ List
  \/ Term
  \/ Observe
  \/ Kill
  \/ Close
  \/ Finish
  \/ RunnerEnds

Spec == Init /\ [][Next]_vars

\* The event loop of the runner goes on, and a process that left the group ends:
\* step.mts does not see it ("leaves the group and so is not visible").
LeftEnds(p) == proc[p] = "out" /\ EndProc(p)
FairSpec == Spec /\ WF_vars(RunnerStep) /\ \A p \in Children : WF_vars(LeftEnds(p))

-----------------------------------------------------------------------------
(* Properties.                                                             *)

Flags ==
  /\ active \in BOOLEAN /\ problems \in BOOLEAN /\ errors \in BOOLEAN
  /\ refused \in BOOLEAN /\ runner \in BOOLEAN

\* Types of the step, which settles at most once.
TypeOK ==
  /\ Flags
  /\ pc \in {"start", "run", "list", "term", "observe", "kill", "close", "check", "done"}
  /\ proc \in [Procs -> {"none", "in", "out", "ended", "killed"}]
  /\ temp \in {"none", "empty", "entries"} /\ code \in {"none", "zero", "other"}
  /\ outcome \in {"none", "passed", "failed"} /\ settles \in 0..1

\* step.mts:12, "A passing run must not leave behind what it made": a step that
\* passed exited with 0, none of its processes lives or had to be ended, and its
\* directory is gone.
PassedLeavesNothing ==
  outcome = "passed" => code = "zero" /\ temp = "none" /\ \A p \in Procs : proc[p] \in {"none", "ended"}

\* Whatever a step does, and wherever a signal finds the runner, no process of its
\* group outlives the runner unless the system refused the signal.
NothingOutlives == ~runner /\ Group # {} => refused

\* A program that exits is settled, though its group ignores SIGTERM or keeps the
\* output pipe open.
Settled == pc = "done" \/ ~runner
ExitSettles == At("list") ~> Settled

\* A step leaves nothing behind, neither one that passed nor one whose runner ended.
NothingLeft == PassedLeavesNothing /\ NothingOutlives

-----------------------------------------------------------------------------
(* Proofs, for every finite or infinite set of children.                   *)

\* The inductive invariant.  Before the program's exit is listed nothing was found
\* or ended.  A group that lives is one the runner would end, or could not: this
\* covers a signal at any moment.  From the listing on the program is not of the
\* group, a step that ends a process has a problem noted, and a step comes to its
\* end with an empty group or with an error.
StepInv ==
  /\ TypeOK
  /\ pc = "start" => \A p \in Procs : proc[p] = "none"
  /\ pc \in {"start", "run", "list"} => ~errors /\ ~problems
  /\ pc \in {"term", "observe", "kill"} => problems
  /\ proc[Leader] = "in" => pc = "run"
  /\ \A p \in Procs : proc[p] = "in" => (runner /\ active) \/ (~runner /\ refused)
  /\ \A p \in Procs : proc[p] = "killed" => problems \/ ~runner
  /\ pc = "close" => ~errors /\ \A p \in Procs : proc[p] # "in"
  /\ pc = "check" /\ ~errors => \A p \in Procs : proc[p] \notin {"in", "out"}
  /\ pc # "done" => outcome = "none" /\ settles = 0
  /\ PassedLeavesNothing

\* Each event of a step leaves truth values in the flags.
LEMMA FlagsKept == Flags /\ [Next]_vars => Flags'
<1> SUFFICES ASSUME Flags, [Next]_vars PROVE Flags'
  OBVIOUS
<1> USE DEF Flags, AfterStop
<1>1. CASE Start \/ SpawnError \/ WriteTemp \/ Exit \/ Close \/ Finish
  BY <1>1, Zenon DEF Start, SpawnError, WriteTemp, Exit, Close, Finish
<1>2. ASSUME NEW p \in Children, Fork(p) \/ EndProc(p) PROVE Flags'
  BY <1>2, Zenon DEF Fork, EndProc
<1>3. CASE List \/ Term
  BY <1>3, Zenon DEF List, Term
<1>4. CASE Observe \/ Kill
  BY <1>4, Zenon DEF Observe, Kill
<1>5. CASE RunnerEnds \/ UNCHANGED vars
  BY <1>5, Zenon DEF RunnerEnds, vars
<1> QED
  BY <1>1, <1>2, <1>3, <1>4, <1>5 DEF Next

\* A step that has not started is in order.
LEMMA InitStep == Init => StepInv
<1>1. Init => Flags
  BY Zenon DEF Init, Flags
<1> QED
  BY <1>1 DEF Init, StepInv, TypeOK, Procs, Leader, PassedLeavesNothing

\* Every event of a step, and every end of the runner, preserves StepInv.
LEMMA NextStep == StepInv /\ [Next]_vars => StepInv'
<1> SUFFICES ASSUME StepInv, [Next]_vars PROVE StepInv'
  OBVIOUS
<1> USE DEF StepInv, TypeOK, PassedLeavesNothing, At, Settle, Group, Alive
<1>l. Leader \in Procs /\ Flags'
  BY FlagsKept DEF Procs
<1>1. CASE Start
  BY <1>1, <1>l DEF Start
<1>2. CASE SpawnError
  BY <1>2, <1>l DEF SpawnError, Procs
<1>3. ASSUME NEW p \in Children, Fork(p) PROVE StepInv'
  BY <1>3, <1>l DEF Fork, Procs
<1>4. ASSUME NEW p \in Children, EndProc(p) PROVE StepInv'
  BY <1>4, <1>l DEF EndProc, Procs
<1>5. CASE WriteTemp
  BY <1>5, <1>l DEF WriteTemp
<1>6. CASE Exit
  BY <1>6, <1>l DEF Exit
<1>7. CASE List
  <2>1. \/ /\ Group = {} /\ ~problems' /\ pc' = "close" /\ (errors' <=> errors)
        \/ /\ Group # {} /\ problems' /\ pc' = "term" /\ active'
        \/ /\ problems' /\ pc' = "term" /\ (active' <=> active)
    BY <1>7, Zenon DEF List
  <2> QED
    BY <2>1, <1>7, <1>l DEF List
<1>8. CASE Term
  <2>1. CASE Group = {}
    <3>1. /\ pc' = (IF errors THEN "check" ELSE "close")
          /\ UNCHANGED <<proc, errors, problems, refused>>
      BY <2>1, <1>8 DEF Term
    <3> QED
      BY <3>1, <2>1, <1>8, <1>l DEF Term
  <2>2. CASE Group # {}
    <3>1. CASE pc' = "observe"
      <4>1. PICK gone \in SUBSET Group : proc' = [p \in Procs |-> IF p \in gone THEN "killed" ELSE proc[p]]
        BY <3>1, <2>2, <1>8 DEF Term
      <4>2. UNCHANGED <<active, errors, problems, refused>>
        BY <3>1, <2>2, <1>8 DEF Term
      <4> QED
        BY <4>1, <4>2, <3>1, <1>8, <1>l DEF Term
    <3>2. CASE pc' = "kill"
      <4>1. problems' /\ refused' /\ UNCHANGED <<proc, active>>
        BY <3>2, <2>2, <1>8 DEF Term
      <4> QED
        BY <4>1, <3>2, <1>8, <1>l DEF Term
    <3> QED
      BY <3>1, <3>2, <2>2, <1>8 DEF Term
  <2> QED
    BY <2>1, <2>2
<1>9. CASE Observe
  <2>1. CASE pc' = "kill"
    <3>1. UNCHANGED active
      BY <2>1, <1>9 DEF Observe, AfterStop
    <3>2. problems'
      <4>1. problems
        BY <1>9 DEF Observe
      <4>2. problems' = problems \/ problems' = TRUE
        BY <1>9, Zenon DEF Observe
      <4> QED
        BY <4>1, <4>2
    <3> QED
      BY <3>1, <3>2, <2>1, <1>9, <1>l DEF Observe
  <2>2. CASE Group = {} /\ AfterStop(errors) /\ UNCHANGED <<errors, problems>>
    BY <2>2, <1>9, <1>l DEF Observe, AfterStop
  <2> QED
    BY <2>1, <2>2, <1>9 DEF Observe
<1>10. CASE Kill
  <2>1. CASE /\ proc' = [p \in Procs |-> IF p \in Group THEN "killed" ELSE proc[p]]
             /\ AfterStop(errors) /\ UNCHANGED <<errors, problems, refused>>
    <3>1. \A p \in Procs : proc'[p] # "in"
      BY <2>1
    <3> QED
      BY <3>1, <2>1, <1>10, <1>l DEF Kill, AfterStop
  <2>2. CASE errors' = TRUE /\ problems' = TRUE /\ refused' = TRUE /\ AfterStop(TRUE) /\ UNCHANGED proc
    BY <2>2, <1>10, <1>l DEF Kill, AfterStop
  <2> QED
    BY <2>1, <2>2, <1>10 DEF Kill
<1>11. CASE Close
  BY <1>11, <1>l DEF Close
<1>12. CASE Finish
  <2>1. PICK removed \in BOOLEAN : /\ temp' = (IF removed THEN "none" ELSE temp)
                                   /\ errors' = (errors \/ ~removed)
    BY <1>12 DEF Finish
  <2>2. outcome' = "passed" => removed /\ ~errors /\ ~problems /\ code = "zero"
    BY <2>1, <1>12 DEF Finish
  <2>3. outcome' = "passed" => \A p \in Procs : proc[p] \in {"none", "ended"}
    BY <2>2, <1>12 DEF Finish
  <2>4. PassedLeavesNothing'
    BY <2>1, <2>2, <2>3, <1>12 DEF Finish
  <2> QED
    BY <2>1, <2>4, <1>12, <1>l DEF Finish
<1>13. CASE RunnerEnds
  BY <1>13, <1>l DEF RunnerEnds
<1>14. CASE UNCHANGED vars
  BY <1>14, <1>l DEF vars
<1> QED
  BY <1>1, <1>2, <1>3, <1>4, <1>5, <1>6, <1>7, <1>8, <1>9, <1>10, <1>11, <1>12, <1>13, <1>14 DEF Next

\* A step settles at most once, and StepInv holds throughout.
THEOREM StepKept == Spec => []StepInv
BY InitStep, NextStep, PTL DEF Spec

\* A step that passed leaves nothing, and nothing of a group outlives its runner
\* unless the system refused the signal, for any number of processes and whenever
\* the runner ends.
THEOREM LeavesNothingBehind == Spec => []NothingLeft
<1>1. StepInv => NothingLeft
  BY DEF StepInv, TypeOK, NothingLeft, NothingOutlives, Group
<1> QED
  BY <1>1, StepKept, PTL
=============================================================================

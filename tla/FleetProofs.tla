---------------------------- MODULE FleetProofs ----------------------------
(***************************************************************************)
(* What an upgrade of a fleet may rely on, for every inventory, every set  *)
(* of releases and every selection: complete jobs tell the truth, so the   *)
(* exit status does and depends_on does; and a campaign for one release    *)
(* keeps the order of depends_on.                                          *)
(*                                                                         *)
(* Busy is what makes JobsTellTruth inductive: the device that is worked   *)
(* on has a job in progress, so what happens to it makes no complete job   *)
(* a liar; and once its record is pushed it stays on the release.          *)
(***************************************************************************)
EXTENDS Fleet, TLAPS

USE FleetAssumption DEF FleetAssumption, ValidInventory

Busy ==
    \A d \in Device : Working(d) =>
        /\ jobs[d].status = "in_progress"
        /\ jobs[d].release = run.version
        /\ recorded[d] # None => recorded[d] = run.version /\ live[d] = run.version

Inv ==
    /\ TypeOK
    /\ pc # "idle" => run.version \in Targets
    /\ Busy
    /\ JobsTellTruth

\* The loop is at one device at a time.
LEMMA OneTurn ==
    ASSUME TypeOK, NEW d \in Device, NEW e \in Device, Turn(d), Turn(e)
    PROVE  d = e
  <1>1. Position[d] \in Nat /\ Position[e] \in Nat
    OBVIOUS
  <1>2. Position[d] <= Position[e] /\ Position[e] <= Position[d]
    BY DEF Turn
  <1> QED
    BY <1>1, <1>2

\* The records jobs are set to are jobs.
LEMMA JobTypes ==
    /\ NoJob \in Job
    /\ [NoJob EXCEPT !.status = "pending"] \in Job
    /\ \A v \in Release : \A s \in {"in_progress", "failed", "complete"} :
         [status |-> s, release |-> v, abandoned |-> None] \in Job
    /\ \A v, a \in Release :
         [status |-> "complete", release |-> v, abandoned |-> a] \in Job
    /\ \A j \in Job : j.status = "in_progress" =>
         [j EXCEPT !.status = "failed"] \in Job
  BY DEF Job, NoJob

\* The states of a run keep their type.
LEMMA RunTypes ==
    /\ NoRun \in Run
    /\ \A r \in Run : \A S \in SUBSET Device :
         /\ [r EXCEPT !.todo = S] \in Run
         /\ [r EXCEPT !.failed = TRUE] \in Run
         /\ \A T \in SUBSET Device : [r EXCEPT !.todo = S, !.restored = T] \in Run
  BY DEF Run, NoRun

\* What ends a visit keeps the type of the run and its release.
LEMMA VisitTypes ==
    ASSUME Inv, NEW d \in Device, pc # "idle", Stop \/ Visited(d) \/ Break
    PROVE  /\ pc' \in {"idle", "turn", "rollup"} /\ run' \in Run
           /\ pc' # "idle" => run'.version \in Targets
  <1>1. run \in Run
    BY DEF Inv, TypeOK
  <1>2. CASE Stop
    BY <1>2, RunTypes DEF Stop
  <1>3. CASE Visited(d)
    <2>1. run.todo \ {d} \in SUBSET Device
      BY <1>1 DEF Run
    <2> QED
      BY <1>1, <1>3, <2>1, RunTypes DEF Visited, AfterVisit, Inv, Run
  <1>4. CASE Break
    BY <1>1, <1>4, RunTypes DEF Break, Inv, Run
  <1> QED
    BY <1>2, <1>3, <1>4

LEMMA InitInv == Init => Inv
  <1> SUFFICES ASSUME Init PROVE Inv
    OBVIOUS
  <1>1. NoJob \in Job /\ NoRun \in Run
    BY JobTypes, RunTypes
  <1>2. TypeOK
    BY <1>1 DEF Init, TypeOK
  <1> QED
    BY <1>2 DEF Init, Inv, Busy, Working, JobsTellTruth, NoJob

\* A step of a run between two devices, or at its end.
LEMMA LoopInv ==
    ASSUME Inv,
           Rollup \/ Crash \/ \E d \in Device : Skip(d) \/ Refuse(d)
    PROVE  Inv'
  <1>1. CASE Rollup \/ Crash
    <2>1. TypeOK'
      BY <1>1, RunTypes DEF Rollup, Crash, Stop, files, Inv, TypeOK
    <2> QED
      BY <1>1, <2>1 DEF Rollup, Crash, Stop, files, Inv, Busy, Working, JobsTellTruth
  <1>2. ASSUME NEW d \in Device, Skip(d) \/ Refuse(d)
        PROVE  Inv'
    <2>1. pc = "turn" /\ (Visited(d) \/ Break) /\ UNCHANGED <<files, live, promise>>
      BY <1>2 DEF Skip, Refuse
    <2>2. pc' \in {"idle", "turn", "rollup"} /\ run' \in Run
          /\ (pc' # "idle" => run'.version \in Targets)
      BY <2>1, VisitTypes
    <2>3. TypeOK'
      BY <2>1, <2>2 DEF files, Inv, TypeOK
    <2>4. Busy'
      BY <2>2 DEF Busy, Working
    <2> QED
      BY <2>1, <2>2, <2>3, <2>4 DEF files, Inv, JobsTellTruth
  <1> QED
    BY <1>1, <1>2

\* A job that is not complete when it is set can only be no lie.
LEMMA SetJobTruth ==
    ASSUME Inv, NEW d \in Device, NEW j \in Job, SetJob(d, j), live' = live,
           j.status = "complete" => live[d] = j.release
    PROVE  /\ jobs' \in [Device -> Job]
           /\ JobsTellTruth'
           /\ jobs'[d] = j
  BY DEF Inv, TypeOK, SetJob, JobsTellTruth

\* The device whose turn it is is blocked or cannot be marked as started.
LEMMA StoppedInv ==
    ASSUME Inv, NEW d \in Device, Block(d) \/ BeginFails(d)
    PROVE  Inv'
  <1>1. pc = "turn" /\ Break /\ UNCHANGED <<live, promise>> /\ run.version \in Release
    BY DEF Block, BeginFails, Inv
  <1>2. pc' \in {"idle", "turn", "rollup"} /\ run' \in Run
        /\ (pc' # "idle" => run'.version \in Targets)
    BY <1>1, VisitTypes
  <1>3. Blocked(d) \in Job /\ InProgress \in Job
    BY <1>1, JobTypes DEF Blocked, InProgress
  <1>4. jobs' \in [Device -> Job] /\ JobsTellTruth'
    <2>1. CASE UNCHANGED jobs
      BY <1>1, <2>1 DEF Inv, TypeOK, JobsTellTruth
    <2>2. CASE SetJob(d, Blocked(d)) \/ SetJob(d, InProgress)
      BY <1>1, <1>3, <2>2, SetJobTruth DEF Blocked, InProgress
    <2> QED
      BY <2>1, <2>2 DEF Block, BeginFails, SetJobOrNot
  <1>5. recorded' \in [Device -> Release \cup {None}]
    BY DEF Block, BeginFails, Inv, TypeOK
  <1>6. Busy'
    BY <1>2 DEF Busy, Working
  <1> QED
    BY <1>1, <1>2, <1>4, <1>5, <1>6 DEF Inv, TypeOK

LEMMA BeginInv ==
    ASSUME Inv, NEW d \in Device, Begin(d)
    PROVE  Inv'
  <1>1. run.version \in Release /\ InProgress \in Job
    BY JobTypes DEF Begin, InProgress, Inv
  <1>2. jobs' \in [Device -> Job] /\ JobsTellTruth' /\ jobs'[d] = InProgress
    BY <1>1, SetJobTruth DEF Begin, InProgress
  <1>3. TypeOK'
    BY <1>2 DEF Begin, Inv, TypeOK
  <1>4. recorded'[d] = None
    BY DEF Begin, Inv, TypeOK
  <1>5. ASSUME NEW e \in Device, Working(e)' PROVE e = d
    <2>1. Turn(e) /\ Turn(d)
      BY <1>5 DEF Working, Turn, Begin
    <2> QED
      BY <2>1, OneTurn DEF Inv
  <1>6. Busy'
    BY <1>2, <1>4, <1>5 DEF Busy, Begin, InProgress
  <1> QED
    BY <1>2, <1>3, <1>6 DEF Inv, Begin

LEMMA StartInv ==
    ASSUME Inv, NEW v \in Targets, NEW S \in SUBSET Device,
           NEW named \in BOOLEAN, NEW resume \in BOOLEAN,
           StartUpgrade(v, S, named, resume)
    PROVE  Inv'
  <1>1. run' = [command |-> "upgrade", version |-> v, selected |-> S,
                named |-> named, resume |-> resume, todo |-> S,
                restored |-> {}, failed |-> FALSE]
    BY DEF StartUpgrade, NoRun
  <1>2. run' \in Run /\ run'.version = v
    BY <1>1 DEF Run
  <1>3. promise' \in Promise \cup {None}
    BY DEF StartUpgrade, Inv, TypeOK
  <1>4. pc = "idle" /\ pc' = "turn" /\ UNCHANGED <<files, live>>
    BY DEF StartUpgrade
  <1> QED
    BY <1>2, <1>3, <1>4 DEF Inv, TypeOK, Busy, Working, JobsTellTruth, files

LEMMA RollbackInv ==
    ASSUME Inv, NEW d \in Device, NEW v \in Targets, StartRollback(d, v)
    PROVE  Inv'
  <1> DEFINE j == [status |-> "in_progress", release |-> v, abandoned |-> None]
  <1>1. j \in Job
    BY JobTypes
  <1>2. jobs' \in [Device -> Job] /\ JobsTellTruth' /\ jobs'[d] = j
    BY <1>1, SetJobTruth DEF StartRollback
  <1>3. run' = [command |-> "rollback", version |-> v, selected |-> {d},
                named |-> TRUE, resume |-> FALSE, todo |-> {d},
                restored |-> {}, failed |-> FALSE]
    BY DEF StartRollback, NoRun
  <1>4. run' \in Run /\ run'.version = v /\ run'.todo = {d}
    BY <1>3 DEF Run
  <1>5. TypeOK'
    BY <1>2, <1>4 DEF StartRollback, Inv, TypeOK
  <1>6. recorded'[d] = None
    BY DEF StartRollback, Inv, TypeOK
  <1>7. Busy'
    BY <1>2, <1>4, <1>6 DEF Busy, Working, Turn
  <1> QED
    BY <1>2, <1>4, <1>5, <1>7 DEF Inv

LEMMA DiscoverInv ==
    ASSUME Inv, pc = "idle", NEW S \in SUBSET Device, Discovered(S),
           promise' \in Promise \cup {None}, UNCHANGED <<recorded, live, pc, run>>
    PROVE  Inv'
  <1>1. jobs' \in [Device -> Job]
    BY JobTypes DEF Discovered, Inv, TypeOK
  <1>2. JobsTellTruth'
    BY DEF Discovered, Inv, TypeOK, JobsTellTruth, NoJob
  <1> QED
    BY <1>1, <1>2 DEF Inv, TypeOK, Busy, Working

\* What a device installs changes no complete job into a lie.
LEMMA DeviceInv ==
    ASSUME Inv, NEW d \in Device,
           Install(d) \/ \E r \in Release : Downgrade(d, r)
    PROVE  Inv'
  <1>1. /\ Working(d) /\ recorded[d] = None /\ jobs[d].status = "in_progress"
        /\ UNCHANGED <<files, pc, run, promise>>
    BY DEF Install, Downgrade, Inv, Busy
  <1>2. run.version \in Release
    BY <1>1 DEF Working, Inv
  <1>3. live' \in [Device -> Release \cup {None}]
        /\ \A e \in Device : e # d => live'[e] = live[e]
    BY <1>2 DEF Install, Downgrade, Inv, TypeOK
  <1>4. TypeOK'
    BY <1>1, <1>3 DEF Inv, TypeOK, files
  <1>5. JobsTellTruth'
    BY <1>1, <1>3 DEF Inv, JobsTellTruth, files
  <1>6. Busy'
    BY <1>1, <1>3 DEF Inv, Busy, Working, Turn, files
  <1> QED
    BY <1>1, <1>4, <1>5, <1>6 DEF Inv, files

LEMMA RecordInv ==
    ASSUME Inv, NEW d \in Device, Record(d)
    PROVE  Inv'
  <1>1. run.version \in Release
    BY DEF Record, Working, Inv
  <1>2. TypeOK'
    BY <1>1 DEF Record, Inv, TypeOK
  <1>3. recorded'[d] = run.version
        /\ \A e \in Device : e # d => recorded'[e] = recorded[e]
    BY DEF Record, Inv, TypeOK
  <1>4. Busy'
    BY <1>3 DEF Record, Inv, Busy, Working, Turn
  <1> QED
    BY <1>2, <1>4 DEF Record, Inv, JobsTellTruth

\* The job of a device ends.
LEMMA EndInv ==
    ASSUME Inv, NEW d \in Device, End(d)
    PROVE  Inv'
  <1>1. /\ Working(d) /\ pc = "device"
        /\ run.version \in Release /\ run.version # None
        /\ jobs[d] \in Job /\ jobs[d].release = run.version
        /\ jobs[d].status = "in_progress"
    BY DEF End, Finish, Restored, Fail, Working, Inv, Busy, TypeOK
  <1>2. run \in Run
    BY DEF Inv, TypeOK
  <1>3. /\ pc' \in {"idle", "turn", "rollup"} /\ run' \in Run
        /\ pc' # "idle" => run'.version \in Targets
    <2>1. CASE Stop \/ Visited(d) \/ Break
      BY <1>1, <2>1, VisitTypes
    <2>2. CASE /\ run' = [run EXCEPT !.todo = @ \ {d}, !.restored = @ \cup {d}]
               /\ pc' = AfterVisit(d)
      <3>1. run.todo \ {d} \in SUBSET Device /\ run.restored \cup {d} \in SUBSET Device
        BY <1>2 DEF Run
      <3>2. run' \in Run
        BY <1>2, <2>2, <3>1, RunTypes
      <3>3. run'.version = run.version
        BY <1>2, <2>2 DEF Run
      <3> QED
        BY <1>1, <2>2, <3>2, <3>3 DEF AfterVisit, Inv
    <2> QED
      BY <2>1, <2>2 DEF End, Finish, Restored, Fail, GoOn, GiveUp
  <1>4. jobs' \in [Device -> Job] /\ JobsTellTruth'
    <2>1. CASE UNCHANGED jobs /\ UNCHANGED live
      BY <2>1 DEF Inv, TypeOK, JobsTellTruth
    <2>2. CASE Finish(d) /\ SetJob(d, Completed)
      <3>1. live[d] = run.version
        BY <1>1, <2>2 DEF Finish, Inv, Busy
      <3>2. Completed \in Job
        BY <1>1, JobTypes DEF Completed
      <3> QED
        BY <2>2, <3>1, <3>2, SetJobTruth DEF Completed, Finish
    <2>3. CASE Restored(d)
      <3> DEFINE j == [status |-> "complete", release |-> live[d],
                       abandoned |-> run.version]
      <3>1. j \in Job
        BY <1>1, <2>3, JobTypes DEF Restored
      <3> QED
        BY <2>3, <3>1, SetJobTruth DEF Restored
    <2>4. CASE Fail(d) /\ SetJob(d, [jobs[d] EXCEPT !.status = "failed"])
      <3> DEFINE j == [jobs[d] EXCEPT !.status = "failed"]
      <3>1. j \in Job
        BY <1>1, JobTypes
      <3>2. j.status = "failed"
        BY <1>1 DEF Job
      <3>3. SetJob(d, j) /\ live' = live
        BY <2>4 DEF Fail
      <3> HIDE DEF j
      <3> QED
        BY <3>1, <3>2, <3>3, SetJobTruth
    <2> QED
      BY <2>1, <2>2, <2>3, <2>4 DEF End, Finish, Restored, Fail, SetJobOrNot
  <1>5. UNCHANGED <<recorded, live, promise>>
    BY DEF End, Finish, Restored, Fail
  <1>6. Busy'
    BY <1>3 DEF Busy, Working
  <1> QED
    BY <1>3, <1>4, <1>5, <1>6 DEF Inv, TypeOK

LEMMA CommandInv ==
    ASSUME Inv, Command
    PROVE  Inv'
  <1>1. \A S \in Batches \cup Named : S \in SUBSET Device
    BY DEF Named
  <1>2. ASSUME NEW resume \in BOOLEAN,
               UpgradeBatch(resume) \/ \E d \in Device : UpgradeNamed(d, resume)
        PROVE  Inv'
    <2>1. PICK v \in Targets, S \in SUBSET Device, named \in BOOLEAN :
             StartUpgrade(v, S, named, resume)
      <3>1. CASE UpgradeBatch(resume)
        BY <1>1, <3>1 DEF UpgradeBatch
      <3>2. ASSUME NEW d \in Device, NEW v \in Targets,
                   StartUpgrade(v, {d}, TRUE, resume)
            PROVE  \E w \in Targets, S \in SUBSET Device, named \in BOOLEAN :
                      StartUpgrade(w, S, named, resume)
        <4>1. {d} \in SUBSET Device
          OBVIOUS
        <4> QED
          BY <3>2, <4>1
      <3> QED
        BY <1>2, <3>1, <3>2 DEF UpgradeNamed
    <2> QED
      BY <2>1, StartInv
  <1>3. ASSUME NEW d \in Device, NEW v \in Targets, StartRollback(d, v)
        PROVE  Inv'
    BY <1>3, RollbackInv
  <1>4. ASSUME NEW S \in Batches \cup Named, Discover(S)
        PROVE  Inv'
    <2>1. PICK T \in SUBSET S : Discovered(T)
      BY <1>4 DEF Discover
    <2> QED
      BY <1>1, <1>4, <2>1, DiscoverInv DEF Discover
  <1>5. ASSUME NEW S \in Batches \cup Named, NEW v \in Targets, Plan(S, v)
        PROVE  Inv'
    <2>1. promise' \in Promise \cup {None}
      BY <1>1, <1>5 DEF Plan, Promise
    <2> QED
      BY <1>1, <1>5, <2>1, DiscoverInv DEF Plan
  <1> QED
    BY <1>2, <1>3, <1>4, <1>5 DEF Command

LEMMA NextInv == Inv /\ [Next]_vars => Inv'
  <1> SUFFICES ASSUME Inv, [Next]_vars PROVE Inv'
    OBVIOUS
  <1>1. CASE Command
    BY <1>1, CommandInv
  <1>2. ASSUME NEW d \in Device, Visit(d) PROVE Inv'
    BY <1>2, LoopInv, StoppedInv, BeginInv DEF Visit
  <1>3. ASSUME NEW d \in Device, Work(d) PROVE Inv'
    BY <1>3, DeviceInv, RecordInv, EndInv DEF Work
  <1>4. CASE Rollup \/ Crash
    BY <1>4, LoopInv
  <1>5. CASE UNCHANGED vars
    BY <1>5 DEF vars, files, Inv, TypeOK, Busy, Working, Turn, JobsTellTruth
  <1> QED
    BY <1>1, <1>2, <1>3, <1>4, <1>5 DEF Next

LEMMA Invariant == Spec => []Inv
  BY InitInv, NextInv, PTL DEF Spec

\* Jobs, files and runs keep their types for every inventory.
THEOREM FleetTypes == Spec => []TypeOK
  BY Invariant, PTL DEF Inv

\* An upgrade that ends with exit status 0 leaves every device it selected on
\* its release, whatever was skipped, blocked, restored or killed before.
THEOREM ExitStatus == Spec => []ExitTellsTruth
  <1>1. Inv => ExitTellsTruth
    <2> SUFFICES ASSUME Inv, pc = "rollup", ExitOK, NEW d \in run.selected
                 PROVE  live[d] = run.version
      BY DEF ExitTellsTruth
    <2>1. d \in Device
      BY DEF Inv, TypeOK, Run
    <2>2. CompleteOn(d, run.version)
      BY DEF ExitOK, RollupPending, RollupFailed
    <2> QED
      BY <2>1, <2>2 DEF Inv, JobsTellTruth, CompleteOn
  <1> QED
    BY <1>1, Invariant, PTL

\* An upgrade begins on a device only while all it depends on run the release.
THEOREM DependsOnTruth == Spec => DependenciesRun
  <1>1. Inv /\ [Next]_vars =>
          [\A d \in Device :
             Begin(d) => \A e \in DependsOn[d] : live[e] = run.version]_vars
    <2> SUFFICES ASSUME Inv, NEW d \in Device, Begin(d), NEW e \in DependsOn[d]
                 PROVE  live[e] = run.version
      OBVIOUS
    <2>1. e \in Device
      OBVIOUS
    <2> QED
      BY <2>1 DEF Begin, DependsMet, CompleteOn, Inv, JobsTellTruth
  <1> QED
    BY <1>1, Invariant, PTL DEF Spec, DependenciesRun

\* Setting the job of a device that is not complete on v, and in progress or
\* complete on v only if its dependencies are met, keeps the order.
LEMMA SetJobOrder ==
    ASSUME NEW v \in Release, Targets = {v}, Inv, DependenciesFirst,
           NEW d \in Device, NEW j, SetJob(d, j), ~CompleteOn(d, v),
           j.release = v /\ j.status \in {"in_progress", "complete"}
             => DependsMet(d, v)
    PROVE  DependenciesFirst'
  <1> SUFFICES ASSUME NEW c \in Device, jobs'[c].release = v,
                      jobs'[c].status \in {"in_progress", "complete"},
                      NEW e \in DependsOn[c]
               PROVE  CompleteOn(e, v)'
    BY DEF DependenciesFirst
  <1>1. /\ e \in Device /\ jobs \in [Device -> Job]
        /\ jobs'[d] = j /\ \A x \in Device : x # d => jobs'[x] = jobs[x]
    BY DEF Inv, TypeOK, SetJob
  <1>2. CompleteOn(e, v)
    BY <1>1 DEF DependenciesFirst, DependsMet
  <1>3. e # d
    BY <1>2
  <1> QED
    BY <1>1, <1>2, <1>3 DEF CompleteOn

\* The device whose turn it is may be started, so it is not complete on v.
LEMMA VisitOrder ==
    ASSUME NEW v \in Release, Targets = {v}, Inv, DependenciesFirst,
           NEW d \in Device, Visit(d)
    PROVE  DependenciesFirst'
  <1>1. pc = "turn" /\ run.version = v
    BY DEF Visit, Skip, Refuse, Block, Begin, BeginFails, Inv
  <1>2. CASE UNCHANGED jobs
    BY <1>2 DEF DependenciesFirst, CompleteOn
  <1>3. CASE Block(d) /\ SetJob(d, Blocked(d))
    <2>1. Blocked(d).status = "failed" /\ ~CompleteOn(d, v)
      BY <1>1, <1>3 DEF Blocked, Block, MayStart, Skipped
    <2> QED
      BY <1>3, <2>1, SetJobOrder
  <1>4. CASE (Begin(d) \/ BeginFails(d)) /\ SetJob(d, InProgress)
    <2>1. DependsMet(d, v) /\ ~CompleteOn(d, v)
      BY <1>1, <1>4 DEF Begin, BeginFails, MayStart, Skipped
    <2> QED
      BY <1>4, <2>1, SetJobOrder
  <1> QED
    BY <1>2, <1>3, <1>4
       DEF Visit, Skip, Refuse, Block, Begin, BeginFails, SetJobOrNot, files

\* The job of the device that is worked on is in progress, so its dependencies
\* are complete, and no device that depends on it has begun.
LEMMA WorkOrder ==
    ASSUME NEW v \in Release, Targets = {v}, Inv, DependenciesFirst,
           NEW d \in Device, Work(d)
    PROVE  DependenciesFirst'
  <1>1. Working(d) /\ run.version = v
    BY DEF Work, Install, Record, End, Finish, Restored, Fail, Downgrade, Working, Inv
  <1>2. /\ jobs[d].status = "in_progress" /\ jobs[d].release = v
        /\ jobs[d] \in Job
    BY <1>1 DEF Inv, Busy, TypeOK
  <1>3. DependsMet(d, v) /\ ~CompleteOn(d, v)
    BY <1>2 DEF DependenciesFirst, DependsMet, CompleteOn
  <1>4. CASE UNCHANGED jobs
    BY <1>4 DEF DependenciesFirst, CompleteOn
  <1>5. ASSUME NEW j, SetJob(d, j) PROVE DependenciesFirst'
    BY <1>3, <1>5, SetJobOrder
  <1> QED
    BY <1>4, <1>5 DEF Work, Install, Record, End, Finish, Restored, Fail, Downgrade,
       SetJobOrNot, files

LEMMA NextOrder ==
    ASSUME NEW v \in Release, Targets = {v}, "rollback" \notin Commands,
           Inv, DependenciesFirst, [Next]_vars
    PROVE  DependenciesFirst'
  <1>1. CASE UNCHANGED jobs
    BY <1>1 DEF DependenciesFirst, CompleteOn
  <1>2. ASSUME NEW S \in SUBSET Device, Discovered(S) PROVE DependenciesFirst'
    <2>1. \A d \in Device : \/ jobs'[d] = jobs[d]
                            \/ jobs[d].status = "" /\ jobs'[d].status = "pending"
      <3>1. [NoJob EXCEPT !.status = "pending"].status = "pending"
        BY DEF NoJob
      <3> QED
        BY <1>2, <3>1 DEF Discovered
    <2> SUFFICES ASSUME NEW c \in Device, jobs'[c].release = v,
                        jobs'[c].status \in {"in_progress", "complete"},
                        NEW e \in DependsOn[c]
                 PROVE  CompleteOn(e, v)'
      BY DEF DependenciesFirst
    <2>2. e \in Device /\ CompleteOn(e, v)
      BY <2>1 DEF DependenciesFirst
    <2> QED
      BY <2>1, <2>2 DEF CompleteOn
  <1>3. CASE Command
    <2>1. ASSUME NEW S \in Batches \cup Named, NEW T \in SUBSET S, Discovered(T)
          PROVE  DependenciesFirst'
      <3>1. T \in SUBSET Device
        BY DEF Named
      <3> QED
        BY <1>2, <2>1, <3>1
    <2> QED
      BY <1>1, <1>3, <2>1 DEF Command, Discover, Plan, UpgradeBatch, UpgradeNamed,
         StartUpgrade, files
  <1>4. ASSUME NEW d \in Device, Visit(d) \/ Work(d) PROVE DependenciesFirst'
    BY <1>4, VisitOrder, WorkOrder
  <1>5. CASE Rollup \/ Crash \/ UNCHANGED vars
    BY <1>1, <1>5 DEF Rollup, Crash, vars, files
  <1> QED
    BY <1>3, <1>4, <1>5 DEF Next

\* In a campaign for one release without rollbacks, whatever a begun device
\* depends on, directly or not, is complete and stays so.
THEOREM CampaignOrder ==
    ASSUME NEW v \in Release, Targets = {v}, "rollback" \notin Commands
    PROVE  Spec => []DependenciesFirst
  <1>1. Init => DependenciesFirst
    <2>1. NoJob.status = ""
      BY DEF NoJob
    <2> QED
      BY <2>1 DEF Init, DependenciesFirst
  <1>2. Inv /\ DependenciesFirst /\ [Next]_vars => DependenciesFirst'
    BY NextOrder
  <1> QED
    BY <1>1, <1>2, Invariant, PTL DEF Spec

\* A step of the fleet is, to a reader of the job file of device d, a step of
\* JobLifecycle or none.
LifeStep(d) == [Life(d)!Next]_(Life(d)!vars)

\* A step that touches no job is none of any life.
LEMMA OtherLife ==
    ASSUME NEW d \in Device, jobs'[d] = jobs[d], recorded'[d] = recorded[d]
    PROVE  LifeStep(d)
  BY DEF LifeStep, Life!vars

LEMMA VisitLife ==
    ASSUME Inv, NEW d \in Device, Visit(d)
    PROVE  LifeStep(d)
  <1>1. /\ pc = "turn" /\ run.version \in Release /\ jobs \in [Device -> Job]
        /\ recorded \in [Device -> Release \cup {None}]
    BY DEF Visit, Skip, Refuse, Block, Begin, BeginFails, Inv, TypeOK
  <1>2. CASE jobs' = jobs /\ recorded' = recorded
    BY <1>2, OtherLife
  <1>3. ASSUME MayStart(d)
        PROVE  /\ jobs[d].status \in {"in_progress", "failed"}
                    => jobs[d].release \in {None, run.version}
               /\ jobs[d].status = "complete" => jobs[d].release # run.version
    BY <1>3 DEF MayStart, AnotherJob, Incomplete, Skipped, CompleteOn
  <1>4. CASE Block(d) /\ SetJob(d, Blocked(d))
    <2>1. jobs'[d] = Blocked(d) /\ recorded'[d] = recorded[d] /\ MayStart(d)
      BY <1>1, <1>4 DEF SetJob, Block
    <2>2. Life(d)!Block(run.version)
      BY <1>3, <2>1 DEF Life!Block, Life!TakeUp, Life!Incomplete, Blocked
    <2> QED
      BY <1>1, <2>2 DEF LifeStep, Life!Next
  <1>5. CASE /\ Begin(d) \/ BeginFails(d)
             /\ SetJob(d, InProgress)
             /\ recorded' = [recorded EXCEPT ![d] = None]
    <2>1. jobs'[d] = InProgress /\ recorded'[d] = None /\ MayStart(d)
      BY <1>1, <1>5 DEF SetJob, Begin, BeginFails
    <2>2. Life(d)!Begin(run.version)
      BY <1>3, <2>1 DEF Life!Begin, Life!TakeUp, Life!Incomplete, InProgress
    <2> QED
      BY <1>1, <2>2 DEF LifeStep, Life!Next
  <1> QED
    BY <1>2, <1>4, <1>5
       DEF Visit, Skip, Refuse, Block, Begin, BeginFails, SetJobOrNot, files

LEMMA WorkLife ==
    ASSUME Inv, NEW d \in Device, Work(d)
    PROVE  LifeStep(d)
  <1>1. /\ Working(d) /\ run.version \in Release /\ run.version # None
        /\ jobs \in [Device -> Job] /\ recorded \in [Device -> Release \cup {None}]
    BY DEF Work, Install, Record, End, Finish, Restored, Fail, Downgrade, Working, Inv, TypeOK
  <1>2. jobs[d].status = "in_progress" /\ jobs[d].release = run.version /\ jobs[d] \in Job
    BY <1>1 DEF Inv, Busy
  <1>3. CASE jobs' = jobs /\ recorded' = recorded
    BY <1>3, OtherLife
  <1>4. CASE Record(d)
    <2>1. jobs'[d] = jobs[d] /\ recorded'[d] = run.version
      BY <1>1, <1>4 DEF Record
    <2>2. Life(d)!Record
      BY <1>2, <2>1 DEF Life!Record
    <2> QED
      BY <2>2 DEF LifeStep, Life!Next
  <1>5. CASE Finish(d) /\ SetJob(d, Completed)
    <2>1. /\ jobs'[d] = Completed /\ recorded'[d] = recorded[d]
          /\ recorded[d] = run.version
      BY <1>1, <1>5 DEF Finish, SetJob
    <2>2. jobs[d].abandoned = None
      BY <1>2 DEF Job
    <2>3. Life(d)!Finish
      BY <1>2, <2>1, <2>2 DEF Life!Finish, Completed
    <2> QED
      BY <2>3 DEF LifeStep, Life!Next
  <1>6. CASE Restored(d)
    <2> DEFINE j == [status |-> "complete", release |-> live[d],
                     abandoned |-> run.version]
    <2>1. jobs'[d] = j /\ recorded'[d] = recorded[d]
      BY <1>1, <1>6 DEF Restored, SetJob
    <2>2. live[d] \in Release /\ live[d] # run.version
      BY <1>6 DEF Restored
    <2>3. Life(d)!Restore(live[d])
      BY <1>2, <2>1, <2>2 DEF Life!Restore
    <2> QED
      BY <2>2, <2>3 DEF LifeStep, Life!Next
  <1>7. CASE Fail(d) /\ SetJob(d, [jobs[d] EXCEPT !.status = "failed"])
    <2> DEFINE j == [jobs[d] EXCEPT !.status = "failed"]
    <2>1. jobs'[d] = j /\ recorded'[d] = recorded[d]
      BY <1>1, <1>7 DEF Fail, SetJob
    <2>2. /\ j.status = "failed" /\ j.release = jobs[d].release
          /\ j.abandoned = jobs[d].abandoned
      BY <1>2 DEF Job
    <2> HIDE DEF j
    <2>3. Life(d)!Fail
      BY <1>2, <2>1, <2>2 DEF Life!Fail
    <2> QED
      BY <2>3 DEF LifeStep, Life!Next
  <1> QED
    BY <1>3, <1>4, <1>5, <1>6, <1>7
       DEF Work, Install, Downgrade, End, Finish, Fail, SetJobOrNot, files

\* Nothing but a visit to it, a rollback of it and discovery touch the job of a
\* device; a step of another device does not.
LEMMA NextLife ==
    ASSUME Inv, [Next]_vars, NEW d \in Device
    PROVE  LifeStep(d)
  <1>1. jobs \in [Device -> Job] /\ recorded \in [Device -> Release \cup {None}]
    BY DEF Inv, TypeOK
  <1>2. CASE UNCHANGED files
    BY <1>2, OtherLife DEF files
  <1>3. ASSUME NEW e \in Device, e # d, Visit(e) \/ Work(e)
        PROVE  LifeStep(d)
    <2>1. jobs'[d] = jobs[d] /\ recorded'[d] = recorded[d]
      BY <1>1, <1>3
         DEF Visit, Skip, Refuse, Block, Begin, BeginFails, Work, Install, Downgrade,
             Record, End, Finish, Restored, Fail, SetJob, SetJobOrNot, files
    <2> QED
      BY <2>1, OtherLife
  <1>4. ASSUME NEW e \in Device, NEW v \in Targets, StartRollback(e, v)
        PROVE  LifeStep(d)
    <2>1. CASE e # d
      <3>1. jobs'[d] = jobs[d] /\ recorded'[d] = recorded[d]
        BY <1>1, <1>4, <2>1 DEF StartRollback, SetJob
      <3> QED
        BY <3>1, OtherLife
    <2>2. CASE e = d
      <3>1. /\ jobs'[d] = [status |-> "in_progress", release |-> v, abandoned |-> None]
            /\ recorded'[d] = None
        BY <1>1, <1>4, <2>2 DEF StartRollback, SetJob
      <3>2. v \in Release /\ Life(d)!Rollback(v)
        BY <1>4, <2>2, <3>1 DEF StartRollback, CompleteOn, Life!Rollback
      <3> QED
        BY <3>2 DEF LifeStep, Life!Next
    <2> QED
      BY <2>1, <2>2
  <1>5. ASSUME NEW S \in SUBSET Device, Discovered(S), recorded' = recorded
        PROVE  LifeStep(d)
    <2>1. CASE jobs'[d] = jobs[d]
      BY <1>5, <2>1, OtherLife
    <2>2. CASE jobs'[d] # jobs[d]
      <3> DEFINE j == [NoJob EXCEPT !.status = "pending"]
      <3>1. jobs[d].status = "" /\ jobs'[d] = j /\ jobs[d] \in Job
        BY <1>1, <1>5, <2>2 DEF Discovered
      <3>2. j.status = "pending" /\ j.release = None /\ j.abandoned = None
        BY DEF NoJob
      <3> HIDE DEF j
      <3>3. jobs[d].release = None /\ jobs[d].abandoned = None
        BY <3>1 DEF Job
      <3>4. Life(d)!Discover
        BY <1>5, <3>1, <3>2, <3>3 DEF Life!Discover
      <3> QED
        BY <3>4 DEF LifeStep, Life!Next
    <2> QED
      BY <2>1, <2>2
  <1>6. CASE Command
    <2>1. ASSUME NEW S \in Batches \cup Named, NEW T \in SUBSET S, Discovered(T),
                 recorded' = recorded
          PROVE  LifeStep(d)
      <3>1. T \in SUBSET Device
        BY DEF Named
      <3> QED
        BY <1>5, <2>1, <3>1
    <2> QED
      BY <1>2, <1>4, <1>6, <2>1
         DEF Command, UpgradeBatch, UpgradeNamed, StartUpgrade, Discover, Plan
  <1>7. ASSUME NEW e \in Device, Visit(e) \/ Work(e)
        PROVE  LifeStep(d)
    BY <1>3, <1>7, VisitLife, WorkLife
  <1>8. CASE Rollup \/ Crash \/ UNCHANGED vars
    BY <1>2, <1>8 DEF Rollup, Crash, vars
  <1> QED
    BY <1>6, <1>7, <1>8 DEF Next

\* The job file of every device lives the life of JobLifecycle, whatever is
\* done to the rest of the fleet.
THEOREM JobsLive == Spec => EveryJobLives
  <1>1. Init => \A d \in Device : Life(d)!Init
    <2> SUFFICES ASSUME Init, NEW d \in Device PROVE Life(d)!Init
      OBVIOUS
    <2>1. jobs[d] = NoJob /\ recorded[d] = None
      BY DEF Init
    <2>2. NoJob.status = "" /\ NoJob.release = None /\ NoJob.abandoned = None
      BY DEF NoJob
    <2> QED
      BY <2>1, <2>2 DEF Life!Init
  <1>2. Inv /\ [Next]_vars =>
          [\A d \in Device : [Life(d)!Next]_(Life(d)!vars)]_vars
    BY NextLife DEF LifeStep
  <1> QED
    BY <1>1, <1>2, Invariant, PTL DEF Spec, EveryJobLives

(***************************************************************************)
(* What a plan promises of the run that follows it.                        *)
(***************************************************************************)

\* A device the loop is done with, in a run for release v.
Done(e, v) ==
    jobs[e].status = "complete" /\ (jobs[e].release = v \/ jobs[e].abandoned = v)

\* The dependencies of d outside of selection S are complete: what a run for S
\* does, by itself, not change.
OutsideMet(d, S, v) == \A e \in DependsOn[d] \ S : CompleteOn(e, v)

\* As long as the run does what the plan was made for.
AsPlanned ==
    LET v == promise.version
        S == promise.selected
    IN /\ pc # "idle" => /\ run.command = "upgrade" /\ run.version = v
                         /\ run.selected = S /\ run.todo \subseteq S
       /\ pc = "idle" => \A d \in S : PlanSkips(d, v) \/ OutsideMet(d, S, v)
       /\ pc \in {"turn", "device"} =>
            /\ \A e \in S \ run.todo : Done(e, v)
            /\ \A d \in run.todo : \/ pc = "device" /\ Turn(d)
                                   \/ PlanSkips(d, v) \/ OutsideMet(d, S, v)

PlanKept == promise # None => AsPlanned

LEMMA NotOnItself == ASSUME NEW d \in Device PROVE d \notin DependsOn[d]
  <1>1. {d} \in SUBSET Device /\ {d} # {}
    OBVIOUS
  <1>2. PICK e \in {d} : DependsOn[e] \cap {d} = {}
    BY <1>1
  <1> QED
    BY <1>2

\* A step at device d, whose turn it is, leaves the others as planned.
LEMMA OthersAsPlanned ==
    ASSUME Inv, AsPlanned, NEW d \in Device, pc \in {"turn", "device"}, Turn(d),
           promise' = promise,
           \A e \in Device \ {d} : jobs'[e] = jobs[e] /\ live'[e] = live[e]
    PROVE  /\ \A e \in promise.selected \ run.todo : Done(e, promise.version)'
           /\ \A e \in run.todo \ {d} : (\/ PlanSkips(e, promise.version)
                                         \/ OutsideMet(e, promise.selected, promise.version))'
  <1>1. run.todo \subseteq Device /\ d \in run.todo /\ run.todo \subseteq promise.selected
        /\ run.selected = promise.selected /\ run.selected \subseteq Device
    BY DEF Inv, TypeOK, Run, Turn, AsPlanned
  <1>2. ASSUME NEW e \in promise.selected \ run.todo PROVE Done(e, promise.version)'
    BY <1>1, <1>2 DEF AsPlanned, Done
  <1>3. ASSUME NEW e \in run.todo \ {d}
        PROVE  (\/ PlanSkips(e, promise.version)
                \/ OutsideMet(e, promise.selected, promise.version))'
    <2>1. ~Turn(e) /\ e \in Device
      BY <1>1, <1>3, OneTurn DEF Inv
    <2>2. PlanSkips(e, promise.version) \/ OutsideMet(e, promise.selected, promise.version)
      BY <1>3, <2>1 DEF AsPlanned
    <2>3. CASE PlanSkips(e, promise.version)
      BY <1>3, <2>1, <2>3 DEF PlanSkips
    <2>4. CASE OutsideMet(e, promise.selected, promise.version)
      <3>1. DependsOn[e] \subseteq Device
        BY <2>1
      <3> QED
        BY <1>1, <2>4, <3>1 DEF OutsideMet, CompleteOn
    <2> QED
      BY <2>2, <2>3, <2>4
  <1> QED
    BY <1>2, <1>3

\* The loop goes on: it is done with device d.
LEMMA VisitedAsPlanned ==
    ASSUME Inv, AsPlanned, NEW d \in Device, pc \in {"turn", "device"}, Turn(d),
           promise' = promise,
           \A e \in Device \ {d} : jobs'[e] = jobs[e] /\ live'[e] = live[e],
           run' \in Run, run'.command = run.command, run'.version = run.version,
           run'.selected = run.selected, run'.todo = run.todo \ {d}, pc' \in {"turn", "rollup"},
           Done(d, promise.version)'
    PROVE  AsPlanned'
  <1>1. /\ \A e \in promise.selected \ run.todo : Done(e, promise.version)'
        /\ \A e \in run.todo \ {d} : (\/ PlanSkips(e, promise.version)
                                      \/ OutsideMet(e, promise.selected, promise.version))'
    BY OthersAsPlanned
  <1>2. \A e \in promise.selected \ run'.todo : Done(e, promise.version)'
    BY <1>1
  <1>3. /\ run.command = "upgrade" /\ run.version = promise.version
        /\ run.selected = promise.selected /\ run.todo \subseteq promise.selected
    BY DEF AsPlanned
  <1> QED
    BY <1>1, <1>2, <1>3 DEF AsPlanned, Done, PlanSkips, OutsideMet, CompleteOn

\* The loop is left, whatever has become of the jobs.
LEMMA BreakAsPlanned ==
    ASSUME Inv, AsPlanned, pc # "idle", Break, promise' = promise PROVE AsPlanned'
  <1>1. run'.command = run.command /\ run'.version = run.version
        /\ run'.selected = run.selected /\ run'.todo = run.todo /\ pc' = "rollup"
    BY DEF Break, Inv, TypeOK, Run
  <1> QED
    BY <1>1 DEF AsPlanned

LEMMA VisitKept == ASSUME Inv, PlanKept, NEW d \in Device, Visit(d) PROVE PlanKept'
  <1>1. promise' = promise /\ pc = "turn" /\ Turn(d) /\ live' = live /\ run \in Run
    BY DEF Visit, Skip, Refuse, Block, Begin, BeginFails, Inv, TypeOK
  <1> SUFFICES ASSUME promise # None PROVE AsPlanned'
    BY <1>1 DEF PlanKept
  <1>2. AsPlanned
    BY DEF PlanKept
  <1>3. CASE Skip(d)
    <2>1. jobs' = jobs /\ run' = [run EXCEPT !.todo = @ \ {d}] /\ pc' \in {"turn", "rollup"}
      BY <1>3 DEF Skip, Visited, AfterVisit, files
    <2>2. run' \in Run /\ run'.command = run.command /\ run'.version = run.version
          /\ run'.selected = run.selected /\ run'.todo = run.todo \ {d}
      BY <1>1, <2>1 DEF Run
    <2>3. Done(d, promise.version)
      BY <1>2, <1>3 DEF Skip, Skipped, Done, CompleteOn, AsPlanned
    <2>4. Done(d, promise.version)'
      BY <1>1, <2>1, <2>3 DEF Done
    <2> QED
      BY <1>1, <1>2, <2>1, <2>2, <2>4, VisitedAsPlanned
  <1>4. CASE Refuse(d) \/ Block(d) \/ BeginFails(d)
    BY <1>1, <1>2, <1>4, BreakAsPlanned DEF Refuse, Block, BeginFails
  <1>5. CASE Begin(d)
    <2>1. run' = run /\ pc' = "device" /\ \A e \in Device \ {d} : jobs'[e] = jobs[e]
      BY <1>5 DEF Begin, SetJob, Inv, TypeOK
    <2>2. /\ \A e \in promise.selected \ run.todo : Done(e, promise.version)'
          /\ \A e \in run.todo \ {d} : (\/ PlanSkips(e, promise.version)
                                        \/ OutsideMet(e, promise.selected, promise.version))'
      BY <1>1, <1>2, <2>1, OthersAsPlanned
    <2>3. Turn(d)'
      BY <1>1, <2>1 DEF Turn
    <2>4. /\ run.command = "upgrade" /\ run.version = promise.version
          /\ run.selected = promise.selected /\ run.todo \subseteq promise.selected
      BY <1>1, <1>2 DEF AsPlanned
    <2> QED
      BY <1>1, <2>1, <2>2, <2>3, <2>4
         DEF AsPlanned, Done, PlanSkips, OutsideMet, CompleteOn
  <1> QED
    BY <1>3, <1>4, <1>5 DEF Visit

LEMMA WorkKept == ASSUME Inv, PlanKept, NEW d \in Device, Work(d) PROVE PlanKept'
  <1>1. promise' = promise /\ pc = "device" /\ Turn(d) /\ run \in Run
    BY DEF Work, Install, Record, Downgrade, End, Finish, Restored, Fail, Working, Inv, TypeOK
  <1> SUFFICES ASSUME promise # None PROVE AsPlanned'
    BY <1>1 DEF PlanKept
  <1>2. /\ AsPlanned /\ run.command = "upgrade" /\ run.version = promise.version
        /\ run.selected = promise.selected /\ run.todo \subseteq promise.selected
    BY <1>1 DEF PlanKept, AsPlanned
  <1>3. \A e \in Device \ {d} : jobs'[e] = jobs[e] /\ live'[e] = live[e]
    BY DEF Work, Install, Record, Downgrade, End, Finish, Restored, Fail, SetJobOrNot, SetJob,
       files, Inv, TypeOK
  <1>4. CASE Install(d) \/ Record(d) \/ \E r \in Release : Downgrade(d, r)
    <2>1. run' = run /\ pc' = pc
      BY <1>4 DEF Install, Record, Downgrade
    <2>2. /\ \A e \in promise.selected \ run.todo : Done(e, promise.version)'
          /\ \A e \in run.todo \ {d} : (\/ PlanSkips(e, promise.version)
                                        \/ OutsideMet(e, promise.selected, promise.version))'
      BY <1>1, <1>2, <1>3, OthersAsPlanned
    <2>3. Turn(d)'
      BY <1>1, <2>1 DEF Turn
    <2> QED
      BY <1>1, <1>2, <2>1, <2>2, <2>3
         DEF AsPlanned, Done, PlanSkips, OutsideMet, CompleteOn
  <1>5. CASE End(d)
    <2>1. CASE Break
      BY <1>1, <1>2, <2>1, BreakAsPlanned
    <2>2. CASE ~Break
      <3>1. /\ \/ SetJob(d, Completed)
               \/ SetJob(d, [status |-> "complete", release |-> live[d],
                             abandoned |-> run.version])
            /\ \/ run' = [run EXCEPT !.todo = @ \ {d}]
               \/ run' = [run EXCEPT !.todo = @ \ {d}, !.restored = @ \cup {d}]
            /\ pc' \in {"turn", "rollup"}
        BY <1>2, <1>5, <2>2 DEF End, Finish, Restored, Fail, GoOn, GiveUp, Visited, AfterVisit
      <3>2. Done(d, promise.version)'
        <4>1. CASE SetJob(d, Completed)
          BY <1>1, <1>2, <4>1 DEF SetJob, Completed, Done, Inv, TypeOK
        <4>2. CASE SetJob(d, [status |-> "complete", release |-> live[d],
                              abandoned |-> run.version])
          BY <1>1, <1>2, <4>2 DEF SetJob, Done, Inv, TypeOK
        <4> QED
          BY <3>1, <4>1, <4>2
      <3>3. run' \in Run /\ run'.command = run.command /\ run'.version = run.version
            /\ run'.selected = run.selected /\ run'.todo = run.todo \ {d}
        <4>1. CASE run' = [run EXCEPT !.todo = @ \ {d}]
          BY <1>1, <4>1 DEF Run
        <4>2. CASE run' = [run EXCEPT !.todo = @ \ {d}, !.restored = @ \cup {d}]
          <5>1. run.todo \ {d} \in SUBSET Device /\ run.restored \cup {d} \in SUBSET Device
            BY <1>1 DEF Run
          <5>2. run' \in Run
            BY <1>1, <4>2, <5>1, RunTypes
          <5> QED
            BY <1>1, <4>2, <5>2 DEF Run
        <4> QED
          BY <3>1, <4>1, <4>2
      <3> QED
        BY <1>1, <1>2, <1>3, <3>1, <3>2, <3>3, VisitedAsPlanned
    <2> QED
      BY <2>1, <2>2
  <1> QED
    BY <1>4, <1>5 DEF Work

LEMMA StartKept ==
    ASSUME Inv, PlanKept, NEW v \in Release, NEW S \in SUBSET Device, NEW named, NEW resume,
           StartUpgrade(v, S, named, resume)
    PROVE  PlanKept'
  <1> SUFFICES ASSUME promise' # None PROVE AsPlanned'
    BY DEF PlanKept
  <1>1. /\ promise' = promise /\ promise = [version |-> v, selected |-> S]
        /\ pc = "idle" /\ pc' = "turn" /\ UNCHANGED <<jobs, live>>
        /\ run'.command = "upgrade" /\ run'.version = v /\ run'.selected = S /\ run'.todo = S
    BY DEF StartUpgrade, files, NoRun
  <1>2. \A d \in S : PlanSkips(d, v) \/ OutsideMet(d, S, v)
    BY <1>1 DEF PlanKept, AsPlanned
  <1> QED
    BY <1>1, <1>2 DEF AsPlanned, PlanSkips, OutsideMet, CompleteOn

LEMMA PlanMade ==
    ASSUME Inv, NEW v \in Release, NEW S \in SUBSET Device, Plan(S, v) PROVE PlanKept'
  <1> SUFFICES ASSUME promise' # None PROVE AsPlanned'
    BY DEF PlanKept
  <1>1. /\ promise' = [version |-> v, selected |-> S] /\ pc' = "idle" /\ live' = live
        /\ PlanOK(S, v) /\ Discovered(S)
    BY DEF Plan
  <1>2. \A e \in Device : jobs[e].status = "complete" => jobs'[e] = jobs[e]
    BY <1>1 DEF Discovered, Inv, TypeOK
  <1>3. ASSUME NEW d \in S, ~PlanSkips(d, v), NEW e \in DependsOn[d] \ S
        PROVE  CompleteOn(e, v)'
    <2>1. CompleteOn(e, v) /\ e \in Device
      BY <1>1, <1>3 DEF PlanOK, PlanDependMet
    <2> QED
      BY <1>2, <2>1 DEF CompleteOn
  <1> QED
    BY <1>1, <1>3 DEF AsPlanned, PlanSkips, OutsideMet

LEMMA NextKept == Inv /\ PlanKept /\ [Next]_vars => PlanKept'
  <1> SUFFICES ASSUME Inv, PlanKept, [Next]_vars PROVE PlanKept'
    OBVIOUS
  <1>1. CASE Command
    <2>1. ASSUME NEW v \in Targets, NEW S \in Batches \cup Named, NEW named, NEW resume,
                 StartUpgrade(v, S, named, resume) \/ Plan(S, v)
          PROVE  PlanKept'
      <3>1. v \in Release /\ S \in SUBSET Device
        BY DEF Named
      <3> QED
        BY <2>1, <3>1, StartKept, PlanMade
    <2>2. ASSUME NEW d, NEW v, StartRollback(d, v) PROVE PlanKept'
      BY <2>2 DEF StartRollback, PlanKept
    <2>3. ASSUME NEW S, Discover(S) PROVE PlanKept'
      BY <2>3 DEF Discover, PlanKept
    <2>4. \A d \in Device : {d} \in Named
      BY DEF Named
    <2> QED
      BY <1>1, <2>1, <2>2, <2>3, <2>4 DEF Command, UpgradeBatch, UpgradeNamed
  <1>2. ASSUME NEW d \in Device, Visit(d) \/ Work(d) PROVE PlanKept'
    BY <1>2, VisitKept, WorkKept
  <1>3. CASE Rollup \/ Crash
    BY <1>3 DEF Rollup, Crash, PlanKept
  <1>4. CASE UNCHANGED vars
    BY <1>4 DEF vars, files, PlanKept, AsPlanned, Done, PlanSkips, OutsideMet, CompleteOn, Turn
  <1> QED
    BY <1>1, <1>2, <1>3, <1>4 DEF Next

\* When a run is blocked that plan, directly before, found no obstacle for, then
\* a device that runs the release already, or on one of the run itself.
THEOREM PlanTruth == Spec => PlanHolds
  <1>1. Init => PlanKept
    BY DEF Init, PlanKept
  <1>2. Inv /\ PlanKept /\ [Next]_vars =>
          [\A d \in Device : Block(d) /\ promise # None =>
             \/ PlanSkips(d, run.version)
             \/ \E e \in DependsOn[d] \cap run.selected :
                  \/ jobs[e].abandoned = run.version
                  \/ Position[d] < Position[e]]_vars
    <2> SUFFICES ASSUME Inv, PlanKept, NEW d \in Device, Block(d), promise # None,
                        ~PlanSkips(d, run.version)
                 PROVE  \E e \in DependsOn[d] \cap run.selected :
                          \/ jobs[e].abandoned = run.version
                          \/ Position[d] < Position[e]
      OBVIOUS
    <2>1. /\ AsPlanned /\ pc = "turn" /\ Turn(d) /\ d \in run.todo
          /\ run.version = promise.version /\ run.selected = promise.selected
      BY DEF PlanKept, AsPlanned, Block, Turn
    <2>2. PICK e \in DependsOn[d] : ~CompleteOn(e, run.version)
      BY DEF Block, DependsMet
    <2>3. e \in Device /\ e # d
      BY <2>2, NotOnItself
    <2>4. OutsideMet(d, run.selected, run.version)
      BY <2>1 DEF AsPlanned
    <2>5. e \in run.selected
      BY <2>2, <2>4 DEF OutsideMet
    <2>6. CASE e \in run.todo
      <3>1. Position[d] \in Nat /\ Position[e] \in Nat /\ Position[d] # Position[e]
        BY <2>3
      <3>2. Position[d] <= Position[e]
        BY <2>1, <2>6 DEF Turn
      <3> QED
        BY <2>5, <3>1, <3>2
    <2>7. CASE e \notin run.todo
      <3>1. Done(e, run.version)
        BY <2>1, <2>5, <2>7 DEF AsPlanned
      <3> QED
        BY <2>2, <2>5, <3>1 DEF Done, CompleteOn
    <2> QED
      BY <2>6, <2>7
  <1> QED
    BY <1>1, <1>2, InitInv, NextInv, NextKept, PTL DEF Spec, PlanHolds
=============================================================================

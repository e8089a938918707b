-------------------------- MODULE RunnerHostProofs --------------------------
(***************************************************************************)
(* Proofs about the host controller, for every number of slots, workers,   *)
(* runs, jobs and faults.  IInv is inductive; the theorems follow from it. *)
(* The lemmas are one per action, but for the seven steps of StartRunner,  *)
(* which all keep what IInv is about (StartFrame).                         *)
(***************************************************************************)
EXTENDS RunnerHost, FiniteSetTheorems, TLAPS

\* There is a first slot, and Main is a goroutine.
LEMMA IdsFacts == 0 \in Ids /\ NumInstances \in Nat /\ Main \in Procs
BY HostAssumption DEF Ids, Procs

\* No run is numbered 0.
LEMMA NoRunType == NoRun \in 0 .. MaxRuns
BY HostAssumption DEF NoRun

\* The initial records have their types.
LEMMA RecordTypes ==
  /\ FreeSlot \in Instance
  /\ IdleLoc \in Locals
  /\ NeverRun \in RunRecord
BY IdsFacts, HostAssumption
DEF FreeSlot, Instance, IdleLoc, Locals, NeverRun, RunRecord, NoRun, NoMsg

\* What a goroutine does between two calls of the slot table, as far as the
\* invariant can see it: it moves on, and keeps every lease, every run's slot
\* and every message as they are.
StartFrame(p) ==
    /\ pc[p] \in StartSteps
    /\ \E label \in StartSteps \cup {"take", "next"} :
         /\ pc' = [pc EXCEPT ![p] = label]
         /\ label \in StartSteps => loc'[p].run = loc[p].run
    /\ \A q \in Procs : q # p => loc'[q] = loc[q]
    /\ \A i \in Ids : slots'[i].uid = slots[i].uid /\ slots'[i].inUse = slots[i].inUse
    /\ \A u \in Runs : run'[u].slot = run[u].slot
    /\ \A u \in Runs : u > issued => run'[u] = run[u]
    /\ UNCHANGED <<issued, envVars>>

\* A failed start goes back to its caller's loop and marks its own run only.
LEMMA FailFrame ==
  ASSUME TypeOK, RolesOK, NEW p \in Procs, pc[p] \in StartSteps, Fail(p)
  PROVE  /\ pc' \in [Procs -> Labels]
         /\ loc' \in [Procs -> Locals]
         /\ run' \in [Runs -> RunRecord]
         /\ \E label \in {"take", "next"} : pc' = [pc EXCEPT ![p] = label]
         /\ \A q \in Procs : q # p => loc'[q] = loc[q]
         /\ \A u \in Runs : run'[u].slot = run[u].slot
         /\ \A u \in Runs : u > issued => run'[u] = run[u]
<1>1. \E label \in {"take", "next"} : pc' = [pc EXCEPT ![p] = label]
  BY DEF Fail, Return, Goto
<1>2. pc' \in [Procs -> Labels]
  BY <1>1 DEF TypeOK, Labels
<1>3. loc' \in [Procs -> Locals] /\ \A q \in Procs : q # p => loc'[q] = loc[q]
  BY RecordTypes DEF TypeOK, Fail, Return
<1>4. run \in [Runs -> RunRecord] /\ loc[p].run \in 1 .. issued /\ issued \in 0 .. MaxRuns
  BY DEF TypeOK, RolesOK
<1>5. run' = [run EXCEPT ![loc[p].run].state = "failed"]
  BY DEF Fail
<1>6. run' \in [Runs -> RunRecord] /\ \A u \in Runs : run'[u].slot = run[u].slot
  BY <1>4, <1>5 DEF RunRecord
<1>7. \A u \in Runs : u > issued => run'[u] = run[u]
  BY <1>4, <1>5, HostAssumption DEF Runs
<1> QED BY <1>1, <1>2, <1>3, <1>6, <1>7

\* StartFrame of the directory's creation.
LEMMA MakeDirFrame ==
  ASSUME TypeOK, RolesOK, NEW p \in Procs, MakeDir(p)
  PROVE  TypeOK' /\ StartFrame(p)
<1> DEFINE uid == slots[loc[p].slot].uid
<1>1. uid \in 0 .. MaxRuns
  BY DEF TypeOK, Instance, Locals
<1>2. loc' = [loc EXCEPT ![p].path = uid] /\ loc \in [Procs -> Locals]
  BY DEF MakeDir, TypeOK
<1>3. loc' \in [Procs -> Locals] /\ loc'[p].run = loc[p].run
      /\ \A q \in Procs : q # p => loc'[q] = loc[q]
  BY <1>1, <1>2 DEF Locals
<1>4. disk' \in [0 .. MaxRuns -> {"none", "dir", "rootfs"}]
  BY <1>1 DEF MakeDir, TypeOK
<1>5. pc' = [pc EXCEPT ![p] = "copy"] /\ pc[p] = "mkdir"
  BY DEF MakeDir, Goto
<1>6. TypeOK'
  BY <1>3, <1>4, <1>5 DEF TypeOK, MakeDir, Labels, StartSteps, envVars
<1>7. StartFrame(p)
  BY <1>3, <1>5 DEF StartFrame, MakeDir, StartSteps
<1> QED BY <1>6, <1>7

\* StartFrame of the copy of the root file system.
LEMMA CopyRootFSFrame ==
  ASSUME TypeOK, RolesOK, NEW p \in Procs, CopyRootFS(p)
  PROVE  TypeOK' /\ StartFrame(p)
<1>1. CASE disk[loc[p].path] = "none"
  <2>1. Fail(p) /\ UNCHANGED disk /\ pc[p] = "copy" /\ pc[p] \in StartSteps
    BY <1>1 DEF CopyRootFS, StartSteps
  <2>2. TypeOK'
    BY <2>1, FailFrame DEF TypeOK, CopyRootFS, envVars
  <2>3. StartFrame(p)
    BY <2>1, FailFrame DEF StartFrame, CopyRootFS, StartSteps
  <2> QED BY <2>2, <2>3
<1>2. CASE disk[loc[p].path] # "none"
  <2>1. /\ pc[p] = "copy" /\ pc' = [pc EXCEPT ![p] = "arm"]
        /\ UNCHANGED <<loc, run>>
    BY <1>2 DEF CopyRootFS, Goto
  <2>2. TypeOK'
    BY <1>2, <2>1 DEF TypeOK, CopyRootFS, Labels, StartSteps, envVars
  <2>3. StartFrame(p)
    BY <2>1 DEF StartFrame, CopyRootFS, StartSteps
  <2> QED BY <2>2, <2>3
<1> QED BY <1>1, <1>2

\* StartFrame of the step that stores the cancel function.
LEMMA ArmCancelFrame ==
  ASSUME TypeOK, RolesOK, NEW p \in Procs, ArmCancel(p)
  PROVE  TypeOK' /\ StartFrame(p)
<1>1. slots' = [slots EXCEPT ![loc[p].slot].cancel = loc[p].run]
      /\ slots \in [Ids -> Instance] /\ loc[p].run \in 0 .. MaxRuns
  BY DEF ArmCancel, TypeOK, Locals
<1>2. /\ slots' \in [Ids -> Instance]
      /\ \A i \in Ids : slots'[i].uid = slots[i].uid /\ slots'[i].inUse = slots[i].inUse
  BY <1>1 DEF Instance
<1>3. pc[p] = "arm" /\ pc' = [pc EXCEPT ![p] = "tapclear"]
  BY DEF ArmCancel, Goto
<1>4. TypeOK'
  BY <1>2, <1>3 DEF TypeOK, ArmCancel, Labels, StartSteps, vmVars, envVars
<1>5. StartFrame(p)
  BY <1>2, <1>3 DEF StartFrame, ArmCancel, StartSteps, vmVars
<1> QED BY <1>4, <1>5

\* StartFrame of the steps on tap devices.
LEMMA TapFrame ==
  ASSUME TypeOK, RolesOK, NEW p \in Procs, ClearTap(p) \/ AddTap(p)
  PROVE  TypeOK' /\ StartFrame(p)
<1>1. CASE ClearTap(p)
  <2>1. pc[p] = "tapclear" /\ pc' = [pc EXCEPT ![p] = "tapadd"]
    BY <1>1 DEF ClearTap, Goto
  <2>2. tap' = [tap EXCEPT ![loc[p].slot] = NoRun] /\ tap \in [Ids -> 0 .. MaxRuns]
    BY <1>1 DEF TypeOK, ClearTap
  <2>3. tap' \in [Ids -> 0 .. MaxRuns]
    BY <2>2, NoRunType
  <2>4. TypeOK'
    BY <1>1, <2>1, <2>3 DEF TypeOK, ClearTap, Labels, StartSteps, envVars
  <2>5. StartFrame(p)
    BY <1>1, <2>1 DEF StartFrame, ClearTap, StartSteps
  <2> QED BY <2>4, <2>5
<1>2. CASE AddTap(p) /\ tap[loc[p].slot] # NoRun
  <2>1. Fail(p) /\ UNCHANGED tap /\ pc[p] = "tapadd" /\ pc[p] \in StartSteps
    BY <1>2 DEF AddTap, StartSteps
  <2>2. TypeOK'
    BY <1>2, <2>1, FailFrame DEF TypeOK, AddTap, envVars
  <2>3. StartFrame(p)
    BY <1>2, <2>1, FailFrame DEF StartFrame, AddTap, StartSteps
  <2> QED BY <2>2, <2>3
<1>3. CASE AddTap(p) /\ tap[loc[p].slot] = NoRun
  <2>1. /\ pc[p] = "tapadd" /\ pc' = [pc EXCEPT ![p] = "config"]
        /\ tap' = [tap EXCEPT ![loc[p].slot] = loc[p].run]
        /\ UNCHANGED <<loc, run>>
    BY <1>3 DEF AddTap, Goto
  <2>2. loc[p].run \in 0 .. MaxRuns
    BY DEF TypeOK, Locals
  <2>3. TypeOK'
    BY <1>3, <2>1, <2>2 DEF TypeOK, AddTap, Labels, StartSteps, envVars
  <2>4. StartFrame(p)
    BY <1>3, <2>1 DEF StartFrame, AddTap, StartSteps
  <2> QED BY <2>3, <2>4
<1> QED BY <1>1, <1>2, <1>3

\* StartFrame of the configuration.
LEMMA ConfigureFrame ==
  ASSUME TypeOK, RolesOK, NEW p \in Procs, Configure(p)
  PROVE  TypeOK' /\ StartFrame(p)
<1> DEFINE uid == slots[loc[p].slot].uid
<1>1. uid \in 0 .. MaxRuns
  BY DEF TypeOK, Instance, Locals
<1>2. pc[p] = "config" /\ pc' = [pc EXCEPT ![p] = "launch"]
  BY DEF Configure, Goto
<1>3. loc[p].run \in 1 .. issued /\ issued \in 0 .. MaxRuns /\ run \in [Runs -> RunRecord]
  BY <1>2 DEF RolesOK, TypeOK, StartSteps
<1>4. run' = [run EXCEPT ![loc[p].run].drive = uid]
  BY DEF Configure
<1>5. run' \in [Runs -> RunRecord] /\ \A u \in Runs : run'[u].slot = run[u].slot
  BY <1>1, <1>3, <1>4 DEF RunRecord
<1>6. \A u \in Runs : u > issued => run'[u] = run[u]
  BY <1>3, <1>4, HostAssumption DEF Runs
<1>7. TypeOK'
  BY <1>2, <1>5 DEF TypeOK, Configure, Labels, StartSteps, envVars
<1>8. StartFrame(p)
  BY <1>2, <1>5, <1>6 DEF StartFrame, Configure, StartSteps
<1> QED BY <1>7, <1>8

\* StartFrame of the launch.
LEMMA LaunchFrame ==
  ASSUME TypeOK, RolesOK, NEW p \in Procs, Launch(p)
  PROVE  TypeOK' /\ StartFrame(p)
<1> DEFINE u == loc[p].run
<1>1. pc[p] = "launch" /\ pc[p] \in StartSteps
  BY DEF Launch, StartSteps
<1>2. u \in 1 .. issued /\ issued \in 0 .. MaxRuns /\ run \in [Runs -> RunRecord]
  BY <1>1 DEF RolesOK, TypeOK
<1>3. CASE Fail(p)
  <2>1. TypeOK'
    BY <1>1, <1>3, FailFrame DEF TypeOK, Launch, envVars
  <2>2. StartFrame(p)
    BY <1>1, <1>3, FailFrame DEF StartFrame, Launch, StartSteps
  <2> QED BY <2>1, <2>2
<1>4. CASE run' = [run EXCEPT ![u].state = "up"] /\ Return(p)
  <2>1. run' \in [Runs -> RunRecord] /\ \A v \in Runs : run'[v].slot = run[v].slot
    BY <1>2, <1>4 DEF RunRecord
  <2>2. \A v \in Runs : v > issued => run'[v] = run[v]
    BY <1>2, <1>4, HostAssumption DEF Runs
  <2>3. loc' \in [Procs -> Locals] /\ \A q \in Procs : q # p => loc'[q] = loc[q]
    BY <1>4, RecordTypes DEF TypeOK, Return
  <2>4. \E label \in {"take", "next"} : pc' = [pc EXCEPT ![p] = label]
    BY <1>4 DEF Return, Goto
  <2>5. TypeOK'
    BY <2>1, <2>3, <2>4 DEF TypeOK, Launch, Labels, envVars
  <2>6. StartFrame(p)
    BY <1>1, <2>1, <2>2, <2>3, <2>4 DEF StartFrame, Launch, StartSteps
  <2> QED BY <2>5, <2>6
<1> QED BY <1>3, <1>4 DEF Launch

\* A fault keeps the bounds in their ranges.
LEMMA BudgetType ==
  ASSUME TypeOK, NEW k, Fault(k)
  PROVE  budget' \in [jobs : 0 .. MaxJobs, faults : 0 .. MaxFaults]
<1>1. /\ budget \in [jobs : 0 .. MaxJobs, faults : 0 .. MaxFaults]
      /\ budget.faults > 0
      /\ budget' = [budget EXCEPT !.faults = @ - 1]
  BY DEF TypeOK, Fault
<1>2. budget.faults \in 0 .. MaxFaults /\ budget.faults - 1 \in 0 .. MaxFaults
  BY <1>1, HostAssumption
<1> QED BY <1>1, <1>2

\* StartFrame of a start that fails.
LEMMA StartFailsFrame ==
  ASSUME TypeOK, RolesOK, NEW p \in Procs, StartFails(p)
  PROVE  TypeOK' /\ StartFrame(p)
<1>1. pc[p] \in StartSteps /\ Fail(p) /\ Fault("start")
  BY DEF StartFails
<1>2. TypeOK'
  BY <1>1, FailFrame, BudgetType DEF TypeOK, StartFails, envVars
<1>3. StartFrame(p)
  BY <1>1, FailFrame DEF StartFrame, StartFails, StartSteps
<1> QED BY <1>2, <1>3

\* StartFrame of all of StartRunner.
LEMMA StartRunnerFrame ==
  ASSUME TypeOK, RolesOK, NEW p \in Procs, StartRunner(p) \/ StartFails(p)
  PROVE  TypeOK' /\ StartFrame(p)
BY MakeDirFrame, CopyRootFSFrame, ArmCancelFrame, TapFrame, ConfigureFrame,
   LaunchFrame, StartFailsFrame
DEF StartRunner

-----------------------------------------------------------------------------
\* The process starts in the invariant.
LEMMA InitInvariant == Init => IInv
<1> SUFFICES ASSUME Init PROVE IInv
  OBVIOUS
<1>1. TypeOK
  BY IdsFacts, RecordTypes, NoRunType, HostAssumption
  DEF Init, TypeOK, Labels, Messages
<1>2. RolesOK
  BY DEF Init, RolesOK, StartSteps, StopSteps, Procs
<1>3. PoolConsistent /\ StartIsAlone /\ LeaseMatchesRun
  BY HostAssumption DEF Init, PoolConsistent, StartIsAlone, LeaseMatchesRun, FreeSlot, Procs
<1>4. JobsOfBegunRuns /\ FreedBeforeAck
  BY DEF Init, JobsOfBegunRuns, FreedBeforeAck, NeverRun, StopSteps, Procs
<1>5. CompletionNotForgotten
  BY DEF Init, CompletionNotForgotten
<1> QED BY <1>1, <1>2, <1>3, <1>4, <1>5 DEF IInv

\* Between two calls of the slot table StartRunner disturbs no part of IInv.
LEMMA StartFrameInvariant ==
  ASSUME IInv, TypeOK', NEW p \in Procs, StartFrame(p)
  PROVE  IInv'
<1> USE DEF IInv
<1>1. PICK label \in StartSteps \cup {"take", "next"} :
        /\ pc' = [pc EXCEPT ![p] = label]
        /\ label \in StartSteps => loc'[p].run = loc[p].run
  BY DEF StartFrame
<1>2. /\ pc[p] \in StartSteps /\ pc[p] # "start" /\ pc[p] # "off"
      /\ label \notin StopSteps /\ label # "start"
      /\ pc \in [Procs -> Labels]
  BY DEF StartFrame, StartSteps, StopSteps, TypeOK
<1>3. /\ \A q \in Procs : q # p => pc'[q] = pc[q] /\ loc'[q] = loc[q]
      /\ pc'[p] = label
      /\ UNCHANGED <<issued, job, stream>>
  BY <1>1, <1>2 DEF StartFrame, envVars
<1>4. \A i \in Ids : slots'[i].uid = slots[i].uid /\ slots'[i].inUse = slots[i].inUse
  BY DEF StartFrame
<1>5. \A u : Leased(u)' <=> Leased(u)
  BY <1>4 DEF Leased
<1>6. RolesOK'
  BY <1>1, <1>2, <1>3, IdsFacts DEF RolesOK
<1>7. PoolConsistent'
  BY <1>4 DEF PoolConsistent
<1>8. StartIsAlone'
  BY <1>2, <1>3, <1>4, IdsFacts DEF StartIsAlone, Procs
<1>9. LeaseMatchesRun'
  <2>1. \A u \in Runs : run'[u].slot = run[u].slot
    BY DEF StartFrame
  <2>2. \A i \in Ids : slots[i].inUse => slots[i].uid \in Runs
    BY NoRunType, HostAssumption DEF PoolConsistent, TypeOK, Instance, Runs, NoRun
  <2> QED BY <1>3, <1>4, <2>1, <2>2 DEF LeaseMatchesRun
<1>10. JobsOfBegunRuns'
  <2>1. \A u \in Runs : u > issued => run'[u] = run[u]
    BY DEF StartFrame
  <2> QED BY <1>2, <1>3, <2>1 DEF JobsOfBegunRuns
<1>11. FreedBeforeAck'
  BY <1>2, <1>3, <1>5 DEF FreedBeforeAck, StopSteps, Procs
<1>12. CompletionNotForgotten'
  BY <1>3, <1>5 DEF CompletionNotForgotten
<1> QED BY <1>6, <1>7, <1>8, <1>9, <1>10, <1>11, <1>12

\* The purge of Start finds nothing leased.
LEMMA StartInvariant ==
  ASSUME IInv, Start PROVE IInv'
<1> USE DEF IInv
<1>1. /\ pc[Main] = "start" /\ stream' = {} /\ inflight' = {}
      /\ pc' = [q \in Procs |-> IF q = Main THEN "take" ELSE "next"]
      /\ UNCHANGED <<slots, issued, loc, run, cancelled, disk, tap, job, budget>>
  BY DEF Start, vmVars
<1>2. TypeOK'
  BY <1>1 DEF TypeOK, Labels, Messages
<1>3. \A q \in Procs : pc'[q] \in {"take", "next"}
  BY <1>1
<1>4. RolesOK' /\ FreedBeforeAck'
  BY <1>3, IdsFacts DEF RolesOK, FreedBeforeAck, StartSteps, StopSteps, Procs
<1>5. PoolConsistent' /\ LeaseMatchesRun' /\ StartIsAlone'
  BY <1>1, <1>3, IdsFacts DEF PoolConsistent, LeaseMatchesRun, StartIsAlone
<1>6. JobsOfBegunRuns'
  BY <1>1, <1>3 DEF JobsOfBegunRuns, StopSteps
<1>7. CompletionNotForgotten'
  BY <1>1 DEF CompletionNotForgotten, StartIsAlone, Leased
<1> QED BY <1>2, <1>4, <1>5, <1>6, <1>7

\* A lease is new, and its slot was free.
LEMMA NextSlotInvariant ==
  ASSUME IInv, NEW p \in Procs, NEW i \in Ids, NextSlot(p, i) PROVE IInv'
<1> USE DEF IInv
<1> DEFINE lease == issued + 1
<1>1. /\ pc[p] = "take" /\ ~slots[i].inUse
      /\ lease \in Runs /\ lease \in 0 .. MaxRuns /\ lease # NoRun
      /\ issued \in Nat /\ issued' = lease
  BY HostAssumption DEF NextSlot, FirstFree, TypeOK, Runs, NoRun
<1>2. /\ slots' = [slots EXCEPT ![i].uid = lease, ![i].inUse = TRUE]
      /\ slots \in [Ids -> Instance]
  BY DEF NextSlot, TypeOK
<1>3. /\ slots' \in [Ids -> Instance]
      /\ slots'[i].uid = lease /\ slots'[i].inUse
      /\ \A j \in Ids : j # i => slots'[j] = slots[j]
  BY <1>1, <1>2 DEF Instance
<1>4. /\ run' = [run EXCEPT ![lease] = [slot |-> i, drive |-> NoRun, state |-> "starting"]]
      /\ run \in [Runs -> RunRecord]
  BY DEF NextSlot, TypeOK
<1>5. /\ run' \in [Runs -> RunRecord] /\ run'[lease].slot = i
      /\ \A u \in Runs : u # lease => run'[u] = run[u]
  BY <1>1, <1>4, NoRunType DEF RunRecord
<1>6. /\ loc' = [loc EXCEPT ![p] = [slot |-> i, run |-> lease, path |-> NoRun, msg |-> NoMsg]]
      /\ loc \in [Procs -> Locals]
  BY DEF NextSlot, TypeOK
<1>7. /\ loc' \in [Procs -> Locals] /\ loc'[p].run = lease
      /\ \A q \in Procs : q # p => loc'[q] = loc[q]
  BY <1>1, <1>6, NoRunType DEF Locals
<1>8. /\ pc' = [pc EXCEPT ![p] = "mkdir"] /\ pc \in [Procs -> Labels]
      /\ UNCHANGED <<cancelled, disk, tap, job, stream, inflight, budget>>
  BY DEF NextSlot, Goto, envVars, TypeOK
<1>9. /\ pc'[p] = "mkdir" /\ \A q \in Procs : q # p => pc'[q] = pc[q]
  BY <1>8
<1>10. TypeOK'
  BY <1>1, <1>3, <1>5, <1>7, <1>8 DEF TypeOK, Labels, StartSteps
<1>11. RolesOK'
  BY <1>1, <1>7, <1>9, IdsFacts DEF RolesOK, StartSteps, StopSteps
<1>12. PoolConsistent'
  BY <1>1, <1>3 DEF PoolConsistent
<1>13. StartIsAlone'
  BY <1>1, <1>9, IdsFacts DEF StartIsAlone, Procs
<1>14. \A j \in Ids : j # i /\ slots[j].inUse => slots[j].uid \in Runs /\ slots[j].uid < lease
  BY <1>1, NoRunType, HostAssumption
  DEF PoolConsistent, LeaseMatchesRun, TypeOK, Instance, Runs, NoRun
<1>15. LeaseMatchesRun'
  <2>1. slots'[i].uid <= issued' /\ run'[slots'[i].uid].slot = i
    BY <1>1, <1>3, <1>5
  <2>2. \A j \in Ids : j # i /\ slots[j].inUse =>
          slots[j].uid <= issued' /\ run'[slots[j].uid].slot = j
    BY <1>1, <1>5, <1>14 DEF LeaseMatchesRun, Runs
  <2> QED BY <1>3, <2>1, <2>2 DEF LeaseMatchesRun
<1>16. JobsOfBegunRuns'
  <2>1. \A u \in Runs : u > lease => run'[u] = run[u] /\ u > issued
    BY <1>1, <1>5 DEF Runs
  <2>2. \A m \in stream : m.run <= lease
    BY <1>1 DEF JobsOfBegunRuns, TypeOK, Messages, Runs
  <2>3. \A q \in Procs : pc'[q] \in StopSteps => loc'[q].msg.run <= lease
    BY <1>1, <1>7, <1>9 DEF JobsOfBegunRuns, RolesOK, Messages, Runs, StopSteps
  <2> QED BY <1>1, <1>8, <2>1, <2>2, <2>3 DEF JobsOfBegunRuns
<1>17. \A u : Leased(u)' => u = lease \/ Leased(u)
  BY <1>3 DEF Leased
<1>18. FreedBeforeAck'
  BY <1>1, <1>7, <1>9, <1>17 DEF FreedBeforeAck, JobsOfBegunRuns, StopSteps, Procs, RolesOK, Messages, Runs
<1>19. CompletionNotForgotten'
  <2>1. job[lease] = "none"
    BY <1>1 DEF JobsOfBegunRuns
  <2> QED BY <1>8, <1>17, <2>1 DEF CompletionNotForgotten
<1> QED BY <1>10, <1>11, <1>12, <1>13, <1>15, <1>16, <1>18, <1>19

\* A full table changes nothing.
LEMMA NoSlotInvariant ==
  ASSUME IInv, NEW p \in Procs, NoSlot(p) PROVE IInv'
<1> USE DEF IInv
<1>1. /\ pc[p] = "take" /\ loc' = [loc EXCEPT ![p] = IdleLoc]
      /\ UNCHANGED <<slots, issued, vmVars, envVars, budget>>
  BY DEF NoSlot
<1>2. PICK label \in {"serving", "next"} : pc' = [pc EXCEPT ![p] = label]
  BY DEF NoSlot, Goto
<1>3. pc \in [Procs -> Labels] /\ loc \in [Procs -> Locals]
  BY DEF TypeOK
<1>4. /\ \A q \in Procs : q # p => pc'[q] = pc[q] /\ loc'[q] = loc[q]
      /\ pc'[p] = label
  BY <1>1, <1>2, <1>3
<1>5. TypeOK'
  BY <1>1, <1>2, <1>3, RecordTypes DEF TypeOK, vmVars, envVars, Labels
<1>6. RolesOK'
  BY <1>1, <1>4, IdsFacts DEF RolesOK, StartSteps, StopSteps
<1>7. PoolConsistent' /\ LeaseMatchesRun' /\ CompletionNotForgotten'
  BY <1>1 DEF PoolConsistent, LeaseMatchesRun, CompletionNotForgotten, Leased, vmVars, envVars
<1>8. StartIsAlone' /\ JobsOfBegunRuns'
  BY <1>1, <1>4, IdsFacts
  DEF StartIsAlone, JobsOfBegunRuns, vmVars, envVars, StopSteps, Procs
<1>9. FreedBeforeAck'
  BY <1>1, <1>4 DEF FreedBeforeAck, Leased, Procs
<1> QED BY <1>5, <1>6, <1>7, <1>8, <1>9

\* A received message stays stored until it is acknowledged.
LEMMA ReceiveInvariant ==
  ASSUME IInv, NEW w \in Workers, NEW m \in stream, Receive(w, m) PROVE IInv'
<1> USE DEF IInv
<1>1. /\ pc[w] = "next" /\ w \in Procs /\ w # Main /\ m \in Messages
      /\ inflight' = inflight \cup {m}
      /\ UNCHANGED <<slots, issued, vmVars, job, stream, budget>>
  BY HostAssumption DEF Receive, Procs, TypeOK
<1>2. /\ loc' = [loc EXCEPT ![w].msg = m] /\ loc \in [Procs -> Locals]
      /\ pc' = [pc EXCEPT ![w] = "free"] /\ pc \in [Procs -> Labels]
  BY DEF Receive, Goto, TypeOK
<1>3. /\ loc' \in [Procs -> Locals] /\ loc'[w].msg = m
      /\ \A q \in Procs : q # w => pc'[q] = pc[q] /\ loc'[q] = loc[q]
      /\ pc'[w] = "free"
  BY <1>1, <1>2 DEF Locals
<1>4. TypeOK'
  BY <1>1, <1>2, <1>3 DEF TypeOK, vmVars, Labels, StopSteps
<1>5. RolesOK'
  BY <1>1, <1>3, IdsFacts DEF RolesOK, StartSteps, StopSteps
<1>6. PoolConsistent' /\ LeaseMatchesRun' /\ CompletionNotForgotten'
  BY <1>1 DEF PoolConsistent, LeaseMatchesRun, CompletionNotForgotten, Leased, vmVars
<1>7. StartIsAlone' /\ JobsOfBegunRuns'
  BY <1>1, <1>3, IdsFacts DEF StartIsAlone, JobsOfBegunRuns, vmVars, Procs
<1>8. FreedBeforeAck'
  BY <1>1, <1>3 DEF FreedBeforeAck, Leased, Procs
<1> QED BY <1>4, <1>5, <1>6, <1>7, <1>8

\* The removal of the directory leaves the lease as it is.
LEMMA FreeRemoveInvariant ==
  ASSUME IInv, NEW p \in Procs, FreeRemove(p) PROVE IInv'
<1> USE DEF IInv
<1> DEFINE i == StoppedSlot(p)
<1>1. /\ pc[p] = "free" /\ p \in Workers /\ p # Main /\ loc[p].msg \in Messages
      /\ UNCHANGED <<slots, issued, loc, run, cancelled, tap, envVars, budget>>
  BY DEF FreeRemove, RolesOK, StopSteps, Procs
<1>2. PICK label \in {"reset", "untap"} :
        /\ pc' = [pc EXCEPT ![p] = label]
        /\ label = "untap" => ~slots[i].inUse
  BY DEF FreeRemove, Goto
<1>3. /\ pc \in [Procs -> Labels]
      /\ \A q \in Procs : q # p => pc'[q] = pc[q]
      /\ pc'[p] = label
  BY <1>2 DEF TypeOK
<1>4. disk' \in [0 .. MaxRuns -> {"none", "dir", "rootfs"}]
  BY DEF FreeRemove, RemoveAll, TypeOK
<1>5. TypeOK'
  BY <1>1, <1>2, <1>3, <1>4 DEF TypeOK, envVars, Labels, StopSteps
<1>6. RolesOK'
  BY <1>1, <1>3, IdsFacts DEF RolesOK, StartSteps, StopSteps
<1>7. PoolConsistent' /\ LeaseMatchesRun' /\ CompletionNotForgotten'
  BY <1>1 DEF PoolConsistent, LeaseMatchesRun, CompletionNotForgotten, Leased, envVars
<1>8. StartIsAlone' /\ JobsOfBegunRuns'
  BY <1>1, <1>3, IdsFacts DEF StartIsAlone, JobsOfBegunRuns, envVars, StopSteps, Procs
<1>9. FreedBeforeAck'
  <2>1. ~slots[i].inUse => ~Leased(loc[p].msg.run)
    BY DEF Leased, LeaseMatchesRun, StoppedSlot
  <2> QED BY <1>1, <1>2, <1>3, <2>1 DEF FreedBeforeAck, Leased, Procs
<1> QED BY <1>5, <1>6, <1>7, <1>8, <1>9

\* A slot is freed and its lease never comes back.
LEMMA FreeResetInvariant ==
  ASSUME IInv, NEW p \in Procs, FreeReset(p) PROVE IInv'
<1> USE DEF IInv
<1> DEFINE i == StoppedSlot(p)
<1>1. /\ pc[p] = "reset" /\ p \in Workers /\ p # Main /\ loc[p].msg \in Messages
      /\ UNCHANGED <<issued, loc, run, disk, tap, envVars, budget>>
  BY DEF FreeReset, RolesOK, StopSteps, Procs
<1>2. i \in Ids
  BY <1>1 DEF StoppedSlot, Messages, TypeOK, RunRecord
<1>3. /\ pc' = [pc EXCEPT ![p] = "untap"] /\ pc \in [Procs -> Labels]
      /\ slots' = [slots EXCEPT ![i] = FreeSlot] /\ slots \in [Ids -> Instance]
  BY DEF FreeReset, Goto, TypeOK
<1>4. /\ \A q \in Procs : q # p => pc'[q] = pc[q]
      /\ pc'[p] = "untap"
      /\ slots'[i] = FreeSlot /\ \A j \in Ids : j # i => slots'[j] = slots[j]
  BY <1>2, <1>3
<1>5. ~slots'[i].inUse /\ slots'[i].uid = NoRun
  BY <1>4 DEF FreeSlot
<1>6. cancelled' \subseteq Runs
  <2>1. slots[i].cancel \in 0 .. MaxRuns
    BY <1>2, <1>3 DEF Instance
  <2>2. {slots[i].cancel} \ {NoRun} \subseteq Runs
    BY <2>1, HostAssumption DEF Runs, NoRun
  <2>3. /\ cancelled' = cancelled \cup ({slots[i].cancel} \ {NoRun})
        /\ cancelled \subseteq Runs
    BY DEF FreeReset, TypeOK
  <2> QED BY <2>2, <2>3
<1>7. TypeOK'
  BY <1>1, <1>3, <1>6, RecordTypes DEF TypeOK, envVars, Labels, StopSteps
<1>8. RolesOK'
  BY <1>1, <1>4, IdsFacts DEF RolesOK, StartSteps, StopSteps
<1>9. PoolConsistent' /\ LeaseMatchesRun'
  BY <1>1, <1>4, <1>5 DEF PoolConsistent, LeaseMatchesRun
<1>10. StartIsAlone' /\ JobsOfBegunRuns'
  BY <1>1, <1>4, <1>5, IdsFacts DEF StartIsAlone, JobsOfBegunRuns, envVars, StopSteps, Procs
<1>11. \A u : Leased(u)' => Leased(u)
  BY <1>4, <1>5 DEF Leased
<1>12. FreedBeforeAck'
  <2>1. ~Leased(loc[p].msg.run)'
    BY <1>1, <1>4, <1>5 DEF Leased, LeaseMatchesRun, StoppedSlot
  <2> QED BY <1>1, <1>4, <1>11, <2>1 DEF FreedBeforeAck, Procs
<1>13. CompletionNotForgotten'
  BY <1>1, <1>11 DEF CompletionNotForgotten, envVars
<1> QED BY <1>7, <1>8, <1>9, <1>10, <1>12, <1>13

\* The tap devices are not part of the invariant.
LEMMA DeleteTapInvariant ==
  ASSUME IInv, NEW p \in Procs, DeleteTap(p) PROVE IInv'
<1> USE DEF IInv
<1>1. /\ pc[p] = "untap" /\ p \in Workers /\ p # Main
      /\ UNCHANGED <<slots, issued, loc, run, cancelled, disk, envVars, budget>>
  BY DEF DeleteTap, RolesOK, StopSteps, Procs
<1>2. /\ pc' = [pc EXCEPT ![p] = "ack"] /\ pc \in [Procs -> Labels]
      /\ tap' = [tap EXCEPT ![StoppedSlot(p)] = NoRun] /\ tap \in [Ids -> 0 .. MaxRuns]
  BY DEF DeleteTap, Goto, TypeOK
<1>3. pc'[p] = "ack" /\ \A q \in Procs : q # p => pc'[q] = pc[q]
  BY <1>2
<1>4. tap' \in [Ids -> 0 .. MaxRuns]
  BY <1>2, NoRunType
<1>5. TypeOK'
  BY <1>1, <1>2, <1>4 DEF TypeOK, envVars, Labels, StopSteps
<1>6. RolesOK'
  BY <1>1, <1>3, IdsFacts DEF RolesOK, StartSteps, StopSteps
<1>7. PoolConsistent' /\ LeaseMatchesRun' /\ CompletionNotForgotten'
  BY <1>1 DEF PoolConsistent, LeaseMatchesRun, CompletionNotForgotten, Leased, envVars
<1>8. StartIsAlone' /\ JobsOfBegunRuns'
  BY <1>1, <1>3, IdsFacts DEF StartIsAlone, JobsOfBegunRuns, envVars, StopSteps, Procs
<1>9. FreedBeforeAck'
  BY <1>1, <1>3 DEF FreedBeforeAck, Leased, Procs
<1> QED BY <1>5, <1>6, <1>7, <1>8, <1>9

\* The message Ack takes away is not needed any more: Free has been called
\* for it, so the run it names holds no slot.
LEMMA AckInvariant ==
  ASSUME IInv, NEW p \in Procs, Ack(p) PROVE IInv'
<1> USE DEF IInv
<1> DEFINE m == loc[p].msg
<1>1. /\ pc[p] = "ack" /\ p \in Workers /\ p # Main
      /\ loc' = [loc EXCEPT ![p] = IdleLoc] /\ loc \in [Procs -> Locals]
      /\ pc' = [pc EXCEPT ![p] = "take"] /\ pc \in [Procs -> Labels]
      /\ UNCHANGED <<slots, issued, vmVars, job>>
  BY DEF Ack, RolesOK, StopSteps, Procs, Goto, TypeOK
<1>2. \/ /\ stream' = stream \ {m} /\ inflight' = inflight \ {m}
         /\ UNCHANGED budget
      \/ /\ Fault("ack") /\ UNCHANGED <<stream, inflight>>
  BY DEF Ack
<1>3. /\ pc'[p] = "take"
      /\ \A q \in Procs : q # p => pc'[q] = pc[q] /\ loc'[q] = loc[q]
  BY <1>1
<1>4. /\ stream' \subseteq stream /\ inflight' \subseteq stream'
      /\ \A n \in stream : n # m => n \in stream'
  BY <1>2 DEF TypeOK
<1>5. budget' \in [jobs : 0 .. MaxJobs, faults : 0 .. MaxFaults]
  BY <1>2, BudgetType DEF TypeOK
<1>6. TypeOK'
  BY <1>1, <1>4, <1>5, RecordTypes DEF TypeOK, vmVars, Labels
<1>7. RolesOK'
  BY <1>1, <1>3, IdsFacts DEF RolesOK, StartSteps, StopSteps
<1>8. PoolConsistent' /\ LeaseMatchesRun'
  BY <1>1 DEF PoolConsistent, LeaseMatchesRun, vmVars
<1>9. StartIsAlone' /\ JobsOfBegunRuns'
  BY <1>1, <1>3, <1>4, IdsFacts
  DEF StartIsAlone, JobsOfBegunRuns, vmVars, StopSteps, Procs
<1>10. FreedBeforeAck'
  BY <1>1, <1>3 DEF FreedBeforeAck, Leased, Procs
<1>11. CompletionNotForgotten'
  <2>1. ~Leased(m.run)
    BY <1>1 DEF FreedBeforeAck
  <2> QED BY <1>1, <1>4, <2>1 DEF CompletionNotForgotten, Leased
<1> QED BY <1>6, <1>7, <1>8, <1>9, <1>10, <1>11

\* A step of a machine touches neither the slot table nor the messages.
LEMMA MachineInvariant ==
  ASSUME IInv, NEW u \in Runs, Reap(u) \/ MachineExits(u) PROVE IInv'
<1> USE DEF IInv
<1>1. /\ run[u].state = "up" /\ run \in [Runs -> RunRecord]
      /\ run' = [run EXCEPT ![u].state = "dead"]
      /\ UNCHANGED <<hostVars, cancelled, disk, tap, envVars>>
  BY DEF Reap, MachineExits, TypeOK
<1>2. /\ run' \in [Runs -> RunRecord]
      /\ \A v \in Runs : run'[v].slot = run[v].slot
      /\ \A v \in Runs : v # u => run'[v] = run[v]
  BY <1>1 DEF RunRecord
<1>3. budget' \in [jobs : 0 .. MaxJobs, faults : 0 .. MaxFaults]
  BY BudgetType DEF Reap, MachineExits, TypeOK
<1>4. TypeOK'
  BY <1>1, <1>2, <1>3 DEF TypeOK, hostVars, envVars
<1>5. RolesOK' /\ PoolConsistent' /\ StartIsAlone' /\ FreedBeforeAck'
      /\ CompletionNotForgotten'
  BY <1>1 DEF RolesOK, PoolConsistent, StartIsAlone, FreedBeforeAck,
              CompletionNotForgotten, Leased, hostVars, envVars
<1>6. LeaseMatchesRun'
  <2>1. \A i \in Ids : slots[i].inUse => slots[i].uid \in Runs
    BY NoRunType, HostAssumption DEF PoolConsistent, TypeOK, Instance, Runs, NoRun
  <2> QED BY <1>1, <1>2, <2>1 DEF LeaseMatchesRun, hostVars
<1>7. JobsOfBegunRuns'
  <2>1. ~(u > issued)
    BY <1>1 DEF JobsOfBegunRuns
  <2> QED BY <1>1, <1>2, <2>1 DEF JobsOfBegunRuns, hostVars, envVars
<1> QED BY <1>4, <1>5, <1>6, <1>7

\* GitHub and the webhook: a job changes its state only for a run that has
\* begun, and becomes done together with the event.
LEMMA JobInvariant ==
  ASSUME IInv, NEW u \in Runs,
         PickJob(u) \/ Complete(u) \/ LoseEvent(u) \/ Duplicate(u)
  PROVE  IInv'
<1> USE DEF IInv
<1>1. /\ UNCHANGED <<hostVars, vmVars, inflight>>
      /\ stream \subseteq stream'
  BY DEF PickJob, Complete, LoseEvent, Duplicate
<1>2. u <= issued
  BY DEF PickJob, Complete, LoseEvent, Duplicate, JobsOfBegunRuns, TypeOK, Runs
<1>3. /\ job' \in [Runs -> {"none", "busy", "done", "lost"}]
      /\ \A v \in Runs : v # u => job'[v] = job[v]
  BY DEF PickJob, Complete, LoseEvent, Duplicate, TypeOK
<1>4. \A m \in stream' : m \in stream \/ (m \in Messages /\ m.run = u)
  BY HostAssumption
  DEF PickJob, Complete, LoseEvent, Duplicate, Messages, TypeOK
<1>5. job'[u] = "done" => job[u] = "done" \/ \E m \in stream' : m.run = u
  <2>1. CASE Complete(u)
    <3>1. [run |-> u, copy |-> 0] \in stream'
      BY <2>1 DEF Complete
    <3> QED BY <3>1
  <2>2. CASE PickJob(u) \/ LoseEvent(u)
    <3>1. job'[u] # "done"
      BY <2>2 DEF PickJob, LoseEvent, TypeOK
    <3> QED BY <3>1
  <2>3. CASE Duplicate(u)
    BY <2>3 DEF Duplicate
  <2> QED BY <2>1, <2>2, <2>3
<1>6. budget' \in [jobs : 0 .. MaxJobs, faults : 0 .. MaxFaults]
  <2>1. CASE PickJob(u)
    <3>1. /\ budget \in [jobs : 0 .. MaxJobs, faults : 0 .. MaxFaults]
          /\ budget.jobs > 0
          /\ budget' = [budget EXCEPT !.jobs = @ - 1]
      BY <2>1 DEF PickJob, TypeOK
    <3>2. budget.jobs \in 0 .. MaxJobs /\ budget.jobs - 1 \in 0 .. MaxJobs
      BY <3>1, HostAssumption
    <3> QED BY <3>1, <3>2
  <2> QED BY <2>1, BudgetType DEF Complete, LoseEvent, Duplicate, TypeOK
<1>7. TypeOK'
  BY <1>1, <1>3, <1>4, <1>6 DEF TypeOK, hostVars, vmVars
<1>8. RolesOK' /\ PoolConsistent' /\ StartIsAlone' /\ LeaseMatchesRun' /\ FreedBeforeAck'
  BY <1>1 DEF RolesOK, PoolConsistent, StartIsAlone, LeaseMatchesRun, FreedBeforeAck,
              Leased, hostVars, vmVars
<1>9. JobsOfBegunRuns'
  <2>1. UNCHANGED <<issued, run, pc, loc>>
    BY <1>1 DEF hostVars, vmVars
  <2>2. \A v \in Runs : v > issued => v # u
    BY <1>2 DEF Runs, TypeOK
  <2>3. \A m \in stream' : m.run <= issued
    BY <1>2, <1>4 DEF JobsOfBegunRuns
  <2> QED BY <1>3, <2>1, <2>2, <2>3 DEF JobsOfBegunRuns
<1>10. CompletionNotForgotten'
  BY <1>1, <1>3, <1>5 DEF CompletionNotForgotten, Leased, hostVars
<1> QED BY <1>7, <1>8, <1>9, <1>10

\* A message delivered again was stored all along.
LEMMA ExpireInvariant ==
  ASSUME IInv, NEW m \in inflight, Expire(m) PROVE IInv'
<1> USE DEF IInv
<1>1. /\ inflight' = inflight \ {m}
      /\ UNCHANGED <<hostVars, vmVars, job, stream>>
  BY DEF Expire
<1>2. budget' \in [jobs : 0 .. MaxJobs, faults : 0 .. MaxFaults]
  BY BudgetType DEF Expire, TypeOK
<1>3. TypeOK'
  BY <1>1, <1>2 DEF TypeOK, hostVars, vmVars
<1>4. /\ RolesOK' /\ PoolConsistent' /\ StartIsAlone' /\ LeaseMatchesRun'
      /\ JobsOfBegunRuns' /\ FreedBeforeAck' /\ CompletionNotForgotten'
  BY <1>1 DEF RolesOK, PoolConsistent, StartIsAlone, LeaseMatchesRun, JobsOfBegunRuns,
              FreedBeforeAck, CompletionNotForgotten, Leased, hostVars, vmVars
<1> QED BY <1>3, <1>4

\* A crash leaves no lease and no goroutine.
LEMMA CrashInvariant ==
  ASSUME IInv, Crash PROVE IInv'
<1> USE DEF IInv
<1>1. /\ slots' = [i \in Ids |-> FreeSlot]
      /\ pc' = [q \in Procs |-> IF q = Main THEN "start" ELSE "off"]
      /\ loc' = [q \in Procs |-> IdleLoc]
      /\ UNCHANGED <<issued, cancelled, disk, tap, envVars>>
  BY DEF Crash
<1>2. /\ run' \in [Runs -> RunRecord]
      /\ \A u \in Runs : run[u].state = "none" => run'[u] = run[u]
  BY DEF Crash, TypeOK, RunRecord
<1>3. budget' \in [jobs : 0 .. MaxJobs, faults : 0 .. MaxFaults]
  BY BudgetType DEF Crash
<1>4. TypeOK'
  BY <1>1, <1>2, <1>3, RecordTypes DEF TypeOK, envVars, Labels
<1>5. \A i \in Ids : ~slots'[i].inUse /\ slots'[i].uid = NoRun
  BY <1>1 DEF FreeSlot
<1>6. RolesOK' /\ StartIsAlone' /\ FreedBeforeAck'
  BY <1>1, <1>5, IdsFacts, HostAssumption
  DEF RolesOK, StartIsAlone, FreedBeforeAck, StartSteps, StopSteps, Procs
<1>7. PoolConsistent' /\ LeaseMatchesRun' /\ CompletionNotForgotten'
  BY <1>5 DEF PoolConsistent, LeaseMatchesRun, CompletionNotForgotten, Leased
<1>8. JobsOfBegunRuns'
  BY <1>1, <1>2 DEF JobsOfBegunRuns, envVars, StopSteps
<1> QED BY <1>4, <1>6, <1>7, <1>8

-----------------------------------------------------------------------------
\* The invariant is inductive.
LEMMA NextInvariant == IInv /\ [Next]_vars => IInv'
<1> SUFFICES ASSUME IInv, [Next]_vars PROVE IInv'
  OBVIOUS
<1>1. CASE Start
  BY <1>1, StartInvariant
<1>2. CASE \E p \in Procs, i \in Ids : NextSlot(p, i)
  BY <1>2, NextSlotInvariant
<1>3. CASE \E p \in Procs : NoSlot(p)
  BY <1>3, NoSlotInvariant
<1>4. CASE \E p \in Procs : StartRunner(p) \/ StartFails(p)
  <2>1. PICK p \in Procs : StartRunner(p) \/ StartFails(p)
    BY <1>4
  <2>2. TypeOK' /\ StartFrame(p)
    BY <2>1, StartRunnerFrame DEF IInv
  <2> QED BY <2>2, StartFrameInvariant
<1>5. CASE \E p \in Procs : StopRunner(p)
  BY <1>5, FreeRemoveInvariant, FreeResetInvariant, DeleteTapInvariant, AckInvariant
  DEF StopRunner
<1>6. CASE \E w \in Workers, m \in stream : Receive(w, m)
  BY <1>6, ReceiveInvariant
<1>7. CASE \E u \in Runs : \/ PickJob(u) \/ Complete(u) \/ LoseEvent(u)
                           \/ Duplicate(u) \/ Reap(u) \/ MachineExits(u)
  BY <1>7, JobInvariant, MachineInvariant
<1>8. CASE \E m \in inflight : Expire(m)
  BY <1>8, ExpireInvariant
<1>9. CASE Crash
  BY <1>9, CrashInvariant
<1>10. CASE UNCHANGED vars
  BY <1>10
  DEF IInv, TypeOK, RolesOK, PoolConsistent, StartIsAlone, LeaseMatchesRun,
      JobsOfBegunRuns, FreedBeforeAck, CompletionNotForgotten, Leased,
      vars, hostVars, vmVars, envVars
<1> QED
  BY <1>1, <1>2, <1>3, <1>4, <1>5, <1>6, <1>7, <1>8, <1>9, <1>10 DEF Next, Rest

\* IInv is an invariant of the host controller.
LEMMA Invariant == Spec => []IInv
BY InitInvariant, NextInvariant, PTL DEF Spec

\* Every variable keeps its type, for any number of slots and workers and any
\* faults.
THEOREM TypeCorrect == Spec => []TypeOK
BY Invariant, PTL DEF IInv

\* A completed job's slot is never forgotten while it is held.
THEOREM CompletionSafe == Spec => []CompletionNotForgotten
BY Invariant, PTL DEF IInv

-----------------------------------------------------------------------------
\* Every step is a step of the abstract pool or leaves it alone: Next acquires,
\* Free releases, a restart resets.
LEMMA PoolStep == IInv /\ [Next]_vars => [Pool!Next]_(Pool!vars)
<1> SUFFICES ASSUME IInv, [Next]_vars PROVE [Pool!Next]_(Pool!vars)
  OBVIOUS
<1> DEFINE holder == [i \in Ids |-> slots[i].uid]
<1> USE DEF IInv
<1>1. CASE \E p \in Procs, i \in Ids : NextSlot(p, i)
  <2>1. PICK p \in Procs, i \in Ids : NextSlot(p, i)
    BY <1>1
  <2>2. /\ ~slots[i].inUse /\ issued < MaxRuns /\ issued' = issued + 1
        /\ slots' = [slots EXCEPT ![i].uid = issued + 1, ![i].inUse = TRUE]
        /\ slots \in [Ids -> Instance]
    BY <2>1 DEF NextSlot, FirstFree, TypeOK
  <2>3. holder[i] = NoRun
    BY <2>2 DEF PoolConsistent
  <2>4. /\ slots'[i].uid = issued + 1
        /\ \A j \in Ids : j # i => slots'[j].uid = slots[j].uid
    BY <2>2 DEF Instance
  <2>5. holder' = [holder EXCEPT ![i] = issued + 1]
    BY <2>4
  <2>6. Pool!Acquire(i)
    BY <2>2, <2>3, <2>5 DEF Pool!Acquire, Pool!Free, NoRun
  <2> QED BY <2>6 DEF Pool!Next
<1>2. CASE \E p \in Procs : FreeReset(p)
  <2>1. PICK p \in Procs : FreeReset(p)
    BY <1>2
  <2>2. pc[p] = "reset" /\ loc[p].msg \in Messages
    BY <2>1 DEF FreeReset, RolesOK, StopSteps
  <2>3. PICK i \in Ids : i = StoppedSlot(p)
    BY <2>2 DEF StoppedSlot, Messages, TypeOK, RunRecord
  <2>4. /\ slots' = [slots EXCEPT ![i] = FreeSlot] /\ slots \in [Ids -> Instance]
        /\ issued' = issued
    BY <2>1, <2>3 DEF FreeReset, TypeOK
  <2>5. /\ slots'[i].uid = NoRun
        /\ \A j \in Ids : j # i => slots'[j].uid = slots[j].uid
    BY <2>3, <2>4 DEF FreeSlot
  <2>6. holder' = [holder EXCEPT ![i] = NoRun]
    BY <2>3, <2>5
  <2>7. CASE holder[i] # NoRun
    <3>1. Pool!Release(i)
      BY <2>4, <2>6, <2>7 DEF Pool!Release, Pool!Free, NoRun
    <3> QED BY <3>1 DEF Pool!Next
  <2>8. CASE holder[i] = NoRun
    <3>1. UNCHANGED <<holder, issued>>
      BY <2>3, <2>4, <2>5, <2>8
    <3> QED BY <3>1 DEF Pool!vars
  <2> QED BY <2>7, <2>8
<1>3. CASE Crash
  <2>1. holder' = [i \in Ids |-> NoRun] /\ issued' = issued
    BY <1>3 DEF Crash, FreeSlot
  <2> QED BY <2>1 DEF Pool!Next, Pool!Reset, Pool!Free, NoRun
<1>4. CASE \E p \in Procs : StartRunner(p) \/ StartFails(p)
  <2>1. PICK p \in Procs : StartRunner(p) \/ StartFails(p)
    BY <1>4
  <2>2. StartFrame(p)
    BY <2>1, StartRunnerFrame
  <2>3. (\A i \in Ids : slots'[i].uid = slots[i].uid) /\ issued' = issued
    BY <2>2 DEF StartFrame
  <2>4. holder' = holder
    BY <2>3
  <2> QED BY <2>3, <2>4 DEF Pool!vars
<1>5. CASE \/ Start \/ UNCHANGED vars \/ \E m \in inflight : Expire(m)
           \/ \E p \in Procs : NoSlot(p) \/ FreeRemove(p) \/ DeleteTap(p) \/ Ack(p)
           \/ \E w \in Workers, m \in stream : Receive(w, m)
           \/ \E u \in Runs : \/ PickJob(u) \/ Complete(u) \/ LoseEvent(u)
                              \/ Duplicate(u) \/ Reap(u) \/ MachineExits(u)
  <2>1. UNCHANGED <<slots, issued>>
    BY <1>5
    DEF Start, Expire, NoSlot, FreeRemove, DeleteTap, Ack, Receive, PickJob, Complete,
        LoseEvent, Duplicate, Reap, MachineExits, vars, hostVars
  <2> QED BY <2>1 DEF Pool!vars
<1> QED
  BY <1>1, <1>2, <1>3, <1>4, <1>5 DEF Next, StopRunner, Rest

\* The slot table implements SlotPool.
THEOREM PoolCorrect == Spec => PoolRefinement
<1>1. Init => Pool!Init
  BY DEF Init, Pool!Init, Pool!Free, FreeSlot, NoRun
<1> QED
  BY <1>1, Invariant, PoolStep, PTL DEF Spec, PoolRefinement, Pool!Spec

\* No two slots are ever held under one UID, so no two runners are started in
\* one working directory.
THEOREM LeasesSafe == Spec => []Pool!LeasesExclusive
<1>1. IInv => Pool!LeasesExclusive
  <2> SUFFICES ASSUME IInv, NEW i \in Ids, NEW j \in Ids,
                      slots[i].uid # NoRun, slots[i].uid = slots[j].uid
               PROVE  i = j
    BY DEF Pool!LeasesExclusive, Pool!Free, NoRun
  <2>1. slots[i].inUse /\ slots[j].inUse
    BY DEF IInv, PoolConsistent
  <2> QED BY <2>1 DEF IInv, LeaseMatchesRun
<1> QED BY <1>1, Invariant, PTL

-----------------------------------------------------------------------------
\* One step removes at most the working directory of the run whose slot it is
\* about to free.
LEMMA WorkdirStep ==
  ASSUME IInv, [Next]_vars, NEW u \in 0 .. MaxRuns,
         disk[u] # "none", disk'[u] = "none"
  PROVE  \E w \in Workers :
           /\ pc[w] = "free" /\ pc'[w] # "free"
           /\ Leased(u) /\ slots[StoppedSlot(w)].uid = u
<1> USE DEF IInv
<1>1. disk' # disk
  OBVIOUS
<1>2. ~ \E p \in Procs : MakeDir(p) \/ CopyRootFS(p)
  <2>1. ASSUME NEW p \in Procs, MakeDir(p) PROVE FALSE
    BY <2>1 DEF MakeDir, TypeOK
  <2>2. ASSUME NEW p \in Procs, CopyRootFS(p) PROVE FALSE
    BY <2>2 DEF CopyRootFS, TypeOK
  <2> QED BY <2>1, <2>2
<1>3. \E p \in Procs : FreeRemove(p)
  BY <1>1, <1>2
  DEF Next, Rest, Start, NextSlot, NoSlot, StartRunner, ArmCancel, ClearTap, AddTap,
      Configure, Launch, StartFails, StopRunner, FreeReset, DeleteTap, Ack, Receive,
      PickJob, Complete, LoseEvent, Duplicate, Reap, MachineExits, Expire, Crash,
      vars, vmVars
<1>4. PICK p \in Procs : FreeRemove(p)
  BY <1>3
<1> DEFINE i == StoppedSlot(p)
<1>5. /\ pc[p] = "free" /\ p \in Workers /\ loc[p].msg \in Messages
      /\ pc \in [Procs -> Labels]
  BY <1>4 DEF FreeRemove, RolesOK, StopSteps, Procs, TypeOK
<1>6. i \in Ids
  BY <1>5 DEF StoppedSlot, Messages, TypeOK, RunRecord
<1>7. slots[i].inUse /\ RemoveAll(slots[i].uid) /\ pc' = [pc EXCEPT ![p] = "reset"]
  BY <1>1, <1>4 DEF FreeRemove, Goto
<1>8. slots[i].uid # NoRun
  BY <1>6, <1>7 DEF PoolConsistent
<1>9. slots[i].uid = u
  BY <1>7, <1>8 DEF RemoveAll
<1> QED BY <1>5, <1>6, <1>7, <1>9 DEF Leased

\* Handling a completed event removes the directory of the named slot's run,
\* and nothing else under /tmp/fc.
THEOREM WorkdirSafe == Spec => RemovesOneWorkdir
<1>1. IInv /\ [Next]_vars =>
        [\A u \in 0 .. MaxRuns :
           disk[u] # "none" /\ disk'[u] = "none" =>
             \E w \in Workers :
               /\ pc[w] = "free" /\ pc'[w] # "free"
               /\ Leased(u) /\ slots[StoppedSlot(w)].uid = u]_vars
  BY WorkdirStep
<1> QED
  BY <1>1, Invariant, PTL DEF Spec, RemovesOneWorkdir

-----------------------------------------------------------------------------
\* The slots nobody holds, and the workers that will ask for one.
FreeSlots == {i \in Ids : ~slots[i].inUse}
Askers    == {w \in Workers : pc[w] \in {"untap", "ack", "take"}}

\* Free slots and those who will ask for one can be counted.
LEMMA SlotsAndAskersFinite ==
  /\ IsFiniteSet(FreeSlots) /\ Cardinality(FreeSlots) \in Nat
  /\ IsFiniteSet(Askers) /\ Cardinality(Askers) \in Nat
<1>1. IsFiniteSet(Ids)
  BY FS_Interval, HostAssumption DEF Ids
<1>2. FreeSlots \subseteq Ids /\ Askers \subseteq Workers
  BY DEF FreeSlots, Askers
<1> QED BY <1>1, <1>2, FS_Subset, FS_CardinalityType, HostAssumption

\* The same for the next state.
LEMMA SlotsAndAskersFiniteNext ==
  /\ IsFiniteSet(FreeSlots') /\ Cardinality(FreeSlots') \in Nat
  /\ IsFiniteSet(Askers') /\ Cardinality(Askers') \in Nat
<1>1. IsFiniteSet(Ids)
  BY FS_Interval, HostAssumption DEF Ids
<1>2. FreeSlots' \subseteq Ids /\ Askers' \subseteq Workers
  BY DEF FreeSlots, Askers
<1> QED BY <1>1, <1>2, FS_Subset, FS_CardinalityType, HostAssumption

\* A step that frees nothing and sends no asker away keeps the property.
LEMMA NoMoreFree ==
  ASSUME FreeSlotsAreAttended, FreeSlots' \subseteq FreeSlots, Askers \subseteq Askers',
         pc[Main] = "serving"
  PROVE  FreeSlotsAreAttended'
<1>1. Cardinality(FreeSlots) <= Cardinality(Askers)
  BY DEF FreeSlotsAreAttended, FreeSlots, Askers
<1>2. Cardinality(FreeSlots') <= Cardinality(FreeSlots)
  BY SlotsAndAskersFinite, FS_Subset
<1>3. Cardinality(Askers) <= Cardinality(Askers')
  BY SlotsAndAskersFiniteNext, FS_Subset
<1>4. Cardinality(FreeSlots') <= Cardinality(Askers')
  BY <1>1, <1>2, <1>3, SlotsAndAskersFinite, SlotsAndAskersFiniteNext
<1> QED BY <1>4 DEF FreeSlotsAreAttended, FreeSlots, Askers

\* Every step keeps as many who ask as there are free slots.
LEMMA AttendedStep ==
  ASSUME IInv, FreeSlotsAreAttended, [Next]_vars
  PROVE  FreeSlotsAreAttended'
<1> USE DEF IInv
<1>1. CASE pc'[Main] # "serving"
  BY <1>1 DEF FreeSlotsAreAttended
<1>2. ASSUME NEW p \in Procs, NoSlot(p) PROVE FreeSlotsAreAttended'
  <2>1. FreeSlots' = {}
    BY <1>2 DEF NoSlot, FreeSlots
  <2>2. Cardinality(FreeSlots') = 0
    BY <2>1, FS_EmptySet
  <2>3. Cardinality(FreeSlots') <= Cardinality(Askers')
    BY <2>2, SlotsAndAskersFiniteNext
  <2> QED BY <2>3 DEF FreeSlotsAreAttended, FreeSlots, Askers
<1>3. ASSUME NEW p \in Procs, NEW i \in Ids, NextSlot(p, i), pc'[Main] = "serving"
      PROVE  FreeSlotsAreAttended'
  <2>1. /\ pc[p] = "take" /\ pc' = [pc EXCEPT ![p] = "mkdir"] /\ pc \in [Procs -> Labels]
        /\ ~slots[i].inUse
        /\ slots' = [slots EXCEPT ![i].uid = issued + 1, ![i].inUse = TRUE]
        /\ slots \in [Ids -> Instance]
    BY <1>3 DEF NextSlot, Goto, TypeOK, FirstFree
  <2>2. pc[Main] = "serving" /\ p \in Workers
    BY <1>3, <2>1, IdsFacts DEF Procs
  <2>3. \A j \in Ids : slots'[j].inUse <=> j = i \/ slots[j].inUse
    BY <2>1 DEF Instance
  <2>4. FreeSlots' = FreeSlots \ {i} /\ i \in FreeSlots
    BY <2>1, <2>3 DEF FreeSlots
  <2>5. Askers' = Askers \ {p} /\ p \in Askers
    BY <2>1, <2>2 DEF Askers, Procs
  <2>6. /\ Cardinality(FreeSlots') = Cardinality(FreeSlots) - 1
        /\ Cardinality(Askers') = Cardinality(Askers) - 1
    BY <2>4, <2>5, SlotsAndAskersFinite, FS_RemoveElement
  <2>7. Cardinality(FreeSlots) <= Cardinality(Askers)
    BY <2>2 DEF FreeSlotsAreAttended, FreeSlots, Askers
  <2>8. Cardinality(FreeSlots') <= Cardinality(Askers')
    BY <2>6, <2>7, SlotsAndAskersFinite
  <2> QED BY <2>8 DEF FreeSlotsAreAttended, FreeSlots, Askers
<1>4. ASSUME NEW p \in Procs, FreeReset(p), pc'[Main] = "serving"
      PROVE  FreeSlotsAreAttended'
  <2>1. /\ pc[p] = "reset" /\ pc' = [pc EXCEPT ![p] = "untap"] /\ pc \in [Procs -> Labels]
        /\ slots' = [slots EXCEPT ![StoppedSlot(p)] = FreeSlot] /\ slots \in [Ids -> Instance]
    BY <1>4 DEF FreeReset, Goto, TypeOK
  <2>2. pc[Main] = "serving" /\ p \in Workers
    BY <1>4, <2>1 DEF Procs, RolesOK, StopSteps
  <2>3. PICK i \in Ids : i = StoppedSlot(p)
    BY <2>1 DEF StoppedSlot, Messages, TypeOK, RunRecord, RolesOK, StopSteps
  <2>4. \A j \in Ids : j # i => slots'[j] = slots[j]
    BY <2>1, <2>3
  <2>5. FreeSlots' \subseteq FreeSlots \cup {i}
    BY <2>4 DEF FreeSlots
  <2>6. Askers' = Askers \cup {p} /\ p \notin Askers
    BY <2>1, <2>2 DEF Askers, Procs
  <2>7. /\ IsFiniteSet(FreeSlots \cup {i}) /\ Cardinality(FreeSlots \cup {i}) \in Nat
        /\ Cardinality(FreeSlots \cup {i}) <= Cardinality(FreeSlots) + 1
    <3>1. IsFiniteSet(FreeSlots) /\ Cardinality(FreeSlots) \in Nat
      BY SlotsAndAskersFinite
    <3>2. /\ IsFiniteSet(FreeSlots \cup {i})
          /\ Cardinality(FreeSlots \cup {i}) =
               IF i \in FreeSlots THEN Cardinality(FreeSlots) ELSE Cardinality(FreeSlots) + 1
      BY <3>1, FS_AddElement
    <3> QED BY <3>1, <3>2
  <2>8. Cardinality(FreeSlots') <= Cardinality(FreeSlots \cup {i})
    BY <2>5, <2>7, FS_Subset
  <2>9. Cardinality(Askers') = Cardinality(Askers) + 1
    BY <2>6, SlotsAndAskersFinite, FS_AddElement
  <2>10. Cardinality(FreeSlots) <= Cardinality(Askers)
    BY <2>2 DEF FreeSlotsAreAttended, FreeSlots, Askers
  <2>11. Cardinality(FreeSlots') <= Cardinality(Askers')
    BY <2>7, <2>8, <2>9, <2>10, SlotsAndAskersFinite, SlotsAndAskersFiniteNext
  <2> QED BY <2>11 DEF FreeSlotsAreAttended, FreeSlots, Askers
<1>5. ASSUME NEW p \in Procs, StartRunner(p) \/ StartFails(p), pc'[Main] = "serving"
      PROVE  FreeSlotsAreAttended'
  <2>1. StartFrame(p)
    BY <1>5, StartRunnerFrame
  <2>2. /\ pc[p] \in StartSteps /\ pc'[p] # "serving"
        /\ \A q \in Procs : q # p => pc'[q] = pc[q]
    BY <2>1 DEF StartFrame, TypeOK, StartSteps
  <2>3. FreeSlots' = FreeSlots
    BY <2>1 DEF StartFrame, FreeSlots
  <2>4. Askers \subseteq Askers'
    BY <2>2 DEF Askers, StartSteps, Procs
  <2>5. pc[Main] = "serving"
    BY <1>5, <2>2, IdsFacts
  <2> QED BY <2>3, <2>4, <2>5, NoMoreFree
<1>6. ASSUME NEW p \in Procs, FreeRemove(p) \/ DeleteTap(p) \/ Ack(p), pc'[Main] = "serving"
      PROVE  FreeSlotsAreAttended'
  <2>1. /\ UNCHANGED slots /\ pc[p] \in StopSteps
        /\ \E label \in {"reset", "untap", "ack", "take"} :
             pc' = [pc EXCEPT ![p] = label] /\ (pc[p] \in {"untap", "ack"} => label # "reset")
    BY <1>6 DEF FreeRemove, DeleteTap, Ack, Goto, StopSteps
  <2>2. pc[Main] = "serving"
    BY <1>6, <2>1, IdsFacts DEF TypeOK
  <2>3. FreeSlots' = FreeSlots
    BY <2>1 DEF FreeSlots
  <2>4. Askers \subseteq Askers'
    BY <2>1 DEF Askers, StopSteps, TypeOK, Procs
  <2> QED BY <2>2, <2>3, <2>4, NoMoreFree
<1>7. ASSUME NEW w \in Workers, NEW m \in stream, Receive(w, m), pc'[Main] = "serving"
      PROVE  FreeSlotsAreAttended'
  <2>1. /\ UNCHANGED slots /\ pc[w] = "next" /\ pc' = [pc EXCEPT ![w] = "free"]
    BY <1>7 DEF Receive, Goto
  <2>2. pc[Main] = "serving"
    BY <1>7, <2>1, HostAssumption, IdsFacts DEF TypeOK, Procs
  <2>3. FreeSlots' = FreeSlots /\ Askers \subseteq Askers'
    BY <2>1 DEF FreeSlots, Askers, TypeOK, Procs
  <2> QED BY <2>2, <2>3, NoMoreFree
<1>8. CASE UNCHANGED <<slots, pc>>
  BY <1>8 DEF FreeSlotsAreAttended
<1>9. CASE Start \/ Crash
  <2>1. pc'[Main] # "serving"
    BY <1>9, IdsFacts DEF Start, Crash
  <2> QED BY <2>1 DEF FreeSlotsAreAttended
<1> QED
  BY <1>1, <1>2, <1>3, <1>4, <1>5, <1>6, <1>7, <1>8, <1>9
  DEF Next, Rest, StopRunner, PickJob, Complete, LoseEvent, Duplicate, Reap, MachineExits,
      Expire, vars, hostVars

\* Once RunVMs has filled the host, no order of completions and failures
\* leaves a slot free that no worker is about to ask for.
THEOREM NoSlotUnattended == Spec => []FreeSlotsAreAttended
<1>1. Init => FreeSlotsAreAttended
  BY IdsFacts DEF Init, FreeSlotsAreAttended
<1>2. IInv /\ FreeSlotsAreAttended /\ [Next]_vars => FreeSlotsAreAttended'
  BY AttendedStep
<1> QED BY Invariant, <1>1, <1>2, PTL DEF Spec
=============================================================================

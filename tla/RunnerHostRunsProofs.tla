------------------------ MODULE RunnerHostRunsProofs ------------------------
(***************************************************************************)
(* Proofs about the runs of the host controller: which machines can still  *)
(* be stopped, which contexts are cancelled, whose disk and tap devices    *)
(* are whose.  Unlike the properties of RunnerHostProofs these depend on   *)
(* what the environment does; each hypothesis is a definition below.       *)
(***************************************************************************)
EXTENDS RunnerHostProofs

\* Every completed event is stored once and acknowledged in time, and hostctl
\* is not restarted; starts may fail, machines exit and events be lost.
Genuine == Faults \subseteq {"start", "exit", "lose"}

\* One worker, no restart, and no job is taken before RunVMs has returned.
Quiet == /\ \A v, w \in Workers : v = w
         /\ "crash" \notin Faults /\ BootQuiet

-----------------------------------------------------------------------------
Starter(p) == pc[p] \in StartSteps
Armed      == {"tapclear", "tapadd", "config", "launch"}

\* The slot a run was started in is still held under its lease.
Held(u) == LET s == slots[run[u].slot] IN s.inUse /\ s.uid = u

\* A goroutine in StartRunner has a run of its own, that holds its slot, and
\* from ArmCancel on the slot has its cancel function.
StartersHold ==
    \A p \in Procs : Starter(p) =>
      LET u == loc[p].run IN
        /\ loc[p].slot = run[u].slot /\ Held(u)
        /\ run[u].state = "starting"
        /\ \A q \in Procs : Starter(q) /\ loc[q].run = u => q = p
        /\ pc[p] \in Armed => slots[loc[p].slot].cancel = u

\* Only machines that came up take jobs.
JobsOfStarted ==
    \A u \in Runs : job[u] # "none" => run[u].state \notin {"none", "starting"}

\* A slot has the cancel function of the run that holds it, or none.
CancelOfHolder == \A i \in Ids : slots[i].cancel \in {NoRun, slots[i].uid}

\* A machine that is up can be stopped through its slot, or is being stopped.
UpRuns ==
    \A u \in Runs : run[u].state = "up" =>
      IF Held(u) THEN slots[run[u].slot].cancel = u ELSE u \in cancelled

RunsOK == StartersHold /\ JobsOfStarted /\ CancelOfHolder /\ UpRuns

-----------------------------------------------------------------------------
\* What a goroutine in StartRunner does to the state RunsOK is about: it goes
\* on with its run, or returns having failed or launched it.
GoesOn(p) ==
    /\ pc'[p] \in StartSteps
    /\ loc'[p].run = loc[p].run /\ loc'[p].slot = loc[p].slot
    /\ run'[loc[p].run].state = run[loc[p].run].state
    /\ \/ /\ pc[p] = "arm" /\ pc'[p] = "tapclear"
          /\ slots'[loc[p].slot].cancel = loc[p].run
          /\ \A i \in Ids : i # loc[p].slot => slots'[i].cancel = slots[i].cancel
       \/ /\ pc'[p] \in Armed => pc[p] \in Armed
          /\ \A i \in Ids : slots'[i].cancel = slots[i].cancel

Returns(p) ==
    /\ pc'[p] \in {"take", "next"}
    /\ \/ run'[loc[p].run].state = "failed"
       \/ run'[loc[p].run].state = "up" /\ pc[p] = "launch"
    /\ \A i \in Ids : slots'[i].cancel = slots[i].cancel

\* A goroutine in StartRunner has a run that was begun, and a slot.
LEMMA StarterRun ==
  ASSUME IInv, NEW p \in Procs, Starter(p)
  PROVE  /\ loc[p].run \in Runs /\ loc[p].run \in 1 .. issued
         /\ loc[p].slot \in Ids
<1>1. loc[p].run \in 1 .. issued /\ issued \in 0 .. MaxRuns
  BY DEF IInv, RolesOK, TypeOK, Starter
<1>2. loc[p].slot \in Ids
  BY DEF IInv, TypeOK, Locals
<1> QED BY <1>1, <1>2, HostAssumption DEF Runs

\* A failed start returns and leaves other runs alone.
LEMMA FailReturns ==
  ASSUME IInv, NEW p \in Procs, pc[p] \in StartSteps, Fail(p), UNCHANGED slots
  PROVE  Returns(p) /\ \A v \in Runs : v # loc[p].run => run'[v] = run[v]
<1>1. loc[p].run \in Runs /\ run \in [Runs -> RunRecord]
  BY StarterRun DEF IInv, TypeOK, Starter
<1>2. run' = [run EXCEPT ![loc[p].run].state = "failed"]
  BY DEF Fail
<1>3. /\ run'[loc[p].run].state = "failed"
      /\ \A v \in Runs : v # loc[p].run => run'[v] = run[v]
  BY <1>1, <1>2 DEF RunRecord
<1>4. pc'[p] \in {"take", "next"}
  BY DEF Fail, Return, Goto, IInv, TypeOK
<1> QED BY <1>3, <1>4 DEF Returns

\* Each of the steps of StartRunner is one of the two, and leaves other runs alone.
LEMMA StarterStep ==
  ASSUME IInv, NEW p \in Procs, StartRunner(p) \/ StartFails(p)
  PROVE  /\ GoesOn(p) \/ Returns(p)
         /\ \A v \in Runs : v # loc[p].run => run'[v] = run[v]
         /\ UNCHANGED cancelled
<1>1. pc[p] \in StartSteps
  BY DEF StartRunner, MakeDir, CopyRootFS, ArmCancel, ClearTap, AddTap, Configure, Launch,
         StartFails, StartSteps
<1>2. /\ loc[p].run \in Runs /\ run \in [Runs -> RunRecord] /\ loc[p].slot \in Ids
      /\ slots \in [Ids -> Instance] /\ loc \in [Procs -> Locals] /\ pc \in [Procs -> Labels]
  BY <1>1, StarterRun DEF IInv, TypeOK, Starter
<1>3. UNCHANGED cancelled
  BY DEF StartRunner, MakeDir, CopyRootFS, ArmCancel, ClearTap, AddTap, Configure, Launch,
         StartFails, vmVars
<1>4. CASE MakeDir(p)
  <2>1. pc[p] = "mkdir" /\ pc'[p] = "copy" /\ UNCHANGED <<slots, run>>
    BY <1>2, <1>4 DEF MakeDir, Goto
  <2>2. loc'[p].run = loc[p].run /\ loc'[p].slot = loc[p].slot
    BY <1>2, <1>4 DEF MakeDir, Locals
  <2> QED BY <1>3, <2>1, <2>2 DEF GoesOn, StartSteps, Armed
<1>5. CASE CopyRootFS(p) \/ ClearTap(p) \/ AddTap(p)
  <2>1. CASE Fail(p)
    <3>1. UNCHANGED slots
      BY <1>5 DEF CopyRootFS, ClearTap, AddTap
    <3> QED BY <1>1, <1>3, <2>1, <3>1, FailReturns
  <2>2. CASE UNCHANGED <<loc, run>>
    <3>1. /\ \/ pc[p] = "copy" /\ pc'[p] = "arm"
             \/ pc[p] = "tapclear" /\ pc'[p] = "tapadd"
             \/ pc[p] = "tapadd" /\ pc'[p] = "config"
             \/ Fail(p)
          /\ UNCHANGED slots
      BY <1>2, <1>5 DEF CopyRootFS, ClearTap, AddTap, Goto
    <3> QED BY <1>3, <2>1, <2>2, <3>1 DEF GoesOn, StartSteps, Armed
  <2> QED BY <1>5, <2>1, <2>2 DEF CopyRootFS, ClearTap, AddTap
<1>6. CASE ArmCancel(p)
  <2>1. pc[p] = "arm" /\ pc'[p] = "tapclear" /\ UNCHANGED <<run, loc>>
    BY <1>2, <1>6 DEF ArmCancel, Goto, vmVars
  <2>2. /\ slots'[loc[p].slot].cancel = loc[p].run
        /\ \A i \in Ids : i # loc[p].slot => slots'[i].cancel = slots[i].cancel
    BY <1>2, <1>6 DEF ArmCancel, Instance
  <2> QED BY <1>3, <2>1, <2>2 DEF GoesOn, StartSteps
<1>7. CASE Configure(p)
  <2>1. pc[p] = "config" /\ pc'[p] = "launch" /\ UNCHANGED <<slots, loc>>
    BY <1>2, <1>7 DEF Configure, Goto
  <2>2. /\ run'[loc[p].run].state = run[loc[p].run].state
        /\ \A v \in Runs : v # loc[p].run => run'[v] = run[v]
    BY <1>2, <1>7 DEF Configure, RunRecord
  <2> QED BY <1>3, <2>1, <2>2 DEF GoesOn, StartSteps, Armed
<1>8. CASE Launch(p)
  <2>1. CASE Fail(p)
    <3>1. UNCHANGED slots
      BY <1>8 DEF Launch
    <3> QED BY <1>1, <1>3, <2>1, <3>1, FailReturns
  <2>2. CASE ~Fail(p)
    <3>1. /\ pc[p] = "launch" /\ UNCHANGED slots /\ Return(p)
          /\ run' = [run EXCEPT ![loc[p].run].state = "up"]
      BY <1>8, <2>2 DEF Launch
    <3>2. /\ run'[loc[p].run].state = "up"
          /\ \A v \in Runs : v # loc[p].run => run'[v] = run[v]
      BY <1>2, <3>1 DEF RunRecord
    <3>3. pc'[p] \in {"take", "next"}
      BY <1>2, <3>1 DEF Return, Goto
    <3> QED BY <1>3, <3>1, <3>2, <3>3 DEF Returns
  <2> QED BY <2>1, <2>2
<1>9. CASE StartFails(p)
  <2>1. Fail(p) /\ UNCHANGED slots
    BY <1>9 DEF StartFails
  <2> QED BY <1>1, <1>3, <2>1, FailReturns
<1> QED BY <1>4, <1>5, <1>6, <1>7, <1>8, <1>9 DEF StartRunner

-----------------------------------------------------------------------------
\* RunsOK is kept, as long as Free does not give away the slot of a run that
\* is being started and hostctl is not restarted.
LEMMA UidOfHolder ==
  ASSUME IInv, NEW i \in Ids, slots[i].inUse
  PROVE  slots[i].uid \in Runs /\ run[slots[i].uid].slot = i /\ Held(slots[i].uid)
<1>1. slots[i].uid \in 0 .. MaxRuns /\ slots[i].uid # NoRun
  BY DEF IInv, TypeOK, Instance, PoolConsistent
<1>2. slots[i].uid \in Runs
  BY <1>1, HostAssumption DEF Runs, NoRun
<1> QED BY <1>2 DEF IInv, LeaseMatchesRun, Held

\* Every run is recorded under a slot.
LEMMA RunSlot == ASSUME IInv, NEW u \in Runs PROVE run[u].slot \in Ids
BY DEF IInv, TypeOK, RunRecord

\* The steps of StartRunner keep RunsOK.
LEMMA StartRunsOK ==
  ASSUME IInv, RunsOK, NEW p \in Procs, StartRunner(p) \/ StartFails(p)
  PROVE  RunsOK'
<1> DEFINE u == loc[p].run
           s == loc[p].slot
<1>1. StartFrame(p) /\ Starter(p)
  BY StartRunnerFrame DEF StartFrame, Starter, IInv
<1>2. /\ \A q \in Procs : q # p => pc'[q] = pc[q] /\ loc'[q] = loc[q]
      /\ \A i \in Ids : slots'[i].uid = slots[i].uid /\ slots'[i].inUse = slots[i].inUse
      /\ \A v \in Runs : run'[v].slot = run[v].slot
      /\ UNCHANGED <<job, cancelled>>
  BY <1>1, StarterStep DEF StartFrame, IInv, TypeOK, envVars
<1>3. /\ u \in Runs /\ s \in Ids /\ s = run[u].slot /\ Held(u) /\ run[u].state = "starting"
      /\ slots[s].uid = u
      /\ \A q \in Procs : Starter(q) /\ loc[q].run = u => q = p
      /\ pc[p] \in Armed => slots[s].cancel = u
  BY <1>1, StarterRun DEF RunsOK, StartersHold, Held
<1>4. /\ GoesOn(p) \/ Returns(p)
      /\ \A v \in Runs : v # u => run'[v] = run[v]
      /\ \A i \in Ids : i # s => slots'[i].cancel = slots[i].cancel
      /\ slots'[s].cancel \in {slots[s].cancel, u}
  BY <1>3, StarterStep DEF GoesOn, Returns
<1>5. \A v \in Runs : Held(v)' <=> Held(v)
  BY <1>2, RunSlot DEF Held
<1>6. StartersHold'
  <2> SUFFICES ASSUME NEW q \in Procs, Starter(q)'
               PROVE  /\ loc'[q].slot = run'[loc'[q].run].slot
                      /\ \A v \in Runs : v = loc'[q].run => Held(v)'
                      /\ run'[loc'[q].run].state = "starting"
                      /\ \A r \in Procs : Starter(r)' /\ loc'[r].run = loc'[q].run => r = q
                      /\ pc'[q] \in Armed => slots'[loc'[q].slot].cancel = loc'[q].run
                      /\ loc'[q].run \in Runs
    BY DEF StartersHold, Held
  <2>1. CASE q = p
    <3>1. GoesOn(p)
      BY <1>4, <2>1 DEF Returns, Starter, StartSteps
    <3>2. loc'[p].run = u /\ loc'[p].slot = s /\ run'[u].state = "starting"
      BY <1>3, <3>1 DEF GoesOn
    <3>3. \A r \in Procs : Starter(r)' /\ loc'[r].run = u => r = p
      BY <1>2, <1>3 DEF Starter
    <3>4. pc'[p] \in Armed => slots'[s].cancel = u
      BY <1>3, <3>1 DEF GoesOn
    <3> QED BY <1>2, <1>3, <1>5, <2>1, <3>2, <3>3, <3>4
  <2>2. CASE q # p
    <3> DEFINE w == loc[q].run
    <3>1. pc'[q] = pc[q] /\ loc'[q] = loc[q] /\ Starter(q)
      BY <1>2, <2>2 DEF Starter
    <3>2. /\ w \in Runs /\ w # u /\ loc[q].slot = run[w].slot /\ Held(w)
          /\ run[w].state = "starting" /\ loc[q].slot \in Ids
          /\ \A r \in Procs : Starter(r) /\ loc[r].run = w => r = q
          /\ pc[q] \in Armed => slots[loc[q].slot].cancel = w
      BY <1>3, <2>2, <3>1, StarterRun DEF RunsOK, StartersHold
    <3>3. loc[q].slot # s
      BY <1>3, <3>2 DEF Held
    <3>4. \A r \in Procs : Starter(r)' /\ loc'[r].run = w => r = q
      <4>1. Starter(p)' => loc'[p].run = u
        BY <1>4 DEF GoesOn, Returns, Starter, StartSteps
      <4> QED BY <1>2, <3>2, <4>1 DEF Starter
    <3> QED BY <1>2, <1>4, <1>5, <3>1, <3>2, <3>3, <3>4
  <2> QED BY <2>1, <2>2
<1>7. JobsOfStarted'
  <2>1. job[u] = "none"
    BY <1>3 DEF RunsOK, JobsOfStarted
  <2> QED BY <1>2, <1>4, <2>1 DEF RunsOK, JobsOfStarted
<1>8. CancelOfHolder'
  BY <1>2, <1>3, <1>4 DEF RunsOK, CancelOfHolder
<1>9. UpRuns'
  <2> SUFFICES ASSUME NEW v \in Runs, run'[v].state = "up"
               PROVE  IF Held(v) THEN slots'[run[v].slot].cancel = v ELSE v \in cancelled
    BY <1>2, <1>5 DEF UpRuns
  <2>1. CASE v = u
    <3>1. Returns(p) /\ pc[p] = "launch"
      BY <1>3, <1>4, <2>1 DEF GoesOn, Returns
    <3>2. slots'[s].cancel = u
      BY <1>3, <3>1 DEF Returns, Armed
    <3> QED BY <1>3, <2>1, <3>2
  <2>2. CASE v # u
    <3>1. run[v].state = "up"
      BY <1>4, <2>2
    <3>2. Held(v) => run[v].slot # s
      BY <1>3, <2>2 DEF Held
    <3> QED BY <1>4, <3>1, <3>2, RunSlot DEF RunsOK, UpRuns
  <2> QED BY <2>1, <2>2
<1> QED BY <1>6, <1>7, <1>8, <1>9 DEF RunsOK

\* What leaves the slots, the runs and the starters alone keeps RunsOK.
LEMMA OtherRunsOK ==
  ASSUME IInv, RunsOK, UNCHANGED <<slots, run, cancelled>>,
         \A u \in Runs : job'[u] # "none" => job[u] # "none" \/ run[u].state = "up",
         \A q \in Procs : Starter(q)' => Starter(q) /\ pc'[q] = pc[q] /\ loc'[q] = loc[q]
  PROVE  RunsOK'
<1>1. \A v : Held(v)' <=> Held(v)
  BY DEF Held
<1>2. StartersHold'
  BY <1>1 DEF RunsOK, StartersHold, Held
<1>3. JobsOfStarted'
  BY DEF RunsOK, JobsOfStarted
<1>4. CancelOfHolder' /\ UpRuns'
  BY <1>1 DEF RunsOK, CancelOfHolder, UpRuns
<1> QED BY <1>2, <1>3, <1>4 DEF RunsOK

\* What Next does, slot by slot and run by run.
LEMMA NextSlotEffect ==
  ASSUME IInv, NEW p \in Procs, NEW i \in Ids, NextSlot(p, i)
  PROVE  /\ issued + 1 \in Runs /\ issued' = issued + 1 /\ ~slots[i].inUse
         /\ slots'[i].uid = issued + 1 /\ slots'[i].inUse /\ slots'[i].cancel = slots[i].cancel
         /\ \A j \in Ids : j # i => slots'[j] = slots[j]
         /\ run'[issued + 1] = [slot |-> i, drive |-> NoRun, state |-> "starting"]
         /\ \A v \in Runs : v # issued + 1 => run'[v] = run[v]
         /\ loc'[p].slot = i /\ loc'[p].run = issued + 1
         /\ pc[p] = "take" /\ pc'[p] = "mkdir"
         /\ \A q \in Procs : q # p => pc'[q] = pc[q] /\ loc'[q] = loc[q]
         /\ UNCHANGED <<cancelled, disk, tap, job, stream, inflight>>
<1>1. issued + 1 \in Runs /\ issued' = issued + 1 /\ ~slots[i].inUse /\ pc[p] = "take"
  BY HostAssumption DEF NextSlot, FirstFree, IInv, TypeOK, Runs
<1>2. /\ slots' = [slots EXCEPT ![i].uid = issued + 1, ![i].inUse = TRUE]
      /\ slots \in [Ids -> Instance]
  BY DEF NextSlot, IInv, TypeOK
<1>3. /\ slots'[i].uid = issued + 1 /\ slots'[i].inUse /\ slots'[i].cancel = slots[i].cancel
      /\ \A j \in Ids : j # i => slots'[j] = slots[j]
  BY <1>2 DEF Instance
<1>4. /\ run'[issued + 1] = [slot |-> i, drive |-> NoRun, state |-> "starting"]
      /\ \A v \in Runs : v # issued + 1 => run'[v] = run[v]
  BY <1>1 DEF NextSlot, IInv, TypeOK
<1>5. /\ loc'[p].slot = i /\ loc'[p].run = issued + 1
      /\ \A q \in Procs : q # p => loc'[q] = loc[q]
  BY DEF NextSlot, IInv, TypeOK
<1>6. pc'[p] = "mkdir" /\ \A q \in Procs : q # p => pc'[q] = pc[q]
  BY DEF NextSlot, Goto, IInv, TypeOK
<1>7. UNCHANGED <<cancelled, disk, tap, job, stream, inflight>>
  BY DEF NextSlot, envVars
<1> QED BY <1>1, <1>3, <1>4, <1>5, <1>6, <1>7

\* Runs that have begun keep or do not get their slot when Next leases another.
LEMMA NextSlotHolders ==
  ASSUME IInv, NEW p \in Procs, NEW i \in Ids, NextSlot(p, i)
  PROVE  /\ \A v \in Runs : v # issued + 1 => (Held(v)' <=> Held(v))
         /\ \A v \in Runs : v = issued + 1 => Held(v)'
         /\ \A v \in Runs : Held(v) => v # issued + 1 /\ run[v].slot # i
<1>1. /\ \A j \in Ids : j # i => slots'[j] = slots[j]
      /\ slots'[i].uid = issued + 1 /\ slots'[i].inUse /\ ~slots[i].inUse
      /\ \A v \in Runs : v # issued + 1 => run'[v] = run[v]
  BY NextSlotEffect
<1>2. ASSUME NEW v \in Runs, v # issued + 1 PROVE Held(v)' <=> Held(v)
  <2>1. run[v].slot \in Ids /\ run'[v] = run[v]
    BY <1>1, <1>2, RunSlot
  <2>2. CASE run[v].slot = i
    BY <1>1, <1>2, <2>1, <2>2 DEF Held
  <2>3. CASE run[v].slot # i
    BY <1>1, <2>1, <2>3 DEF Held
  <2> QED BY <2>2, <2>3
<1>3. ASSUME NEW v \in Runs, v = issued + 1 PROVE Held(v)'
  <2>1. run'[v] = [slot |-> i, drive |-> NoRun, state |-> "starting"]
    BY <1>3, NextSlotEffect
  <2>2. run'[v].slot = i
    BY <2>1
  <2> QED BY <1>1, <1>3, <2>2 DEF Held
<1>4. ASSUME NEW v \in Runs, Held(v) PROVE v # issued + 1 /\ run[v].slot # i
  <2>1. run[v].slot \in Ids /\ slots[run[v].slot].inUse /\ slots[run[v].slot].uid = v
    BY <1>4, RunSlot DEF Held
  <2>2. v <= issued
    BY <2>1 DEF IInv, LeaseMatchesRun
  <2>3. issued \in Nat
    BY HostAssumption DEF IInv, TypeOK
  <2> QED BY <1>1, <2>1, <2>2, <2>3 DEF Runs
<1> QED BY <1>2, <1>3, <1>4

\* A new lease goes to one goroutine, and to no run that is up.
LEMMA NextRunsOK ==
  ASSUME IInv, RunsOK, NEW p \in Procs, NEW i \in Ids, NextSlot(p, i) PROVE RunsOK'
<1> DEFINE l == issued + 1
<1>1. /\ l \in Runs /\ slots'[i].uid = l /\ slots'[i].cancel = slots[i].cancel
      /\ ~slots[i].inUse
      /\ \A j \in Ids : j # i => slots'[j] = slots[j]
      /\ run'[l] = [slot |-> i, drive |-> NoRun, state |-> "starting"]
      /\ \A v \in Runs : v # l => run'[v] = run[v]
      /\ loc'[p].slot = i /\ loc'[p].run = l /\ pc[p] = "take" /\ pc'[p] = "mkdir"
      /\ \A q \in Procs : q # p => pc'[q] = pc[q] /\ loc'[q] = loc[q]
      /\ UNCHANGED <<cancelled, job>>
  BY NextSlotEffect
<1>2. /\ \A v \in Runs : v # l => (Held(v)' <=> Held(v))
      /\ \A v \in Runs : v = l => Held(v)'
      /\ \A v \in Runs : Held(v) => v # l /\ run[v].slot # i
  BY NextSlotHolders
<1>3. run'[l].slot = i /\ run'[l].state = "starting"
  BY <1>1
<1>4. \A q \in Procs : Starter(q) => loc[q].run \in Runs /\ loc[q].run # l
  <2>1. issued \in Nat
    BY HostAssumption DEF IInv, TypeOK
  <2> QED BY <2>1, StarterRun
<1>5. StartersHold'
  <2> SUFFICES ASSUME NEW q \in Procs, Starter(q)'
               PROVE  /\ loc'[q].slot = run'[loc'[q].run].slot
                      /\ \A v \in Runs : v = loc'[q].run => Held(v)'
                      /\ run'[loc'[q].run].state = "starting"
                      /\ \A r \in Procs : Starter(r)' /\ loc'[r].run = loc'[q].run => r = q
                      /\ pc'[q] \in Armed => slots'[loc'[q].slot].cancel = loc'[q].run
                      /\ loc'[q].run \in Runs
    BY DEF StartersHold, Held
  <2>1. CASE q = p
    <3>1. \A r \in Procs : Starter(r)' /\ loc'[r].run = l => r = p
      BY <1>1, <1>4 DEF Starter
    <3> HIDE DEF l
    <3> QED BY <1>1, <1>2, <1>3, <2>1, <3>1 DEF Armed
  <2>2. CASE q # p
    <3> DEFINE w == loc[q].run
    <3>1. pc'[q] = pc[q] /\ loc'[q] = loc[q] /\ Starter(q)
      BY <1>1, <2>2 DEF Starter
    <3>2. /\ w \in Runs /\ w # l /\ loc[q].slot = run[w].slot /\ Held(w)
          /\ run[w].state = "starting" /\ loc[q].slot \in Ids
          /\ \A r \in Procs : Starter(r) /\ loc[r].run = w => r = q
          /\ pc[q] \in Armed => slots[loc[q].slot].cancel = w
      BY <1>4, <3>1, StarterRun DEF RunsOK, StartersHold
    <3>3. \A r \in Procs : Starter(r)' /\ loc'[r].run = w => r = q
      BY <1>1, <3>2 DEF Starter
    <3> HIDE DEF l
    <3> QED BY <1>1, <1>2, <3>1, <3>2, <3>3
  <2> QED BY <2>1, <2>2
<1>6. JobsOfStarted'
  <2>1. issued \in Nat /\ job[l] = "none"
    BY <1>1, HostAssumption DEF IInv, TypeOK, JobsOfBegunRuns
  <2> HIDE DEF l
  <2> QED BY <1>1, <2>1 DEF RunsOK, JobsOfStarted
<1>7. CancelOfHolder'
  <2>1. slots[i].cancel = NoRun
    BY <1>1 DEF RunsOK, CancelOfHolder, IInv, PoolConsistent
  <2> HIDE DEF l
  <2> QED BY <1>1, <2>1 DEF RunsOK, CancelOfHolder
<1>8. UpRuns'
  <2> SUFFICES ASSUME NEW v \in Runs, run'[v].state = "up"
               PROVE  IF Held(v)' THEN slots'[run'[v].slot].cancel = v ELSE v \in cancelled'
    BY DEF UpRuns
  <2>1. v # l
    BY <1>3
  <2>2. run'[v] = run[v] /\ (Held(v)' <=> Held(v)) /\ run[v].slot \in Ids
    BY <1>1, <1>2, <2>1, RunSlot
  <2> HIDE DEF l
  <2> QED BY <1>1, <1>2, <2>2 DEF RunsOK, UpRuns
<1> QED BY <1>5, <1>6, <1>7, <1>8 DEF RunsOK

\* What Free does to the slot it clears and to the run that held it.
LEMMA FreeResetEffect ==
  ASSUME IInv, NEW p \in Procs, FreeReset(p)
  PROVE  /\ p \in Workers /\ StoppedSlot(p) \in Ids /\ loc[p].msg \in Messages
         /\ slots'[StoppedSlot(p)] = FreeSlot
         /\ \A j \in Ids : j # StoppedSlot(p) => slots'[j] = slots[j]
         /\ cancelled' = cancelled \cup ({slots[StoppedSlot(p)].cancel} \ {NoRun})
         /\ pc[p] = "reset" /\ pc'[p] = "untap" /\ \A q \in Procs : q # p => pc'[q] = pc[q]
         /\ UNCHANGED <<issued, loc, run, disk, tap, job, stream, inflight, budget>>
         /\ \A v \in Runs : Held(v)' <=> Held(v) /\ run[v].slot # StoppedSlot(p)
<1>1. pc[p] = "reset" /\ pc'[p] = "untap" /\ \A q \in Procs : q # p => pc'[q] = pc[q]
  BY DEF FreeReset, Goto, IInv, TypeOK
<1>2. p \in Workers /\ loc[p].msg \in Messages
  BY <1>1 DEF IInv, RolesOK, StopSteps, Procs
<1>3. PICK i \in Ids : i = StoppedSlot(p)
  BY <1>2 DEF StoppedSlot, Messages, IInv, TypeOK, RunRecord
<1>4. /\ slots' = [slots EXCEPT ![i] = FreeSlot] /\ slots \in [Ids -> Instance]
      /\ cancelled' = cancelled \cup ({slots[i].cancel} \ {NoRun})
      /\ UNCHANGED <<issued, loc, run, disk, tap, job, stream, inflight, budget>>
  BY <1>3 DEF FreeReset, IInv, TypeOK, envVars
<1>5. slots'[i] = FreeSlot /\ \A j \in Ids : j # i => slots'[j] = slots[j]
  BY <1>4
<1>6. ASSUME NEW v \in Runs PROVE Held(v)' <=> Held(v) /\ run[v].slot # i
  <2>1. run[v].slot \in Ids /\ run'[v] = run[v]
    BY <1>4, RunSlot
  <2>2. CASE run[v].slot = i
    BY <1>5, <2>1, <2>2 DEF Held, FreeSlot
  <2>3. CASE run[v].slot # i
    BY <1>5, <2>1, <2>3 DEF Held
  <2> QED BY <2>2, <2>3
<1> QED BY <1>1, <1>2, <1>3, <1>4, <1>5, <1>6

\* The worker in FreeReset frees the slot of nobody who is being started.
FreesNoStarter(p) == \A q \in Procs : Starter(q) => loc[q].slot # StoppedSlot(p)

\* A freed slot's machine has been cancelled, if no start is under way in it.
LEMMA FreeRunsOK ==
  ASSUME IInv, RunsOK, NEW p \in Procs, FreeReset(p), FreesNoStarter(p) PROVE RunsOK'
<1>1. PICK i \in Ids :
        /\ i = StoppedSlot(p) /\ slots'[i] = FreeSlot
        /\ \A j \in Ids : j # i => slots'[j] = slots[j]
        /\ cancelled' = cancelled \cup ({slots[i].cancel} \ {NoRun})
        /\ \A v \in Runs : Held(v)' <=> Held(v) /\ run[v].slot # i
        /\ \A q \in Procs : Starter(q) => loc[q].slot # i
  BY FreeResetEffect DEF FreesNoStarter
<1>2. /\ UNCHANGED <<run, loc, job>>
      /\ \A q \in Procs : Starter(q)' => pc'[q] = pc[q] /\ Starter(q)
  BY FreeResetEffect DEF Starter, StartSteps
<1>3. StartersHold'
  <2> SUFFICES ASSUME NEW q \in Procs, Starter(q)'
               PROVE  /\ loc'[q].slot = run'[loc'[q].run].slot
                      /\ \A v \in Runs : v = loc'[q].run => Held(v)'
                      /\ run'[loc'[q].run].state = "starting"
                      /\ \A r \in Procs : Starter(r)' /\ loc'[r].run = loc'[q].run => r = q
                      /\ pc'[q] \in Armed => slots'[loc'[q].slot].cancel = loc'[q].run
                      /\ loc'[q].run \in Runs
    BY DEF StartersHold, Held
  <2>1. /\ Starter(q) /\ pc'[q] = pc[q] /\ loc[q].run \in Runs /\ loc[q].slot \in Ids
        /\ loc[q].slot # i
    BY <1>1, <1>2, StarterRun
  <2>2. slots'[loc[q].slot] = slots[loc[q].slot]
    BY <1>1, <2>1
  <2> QED BY <1>1, <1>2, <2>1, <2>2 DEF RunsOK, StartersHold
<1>4. JobsOfStarted'
  BY <1>2 DEF RunsOK, JobsOfStarted
<1>5. CancelOfHolder'
  BY <1>1 DEF RunsOK, CancelOfHolder, FreeSlot
<1>6. UpRuns'
  <2> SUFFICES ASSUME NEW v \in Runs, run[v].state = "up"
               PROVE  IF Held(v)' THEN slots'[run[v].slot].cancel = v ELSE v \in cancelled'
    BY <1>2 DEF UpRuns
  <2>1. IF Held(v) THEN slots[run[v].slot].cancel = v ELSE v \in cancelled
    BY DEF RunsOK, UpRuns
  <2>2. v # NoRun /\ run[v].slot \in Ids
    BY RunSlot DEF Runs, NoRun
  <2> QED BY <1>1, <2>1, <2>2
<1> QED BY <1>3, <1>4, <1>5, <1>6 DEF RunsOK

\* A machine that stops changes the state of its own run and nothing else.
LEMMA MachineEffect ==
  ASSUME IInv, NEW u \in Runs, Reap(u) \/ MachineExits(u)
  PROVE  /\ run[u].state = "up" /\ run'[u].state = "dead"
         /\ \A v \in Runs : v # u => run'[v] = run[v]
         /\ \A v \in Runs : run'[v].slot = run[v].slot
         /\ UNCHANGED <<slots, pc, loc, cancelled, disk, tap, job>>
<1>1. /\ run[u].state = "up" /\ run'[u].state = "dead" /\ run'[u].slot = run[u].slot
      /\ \A v \in Runs : v # u => run'[v] = run[v]
      /\ UNCHANGED <<slots, pc, loc, cancelled, disk, tap, job>>
  BY DEF Reap, MachineExits, IInv, TypeOK, RunRecord, hostVars, envVars
<1>2. \A v \in Runs : run'[v].slot = run[v].slot
  BY <1>1
<1> QED BY <1>1, <1>2

\* A machine that ends is no longer up.
LEMMA MachineRunsOK ==
  ASSUME IInv, RunsOK, NEW u \in Runs, Reap(u) \/ MachineExits(u) PROVE RunsOK'
<1>1. /\ run[u].state = "up" /\ run'[u].state = "dead"
      /\ \A v \in Runs : v # u => run'[v] = run[v]
      /\ UNCHANGED <<slots, pc, loc, cancelled, job>>
  BY MachineEffect
<1>2. \A v \in Runs : run'[v].slot = run[v].slot
  BY MachineEffect
<1>3. \A v \in Runs : Held(v)' <=> Held(v)
  BY <1>1, <1>2 DEF Held
<1>4. StartersHold'
  <2> SUFFICES ASSUME NEW q \in Procs, Starter(q)'
               PROVE  /\ loc'[q].slot = run'[loc'[q].run].slot
                      /\ \A v \in Runs : v = loc'[q].run => Held(v)'
                      /\ run'[loc'[q].run].state = "starting"
                      /\ \A r \in Procs : Starter(r)' /\ loc'[r].run = loc'[q].run => r = q
                      /\ pc'[q] \in Armed => slots'[loc'[q].slot].cancel = loc'[q].run
                      /\ loc'[q].run \in Runs
    BY DEF StartersHold, Held
  <2>1. Starter(q) /\ loc[q].run \in Runs
    BY <1>1, StarterRun DEF Starter
  <2>2. loc[q].run # u
    BY <1>1, <2>1 DEF RunsOK, StartersHold
  <2> QED BY <1>1, <1>2, <1>3, <2>1, <2>2 DEF RunsOK, StartersHold, Starter
<1>5. JobsOfStarted' /\ CancelOfHolder'
  BY <1>1 DEF RunsOK, JobsOfStarted, CancelOfHolder
<1>6. UpRuns'
  BY <1>1, <1>2, <1>3 DEF RunsOK, UpRuns
<1> QED BY <1>4, <1>5, <1>6 DEF RunsOK

\* RunsOK is inductive as long as no slot is freed under a start.
LEMMA RunsStep ==
  ASSUME IInv, RunsOK, [Next]_vars, ~Crash,
         \A p \in Procs : FreeReset(p) => FreesNoStarter(p)
  PROVE  RunsOK'
<1>1. CASE \E p \in Procs : StartRunner(p) \/ StartFails(p)
  BY <1>1, StartRunsOK
<1>2. CASE \E p \in Procs, i \in Ids : NextSlot(p, i)
  BY <1>2, NextRunsOK
<1>3. CASE \E p \in Procs : FreeReset(p)
  BY <1>3, FreeRunsOK
<1>4. CASE \E u \in Runs : Reap(u) \/ MachineExits(u)
  BY <1>4, MachineRunsOK
<1>5. CASE Start
  <2>1. \A q \in Procs : ~Starter(q)'
    BY <1>5 DEF Start, Starter, StartSteps
  <2>2. UNCHANGED <<slots, run, cancelled, job>>
    BY <1>5 DEF Start, vmVars
  <2> QED BY <2>1, <2>2, OtherRunsOK
<1>6. CASE \E p \in Procs : NoSlot(p) \/ FreeRemove(p) \/ DeleteTap(p) \/ Ack(p)
  <2>1. PICK p \in Procs : NoSlot(p) \/ FreeRemove(p) \/ DeleteTap(p) \/ Ack(p)
    BY <1>6
  <2>2. /\ UNCHANGED <<slots, run, cancelled, job>>
        /\ \E label \in Labels \ StartSteps : pc' = [pc EXCEPT ![p] = label]
        /\ \A q \in Procs : q # p => loc'[q] = loc[q]
    BY <2>1 DEF NoSlot, FreeRemove, DeleteTap, Ack, Goto, vmVars, envVars, Labels, StartSteps,
                StopSteps, IInv, TypeOK
  <2>3. \A q \in Procs : Starter(q)' => Starter(q) /\ pc'[q] = pc[q] /\ loc'[q] = loc[q]
    BY <2>2 DEF Starter, IInv, TypeOK
  <2> QED BY <2>2, <2>3, OtherRunsOK
<1>7. CASE \E w \in Workers, m \in stream : Receive(w, m)
  <2>1. PICK w \in Workers, m \in stream : Receive(w, m)
    BY <1>7
  <2>2. /\ UNCHANGED <<slots, run, cancelled, job>> /\ w \in Procs
        /\ pc' = [pc EXCEPT ![w] = "free"] /\ \A q \in Procs : q # w => loc'[q] = loc[q]
    BY <2>1 DEF Receive, Goto, vmVars, IInv, TypeOK, Procs
  <2>3. \A q \in Procs : Starter(q)' => Starter(q) /\ pc'[q] = pc[q] /\ loc'[q] = loc[q]
    BY <2>2 DEF Starter, IInv, TypeOK, StartSteps
  <2> QED BY <2>2, <2>3, OtherRunsOK
<1>8. CASE \/ \E u \in Runs : PickJob(u) \/ Complete(u) \/ LoseEvent(u) \/ Duplicate(u)
           \/ \E m \in inflight : Expire(m)
           \/ UNCHANGED vars
  <2>1. /\ UNCHANGED <<slots, pc, loc, run, cancelled>>
        /\ \A u \in Runs : job'[u] # "none" => job[u] # "none" \/ run[u].state = "up"
    BY <1>8 DEF PickJob, Complete, LoseEvent, Duplicate, Expire, vars, hostVars, vmVars,
                envVars, IInv, TypeOK
  <2>2. \A q \in Procs : Starter(q)' => Starter(q) /\ pc'[q] = pc[q] /\ loc'[q] = loc[q]
    BY <2>1 DEF Starter
  <2> QED BY <2>1, <2>2, OtherRunsOK
<1> QED BY <1>1, <1>2, <1>3, <1>4, <1>5, <1>6, <1>7, <1>8 DEF Next, Rest, StopRunner

\* Nothing has run at first.
LEMMA RunsInit == Init => RunsOK
<1> SUFFICES ASSUME Init PROVE RunsOK
  OBVIOUS
<1>1. \A p \in Procs : ~Starter(p)
  BY DEF Init, Starter, StartSteps
<1>2. CancelOfHolder
  BY DEF Init, CancelOfHolder, FreeSlot
<1>3. UpRuns /\ JobsOfStarted
  BY DEF Init, UpRuns, JobsOfStarted, NeverRun
<1> QED BY <1>1, <1>2, <1>3 DEF RunsOK, StartersHold

-----------------------------------------------------------------------------
(* A genuine environment.                                                  *)

\* A run has one event at most, and its job is done.
EventsOnce == \A m \in stream : m.copy = 0 /\ job[m.run] = "done"

\* A message that is handled is in flight, and no other worker handles it.
HandledOnce ==
    \A p \in Procs : pc[p] \in StopSteps =>
      /\ loc[p].msg \in inflight
      /\ \A q \in Procs : pc[q] \in StopSteps /\ loc[q].msg = loc[p].msg => q = p

\* A run keeps its slot until its job is done ...
FreedWhenDone == \A u \in Runs : u <= issued => Held(u) \/ job[u] = "done"

\* ... and its event has been handled.
EventOfHolder ==
    \A m \in stream :
      Held(m.run) \/ \E w \in Workers : pc[w] \in {"untap", "ack"} /\ loc[w].msg = m

EventsOK == EventsOnce /\ HandledOnce /\ FreedWhenDone /\ EventOfHolder /\ NoUndeservedKill

\* A job that is done stays so.
LEMMA DoneStays ==
  ASSUME TypeOK, [Next]_vars, NEW u \in Runs, job[u] = "done" PROVE job'[u] = "done"
<1>1. ASSUME NEW v \in Runs, PickJob(v) \/ Complete(v) \/ LoseEvent(v) \/ Duplicate(v)
      PROVE  job'[u] = "done"
  BY <1>1 DEF PickJob, Complete, LoseEvent, Duplicate, TypeOK
<1>2. CASE UNCHANGED job
  BY <1>2
<1> QED BY <1>1, <1>2
  DEF Next, Rest, Start, NextSlot, NoSlot, StartRunner, MakeDir, CopyRootFS, ArmCancel, ClearTap,
      AddTap, Configure, Launch, StartFails, StopRunner, FreeRemove, FreeReset, DeleteTap, Ack,
      Receive, Reap, MachineExits, Expire, Crash, vars, envVars

\* In the genuine environment there is no restart and no duplicate.
LEMMA GenuineSteps ==
  ASSUME Genuine
  PROVE  ~Crash /\ \A u \in Runs : ~Duplicate(u)
BY DEF Genuine, Crash, Duplicate, Fault

\* The worker that handles an event finds the slot held by the run of the
\* event, whose job is done.
LEMMA StoppedRun ==
  ASSUME IInv, EventsOK, NEW p \in Procs, pc[p] \in {"free", "reset"}
  PROVE  /\ loc[p].msg \in stream /\ loc[p].msg.run \in Runs /\ loc[p].msg.run <= issued
         /\ Held(loc[p].msg.run) /\ job[loc[p].msg.run] = "done"
         /\ slots[StoppedSlot(p)].uid = loc[p].msg.run
         /\ StoppedSlot(p) = run[loc[p].msg.run].slot
<1>1. pc[p] \in StopSteps /\ loc[p].msg \in Messages
  BY DEF StopSteps, IInv, RolesOK
<1>2. loc[p].msg \in stream
  BY <1>1 DEF EventsOK, HandledOnce, IInv, TypeOK
<1>3. loc[p].msg.run \in Runs /\ loc[p].msg.run <= issued /\ job[loc[p].msg.run] = "done"
  BY <1>1, <1>2 DEF Messages, IInv, JobsOfBegunRuns, EventsOK, EventsOnce
<1>4. ASSUME NEW w \in Workers, pc[w] \in {"untap", "ack"}, loc[w].msg = loc[p].msg
      PROVE  FALSE
  BY <1>1, <1>4 DEF EventsOK, HandledOnce, StopSteps, Procs
<1>5. Held(loc[p].msg.run)
  BY <1>2, <1>4 DEF EventsOK, EventOfHolder
<1> QED BY <1>2, <1>3, <1>5 DEF StoppedSlot, Held

\* Then a slot is freed only when its job is done, so not under a start.
LEMMA FreesOnlyDone ==
  ASSUME IInv, RunsOK, EventsOK, NEW p \in Procs, pc[p] \in {"free", "reset"}
  PROVE  FreesNoStarter(p)
<1> SUFFICES ASSUME NEW q \in Procs, Starter(q), loc[q].slot = StoppedSlot(p) PROVE FALSE
  BY DEF FreesNoStarter
<1>1. /\ slots[loc[q].slot].uid = loc[q].run /\ run[loc[q].run].state = "starting"
      /\ loc[q].run \in Runs
  BY StarterRun DEF RunsOK, StartersHold, Held
<1>2. job[loc[q].run] = "done"
  BY <1>1, StoppedRun
<1> QED BY <1>1, <1>2 DEF RunsOK, JobsOfStarted

\* Only Free takes a slot away from a run that has begun.
LEMMA HeldKept ==
  ASSUME IInv, [Next]_vars, ~Crash, \A p \in Procs : ~FreeReset(p),
         NEW u \in Runs, u <= issued
  PROVE  Held(u)' <=> Held(u)
<1>1. CASE \E p \in Procs : StartRunner(p) \/ StartFails(p)
  <2>1. /\ \A i \in Ids : slots'[i].uid = slots[i].uid /\ slots'[i].inUse = slots[i].inUse
        /\ \A v \in Runs : run'[v].slot = run[v].slot
    BY <1>1, StartRunnerFrame DEF StartFrame, IInv
  <2> QED BY <2>1, RunSlot DEF Held
<1>2. CASE \E p \in Procs, i \in Ids : NextSlot(p, i)
  <2>1. u # issued + 1
    BY HostAssumption DEF IInv, TypeOK, Runs
  <2> QED BY <1>2, <2>1, NextSlotHolders
<1>3. CASE \E v \in Runs : Reap(v) \/ MachineExits(v)
  <2>1. run'[u].slot = run[u].slot /\ UNCHANGED slots
    BY <1>3, MachineEffect
  <2> QED BY <2>1 DEF Held
<1>4. CASE UNCHANGED <<slots, run>>
  BY <1>4 DEF Held
<1> QED BY <1>1, <1>2, <1>3, <1>4
  DEF Next, Rest, Start, NoSlot, StopRunner, FreeRemove, DeleteTap, Ack, Receive, PickJob,
      Complete, LoseEvent, Duplicate, Expire, vars, hostVars, vmVars

\* Every step keeps: a stored event is no copy, and its job is done.
LEMMA EventsOnceStep ==
  ASSUME Genuine, IInv, EventsOK, [Next]_vars PROVE EventsOnce'
<1>1. ASSUME NEW u \in Runs, Complete(u) PROVE EventsOnce'
  <2>1. stream' = stream \cup {[run |-> u, copy |-> 0]} /\ job'[u] = "done"
    BY <1>1 DEF Complete, IInv, TypeOK
  <2>2. \A m \in stream : m.run \in Runs
    BY DEF IInv, TypeOK, Messages
  <2>3. \A m \in stream : m.copy = 0 /\ job'[m.run] = "done"
    BY <2>2, DoneStays DEF EventsOK, EventsOnce, IInv
  <2> QED BY <2>1, <2>3 DEF EventsOnce
<1>2. CASE stream' \subseteq stream
  <2>1. \A m \in stream : m.run \in Runs
    BY DEF IInv, TypeOK, Messages
  <2> QED BY <1>2, <2>1, DoneStays DEF EventsOK, EventsOnce, IInv
<1>3. (\E u \in Runs : Complete(u)) \/ stream' \subseteq stream
  BY GenuineSteps
  DEF Next, Rest, Start, NextSlot, NoSlot, StartRunner, MakeDir, CopyRootFS, ArmCancel, ClearTap,
      AddTap, Configure, Launch, StartFails, StopRunner, FreeRemove, FreeReset, DeleteTap, Ack,
      Receive, Reap, MachineExits, Expire, PickJob, LoseEvent, vars, envVars
<1> QED BY <1>1, <1>2, <1>3

\* Apart from Receive, a worker that handles a message goes on handling it.
LEMMA StopFlow ==
  ASSUME IInv, [Next]_vars, NEW p \in Procs, pc'[p] \in StopSteps,
         ~ \E w \in Workers, m \in stream : Receive(w, m)
  PROVE  /\ pc[p] \in StopSteps /\ loc'[p] = loc[p]
         /\ pc[p] \in {"untap", "ack"} => pc'[p] \in {"untap", "ack"}
<1> USE DEF IInv, TypeOK
<1> DEFINE Same == pc[p] \in StopSteps /\ loc'[p] = loc[p] /\ pc'[p] = pc[p]
<1>1. ASSUME NEW q \in Procs, StartRunner(q) \/ StartFails(q) PROVE Same
  <2>1. StartFrame(q)
    BY <1>1, StartRunnerFrame
  <2>2. pc'[q] \notin StopSteps /\ \A r \in Procs : r # q => pc'[r] = pc[r] /\ loc'[r] = loc[r]
    BY <2>1 DEF StartFrame, StartSteps, StopSteps
  <2> QED BY <2>2
<1>2. ASSUME NEW q \in Procs, NEW i \in Ids, NextSlot(q, i) PROVE Same
  BY <1>2, NextSlotEffect DEF StopSteps
<1>3. ASSUME NEW q \in Procs, NoSlot(q) PROVE Same
  BY <1>3 DEF NoSlot, Goto, StopSteps
<1>4. ASSUME NEW q \in Procs, StopRunner(q)
      PROVE  /\ pc[p] \in StopSteps /\ loc'[p] = loc[p]
             /\ pc[p] \in {"untap", "ack"} => pc'[p] \in {"untap", "ack"}
  <2>1. CASE FreeRemove(q)
    <3>1. pc[q] = "free" /\ pc'[q] \in {"reset", "untap"} /\ UNCHANGED loc
          /\ \A r \in Procs : r # q => pc'[r] = pc[r]
      BY <2>1 DEF FreeRemove, Goto
    <3> QED BY <3>1 DEF StopSteps
  <2>2. CASE FreeReset(q)
    BY <2>2, FreeResetEffect DEF StopSteps
  <2>3. CASE DeleteTap(q)
    <3>1. pc[q] = "untap" /\ pc'[q] = "ack" /\ UNCHANGED loc
          /\ \A r \in Procs : r # q => pc'[r] = pc[r]
      BY <2>3 DEF DeleteTap, Goto
    <3> QED BY <3>1 DEF StopSteps
  <2>4. CASE Ack(q)
    <3>1. pc'[q] = "take" /\ \A r \in Procs : r # q => pc'[r] = pc[r] /\ loc'[r] = loc[r]
      BY <2>4 DEF Ack, Goto
    <3> QED BY <3>1 DEF StopSteps
  <2> QED BY <1>4, <2>1, <2>2, <2>3, <2>4 DEF StopRunner
<1>5. CASE Start \/ Crash
  BY <1>5 DEF Start, Crash, StopSteps
<1>6. CASE UNCHANGED <<pc, loc>>
  BY <1>6
<1> QED BY <1>1, <1>2, <1>3, <1>4, <1>5, <1>6
  DEF Next, Rest, PickJob, Complete, LoseEvent, Duplicate, Reap, MachineExits, Expire, vars, hostVars

\* A worker past Free goes on until its message is acknowledged.
LEMMA StopKept ==
  ASSUME Genuine, IInv, [Next]_vars, NEW w \in Workers, pc[w] \in {"untap", "ack"},
         loc[w].msg \in stream'
  PROVE  pc'[w] \in {"untap", "ack"} /\ loc'[w] = loc[w]
<1> USE DEF IInv, TypeOK
<1>0. w \in Procs /\ pc[w] \notin StartSteps
  BY DEF Procs, StartSteps
<1>1. ASSUME NEW q \in Procs, StartRunner(q) \/ StartFails(q)
      PROVE  pc'[w] = pc[w] /\ loc'[w] = loc[w]
  BY <1>0, <1>1, StartRunnerFrame DEF StartFrame
<1>2. ASSUME NEW q \in Procs, NEW i \in Ids, NextSlot(q, i)
      PROVE  pc'[w] = pc[w] /\ loc'[w] = loc[w]
  BY <1>0, <1>2, NextSlotEffect
<1>3. ASSUME NEW q \in Procs, NoSlot(q) \/ FreeRemove(q)
      PROVE  pc'[w] = pc[w] /\ loc'[w] = loc[w]
  BY <1>0, <1>3 DEF NoSlot, FreeRemove, Goto
<1>4. ASSUME NEW q \in Procs, FreeReset(q)
      PROVE  pc'[w] = pc[w] /\ loc'[w] = loc[w]
  BY <1>0, <1>4, FreeResetEffect
<1>5. ASSUME NEW q \in Procs, DeleteTap(q)
      PROVE  pc'[w] \in {"untap", "ack"} /\ loc'[w] = loc[w]
  BY <1>0, <1>5 DEF DeleteTap, Goto
<1>6. ASSUME NEW q \in Procs, Ack(q)
      PROVE  pc'[w] = pc[w] /\ loc'[w] = loc[w]
  <2>1. stream' = stream \ {loc[q].msg}
    BY <1>6 DEF Ack, Fault, Genuine
  <2>2. w # q
    BY <2>1
  <2> QED BY <1>0, <1>6, <2>2 DEF Ack, Goto
<1>7. ASSUME NEW v \in Workers, NEW m \in stream, Receive(v, m)
      PROVE  pc'[w] = pc[w] /\ loc'[w] = loc[w]
  BY <1>0, <1>7 DEF Receive, Goto
<1>8. ~Start /\ ~Crash
  BY GenuineSteps DEF Start, StartIsAlone
<1>9. CASE UNCHANGED <<pc, loc>>
  BY <1>9
<1> QED BY <1>1, <1>2, <1>3, <1>4, <1>5, <1>6, <1>7, <1>8, <1>9
  DEF Next, Rest, StopRunner, PickJob, Complete, LoseEvent, Duplicate, Reap, MachineExits,
      Expire, vars, hostVars

\* Every step keeps one handler per event.
LEMMA HandledOnceStep ==
  ASSUME Genuine, IInv, EventsOK, [Next]_vars PROVE HandledOnce'
<1>0. \A q \in Procs : pc[q] \in StopSteps =>
        /\ loc[q].msg \in inflight /\ q \in Workers
        /\ \A r \in Procs : pc[r] \in StopSteps /\ loc[r].msg = loc[q].msg => r = q
  BY DEF EventsOK, HandledOnce, IInv, RolesOK, Procs
<1>1. CASE \E w \in Workers, m \in stream : Receive(w, m)
  <2>1. PICK w \in Workers, m \in stream : Receive(w, m)
    BY <1>1
  <2>2. /\ w \in Procs /\ m \notin inflight /\ inflight' = inflight \cup {m}
        /\ loc'[w].msg = m /\ pc[w] = "next"
        /\ \A q \in Procs : q # w => pc'[q] = pc[q] /\ loc'[q] = loc[q]
    <3>1. w \in Procs /\ loc \in [Procs -> Locals] /\ loc' = [loc EXCEPT ![w].msg = m]
      BY <2>1 DEF Receive, IInv, TypeOK, Procs
    <3>2. loc'[w].msg = m /\ \A q \in Procs : q # w => loc'[q] = loc[q]
      BY <3>1 DEF Locals
    <3> QED BY <2>1, <3>1, <3>2 DEF Receive, Goto, IInv, TypeOK
  <2> QED BY <1>0, <2>2 DEF HandledOnce
<1>2. CASE ~ \E w \in Workers, m \in stream : Receive(w, m)
  <2> SUFFICES ASSUME NEW p \in Procs, pc'[p] \in StopSteps
               PROVE  /\ loc'[p].msg \in inflight'
                      /\ \A q \in Procs :
                           pc'[q] \in StopSteps /\ loc'[q].msg = loc'[p].msg => q = p
    BY DEF HandledOnce
  <2>1. \A q \in Procs : pc'[q] \in StopSteps => pc[q] \in StopSteps /\ loc'[q] = loc[q]
    BY <1>2, StopFlow
  <2>2. loc[p].msg \in inflight'
    <3>1. loc[p].msg \in inflight /\ p \in Workers /\ pc[p] \in StopSteps
      BY <1>0, <2>1
    <3>2. ASSUME NEW q \in Procs, Ack(q) PROVE loc[p].msg \in inflight'
      <4>1. inflight' \in {inflight, inflight \ {loc[q].msg}} /\ pc[q] \in StopSteps /\ pc'[q] = "take"
        BY <3>2 DEF Ack, Goto, StopSteps, IInv, TypeOK
      <4>2. p # q
        BY <4>1 DEF StopSteps
      <4> QED BY <1>0, <3>1, <4>1, <4>2
    <3>3. ASSUME NEW m \in inflight, Expire(m) PROVE loc[p].msg \in inflight'
      <4>1. ~Handling(m) /\ inflight' = inflight \ {m}
        BY <3>3 DEF Expire, Fault, Genuine
      <4> QED BY <3>1, <4>1 DEF Handling
    <3>4. ~Start
      BY DEF Start, StopSteps
    <3>5. CASE UNCHANGED inflight
      BY <3>1, <3>5
    <3> QED BY <1>2, <3>2, <3>3, <3>4, <3>5, GenuineSteps
      DEF Next, Rest, NextSlot, NoSlot, StartRunner, MakeDir, CopyRootFS, ArmCancel, ClearTap,
          AddTap, Configure, Launch, StartFails, StopRunner, FreeRemove, FreeReset, DeleteTap,
          Reap, MachineExits, Complete, PickJob, LoseEvent, vars, envVars
  <2> QED BY <1>0, <2>1, <2>2
<1> QED BY <1>1, <1>2

\* Every step keeps: a slot is given back only when its run's job is done.
LEMMA FreedWhenDoneStep ==
  ASSUME Genuine, IInv, EventsOK, [Next]_vars PROVE FreedWhenDone'
<1> SUFFICES ASSUME NEW u \in Runs, u <= issued', ~Held(u)' PROVE job'[u] = "done"
  BY DEF FreedWhenDone
<1>0. ASSUME u <= issued, job[u] # "done" PROVE Held(u)
  BY <1>0 DEF EventsOK, FreedWhenDone
<1>1. ASSUME NEW p \in Procs, FreeReset(p) PROVE job[u] = "done"
  <2>1. /\ Held(u)' <=> Held(u) /\ run[u].slot # StoppedSlot(p)
        /\ u <= issued /\ pc[p] = "reset"
    BY <1>1, FreeResetEffect
  <2> QED BY <1>0, <2>1, StoppedRun DEF Held
<1>2. ASSUME NEW p \in Procs, NEW i \in Ids, NextSlot(p, i) PROVE job[u] = "done"
  <2>1. issued' = issued + 1
    BY <1>2, NextSlotEffect
  <2>4. issued \in Nat /\ u \in Nat
    BY HostAssumption DEF IInv, TypeOK, Runs
  <2>2. u # issued + 1 => (Held(u)' <=> Held(u))
    BY <1>2, NextSlotHolders
  <2>3. u = issued + 1 => Held(u)'
    BY <1>2, NextSlotHolders
  <2> QED BY <1>0, <2>1, <2>2, <2>3, <2>4
<1>3. CASE UNCHANGED issued /\ \A p \in Procs : ~FreeReset(p)
  <2>1. u <= issued
    BY <1>3
  <2>2. Held(u)' <=> Held(u)
    BY <1>3, <2>1, GenuineSteps, HeldKept
  <2>3. job[u] = "done"
    BY <1>0, <2>1, <2>2
  <2>4. TypeOK
    BY DEF IInv
  <2> QED BY <2>3, <2>4, DoneStays
<1>4. \/ UNCHANGED issued
      \/ \E p \in Procs, i \in Ids : NextSlot(p, i)
  BY DEF Next, Rest, Start, NoSlot, StartRunner, MakeDir, CopyRootFS, ArmCancel, ClearTap,
         AddTap, Configure, Launch, StartFails, StopRunner, FreeRemove, FreeReset, DeleteTap, Ack,
         Receive, Reap, MachineExits, Expire, PickJob, LoseEvent, Complete, Duplicate, Crash,
         vars, hostVars
<1>5. TypeOK
  BY DEF IInv
<1>6. CASE job[u] = "done"
  BY <1>5, <1>6, DoneStays
<1>7. CASE job[u] # "done"
  <2>1. (\A p \in Procs : ~FreeReset(p)) /\ UNCHANGED issued
    BY <1>1, <1>2, <1>4, <1>7
  <2> QED BY <1>3, <2>1
<1> QED BY <1>6, <1>7

\* Every step keeps: a stored event's run holds its slot until the handler frees it.
LEMMA EventOfHolderStep ==
  ASSUME Genuine, IInv, EventsOK, [Next]_vars PROVE EventOfHolder'
<1> DEFINE Handled(m) == \E w \in Workers : pc[w] \in {"untap", "ack"} /\ loc[w].msg = m
<1> SUFFICES ASSUME NEW m \in stream' PROVE Held(m.run)' \/ Handled(m)'
  BY DEF EventOfHolder, Held
<1>1. m \in Messages /\ (m \in stream => m.run \in Runs /\ m.run <= issued)
  BY NextInvariant DEF IInv, TypeOK, JobsOfBegunRuns, Messages
<1>2. ASSUME Handled(m) PROVE Handled(m)'
  BY <1>2, StopKept
<1>3. ASSUME NEW p \in Procs, FreeReset(p), Held(m.run) PROVE Held(m.run)' \/ Handled(m)'
  <2>1. /\ m \in stream /\ pc[p] = "reset" /\ pc'[p] = "untap" /\ loc'[p] = loc[p]
        /\ p \in Workers /\ m.run \in Runs
        /\ Held(m.run)' <=> Held(m.run) /\ run[m.run].slot # StoppedSlot(p)
    BY <1>1, <1>3, FreeResetEffect
  <2>2. CASE run[m.run].slot = StoppedSlot(p)
    <3>0. /\ loc[p].msg \in stream /\ slots[StoppedSlot(p)].uid = loc[p].msg.run
          /\ loc[p].msg \in Messages
      BY <1>3, <2>1, StoppedRun, FreeResetEffect
    <3>1. loc[p].msg.run = m.run
      BY <1>3, <2>2, <3>0 DEF Held
    <3>2. loc[p].msg.copy = m.copy
      BY <2>1, <3>0 DEF EventsOK, EventsOnce
    <3>3. loc[p].msg = m
      BY <1>1, <3>0, <3>1, <3>2 DEF Messages
    <3> QED BY <2>1, <3>3
  <2> QED BY <1>3, <2>1, <2>2
<1>4. ASSUME \A p \in Procs : ~FreeReset(p), NEW u \in Runs, u <= issued, Held(u)
      PROVE  Held(u)'
  BY <1>4, GenuineSteps, HeldKept
<1>5. CASE m \in stream
  <2>1. Held(m.run) \/ Handled(m)
    BY <1>5 DEF EventsOK, EventOfHolder
  <2>2. CASE \A p \in Procs : ~FreeReset(p)
    <3>1. Held(m.run) => Held(m.run)'
      BY <1>1, <1>4, <1>5, <2>2
    <3> QED BY <1>2, <2>1, <3>1
  <2>3. CASE \E p \in Procs : FreeReset(p)
    BY <1>2, <1>3, <2>1, <2>3
  <2> QED BY <2>2, <2>3
<1>6. CASE m \notin stream
  <2>1. \/ \E u \in Runs : Complete(u)
        \/ stream' \subseteq stream
    BY GenuineSteps
    DEF Next, Rest, Start, NextSlot, NoSlot, StartRunner, MakeDir, CopyRootFS, ArmCancel, ClearTap,
        AddTap, Configure, Launch, StartFails, StopRunner, FreeRemove, FreeReset, DeleteTap, Ack,
        Receive, Reap, MachineExits, Expire, PickJob, LoseEvent, vars, envVars
  <2>2. PICK u \in Runs : Complete(u)
    BY <1>6, <2>1
  <2>3. m.run = u /\ job[u] = "busy" /\ UNCHANGED <<slots, run>>
    BY <1>6, <2>2 DEF Complete, hostVars, vmVars
  <2>4. u <= issued
    BY <2>3, HostAssumption DEF IInv, JobsOfBegunRuns, TypeOK, Runs
  <2>5. Held(u)
    BY <2>3, <2>4 DEF EventsOK, FreedWhenDone
  <2> QED BY <2>3, <2>5 DEF Held
<1> QED BY <1>5, <1>6

\* No step cancels a machine whose job is not done.
LEMMA KillStep ==
  ASSUME Genuine, IInv, RunsOK, EventsOK, [Next]_vars PROVE NoUndeservedKill'
<1>1. ASSUME NEW p \in Procs, FreeReset(p) PROVE NoUndeservedKill'
  <2>1. PICK i \in Ids :
          /\ i = StoppedSlot(p) /\ pc[p] = "reset" /\ UNCHANGED job
          /\ cancelled' = cancelled \cup ({slots[i].cancel} \ {NoRun})
    BY <1>1, FreeResetEffect
  <2>2. slots[i].cancel \in {NoRun, slots[i].uid} /\ job[slots[i].uid] = "done"
    BY <2>1, StoppedRun DEF RunsOK, CancelOfHolder
  <2> QED BY <2>1, <2>2 DEF EventsOK, NoUndeservedKill
<1>2. CASE UNCHANGED cancelled
  <2>1. cancelled \subseteq Runs
    BY DEF IInv, TypeOK
  <2> QED BY <1>2, <2>1, DoneStays DEF EventsOK, NoUndeservedKill, IInv
<1>3. (\E p \in Procs : FreeReset(p)) \/ UNCHANGED cancelled
  BY DEF Next, Rest, Start, NextSlot, NoSlot, StartRunner, MakeDir, CopyRootFS, ArmCancel, ClearTap,
         AddTap, Configure, Launch, StartFails, StopRunner, FreeRemove, DeleteTap, Ack,
         Receive, Reap, MachineExits, Expire, PickJob, LoseEvent, Complete, Duplicate, Crash,
         vars, vmVars
<1> QED BY <1>1, <1>2, <1>3

\* EventsOK is inductive.
LEMMA EventsStep ==
  ASSUME Genuine, IInv, RunsOK, EventsOK, [Next]_vars PROVE EventsOK'
BY EventsOnceStep, HandledOnceStep, FreedWhenDoneStep, EventOfHolderStep, KillStep DEF EventsOK

\* No event is stored and no run begun at first.
LEMMA EventsInit == Init => EventsOK
<1> SUFFICES ASSUME Init PROVE EventsOK
  OBVIOUS
<1>1. EventsOnce /\ HandledOnce /\ EventOfHolder /\ NoUndeservedKill
  BY DEF Init, EventsOnce, HandledOnce, EventOfHolder, NoUndeservedKill, StopSteps
<1>2. issued = 0 /\ \A u \in Runs : ~(u <= 0)
  BY HostAssumption DEF Init, Runs
<1> QED BY <1>1, <1>2 DEF EventsOK, FreedWhenDone

\* While nothing fails to be stored or acknowledged, the invariants of a
\* machine's life and of its event hold together.
LEMMA GenuineInvariant ==
  ASSUME Genuine PROVE Spec => [](IInv /\ RunsOK /\ EventsOK)
<1>1. Init => IInv /\ RunsOK /\ EventsOK
  BY InitInvariant, RunsInit, EventsInit
<1>2. IInv /\ RunsOK /\ EventsOK /\ [Next]_vars => (IInv /\ RunsOK /\ EventsOK)'
  <2> SUFFICES ASSUME IInv, RunsOK, EventsOK, [Next]_vars PROVE (IInv /\ RunsOK /\ EventsOK)'
    OBVIOUS
  <2>1. \A q \in Procs : FreeReset(q) => FreesNoStarter(q)
    BY FreeResetEffect, FreesOnlyDone
  <2>2. RunsOK'
    BY <2>1, GenuineSteps, RunsStep
  <2> QED BY <2>2, NextInvariant, EventsStep
<1> QED BY <1>1, <1>2, PTL DEF Spec

\* A context is cancelled only after the run's own job is done, although Free
\* knows the runner by the number of its slot alone.
THEOREM KillsSafe == ASSUME Genuine PROVE Spec => []NoUndeservedKill
<1>1. EventsOK => NoUndeservedKill
  BY DEF EventsOK
<1> QED BY <1>1, GenuineInvariant, PTL

\* No machine runs that the slot table has lost: as long as its context is
\* not cancelled its slot is held for it and has its cancel function.
THEOREM NoneOrphaned == ASSUME Genuine PROVE Spec => []NoOrphan
<1>1. RunsOK => NoOrphan
  BY DEF RunsOK, UpRuns, NoOrphan, Live, Held
<1> QED BY <1>1, GenuineInvariant, PTL

-----------------------------------------------------------------------------
(* Root drives.                                                            *)

\* What StartRunner has made so far bears the UID of its own run, though it
\* reads the UID of the slot afresh for the directory and for the drive.
DiskReady(p) ==
    LET u == loc[p].run IN
      /\ pc[p] # "mkdir" => loc[p].path = u
      /\ pc[p] \notin {"mkdir", "copy"} => disk[u] = "rootfs"
      /\ pc[p] = "launch" => run[u].drive = u

DisksMade == \A p \in Procs : Starter(p) => DiskReady(p)

OwnDrive ==
    \A u \in Runs : run[u].state = "up" =>
      run[u].drive = u /\ (job[u] # "done" => disk[u] = "rootfs")

DisksOK == DisksMade /\ OwnDrive

\* A goroutine in StartRunner goes on there only by its own steps, and gets
\* there only by Next.
LEMMA StartersKept ==
  ASSUME IInv, [Next]_vars, ~Crash, NEW q \in Procs, Starter(q)',
         \A p \in Procs : ~StartRunner(p) /\ ~StartFails(p) /\ \A i \in Ids : ~NextSlot(p, i)
  PROVE  Starter(q) /\ pc'[q] = pc[q] /\ loc'[q] = loc[q]
<1> DEFINE Same == Starter(q) /\ pc'[q] = pc[q] /\ loc'[q] = loc[q]
<1>1. ASSUME NEW p \in Procs, NoSlot(p) \/ StopRunner(p) PROVE Same
  <2>1. /\ \E label \in Labels \ StartSteps : pc' = [pc EXCEPT ![p] = label]
        /\ \A r \in Procs : r # p => loc'[r] = loc[r]
    BY <1>1 DEF NoSlot, StopRunner, FreeRemove, FreeReset, DeleteTap, Ack, Goto, Labels, StartSteps,
                StopSteps, IInv, TypeOK
  <2> QED BY <2>1 DEF Starter, IInv, TypeOK
<1>2. ASSUME NEW w \in Workers, NEW m \in stream, Receive(w, m) PROVE Same
  BY <1>2 DEF Receive, Goto, Starter, StartSteps, IInv, TypeOK
<1>3. ~Start
  BY DEF Start, Starter, StartSteps
<1>4. CASE UNCHANGED <<pc, loc>>
  BY <1>4 DEF Starter
<1> QED BY <1>1, <1>2, <1>3, <1>4
  DEF Next, Rest, PickJob, Complete, LoseEvent, Duplicate, Reap, MachineExits, Expire, vars, hostVars

\* A step of StartRunner works on the directory of its own run.
LEMMA DiskStep ==
  ASSUME IInv, RunsOK, DisksOK, NEW p \in Procs, StartRunner(p) \/ StartFails(p)
  PROVE  LET u == loc[p].run IN
         /\ \A v \in Runs : v # u => disk'[v] = disk[v]
         /\ Starter(p)' => DiskReady(p)'
         /\ run'[u].state = "up" => run'[u].drive = u /\ disk'[u] = "rootfs"
<1> DEFINE u == loc[p].run
<1>1. StartFrame(p) /\ Starter(p)
  BY StartRunnerFrame DEF StartFrame, Starter, IInv
<1>2. /\ u \in Runs /\ u \in 0 .. MaxRuns /\ loc[p].slot \in Ids /\ run[u].state = "starting"
      /\ slots[loc[p].slot].uid = u
  BY <1>1, StarterRun, HostAssumption DEF RunsOK, StartersHold, Held, Runs
<1>3. DiskReady(p)
  BY <1>1 DEF DisksOK, DisksMade
<1>4. GoesOn(p) \/ Returns(p)
  BY StarterStep
<1>5. Starter(p)' => loc'[p].run = u
  BY <1>4 DEF GoesOn, Returns, Starter, StartSteps
<1>6. /\ run \in [Runs -> RunRecord] /\ loc \in [Procs -> Locals] /\ pc \in [Procs -> Labels]
      /\ disk \in [0 .. MaxRuns -> {"none", "dir", "rootfs"}]
      /\ \A v \in Runs : v \in 0 .. MaxRuns
  BY HostAssumption DEF IInv, TypeOK, Runs
<1>7. Fail(p) => run'[u].state = "failed" /\ ~Starter(p)'
  <2> SUFFICES ASSUME Fail(p) PROVE run'[u].state = "failed" /\ ~Starter(p)'
    OBVIOUS
  <2>1. run'[u].state = "failed"
    BY <1>2, <1>6 DEF Fail, RunRecord
  <2>2. pc'[p] \in {"take", "next"}
    BY <1>6 DEF Fail, Return, Goto
  <2> QED BY <2>1, <2>2 DEF Starter, StartSteps
<1>8. CASE MakeDir(p)
  <2>1. /\ pc'[p] = "copy" /\ UNCHANGED run /\ loc' = [loc EXCEPT ![p].path = u]
        /\ disk' = [disk EXCEPT ![u] = IF @ = "none" THEN "dir" ELSE @]
    BY <1>2, <1>6, <1>8 DEF MakeDir, Goto
  <2>2. loc'[p].path = u /\ \A v \in Runs : v # u => disk'[v] = disk[v]
    BY <1>6, <2>1 DEF Locals
  <2> QED BY <1>2, <1>5, <2>1, <2>2 DEF DiskReady, Starter
<1>9. CASE CopyRootFS(p)
  <2>1. CASE Fail(p) /\ UNCHANGED disk
    BY <1>7, <2>1
  <2>2. CASE ~(Fail(p) /\ UNCHANGED disk)
    <3>1. /\ pc'[p] = "arm" /\ UNCHANGED <<run, loc>> /\ loc[p].path = u
          /\ disk' = [disk EXCEPT ![u] = "rootfs"]
      BY <1>3, <1>6, <1>9, <2>2 DEF CopyRootFS, Goto, DiskReady
    <3>2. disk'[u] = "rootfs" /\ \A v \in Runs : v # u => disk'[v] = disk[v]
      BY <1>2, <1>6, <3>1
    <3> QED BY <1>2, <3>1, <3>2 DEF DiskReady
  <2> QED BY <2>1, <2>2
<1>10. CASE ArmCancel(p) \/ ClearTap(p) \/ AddTap(p)
  <2>1. CASE Fail(p)
    <3>1. UNCHANGED disk
      BY <1>10 DEF ArmCancel, ClearTap, AddTap, vmVars
    <3> QED BY <1>7, <2>1, <3>1
  <2>2. CASE ~Fail(p)
    <3>1. /\ UNCHANGED <<disk, run, loc>>
          /\ pc[p] \in {"arm", "tapclear", "tapadd"} /\ pc'[p] \in {"tapclear", "tapadd", "config"}
      BY <1>6, <1>10, <2>2 DEF ArmCancel, ClearTap, AddTap, Goto, vmVars
    <3> QED BY <1>2, <1>3, <3>1 DEF DiskReady
  <2> QED BY <2>1, <2>2
<1>11. CASE Configure(p)
  <2>1. /\ pc[p] = "config" /\ pc'[p] = "launch" /\ UNCHANGED <<disk, loc>>
        /\ run' = [run EXCEPT ![u].drive = u]
    BY <1>2, <1>6, <1>11 DEF Configure, Goto
  <2>2. run'[u].drive = u /\ run'[u].state = "starting"
    BY <1>2, <1>6, <2>1 DEF RunRecord
  <2> QED BY <1>3, <2>1, <2>2 DEF DiskReady
<1>12. CASE Launch(p)
  <2>1. pc[p] = "launch" /\ UNCHANGED disk /\ pc'[p] \in {"take", "next"} /\ run'[u].drive = run[u].drive
    <3>1. run' = [run EXCEPT ![u].state = "failed"] \/ run' = [run EXCEPT ![u].state = "up"]
      BY <1>12 DEF Launch, Fail
    <3>2. run'[u].drive = run[u].drive
      BY <1>2, <1>6, <3>1 DEF RunRecord
    <3> QED BY <1>6, <1>12, <3>2 DEF Launch, Fail, Return, Goto
  <2>2. run[u].drive = u /\ disk[u] = "rootfs"
    BY <1>3, <2>1 DEF DiskReady
  <2> QED BY <2>1, <2>2 DEF Starter, StartSteps
<1>13. CASE StartFails(p)
  BY <1>7, <1>13 DEF StartFails
<1> QED BY <1>8, <1>9, <1>10, <1>11, <1>12, <1>13 DEF StartRunner

\* DisksOK is kept by what makes no run and starts none, and takes the disk
\* of no run but one whose job is done.
LEMMA OtherDisksOK ==
  ASSUME IInv, RunsOK, DisksOK, [Next]_vars, ~Crash,
         \A p \in Procs : ~StartRunner(p) /\ ~StartFails(p) /\ \A i \in Ids : ~NextSlot(p, i),
         \A u \in Runs : disk[u] = "rootfs" /\ disk'[u] # "rootfs" => job[u] = "done",
         \A u \in Runs : run'[u] = run[u] \/ (run'[u].state = "dead" /\ run[u].state = "up")
  PROVE  DisksOK'
<1>1. ASSUME NEW q \in Procs, Starter(q)' PROVE DiskReady(q)'
  <2>1. Starter(q) /\ pc'[q] = pc[q] /\ loc'[q] = loc[q]
    BY <1>1, StartersKept
  <2>2. DiskReady(q) /\ loc[q].run \in Runs /\ run[loc[q].run].state = "starting"
    BY <2>1, StarterRun DEF DisksOK, DisksMade, RunsOK, StartersHold
  <2>3. job[loc[q].run] = "none"
    BY <2>2 DEF RunsOK, JobsOfStarted
  <2>4. run'[loc[q].run] = run[loc[q].run]
    BY <2>2
  <2>5. disk[loc[q].run] = "rootfs" => disk'[loc[q].run] = "rootfs"
    BY <2>2, <2>3
  <2> QED BY <2>1, <2>2, <2>4, <2>5 DEF DiskReady
<1>2. ASSUME NEW u \in Runs, run'[u].state = "up", job'[u] # "done"
      PROVE  run'[u].drive = u /\ disk'[u] = "rootfs"
  <2>1. run'[u] = run[u]
    BY <1>2
  <2>2. job[u] # "done"
    BY <1>2, DoneStays DEF IInv
  <2> QED BY <1>2, <2>1, <2>2 DEF DisksOK, OwnDrive
<1>3. ASSUME NEW u \in Runs, run'[u].state = "up" PROVE run'[u].drive = u
  <2>1. run'[u] = run[u]
    BY <1>3
  <2> QED BY <1>3, <2>1 DEF DisksOK, OwnDrive
<1> QED BY <1>1, <1>2, <1>3 DEF DisksOK, DisksMade, OwnDrive

\* Every step keeps the disk of each machine that is up.
LEMMA DisksStep ==
  ASSUME Genuine, IInv, RunsOK, EventsOK, DisksOK, [Next]_vars PROVE DisksOK'
<1>1. ASSUME NEW p \in Procs, StartRunner(p) \/ StartFails(p) PROVE DisksOK'
  <2> DEFINE u == loc[p].run
  <2>1. StartFrame(p) /\ Starter(p)
    BY <1>1, StartRunnerFrame DEF StartFrame, Starter, IInv
  <2>2. /\ \A q \in Procs : q # p => pc'[q] = pc[q] /\ loc'[q] = loc[q]
        /\ \A v \in Runs : v # u => run'[v] = run[v]
        /\ UNCHANGED job
    BY <1>1, <2>1, StarterStep DEF StartFrame, IInv, TypeOK, envVars
  <2>3. /\ \A v \in Runs : v # u => disk'[v] = disk[v]
        /\ Starter(p)' => DiskReady(p)'
        /\ run'[u].state = "up" => run'[u].drive = u /\ disk'[u] = "rootfs"
    BY <1>1, DiskStep
  <2>4. ASSUME NEW q \in Procs, q # p, Starter(q)' PROVE DiskReady(q)'
    <3>1. pc'[q] = pc[q] /\ loc'[q] = loc[q] /\ Starter(q)
      BY <2>2, <2>4 DEF Starter
    <3>2. DiskReady(q) /\ loc[q].run \in Runs /\ loc[q].run # u
      BY <2>1, <2>4, <3>1, StarterRun DEF DisksOK, DisksMade, RunsOK, StartersHold
    <3>3. run'[loc[q].run] = run[loc[q].run] /\ disk'[loc[q].run] = disk[loc[q].run]
      BY <2>2, <2>3, <3>2
    <3> QED BY <3>1, <3>2, <3>3 DEF DiskReady
  <2>5. DisksMade'
    BY <2>3, <2>4 DEF DisksMade
  <2>6. OwnDrive'
    <3>1. ASSUME NEW v \in Runs, v # u, run'[v].state = "up"
          PROVE  run'[v].drive = v /\ (job'[v] # "done" => disk'[v] = "rootfs")
      <4>1. run'[v] = run[v] /\ disk'[v] = disk[v]
        BY <2>2, <2>3, <3>1
      <4> QED BY <2>2, <3>1, <4>1 DEF DisksOK, OwnDrive
    <3> QED BY <2>3, <3>1 DEF OwnDrive
  <2> QED BY <2>5, <2>6 DEF DisksOK
<1>2. ASSUME NEW p \in Procs, NEW i \in Ids, NextSlot(p, i) PROVE DisksOK'
  <2> DEFINE l == issued + 1
  <2>1. /\ run'[l] = [slot |-> i, drive |-> NoRun, state |-> "starting"]
        /\ \A v \in Runs : v # l => run'[v] = run[v]
        /\ pc'[p] = "mkdir" /\ loc'[p].run = l
        /\ \A q \in Procs : q # p => pc'[q] = pc[q] /\ loc'[q] = loc[q]
        /\ UNCHANGED <<disk, job>>
    BY <1>2, NextSlotEffect
  <2>2. run'[l].state = "starting"
    BY <2>1
  <2>3. \A q \in Procs : Starter(q) => loc[q].run \in Runs /\ loc[q].run # l
    <3>1. issued \in Nat
      BY HostAssumption DEF IInv, TypeOK
    <3> QED BY <3>1, StarterRun
  <2> HIDE DEF l
  <2>4. ASSUME NEW q \in Procs, q # p, Starter(q)' PROVE DiskReady(q)'
    <3>1. pc'[q] = pc[q] /\ loc'[q] = loc[q] /\ Starter(q)
      BY <2>1, <2>4 DEF Starter
    <3>2. DiskReady(q) /\ run'[loc[q].run] = run[loc[q].run]
      BY <2>1, <2>3, <3>1 DEF DisksOK, DisksMade
    <3> QED BY <2>1, <3>1, <3>2 DEF DiskReady
  <2>5. pc'[p] = "mkdir" => DiskReady(p)'
    <3> SUFFICES ASSUME pc'[p] = "mkdir" PROVE DiskReady(p)'
      OBVIOUS
    <3> QED BY DEF DiskReady
  <2>6. DisksMade'
    BY <2>1, <2>4, <2>5 DEF DisksMade
  <2>7. OwnDrive'
    BY <2>1, <2>2 DEF DisksOK, OwnDrive
  <2> QED BY <2>6, <2>7 DEF DisksOK
<1>3. ASSUME \A p \in Procs : ~StartRunner(p) /\ ~StartFails(p) /\ \A i \in Ids : ~NextSlot(p, i)
      PROVE  DisksOK'
  <2>1. \A u \in Runs : disk[u] = "rootfs" /\ disk'[u] # "rootfs" => job[u] = "done"
    <3>1. ASSUME NEW p \in Procs, FreeRemove(p), NEW u \in Runs, disk'[u] # disk[u]
          PROVE  job[u] = "done"
      <4>1. /\ pc[p] = "free" /\ u \in 0 .. MaxRuns
            /\ UNCHANGED disk \/ RemoveAll(slots[StoppedSlot(p)].uid)
        BY <3>1, HostAssumption DEF FreeRemove, Runs
      <4>2. /\ slots[StoppedSlot(p)].uid = loc[p].msg.run
            /\ job[loc[p].msg.run] = "done" /\ loc[p].msg.run # NoRun
        BY <4>1, StoppedRun DEF Runs, NoRun
      <4> QED BY <3>1, <4>1, <4>2 DEF RemoveAll
    <3>2. (\E p \in Procs : FreeRemove(p)) \/ UNCHANGED disk
      BY <1>3, GenuineSteps
      DEF Next, Rest, Start, NoSlot, StopRunner, FreeReset, DeleteTap, Ack, Receive, Reap,
          MachineExits, Expire, PickJob, LoseEvent, Complete, vars, vmVars
    <3> QED BY <3>1, <3>2
  <2>2. \A u \in Runs : run'[u] = run[u] \/ (run'[u].state = "dead" /\ run[u].state = "up")
    <3>1. ASSUME NEW v \in Runs, Reap(v) \/ MachineExits(v), NEW u \in Runs
          PROVE  run'[u] = run[u] \/ (run'[u].state = "dead" /\ run[u].state = "up")
      BY <3>1 DEF Reap, MachineExits, IInv, TypeOK, RunRecord
    <3>2. (\E v \in Runs : Reap(v) \/ MachineExits(v)) \/ UNCHANGED run
      BY <1>3, GenuineSteps
      DEF Next, Rest, Start, NoSlot, StopRunner, FreeRemove, FreeReset, DeleteTap, Ack, Receive,
          Expire, PickJob, LoseEvent, Complete, vars, vmVars
    <3> QED BY <3>1, <3>2
  <2> QED BY <1>3, <2>1, <2>2, GenuineSteps, OtherDisksOK
<1> QED BY <1>1, <1>2, <1>3

\* No machine is up at first.
LEMMA DisksInit == Init => DisksOK
BY DEF Init, DisksOK, DisksMade, OwnDrive, Starter, StartSteps, NeverRun

\* A machine boots from the drive made for it, and keeps it until its job is
\* over: neither another start nor Free takes it.
THEOREM DisksSafe == ASSUME Genuine PROVE Spec => []OwnDisk
<1>1. DisksOK => OwnDisk
  BY DEF DisksOK, OwnDrive, OwnDisk, Live
<1>2. Init => DisksOK
  BY DisksInit
<1>3. (IInv /\ RunsOK /\ EventsOK) /\ DisksOK /\ [Next]_vars => DisksOK'
  BY DisksStep
<1> QED BY <1>1, <1>2, <1>3, GenuineInvariant, PTL DEF Spec

-----------------------------------------------------------------------------
(* Tap devices, with one worker and a quiet start.                         *)

\* No worker has anything to do before RunVMs has returned.
BootIdle ==
    pc[Main] # "serving" =>
      /\ stream = {} /\ \A u \in Runs : job[u] = "none"
      /\ \A w \in Workers : pc[w] \in {"off", "next"}

\* TapDelete works on the devices of a slot that is free.
UntapFree == \A w \in Workers : pc[w] = "untap" => ~slots[StoppedSlot(w)].inUse

\* The devices createVM has made are there when the machine is launched ...
TapsMade ==
    \A p \in Procs : pc[p] \in {"config", "launch"} => tap[loc[p].slot] = loc[p].run

\* ... and as long as it holds the slot.
UpTaps == \A u \in Runs : run[u].state = "up" /\ Held(u) => Networked(u)

QuietOK == BootIdle /\ UntapFree /\ TapsMade /\ UpTaps

\* While the worker is at work Main is serving and there is nobody else.
LEMMA OneAtWork ==
  ASSUME Quiet, QuietOK, NEW w \in Workers, pc[w] \notin {"off", "next"}
  PROVE  /\ pc[Main] = "serving" /\ w # Main
         /\ \A q \in Procs : q # w => q = Main
BY HostAssumption DEF Quiet, QuietOK, BootIdle, Procs

\* The one worker cannot start a VM while it frees a slot, and RunVMs has returned.
LEMMA QuietFreesNoStarter ==
  ASSUME Quiet, IInv, QuietOK, NEW p \in Procs, FreeReset(p) PROVE FreesNoStarter(p)
<1>1. p \in Workers /\ pc[p] = "reset"
  BY FreeResetEffect
<1>2. \A q \in Procs : ~Starter(q)
  BY <1>1, OneAtWork DEF Starter, StartSteps
<1> QED BY <1>2 DEF FreesNoStarter

\* RunVMs returns once; Main does nothing afterwards.
LEMMA ServingStays ==
  ASSUME IInv, [Next]_vars, ~Crash, pc[Main] = "serving" PROVE pc'[Main] = "serving"
<1> USE DEF IInv, TypeOK
<1>0. Main \in Procs /\ Main \notin Workers
  BY HostAssumption DEF Procs
<1>1. ASSUME NEW q \in Procs, StartRunner(q) \/ StartFails(q) PROVE pc'[Main] = pc[Main]
  <2>1. StartFrame(q)
    BY <1>1, StartRunnerFrame
  <2> QED BY <1>0, <2>1 DEF StartFrame, StartSteps
<1>2. ASSUME NEW q \in Procs, NEW i \in Ids, NextSlot(q, i) PROVE pc'[Main] = pc[Main]
  BY <1>0, <1>2, NextSlotEffect
<1>3. ASSUME NEW q \in Procs, NoSlot(q) \/ StopRunner(q) PROVE pc'[Main] = pc[Main]
  BY <1>0, <1>3 DEF NoSlot, StopRunner, FreeRemove, FreeReset, DeleteTap, Ack, Goto
<1>4. ASSUME NEW w \in Workers, NEW m \in stream, Receive(w, m) PROVE pc'[Main] = pc[Main]
  BY <1>0, <1>4 DEF Receive, Goto
<1>5. ~Start
  BY DEF Start
<1>6. CASE UNCHANGED pc
  BY <1>6
<1> QED BY <1>1, <1>2, <1>3, <1>4, <1>5, <1>6
  DEF Next, Rest, PickJob, Complete, LoseEvent, Duplicate, Reap, MachineExits, Expire, vars, hostVars

\* Until RunVMs has returned, the worker has nothing to do.
LEMMA BootIdleStep ==
  ASSUME Quiet, IInv, QuietOK, [Next]_vars PROVE BootIdle'
<1> SUFFICES ASSUME pc[Main] # "serving"
             PROVE  /\ stream' = {} /\ \A u \in Runs : job'[u] = "none"
                    /\ \A w \in Workers : pc'[w] \in {"off", "next"}
  BY ServingStays DEF BootIdle, Quiet, Crash, Fault
<1>00. ASSUME NEW q \in Procs, NEW i \in Ids, NextSlot(q, i)
      PROVE  /\ pc[q] = "take" /\ UNCHANGED <<stream, job>>
             /\ \A r \in Procs : r # q => pc'[r] = pc[r]
  <2>1. pc[q] = "take" /\ UNCHANGED <<stream, job>>
    BY <1>00 DEF NextSlot, envVars
  <2>2. \A r \in Procs : r # q => pc'[r] = pc[r]
    BY <1>00 DEF NextSlot, Goto, IInv, TypeOK
  <2> QED BY <2>1, <2>2
<1> USE DEF IInv, TypeOK
<1>0. /\ stream = {} /\ \A u \in Runs : job[u] = "none"
      /\ \A w \in Workers : pc[w] \in {"off", "next"} /\ w \in Procs
      /\ inflight = {}
  BY DEF QuietOK, BootIdle, Procs
<1>1. ASSUME NEW q \in Procs, StartRunner(q) \/ StartFails(q)
      PROVE  UNCHANGED <<stream, job>> /\ \A w \in Workers : pc'[w] = pc[w]
  <2>1. StartFrame(q)
    BY <1>1, StartRunnerFrame
  <2> QED BY <1>0, <2>1 DEF StartFrame, StartSteps, envVars
<1>2. ASSUME NEW q \in Procs, NEW i \in Ids, NextSlot(q, i)
      PROVE  UNCHANGED <<stream, job>> /\ \A w \in Workers : pc'[w] = pc[w]
  BY <1>0, <1>2, <1>00
<1>3. ASSUME NEW q \in Procs, NoSlot(q)
      PROVE  UNCHANGED <<stream, job>> /\ \A w \in Workers : pc'[w] = pc[w]
  BY <1>0, <1>3 DEF NoSlot, Goto, envVars
<1>4. ASSUME NEW q \in Procs, StopRunner(q) PROVE FALSE
  <2>1. pc[q] \in StopSteps
    BY <1>4 DEF StopRunner, FreeRemove, FreeReset, DeleteTap, Ack, StopSteps
  <2> QED BY <1>0, <2>1 DEF RolesOK, Procs, StopSteps
<1>5. CASE Start
  BY <1>0, <1>5, HostAssumption DEF Start, Procs
<1>6. ASSUME NEW u \in Runs, PickJob(u) \/ Complete(u) \/ LoseEvent(u) \/ Duplicate(u) PROVE FALSE
  BY <1>0, <1>6 DEF PickJob, Complete, LoseEvent, Duplicate, Quiet
<1>7. ~Crash
  BY DEF Quiet, Crash, Fault
<1>8. CASE UNCHANGED <<pc, stream, job>>
  BY <1>0, <1>8
<1> QED BY <1>0, <1>1, <1>2, <1>3, <1>4, <1>5, <1>6, <1>7, <1>8
  DEF Next, Rest, Reap, MachineExits, vars, hostVars, envVars

\* Every step keeps: while its tap devices are deleted, a slot is free.
LEMMA UntapFreeStep ==
  ASSUME Quiet, IInv, QuietOK, [Next]_vars PROVE UntapFree'
<1> USE DEF IInv, TypeOK
<1> SUFFICES ASSUME NEW w \in Workers, pc'[w] = "untap"
             PROVE  ~slots'[run'[loc'[w].msg.run].slot].inUse
  BY DEF UntapFree, StoppedSlot
<1>0. ~Crash /\ ~Start /\ w \in Procs
  BY HostAssumption DEF Quiet, Crash, Fault, Start, Procs
<1>1. CASE FreeReset(w)
  <2>1. /\ StoppedSlot(w) \in Ids /\ slots'[StoppedSlot(w)] = FreeSlot /\ UNCHANGED <<loc, run>>
    BY <1>0, <1>1, FreeResetEffect
  <2> QED BY <2>1 DEF StoppedSlot, FreeSlot
<1>2. CASE FreeRemove(w)
  <2>1. UNCHANGED <<slots, loc, run>>
    BY <1>2 DEF FreeRemove
  <2>2. ~slots[StoppedSlot(w)].inUse
    BY <1>0, <1>2 DEF FreeRemove, Goto
  <2> QED BY <2>1, <2>2 DEF StoppedSlot
<1>3. CASE ~FreeReset(w) /\ ~FreeRemove(w)
  <2>1. pc[w] = "untap" /\ loc'[w] = loc[w]
    <3>1. ~ \E v \in Workers, m \in stream : Receive(v, m) /\ v = w
      BY <1>0 DEF Receive, Goto
    <3>2. ASSUME NEW v \in Workers, NEW m \in stream, Receive(v, m), v # w
          PROVE  pc[w] = "untap" /\ loc'[w] = loc[w]
      BY <1>0, <3>2 DEF Receive, Goto
    <3>3. ASSUME NEW q \in Procs, StartRunner(q) \/ StartFails(q)
          PROVE  pc[w] = "untap" /\ loc'[w] = loc[w]
      <4>1. StartFrame(q)
        BY <3>3, StartRunnerFrame
      <4>2. pc'[q] # "untap"
        BY <4>1 DEF StartFrame, StartSteps
      <4> QED BY <1>0, <4>1, <4>2 DEF StartFrame
    <3>4. ASSUME NEW q \in Procs, NEW i \in Ids, NextSlot(q, i)
          PROVE  pc[w] = "untap" /\ loc'[w] = loc[w]
      BY <1>0, <3>4, NextSlotEffect
    <3>5. ASSUME NEW q \in Procs, NoSlot(q) \/ DeleteTap(q) \/ Ack(q)
          PROVE  pc[w] = "untap" /\ loc'[w] = loc[w]
      BY <1>0, <3>5 DEF NoSlot, DeleteTap, Ack, Goto
    <3>6. ASSUME NEW q \in Procs, q # w, FreeReset(q)
          PROVE  pc[w] = "untap" /\ loc'[w] = loc[w]
      BY <1>0, <3>6, FreeResetEffect
    <3>7. ASSUME NEW q \in Procs, q # w, FreeRemove(q)
          PROVE  pc[w] = "untap" /\ loc'[w] = loc[w]
      BY <1>0, <3>7 DEF FreeRemove, Goto
    <3>8. CASE UNCHANGED <<pc, loc>>
      BY <3>8
    <3> QED BY <1>0, <1>3, <3>1, <3>2, <3>3, <3>4, <3>5, <3>6, <3>7, <3>8
      DEF Next, Rest, StopRunner, PickJob, Complete, LoseEvent, Duplicate, Reap, MachineExits,
          Expire, vars, hostVars
  <2>2. /\ pc[Main] = "serving" /\ \A q \in Procs : q # w => q = Main
    BY <2>1, OneAtWork
  <2>3. StoppedSlot(w) = run[loc[w].msg.run].slot /\ ~slots[StoppedSlot(w)].inUse
    BY <2>1 DEF StoppedSlot, QuietOK, UntapFree
  <2>4. ASSUME NEW q \in Procs, NEW i \in Ids PROVE ~NextSlot(q, i)
    BY <2>1, <2>2 DEF NextSlot
  <2>5. ASSUME NEW q \in Procs PROVE ~StartRunner(q) /\ ~StartFails(q)
    BY <2>1, <2>2 DEF StartRunner, MakeDir, CopyRootFS, ArmCancel, ClearTap, AddTap, Configure,
                      Launch, StartFails, StartSteps
  <2>6. ASSUME NEW q \in Procs PROVE ~FreeReset(q)
    BY <2>1, <2>2 DEF FreeReset
  <2>7. UNCHANGED slots
    BY <1>0, <2>4, <2>5, <2>6
    DEF Next, Rest, NoSlot, StopRunner, FreeRemove, DeleteTap, Ack, Receive, PickJob, Complete,
        LoseEvent, Duplicate, Reap, MachineExits, Expire, vars, hostVars
  <2>8. \A u \in Runs : run'[u].slot = run[u].slot
    <3>1. ASSUME NEW v \in Runs, Reap(v) \/ MachineExits(v), NEW u \in Runs
          PROVE  run'[u].slot = run[u].slot
      BY <3>1, MachineEffect
    <3>2. (\E v \in Runs : Reap(v) \/ MachineExits(v)) \/ UNCHANGED run
      BY <1>0, <2>4, <2>5
      DEF Next, Rest, NoSlot, StopRunner, FreeRemove, FreeReset, DeleteTap, Ack, Receive, PickJob,
          Complete, LoseEvent, Duplicate, Expire, vars, vmVars
    <3> QED BY <3>1, <3>2
  <2>9. loc[w].msg.run \in Runs
    BY <1>0, <2>1 DEF RolesOK, StopSteps, Messages
  <2> QED BY <2>1, <2>3, <2>7, <2>8, <2>9
<1> QED BY <1>1, <1>2, <1>3

\* A step of StartRunner makes and deletes the devices of its own slot only.
LEMMA TapStep ==
  ASSUME IInv, RunsOK, QuietOK, NEW p \in Procs, StartRunner(p) \/ StartFails(p)
  PROVE  /\ \A i \in Ids : i # loc[p].slot => tap'[i] = tap[i]
         /\ pc'[p] \in {"config", "launch"} =>
              loc'[p] = loc[p] /\ tap'[loc[p].slot] = loc[p].run
         /\ run'[loc[p].run].state = "up" => tap'[loc[p].slot] = loc[p].run
<1> DEFINE u == loc[p].run
<1>1. StartFrame(p) /\ Starter(p)
  BY StartRunnerFrame DEF StartFrame, Starter, IInv
<1>2. u \in Runs /\ loc[p].slot \in Ids /\ run[u].state = "starting"
  BY <1>1, StarterRun DEF RunsOK, StartersHold
<1>3. /\ run \in [Runs -> RunRecord] /\ loc \in [Procs -> Locals] /\ pc \in [Procs -> Labels]
      /\ tap \in [Ids -> 0 .. MaxRuns]
  BY DEF IInv, TypeOK
<1>4. Fail(p) => run'[u].state = "failed" /\ pc'[p] \in {"take", "next"}
  <2> SUFFICES ASSUME Fail(p) PROVE run'[u].state = "failed" /\ pc'[p] \in {"take", "next"}
    OBVIOUS
  <2>1. run'[u].state = "failed"
    BY <1>2, <1>3 DEF Fail, RunRecord
  <2> QED BY <1>3, <2>1 DEF Fail, Return, Goto
<1>5. CASE MakeDir(p) \/ ArmCancel(p)
  BY <1>2, <1>3, <1>5 DEF MakeDir, ArmCancel, Goto, vmVars
<1>6. CASE CopyRootFS(p) \/ StartFails(p)
  <2>1. UNCHANGED tap
    BY <1>6 DEF CopyRootFS, StartFails
  <2>2. Fail(p) \/ (UNCHANGED run /\ pc'[p] = "arm")
    BY <1>3, <1>6 DEF CopyRootFS, StartFails, Goto
  <2> QED BY <1>2, <1>4, <2>1, <2>2
<1>7. CASE ClearTap(p)
  BY <1>2, <1>3, <1>7 DEF ClearTap, Goto
<1>8. CASE AddTap(p)
  BY <1>2, <1>3, <1>4, <1>8 DEF AddTap, Goto
<1>9. CASE Configure(p)
  <2>1. pc[p] = "config" /\ UNCHANGED <<tap, loc>> /\ run' = [run EXCEPT ![u].drive = slots[loc[p].slot].uid]
    BY <1>9 DEF Configure
  <2>2. tap[loc[p].slot] = u
    BY <2>1 DEF QuietOK, TapsMade
  <2> QED BY <2>1, <2>2
<1>10. CASE Launch(p)
  <2>1. pc[p] = "launch" /\ UNCHANGED tap /\ pc'[p] \in {"take", "next"}
    BY <1>3, <1>4, <1>10 DEF Launch, Return, Goto
  <2>2. tap[loc[p].slot] = u
    BY <2>1 DEF QuietOK, TapsMade
  <2> QED BY <2>1, <2>2
<1> QED BY <1>5, <1>6, <1>7, <1>8, <1>9, <1>10 DEF StartRunner

\* Two goroutines in StartRunner, or one and a machine, are in different slots.
LEMMA StarterAlone ==
  ASSUME IInv, RunsOK, NEW p \in Procs, Starter(p), NEW u \in Runs, Held(u), u # loc[p].run
  PROVE  run[u].slot # loc[p].slot
BY DEF RunsOK, StartersHold, Held

\* The steps of StartRunner make the devices of their own slot.
LEMMA TapsStartStep ==
  ASSUME IInv, RunsOK, QuietOK, NEW p \in Procs, StartRunner(p) \/ StartFails(p)
  PROVE  TapsMade' /\ UpTaps'
<1> DEFINE u == loc[p].run
           s == loc[p].slot
<1>1. StartFrame(p) /\ Starter(p)
  BY StartRunnerFrame DEF StartFrame, Starter, IInv
<1>2. /\ \A q \in Procs : q # p => pc'[q] = pc[q] /\ loc'[q] = loc[q]
      /\ \A i \in Ids : slots'[i].uid = slots[i].uid /\ slots'[i].inUse = slots[i].inUse
      /\ \A v \in Runs : run'[v].slot = run[v].slot
      /\ \A v \in Runs : v # u => run'[v] = run[v]
  BY <1>1, StarterStep DEF StartFrame, IInv, TypeOK
<1>3. \A v \in Runs : Held(v)' <=> Held(v)
  BY <1>2, RunSlot DEF Held
<1>4. /\ u \in Runs /\ s = run[u].slot
      /\ \A q \in Procs : Starter(q) /\ loc[q].run = u => q = p
  BY <1>1, StarterRun DEF RunsOK, StartersHold
<1>5. /\ \A i \in Ids : i # s => tap'[i] = tap[i]
      /\ pc'[p] \in {"config", "launch"} => loc'[p] = loc[p] /\ tap'[s] = u
      /\ run'[u].state = "up" => tap'[s] = u
  BY TapStep
<1>6. ASSUME NEW q \in Procs, q # p, pc'[q] \in {"config", "launch"}
      PROVE  tap'[loc'[q].slot] = loc'[q].run
  <2>1. pc'[q] = pc[q] /\ loc'[q] = loc[q] /\ Starter(q) /\ tap[loc[q].slot] = loc[q].run
    BY <1>2, <1>6 DEF Starter, StartSteps, QuietOK, TapsMade
  <2>2. /\ loc[q].run \in Runs /\ loc[q].run # u /\ Held(loc[q].run)
        /\ loc[q].slot = run[loc[q].run].slot /\ loc[q].slot \in Ids
    BY <1>4, <1>6, <2>1, StarterRun DEF RunsOK, StartersHold
  <2>3. loc[q].slot # s
    BY <1>1, <2>2, StarterAlone
  <2> QED BY <1>5, <2>1, <2>2, <2>3
<1>7. TapsMade'
  BY <1>5, <1>6 DEF TapsMade
<1>8. ASSUME NEW v \in Runs, run'[v].state = "up", Held(v)' PROVE tap'[run'[v].slot] = v
  <2>1. CASE v = u
    BY <1>2, <1>4, <1>5, <1>8, <2>1
  <2>2. CASE v # u
    <3>1. run'[v] = run[v] /\ Held(v) /\ run[v].slot \in Ids
      BY <1>2, <1>3, <1>8, <2>2, RunSlot
    <3>2. run[v].slot # s
      BY <1>1, <2>2, <3>1, StarterAlone
    <3>3. tap[run[v].slot] = v
      BY <1>8, <3>1 DEF QuietOK, UpTaps, Networked
    <3> QED BY <1>5, <3>1, <3>2, <3>3
  <2> QED BY <2>1, <2>2
<1>9. UpTaps'
  BY <1>8 DEF UpTaps, Networked
<1> QED BY <1>7, <1>9

\* A new lease is of a slot no machine is up in.
LEMMA TapsNextStep ==
  ASSUME IInv, RunsOK, QuietOK, NEW p \in Procs, NEW i \in Ids, NextSlot(p, i)
  PROVE  TapsMade' /\ UpTaps'
<1> DEFINE l == issued + 1
<1>1. /\ run'[l] = [slot |-> i, drive |-> NoRun, state |-> "starting"]
      /\ \A v \in Runs : v # l => run'[v] = run[v]
      /\ pc'[p] = "mkdir"
      /\ \A q \in Procs : q # p => pc'[q] = pc[q] /\ loc'[q] = loc[q]
      /\ UNCHANGED tap
  BY NextSlotEffect
<1>2. \A v \in Runs : v # l => (Held(v)' <=> Held(v))
  BY NextSlotHolders
<1>3. run'[l].state = "starting"
  BY <1>1
<1> HIDE DEF l
<1>4. TapsMade'
  BY <1>1 DEF QuietOK, TapsMade
<1>5. ASSUME NEW v \in Runs, run'[v].state = "up", Held(v)' PROVE tap'[run'[v].slot] = v
  <2>1. v # l
    BY <1>3, <1>5
  <2>2. run'[v] = run[v] /\ Held(v)
    BY <1>1, <1>2, <1>5, <2>1
  <2> QED BY <1>1, <1>5, <2>2 DEF QuietOK, UpTaps, Networked
<1>6. UpTaps'
  BY <1>5 DEF UpTaps, Networked
<1> QED BY <1>4, <1>6

\* Every step keeps the devices of starts and machines.
LEMMA TapsStep ==
  ASSUME Quiet, IInv, RunsOK, QuietOK, [Next]_vars PROVE TapsMade' /\ UpTaps'
<1>0. ~Crash
  BY DEF Quiet, Crash, Fault
<1>1. CASE \E p \in Procs : StartRunner(p) \/ StartFails(p)
  BY <1>1, TapsStartStep
<1>2. CASE \E p \in Procs, i \in Ids : NextSlot(p, i)
  BY <1>2, TapsNextStep
<1>3. CASE \A p \in Procs : ~StartRunner(p) /\ ~StartFails(p) /\ \A i \in Ids : ~NextSlot(p, i)
  <2>1. \A q \in Procs : Starter(q)' => Starter(q) /\ pc'[q] = pc[q] /\ loc'[q] = loc[q]
    BY <1>0, <1>3, StartersKept
  <2>2. ASSUME NEW u \in Runs, run'[u].state = "up", Held(u)'
        PROVE  run[u].state = "up" /\ Held(u) /\ run'[u].slot = run[u].slot
    <3>1. ASSUME NEW v \in Runs, Reap(v) \/ MachineExits(v)
          PROVE  run[u].state = "up" /\ Held(u) /\ run'[u].slot = run[u].slot
      <4>1. v # u /\ run'[u] = run[u] /\ UNCHANGED slots
        BY <2>2, <3>1, MachineEffect
      <4> QED BY <2>2, <4>1 DEF Held
    <3>2. ASSUME NEW p \in Procs, FreeReset(p)
          PROVE  run[u].state = "up" /\ Held(u) /\ run'[u].slot = run[u].slot
      BY <2>2, <3>2, FreeResetEffect
    <3>3. CASE UNCHANGED <<run, slots>>
      BY <2>2, <3>3 DEF Held
    <3> QED BY <1>0, <1>3, <3>1, <3>2, <3>3
      DEF Next, Rest, Start, NoSlot, StopRunner, FreeRemove, DeleteTap, Ack, Receive, PickJob,
          Complete, LoseEvent, Duplicate, Expire, vars, hostVars, vmVars
  <2>3. CASE \E w \in Procs : DeleteTap(w)
    <3>1. PICK w \in Procs : DeleteTap(w)
      BY <2>3
    <3>2. pc[w] = "untap" /\ w \in Workers
      BY <3>1 DEF DeleteTap, IInv, RolesOK, StopSteps, Procs
    <3>3. /\ ~slots[StoppedSlot(w)].inUse /\ \A q \in Procs : ~Starter(q)
      BY <3>2, OneAtWork DEF QuietOK, UntapFree, Starter, StartSteps
    <3>4. \A i \in Ids : i # StoppedSlot(w) => tap'[i] = tap[i]
      BY <3>1 DEF DeleteTap, IInv, TypeOK
    <3>5. TapsMade'
      BY <2>1, <3>3 DEF TapsMade, Starter, StartSteps
    <3>6. ASSUME NEW u \in Runs, run'[u].state = "up", Held(u)' PROVE tap'[run'[u].slot] = u
      <4>1. run[u].state = "up" /\ Held(u) /\ run'[u].slot = run[u].slot /\ run[u].slot \in Ids
        BY <2>2, <3>6, RunSlot
      <4>2. run[u].slot # StoppedSlot(w)
        BY <3>3, <4>1 DEF Held
      <4> QED BY <3>4, <4>1, <4>2 DEF QuietOK, UpTaps, Networked
    <3>7. UpTaps'
      BY <3>6 DEF UpTaps, Networked
    <3> QED BY <3>5, <3>7
  <2>4. CASE UNCHANGED tap
    <3>1. TapsMade'
      BY <2>1, <2>4 DEF TapsMade, QuietOK, Starter, StartSteps
    <3>2. UpTaps'
      BY <2>2, <2>4 DEF UpTaps, QuietOK, Networked
    <3> QED BY <3>1, <3>2
  <2> QED BY <1>0, <1>3, <2>3, <2>4
    DEF Next, Rest, Start, NoSlot, StopRunner, FreeRemove, FreeReset, Ack, Receive, Reap,
        MachineExits, PickJob, Complete, LoseEvent, Duplicate, Expire, vars, vmVars
<1> QED BY <1>1, <1>2, <1>3

\* Nothing is stopped and nothing up at first.
LEMMA QuietInit == Init => QuietOK
<1> SUFFICES ASSUME Init PROVE QuietOK
  OBVIOUS
<1>1. BootIdle
  BY HostAssumption DEF Init, BootIdle, Procs
<1>2. UntapFree /\ TapsMade
  BY DEF Init, UntapFree, TapsMade, Procs
<1>3. UpTaps
  BY DEF Init, UpTaps, NeverRun
<1> QED BY <1>1, <1>2, <1>3 DEF QuietOK

\* With one worker, and no job before RunVMs has returned, a machine that runs
\* has its network, through duplicated and overdue events, failed starts and
\* failed acknowledgements.
THEOREM TapsSafe == ASSUME Quiet PROVE Spec => []TapsIntact
<1>1. Init => IInv /\ RunsOK /\ QuietOK
  BY InitInvariant, RunsInit, QuietInit
<1>2. IInv /\ RunsOK /\ QuietOK /\ [Next]_vars => (IInv /\ RunsOK /\ QuietOK)'
  <2> SUFFICES ASSUME IInv, RunsOK, QuietOK, [Next]_vars PROVE (IInv /\ RunsOK /\ QuietOK)'
    OBVIOUS
  <2>1. ~Crash
    BY DEF Quiet, Crash, Fault
  <2>2. RunsOK'
    BY <2>1, QuietFreesNoStarter, RunsStep
  <2>3. QuietOK'
    BY BootIdleStep, UntapFreeStep, TapsStep DEF QuietOK
  <2> QED BY <2>2, <2>3, NextInvariant
<1>3. RunsOK /\ QuietOK => TapsIntact
  BY DEF RunsOK, UpRuns, QuietOK, UpTaps, TapsIntact, Live
<1> QED BY <1>1, <1>2, <1>3, PTL DEF Spec
-----------------------------------------------------------------------------
(* How many runs are stopped too soon.                                     *)

\* hostctl is not restarted; anything else may go wrong.
NoRestart == "crash" \notin Faults

\* Runs that hold their slot, runs whose job is done, messages that will be
\* delivered (once more), workers about to free a slot, and the faults so far.
Holders   == {u \in Runs : Held(u)}
DoneRuns  == {u \in Runs : job[u] = "done"}
ToDeliver == {m \in stream : m \notin inflight \/ ~Handling(m)}
Freeing   == {w \in Workers : pc[w] \in {"free", "reset"}}
Spent     == MaxFaults - budget.faults

\* Each Free that is still to come is paid for: by a run that holds its slot
\* and has done its job, by one that has lost it before, or by a fault.
FreesPaid ==
    /\ IsFiniteSet(stream)
    /\ issued + Cardinality(ToDeliver) + Cardinality(Freeing)
         <= Cardinality(Holders) + Cardinality(DoneRuns) + Spent

\* A goroutine in StartRunner has the slot of its run; a slot has the cancel
\* function of the run that holds it or of one that has lost it; and a run
\* whose context is cancelled does not hold its slot.
CancelsOwn ==
    /\ \A p \in Procs : Starter(p) => loc[p].slot = run[loc[p].run].slot
    /\ \A i \in Ids : slots[i].cancel # NoRun =>
         /\ slots[i].cancel <= issued
         /\ Held(slots[i].cancel) => slots[i].uid = slots[i].cancel
    /\ \A u \in cancelled : u <= issued /\ ~Held(u)

\* Runs and workers can be counted, and so can stored messages.
LEMMA RunsCounted ==
  ASSUME NEW S \in SUBSET Runs PROVE IsFiniteSet(S) /\ Cardinality(S) \in Nat
<1>1. IsFiniteSet(Runs)
  BY FS_Interval, HostAssumption DEF Runs
<1> QED BY <1>1, FS_Subset, FS_CardinalityType

LEMMA WorkersCounted ==
  ASSUME NEW S \in SUBSET Workers PROVE IsFiniteSet(S) /\ Cardinality(S) \in Nat
BY FS_Subset, FS_CardinalityType, HostAssumption

LEMMA FinitePart ==
  ASSUME NEW S, NEW T \in SUBSET S, IsFiniteSet(S)
  PROVE  /\ IsFiniteSet(T) /\ Cardinality(T) \in Nat /\ Cardinality(S) \in Nat
         /\ Cardinality(T) <= Cardinality(S)
BY FS_Subset, FS_CardinalityType

\* One element more or less.
LEMMA OnePlus ==
  ASSUME NEW S, NEW T, NEW x, IsFiniteSet(S), T \subseteq S \cup {x}
  PROVE  /\ IsFiniteSet(T) /\ Cardinality(T) \in Nat /\ Cardinality(S) \in Nat
         /\ Cardinality(T) <= Cardinality(S) + 1
<1>1. /\ IsFiniteSet(S \cup {x}) /\ Cardinality(S) \in Nat
      /\ Cardinality(S \cup {x}) <= Cardinality(S) + 1
  <2>1. Cardinality(S) \in Nat
    BY FS_CardinalityType
  <2>2. /\ IsFiniteSet(S \cup {x})
        /\ Cardinality(S \cup {x}) =
             IF x \in S THEN Cardinality(S) ELSE Cardinality(S) + 1
    BY FS_AddElement
  <2> QED BY <2>1, <2>2
<1>2. /\ IsFiniteSet(T) /\ Cardinality(T) \in Nat /\ Cardinality(S \cup {x}) \in Nat
      /\ Cardinality(T) <= Cardinality(S \cup {x})
  <2> DEFINE U == S \cup {x}
  <2>1. T \in SUBSET U /\ IsFiniteSet(U)
    BY <1>1
  <2> HIDE DEF U
  <2>2. /\ IsFiniteSet(T) /\ Cardinality(T) \in Nat /\ Cardinality(U) \in Nat
        /\ Cardinality(T) <= Cardinality(U)
    BY <2>1, FinitePart
  <2> QED BY <2>2 DEF U
<1> QED BY <1>1, <1>2

LEMMA OneMinus ==
  ASSUME NEW S, NEW T, NEW x \in S, IsFiniteSet(S), T \subseteq S \ {x}
  PROVE  /\ IsFiniteSet(T) /\ Cardinality(T) \in Nat /\ Cardinality(S) \in Nat
         /\ Cardinality(T) <= Cardinality(S) - 1
<1>1. /\ IsFiniteSet(S \ {x}) /\ Cardinality(S) \in Nat
      /\ Cardinality(S \ {x}) = Cardinality(S) - 1
  BY FS_RemoveElement, FS_CardinalityType
<1>2. /\ IsFiniteSet(T) /\ Cardinality(T) \in Nat
      /\ Cardinality(T) <= Cardinality(S \ {x})
  BY <1>1, FinitePart
<1> QED BY <1>1, <1>2

\* The numbers FreesPaid is about.
LEMMA CountTypes ==
  ASSUME IInv, IsFiniteSet(stream)
  PROVE  /\ IsFiniteSet(ToDeliver) /\ Cardinality(ToDeliver) \in Nat
         /\ IsFiniteSet(Freeing) /\ Cardinality(Freeing) \in Nat
         /\ IsFiniteSet(Holders) /\ Cardinality(Holders) \in Nat
         /\ IsFiniteSet(DoneRuns) /\ Cardinality(DoneRuns) \in Nat
         /\ issued \in Nat /\ budget.faults \in 0 .. MaxFaults /\ Spent \in Nat
<1>1. IsFiniteSet(ToDeliver) /\ Cardinality(ToDeliver) \in Nat
  BY FinitePart DEF ToDeliver
<1>2. IsFiniteSet(Freeing) /\ Cardinality(Freeing) \in Nat
  BY WorkersCounted DEF Freeing
<1>3. /\ IsFiniteSet(Holders) /\ Cardinality(Holders) \in Nat
      /\ IsFiniteSet(DoneRuns) /\ Cardinality(DoneRuns) \in Nat
  BY RunsCounted DEF Holders, DoneRuns
<1>4. issued \in Nat /\ budget.faults \in 0 .. MaxFaults
  BY DEF IInv, TypeOK
<1>5. Spent \in Nat
  BY <1>4, HostAssumption DEF Spent
<1> QED BY <1>1, <1>2, <1>3, <1>4, <1>5

\* A step that adds nothing that will free a slot, takes no slot and no job
\* that was done away, is free.
LEMMA NothingAdded ==
  ASSUME IInv, FreesPaid, IInv', UNCHANGED issued, stream' \subseteq stream,
         ToDeliver' \subseteq ToDeliver, Freeing' \subseteq Freeing,
         Holders \subseteq Holders', DoneRuns \subseteq DoneRuns',
         budget'.faults <= budget.faults
  PROVE  FreesPaid'
<1>1. IsFiniteSet(stream) /\ IsFiniteSet(stream')
  BY FinitePart DEF FreesPaid
<1>2. /\ Cardinality(ToDeliver') <= Cardinality(ToDeliver) /\ Cardinality(ToDeliver') \in Nat
      /\ Cardinality(Freeing') <= Cardinality(Freeing) /\ Cardinality(Freeing') \in Nat
  BY <1>1, CountTypes, FinitePart
<1>3. /\ Cardinality(Holders) <= Cardinality(Holders') /\ Cardinality(Holders') \in Nat
      /\ Cardinality(DoneRuns) <= Cardinality(DoneRuns') /\ Cardinality(DoneRuns') \in Nat
  <2>1. Holders' \in SUBSET Runs /\ DoneRuns' \in SUBSET Runs
    BY DEF Holders, DoneRuns
  <2> QED BY <2>1, RunsCounted, FinitePart
<1>4. budget'.faults \in 0 .. MaxFaults
  BY DEF IInv, TypeOK
<1>5. Spent <= Spent' /\ Spent' \in Nat
  BY <1>1, <1>4, CountTypes, HostAssumption DEF Spent
<1> QED BY <1>1, <1>2, <1>3, <1>5, CountTypes DEF FreesPaid

\* A fault pays for one more delivery.
LEMMA OneDeliveryPaid ==
  ASSUME IInv, FreesPaid, IInv', UNCHANGED <<issued, slots, run, job>>, NEW k, Fault(k),
         NEW x, stream' \subseteq stream \cup {x}, ToDeliver' \subseteq ToDeliver \cup {x},
         Freeing' \subseteq Freeing
  PROVE  FreesPaid'
<1>1. IsFiniteSet(stream) /\ IsFiniteSet(stream')
  BY OnePlus DEF FreesPaid
<1>2. /\ Cardinality(ToDeliver') <= Cardinality(ToDeliver) + 1 /\ Cardinality(ToDeliver') \in Nat
      /\ Cardinality(Freeing') <= Cardinality(Freeing) /\ Cardinality(Freeing') \in Nat
  BY <1>1, CountTypes, OnePlus, FinitePart
<1>3. Holders' = Holders /\ DoneRuns' = DoneRuns
  BY DEF Holders, DoneRuns, Held
<1>4. budget'.faults = budget.faults - 1
  BY DEF Fault, IInv, TypeOK
<1>5. Spent' = Spent + 1 /\ Spent \in Nat
  BY <1>1, <1>4, CountTypes, HostAssumption DEF Spent
<1> QED BY <1>1, <1>2, <1>3, <1>5, CountTypes DEF FreesPaid

\* As long as the workers that handle messages keep them, no message is
\* delivered that was not to be.
LEMMA HandlersKept ==
  ASSUME IInv, stream' \subseteq stream, inflight \cap stream' \subseteq inflight',
         \A w \in Workers : pc[w] \in StopSteps => pc'[w] \in StopSteps /\ loc'[w].msg = loc[w].msg
  PROVE  ToDeliver' \subseteq ToDeliver
BY DEF ToDeliver, Handling

\* The steps of StartRunner free nothing.
LEMMA FreesStart ==
  ASSUME IInv, FreesPaid, IInv', NEW p \in Procs, StartRunner(p) \/ StartFails(p)
  PROVE  FreesPaid'
<1>1. StartFrame(p)
  BY StartRunnerFrame DEF IInv
<1>2. /\ UNCHANGED <<issued, job, stream, inflight>>
      /\ \A i \in Ids : slots'[i].uid = slots[i].uid /\ slots'[i].inUse = slots[i].inUse
      /\ \A u \in Runs : run'[u].slot = run[u].slot
  BY <1>1 DEF StartFrame, envVars
<1>3. /\ pc[p] \in StartSteps /\ pc'[p] \in StartSteps \cup {"take", "next"}
      /\ \A q \in Procs : q # p => pc'[q] = pc[q] /\ loc'[q] = loc[q]
  BY <1>1 DEF StartFrame, IInv, TypeOK
<1>4. ToDeliver' \subseteq ToDeliver
  BY <1>2, <1>3, HandlersKept DEF StartSteps, StopSteps, Procs
<1>5. Freeing' \subseteq Freeing
  BY <1>3 DEF Freeing, StartSteps, Procs
<1>6. Holders \subseteq Holders' /\ DoneRuns \subseteq DoneRuns'
  BY <1>2, RunSlot DEF Holders, DoneRuns, Held
<1>7. budget'.faults <= budget.faults
  <2>1. budget.faults \in Nat
    BY HostAssumption DEF IInv, TypeOK
  <2>2. UNCHANGED budget \/ Fault("start")
    BY DEF StartRunner, MakeDir, CopyRootFS, ArmCancel, ClearTap, AddTap, Configure, Launch,
           StartFails
  <2>3. CASE UNCHANGED budget
    BY <2>1, <2>3
  <2>4. CASE Fault("start")
    <3>1. budget'.faults = budget.faults - 1
      BY <2>4 DEF Fault, IInv, TypeOK
    <3> QED BY <2>1, <3>1
  <2> QED BY <2>2, <2>3, <2>4
<1> QED BY <1>2, <1>4, <1>5, <1>6, <1>7, NothingAdded

\* A new lease is a run more, which holds its slot.
LEMMA FreesNext ==
  ASSUME IInv, FreesPaid, IInv', NEW p \in Procs, NEW i \in Ids, NextSlot(p, i)
  PROVE  FreesPaid'
<1>1. /\ issued + 1 \in Runs /\ issued' = issued + 1 /\ pc[p] = "take" /\ pc'[p] = "mkdir"
      /\ \A q \in Procs : q # p => pc'[q] = pc[q] /\ loc'[q] = loc[q]
      /\ UNCHANGED <<job, stream, inflight, budget>>
  BY NextSlotEffect DEF NextSlot
<1>2. ToDeliver' \subseteq ToDeliver /\ Freeing' \subseteq Freeing
  BY <1>1, HandlersKept DEF StopSteps, Freeing, Procs
<1>3. Holders' = Holders \cup {issued + 1} /\ issued + 1 \notin Holders
  BY <1>1, NextSlotHolders DEF Holders
<1>4. DoneRuns' = DoneRuns /\ Spent' = Spent /\ IsFiniteSet(stream)
  BY <1>1 DEF DoneRuns, Spent, FreesPaid
<1>5. /\ Cardinality(ToDeliver') <= Cardinality(ToDeliver) /\ Cardinality(ToDeliver') \in Nat
      /\ Cardinality(Freeing') <= Cardinality(Freeing) /\ Cardinality(Freeing') \in Nat
  BY <1>2, <1>4, CountTypes, FinitePart
<1>6. Cardinality(Holders') = Cardinality(Holders) + 1
  BY <1>3, <1>4, CountTypes, FS_AddElement
<1> QED BY <1>1, <1>4, <1>5, <1>6, CountTypes DEF FreesPaid

\* A message that is delivered is one that a worker is about to free a slot for.
LEMMA FreesReceive ==
  ASSUME IInv, FreesPaid, IInv', NEW w \in Workers, NEW m \in stream, Receive(w, m)
  PROVE  FreesPaid'
<1>1. /\ pc[w] = "next" /\ pc'[w] = "free" /\ loc'[w].msg = m /\ m \notin inflight
      /\ \A q \in Procs : q # w => pc'[q] = pc[q] /\ loc'[q] = loc[q]
      /\ inflight' = inflight \cup {m}
      /\ UNCHANGED <<slots, issued, run, job, stream, budget>>
  BY DEF Receive, Goto, IInv, TypeOK, Procs, Locals, vmVars
<1>2. ToDeliver' \subseteq ToDeliver
  BY <1>1, HandlersKept DEF StopSteps, Procs
<1>3. m \in ToDeliver /\ m \notin ToDeliver'
  BY <1>1 DEF ToDeliver, Handling, StopSteps
<1>4. Freeing' \subseteq Freeing \cup {w}
  BY <1>1 DEF Freeing, Procs
<1>5. /\ Holders' = Holders /\ DoneRuns' = DoneRuns /\ Spent' = Spent
      /\ IsFiniteSet(stream) /\ IsFiniteSet(stream')
  BY <1>1 DEF Holders, DoneRuns, Held, Spent, FreesPaid
<1>6. /\ Cardinality(ToDeliver') <= Cardinality(ToDeliver) - 1 /\ Cardinality(ToDeliver') \in Nat
      /\ Cardinality(Freeing') <= Cardinality(Freeing) + 1 /\ Cardinality(Freeing') \in Nat
  BY <1>2, <1>3, <1>4, <1>5, CountTypes, OneMinus, OnePlus
<1> QED BY <1>1, <1>5, <1>6, CountTypes DEF FreesPaid

\* Free takes the slot of one run at most.
LEMMA FreesReset ==
  ASSUME IInv, FreesPaid, IInv', NEW p \in Procs, FreeReset(p) PROVE FreesPaid'
<1>1. PICK i \in Ids :
        /\ i = StoppedSlot(p) /\ p \in Workers /\ pc[p] = "reset" /\ pc'[p] = "untap"
        /\ \A q \in Procs : q # p => pc'[q] = pc[q]
        /\ UNCHANGED <<issued, loc, run, job, stream, inflight, budget>>
        /\ \A v \in Runs : Held(v)' <=> Held(v) /\ run[v].slot # i
  BY FreeResetEffect
<1>2. ToDeliver' \subseteq ToDeliver
  BY <1>1, HandlersKept DEF StopSteps, Procs
<1>3. p \in Freeing /\ Freeing' \subseteq Freeing \ {p}
  BY <1>1 DEF Freeing, Procs
<1>4. Holders \subseteq Holders' \cup {slots[i].uid}
  BY <1>1 DEF Holders, Held
<1>5. /\ DoneRuns' = DoneRuns /\ Spent' = Spent /\ Holders' \in SUBSET Runs
      /\ IsFiniteSet(stream) /\ IsFiniteSet(stream')
  BY <1>1 DEF DoneRuns, Holders, Spent, FreesPaid
<1>6. /\ Cardinality(ToDeliver') <= Cardinality(ToDeliver) /\ Cardinality(ToDeliver') \in Nat
      /\ Cardinality(Freeing') <= Cardinality(Freeing) - 1 /\ Cardinality(Freeing') \in Nat
  BY <1>2, <1>3, <1>5, CountTypes, FinitePart, OneMinus
<1>7. Cardinality(Holders) <= Cardinality(Holders') + 1 /\ Cardinality(Holders') \in Nat
  <2>1. IsFiniteSet(Holders')
    BY <1>5, RunsCounted
  <2> QED BY <1>4, <2>1, OnePlus
<1> QED BY <1>1, <1>5, <1>6, <1>7, CountTypes DEF FreesPaid

\* The end of a job brings one message.
LEMMA FreesComplete ==
  ASSUME IInv, FreesPaid, IInv', NEW u \in Runs, Complete(u) PROVE FreesPaid'
<1> DEFINE x == [run |-> u, copy |-> 0]
<1>1. /\ job[u] = "busy" /\ job'[u] = "done" /\ \A v \in Runs : v # u => job'[v] = job[v]
      /\ stream' = stream \cup {x}
      /\ UNCHANGED <<slots, issued, pc, loc, run, inflight, budget>>
  BY DEF Complete, IInv, TypeOK, hostVars, vmVars
<1>2. ToDeliver' \subseteq ToDeliver \cup {x} /\ Freeing' = Freeing
  BY <1>1 DEF ToDeliver, Handling, Freeing
<1>3. DoneRuns' = DoneRuns \cup {u} /\ u \notin DoneRuns
  BY <1>1 DEF DoneRuns
<1>4. Holders' = Holders /\ Spent' = Spent /\ IsFiniteSet(stream)
  BY <1>1 DEF Holders, Held, Spent, FreesPaid
<1>5. IsFiniteSet(stream')
  BY <1>1, <1>4, FS_AddElement
<1>6. Cardinality(ToDeliver') <= Cardinality(ToDeliver) + 1 /\ Cardinality(ToDeliver') \in Nat
  BY <1>2, <1>4, CountTypes, OnePlus
<1>7. Cardinality(DoneRuns') = Cardinality(DoneRuns) + 1
  BY <1>3, <1>4, CountTypes, FS_AddElement
<1> QED BY <1>1, <1>2, <1>4, <1>5, <1>6, <1>7, CountTypes DEF FreesPaid

\* An acknowledgement takes a message away, or fails, which is a fault.
LEMMA FreesAck ==
  ASSUME IInv, FreesPaid, IInv', NEW p \in Procs, Ack(p) PROVE FreesPaid'
<1> DEFINE m == loc[p].msg
<1>1. /\ pc[p] = "ack" /\ pc'[p] = "take"
      /\ \A q \in Procs : q # p => pc'[q] = pc[q] /\ loc'[q] = loc[q]
      /\ UNCHANGED <<slots, issued, run, job>>
  BY DEF Ack, Goto, IInv, TypeOK, vmVars
<1>2. \/ stream' = stream \ {m} /\ inflight' = inflight \ {m} /\ UNCHANGED budget
      \/ Fault("ack") /\ UNCHANGED <<stream, inflight>>
  BY DEF Ack
<1>3. ASSUME NEW n \in ToDeliver', n # m PROVE n \in ToDeliver
  <2>1. Handling(n) => Handling(n)'
    BY <1>1, <1>3 DEF Handling, Procs
  <2> QED BY <1>2, <1>3, <2>1 DEF ToDeliver
<1>4. Freeing' \subseteq Freeing
  BY <1>1 DEF Freeing, Procs
<1>5. CASE stream' = stream \ {m} /\ UNCHANGED budget
  <2>1. ToDeliver' \subseteq ToDeliver
    BY <1>3, <1>5 DEF ToDeliver
  <2>2. Holders' = Holders /\ DoneRuns' = DoneRuns
    BY <1>1 DEF Holders, DoneRuns, Held
  <2>3. budget'.faults <= budget.faults
    BY <1>5, HostAssumption DEF IInv, TypeOK
  <2> QED BY <1>1, <1>4, <1>5, <2>1, <2>2, <2>3, NothingAdded
<1>6. CASE Fault("ack") /\ UNCHANGED <<stream, inflight>>
  <2>1. ToDeliver' \subseteq ToDeliver \cup {m} /\ stream' \subseteq stream \cup {m}
    BY <1>3, <1>6
  <2> QED BY <1>1, <1>4, <1>6, <2>1, OneDeliveryPaid
<1> QED BY <1>2, <1>5, <1>6

\* A message is due again: one that nobody handles was, another takes a fault.
LEMMA FreesExpire ==
  ASSUME IInv, FreesPaid, IInv', NEW m \in inflight, Expire(m) PROVE FreesPaid'
<1>1. /\ inflight' = inflight \ {m} /\ m \in stream
      /\ UNCHANGED <<slots, issued, pc, loc, run, job, stream>>
      /\ IF Handling(m) THEN Fault("slow") ELSE UNCHANGED budget
  BY DEF Expire, hostVars, vmVars, IInv, TypeOK
<1>2. /\ ToDeliver' \subseteq ToDeliver \cup {m} /\ Freeing' \subseteq Freeing
      /\ ~Handling(m) => m \in ToDeliver
      /\ Holders' = Holders /\ DoneRuns' = DoneRuns
  BY <1>1 DEF ToDeliver, Handling, Freeing, Holders, DoneRuns, Held
<1>3. CASE Handling(m)
  BY <1>1, <1>2, <1>3, OneDeliveryPaid
<1>4. CASE ~Handling(m)
  <2>1. budget'.faults <= budget.faults
    BY <1>1, <1>4, HostAssumption DEF IInv, TypeOK
  <2> QED BY <1>1, <1>2, <1>4, <2>1, NothingAdded
<1> QED BY <1>3, <1>4

\* The event that is sent again takes a fault.
LEMMA FreesDuplicate ==
  ASSUME IInv, FreesPaid, IInv', NEW u \in Runs, Duplicate(u) PROVE FreesPaid'
<1> DEFINE x == [run |-> u, copy |-> budget.faults]
<1>1. /\ stream' = stream \cup {x} /\ Fault("dup")
      /\ UNCHANGED <<slots, issued, pc, loc, run, job, inflight>>
  BY DEF Duplicate, hostVars, vmVars
<1>2. ToDeliver' \subseteq ToDeliver \cup {x} /\ Freeing' \subseteq Freeing
  BY <1>1 DEF ToDeliver, Handling, Freeing
<1> HIDE DEF x
<1> QED BY <1>1, <1>2, OneDeliveryPaid

\* All other steps but a restart free nothing and bring nothing that will.
LEMMA FreesOther ==
  ASSUME IInv, FreesPaid, IInv',
         \/ Start
         \/ \E p \in Procs : NoSlot(p) \/ FreeRemove(p) \/ DeleteTap(p)
         \/ \E u \in Runs : PickJob(u) \/ LoseEvent(u) \/ Reap(u) \/ MachineExits(u)
         \/ UNCHANGED vars
  PROVE  FreesPaid'
<1>1. UNCHANGED <<issued, slots>> /\ \A u \in Runs : run'[u].slot = run[u].slot
  BY MachineEffect DEF Start, NoSlot, FreeRemove, DeleteTap, PickJob, LoseEvent, Reap, MachineExits,
         vars, hostVars, vmVars
<1>2. Holders' = Holders
  BY <1>1, RunSlot DEF Holders, Held
<1>3. DoneRuns \subseteq DoneRuns'
  <2>1. ASSUME NEW u \in Runs, PickJob(u) \/ LoseEvent(u) PROVE DoneRuns \subseteq DoneRuns'
    BY <2>1 DEF PickJob, LoseEvent, DoneRuns, IInv, TypeOK
  <2>2. CASE UNCHANGED job
    BY <2>2 DEF DoneRuns
  <2> QED BY <2>1, <2>2 DEF Start, NoSlot, FreeRemove, DeleteTap, Reap, MachineExits, vars, envVars
<1>4. budget'.faults <= budget.faults
  <2>1. budget \in [jobs : 0 .. MaxJobs, faults : 0 .. MaxFaults] /\ budget.faults \in Nat
    BY HostAssumption DEF IInv, TypeOK
  <2>2. ASSUME NEW u \in Runs, PickJob(u) PROVE budget'.faults = budget.faults
    BY <2>1, <2>2 DEF PickJob
  <2>3. ASSUME NEW k, Fault(k) PROVE budget'.faults = budget.faults - 1
    BY <2>1, <2>3 DEF Fault
  <2>4. (\E u \in Runs : PickJob(u)) \/ (\E k : Fault(k)) \/ UNCHANGED budget
    BY DEF Start, NoSlot, FreeRemove, DeleteTap, LoseEvent, Reap, MachineExits, vars
  <2> QED BY <2>1, <2>2, <2>3, <2>4
<1>5. stream' \subseteq stream /\ ToDeliver' \subseteq ToDeliver /\ Freeing' \subseteq Freeing
  <2>1. CASE Start
    <3>1. stream' = {} /\ \A w \in Workers : pc'[w] = "next"
      BY <2>1, HostAssumption DEF Start, Procs
    <3> QED BY <3>1 DEF ToDeliver, Freeing
  <2>2. ASSUME NEW p \in Procs, NoSlot(p) \/ FreeRemove(p) \/ DeleteTap(p)
        PROVE  stream' \subseteq stream /\ ToDeliver' \subseteq ToDeliver /\ Freeing' \subseteq Freeing
    <3>1. /\ \A q \in Procs : q # p => pc'[q] = pc[q] /\ loc'[q] = loc[q]
          /\ \/ pc[p] = "take" /\ pc'[p] \in {"serving", "next"}
             \/ pc[p] = "free" /\ pc'[p] \in {"reset", "untap"} /\ loc'[p] = loc[p]
             \/ pc[p] = "untap" /\ pc'[p] = "ack" /\ loc'[p] = loc[p]
          /\ UNCHANGED <<stream, inflight>>
      BY <2>2 DEF NoSlot, FreeRemove, DeleteTap, Goto, IInv, TypeOK, envVars
    <3>2. ToDeliver' \subseteq ToDeliver
      BY <3>1, HandlersKept DEF StopSteps, Procs
    <3> QED BY <3>1, <3>2 DEF Freeing, Procs
  <2>3. CASE UNCHANGED <<pc, loc, stream, inflight>>
    BY <2>3 DEF ToDeliver, Handling, Freeing
  <2> QED BY <2>1, <2>2, <2>3 DEF PickJob, LoseEvent, Reap, MachineExits, vars, hostVars, envVars
<1> QED BY <1>1, <1>2, <1>3, <1>4, <1>5, NothingAdded

\* Without a restart, every Free to come is paid for.
LEMMA FreesStep ==
  ASSUME NoRestart, IInv, FreesPaid, [Next]_vars PROVE FreesPaid'
<1>1. IInv' /\ ~Crash
  BY NextInvariant DEF NoRestart, Crash, Fault
<1> QED
  BY <1>1, FreesStart, FreesNext, FreesReceive, FreesReset, FreesComplete, FreesAck, FreesExpire,
     FreesDuplicate, FreesOther
  DEF Next, StopRunner, Rest

\* Starts arm the cancel function of their own slot.
LEMMA CancelsStart ==
  ASSUME IInv, CancelsOwn, NEW p \in Procs, StartRunner(p) \/ StartFails(p) PROVE CancelsOwn'
<1> DEFINE u == loc[p].run
           s == loc[p].slot
<1>1. StartFrame(p) /\ Starter(p)
  BY StartRunnerFrame DEF StartFrame, Starter, IInv
<1>2. /\ \A q \in Procs : q # p => pc'[q] = pc[q] /\ loc'[q] = loc[q]
      /\ \A i \in Ids : slots'[i].uid = slots[i].uid /\ slots'[i].inUse = slots[i].inUse
      /\ \A v \in Runs : run'[v].slot = run[v].slot
      /\ UNCHANGED <<issued, cancelled>>
  BY <1>1, StarterStep DEF StartFrame, IInv, TypeOK
<1>3. /\ u \in Runs /\ u \in 1 .. issued /\ s \in Ids /\ s = run[u].slot
      /\ GoesOn(p) \/ Returns(p)
  BY <1>1, StarterRun, StarterStep DEF CancelsOwn
<1>4. \A v \in Runs : Held(v)' <=> Held(v)
  BY <1>2, RunSlot DEF Held
<1>5. ASSUME NEW q \in Procs, Starter(q)' PROVE loc'[q].slot = run'[loc'[q].run].slot
  <2>1. CASE q = p
    <3>1. loc'[p].run = u /\ loc'[p].slot = s
      BY <1>3, <1>5, <2>1 DEF GoesOn, Returns, Starter, StartSteps
    <3> QED BY <1>2, <1>3, <2>1, <3>1
  <2>2. CASE q # p
    <3>1. Starter(q) /\ loc'[q] = loc[q]
      BY <1>2, <1>5, <2>2 DEF Starter
    <3> QED BY <1>2, <3>1, StarterRun DEF CancelsOwn
  <2> QED BY <2>1, <2>2
<1>6. ASSUME NEW i \in Ids, NEW c, c = slots'[i].cancel, c # NoRun
      PROVE  c <= issued' /\ (Held(c)' => slots'[i].uid = c)
  <2>1. CASE c = slots[i].cancel
    <3>1. c \in Runs
      BY <1>6, <2>1, HostAssumption DEF IInv, TypeOK, Instance, Runs, NoRun
    <3> QED BY <1>2, <1>4, <1>6, <2>1, <3>1 DEF CancelsOwn
  <2>2. CASE c # slots[i].cancel
    <3>1. i = s /\ c = u
      BY <1>3, <1>6, <2>2 DEF GoesOn, Returns
    <3>2. Held(u) => slots[s].uid = u
      BY <1>3 DEF Held
    <3> QED BY <1>2, <1>3, <1>4, <3>1, <3>2
  <2> QED BY <2>1, <2>2
<1>7. \A v \in cancelled' : v <= issued' /\ ~Held(v)'
  BY <1>2, <1>4 DEF CancelsOwn, IInv, TypeOK
<1> QED BY <1>5, <1>6, <1>7 DEF CancelsOwn, Held

\* The new lease is of a run whose context nobody has cancelled.
LEMMA CancelsNext ==
  ASSUME IInv, CancelsOwn, NEW p \in Procs, NEW i \in Ids, NextSlot(p, i) PROVE CancelsOwn'
<1> DEFINE n == issued + 1
<1>1. /\ n \in Runs /\ issued' = n /\ issued \in Nat /\ ~slots[i].inUse
      /\ \A j \in Ids : j # i => slots'[j] = slots[j]
      /\ slots'[i].cancel = slots[i].cancel
      /\ \A v \in Runs : v # n => run'[v] = run[v]
      /\ run'[n] = [slot |-> i, drive |-> NoRun, state |-> "starting"]
      /\ loc'[p].slot = i /\ loc'[p].run = n
      /\ \A q \in Procs : q # p => pc'[q] = pc[q] /\ loc'[q] = loc[q]
      /\ UNCHANGED cancelled
  BY NextSlotEffect, HostAssumption DEF IInv, TypeOK
<1>2. ASSUME NEW v \in Runs, v <= issued, Held(v)' PROVE Held(v)
  BY <1>1, <1>2, NextSlotHolders
<1>3. ASSUME NEW q \in Procs, Starter(q)' PROVE loc'[q].slot = run'[loc'[q].run].slot
  <2>1. CASE q = p
    BY <1>1, <2>1
  <2>2. CASE q # p
    <3>1. Starter(q) /\ loc'[q] = loc[q]
      BY <1>1, <1>3, <2>2 DEF Starter
    <3>2. loc[q].run \in Runs /\ loc[q].run # n
      BY <1>1, <3>1, StarterRun
    <3> QED BY <1>1, <3>1, <3>2 DEF CancelsOwn
  <2> QED BY <2>1, <2>2
<1>4. ASSUME NEW v \in Runs, v <= issued PROVE v <= n
  <2>1. v \in Nat /\ issued \in Nat
    BY <1>1, HostAssumption DEF Runs
  <2> QED BY <1>4, <2>1
<1>5. ASSUME NEW j \in Ids, NEW c, c = slots'[j].cancel, c # NoRun
      PROVE  c <= issued' /\ (Held(c)' => slots'[j].uid = c)
  <2>1. c = slots[j].cancel
    BY <1>1, <1>5
  <2>2. c \in Runs /\ c <= issued /\ (Held(c) => slots[j].uid = c)
    BY <1>5, <2>1, HostAssumption DEF CancelsOwn, IInv, TypeOK, Instance, Runs, NoRun
  <2>3. ASSUME Held(c)' PROVE slots'[j].uid = c
    <3>1. slots[j].uid = c
      BY <1>2, <2>2, <2>3
    <3>2. j # i
      BY <1>1, <1>5, <3>1 DEF IInv, PoolConsistent
    <3> QED BY <1>1, <3>1, <3>2
  <2>4. c <= issued'
    BY <1>1, <1>4, <2>2
  <2> QED BY <2>3, <2>4
<1>6. ASSUME NEW v \in cancelled' PROVE v <= issued' /\ ~Held(v)'
  <2>1. v \in Runs /\ v <= issued /\ ~Held(v)
    BY <1>1, <1>6 DEF CancelsOwn, IInv, TypeOK
  <2>2. v <= issued'
    BY <1>1, <1>4, <2>1
  <2> QED BY <1>2, <2>1, <2>2
<1> QED BY <1>3, <1>5, <1>6 DEF CancelsOwn, Held

\* Free cancels the run that it takes the slot from, or one without a slot.
LEMMA CancelsReset ==
  ASSUME IInv, CancelsOwn, NEW p \in Procs, FreeReset(p) PROVE CancelsOwn'
<1>1. PICK i \in Ids :
        /\ slots'[i] = FreeSlot /\ \A j \in Ids : j # i => slots'[j] = slots[j]
        /\ cancelled' = cancelled \cup ({slots[i].cancel} \ {NoRun})
        /\ pc[p] = "reset" /\ pc'[p] = "untap" /\ \A q \in Procs : q # p => pc'[q] = pc[q]
        /\ UNCHANGED <<issued, loc, run>>
        /\ \A v \in Runs : Held(v)' <=> Held(v) /\ run[v].slot # i
  BY FreeResetEffect
<1>2. ASSUME NEW q \in Procs, Starter(q)' PROVE loc'[q].slot = run'[loc'[q].run].slot
  <2>1. Starter(q)
    BY <1>1, <1>2 DEF Starter, StartSteps
  <2> QED BY <1>1, <2>1 DEF CancelsOwn
<1>3. ASSUME NEW j \in Ids, NEW c, c = slots[j].cancel, c # NoRun
      PROVE  c \in Runs /\ c <= issued /\ (Held(c) => slots[j].uid = c)
  BY <1>3, HostAssumption DEF CancelsOwn, IInv, TypeOK, Instance, Runs, NoRun
<1>4. ASSUME NEW j \in Ids, NEW c, c = slots'[j].cancel, c # NoRun
      PROVE  c <= issued' /\ (Held(c)' => slots'[j].uid = c)
  <2>1. j # i /\ slots'[j] = slots[j]
    BY <1>1, <1>4 DEF FreeSlot
  <2> QED BY <1>1, <1>3, <1>4, <2>1
<1>5. ASSUME NEW v \in cancelled' PROVE v <= issued' /\ ~Held(v)'
  <2>1. CASE v \in cancelled
    BY <1>1, <2>1 DEF CancelsOwn, IInv, TypeOK
  <2>2. CASE v \notin cancelled
    <3>1. v = slots[i].cancel /\ v # NoRun
      BY <1>1, <1>5, <2>2
    <3>2. v \in Runs /\ v <= issued /\ (Held(v) => slots[i].uid = v)
      BY <1>3, <3>1
    <3>3. ASSUME Held(v) PROVE run[v].slot = i
      <4>1. slots[i].uid = v /\ slots[i].inUse
        BY <3>1, <3>2, <3>3 DEF IInv, PoolConsistent
      <4> QED BY <4>1 DEF IInv, LeaseMatchesRun
    <3> QED BY <1>1, <3>2, <3>3
  <2> QED BY <2>1, <2>2
<1> QED BY <1>2, <1>4, <1>5 DEF CancelsOwn, Held

\* Without a restart no step cancels a run that goes on holding its slot.
LEMMA CancelsStep ==
  ASSUME NoRestart, IInv, CancelsOwn, [Next]_vars PROVE CancelsOwn'
<1>1. ~Crash
  BY DEF NoRestart, Crash, Fault
<1>2. CASE \E p \in Procs : StartRunner(p) \/ StartFails(p)
  BY <1>2, CancelsStart
<1>3. CASE \E p \in Procs, i \in Ids : NextSlot(p, i)
  BY <1>3, CancelsNext
<1>4. CASE \E p \in Procs : FreeReset(p)
  BY <1>4, CancelsReset
<1>5. CASE \A p \in Procs : /\ ~StartRunner(p) /\ ~StartFails(p) /\ ~FreeReset(p)
                            /\ \A i \in Ids : ~NextSlot(p, i)
  <2>1. \A q \in Procs : Starter(q)' => Starter(q) /\ pc'[q] = pc[q] /\ loc'[q] = loc[q]
    BY <1>1, <1>5, StartersKept
  <2>2. UNCHANGED <<slots, issued, cancelled>> /\ \A v \in Runs : run'[v].slot = run[v].slot
    BY <1>1, <1>5, MachineEffect
    DEF Next, Rest, Start, NoSlot, StopRunner, FreeRemove, DeleteTap, Ack, Receive, PickJob,
        Complete, LoseEvent, Duplicate, Expire, Reap, MachineExits, vars, hostVars, vmVars
  <2>3. \A v \in Runs : Held(v)' <=> Held(v)
    BY <2>2 DEF Held
  <2>4. \A p \in Procs : Starter(p)' => loc'[p].slot = run'[loc'[p].run].slot
    BY <2>1, <2>2, StarterRun DEF CancelsOwn
  <2>5. \A i \in Ids : slots[i].cancel # NoRun => slots[i].cancel \in Runs
    BY HostAssumption DEF IInv, TypeOK, Instance, Runs, NoRun
  <2>6. cancelled \subseteq Runs
    BY DEF IInv, TypeOK
  <2> QED BY <2>2, <2>3, <2>4, <2>5, <2>6 DEF CancelsOwn
<1> QED BY <1>2, <1>3, <1>4, <1>5

\* A run that holds its slot though its job is done has a message that will be
\* delivered, or is handled by a worker about to free that slot.
LEMMA DoneHoldersCounted ==
  ASSUME IInv, IsFiniteSet(stream)
  PROVE  Cardinality(Holders \cap DoneRuns) <= Cardinality(ToDeliver) + Cardinality(Freeing)
<1> DEFINE A == {u \in Runs : \E m \in ToDeliver : m.run = u}
           B == {u \in Runs : \E w \in Freeing : loc[w].msg.run = u}
<1>1. ASSUME NEW u \in Holders \cap DoneRuns PROVE u \in A \cup B
  <2>1. u \in Runs /\ Leased(u) /\ job[u] = "done"
    BY <1>1, RunSlot DEF Holders, DoneRuns, Held, Leased
  <2>2. PICK m \in stream : m.run = u
    BY <2>1 DEF IInv, CompletionNotForgotten
  <2>3. CASE m \in ToDeliver
    BY <2>1, <2>2, <2>3
  <2>4. CASE m \notin ToDeliver
    <3>1. PICK w \in Workers : pc[w] \in StopSteps /\ loc[w].msg = m
      BY <2>4 DEF ToDeliver, Handling
    <3>2. pc[w] \notin {"untap", "ack"}
      BY <2>1, <2>2, <3>1 DEF IInv, FreedBeforeAck
    <3> QED BY <2>1, <2>2, <3>1, <3>2 DEF Freeing, StopSteps
  <2> QED BY <2>3, <2>4
<1>2. /\ IsFiniteSet(A) /\ IsFiniteSet(B) /\ Cardinality(A) \in Nat /\ Cardinality(B) \in Nat
      /\ IsFiniteSet(A \cup B) /\ Cardinality(A \cup B) \in Nat
      /\ IsFiniteSet(A \cap B) /\ Cardinality(A \cap B) \in Nat
  <2>1. A \in SUBSET Runs /\ B \in SUBSET Runs /\ A \cup B \in SUBSET Runs /\ A \cap B \in SUBSET Runs
    OBVIOUS
  <2> HIDE DEF A, B
  <2> QED BY <2>1, RunsCounted
<1>3. Cardinality(A) <= Cardinality(ToDeliver)
  <2> DEFINE D == {m \in ToDeliver : m.run \in Runs}
             f == [m \in D |-> m.run]
  <2>1. f \in Surjection(D, A)
    BY DEF Surjection
  <2>2. IsFiniteSet(D) /\ Cardinality(D) <= Cardinality(ToDeliver) /\ Cardinality(D) \in Nat
    BY CountTypes, FinitePart
  <2> HIDE DEF f, D, A
  <2>3. Cardinality(A) <= Cardinality(D)
    BY <2>1, <2>2, FS_Surjection
  <2> QED BY <1>2, <2>2, <2>3, CountTypes
<1>4. Cardinality(B) <= Cardinality(Freeing)
  <2> DEFINE D == {w \in Freeing : loc[w].msg.run \in Runs}
             f == [w \in D |-> loc[w].msg.run]
  <2>1. f \in Surjection(D, B)
    BY DEF Surjection
  <2>2. IsFiniteSet(D) /\ Cardinality(D) <= Cardinality(Freeing) /\ Cardinality(D) \in Nat
    BY CountTypes, FinitePart
  <2> HIDE DEF f, D, B
  <2>3. Cardinality(B) <= Cardinality(D)
    BY <2>1, <2>2, FS_Surjection
  <2> QED BY <1>2, <2>2, <2>3, CountTypes
<1>5. Holders \cap DoneRuns \in SUBSET (A \cup B)
  BY <1>1
<1> HIDE DEF A, B
<1>6. Cardinality(A \cup B) = Cardinality(A) + Cardinality(B) - Cardinality(A \cap B)
  BY <1>2, FS_Union
<1>7. /\ Cardinality(Holders \cap DoneRuns) <= Cardinality(A \cup B)
      /\ Cardinality(Holders \cap DoneRuns) \in Nat
  BY <1>2, <1>5, FinitePart
<1> QED BY <1>2, <1>3, <1>4, <1>6, <1>7, CountTypes

\* The runs that were stopped too soon are begun, hold no slot and have not
\* done their job: there are no more of these than the sum leaves.
LEMMA StopsCounted == IInv /\ FreesPaid /\ CancelsOwn => OneStopPerFault
<1> SUFFICES ASSUME IInv, FreesPaid, CancelsOwn PROVE OneStopPerFault
  OBVIOUS
<1> DEFINE T == StoppedTooSoon
           U == Holders \cup DoneRuns
           V == Holders \cap DoneRuns
<1>1. /\ T \in SUBSET Runs /\ U \in SUBSET Runs /\ V \in SUBSET Runs
      /\ T \cup U \subseteq 1 .. issued /\ T \cap U = {}
  <2>1. cancelled \subseteq Runs /\ issued \in Nat
    BY DEF IInv, TypeOK
  <2>2. \A u \in Holders : u <= issued
    BY RunSlot DEF Holders, Held, IInv, LeaseMatchesRun
  <2>3. \A u \in DoneRuns : u <= issued
    BY <2>1 DEF DoneRuns, Runs, IInv, JobsOfBegunRuns
  <2>4. T \subseteq cancelled /\ T \cap DoneRuns = {} /\ Holders \subseteq Runs /\ DoneRuns \subseteq Runs
    BY DEF StoppedTooSoon, Holders, DoneRuns
  <2>5. T \cap Holders = {}
    BY <2>4 DEF Holders, CancelsOwn
  <2>6. \A u \in T : u <= issued
    BY <2>4 DEF CancelsOwn
  <2>7. ASSUME NEW u \in Runs, u <= issued PROVE u \in 1 .. issued
    BY <2>1, <2>7, HostAssumption DEF Runs
  <2> HIDE DEF T
  <2>8. \A u \in T \cup U : u \in 1 .. issued
    BY <2>1, <2>2, <2>3, <2>4, <2>6, <2>7
  <2> QED BY <2>1, <2>4, <2>5, <2>8
<1>2. /\ IsFiniteSet(T) /\ Cardinality(T) \in Nat /\ IsFiniteSet(U) /\ Cardinality(U) \in Nat
      /\ Cardinality(V) \in Nat
  BY <1>1, RunsCounted
<1>3. Cardinality(T) + Cardinality(U) <= issued
  <2> HIDE DEF T, U
  <2>1. Cardinality(T \cup U) = Cardinality(T) + Cardinality(U) - Cardinality(T \cap U)
    BY <1>2, FS_Union
  <2>2. Cardinality(T \cap U) = 0
    BY <1>1, FS_EmptySet
  <2>3. issued \in Nat
    BY DEF IInv, TypeOK
  <2>4. IsFiniteSet(1 .. issued) /\ Cardinality(1 .. issued) = issued
    BY <2>3, FS_Interval
  <2>5. Cardinality(T \cup U) <= issued
    BY <1>1, <2>4, FinitePart
  <2> QED BY <1>2, <2>1, <2>2, <2>3, <2>5
<1>4. Cardinality(U) = Cardinality(Holders) + Cardinality(DoneRuns) - Cardinality(V)
  BY CountTypes, FS_Union DEF FreesPaid
<1>5. Cardinality(V) <= Cardinality(ToDeliver) + Cardinality(Freeing)
  BY DoneHoldersCounted DEF FreesPaid
<1> HIDE DEF T, U, V
<1>6. Cardinality(T) <= Spent
  BY <1>2, <1>3, <1>4, <1>5, CountTypes DEF FreesPaid
<1> QED BY <1>6 DEF T, OneStopPerFault, Spent

\* Nothing is counted at first.
LEMMA FreesInit == Init => FreesPaid /\ CancelsOwn
<1> SUFFICES ASSUME Init PROVE FreesPaid /\ CancelsOwn
  OBVIOUS
<1>1. /\ ToDeliver = {} /\ Freeing = {} /\ stream = {} /\ issued = 0 /\ Spent = 0
      /\ \A i \in Ids : slots[i] = FreeSlot
  BY HostAssumption DEF Init, ToDeliver, Freeing, Spent, Procs
<1>2. IsFiniteSet(Holders) /\ IsFiniteSet(DoneRuns)
  BY RunsCounted DEF Holders, DoneRuns
<1>3. Cardinality(Holders) \in Nat /\ Cardinality(DoneRuns) \in Nat
  BY <1>2, FS_CardinalityType
<1>4. FreesPaid
  BY <1>1, <1>3, FS_EmptySet DEF FreesPaid
<1>5. CancelsOwn
  BY <1>1 DEF Init, CancelsOwn, Starter, StartSteps, FreeSlot
<1> QED BY <1>4, <1>5

\* Without a restart, no more runs lose their slots before their jobs are done
\* than there were faults, however often the event of one that did stops the
\* next run in its slot.
THEOREM StopsBounded == ASSUME NoRestart PROVE Spec => []OneStopPerFault
<1>1. IInv /\ FreesPaid /\ CancelsOwn /\ [Next]_vars => (IInv /\ FreesPaid /\ CancelsOwn)'
  BY NextInvariant, FreesStep, CancelsStep
<1> QED BY <1>1, InitInvariant, FreesInit, StopsCounted, PTL DEF Spec
=============================================================================

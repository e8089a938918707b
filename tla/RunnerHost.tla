----------------------------- MODULE RunnerHost -----------------------------
(***************************************************************************)
(* The host controller: `hostctl` with the firecracker provider on one     *)
(* machine.  The main goroutine (Manager.Start, RunVMs) and the workers of *)
(* ProcessCompletedJobs share the table of slots.  Next and Free take its  *)
(* mutex; StartRunner reads and writes the slot it was given without it.   *)
(* Every action below is one such access, one device or file operation, or *)
(* one exchange with NATS.                                                 *)
(*                                                                         *)
(* A run is one call of StartRunner, named by the lease Next issued for    *)
(* it.  The names of the runner (host-slot), of the two tap devices and of *)
(* the completed event carry only the slot number; the working directory   *)
(* carries the lease (UID).                                                *)
(***************************************************************************)
EXTENDS Naturals, FiniteSets

CONSTANTS NumInstances,  \* DefaultOptions.NumInstances
          Workers,       \* goroutines the semaphore admits (numWorkers)
          Main,          \* the goroutine of Manager.Start
          MaxRuns,       \* bound on the leases Next hands out
          MaxJobs,       \* bound on the jobs the runners take
          Faults,        \* the kinds of fault that may happen ...
          MaxFaults,     \* ... and a bound on how many do
          BootQuiet      \* TRUE: no job is taken before RunVMs has returned

FaultKinds == {"start", "exit", "lose", "dup", "ack", "slow", "crash"}

ASSUME HostAssumption ==
    /\ NumInstances \in Nat \ {0}
    /\ IsFiniteSet(Workers) /\ Main \notin Workers
    /\ MaxRuns \in Nat
    /\ MaxJobs \in Nat
    /\ Faults \subseteq FaultKinds
    /\ MaxFaults \in Nat
    /\ BootQuiet \in BOOLEAN

Ids   == 0 .. NumInstances - 1
Runs  == 1 .. MaxRuns
NoRun == 0
Procs == Workers \cup {Main}

\* A completed event names the slot only; run and copy are for the model.
Messages == [run : Runs, copy : 0 .. MaxFaults]

VARIABLES
    slots,      \* Instances.slots: uid, inUse and the cancel function's run
    issued,     \* leases handed out so far
    pc, loc,    \* what each goroutine does next, and its local variables
    run,        \* of each run: its slot, the drive it boots from, its state
    cancelled,  \* runs whose context has been cancelled
    disk,       \* /tmp/fc/<uid>: absent, made, or holding vm.rootfs
    tap,        \* the tap devices of each slot: the run that made them
    job,        \* the job GitHub gave the runner of each run
    stream,     \* messages of this host stored in gha_completed
    inflight,   \* those delivered and neither acknowledged nor timed out
    budget      \* jobs and faults that may still happen

hostVars == <<slots, issued, pc, loc>>
vmVars   == <<run, cancelled, disk, tap>>
envVars  == <<job, stream, inflight>>
vars     == <<hostVars, vmVars, envVars, budget>>

FreeSlot == [uid |-> NoRun, inUse |-> FALSE, cancel |-> NoRun]
NoMsg    == [run |-> NoRun, copy |-> 0]
IdleLoc  == [slot |-> 0, run |-> NoRun, path |-> NoRun, msg |-> NoMsg]
NeverRun == [slot |-> 0, drive |-> NoRun, state |-> "none"]

StartSteps == {"mkdir", "copy", "arm", "tapclear", "tapadd", "config", "launch"}
StopSteps  == {"free", "reset", "untap", "ack"}
Labels     == StartSteps \cup StopSteps \cup {"start", "off", "next", "take", "serving"}

\* The mutex of the slot table is held between the two halves of Free.
Locked == \E p \in Procs : pc[p] = "reset"

Fault(k) == /\ k \in Faults /\ budget.faults > 0
            /\ budget' = [budget EXCEPT !.faults = @ - 1]

Goto(p, label) == pc' = [pc EXCEPT ![p] = label]

\* Mutation: NewInstances makes one slot too many.
InitOneSlotMore ==
    /\ slots = [i \in 0 .. NumInstances |-> FreeSlot]
    /\ issued = 0
    /\ pc = [p \in Procs |-> IF p = Main THEN "start" ELSE "off"]
    /\ loc = [p \in Procs |-> IdleLoc]
    /\ run = [u \in Runs |-> NeverRun]
    /\ cancelled = {}
    /\ disk = [u \in 0 .. MaxRuns |-> "none"]
    /\ tap = [i \in Ids |-> NoRun]
    /\ job = [u \in Runs |-> "none"]
    /\ stream = {}
    /\ inflight = {}
    /\ budget = [jobs |-> MaxJobs, faults |-> MaxFaults]

Init ==
    /\ slots = [i \in Ids |-> FreeSlot]
    /\ issued = 0
    /\ pc = [p \in Procs |-> IF p = Main THEN "start" ELSE "off"]
    /\ loc = [p \in Procs |-> IdleLoc]
    /\ run = [u \in Runs |-> NeverRun]
    /\ cancelled = {}
    /\ disk = [u \in 0 .. MaxRuns |-> "none"]
    /\ tap = [i \in Ids |-> NoRun]
    /\ job = [u \in Runs |-> "none"]
    /\ stream = {}
    /\ inflight = {}
    /\ budget = [jobs |-> MaxJobs, faults |-> MaxFaults]

-----------------------------------------------------------------------------
(* Manager.Start and the slot table.                                       *)

\* Start: purge the completed messages of this host, create the consumer and
\* its workers, and go on to RunVMs.
Start ==
    /\ pc[Main] = "start"
    /\ stream' = {}
    /\ inflight' = {}
    /\ pc' = [p \in Procs |-> IF p = Main THEN "take" ELSE "next"]
    /\ UNCHANGED <<slots, issued, loc, vmVars, job, budget>>

FirstFree(i) == /\ ~slots[i].inUse
                /\ \A j \in Ids : j < i => slots[j].inUse

\* Mutation: the UID is made from the slot number, the same for every lease.
NextSlotSameUID(p, i) ==
    /\ pc[p] = "take"
    /\ ~Locked
    /\ FirstFree(i)
    /\ issued < MaxRuns
    /\ issued' = issued + 1
    /\ slots' = [slots EXCEPT ![i].uid = i + 1, ![i].inUse = TRUE]
    /\ run' = [run EXCEPT ![issued + 1] =
                 [slot |-> i, drive |-> NoRun, state |-> "starting"]]
    /\ loc' = [loc EXCEPT ![p] = [slot |-> i, run |-> issued + 1,
                                  path |-> NoRun, msg |-> NoMsg]]
    /\ Goto(p, "mkdir")
    /\ UNCHANGED <<cancelled, disk, tap, envVars, budget>>

\* Instances.Next finds a free slot and leases it under a new UID.  The run
\* that StartRunner begins with it is recorded under that lease.
NextSlot(p, i) ==
    /\ pc[p] = "take"
    /\ ~Locked
    /\ FirstFree(i)
    /\ issued < MaxRuns
    /\ issued' = issued + 1
    /\ slots' = [slots EXCEPT ![i].uid = issued + 1, ![i].inUse = TRUE]
    /\ run' = [run EXCEPT ![issued + 1] =
                 [slot |-> i, drive |-> NoRun, state |-> "starting"]]
    /\ loc' = [loc EXCEPT ![p] = [slot |-> i, run |-> issued + 1,
                                  path |-> NoRun, msg |-> NoMsg]]
    /\ Goto(p, "mkdir")
    /\ UNCHANGED <<cancelled, disk, tap, envVars, budget>>

\* Next finds none: RunVMs returns, or the worker takes the next message.
NoSlot(p) ==
    /\ pc[p] = "take"
    /\ ~Locked
    /\ \A i \in Ids : slots[i].inUse
    /\ loc' = [loc EXCEPT ![p] = IdleLoc]
    /\ Goto(p, IF p = Main THEN "serving" ELSE "next")
    /\ UNCHANGED <<slots, issued, vmVars, envVars, budget>>

-----------------------------------------------------------------------------
(* StartRunner and createVM.                                               *)

\* Mutation: RunVMs returns after the first runner.
ReturnAfterFirst(p) == /\ loc' = [loc EXCEPT ![p] = IdleLoc]
                       /\ Goto(p, IF p = Main THEN "serving" ELSE "next")

\* StartRunner returns: RunVMs asks for another slot, a worker is done.
Return(p) == /\ loc' = [loc EXCEPT ![p] = IdleLoc]
             /\ Goto(p, IF p = Main THEN "take" ELSE "next")

\* StartRunner returns an error, which its callers only log: the slot stays
\* in use, and what was made so far stays behind.
Fail(p) == /\ run' = [run EXCEPT ![loc[p].run].state = "failed"]
           /\ Return(p)

\* The working directory is named after the UID the slot has now.
MakeDir(p) ==
    /\ pc[p] = "mkdir"
    /\ LET uid == slots[loc[p].slot].uid IN
         /\ loc' = [loc EXCEPT ![p].path = uid]
         /\ disk' = [disk EXCEPT ![uid] = IF @ = "none" THEN "dir" ELSE @]
    /\ Goto(p, "copy")
    /\ UNCHANGED <<slots, issued, run, cancelled, tap, envVars, budget>>

\* cp (or the rename of a prepared copy) needs the directory to be there.
CopyRootFS(p) ==
    /\ pc[p] = "copy"
    /\ IF disk[loc[p].path] = "none"
       THEN Fail(p) /\ UNCHANGED disk
       ELSE /\ disk' = [disk EXCEPT ![loc[p].path] = "rootfs"]
            /\ Goto(p, "arm")
            /\ UNCHANGED <<loc, run>>
    /\ UNCHANGED <<slots, issued, cancelled, tap, envVars, budget>>

\* ins.cancel = cancel, without the mutex.
ArmCancel(p) ==
    /\ pc[p] = "arm"
    /\ slots' = [slots EXCEPT ![loc[p].slot].cancel = loc[p].run]
    /\ Goto(p, "tapclear")
    /\ UNCHANGED <<issued, loc, vmVars, envVars, budget>>

\* Tap devices of the slot's names left by an earlier run are deleted first.
\* (createVM and StopRunner treat fc<4i+1> and fc<4i+2> alike, one right after
\* the other: here they are one device per slot.)
ClearTap(p) ==
    /\ pc[p] = "tapclear"
    /\ tap' = [tap EXCEPT ![loc[p].slot] = NoRun]
    /\ Goto(p, "tapadd")
    /\ UNCHANGED <<slots, issued, loc, run, cancelled, disk, envVars, budget>>

\* CreateTap fails when the device exists.
AddTap(p) ==
    /\ pc[p] = "tapadd"
    /\ IF tap[loc[p].slot] # NoRun
       THEN Fail(p) /\ UNCHANGED tap
       ELSE /\ tap' = [tap EXCEPT ![loc[p].slot] = loc[p].run]
            /\ Goto(p, "config")
            /\ UNCHANGED <<loc, run>>
    /\ UNCHANGED <<slots, issued, cancelled, disk, envVars, budget>>

\* createNewConfig reads the UID of the slot again for the root drive.
Configure(p) ==
    /\ pc[p] = "config"
    /\ run' = [run EXCEPT ![loc[p].run].drive = slots[loc[p].slot].uid]
    /\ Goto(p, "launch")
    /\ UNCHANGED <<slots, issued, loc, cancelled, disk, tap, envVars, budget>>

\* Machine.Start: needs a context that is not cancelled and a root drive.
Launch(p) ==
    /\ pc[p] = "launch"
    /\ LET u == loc[p].run IN
         IF u \in cancelled \/ disk[run[u].drive] # "rootfs"
         THEN Fail(p)
         ELSE /\ run' = [run EXCEPT ![u].state = "up"]
              /\ Return(p)
    /\ UNCHANGED <<slots, issued, cancelled, disk, tap, envVars, budget>>

\* Any other error on the way: no space, no route, iptables, the SDK.
StartFails(p) ==
    /\ pc[p] \in StartSteps
    /\ Fault("start")
    /\ Fail(p)
    /\ UNCHANGED <<slots, issued, cancelled, disk, tap, envVars>>

StartRunner(p) ==
    \/ MakeDir(p) \/ CopyRootFS(p) \/ ArmCancel(p) \/ ClearTap(p)
    \/ AddTap(p) \/ Configure(p) \/ Launch(p)

-----------------------------------------------------------------------------
(* ProcessCompletedJobs and StopRunner.                                    *)

\* Mutation: the message is acknowledged when it is delivered.
ReceiveAndAck(w, m) ==
    /\ pc[w] = "next"
    /\ m \in stream \ inflight
    /\ stream' = stream \ {m}
    /\ loc' = [loc EXCEPT ![w].msg = m]
    /\ Goto(w, "free")
    /\ UNCHANGED <<slots, issued, vmVars, job, inflight, budget>>

\* iter.Next hands the worker one message of the stream.
Receive(w, m) ==
    /\ pc[w] = "next"
    /\ m \in stream \ inflight
    /\ inflight' = inflight \cup {m}
    /\ loc' = [loc EXCEPT ![w].msg = m]
    /\ Goto(w, "free")
    /\ UNCHANGED <<slots, issued, vmVars, job, stream, budget>>

\* Mutation: runner names count from one, slots from zero.
StoppedSlotOffByOne(p) == (run[loc[p].msg.run].slot + 1) % NumInstances

\* The slot is the number that ends the runner's name.
StoppedSlot(p) == run[loc[p].msg.run].slot

\* RemoveAll of the directory of uid; without a UID that is /tmp/fc itself.
RemoveAll(uid) ==
    disk' = [u \in 0 .. MaxRuns |-> IF uid \in {NoRun, u} THEN "none" ELSE disk[u]]

\* Mutation: Free does not look whether the slot is in use.
FreeRemoveUnchecked(p) ==
    /\ pc[p] = "free"
    /\ ~Locked
    /\ RemoveAll(slots[StoppedSlot(p)].uid)
    /\ Goto(p, "reset")
    /\ UNCHANGED <<slots, issued, loc, run, cancelled, tap, envVars, budget>>

\* Mutation: the test of InUse is inverted.
FreeRemoveInverted(p) ==
    /\ pc[p] = "free"
    /\ ~Locked
    /\ LET i == StoppedSlot(p) IN
         IF slots[i].inUse
         THEN UNCHANGED disk /\ Goto(p, "untap")
         ELSE RemoveAll(slots[i].uid) /\ Goto(p, "reset")
    /\ UNCHANGED <<slots, issued, loc, run, cancelled, tap, envVars, budget>>

\* Mutation: Free clears the UID before it works out the directory.
FreeRemoveAfterReset(p) ==
    /\ pc[p] = "free"
    /\ ~Locked
    /\ LET i == StoppedSlot(p) IN
         IF slots[i].inUse
         THEN RemoveAll(NoRun) /\ Goto(p, "reset")
         ELSE UNCHANGED disk /\ Goto(p, "untap")
    /\ UNCHANGED <<slots, issued, loc, run, cancelled, tap, envVars, budget>>

\* Instances.Free, first half: takes the mutex and, if the slot is in use,
\* removes the working directory.
FreeRemove(p) ==
    /\ pc[p] = "free"
    /\ ~Locked
    /\ LET i == StoppedSlot(p) IN
         IF slots[i].inUse
         THEN RemoveAll(slots[i].uid) /\ Goto(p, "reset")
         ELSE UNCHANGED disk /\ Goto(p, "untap")
    /\ UNCHANGED <<slots, issued, loc, run, cancelled, tap, envVars, budget>>

\* Mutation: Free does not cancel the context of the run.
FreeResetNoCancel(p) ==
    /\ pc[p] = "reset"
    /\ slots' = [slots EXCEPT ![StoppedSlot(p)] = FreeSlot]
    /\ Goto(p, "untap")
    /\ UNCHANGED <<issued, loc, run, cancelled, disk, tap, envVars, budget>>

\* Second half: clears the slot, cancels the context, releases the mutex.
FreeReset(p) ==
    /\ pc[p] = "reset"
    /\ LET i == StoppedSlot(p) IN
         /\ cancelled' = cancelled \cup ({slots[i].cancel} \ {NoRun})
         /\ slots' = [slots EXCEPT ![i] = FreeSlot]
    /\ Goto(p, "untap")
    /\ UNCHANGED <<issued, loc, run, disk, tap, envVars, budget>>

\* Mutation: the device's name is made from the wrong slot number.
DeleteTapOffByOne(p) ==
    /\ pc[p] = "untap"
    /\ tap' = [tap EXCEPT ![(StoppedSlot(p) + 1) % NumInstances] = NoRun]
    /\ Goto(p, "ack")
    /\ UNCHANGED <<slots, issued, loc, run, cancelled, disk, envVars, budget>>

\* TapDelete; its errors are ignored.
DeleteTap(p) ==
    /\ pc[p] = "untap"
    /\ tap' = [tap EXCEPT ![StoppedSlot(p)] = NoRun]
    /\ Goto(p, "ack")
    /\ UNCHANGED <<slots, issued, loc, run, cancelled, disk, envVars, budget>>

\* Mutation: the worker returns when the acknowledgement fails.
AckErrorReturns(p) ==
    /\ pc[p] = "ack"
    /\ \/ /\ stream' = stream \ {loc[p].msg}
          /\ inflight' = inflight \ {loc[p].msg}
          /\ Goto(p, "take")
          /\ UNCHANGED budget
       \/ /\ Fault("ack")
          /\ Goto(p, "next")
          /\ UNCHANGED <<stream, inflight>>
    /\ loc' = [loc EXCEPT ![p] = IdleLoc]
    /\ UNCHANGED <<slots, issued, vmVars, job>>

\* Mutation: the message is not acknowledged at all.
AckNothing(p) ==
    /\ pc[p] = "ack"
    /\ loc' = [loc EXCEPT ![p] = IdleLoc]
    /\ Goto(p, "take")
    /\ UNCHANGED <<slots, issued, vmVars, envVars, budget>>

\* DoubleAck removes the message from the work queue.  An error is only
\* logged: either way the worker goes on to ask for a slot.
Ack(p) ==
    /\ pc[p] = "ack"
    /\ \/ /\ stream' = stream \ {loc[p].msg}
          /\ inflight' = inflight \ {loc[p].msg}
          /\ UNCHANGED budget
       \/ /\ Fault("ack")
          /\ UNCHANGED <<stream, inflight>>
    /\ loc' = [loc EXCEPT ![p] = IdleLoc]
    /\ Goto(p, "take")
    /\ UNCHANGED <<slots, issued, vmVars, job>>

StopRunner(p) == FreeRemove(p) \/ FreeReset(p) \/ DeleteTap(p) \/ Ack(p)

-----------------------------------------------------------------------------
(* The machines, GitHub and NATS.                                          *)

Networked(u) == tap[run[u].slot] = u

\* The guest's wait-for-job finds a job and its runner registers for it.
PickJob(u) ==
    /\ run[u].state = "up" /\ u \notin cancelled /\ Networked(u)
    /\ job[u] = "none"
    /\ BootQuiet => pc[Main] = "serving"
    /\ budget.jobs > 0
    /\ budget' = [budget EXCEPT !.jobs = @ - 1]
    /\ job' = [job EXCEPT ![u] = "busy"]
    /\ UNCHANGED <<hostVars, vmVars, stream, inflight>>

\* GitHub reports the job completed, because the runner finished it or
\* because the runner was lost, and the webhook stores the event.
Complete(u) ==
    /\ job[u] = "busy"
    /\ job' = [job EXCEPT ![u] = "done"]
    /\ stream' = stream \cup {[run |-> u, copy |-> 0]}
    /\ UNCHANGED <<hostVars, vmVars, inflight, budget>>

\* The webhook cannot store the event; GitHub does not send it again.
LoseEvent(u) ==
    /\ job[u] = "busy"
    /\ Fault("lose")
    /\ job' = [job EXCEPT ![u] = "lost"]
    /\ UNCHANGED <<hostVars, vmVars, stream, inflight>>

\* The event is sent to the webhook, and so stored, once more.
Duplicate(u) ==
    /\ job[u] = "done"
    /\ Fault("dup")
    /\ stream' = stream \cup {[run |-> u, copy |-> budget.faults]}
    /\ UNCHANGED <<hostVars, vmVars, job, inflight>>

Handling(m) == \E w \in Workers : pc[w] \in StopSteps /\ loc[w].msg = m

\* The acknowledgement is overdue and the server will deliver m again.
Expire(m) ==
    /\ m \in inflight
    /\ IF Handling(m) THEN Fault("slow") ELSE UNCHANGED budget
    /\ inflight' = inflight \ {m}
    /\ UNCHANGED <<hostVars, vmVars, job, stream>>

\* A cancelled context kills the firecracker process of the run.
Reap(u) ==
    /\ run[u].state = "up" /\ u \in cancelled
    /\ run' = [run EXCEPT ![u].state = "dead"]
    /\ UNCHANGED <<hostVars, cancelled, disk, tap, envVars, budget>>

\* The machine stops on its own; nobody tells the slot table.
MachineExits(u) ==
    /\ run[u].state = "up" /\ u \notin cancelled
    /\ Fault("exit")
    /\ run' = [run EXCEPT ![u].state = "dead"]
    /\ UNCHANGED <<hostVars, cancelled, disk, tap, envVars>>

\* hostctl dies and systemd restarts it: its memory and the machines are
\* gone; files, tap devices and stored messages stay.
Crash ==
    /\ pc[Main] # "start"
    /\ Fault("crash")
    /\ slots' = [i \in Ids |-> FreeSlot]
    /\ pc' = [p \in Procs |-> IF p = Main THEN "start" ELSE "off"]
    /\ loc' = [p \in Procs |-> IdleLoc]
    /\ run' = [u \in Runs |-> IF run[u].state \in {"starting", "up"}
                              THEN [run[u] EXCEPT !.state = "dead"] ELSE run[u]]
    /\ UNCHANGED <<issued, cancelled, disk, tap, envVars>>

-----------------------------------------------------------------------------
\* Everything that has begun is finished, and only the machines and GitHub can
\* still act if the budget lets them; or the bound on leases stops a caller
\* of Next.
AtRest ==
    \/ /\ pc[Main] = "serving"
       /\ \A w \in Workers : pc[w] = "next"
       /\ stream = {}
    \/ issued = MaxRuns /\ \E p \in Procs : pc[p] = "take"

Rest == AtRest /\ UNCHANGED vars

Next ==
    \/ Start
    \/ \E p \in Procs : \/ \E i \in Ids : NextSlot(p, i)
                        \/ NoSlot(p)
                        \/ StartRunner(p)
                        \/ StartFails(p)
                        \/ StopRunner(p)
    \/ \E w \in Workers, m \in stream : Receive(w, m)
    \/ \E u \in Runs : \/ PickJob(u) \/ Complete(u) \/ LoseEvent(u)
                       \/ Duplicate(u) \/ Reap(u) \/ MachineExits(u)
    \/ \E m \in inflight : Expire(m)
    \/ Crash
    \/ Rest

Spec == Init /\ [][Next]_vars

\* The Go scheduler runs every goroutine that can run, systemd restarts the
\* process, a cancelled context kills the machine, GitHub ends every job, and
\* NATS delivers again what no worker of this process will acknowledge.
Fairness ==
    /\ WF_vars(Start)
    /\ \A p \in Procs :
         WF_vars(StartRunner(p) \/ StopRunner(p) \/ NoSlot(p)
                 \/ \E i \in Ids : NextSlot(p, i))
    /\ \A w \in Workers : WF_vars(\E m \in stream : Receive(w, m))
    /\ WF_vars(\E u \in Runs : Complete(u))
    /\ WF_vars(\E u \in Runs : Reap(u))
    /\ WF_vars(\E m \in inflight : ~Handling(m) /\ Expire(m))

FairSpec == Spec /\ Fairness

-----------------------------------------------------------------------------
(* Properties that hold whatever goes wrong.                               *)

Instance  == [uid : 0 .. MaxRuns, inUse : BOOLEAN, cancel : 0 .. MaxRuns]
Locals    == [slot : Ids, run : 0 .. MaxRuns, path : 0 .. MaxRuns,
              msg : Messages \cup {NoMsg}]
RunRecord == [slot : Ids, drive : 0 .. MaxRuns,
              state : {"none", "starting", "up", "failed", "dead"}]

TypeOK ==
    /\ slots \in [Ids -> Instance]
    /\ issued \in 0 .. MaxRuns
    /\ pc \in [Procs -> Labels]
    /\ loc \in [Procs -> Locals]
    /\ run \in [Runs -> RunRecord]
    /\ cancelled \subseteq Runs
    /\ disk \in [0 .. MaxRuns -> {"none", "dir", "rootfs"}]
    /\ tap \in [Ids -> 0 .. MaxRuns]
    /\ job \in [Runs -> {"none", "busy", "done", "lost"}]
    /\ stream \subseteq Messages
    /\ inflight \subseteq stream
    /\ budget \in [jobs : 0 .. MaxJobs, faults : 0 .. MaxFaults]

Leased(u) == \E i \in Ids : slots[i].inUse /\ slots[i].uid = u

\* The slot table is a SlotPool: whichever goroutines call Next and Free, and
\* across restarts, Next gives out free slots only, each time under a UID no
\* run ever had, and only Free and a restart take a lease back.
Pool == INSTANCE SlotPool WITH holder <- [i \in Ids |-> slots[i].uid]
PoolRefinement == Pool!Spec

\* Handling a completed event removes the working directory of the run that
\* holds the named slot at that moment, and nothing else under /tmp/fc.
RemovesOneWorkdir ==
    [][\A u \in 0 .. MaxRuns :
         disk[u] # "none" /\ disk'[u] = "none" =>
           \E w \in Workers :
             /\ pc[w] = "free" /\ pc'[w] # "free"
             /\ Leased(u) /\ slots[StoppedSlot(w)].uid = u]_vars

\* A slot whose runner has completed its job is never forgotten: as long as
\* the slot is held for that runner, a message that will free it is stored,
\* through failed acknowledgements, redelivery, the purge of Start and restarts.
CompletionNotForgotten ==
    \A u \in Runs :
      Leased(u) /\ job[u] = "done" => \E m \in stream : m.run = u

\* Once RunVMs has filled the host, a free slot is one that some worker is
\* about to ask for: no order of failures leaves a slot free and unattended.
FreeSlotsAreAttended ==
    pc[Main] = "serving" =>
      Cardinality({i \in Ids : ~slots[i].inUse})
        <= Cardinality({w \in Workers : pc[w] \in {"untap", "ack", "take"}})

(* What the proofs of these properties rest on: with TypeOK, an inductive  *)
(* invariant (module RunnerHostProofs).                                    *)

\* Main handles no messages; a worker that does has one, and a goroutine in
\* StartRunner has a run that was issued a lease.
RolesOK ==
    /\ pc[Main] \notin StopSteps
    /\ \A p \in Procs :
         /\ pc[p] \in StopSteps => loc[p].msg \in Messages
         /\ pc[p] \in StartSteps => loc[p].run \in 1 .. issued

\* A slot is in use exactly while it has a UID: both change under the mutex.
PoolConsistent == \A i \in Ids : slots[i].inUse <=> slots[i].uid # NoRun

\* Before Start has created the workers nothing is leased and nobody else runs.
StartIsAlone ==
    pc[Main] = "start" =>
      /\ \A w \in Workers : pc[w] = "off"
      /\ \A i \in Ids : ~slots[i].inUse

\* A lease that is held was issued, for the slot its run is recorded under.
LeaseMatchesRun ==
    \A i \in Ids : slots[i].inUse =>
      slots[i].uid <= issued /\ run[slots[i].uid].slot = i

\* Only runs that have begun have jobs, and only their events are about.
JobsOfBegunRuns ==
    /\ \A u \in Runs : u > issued => run[u].state = "none" /\ job[u] = "none"
    /\ \A m \in stream : m.run <= issued
    /\ \A p \in Procs : pc[p] \in StopSteps => loc[p].msg.run <= issued

\* After Free the run named by the message does not hold its slot any more.
FreedBeforeAck ==
    \A w \in Workers :
      pc[w] \in {"untap", "ack"} => ~Leased(loc[w].msg.run)

IInv ==
    /\ TypeOK /\ RolesOK /\ PoolConsistent /\ StartIsAlone
    /\ LeaseMatchesRun /\ JobsOfBegunRuns /\ FreedBeforeAck
    /\ CompletionNotForgotten

(* Properties that need every completed event to be stored and handled     *)
(* once: no duplicate, no failed or late acknowledgement, no restart.      *)

\* Free cancels the context of a run only after its own job is done: the
\* slot number in the runner's name still means the runner that had the job.
NoUndeservedKill == \A u \in cancelled : job[u] = "done"

Live(u) == run[u].state = "up" /\ u \notin cancelled

\* A machine that runs can be stopped: its slot is held under its lease and
\* its cancel function is the one Free will call.
NoOrphan ==
    \A u \in Runs : Live(u) =>
      LET s == slots[run[u].slot] IN s.inUse /\ s.uid = u /\ s.cancel = u

\* A machine keeps the root drive made for it until its job is over, though
\* StartRunner reads the UID twice without the mutex.
OwnDisk ==
    \A u \in Runs : Live(u) /\ job[u] # "done" =>
      run[u].drive = u /\ disk[u] = "rootfs"

\* A machine keeps its tap devices.  TapDelete runs after the slot is
\* free again and outside the mutex, so this needs one worker, and a RunVMs
\* that has returned before the first runner completes a job.
TapsIntact == \A u \in Runs : Live(u) => Networked(u)

(* A property that needs hostctl not to restart.                           *)

\* The runs that Free stopped though their job was not done: the slot number
\* of a message meant them, its event did not.
StoppedTooSoon == {u \in cancelled : job[u] # "done"}

\* An event that is handled once more than its job was done stops the next
\* machine in the slot, and that machine's own event the one after it.  The
\* harm moves along the slot but does not grow: at any time no more jobs are
\* cut off than events were doubled, acknowledged in vain or handled late.
OneStopPerFault == Cardinality(StoppedTooSoon) <= MaxFaults - budget.faults

(* Liveness.                                                               *)

\* A slot whose runner has completed its job is given back.
SlotReturned ==
    \A u \in Runs : (Leased(u) /\ job[u] = "done") ~> ~Leased(u)

\* A free slot is filled again: by the worker that freed it, or by RunVMs.
SlotRefilled == \A i \in Ids : ~slots[i].inUse ~> slots[i].inUse
=============================================================================

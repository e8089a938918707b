--------------------------- MODULE PipelineProofs ---------------------------
(***************************************************************************)
(* Proofs about the fleet, for every set of hosts, of jobs and of labels   *)
(* the jobs ask for, and every number of disruptions.                      *)
(***************************************************************************)
EXTENDS Pipeline, SequenceTheorems, FiniteSetTheorems, TLAPS

\* A job has a runner's name from its assignment on, and a queued event none.
Unassigned ==
    /\ \A j \in Jobs : job[j].state \in {"new", "waiting", "cancelled"} => job[j].runner = NoName
    /\ \A e \in events : e.action = "queued" => e.name = NoName

\* Jobs are stored under their one label.
QueueOfLabel ==
    \A l \in Labels : \A i \in 1 .. Len(queue[l]) :
      Len(LabelsOf[queue[l][i]]) = 1 /\ LabelsOf[queue[l][i]][1] = l

\* A running job has a VM, and has it alone.
RunningBusy ==
    \A j \in Jobs : job[j].state = "running" =>
      /\ \E s \in Slots : job[j].runner = RunnerName[s] /\ vm[s].state = "busy"
      /\ \A k \in Jobs : job[k].state = "running" /\ job[k].runner = job[j].runner => k = j

\* What reports a runner finished, on its way to the webhook or stored, is
\* right about it ...
EventsDone ==
    \A e \in events : e.name # NoName =>
      \E s \in Slots : e.name = RunnerName[s] /\ vm[s].state = "done"

MessagesDone ==
    \A m \in completed :
      \E s \in Slots : m.host = s[1] /\ m.name = RunnerName[s] /\ vm[s].state = "done"

\* ... and says so once.
ReportedOnce ==
    /\ \A e, f \in events : e.name = f.name /\ e.name # NoName => e = f
    /\ \A m, n \in completed : m.name = n.name => m = n
    /\ \A e \in events, m \in completed : e.name # m.name

FleetOK ==
    /\ Unassigned /\ QueueOfLabel /\ RunningBusy
    /\ EventsDone /\ MessagesDone /\ ReportedOnce

\* Each loss was a disruption.
LostPaid == \A k \in Kinds : lost[k] + budget <= MaxDisruptions

IInv == TypeOK /\ FleetOK /\ LostPaid

-----------------------------------------------------------------------------
(* Names.                                                                  *)

\* A number joined to a host name can be cut off again.
LEMMA AppendFacts ==
  ASSUME NEW h \in Hosts, NEW x
  PROVE  /\ Front(Append(h, x)) = h /\ Last(Append(h, x)) = x
         /\ Len(Append(h, x)) >= 2
<1> DEFINE T == STRING \cup {x}
<1>1. h \in Seq(T) /\ x \in T /\ Len(h) \in Nat \ {0} /\ h # <<>>
  BY PipelineAssumption
<1>2. /\ Append(h, x) \in Seq(T) /\ Len(Append(h, x)) = Len(h) + 1
      /\ Append(h, x)[Len(h) + 1] = x
      /\ \A i \in 1 .. Len(h) : Append(h, x)[i] = h[i]
  BY <1>1
<1>3. Front(Append(h, x)) = SubSeq(Append(h, x), 1, Len(h))
  BY <1>1, <1>2 DEF Front
<1>4. SubSeq(Append(h, x), 1, Len(h)) = h
  BY <1>1, <1>2
<1> QED BY <1>1, <1>2, <1>3, <1>4 DEF Last

\* A slot is a host and a number below 100.
LEMMA SlotParts ==
  ASSUME NEW s \in Slots
  PROVE  s[1] \in Hosts /\ s[2] \in Numbers /\ s = <<s[1], s[2]>>
<1>1. PICK h \in Hosts : s \in {h} \X (0 .. Instances[h] - 1)
  BY DEF Slots
<1>2. Instances[h] \in 0 .. 100
  BY PipelineAssumption
<1> QED BY <1>1, <1>2 DEF Numbers

\* The host and the number of a runner's name are those of its slot, and no
\* runner has the empty name.
LEMMA NameParts ==
  ASSUME NEW s \in Slots
  PROVE  /\ HostOf(RunnerName[s]) = s[1]
         /\ InstanceOf(RunnerName[s]) = s[2]
         /\ RunnerName[s] # NoName /\ RunnerName[s] \in Names
<1>1. /\ RunnerName[s] = Append(s[1], ToString(s[2]))
      /\ s[1] \in Hosts /\ s[2] \in Numbers
  BY SlotParts DEF RunnerName
<1>2. HostOf(RunnerName[s]) = s[1]
  BY <1>1, AppendFacts DEF HostOf
<1>3. Last(RunnerName[s]) = ToString(s[2])
  BY <1>1, AppendFacts
<1>4. InstanceOf(RunnerName[s]) = s[2]
  BY <1>1, <1>3, DecimalAssumption DEF InstanceOf
<1>5. RunnerName[s] # NoName
  <2>1. Len(NoName) = 1
    BY DEF NoName
  <2>2. Len(RunnerName[s]) >= 2
    BY <1>1, AppendFacts
  <2>3. ASSUME RunnerName[s] = NoName PROVE FALSE
    <3>1. Len(RunnerName[s]) = 1
      BY <2>1, <2>3
    <3> QED BY <2>2, <3>1
  <2> QED BY <2>3
<1> QED BY <1>2, <1>4, <1>5 DEF Names

\* Two VMs of the fleet never have the same runner name.
LEMMA NamesDistinct ==
  ASSUME NEW s \in Slots, NEW t \in Slots, RunnerName[s] = RunnerName[t] PROVE s = t
BY NameParts, SlotParts

\* The missing name leaves no host.
LEMMA NoNameHost == HostOf(NoName) = <<>> /\ NoName \in Names
<1>1. ASSUME NEW x PROVE Front(<<x>>) = <<>>
  <2>1. Front(<<x>>) = SubSeq(<<x>>, 1, 0)
    BY DEF Front
  <2>2. <<x>> \in Seq({x})
    OBVIOUS
  <2> QED BY <2>1, <2>2, EmptySeq, SubSeqProperties
<1> QED BY <1>1 DEF HostOf, NoName, Names

-----------------------------------------------------------------------------
(* Types.                                                                  *)

JobRecord == [state : {"new", "waiting", "running", "finished", "cancelled"}, runner : Names]
Calls     == [action : {"queued", "completed"}, job : Jobs, name : Names]
Stored    == [host : Hosts, name : Names, job : Jobs]
VMRecord  == [state : {"waiting", "idle", "busy", "done", "gone"},
              repo : {RepoOf[j] : j \in Jobs} \cup {None}, label : Labels \cup {None}]

\* TypeOK with its sets of records named.
LEMMA Types ==
  TypeOK <=>
    /\ job \in [Jobs -> JobRecord] /\ events \subseteq Calls /\ queue \in [Labels -> Seq(Jobs)]
    /\ completed \subseteq Stored /\ vm \in [Slots -> VMRecord] /\ budget \in 0 .. MaxDisruptions
    /\ lost \in [Kinds -> 0 .. MaxDisruptions]
BY DEF TypeOK, JobRecord, Calls, Stored, VMRecord

\* What the webhook stores has the host of a slot and the name of its runner.
LEMMA StoredName ==
  ASSUME NEW n \in Names, Accepts(HostOf(n))
  PROVE  HostOf(n) \in Hosts /\ \E s \in Slots : n = RunnerName[s] /\ HostOf(n) = s[1]
<1>1. n # NoName
  BY NoNameHost DEF Accepts
<1>2. PICK s \in Slots : n = RunnerName[s]
  BY <1>1 DEF Names
<1> QED BY <1>2, NameParts, SlotParts

\* A disruption keeps the budget in its range, and pays for what it loses.
LEMMA DisruptType ==
  ASSUME IInv, Disrupt, UNCHANGED lost \/ \E k : Loses(k)
  PROVE  /\ budget' \in 0 .. MaxDisruptions
         /\ lost' \in [Kinds -> 0 .. MaxDisruptions] /\ LostPaid'
<1>1. /\ budget \in Nat \ {0} /\ budget <= MaxDisruptions /\ MaxDisruptions \in Nat
      /\ budget' = budget - 1
      /\ lost \in [Kinds -> 0 .. MaxDisruptions] /\ \A k \in Kinds : lost[k] + budget <= MaxDisruptions
  BY PipelineAssumption DEF Disrupt, IInv, TypeOK, LostPaid
<1>2. lost' \in [Kinds -> Nat] /\ \A k \in Kinds : lost'[k] = lost[k] \/ lost'[k] = lost[k] + 1
  <2>1. CASE UNCHANGED lost
    BY <1>1, <2>1
  <2>2. ASSUME NEW k, Loses(k)
        PROVE  /\ lost' \in [Kinds -> Nat]
               /\ \A m \in Kinds : lost'[m] = lost[m] \/ lost'[m] = lost[m] + 1
    <3>1. lost' = [lost EXCEPT ![k] = @ + 1]
      BY <2>2 DEF Loses
    <3>2. CASE k \in Kinds
      <4>1. lost[k] + 1 \in Nat
        BY <1>1, <3>2
      <4> QED BY <1>1, <3>1, <3>2, <4>1
    <3>3. CASE k \notin Kinds
      <4>1. lost' = lost
        BY <1>1, <3>1, <3>3
      <4> QED BY <1>1, <4>1
    <3> QED BY <3>2, <3>3
  <2> QED BY <2>1, <2>2
<1>3. \A k \in Kinds : lost'[k] \in 0 .. MaxDisruptions /\ lost'[k] + budget' <= MaxDisruptions
  BY <1>1, <1>2
<1> QED BY <1>1, <1>2, <1>3 DEF LostPaid

\* What the tail of a stored queue is.
LEMMA TailFacts ==
  ASSUME NEW q \in Seq(Jobs), q # <<>>
  PROVE  /\ Len(Tail(q)) = Len(q) - 1 /\ Len(q) \in Nat \ {0}
         /\ \A i \in 1 .. Len(Tail(q)) : Tail(q)[i] = q[i + 1]
BY HeadTailProperties

\* What a VM takes, and from where.
LEMMA TakesEffect ==
  ASSUME IInv, NEW l \in Labels, Takes(l)
  PROVE  /\ l \in {"f0", "firecracker"}
         /\ queue[l] \in Seq(Jobs) /\ queue[l] # <<>> /\ Head(queue[l]) \in Jobs
         /\ Len(LabelsOf[Head(queue[l])]) = 1 /\ LabelsOf[Head(queue[l])][1] = l
         /\ queue' = [queue EXCEPT ![l] = Tail(@)]
<1>1. /\ \E k \in DOMAIN Order : l = Order[k]
      /\ queue[l] # <<>> /\ queue' = [queue EXCEPT ![l] = Tail(@)]
  BY DEF Takes
<1>2. l \in {"f0", "firecracker"}
  BY <1>1 DEF Order
<1>3. queue[l] \in Seq(Jobs)
  BY DEF IInv, TypeOK
<1>4. Head(queue[l]) = queue[l][1] /\ Head(queue[l]) \in Jobs /\ 1 \in 1 .. Len(queue[l])
  BY <1>1, <1>3
<1>5. Len(LabelsOf[Head(queue[l])]) = 1 /\ LabelsOf[Head(queue[l])][1] = l
  BY <1>4 DEF IInv, FleetOK, QueueOfLabel
<1> QED BY <1>1, <1>2, <1>3, <1>4, <1>5

\* Taking a job off a queue keeps the types of what is stored.
LEMMA TakesType ==
  ASSUME IInv, NEW l \in Labels, Takes(l) PROVE queue' \in [Labels -> Seq(Jobs)]
<1>1. queue[l] \in Seq(Jobs) /\ queue[l] # <<>> /\ queue' = [queue EXCEPT ![l] = Tail(@)]
  BY TakesEffect
<1>2. Tail(queue[l]) \in Seq(Jobs) /\ queue \in [Labels -> Seq(Jobs)]
  BY <1>1, Types DEF IInv
<1> QED BY <1>1, <1>2

\* Every step keeps the types, and what is lost is paid for.
LEMMA TypeStep == ASSUME IInv, [Next]_vars PROVE TypeOK' /\ LostPaid'
<1> DEFINE Type == /\ job' \in [Jobs -> JobRecord] /\ events' \subseteq Calls
                   /\ queue' \in [Labels -> Seq(Jobs)] /\ completed' \subseteq Stored
                   /\ vm' \in [Slots -> VMRecord] /\ budget' \in 0 .. MaxDisruptions
                   /\ lost' \in [Kinds -> 0 .. MaxDisruptions] /\ LostPaid'
<1> SUFFICES Type
  BY DEF TypeOK, JobRecord, Calls, Stored, VMRecord
<1>0. /\ job \in [Jobs -> JobRecord] /\ events \subseteq Calls /\ queue \in [Labels -> Seq(Jobs)]
      /\ completed \subseteq Stored /\ vm \in [Slots -> VMRecord]
      /\ budget \in 0 .. MaxDisruptions /\ lost \in [Kinds -> 0 .. MaxDisruptions] /\ LostPaid
  BY Types DEF IInv
<1>00. UNCHANGED <<budget, lost>> => LostPaid'
  BY <1>0 DEF LostPaid
<1>1. ASSUME NEW e \in events, Deliver(e) PROVE Type
  <2>1. e \in Calls /\ UNCHANGED <<job, vm, budget, lost>> /\ events' \subseteq events
    BY <1>0, <1>1 DEF Deliver
  <2>2. queue' \in [Labels -> Seq(Jobs)]
    <3>1. CASE e.action = "queued" /\ RunsOnSelfHosted(e.job)
      <4>1. PICK l \in Labels : l = LabelsOf[e.job][1]
        BY <3>1 DEF RunsOnSelfHosted
      <4>2. queue' = [queue EXCEPT ![l] = Append(@, e.job)] /\ e.job \in Jobs
        BY <1>1, <2>1, <3>1, <4>1 DEF Deliver, Calls
      <4>3. Append(queue[l], e.job) \in Seq(Jobs)
        BY <1>0, <4>2, AppendProperties
      <4> QED BY <1>0, <4>2, <4>3
    <3> QED BY <1>0, <1>1, <3>1 DEF Deliver
  <2>3. completed' \subseteq Stored
    <3>1. CASE Accepts(HostOf(e.name))
      <4>1. HostOf(e.name) \in Hosts /\ e.name \in Names /\ e.job \in Jobs
        BY <2>1, <3>1, StoredName DEF Calls
      <4>2. [host |-> HostOf(e.name), name |-> e.name, job |-> e.job] \in Stored
        BY <4>1 DEF Stored
      <4> QED BY <1>0, <1>1, <4>2 DEF Deliver
    <3> QED BY <1>0, <1>1, <3>1 DEF Deliver
  <2> QED BY <1>0, <1>00, <2>1, <2>2, <2>3
<1>2. ASSUME NEW e \in events, Lose(e) PROVE Type
  <2>1. /\ Disrupt /\ UNCHANGED <<job, queue, completed, vm>> /\ events' \subseteq events
        /\ UNCHANGED lost \/ \E k : Loses(k)
    BY <1>2 DEF Lose
  <2> QED BY <1>0, <2>1, DisruptType
<1>3. ASSUME NEW m \in completed, Replace(m) PROVE Type
  <2>1. Waiting \in VMRecord
    BY DEF Waiting, VMRecord
  <2>2. /\ vm' = [vm EXCEPT ![<<m.host, InstanceOf(m.name)>>] = Waiting]
        /\ UNCHANGED <<job, events, queue, budget, lost>> /\ completed' \subseteq completed
    BY <1>3 DEF Replace, Restarted
  <2> QED BY <1>0, <1>00, <2>1, <2>2
<1>4. ASSUME NEW s \in Slots, Pick(s) PROVE Type
  <2>1. PICK l \in Labels : Takes(l) /\ vm' = [vm EXCEPT ![s] = Registration(Head(queue[l]))]
    BY <1>4 DEF Pick
  <2>2. Registration(Head(queue[l])) \in VMRecord
    BY <2>1, TakesEffect DEF Registration, VMRecord, Labels
  <2>3. vm' \in [Slots -> VMRecord]
    BY <1>0, <2>1, <2>2
  <2>4. UNCHANGED <<job, events, completed, budget, lost>>
    BY <1>4 DEF Pick
  <2> QED BY <1>0, <1>00, <2>1, <2>3, <2>4, TakesType
<1>5. ASSUME NEW s \in Slots, Exit(s) PROVE Type
  <2>1. /\ vm' = [vm EXCEPT ![s].state = "gone"] /\ UNCHANGED <<job, events, queue, completed>>
        /\ Disrupt /\ (UNCHANGED lost \/ \E k : Loses(k))
    BY <1>5 DEF Exit
  <2>2. vm' \in [Slots -> VMRecord]
    BY <1>0, <2>1 DEF VMRecord
  <2> QED BY <1>0, <2>1, <2>2, DisruptType
<1>11. ASSUME NEW s \in Slots, Forget(s) PROVE Type
  <2>1. PICK l \in Labels : Takes(l) /\ Loses(KindOf(Head(queue[l])))
    BY <1>11 DEF Forget
  <2>2. UNCHANGED <<job, events, completed, vm>> /\ Disrupt
    BY <1>11 DEF Forget
  <2> QED BY <1>0, <2>1, <2>2, TakesType, DisruptType
<1>6. ASSUME NEW s \in Slots, NEW j \in Jobs, Assign(j, s) PROVE Type
  <2>1. /\ vm' = [vm EXCEPT ![s].state = "busy"] /\ UNCHANGED <<events, queue, completed, budget, lost>>
        /\ job' = [job EXCEPT ![j] = [state |-> "running", runner |-> RunnerName[s]]]
    BY <1>6 DEF Assign
  <2>2. vm' \in [Slots -> VMRecord]
    BY <1>0, <2>1 DEF VMRecord
  <2>3. [state |-> "running", runner |-> RunnerName[s]] \in JobRecord
    BY NameParts DEF JobRecord
  <2> QED BY <1>0, <1>00, <2>1, <2>2, <2>3
<1>7. ASSUME NEW s \in Slots, NEW j \in Jobs, Finish(j, s) PROVE Type
  <2>1. /\ vm' = [vm EXCEPT ![s].state = "done"] /\ UNCHANGED <<queue, completed, budget, lost>>
        /\ job' = [job EXCEPT ![j].state = "finished"]
        /\ events' = events \cup {Event("completed", j)}
    BY <1>7 DEF Finish
  <2>2. vm' \in [Slots -> VMRecord] /\ job' \in [Jobs -> JobRecord]
    BY <1>0, <2>1 DEF VMRecord, JobRecord
  <2>3. Event("completed", j) \in Calls
    BY <1>0 DEF Event, Calls, JobRecord
  <2> QED BY <1>0, <1>00, <2>1, <2>2, <2>3
<1>8. ASSUME NEW j \in Jobs, Queue(j) \/ Cancel(j) PROVE Type
  <2>1. /\ UNCHANGED <<queue, completed, vm, lost>> /\ (UNCHANGED budget \/ Disrupt)
        /\ \E st \in {"waiting", "cancelled"} : job' = [job EXCEPT ![j].state = st]
        /\ \E a \in {"queued", "completed"} : events' = events \cup {Event(a, j)}
    BY <1>8 DEF Queue, Cancel
  <2>2. job' \in [Jobs -> JobRecord]
    BY <1>0, <2>1 DEF JobRecord
  <2>3. \A a \in {"queued", "completed"} : Event(a, j) \in Calls
    BY <1>0 DEF Event, Calls, JobRecord
  <2>4. budget' \in 0 .. MaxDisruptions /\ LostPaid'
    BY <1>0, <1>00, <2>1, DisruptType
  <2> QED BY <1>0, <2>1, <2>2, <2>3, <2>4
<1>9. ASSUME NEW j \in Jobs, Redeliver(j) PROVE Type
  <2>1. [action |-> "queued", job |-> j, name |-> NoName] \in Calls
    BY NoNameHost DEF Calls
  <2> QED BY <1>0, <1>9, <2>1, DisruptType DEF Redeliver
<1>10. CASE UNCHANGED vars
  BY <1>0, <1>00, <1>10 DEF vars
<1> QED BY <1>1, <1>2, <1>3, <1>4, <1>5, <1>6, <1>7, <1>8, <1>9, <1>10, <1>11 DEF Next, Rest

-----------------------------------------------------------------------------
(* The invariant.                                                          *)

\* The fleet starts in the invariant.
LEMMA InitInvariant == Init => IInv
<1> SUFFICES ASSUME Init PROVE IInv
  OBVIOUS
<1>1. TypeOK
  <2>1. Waiting \in VMRecord
    BY DEF Waiting, VMRecord
  <2>2. <<>> \in Seq(Jobs) /\ NoName \in Names
    BY NoNameHost
  <2>3. MaxDisruptions \in Nat /\ 0 \in 0 .. MaxDisruptions /\ MaxDisruptions \in 0 .. MaxDisruptions
    BY PipelineAssumption
  <2> QED BY <2>1, <2>2, <2>3, Types DEF Init, JobRecord
<1>2. Unassigned /\ RunningBusy
  BY DEF Init, Unassigned, RunningBusy
<1>3. QueueOfLabel
  BY DEF Init, QueueOfLabel
<1>4. EventsDone /\ MessagesDone /\ ReportedOnce
  BY DEF Init, EventsDone, MessagesDone, ReportedOnce
<1>5. LostPaid
  BY PipelineAssumption DEF Init, LostPaid
<1> QED BY <1>1, <1>2, <1>3, <1>4, <1>5 DEF IInv, FleetOK

\* A delivered event becomes a message that is as right as it was, and is gone.
LEMMA DeliverInvariant == ASSUME IInv, NEW e \in events, Deliver(e) PROVE FleetOK'
<1> USE DEF IInv, FleetOK
<1>1. /\ events' = events \ {e} /\ UNCHANGED <<job, vm>> /\ e \in Calls /\ events \subseteq Calls
  BY Types DEF Deliver
<1>2. Unassigned' /\ RunningBusy' /\ EventsDone'
  BY <1>1 DEF Unassigned, RunningBusy, EventsDone
<1>3. QueueOfLabel'
  <2>1. CASE e.action = "queued" /\ RunsOnSelfHosted(e.job)
    <3>1. PICK l \in Labels : l = LabelsOf[e.job][1]
      BY <2>1 DEF RunsOnSelfHosted
    <3>2. queue' = [queue EXCEPT ![l] = Append(@, e.job)] /\ e.job \in Jobs
      BY <1>1, <2>1, <3>1 DEF Deliver, Calls
    <3>3. queue \in [Labels -> Seq(Jobs)] /\ queue[l] \in Seq(Jobs) /\ Len(queue[l]) \in Nat
      BY Types
    <3>4. /\ queue'[l] = Append(queue[l], e.job)
          /\ \A k \in Labels : k # l => queue'[k] = queue[k]
      BY <3>2, <3>3
    <3>5. /\ Len(queue'[l]) = Len(queue[l]) + 1 /\ queue'[l][Len(queue[l]) + 1] = e.job
          /\ \A i \in 1 .. Len(queue[l]) : queue'[l][i] = queue[l][i]
      BY <3>2, <3>3, <3>4, AppendProperties
    <3>6. Len(LabelsOf[e.job]) = 1 /\ LabelsOf[e.job][1] = l
      BY <2>1, <3>1 DEF RunsOnSelfHosted
    <3>7. ASSUME NEW i \in 1 .. Len(queue'[l])
          PROVE  Len(LabelsOf[queue'[l][i]]) = 1 /\ LabelsOf[queue'[l][i]][1] = l
      BY <3>3, <3>5, <3>6 DEF QueueOfLabel
    <3>8. ASSUME NEW k \in Labels, k # l, NEW i \in 1 .. Len(queue'[k])
          PROVE  Len(LabelsOf[queue'[k][i]]) = 1 /\ LabelsOf[queue'[k][i]][1] = k
      <4>1. queue'[k] = queue[k]
        BY <3>4, <3>8
      <4> QED BY <3>8, <4>1 DEF QueueOfLabel
    <3> QED BY <3>7, <3>8 DEF QueueOfLabel
  <2>2. CASE ~(e.action = "queued" /\ RunsOnSelfHosted(e.job))
    <3>1. UNCHANGED queue
      BY <2>2 DEF Deliver
    <3> QED BY <3>1 DEF QueueOfLabel
  <2> QED BY <2>1, <2>2
<1>4. CASE UNCHANGED completed
  BY <1>1, <1>2, <1>3, <1>4 DEF FleetOK, MessagesDone, ReportedOnce
<1>5. CASE ~UNCHANGED completed
  <2> DEFINE m == [host |-> HostOf(e.name), name |-> e.name, job |-> e.job]
  <2>1. Accepts(HostOf(e.name)) /\ completed' = completed \cup {m}
    BY <1>5 DEF Deliver
  <2>2. PICK s \in Slots : e.name = RunnerName[s] /\ HostOf(e.name) = s[1]
    BY <1>1, <2>1, StoredName DEF Calls
  <2>3. PICK t \in Slots : e.name = RunnerName[t] /\ vm[t].state = "done"
    BY <2>2, NameParts DEF EventsDone
  <2>4. s = t
    BY <2>2, <2>3, NamesDistinct
  <2>5. MessagesDone'
    BY <1>1, <2>1, <2>2, <2>3, <2>4 DEF MessagesDone
  <2>6. e.name # NoName
    BY <2>2, NameParts
  <2>7. ReportedOnce'
    BY <1>1, <2>1, <2>6 DEF ReportedOnce
  <2> QED BY <1>2, <1>3, <2>5, <2>7 DEF FleetOK
<1> QED BY <1>4, <1>5

\* A lost event leaves one report less.
LEMMA LoseInvariant == ASSUME IInv, NEW e \in events, Lose(e) PROVE FleetOK'
<1>1. events' \subseteq events /\ UNCHANGED <<job, queue, completed, vm>>
  BY DEF Lose
<1> QED BY <1>1
  DEF IInv, FleetOK, Unassigned, QueueOfLabel, RunningBusy, EventsDone, MessagesDone, ReportedOnce

\* The VM a message names is replaced, and no other report names it.
LEMMA ReplaceInvariant == ASSUME IInv, NEW m \in completed, Replace(m) PROVE FleetOK'
<1> USE DEF IInv, FleetOK
<1>1. PICK s \in Slots : m.host = s[1] /\ m.name = RunnerName[s] /\ vm[s].state = "done"
  BY DEF MessagesDone
<1>2. <<m.host, InstanceOf(m.name)>> = s
  BY <1>1, NameParts, SlotParts
<1>3. /\ vm' = [vm EXCEPT ![s] = Waiting] /\ completed' = completed \ {m}
      /\ UNCHANGED <<job, events, queue>>
  BY <1>2 DEF Replace, Restarted
<1>4. \A t \in Slots : t # s => vm'[t] = vm[t]
  BY <1>3, Types
<1>5. Unassigned' /\ QueueOfLabel' /\ ReportedOnce'
  BY <1>3 DEF Unassigned, QueueOfLabel, ReportedOnce
<1>6. RunningBusy'
  BY <1>1, <1>3, <1>4 DEF RunningBusy
<1>7. EventsDone'
  BY <1>1, <1>3, <1>4 DEF EventsDone, ReportedOnce
<1>8. MessagesDone'
  BY <1>1, <1>3, <1>4 DEF MessagesDone, ReportedOnce
<1> QED BY <1>5, <1>6, <1>7, <1>8 DEF FleetOK

\* A VM that has no job is named by no report, so that it may pick one or exit.
LEMMA WaitingInvariant ==
  ASSUME IInv, NEW s \in Slots, Pick(s) \/ Forget(s) \/ Exit(s) PROVE FleetOK'
<1> USE DEF IInv, FleetOK
<1>1. /\ vm[s].state \in {"waiting", "idle"} /\ \A t \in Slots : t # s => vm'[t] = vm[t]
      /\ UNCHANGED <<job, events, completed>>
  BY Types DEF Pick, Forget, Exit
<1>2. Unassigned' /\ RunningBusy' /\ EventsDone' /\ MessagesDone' /\ ReportedOnce'
  BY <1>1 DEF Unassigned, RunningBusy, EventsDone, MessagesDone, ReportedOnce
<1>3. QueueOfLabel'
  <2>1. ASSUME NEW l \in Labels, Takes(l) PROVE QueueOfLabel'
    <3>1. queue[l] \in Seq(Jobs) /\ queue[l] # <<>> /\ queue' = [queue EXCEPT ![l] = Tail(@)]
      BY <2>1, TakesEffect
    <3>2. queue'[l] = Tail(queue[l]) /\ \A k \in Labels : k # l => queue'[k] = queue[k]
      BY <3>1, Types
    <3>3. /\ Len(queue'[l]) = Len(queue[l]) - 1 /\ Len(queue[l]) \in Nat
          /\ \A i \in 1 .. Len(queue'[l]) : queue'[l][i] = queue[l][i + 1]
      BY <3>1, <3>2, TailFacts
    <3>4. ASSUME NEW i \in 1 .. Len(queue'[l])
          PROVE  Len(LabelsOf[queue'[l][i]]) = 1 /\ LabelsOf[queue'[l][i]][1] = l
      <4>1. i + 1 \in 1 .. Len(queue[l])
        BY <3>3
      <4> QED BY <3>3, <4>1 DEF QueueOfLabel
    <3>5. ASSUME NEW k \in Labels, k # l, NEW i \in 1 .. Len(queue'[k])
          PROVE  Len(LabelsOf[queue'[k][i]]) = 1 /\ LabelsOf[queue'[k][i]][1] = k
      <4>1. queue'[k] = queue[k]
        BY <3>2, <3>5
      <4> QED BY <3>5, <4>1 DEF QueueOfLabel
    <3> QED BY <3>4, <3>5 DEF QueueOfLabel
  <2>2. CASE Exit(s)
    BY <2>2 DEF Exit, QueueOfLabel
  <2>3. CASE Pick(s) \/ Forget(s)
    BY <2>1, <2>3 DEF Pick, Forget
  <2> QED BY <2>2, <2>3
<1> QED BY <1>2, <1>3 DEF FleetOK

\* The runner a job is given was idle, so the job has it alone.
LEMMA AssignInvariant ==
  ASSUME IInv, NEW s \in Slots, NEW j \in Jobs, Assign(j, s) PROVE FleetOK'
<1> USE DEF IInv, FleetOK
<1>1. /\ vm[s].state = "idle" /\ vm'[s].state = "busy" /\ \A t \in Slots : t # s => vm'[t] = vm[t]
      /\ job[j].state = "waiting" /\ \A k \in Jobs : k # j => job'[k] = job[k]
      /\ UNCHANGED <<events, queue, completed>>
  BY Types DEF Assign, Matches, VMRecord
<1>2. job'[j].state = "running" /\ job'[j].runner = RunnerName[s]
  <2>1. job'[j] = [state |-> "running", runner |-> RunnerName[s]]
    BY Types DEF Assign
  <2> QED BY <2>1
<1>3. Unassigned' /\ QueueOfLabel' /\ ReportedOnce'
  BY <1>1, <1>2 DEF Unassigned, QueueOfLabel, ReportedOnce
<1>4. EventsDone' /\ MessagesDone'
  BY <1>1 DEF EventsDone, MessagesDone
<1>5. ASSUME NEW k \in Jobs, k # j, job[k].state = "running" PROVE job[k].runner # RunnerName[s]
  <2>1. PICK t \in Slots : job[k].runner = RunnerName[t] /\ vm[t].state = "busy"
    BY <1>5 DEF RunningBusy
  <2>2. t # s
    BY <1>1, <2>1
  <2> QED BY <2>1, <2>2, NamesDistinct
<1>6. RunningBusy'
  <2> SUFFICES ASSUME NEW k \in Jobs, job'[k].state = "running"
               PROVE  /\ \E t \in Slots : job'[k].runner = RunnerName[t] /\ vm'[t].state = "busy"
                      /\ \A i \in Jobs : job'[i].state = "running" /\ job'[i].runner = job'[k].runner
                                           => i = k
    BY DEF RunningBusy
  <2>1. CASE k = j
    BY <1>1, <1>2, <1>5, <2>1
  <2>2. CASE k # j
    <3>1. /\ job'[k] = job[k] /\ job[k].state = "running" /\ job[k].runner # RunnerName[s]
      BY <1>1, <1>5, <2>2
    <3>2. \E t \in Slots : job[k].runner = RunnerName[t] /\ vm[t].state = "busy"
      BY <3>1 DEF RunningBusy
    <3> QED BY <1>1, <1>2, <3>1, <3>2 DEF RunningBusy
  <2> QED BY <2>1, <2>2
<1> QED BY <1>3, <1>4, <1>6 DEF FleetOK

\* The job's one report is made when its runner is done.
LEMMA FinishInvariant ==
  ASSUME IInv, NEW s \in Slots, NEW j \in Jobs, Finish(j, s) PROVE FleetOK'
<1> USE DEF IInv, FleetOK
<1> DEFINE e == [action |-> "completed", job |-> j, name |-> RunnerName[s]]
<1>1. /\ vm'[s].state = "done" /\ \A t \in Slots : t # s => vm'[t] = vm[t]
      /\ job[j].state = "running" /\ job[j].runner = RunnerName[s]
      /\ \A k \in Jobs : k # j => job'[k] = job[k]
      /\ events' = events \cup {e} /\ UNCHANGED <<queue, completed>>
  BY Types DEF Finish, VMRecord, Event
<1>2. job'[j].state = "finished"
  BY Types DEF Finish, JobRecord
<1>3. vm[s].state = "busy"
  <2>1. PICK t \in Slots : job[j].runner = RunnerName[t] /\ vm[t].state = "busy"
    BY <1>1 DEF RunningBusy
  <2> QED BY <1>1, <2>1, NamesDistinct
<1>4. RunnerName[s] # NoName
  BY NameParts
<1>5. Unassigned' /\ QueueOfLabel'
  BY <1>1, <1>2 DEF Unassigned, QueueOfLabel
<1>6. EventsDone' /\ MessagesDone'
  BY <1>1, <1>3 DEF EventsDone, MessagesDone
<1>7. RunningBusy'
  <2> SUFFICES ASSUME NEW k \in Jobs, job'[k].state = "running"
               PROVE  /\ \E t \in Slots : job'[k].runner = RunnerName[t] /\ vm'[t].state = "busy"
                      /\ \A i \in Jobs : job'[i].state = "running" /\ job'[i].runner = job'[k].runner
                                           => i = k
    BY DEF RunningBusy
  <2>1. k # j /\ job'[k] = job[k] /\ job[k].state = "running"
    BY <1>1, <1>2
  <2>2. job[k].runner # RunnerName[s]
    BY <1>1, <2>1 DEF RunningBusy
  <2>3. \E t \in Slots : job[k].runner = RunnerName[t] /\ vm[t].state = "busy"
    BY <2>1 DEF RunningBusy
  <2> QED BY <1>1, <1>2, <2>1, <2>2, <2>3 DEF RunningBusy
<1>8. ReportedOnce'
  <2>1. \A f \in events : f.name # RunnerName[s]
    BY <1>3, <1>4, NamesDistinct DEF EventsDone
  <2>2. \A m \in completed : m.name # RunnerName[s]
    BY <1>3, NamesDistinct DEF MessagesDone
  <2> QED BY <1>1, <2>1, <2>2 DEF ReportedOnce
<1> QED BY <1>5, <1>6, <1>7, <1>8 DEF FleetOK

\* What GitHub does to jobs without a runner touches no VM.
LEMMA NoRunnerInvariant ==
  ASSUME IInv, NEW j \in Jobs, Queue(j) \/ Cancel(j) \/ Redeliver(j) PROVE FleetOK'
<1> USE DEF IInv, FleetOK
<1>1. /\ UNCHANGED <<completed, vm>> /\ UNCHANGED queue
      /\ \A k \in Jobs : k # j => job'[k] = job[k]
  BY Types DEF Queue, Cancel, Redeliver
<1>2. /\ \E e : e.name = NoName /\ events' = events \cup {e}
      /\ \/ job'[j].state \in {"waiting", "cancelled"} /\ job'[j].runner = NoName
         \/ job'[j] = job[j]
  <2>1. CASE Queue(j)
    <3>1. job[j].runner = NoName
      BY <2>1 DEF Queue, Unassigned
    <3>2. Event("queued", j).name = NoName
      BY <3>1 DEF Event
    <3>3. job'[j].state = "waiting" /\ job'[j].runner = NoName
      BY <2>1, <3>1, Types DEF Queue, JobRecord
    <3> QED BY <2>1, <3>2, <3>3 DEF Queue
  <2>2. CASE Cancel(j)
    <3>1. job[j].runner = NoName
      BY <2>2 DEF Cancel, Unassigned
    <3>2. Event("completed", j).name = NoName
      BY <3>1 DEF Event
    <3>3. job'[j].state = "cancelled" /\ job'[j].runner = NoName
      BY <2>2, <3>1, Types DEF Cancel, JobRecord
    <3> QED BY <2>2, <3>2, <3>3 DEF Cancel
  <2>3. CASE Redeliver(j)
    BY <2>3 DEF Redeliver
  <2> QED BY <2>1, <2>2, <2>3
<1>3. PICK e : e.name = NoName /\ events' = events \cup {e}
  BY <1>2
<1>4. QueueOfLabel' /\ EventsDone' /\ MessagesDone' /\ Unassigned'
  BY <1>1, <1>2, <1>3 DEF QueueOfLabel, EventsDone, MessagesDone, Unassigned
<1>5. RunningBusy'
  BY <1>1, <1>2 DEF RunningBusy
<1>6. ReportedOnce'
  <2>1. \A m \in completed : m.name # NoName
    BY NameParts DEF MessagesDone
  <2> QED BY <1>1, <1>3, <2>1 DEF ReportedOnce
<1> QED BY <1>4, <1>5, <1>6 DEF FleetOK

\* The invariant is inductive.
LEMMA NextInvariant == ASSUME IInv, [Next]_vars PROVE IInv'
<1>1. FleetOK'
  <2>1. CASE UNCHANGED vars
    BY <2>1 DEF vars, IInv, FleetOK, Unassigned, QueueOfLabel, RunningBusy, EventsDone, MessagesDone,
                ReportedOnce
  <2> QED BY <2>1, DeliverInvariant, LoseInvariant, ReplaceInvariant, WaitingInvariant,
             AssignInvariant, FinishInvariant, NoRunnerInvariant DEF Next, Rest
<1> QED BY <1>1, TypeStep DEF IInv, FleetOK

\* IInv is an invariant of the fleet.
LEMMA Invariant == Spec => []IInv
BY InitInvariant, NextInvariant, PTL DEF Spec

\* Jobs, events, streams and VMs keep their types: what the webhook stores
\* under a host is the subject of a host of the fleet.
THEOREM Typed == Spec => []TypeOK
<1>1. IInv => TypeOK
  BY DEF IInv
<1> QED BY <1>1, Invariant, PTL

\* A host replaces a VM only when its runner has finished its job, whatever
\* dashes the names of the hosts contain and whichever events are cancelled,
\* sent twice or lost.
THEOREM ReplacementSafe == Spec => []ReplacesOnlyFinished
<1>1. IInv => ReplacesOnlyFinished
  BY NameParts DEF IInv, FleetOK, MessagesDone, ReplacesOnlyFinished
<1> QED BY <1>1, Invariant, PTL

-----------------------------------------------------------------------------
(* Supply and demand.                                                      *)

\* GitHub gives a VM only jobs that are published for VMs: no workflow asks
\* for self-hosted alone, or for that and one of the labels.
NoOtherTakers ==
    \A j \in Jobs :
      Served(j) \/ \A l \in ToSet(Order) : ~(ToSet(LabelsOf[j]) \subseteq {"self-hosted", l})

\* Runners are registered with the labels VMs read, and there are finitely
\* many events, none of them of a job not queued yet.
RunnersLabelled == \A s \in Slots : vm[s].state = "idle" => vm[s].label \in ToSet(Order)

EventsOfBegun ==
    /\ IsFiniteSet(events)
    /\ \A e \in events : job[e.job].state # "new"

\* The runners that have or had a job were started for the fleet's jobs.
ServedRun ==
    /\ \A j \in Jobs : job[j].state = "running" => Served(j)
    /\ \A e \in events : e.name # NoName => Served(e.job)

SideOK == RunnersLabelled /\ EventsOfBegun /\ ServedRun

\* What Demand and Supply count.
JobsOf(k)       == {j \in Jobs : IsOf(j, k)}
Indexes(q, A)   == {i \in DOMAIN q : q[i] \in A}
Waiters(k)      == {j \in Jobs : job[j].state = "waiting" /\ IsOf(j, k)}
QueuedEvents(k) == {e \in events : e.action = "queued" /\ IsOf(e.job, k)}
StoredJobs(k)   == {i \in DOMAIN queue[k.label] : IsOf(queue[k.label][i], k)}
Runners(k)      == {s \in Slots : vm[s].state = "idle" /\ vm[s].repo = k.repo
                                                       /\ vm[s].label = k.label}

\* The subjects a VM without --testrig looks at.
LEMMA OrderSet == ToSet(Order) = {"f0", "firecracker"}
BY DEF ToSet, Order

\* A fleet has finitely many slots.
LEMMA SlotsFinite == IsFiniteSet(Slots)
<1>1. IsFiniteSet(Numbers)
  <2>1. \A a, b \in Int : IsFiniteSet(a .. b)
    BY FS_Interval
  <2>2. 0 \in Int /\ 99 \in Int
    OBVIOUS
  <2>3. IsFiniteSet(0 .. 99)
    BY ONLY <2>1, <2>2
  <2> QED BY <2>3 DEF Numbers
<1>2. IsFiniteSet(Hosts \X Numbers)
  BY <1>1, FS_Product, PipelineAssumption
<1>3. Slots \subseteq Hosts \X Numbers
  BY SlotParts
<1> QED BY <1>2, <1>3, FS_Subset

\* A kind has one of the labels VMs look at.
LEMMA KindFacts ==
  ASSUME NEW k \in Kinds
  PROVE  k.label \in ToSet(Order) /\ k.label \in Labels
<1>1. PICK j \in Jobs : Served(j) /\ k = [repo |-> RepoOf[j], label |-> LabelsOf[j][1]]
  BY DEF Kinds, KindOf
<1> QED BY <1>1, OrderSet DEF Served, Labels

\* A job is of a kind if it has its repository and its label.
LEMMA IsOfFacts ==
  ASSUME NEW k \in Kinds, NEW j
  PROVE  IsOf(j, k) <=> Served(j) /\ RepoOf[j] = k.repo /\ LabelsOf[j][1] = k.label
<1>1. PICK i \in Jobs : k = [repo |-> RepoOf[i], label |-> LabelsOf[i][1]]
  BY DEF Kinds, KindOf
<1> QED BY <1>1 DEF IsOf, KindOf

\* A job that is appended adds its index, if it is of those counted.
LEMMA AppendCount ==
  ASSUME NEW q \in Seq(Jobs), NEW j \in Jobs, NEW A
  PROVE  Indexes(Append(q, j), A) =
           IF j \in A THEN Indexes(q, A) \cup {Len(q) + 1} ELSE Indexes(q, A)
<1>1. /\ Len(Append(q, j)) = Len(q) + 1 /\ Len(q) \in Nat
      /\ DOMAIN Append(q, j) = 1 .. Len(q) + 1 /\ DOMAIN q = 1 .. Len(q)
      /\ Append(q, j)[Len(q) + 1] = j
      /\ \A i \in 1 .. Len(q) : Append(q, j)[i] = q[i]
  BY AppendProperties, LenProperties
<1>2. DOMAIN Append(q, j) = DOMAIN q \cup {Len(q) + 1}
  BY <1>1
<1> QED BY <1>1, <1>2 DEF Indexes

\* A queue without its first job has one index less of the jobs counted, if
\* that was one of them, and as many otherwise.
LEMMA TailCount ==
  ASSUME NEW q \in Seq(Jobs), q # <<>>, NEW A
  PROVE  /\ IsFiniteSet(Indexes(q, A)) /\ Cardinality(Indexes(q, A)) \in Nat
         /\ Cardinality(Indexes(Tail(q), A)) =
              IF Head(q) \in A THEN Cardinality(Indexes(q, A)) - 1 ELSE Cardinality(Indexes(q, A))
<1> DEFINE T == Indexes(Tail(q), A)
           R == Indexes(q, A) \ {1}
           f == [i \in T |-> i + 1]
<1>1. /\ Len(q) \in Nat \ {0} /\ Len(Tail(q)) = Len(q) - 1 /\ Tail(q) \in Seq(Jobs)
      /\ \A i \in 1 .. Len(q) - 1 : Tail(q)[i] = q[i + 1]
      /\ DOMAIN q = 1 .. Len(q) /\ Head(q) = q[1]
  BY TailFacts, LenProperties, HeadTailProperties
<1>2. DOMAIN Tail(q) = 1 .. Len(q) - 1
  BY <1>1, LenProperties
<1>3. T \subseteq 1 .. Len(q) - 1 /\ IsFiniteSet(T)
  <2>1. T \subseteq 1 .. Len(q) - 1
    BY <1>2 DEF Indexes
  <2>2. IsFiniteSet(1 .. Len(q) - 1)
    BY <1>1, FS_Interval
  <2> QED BY <2>1, <2>2, FS_Subset
<1>4. \A i \in T : i + 1 \in R
  BY <1>1, <1>2 DEF Indexes
<1>5. f \in Injection(T, R)
  <2>1. f \in [T -> R]
    BY <1>4
  <2>2. \A a, b \in T : f[a] = f[b] => a = b
    BY <1>3
  <2> QED BY <2>1, <2>2 DEF Injection, IsInjective
<1>6. f \in Surjection(T, R)
  <2>1. ASSUME NEW r \in R PROVE \E a \in T : f[a] = r
    <3>1. r \in 1 .. Len(q) /\ r # 1 /\ q[r] \in A
      BY <1>1 DEF Indexes
    <3>2. r - 1 \in 1 .. Len(q) - 1 /\ Tail(q)[r - 1] = q[r] /\ (r - 1) + 1 = r
      BY <1>1, <3>1
    <3>3. r - 1 \in T
      BY <1>2, <3>1, <3>2 DEF Indexes
    <3> QED BY <3>2, <3>3
  <2> QED BY <1>4, <2>1 DEF Surjection
<1>7. ExistsBijection(T, R)
  BY <1>5, <1>6 DEF ExistsBijection, Bijection
<1>8. IsFiniteSet(R) /\ Cardinality(R) = Cardinality(T)
  BY <1>3, <1>7, FS_Bijection
<1>9. IsFiniteSet(Indexes(q, A))
  <2>1. IsFiniteSet(1 .. Len(q))
    BY <1>1, FS_Interval
  <2>2. Indexes(q, A) \subseteq 1 .. Len(q)
    BY <1>1 DEF Indexes
  <2> QED BY <2>1, <2>2, FS_Subset
<1>10. Cardinality(Indexes(q, A)) \in Nat
  BY <1>9, FS_CardinalityType
<1>11. 1 \in Indexes(q, A) <=> Head(q) \in A
  BY <1>1 DEF Indexes
<1>12. Cardinality(R) =
         IF 1 \in Indexes(q, A) THEN Cardinality(Indexes(q, A)) - 1 ELSE Cardinality(Indexes(q, A))
  BY <1>9, FS_RemoveElement
<1> QED BY <1>8, <1>9, <1>10, <1>11, <1>12

\* There are finitely many of everything that is counted.
Countable ==
    \A k \in Kinds :
      /\ IsFiniteSet(Waiters(k)) /\ Cardinality(Waiters(k)) \in Nat
      /\ IsFiniteSet(QueuedEvents(k)) /\ Cardinality(QueuedEvents(k)) \in Nat
      /\ IsFiniteSet(StoredJobs(k)) /\ Cardinality(StoredJobs(k)) \in Nat
      /\ IsFiniteSet(Runners(k)) /\ Cardinality(Runners(k)) \in Nat

\* Everything Surplus counts is finite.
LEMMA Counts == IInv /\ EventsOfBegun => Countable
<1> SUFFICES ASSUME IInv, EventsOfBegun, NEW k \in Kinds
             PROVE  /\ IsFiniteSet(Waiters(k)) /\ IsFiniteSet(QueuedEvents(k))
                    /\ IsFiniteSet(StoredJobs(k)) /\ IsFiniteSet(Runners(k))
  BY FS_CardinalityType DEF Countable
<1>1. IsFiniteSet(Waiters(k))
  BY FS_Subset, PipelineAssumption DEF Waiters
<1>2. IsFiniteSet(QueuedEvents(k))
  BY FS_Subset DEF QueuedEvents, EventsOfBegun
<1>3. IsFiniteSet(StoredJobs(k))
  <2>1. queue[k.label] \in Seq(Jobs)
    BY KindFacts DEF IInv, TypeOK
  <2>2. DOMAIN queue[k.label] = 1 .. Len(queue[k.label]) /\ Len(queue[k.label]) \in Nat
    BY <2>1, LenProperties
  <2>3. IsFiniteSet(1 .. Len(queue[k.label]))
    BY <2>2, FS_Interval
  <2> QED BY <2>2, <2>3, FS_Subset DEF StoredJobs
<1>4. IsFiniteSet(Runners(k))
  BY SlotsFinite, FS_Subset DEF Runners
<1> QED BY <1>1, <1>2, <1>3, <1>4

\* The stored jobs of a kind are the indexes of its jobs.
LEMMA StoredIndexes ==
  ASSUME IInv, NEW k \in Kinds
  PROVE  StoredJobs(k) = Indexes(queue[k.label], JobsOf(k))
<1>1. queue[k.label] \in Seq(Jobs)
  BY KindFacts DEF IInv, TypeOK
<1>2. \A i \in DOMAIN queue[k.label] : queue[k.label][i] \in Jobs
  BY <1>1, LenProperties, ElementOfSeq
<1> QED BY <1>2 DEF StoredJobs, Indexes, JobsOf

\* The stored jobs of a kind, in the next state, are positions in its label's queue.
LEMMA StoredIndexesNext ==
  ASSUME IInv', NEW k \in Kinds
  PROVE  StoredJobs(k)' = Indexes(queue'[k.label], JobsOf(k))
<1>1. queue'[k.label] \in Seq(Jobs)
  BY KindFacts DEF IInv, TypeOK
<1>2. \A i \in DOMAIN queue'[k.label] : queue'[k.label][i] \in Jobs
  BY <1>1, LenProperties, ElementOfSeq
<1> QED BY <1>2 DEF StoredJobs, Indexes, JobsOf

\* What brings a runner of a kind, or is one, less the jobs that wait for one.
Surplus(k) ==
    Cardinality(QueuedEvents(k)) + Cardinality(StoredJobs(k)) + Cardinality(Runners(k))
      - Cardinality(Waiters(k))

\* A queued event becomes a stored job of its kind.
LEMMA DeliverSurplus ==
  ASSUME IInv, IInv', EventsOfBegun, NEW k \in Kinds, NEW e \in events, Deliver(e)
  PROVE  Surplus(k)' = Surplus(k)
<1> DEFINE q == queue[k.label]
           n == Cardinality(QueuedEvents(k))
           d == Cardinality(StoredJobs(k))
<1>1. UNCHANGED <<job, vm>> /\ events' = events \ {e} /\ e.job \in Jobs
  BY Types DEF Deliver, IInv, Calls
<1>2. Waiters(k)' = Waiters(k) /\ Runners(k)' = Runners(k)
  BY <1>1 DEF Waiters, Runners
<1>3. n \in Nat /\ d \in Nat /\ IsFiniteSet(QueuedEvents(k)) /\ IsFiniteSet(StoredJobs(k))
      /\ Cardinality(Waiters(k)) \in Nat /\ Cardinality(Runners(k)) \in Nat
  BY Counts DEF Countable
<1>4. q \in Seq(Jobs) /\ k.label \in Labels /\ queue \in [Labels -> Seq(Jobs)]
  BY KindFacts DEF IInv, TypeOK
<1>5. CASE e \in QueuedEvents(k)
  <2>1. e.action = "queued" /\ IsOf(e.job, k)
    BY <1>5 DEF QueuedEvents
  <2>2. LabelsOf[e.job][1] = k.label /\ RunsOnSelfHosted(e.job)
    BY <2>1, IsOfFacts, KindFacts DEF RunsOnSelfHosted, Served
  <2>3. queue'[k.label] = Append(q, e.job)
    BY <1>4, <2>1, <2>2 DEF Deliver
  <2>4. StoredJobs(k)' = StoredJobs(k) \cup {Len(q) + 1}
    <3>1. e.job \in JobsOf(k)
      BY <1>1, <2>1 DEF JobsOf
    <3>2. Indexes(Append(q, e.job), JobsOf(k)) = Indexes(q, JobsOf(k)) \cup {Len(q) + 1}
      BY <1>1, <1>4, <3>1, AppendCount
    <3>3. StoredJobs(k)' = Indexes(queue'[k.label], JobsOf(k))
      BY StoredIndexesNext
    <3>4. StoredJobs(k) = Indexes(q, JobsOf(k))
      BY StoredIndexes
    <3> QED BY <2>3, <3>2, <3>3, <3>4
  <2>5. Len(q) + 1 \notin StoredJobs(k)
    <3>1. DOMAIN q = 1 .. Len(q) /\ Len(q) \in Nat
      BY <1>4, LenProperties
    <3> QED BY <3>1 DEF StoredJobs
  <2>6. Cardinality(StoredJobs(k)') = d + 1
    BY <1>3, <2>4, <2>5, FS_AddElement
  <2>7. QueuedEvents(k)' = QueuedEvents(k) \ {e}
    BY <1>1 DEF QueuedEvents
  <2>8. Cardinality(QueuedEvents(k)') = n - 1
    BY <1>3, <1>5, <2>7, FS_RemoveElement
  <2> QED BY <1>2, <1>3, <2>6, <2>8 DEF Surplus
<1>6. CASE e \notin QueuedEvents(k)
  <2>1. QueuedEvents(k)' = QueuedEvents(k)
    BY <1>1, <1>6 DEF QueuedEvents
  <2>2. CASE queue'[k.label] = q
    <3>1. StoredJobs(k)' = StoredJobs(k)
      BY <2>2 DEF StoredJobs
    <3> QED BY <1>2, <2>1, <3>1 DEF Surplus
  <2>3. CASE queue'[k.label] # q
    <3>1. /\ e.action = "queued" /\ RunsOnSelfHosted(e.job)
          /\ queue' = [queue EXCEPT ![LabelsOf[e.job][1]] = Append(@, e.job)]
      BY <2>3 DEF Deliver
    <3>2. queue'[k.label] = Append(q, e.job)
      BY <1>4, <2>3, <3>1
    <3>3. e.job \notin JobsOf(k)
      BY <1>6, <3>1 DEF QueuedEvents, JobsOf
    <3>4. StoredJobs(k)' = StoredJobs(k)
      <4>1. Indexes(Append(q, e.job), JobsOf(k)) = Indexes(q, JobsOf(k))
        BY <1>1, <1>4, <3>3, AppendCount
      <4>2. StoredJobs(k)' = Indexes(queue'[k.label], JobsOf(k))
        BY StoredIndexesNext
      <4>3. StoredJobs(k) = Indexes(q, JobsOf(k))
        BY StoredIndexes
      <4> QED BY <3>2, <4>1, <4>2, <4>3
    <3> QED BY <1>2, <2>1, <3>4 DEF Surplus
  <2> QED BY <2>2, <2>3
<1> QED BY <1>5, <1>6

\* What a VM takes is one stored job less of its kind.
LEMMA TakesCount ==
  ASSUME IInv, IInv', EventsOfBegun, NEW k \in Kinds, NEW l \in Labels, Takes(l)
  PROVE  Cardinality(StoredJobs(k)') =
           IF IsOf(Head(queue[l]), k) THEN Cardinality(StoredJobs(k)) - 1
                                      ELSE Cardinality(StoredJobs(k))
<1> DEFINE q == queue[k.label]
           j == Head(queue[l])
<1>1. /\ j \in Jobs /\ queue[l] # <<>> /\ LabelsOf[j][1] = l
      /\ queue'[l] = Tail(queue[l]) /\ \A m \in Labels : m # l => queue'[m] = queue[m]
      /\ q \in Seq(Jobs) /\ k.label \in Labels
  BY TakesEffect, KindFacts, Types DEF IInv
<1>2. StoredJobs(k)' = Indexes(queue'[k.label], JobsOf(k)) /\ StoredJobs(k) = Indexes(q, JobsOf(k))
  BY StoredIndexesNext, StoredIndexes
<1>3. j \in JobsOf(k) <=> IsOf(j, k)
  BY <1>1 DEF JobsOf
<1>4. IsOf(j, k) => l = k.label
  BY <1>1, IsOfFacts
<1> HIDE DEF j
<1>5. CASE k.label = l
  <2>1. q # <<>> /\ j = Head(q) /\ queue'[k.label] = Tail(q)
    BY <1>1, <1>5 DEF j
  <2> QED BY <1>1, <1>2, <1>3, <2>1, TailCount DEF j
<1>6. CASE k.label # l
  <2>1. queue'[k.label] = q /\ ~IsOf(j, k)
    BY <1>1, <1>4, <1>6
  <2>2. StoredJobs(k)' = StoredJobs(k)
    BY <1>2, <2>1
  <2> QED BY <2>1, <2>2 DEF j
<1> QED BY <1>5, <1>6

\* A stored job becomes a runner of its kind.
LEMMA PickSurplus ==
  ASSUME IInv, IInv', EventsOfBegun, NEW k \in Kinds, NEW s \in Slots, Pick(s)
  PROVE  Surplus(k)' = Surplus(k)
<1> DEFINE d == Cardinality(StoredJobs(k))
           r == Cardinality(Runners(k))
<1>1. PICK l \in Labels : Takes(l) /\ vm' = [vm EXCEPT ![s] = Registration(Head(queue[l]))]
  BY DEF Pick
<1>2. PICK j \in Jobs : j = Head(queue[l]) /\ Len(LabelsOf[j]) = 1 /\ LabelsOf[j][1] = l
                        /\ l \in {"f0", "firecracker"}
  BY <1>1, TakesEffect
<1>3. vm'[s] = Registration(j) /\ \A t \in Slots : t # s => vm'[t] = vm[t]
  BY <1>1, <1>2, Types DEF IInv
<1>4. vm'[s].state = "idle" /\ vm'[s].repo = RepoOf[j] /\ vm'[s].label = l
  BY <1>2, <1>3 DEF Registration
<1>5. IsOf(j, k) <=> RepoOf[j] = k.repo /\ l = k.label
  <2>1. Served(j)
    BY <1>2, OrderSet DEF Served
  <2> QED BY <1>2, <2>1, IsOfFacts
<1>6. UNCHANGED <<job, events>> /\ vm[s].state = "waiting"
  BY DEF Pick
<1>7. Waiters(k)' = Waiters(k) /\ QueuedEvents(k)' = QueuedEvents(k)
  BY <1>6 DEF Waiters, QueuedEvents
<1>8. d \in Nat /\ r \in Nat /\ IsFiniteSet(Runners(k))
      /\ Cardinality(Waiters(k)) \in Nat /\ Cardinality(QueuedEvents(k)) \in Nat
  BY Counts DEF Countable
<1>9. s \notin Runners(k)
  BY <1>6 DEF Runners
<1>10. Cardinality(StoredJobs(k)') = IF IsOf(j, k) THEN d - 1 ELSE d
  BY <1>1, <1>2, TakesCount
<1>11. CASE IsOf(j, k)
  <2>1. Runners(k)' = Runners(k) \cup {s}
    BY <1>3, <1>4, <1>5, <1>11 DEF Runners
  <2>2. Cardinality(Runners(k)') = r + 1
    BY <1>8, <1>9, <2>1, FS_AddElement
  <2> QED BY <1>7, <1>8, <1>10, <1>11, <2>2 DEF Surplus
<1>12. CASE ~IsOf(j, k)
  <2>1. Runners(k)' = Runners(k)
    BY <1>3, <1>4, <1>5, <1>6, <1>12 DEF Runners
  <2> QED BY <1>7, <1>10, <1>12, <2>1 DEF Surplus
<1> QED BY <1>11, <1>12

\* A runner takes no job but those of the fleet.
LEMMA AssignServed ==
  ASSUME NoOtherTakers, RunnersLabelled, NEW s \in Slots, NEW j \in Jobs, Assign(j, s)
  PROVE  Served(j)
BY DEF NoOtherTakers, RunnersLabelled, Assign, Matches

\* A runner takes a job of its kind, whichever it was started for.
LEMMA AssignSurplus ==
  ASSUME NoOtherTakers, IInv, EventsOfBegun, RunnersLabelled,
         NEW k \in Kinds, NEW s \in Slots, NEW j \in Jobs, Assign(j, s)
  PROVE  Surplus(k)' = Surplus(k)
<1> DEFINE w == Cardinality(Waiters(k))
           r == Cardinality(Runners(k))
<1>1. /\ vm[s].state = "idle" /\ vm'[s].state = "busy" /\ \A t \in Slots : t # s => vm'[t] = vm[t]
      /\ job[j].state = "waiting" /\ \A i \in Jobs : i # j => job'[i] = job[i]
      /\ UNCHANGED <<events, queue>>
  BY Types DEF Assign, Matches, VMRecord, IInv
<1>2. job'[j].state = "running"
  <2>1. job'[j] = [state |-> "running", runner |-> RunnerName[s]]
    BY Types DEF Assign, IInv
  <2> QED BY <2>1
<1>3. vm[s].repo = RepoOf[j] /\ ToSet(LabelsOf[j]) \subseteq {"self-hosted", vm[s].label}
  BY DEF Assign, Matches
<1>4. Served(j) /\ LabelsOf[j][1] = vm[s].label
  <2>1. Served(j)
    BY AssignServed
  <2>2. LabelsOf[j][1] \in ToSet(LabelsOf[j])
    <3>1. LabelsOf[j] \in Seq(STRING) /\ Len(LabelsOf[j]) = 1
      BY <2>1, PipelineAssumption DEF Served
    <3>2. 1 \in DOMAIN LabelsOf[j]
      BY <3>1, LenProperties
    <3> QED BY <3>2 DEF ToSet
  <2>3. LabelsOf[j][1] # "self-hosted"
    BY <2>1, OrderSet DEF Served
  <2> QED BY <1>3, <2>1, <2>2, <2>3
<1>5. IsOf(j, k) <=> s \in Runners(k)
  BY <1>1, <1>3, <1>4, IsOfFacts DEF Runners
<1>6. /\ w \in Nat /\ r \in Nat /\ IsFiniteSet(Runners(k)) /\ IsFiniteSet(Waiters(k))
      /\ Cardinality(QueuedEvents(k)) \in Nat /\ Cardinality(StoredJobs(k)) \in Nat
  BY Counts DEF Countable
<1>7. Runners(k)' = Runners(k) \ {s} /\ Waiters(k)' = Waiters(k) \ {j}
  BY <1>1, <1>2 DEF Runners, Waiters
<1>8. j \in Waiters(k) <=> IsOf(j, k)
  BY <1>1 DEF Waiters
<1>9. QueuedEvents(k)' = QueuedEvents(k) /\ StoredJobs(k)' = StoredJobs(k)
  BY <1>1 DEF QueuedEvents, StoredJobs
<1>10. Cardinality(Runners(k)') = IF s \in Runners(k) THEN r - 1 ELSE r
  BY <1>6, <1>7, FS_RemoveElement
<1>11. Cardinality(Waiters(k)') = IF j \in Waiters(k) THEN w - 1 ELSE w
  BY <1>6, <1>7, FS_RemoveElement
<1> QED BY <1>5, <1>6, <1>8, <1>9, <1>10, <1>11 DEF Surplus

\* A job that is queued has its event.
LEMMA QueueSurplus ==
  ASSUME IInv, EventsOfBegun, NEW k \in Kinds, NEW j \in Jobs, Queue(j)
  PROVE  Surplus(k)' = Surplus(k)
<1> DEFINE w == Cardinality(Waiters(k))
           n == Cardinality(QueuedEvents(k))
           e == Event("queued", j)
<1>1. /\ job[j].state = "new" /\ job'[j].state = "waiting"
      /\ \A i \in Jobs : i # j => job'[i] = job[i]
      /\ events' = events \cup {e} /\ UNCHANGED <<queue, vm>>
  BY Types DEF Queue, IInv, JobRecord
<1>2. e.action = "queued" /\ e.job = j /\ e \notin events
  BY <1>1 DEF Event, EventsOfBegun
<1>3. /\ w \in Nat /\ n \in Nat /\ IsFiniteSet(QueuedEvents(k)) /\ IsFiniteSet(Waiters(k))
      /\ Cardinality(Runners(k)) \in Nat /\ Cardinality(StoredJobs(k)) \in Nat
  BY Counts DEF Countable
<1>4. Runners(k)' = Runners(k) /\ StoredJobs(k)' = StoredJobs(k)
  BY <1>1 DEF Runners, StoredJobs
<1> HIDE DEF e
<1>5. CASE IsOf(j, k)
  <2>1. Waiters(k)' = Waiters(k) \cup {j} /\ QueuedEvents(k)' = QueuedEvents(k) \cup {e}
    BY <1>1, <1>2, <1>5 DEF Waiters, QueuedEvents
  <2>2. e \notin QueuedEvents(k)
    BY <1>2 DEF QueuedEvents
  <2>3. Cardinality(QueuedEvents(k)') = n + 1
    BY <1>3, <2>1, <2>2, FS_AddElement
  <2>4. j \notin Waiters(k)
    BY <1>1 DEF Waiters
  <2>5. Cardinality(Waiters(k)') = w + 1
    BY <1>3, <2>1, <2>4, FS_AddElement
  <2> QED BY <1>3, <1>4, <2>3, <2>5 DEF Surplus
<1>6. CASE ~IsOf(j, k)
  <2>1. Waiters(k)' = Waiters(k) /\ QueuedEvents(k)' = QueuedEvents(k)
    BY <1>1, <1>2, <1>6 DEF Waiters, QueuedEvents
  <2> QED BY <1>4, <2>1 DEF Surplus
<1> QED BY <1>5, <1>6

\* What a replacement finds in the slot, and what it leaves.
LEMMA ReplaceEffect ==
  ASSUME IInv, NEW m \in completed, Replace(m)
  PROVE  \E s \in Slots : /\ vm[s].state = "done" /\ vm'[s].state = "waiting"
                          /\ m.name = RunnerName[s]
                          /\ \A t \in Slots : t # s => vm'[t] = vm[t]
<1>1. PICK s \in Slots : m.host = s[1] /\ m.name = RunnerName[s] /\ vm[s].state = "done"
  BY DEF IInv, FleetOK, MessagesDone
<1>2. <<m.host, InstanceOf(m.name)>> = s
  BY <1>1, NameParts, SlotParts
<1>3. vm' = [vm EXCEPT ![s] = Waiting]
  BY <1>2 DEF Replace, Restarted
<1>4. Waiting.state = "waiting"
  BY DEF Waiting
<1> QED BY <1>1, <1>3, <1>4, Types DEF IInv

\* What the end of a job leaves.
LEMMA FinishEffect ==
  ASSUME IInv, NEW s \in Slots, NEW j \in Jobs, Finish(j, s)
  PROVE  /\ vm[s].state = "busy" /\ vm'[s].state = "done"
         /\ \A t \in Slots : t # s => vm'[t] = vm[t]
         /\ job[j].state = "running" /\ job'[j].state = "finished"
         /\ \A i \in Jobs : i # j => job'[i] = job[i]
<1>1. vm[s].state = "busy"
  BY NamesDistinct DEF Finish, IInv, FleetOK, RunningBusy
<1>2. vm' = [vm EXCEPT ![s].state = "done"] /\ job' = [job EXCEPT ![j].state = "finished"]
      /\ job[j].state = "running"
  BY DEF Finish
<1>3. vm'[s].state = "done" /\ \A t \in Slots : t # s => vm'[t] = vm[t]
  BY <1>2, Types DEF IInv, VMRecord
<1>4. job'[j].state = "finished" /\ \A i \in Jobs : i # j => job'[i] = job[i]
  BY <1>2, Types DEF IInv, JobRecord
<1> QED BY <1>1, <1>2, <1>3, <1>4

\* What the exit of a VM leaves.
LEMMA ExitEffect ==
  ASSUME IInv, NEW s \in Slots, Exit(s)
  PROVE  /\ vm[s].state \in {"waiting", "idle"} /\ vm'[s].state = "gone"
         /\ \A t \in Slots : t # s => vm'[t] = vm[t]
BY Types DEF Exit, IInv, VMRecord

\* What a cancellation leaves.
LEMMA CancelEffect ==
  ASSUME IInv, NEW j \in Jobs, Cancel(j)
  PROVE  /\ job[j].state = "waiting" /\ job'[j].state = "cancelled"
         /\ \A i \in Jobs : i # j => job'[i] = job[i]
BY Types DEF Cancel, IInv, JobRecord

\* The labels of runners are those of the subjects VMs read.
LEMMA RunnersLabelledStep ==
  ASSUME IInv, RunnersLabelled, [Next]_vars PROVE RunnersLabelled'
<1>1. ASSUME NEW s \in Slots, Pick(s) PROVE RunnersLabelled'
  <2>1. PICK l \in Labels : /\ l \in {"f0", "firecracker"} /\ LabelsOf[Head(queue[l])][1] = l
                            /\ vm' = [vm EXCEPT ![s] = Registration(Head(queue[l]))]
    BY <1>1, TakesEffect DEF Pick
  <2>2. vm'[s] = Registration(Head(queue[l])) /\ \A t \in Slots : t # s => vm'[t] = vm[t]
    BY <2>1, Types DEF IInv
  <2>3. vm'[s].label = l
    BY <2>1, <2>2 DEF Registration
  <2> QED BY <2>1, <2>2, <2>3, OrderSet DEF RunnersLabelled
<1>2. ASSUME NEW m \in completed, Replace(m) PROVE RunnersLabelled'
  BY <1>2, ReplaceEffect DEF RunnersLabelled
<1>3. ASSUME NEW s \in Slots, Exit(s) PROVE RunnersLabelled'
  BY <1>3, ExitEffect DEF RunnersLabelled
<1>4. ASSUME NEW s \in Slots, NEW j \in Jobs, Finish(j, s) PROVE RunnersLabelled'
  BY <1>4, FinishEffect DEF RunnersLabelled
<1>5. ASSUME NEW s \in Slots, NEW j \in Jobs, Assign(j, s) PROVE RunnersLabelled'
  <2>1. vm'[s].state = "busy" /\ \A t \in Slots : t # s => vm'[t] = vm[t]
    BY <1>5, Types DEF Assign, VMRecord, IInv
  <2> QED BY <2>1 DEF RunnersLabelled
<1>6. ASSUME UNCHANGED vm PROVE RunnersLabelled'
  BY <1>6 DEF RunnersLabelled
<1>7. ASSUME NEW e \in events, Deliver(e) \/ Lose(e) PROVE RunnersLabelled'
  BY <1>6, <1>7 DEF Deliver, Lose
<1>8. ASSUME NEW j \in Jobs, Queue(j) \/ Cancel(j) \/ Redeliver(j) PROVE RunnersLabelled'
  BY <1>6, <1>8 DEF Queue, Cancel, Redeliver
<1>9. ASSUME NEW s \in Slots, Forget(s) PROVE RunnersLabelled'
  BY <1>6, <1>9 DEF Forget
<1>10. CASE UNCHANGED vars
  BY <1>6, <1>10 DEF vars
<1> QED BY <1>1, <1>2, <1>3, <1>4, <1>5, <1>7, <1>8, <1>9, <1>10 DEF Next, Rest

\* No job goes back to where nobody has queued it, and each step adds one
\* event, of a job that has been queued.
LEMMA EventsOfBegunStep ==
  ASSUME IInv, EventsOfBegun, [Next]_vars PROVE EventsOfBegun'
<1>0. events \subseteq Calls /\ IsFiniteSet(events) /\ \A e \in events : job[e.job].state # "new"
  BY Types DEF IInv, EventsOfBegun
<1> DEFINE Kept == \A i \in Jobs : job[i].state # "new" => job'[i].state # "new"
           Added == \E e : e.job \in Jobs /\ job'[e.job].state # "new" /\ events' = events \cup {e}
<1>1. ASSUME Kept, events' \subseteq events PROVE EventsOfBegun'
  <2>1. IsFiniteSet(events')
    BY <1>0, <1>1, FS_Subset
  <2> QED BY <1>0, <1>1, <2>1 DEF EventsOfBegun, Calls
<1>2. ASSUME Kept, Added PROVE EventsOfBegun'
  <2>1. PICK e : e.job \in Jobs /\ job'[e.job].state # "new" /\ events' = events \cup {e}
    BY <1>2
  <2>2. IsFiniteSet(events')
    BY <1>0, <2>1, FS_AddElement
  <2>3. \A f \in events : f.job \in Jobs
    BY <1>0 DEF Calls
  <2> QED BY <1>0, <1>2, <2>1, <2>2, <2>3 DEF EventsOfBegun
<1>3. ASSUME NEW e \in events, Deliver(e) \/ Lose(e) PROVE Kept /\ events' \subseteq events
  BY <1>3 DEF Deliver, Lose
<1>4. ASSUME NEW m \in completed, Replace(m) PROVE Kept /\ events' \subseteq events
  BY <1>4 DEF Replace
<1>5. ASSUME NEW s \in Slots, Pick(s) \/ Forget(s) \/ Exit(s) PROVE Kept /\ events' \subseteq events
  BY <1>5 DEF Pick, Forget, Exit
<1>6. ASSUME NEW s \in Slots, NEW j \in Jobs, Assign(j, s) PROVE Kept /\ events' \subseteq events
  <2>1. job'[j] = [state |-> "running", runner |-> RunnerName[s]]
        /\ \A i \in Jobs : i # j => job'[i] = job[i]
    BY <1>6, Types DEF Assign, IInv
  <2>2. job'[j].state = "running" /\ UNCHANGED events
    BY <1>6, <2>1 DEF Assign
  <2> QED BY <2>1, <2>2
<1>7. ASSUME NEW s \in Slots, NEW j \in Jobs, Finish(j, s) PROVE Kept /\ Added
  <2>1. events' = events \cup {Event("completed", j)}
    BY <1>7 DEF Finish
  <2>2. Event("completed", j).job = j
    BY DEF Event
  <2> QED BY <1>7, <2>1, <2>2, FinishEffect
<1>8. ASSUME NEW j \in Jobs, Queue(j) PROVE Kept /\ Added
  <2>1. events' = events \cup {Event("queued", j)}
    BY <1>8 DEF Queue
  <2>2. Event("queued", j).job = j
    BY DEF Event
  <2>3. job'[j].state = "waiting" /\ \A i \in Jobs : i # j => job'[i] = job[i]
    BY <1>8, Types DEF Queue, IInv, JobRecord
  <2> QED BY <2>1, <2>2, <2>3
<1>9. ASSUME NEW j \in Jobs, Cancel(j) PROVE Kept /\ Added
  <2>1. events' = events \cup {Event("completed", j)}
    BY <1>9 DEF Cancel
  <2>2. Event("completed", j).job = j
    BY DEF Event
  <2> QED BY <1>9, <2>1, <2>2, CancelEffect
<1>10. ASSUME NEW j \in Jobs, Redeliver(j) PROVE Kept /\ Added
  <2> DEFINE e == [action |-> "queued", job |-> j, name |-> NoName]
  <2>1. events' = events \cup {e} /\ UNCHANGED job /\ job[j].state # "new"
    BY <1>10 DEF Redeliver
  <2>2. e.job = j
    OBVIOUS
  <2> HIDE DEF e
  <2> QED BY <2>1, <2>2
<1>11. CASE UNCHANGED vars
  BY <1>11 DEF vars, EventsOfBegun
<1> HIDE DEF Kept, Added
<1> QED BY <1>1, <1>2, <1>3, <1>4, <1>5, <1>6, <1>7, <1>8, <1>9, <1>10, <1>11 DEF Next, Rest

\* The runners' jobs stay those of the fleet.
LEMMA ServedRunStep ==
  ASSUME NoOtherTakers, IInv, RunnersLabelled, ServedRun, [Next]_vars PROVE ServedRun'
<1> DEFINE Kept == \A i \in Jobs : job'[i].state = "running" => job[i].state = "running" \/ Served(i)
           Added == \A e \in events' \ events : e.name # NoName => Served(e.job)
<1>0. events \subseteq Calls /\ Unassigned
  BY Types DEF IInv, FleetOK
<1>1. ASSUME Kept, Added PROVE ServedRun'
  BY <1>1 DEF ServedRun
<1>2. ASSUME NEW e \in events, Deliver(e) \/ Lose(e) PROVE Kept /\ Added
  BY <1>2 DEF Deliver, Lose
<1>3. ASSUME NEW m \in completed, Replace(m) PROVE Kept /\ Added
  BY <1>3 DEF Replace
<1>4. ASSUME NEW s \in Slots, Pick(s) \/ Forget(s) \/ Exit(s) PROVE Kept /\ Added
  BY <1>4 DEF Pick, Forget, Exit
<1>5. ASSUME NEW s \in Slots, NEW j \in Jobs, Assign(j, s) PROVE Kept /\ Added
  <2>1. Served(j) /\ UNCHANGED events /\ \A i \in Jobs : i # j => job'[i] = job[i]
    BY <1>5, AssignServed, Types DEF Assign, IInv
  <2> QED BY <2>1
<1>6. ASSUME NEW s \in Slots, NEW j \in Jobs, Finish(j, s) PROVE Kept /\ Added
  <2>1. events' = events \cup {Event("completed", j)}
    BY <1>6 DEF Finish
  <2>2. Event("completed", j).job = j
    BY DEF Event
  <2>3. Served(j)
    BY <1>6 DEF Finish, ServedRun
  <2> QED BY <1>6, <2>1, <2>2, <2>3, FinishEffect
<1>7. ASSUME NEW j \in Jobs, Queue(j) PROVE Kept /\ Added
  <2>1. events' = events \cup {Event("queued", j)} /\ job[j].runner = NoName
    BY <1>0, <1>7 DEF Queue, Unassigned
  <2>2. Event("queued", j).name = NoName
    BY <2>1 DEF Event
  <2>3. job'[j].state = "waiting" /\ \A i \in Jobs : i # j => job'[i] = job[i]
    BY <1>7, Types DEF Queue, IInv, JobRecord
  <2> QED BY <2>1, <2>2, <2>3
<1>8. ASSUME NEW j \in Jobs, Cancel(j) PROVE Kept /\ Added
  <2>1. events' = events \cup {Event("completed", j)} /\ job[j].runner = NoName
    BY <1>0, <1>8 DEF Cancel, Unassigned
  <2>2. Event("completed", j).name = NoName
    BY <2>1 DEF Event
  <2> QED BY <1>8, <2>1, <2>2, CancelEffect
<1>9. ASSUME NEW j \in Jobs, Redeliver(j) PROVE Kept /\ Added
  <2> DEFINE e == [action |-> "queued", job |-> j, name |-> NoName]
  <2>1. events' = events \cup {e} /\ UNCHANGED job
    BY <1>9 DEF Redeliver
  <2>2. e.name = NoName
    OBVIOUS
  <2> HIDE DEF e
  <2> QED BY <2>1, <2>2
<1>10. CASE UNCHANGED vars
  BY <1>10 DEF vars, ServedRun
<1> HIDE DEF Kept, Added
<1> QED BY <1>1, <1>2, <1>3, <1>4, <1>5, <1>6, <1>7, <1>8, <1>9, <1>10 DEF Next, Rest

-----------------------------------------------------------------------------
(* What a step costs the fleet.                                            *)

Same     == UNCHANGED lost /\ \A k \in Kinds : Surplus(k)' = Surplus(k)
Grows(j) == UNCHANGED lost /\ \A k \in Kinds : \/ Surplus(k)' = Surplus(k)
                                               \/ IsOf(j, k) /\ Surplus(k)' = Surplus(k) + 1
Falls    == \A k \in Kinds : \/ lost'[k] = lost[k] /\ Surplus(k)' = Surplus(k)
                             \/ lost'[k] = lost[k] + 1 /\ Surplus(k)' = Surplus(k) - 1

\* Nothing; or the use of one VM, with or without what it brings; or one
\* runner too many of one kind.
StepCost ==
    \/ UNCHANGED budget /\ Same /\ Stuck' \subseteq Stuck
    \/ Disrupt /\ Falls /\ \E s : Stuck' \subseteq Stuck \cup {s}
    \/ Disrupt /\ (\E j \in Jobs : Grows(j)) /\ Stuck' \subseteq Stuck

\* What is counted is the same, and so is the surplus.
LEMMA SameCounts ==
  ASSUME NEW k \in Kinds, Waiters(k)' = Waiters(k), QueuedEvents(k)' = QueuedEvents(k),
         Runners(k)' = Runners(k), UNCHANGED queue
  PROVE  Surplus(k)' = Surplus(k)
<1>1. StoredJobs(k)' = StoredJobs(k)
  BY DEF StoredJobs
<1> QED BY <1>1 DEF Surplus

\* A step at one slot that takes back no report can make only this one stuck.
LEMMA StuckOne ==
  ASSUME NEW s \in Slots, \A t \in Slots : t # s => vm'[t] = vm[t],
         completed \subseteq completed', events \subseteq events'
  PROVE  /\ Stuck' \subseteq Stuck \cup {s}
         /\ vm'[s].state \notin {"gone", "done"} \/ (vm'[s].state = "done" /\ Reported(s)')
              => Stuck' \subseteq Stuck
<1>1. ASSUME NEW t \in Slots, t \in Stuck', t # s PROVE t \in Stuck
  BY <1>1 DEF Stuck, Reported
<1>2. Stuck' \subseteq Slots
  BY DEF Stuck
<1>3. ASSUME vm'[s].state \notin {"gone", "done"} \/ (vm'[s].state = "done" /\ Reported(s)')
      PROVE s \notin Stuck'
  <2>1. s \in Stuck' => /\ vm'[s].state \in {"gone", "done"}
                        /\ vm'[s].state = "gone" \/ ~(\E m \in completed' \cup events' : m.name = RunnerName[s])
    BY DEF Stuck, Reported
  <2>2. CASE vm'[s].state \notin {"gone", "done"}
    BY <2>1, <2>2
  <2>3. CASE vm'[s].state # "gone" /\ Reported(s)'
    BY <2>1, <2>3 DEF Reported
  <2> QED BY <1>3, <2>2, <2>3
<1> QED BY <1>1, <1>2, <1>3

\* Delivery turns a queued event into a stored job of the same kind.
LEMMA DeliverCost ==
  ASSUME IInv, IInv', SideOK, NEW e \in events, Deliver(e) PROVE StepCost
<1>1. e \in Calls /\ UNCHANGED <<vm, budget, lost>> /\ events' = events \ {e} /\ completed \subseteq completed'
  BY Types DEF Deliver, IInv
<1>2. ASSUME NEW s \in Slots, vm[s].state = "done", Reported(s) PROVE Reported(s)'
  <2>1. PICK m \in completed \cup events : m.name = RunnerName[s]
    BY <1>2 DEF Reported
  <2>2. CASE m # e \/ m \in completed
    BY <1>1, <2>1, <2>2 DEF Reported
  <2>3. CASE m = e
    <3>1. e.name = RunnerName[s] /\ e.name # NoName
      BY <2>1, <2>3, NameParts
    <3>2. e.action = "completed"
      BY <1>1, <3>1 DEF IInv, FleetOK, Unassigned, Calls
    <3>3. Served(e.job)
      BY <3>1 DEF SideOK, ServedRun
    <3>4. RunsOnSelfHosted(e.job)
      BY <3>3, OrderSet DEF Served, RunsOnSelfHosted, Labels
    <3>5. Accepts(HostOf(e.name))
      <4>1. HostOf(e.name) \in Hosts
        BY <3>1, NameParts, SlotParts
      <4> QED BY <4>1, PipelineAssumption DEF Accepts
    <3>6. completed' = completed \cup {[host |-> HostOf(e.name), name |-> e.name, job |-> e.job]}
      BY <3>2, <3>4, <3>5 DEF Deliver
    <3>7. PICK n : n = [host |-> HostOf(e.name), name |-> e.name, job |-> e.job]
      OBVIOUS
    <3>8. n \in completed' /\ n.name = e.name
      BY <3>6, <3>7
    <3> QED BY <3>1, <3>8 DEF Reported
  <2> QED BY <2>2, <2>3
<1>3. Stuck' \subseteq Stuck
  BY <1>1, <1>2 DEF Stuck
<1>4. Same
  BY <1>1, DeliverSurplus DEF Same, SideOK
<1> QED BY <1>1, <1>3, <1>4 DEF StepCost

\* What is counted of a kind changes by what a step says is lost of it.
LEMMA FallsByOne ==
  ASSUME IInv, NEW x, Loses(x), NEW k \in Kinds,
         Surplus(k)' = IF k = x THEN Surplus(k) - 1 ELSE Surplus(k)
  PROVE  \/ lost'[k] = lost[k] /\ Surplus(k)' = Surplus(k)
         \/ lost'[k] = lost[k] + 1 /\ Surplus(k)' = Surplus(k) - 1
<1>1. lost' = [lost EXCEPT ![x] = @ + 1] /\ DOMAIN lost = Kinds
  BY Types DEF Loses, IInv
<1> QED BY <1>1

\* A lost completed event was the report of one VM, and a lost queued event
\* would have brought a runner of its kind.
LEMMA LoseCost == ASSUME IInv, SideOK, NEW e \in events, Lose(e) PROVE StepCost
<1>1. /\ UNCHANGED <<job, queue, vm, completed>> /\ events' = events \ {e}
      /\ e.action = "queued" \/ e.name # NoName
      /\ Disrupt
  BY DEF Lose
<1>2. ASSUME NEW k \in Kinds
      PROVE  /\ Waiters(k)' = Waiters(k) /\ Runners(k)' = Runners(k) /\ StoredJobs(k)' = StoredJobs(k)
             /\ QueuedEvents(k)' = QueuedEvents(k) \ {e}
  BY <1>1 DEF Waiters, Runners, StoredJobs, QueuedEvents
<1>3. CASE e.name # NoName
  <2>1. PICK s \in Slots : e.name = RunnerName[s]
    BY <1>3 DEF IInv, FleetOK, EventsDone
  <2>2. Stuck' \subseteq Stuck \cup {s}
    <3>1. ASSUME NEW t \in Slots, t # s, Reported(t) PROVE Reported(t)'
      <4>1. RunnerName[t] # e.name
        BY <2>1, <3>1, NamesDistinct
      <4> QED BY <1>1, <3>1, <4>1 DEF Reported
    <3> QED BY <1>1, <3>1 DEF Stuck
  <2>3. e.action # "queued" /\ UNCHANGED lost
    BY <1>3 DEF IInv, FleetOK, Unassigned, Lose
  <2>4. ASSUME NEW k \in Kinds PROVE Surplus(k)' = Surplus(k)
    <3>1. QueuedEvents(k)' = QueuedEvents(k)
      BY <1>2, <2>3 DEF QueuedEvents
    <3> QED BY <1>1, <1>2, <3>1, SameCounts
  <2> QED BY <1>1, <2>2, <2>3, <2>4 DEF StepCost, Falls
<1>4. CASE e.name = NoName
  <2>1. Stuck' \subseteq Stuck
    <3>1. ASSUME NEW t \in Slots, Reported(t) PROVE Reported(t)'
      BY <1>1, <1>4, <3>1, NameParts DEF Reported
    <3> QED BY <1>1, <3>1 DEF Stuck
  <2>2. e.action = "queued"
    BY <1>1, <1>4
  <2>3. ASSUME NEW k \in Kinds
        PROVE  \/ lost'[k] = lost[k] /\ Surplus(k)' = Surplus(k)
               \/ lost'[k] = lost[k] + 1 /\ Surplus(k)' = Surplus(k) - 1
    <3>1. /\ IsFiniteSet(QueuedEvents(k)) /\ Cardinality(QueuedEvents(k)) \in Nat
          /\ Cardinality(Waiters(k)) \in Nat /\ Cardinality(StoredJobs(k)) \in Nat
          /\ Cardinality(Runners(k)) \in Nat
      BY Counts DEF Countable, SideOK
    <3>2. e \in QueuedEvents(k) <=> IsOf(e.job, k)
      BY <2>2 DEF QueuedEvents
    <3>3. Surplus(k)' = IF IsOf(e.job, k) THEN Surplus(k) - 1 ELSE Surplus(k)
      <4>1. Cardinality(QueuedEvents(k)') = IF IsOf(e.job, k) THEN Cardinality(QueuedEvents(k)) - 1
                                                           ELSE Cardinality(QueuedEvents(k))
        BY <1>2, <3>1, <3>2, FS_RemoveElement
      <4> QED BY <1>2, <3>1, <4>1 DEF Surplus
    <3>4. CASE Served(e.job)
      <4>1. Loses(KindOf(e.job)) /\ (IsOf(e.job, k) <=> k = KindOf(e.job))
        BY <2>2, <3>4 DEF Lose, IsOf
      <4> QED BY <3>3, <4>1, FallsByOne
    <3>5. CASE ~Served(e.job)
      <4>1. UNCHANGED lost /\ ~IsOf(e.job, k)
        BY <3>5 DEF Lose, IsOf
      <4> QED BY <3>3, <4>1
    <3> QED BY <3>4, <3>5
  <2> QED BY <1>1, <2>1, <2>3 DEF StepCost, Falls
<1> QED BY <1>3, <1>4

\* A replacement takes a finished runner, which counted for no kind.
LEMMA ReplaceCost == ASSUME IInv, NEW m \in completed, Replace(m) PROVE StepCost
<1>1. UNCHANGED <<job, events, queue, budget, lost>> /\ completed' = completed \ {m}
  BY DEF Replace
<1>2. PICK s \in Slots : /\ vm[s].state = "done" /\ vm'[s].state = "waiting"
                         /\ m.name = RunnerName[s]
                         /\ \A t \in Slots : t # s => vm'[t] = vm[t]
  BY ReplaceEffect
<1>3. Stuck' \subseteq Stuck
  <2>1. ASSUME NEW t \in Slots, t # s, Reported(t) PROVE Reported(t)'
    <3>1. RunnerName[t] # m.name
      BY <1>2, <2>1, NamesDistinct
    <3> QED BY <1>1, <2>1, <3>1 DEF Reported
  <2> QED BY <1>2, <2>1 DEF Stuck
<1>4. ASSUME NEW k \in Kinds PROVE Surplus(k)' = Surplus(k)
  <2>1. Waiters(k)' = Waiters(k) /\ QueuedEvents(k)' = QueuedEvents(k)
    BY <1>1 DEF Waiters, QueuedEvents
  <2>2. Runners(k)' = Runners(k)
    BY <1>2 DEF Runners
  <2> QED BY <1>1, <2>1, <2>2, SameCounts
<1> QED BY <1>1, <1>3, <1>4 DEF StepCost, Same

\* A pick turns a stored job into a runner of the same kind.
LEMMA PickCost == ASSUME IInv, IInv', SideOK, NEW s \in Slots, Pick(s) PROVE StepCost
<1>1. UNCHANGED <<events, completed, budget, lost>>
  BY DEF Pick
<1>2. vm'[s].state = "idle" /\ \A t \in Slots : t # s => vm'[t] = vm[t]
  <2>1. PICK l \in Labels : vm' = [vm EXCEPT ![s] = Registration(Head(queue[l]))]
    BY DEF Pick
  <2> QED BY <2>1, Types DEF IInv, Registration
<1>3. Stuck' \subseteq Stuck
  BY <1>1, <1>2, StuckOne
<1>4. Same
  BY <1>1, PickSurplus DEF Same, SideOK
<1> QED BY <1>1, <1>3, <1>4 DEF StepCost

\* A message whose confirmation is lost would have brought a runner of its kind.
LEMMA ForgetCost == ASSUME IInv, IInv', SideOK, NEW s \in Slots, Forget(s) PROVE StepCost
<1>1. UNCHANGED <<job, events, completed, vm>> /\ Disrupt
  BY DEF Forget
<1>2. PICK l \in Labels : Takes(l) /\ Loses(KindOf(Head(queue[l])))
  BY DEF Forget
<1>3. Served(Head(queue[l]))
  BY <1>2, TakesEffect, OrderSet DEF Served
<1>4. Stuck' \subseteq Stuck
  BY <1>1 DEF Stuck, Reported
<1>5. ASSUME NEW k \in Kinds
      PROVE  \/ lost'[k] = lost[k] /\ Surplus(k)' = Surplus(k)
             \/ lost'[k] = lost[k] + 1 /\ Surplus(k)' = Surplus(k) - 1
  <2>1. Waiters(k)' = Waiters(k) /\ Runners(k)' = Runners(k) /\ QueuedEvents(k)' = QueuedEvents(k)
    BY <1>1 DEF Waiters, Runners, QueuedEvents
  <2>2. /\ Cardinality(QueuedEvents(k)) \in Nat
        /\ Cardinality(Waiters(k)) \in Nat /\ Cardinality(StoredJobs(k)) \in Nat
        /\ Cardinality(Runners(k)) \in Nat
    BY Counts DEF Countable, SideOK
  <2>3. Cardinality(StoredJobs(k)') = IF IsOf(Head(queue[l]), k) THEN Cardinality(StoredJobs(k)) - 1
                                                                ELSE Cardinality(StoredJobs(k))
    BY <1>2, TakesCount DEF SideOK
  <2>4. IsOf(Head(queue[l]), k) <=> k = KindOf(Head(queue[l]))
    BY <1>3 DEF IsOf
  <2>5. Surplus(k)' = IF k = KindOf(Head(queue[l])) THEN Surplus(k) - 1 ELSE Surplus(k)
    BY <2>1, <2>2, <2>3, <2>4 DEF Surplus
  <2> QED BY <1>2, <2>5, FallsByOne
<1> QED BY <1>1, <1>4, <1>5 DEF StepCost, Falls

\* An exit costs its own slot, and the runner if it had one.
LEMMA ExitCost == ASSUME IInv, SideOK, NEW s \in Slots, Exit(s) PROVE StepCost
<1>1. UNCHANGED <<job, events, queue, completed>> /\ Disrupt
  BY DEF Exit
<1>2. /\ vm[s].state \in {"waiting", "idle"} /\ vm'[s].state = "gone"
      /\ \A t \in Slots : t # s => vm'[t] = vm[t]
  BY ExitEffect
<1>3. Stuck' \subseteq Stuck \cup {s}
  BY <1>1, <1>2, StuckOne
<1> DEFINE x == [repo |-> vm[s].repo, label |-> vm[s].label]
<1>4. ASSUME NEW k \in Kinds
      PROVE  \/ lost'[k] = lost[k] /\ Surplus(k)' = Surplus(k)
             \/ lost'[k] = lost[k] + 1 /\ Surplus(k)' = Surplus(k) - 1
  <2>1. Waiters(k)' = Waiters(k) /\ QueuedEvents(k)' = QueuedEvents(k) /\ StoredJobs(k)' = StoredJobs(k)
    BY <1>1 DEF Waiters, QueuedEvents, StoredJobs
  <2>2. /\ Cardinality(QueuedEvents(k)) \in Nat
        /\ Cardinality(Waiters(k)) \in Nat /\ Cardinality(StoredJobs(k)) \in Nat
        /\ Cardinality(Runners(k)) \in Nat /\ IsFiniteSet(Runners(k))
    BY Counts DEF Countable, SideOK
  <2>3. Runners(k)' = Runners(k) \ {s}
    BY <1>2 DEF Runners
  <2>4. s \in Runners(k) <=> vm[s].state = "idle" /\ k = x
    <3>1. PICK i \in Jobs : k = [repo |-> RepoOf[i], label |-> LabelsOf[i][1]]
      BY DEF Kinds, KindOf
    <3> QED BY <3>1 DEF Runners
  <2>5. Surplus(k)' = IF s \in Runners(k) THEN Surplus(k) - 1 ELSE Surplus(k)
    <3>1. Cardinality(Runners(k)') = IF s \in Runners(k) THEN Cardinality(Runners(k)) - 1
                                                         ELSE Cardinality(Runners(k))
      BY <2>2, <2>3, FS_RemoveElement
    <3> QED BY <2>1, <2>2, <3>1 DEF Surplus
  <2>6. CASE vm[s].state = "idle"
    <3>1. Loses(x)
      BY <2>6 DEF Exit
    <3> QED BY <2>4, <2>5, <2>6, <3>1, FallsByOne
  <2>7. CASE vm[s].state # "idle"
    <3>1. UNCHANGED lost
      BY <2>7 DEF Exit
    <3> QED BY <2>4, <2>5, <2>7, <3>1
  <2> QED BY <2>6, <2>7
<1> QED BY <1>1, <1>3, <1>4 DEF StepCost, Falls

\* An assignment takes a job that waits and a runner, of the same kind.
LEMMA AssignCost ==
  ASSUME NoOtherTakers, IInv, SideOK, NEW s \in Slots, NEW j \in Jobs, Assign(j, s) PROVE StepCost
<1>1. UNCHANGED <<events, completed, budget, lost>>
  BY DEF Assign
<1>2. vm'[s].state = "busy" /\ \A t \in Slots : t # s => vm'[t] = vm[t]
  BY Types DEF Assign, VMRecord, IInv
<1>3. Stuck' \subseteq Stuck
  BY <1>1, <1>2, StuckOne
<1>4. Same
  BY <1>1, AssignSurplus DEF Same, SideOK
<1> QED BY <1>1, <1>3, <1>4 DEF StepCost

\* A finished job had its runner, which reports it at once.
LEMMA FinishCost == ASSUME IInv, NEW s \in Slots, NEW j \in Jobs, Finish(j, s) PROVE StepCost
<1>1. /\ UNCHANGED <<queue, completed, budget, lost>> /\ events' = events \cup {Event("completed", j)}
      /\ job[j].runner = RunnerName[s]
  BY DEF Finish
<1>2. /\ vm[s].state = "busy" /\ vm'[s].state = "done"
      /\ \A t \in Slots : t # s => vm'[t] = vm[t]
      /\ job[j].state = "running" /\ job'[j].state = "finished"
      /\ \A i \in Jobs : i # j => job'[i] = job[i]
  BY FinishEffect
<1>3. PICK e : e = Event("completed", j)
  OBVIOUS
<1>4. e.action = "completed" /\ e.name = RunnerName[s] /\ events' = events \cup {e}
  BY <1>1, <1>3 DEF Event
<1>5. Stuck' \subseteq Stuck
  <2>1. Reported(s)'
    BY <1>4 DEF Reported
  <2> QED BY <1>1, <1>2, <1>4, <2>1, StuckOne
<1>6. ASSUME NEW k \in Kinds PROVE Surplus(k)' = Surplus(k)
  <2>1. Waiters(k)' = Waiters(k)
    BY <1>2 DEF Waiters
  <2>2. QueuedEvents(k)' = QueuedEvents(k)
    BY <1>4 DEF QueuedEvents
  <2>3. Runners(k)' = Runners(k)
    BY <1>2 DEF Runners
  <2> QED BY <1>1, <2>1, <2>2, <2>3, SameCounts
<1> QED BY <1>1, <1>5, <1>6 DEF StepCost, Same

\* A queued job comes with its event.
LEMMA QueueCost == ASSUME IInv, SideOK, NEW j \in Jobs, Queue(j) PROVE StepCost
<1>1. UNCHANGED <<queue, completed, vm, budget, lost>> /\ events \subseteq events'
  BY DEF Queue
<1>2. Stuck' \subseteq Stuck
  BY <1>1 DEF Stuck, Reported
<1>3. Same
  BY <1>1, QueueSurplus DEF Same, SideOK
<1> QED BY <1>1, <1>2, <1>3 DEF StepCost

\* The queued event of a job that is cancelled is not taken back.
LEMMA CancelCost == ASSUME IInv, SideOK, NEW j \in Jobs, Cancel(j) PROVE StepCost
<1>1. /\ UNCHANGED <<queue, completed, vm, lost>> /\ events' = events \cup {Event("completed", j)}
      /\ Disrupt
  BY DEF Cancel
<1>2. /\ job[j].state = "waiting" /\ job'[j].state = "cancelled"
      /\ \A i \in Jobs : i # j => job'[i] = job[i]
  BY CancelEffect
<1>3. PICK e : e = Event("completed", j)
  OBVIOUS
<1>4. e.action = "completed" /\ events' = events \cup {e}
  BY <1>1, <1>3 DEF Event
<1>5. Stuck' \subseteq Stuck
  BY <1>1, <1>4 DEF Stuck, Reported
<1>6. ASSUME NEW k \in Kinds
      PROVE  Surplus(k)' = Surplus(k) \/ (IsOf(j, k) /\ Surplus(k)' = Surplus(k) + 1)
  <2>1. QueuedEvents(k)' = QueuedEvents(k) /\ Runners(k)' = Runners(k)
        /\ StoredJobs(k)' = StoredJobs(k)
    BY <1>1, <1>4 DEF QueuedEvents, Runners, StoredJobs
  <2>2. /\ IsFiniteSet(Waiters(k)) /\ Cardinality(Waiters(k)) \in Nat
        /\ Cardinality(QueuedEvents(k)) \in Nat /\ Cardinality(StoredJobs(k)) \in Nat
        /\ Cardinality(Runners(k)) \in Nat
    BY Counts DEF Countable, SideOK
  <2>3. Waiters(k)' = Waiters(k) \ {j} /\ (j \in Waiters(k) <=> IsOf(j, k))
    BY <1>2 DEF Waiters
  <2>4. Cardinality(Waiters(k)') = IF IsOf(j, k) THEN Cardinality(Waiters(k)) - 1
                                                 ELSE Cardinality(Waiters(k))
    BY <2>2, <2>3, FS_RemoveElement
  <2> QED BY <2>1, <2>2, <2>4 DEF Surplus
<1> QED BY <1>1, <1>5, <1>6 DEF StepCost, Grows

\* A second queued event brings one runner of its kind too many.
LEMMA RedeliverCost == ASSUME IInv, SideOK, NEW j \in Jobs, Redeliver(j) PROVE StepCost
<1>1. PICK e : e = [action |-> "queued", job |-> j, name |-> NoName]
  OBVIOUS
<1>2. UNCHANGED <<job, queue, completed, vm, lost>> /\ events' = events \cup {e} /\ Disrupt
  BY <1>1 DEF Redeliver
<1>3. e.action = "queued" /\ e.job = j
  BY <1>1
<1>4. Stuck' \subseteq Stuck
  BY <1>2 DEF Stuck, Reported
<1>5. ASSUME NEW k \in Kinds
      PROVE  Surplus(k)' = Surplus(k) \/ (IsOf(j, k) /\ Surplus(k)' = Surplus(k) + 1)
  <2>1. Waiters(k)' = Waiters(k) /\ Runners(k)' = Runners(k) /\ StoredJobs(k)' = StoredJobs(k)
    BY <1>2 DEF Waiters, Runners, StoredJobs
  <2>2. /\ IsFiniteSet(QueuedEvents(k)) /\ Cardinality(QueuedEvents(k)) \in Nat
        /\ Cardinality(Waiters(k)) \in Nat /\ Cardinality(StoredJobs(k)) \in Nat
        /\ Cardinality(Runners(k)) \in Nat
    BY Counts DEF Countable, SideOK
  <2>3. CASE IsOf(j, k) /\ e \notin events
    <3>1. QueuedEvents(k)' = QueuedEvents(k) \cup {e} /\ e \notin QueuedEvents(k)
      BY <1>2, <1>3, <2>3 DEF QueuedEvents
    <3>2. Cardinality(QueuedEvents(k)') = Cardinality(QueuedEvents(k)) + 1
      BY <2>2, <3>1, FS_AddElement
    <3> QED BY <2>1, <2>2, <2>3, <3>2 DEF Surplus
  <2>4. CASE ~(IsOf(j, k) /\ e \notin events)
    <3>1. QueuedEvents(k)' = QueuedEvents(k)
      BY <1>2, <1>3, <2>4 DEF QueuedEvents
    <3> QED BY <2>1, <3>1 DEF Surplus
  <2> QED BY <2>3, <2>4
<1> QED BY <1>2, <1>4, <1>5 DEF StepCost, Grows

\* Every step costs nothing, or is a disruption and costs one slot or one runner.
LEMMA NextCost ==
  ASSUME NoOtherTakers, IInv, IInv', SideOK, [Next]_vars PROVE StepCost
<1>1. CASE UNCHANGED vars
  <2>1. Stuck' \subseteq Stuck /\ UNCHANGED <<budget, lost>>
    BY <1>1 DEF vars, Stuck, Reported
  <2>2. ASSUME NEW k \in Kinds PROVE Surplus(k)' = Surplus(k)
    <3>1. /\ Waiters(k)' = Waiters(k) /\ QueuedEvents(k)' = QueuedEvents(k)
          /\ Runners(k)' = Runners(k) /\ UNCHANGED queue
      BY <1>1 DEF vars, Waiters, QueuedEvents, Runners
    <3> QED BY <3>1, SameCounts
  <2> QED BY <2>1, <2>2 DEF StepCost, Same
<1> QED BY <1>1, DeliverCost, LoseCost, ReplaceCost, PickCost, ForgetCost, ExitCost, AssignCost, FinishCost,
           QueueCost, CancelCost, RedeliverCost DEF Next, Rest

-----------------------------------------------------------------------------
(* The theorems.                                                           *)

Balance == \A k \in Kinds : Surplus(k) + lost[k] >= 0

\* With a balance, Excess is the surplus, and what is missing was lost.
Measured ==
    \A k \in Kinds : /\ Surplus(k) \in Int
                     /\ Excess(k) = IF Surplus(k) > 0 THEN Surplus(k) ELSE 0
                     /\ Demand(k) <= Supply(k) + lost[k]

SInv == IInv /\ SideOK /\ Balance

\* Under the invariant, the counts are numbers and none is below what was lost.
LEMMA Measures == SInv => Measured
<1> SUFFICES ASSUME SInv, NEW k \in Kinds
             PROVE  /\ Surplus(k) \in Int
                    /\ Excess(k) = IF Surplus(k) > 0 THEN Surplus(k) ELSE 0
                    /\ Demand(k) <= Supply(k) + lost[k]
  BY DEF Measured
<1>1. /\ Cardinality(QueuedEvents(k)) \in Nat /\ Cardinality(StoredJobs(k)) \in Nat
      /\ Cardinality(Runners(k)) \in Nat /\ Cardinality(Waiters(k)) \in Nat
  BY Counts DEF Countable, SInv, SideOK
<1>2. Supply(k) = Cardinality(QueuedEvents(k)) + Cardinality(StoredJobs(k)) + Cardinality(Runners(k))
  BY DEF Supply, QueuedEvents, StoredJobs, Runners
<1>3. Demand(k) = Cardinality(Waiters(k))
  BY DEF Demand, Waiters
<1>4. Surplus(k) + lost[k] >= 0 /\ lost[k] \in Nat
  BY PipelineAssumption DEF SInv, Balance, IInv, TypeOK
<1> QED BY <1>1, <1>2, <1>3, <1>4 DEF Surplus, Excess

\* At first no job waits.
LEMMA SupplyInit ==
  ASSUME Init PROVE SInv /\ \A k \in Kinds : Surplus(k) = 0
<1>1. IInv
  BY InitInvariant
<1>2. EventsOfBegun
  BY FS_EmptySet DEF EventsOfBegun, Init
<1>3. RunnersLabelled /\ ServedRun
  BY DEF RunnersLabelled, ServedRun, Init, Waiting
<1>4. ASSUME NEW k \in Kinds PROVE Surplus(k) = 0
  <2>1. Waiters(k) = {} /\ QueuedEvents(k) = {} /\ Runners(k) = {}
    BY DEF Waiters, QueuedEvents, Runners, Init, Waiting
  <2>2. StoredJobs(k) = {}
    <3>1. queue[k.label] = <<>>
      BY KindFacts DEF Init
    <3> QED BY <3>1 DEF StoredJobs
  <2> QED BY <2>1, <2>2, FS_EmptySet DEF Surplus
<1>5. \A k \in Kinds : lost[k] = 0
  BY DEF Init
<1> QED BY <1>1, <1>2, <1>3, <1>4, <1>5 DEF SInv, SideOK, Balance

\* The invariant with the balance of every kind is inductive.
LEMMA SupplyStep ==
  ASSUME NoOtherTakers, SInv, [Next]_vars PROVE SInv' /\ StepCost
<1>1. IInv' /\ RunnersLabelled' /\ EventsOfBegun' /\ ServedRun'
  BY NextInvariant, RunnersLabelledStep, EventsOfBegunStep, ServedRunStep DEF SInv, SideOK
<1>2. StepCost
  BY <1>1, NextCost DEF SInv
<1>3. ASSUME NEW k \in Kinds PROVE Surplus(k)' + lost'[k] >= 0
  <2>1. Surplus(k) \in Int /\ Surplus(k) + lost[k] >= 0 /\ lost[k] \in Nat
    BY Measures, PipelineAssumption DEF Measured, SInv, Balance, IInv, TypeOK
  <2>2. \/ lost'[k] = lost[k] /\ (Surplus(k)' = Surplus(k) \/ Surplus(k)' = Surplus(k) + 1)
        \/ lost'[k] = lost[k] + 1 /\ Surplus(k)' = Surplus(k) - 1
    BY <1>2 DEF StepCost, Same, Grows, Falls
  <2> QED BY <2>1, <2>2
<1> QED BY <1>1, <1>2, <1>3 DEF SInv, SideOK, Balance

\* It is an invariant of the fleet.
LEMMA SupplyInvariant == ASSUME NoOtherTakers PROVE Spec => []SInv
<1>1. Init => SInv
  BY SupplyInit
<1>2. SInv /\ [Next]_vars => SInv'
  BY SupplyStep
<1> QED BY <1>1, <1>2, PTL DEF Spec

\* The jobs that wait of a kind have as many queued events, stored jobs and
\* registered runners of that kind, but for those that were lost of it: as long
\* as no workflow asks for so little that its job takes the runners of several
\* kinds.
THEOREM SupplySafe == ASSUME NoOtherTakers PROVE Spec => []Supplied
<1>1. SInv => Supplied
  BY Measures DEF Measured, Supplied
<1> QED BY <1>1, SupplyInvariant, PTL

\* A set that gets at most one element is one larger at most.
LEMMA OneMore ==
  ASSUME NEW S, IsFiniteSet(S), NEW x, NEW T, T \subseteq S \cup {x}
  PROVE  /\ IsFiniteSet(T) /\ Cardinality(T) \in Nat /\ Cardinality(S) \in Nat
         /\ Cardinality(T) <= Cardinality(S) + 1
<1>1. IsFiniteSet(S \cup {x}) /\ Cardinality(S) \in Nat
      /\ (Cardinality(S \cup {x}) = Cardinality(S) \/ Cardinality(S \cup {x}) = Cardinality(S) + 1)
  BY FS_AddElement, FS_CardinalityType
<1>2. IsFiniteSet(T) /\ Cardinality(T) <= Cardinality(S \cup {x})
  BY <1>1, FS_Subset
<1>3. Cardinality(T) \in Nat
  BY <1>2, FS_CardinalityType
<1> QED BY <1>1, <1>2, <1>3

\* Only one kind is that of a job, and if its surplus grows by one, so do the
\* extras.
LEMMA ExtrasGrow ==
  ASSUME Measured, Measured', NEW j \in Jobs, Grows(j)
  PROVE  \E x : Extras' \subseteq Extras \cup {x}
<1>1. \A k \in Kinds : Excess(k) \in Nat /\ Excess(k)' \in Nat
                       /\ (Excess(k)' = Excess(k) \/ (IsOf(j, k) /\ Excess(k)' = Excess(k) + 1))
  BY DEF Measured, Grows
<1> DEFINE k0 == [repo |-> RepoOf[j], label |-> LabelsOf[j][1]]
           x  == <<k0, Excess(k0) + 1>>
<1>2. \A k \in Kinds : IsOf(j, k) => k = k0
  BY DEF IsOf, KindOf
<1> HIDE DEF k0
<1>3. ASSUME NEW k \in Kinds, NEW n \in 1 .. Excess(k)' PROVE <<k, n>> \in Extras \cup {x}
  <2>1. CASE n \in 1 .. Excess(k)
    BY <2>1 DEF Extras
  <2>2. CASE n \notin 1 .. Excess(k)
    <3>1. n = Excess(k) + 1 /\ IsOf(j, k)
      BY <1>1, <1>3, <2>2
    <3> QED BY <1>2, <3>1
  <2> QED BY <2>1, <2>2
<1>4. Extras' = UNION {{k} \X (1 .. Excess(k)') : k \in Kinds}
  BY DEF Extras
<1> HIDE DEF x
<1>5. Extras' \subseteq Extras \cup {x}
  BY <1>3, <1>4
<1> QED BY <1>5

\* If no surplus grows, there are no other runners too many.
LEMMA ExtrasSame ==
  ASSUME Measured, Measured', Same \/ Falls PROVE Extras' \subseteq Extras
<1>1. \A k \in Kinds : Excess(k) \in Nat /\ Excess(k)' \in Nat /\ Excess(k)' <= Excess(k)
  BY DEF Measured, Same, Falls
<1>2. ASSUME NEW k \in Kinds, NEW n \in 1 .. Excess(k)' PROVE n \in 1 .. Excess(k)
  BY <1>1
<1> QED BY <1>2 DEF Extras

\* A step that costs one slot or runner has spent one disruption.
LEMMA CapacityStep ==
  ASSUME SInv, SInv', StepCost, IsFiniteSet(Extras), CapacityKept
  PROVE  IsFiniteSet(Extras)' /\ CapacityKept'
<1>0. /\ Measured /\ Measured'
      /\ budget \in Nat /\ budget' \in Nat /\ MaxDisruptions \in Nat
  <2>1. Measured
    BY Measures
  <2>2. SInv' => Measured'
    BY Measures, PTL
  <2>3. budget \in 0 .. MaxDisruptions /\ budget' \in 0 .. MaxDisruptions
    BY DEF SInv, IInv, TypeOK
  <2> QED BY <2>1, <2>2, <2>3, PipelineAssumption
<1>1. IsFiniteSet(Stuck) /\ Cardinality(Stuck) \in Nat /\ Cardinality(Extras) \in Nat
  <2>1. Stuck \subseteq Slots
    BY DEF Stuck
  <2> QED BY <2>1, SlotsFinite, FS_Subset, FS_CardinalityType
<1>2. Cardinality(Extras) + Cardinality(Stuck) <= MaxDisruptions - budget
  BY DEF CapacityKept
<1>3. ASSUME Stuck' \subseteq Stuck
      PROVE  Cardinality(Stuck') \in Nat /\ Cardinality(Stuck') <= Cardinality(Stuck)
  BY <1>1, <1>3, FS_Subset, FS_CardinalityType
<1>7. ASSUME Same \/ Falls
      PROVE  /\ IsFiniteSet(Extras') /\ Cardinality(Extras') \in Nat
             /\ Cardinality(Extras') <= Cardinality(Extras)
  <2>1. Extras' \subseteq Extras
    BY <1>0, <1>7, ExtrasSame
  <2> QED BY <2>1, FS_Subset, FS_CardinalityType
<1>4. CASE UNCHANGED budget /\ Same /\ Stuck' \subseteq Stuck
  BY <1>0, <1>1, <1>2, <1>3, <1>4, <1>7 DEF CapacityKept
<1>5. CASE Disrupt /\ Falls /\ \E s : Stuck' \subseteq Stuck \cup {s}
  <2>2. Cardinality(Stuck') \in Nat /\ Cardinality(Stuck') <= Cardinality(Stuck) + 1
    BY <1>1, <1>5, OneMore
  <2>3. budget' = budget - 1
    BY <1>5 DEF Disrupt
  <2> QED BY <1>0, <1>1, <1>2, <1>5, <1>7, <2>2, <2>3 DEF CapacityKept
<1>6. CASE Disrupt /\ (\E j \in Jobs : Grows(j)) /\ Stuck' \subseteq Stuck
  <2>1. PICK x : Extras' \subseteq Extras \cup {x}
    BY <1>0, <1>6, ExtrasGrow
  <2>2. IsFiniteSet(Extras') /\ Cardinality(Extras') \in Nat
        /\ Cardinality(Extras') <= Cardinality(Extras) + 1
    BY <2>1, OneMore
  <2>3. budget' = budget - 1
    BY <1>6 DEF Disrupt
  <2> QED BY <1>0, <1>1, <1>2, <1>3, <1>6, <2>2, <2>3 DEF CapacityKept
<1> QED BY <1>4, <1>5, <1>6 DEF StepCost

\* What the fleet has lost, slots nobody frees and runners nobody will ask for,
\* is at most one VM for each disruption: all other steps, in whatever order
\* jobs, events, messages and VMs take them, leave it as it is or make it less.
THEOREM CapacitySafe == ASSUME NoOtherTakers PROVE Spec => []CapacityKept
<1> DEFINE CInv == SInv /\ IsFiniteSet(Extras) /\ CapacityKept
<1>1. Init => CInv
  <2> SUFFICES ASSUME Init PROVE CInv
    OBVIOUS
  <2>1. SInv /\ \A k \in Kinds : Excess(k) = 0
    BY SupplyInit, Measures DEF Measured
  <2>2. Extras = {}
    BY <2>1 DEF Extras
  <2>3. Stuck = {}
    BY DEF Stuck, Init, Waiting
  <2>4. IsFiniteSet(Extras) /\ Cardinality(Extras) = 0 /\ Cardinality(Stuck) = 0
    BY <2>2, <2>3, FS_EmptySet
  <2> QED BY <2>1, <2>4, PipelineAssumption DEF CapacityKept, Init
<1>2. CInv /\ [Next]_vars => CInv'
  BY SupplyStep, CapacityStep
<1>3. CInv => CapacityKept
  OBVIOUS
<1> HIDE DEF CInv
<1> QED BY <1>1, <1>2, <1>3, PTL DEF Spec

=============================================================================

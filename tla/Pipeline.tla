------------------------------ MODULE Pipeline ------------------------------
(***************************************************************************)
(* The fleet as a whole: GitHub's jobs, the webhook that routes their      *)
(* events into the two streams (SubmitPayload), the VMs that take queued   *)
(* jobs from one of them and register runners, and the host controllers    *)
(* that replace a VM when the other one names it.                          *)
(*                                                                         *)
(* A VM and its slot are one step here where RunnerHost and JobQueue have  *)
(* many: those modules check that a message stops and replaces one VM, and *)
(* that a stored job goes to one VM.                                       *)
(*                                                                         *)
(* A queued event is only a token.  The runner registers for the           *)
(* repository and the label of the job in the event, and GitHub gives it   *)
(* any waiting job that matches.                                           *)
(***************************************************************************)
EXTENDS Naturals, Sequences, FiniteSets, SequencesExt

CONSTANTS Hosts,          \* host names, as sequences of their parts between dashes
          Instances,      \* --fc.num-instances of each host
          Jobs,           \* workflow jobs
          RepoOf,         \* the repository of a job ...
          LabelsOf,       \* ... and what it says after runs-on
          None,           \* no runner
          MaxDisruptions  \* bound on the steps that may cost a VM its use

\* RunnerHigh, RunnerRegular and RunnerTestrig; VMs without --testrig read the
\* first two.
Labels == {"f0", "firecracker", "testrig"}
Order  == <<"f0", "firecracker">>

\* The numbers of slots; a host has room for 64 in its network (VmNetwork).
Numbers == 0 .. 99

ASSUME PipelineAssumption ==
    /\ Hosts \subseteq Seq(STRING) \ {<<>>} /\ IsFiniteSet(Hosts)
    /\ Instances \in [Hosts -> 0 .. 100]
    /\ IsFiniteSet(Jobs)
    /\ DOMAIN RepoOf = Jobs
    /\ LabelsOf \in [Jobs -> Seq(STRING)]
    /\ MaxDisruptions \in Nat

\* Two numbers are never printed alike.
ASSUME DecimalAssumption ==
    \A i, k \in Numbers : ToString(i) = ToString(k) => i = k

Slots == UNION {{h} \X (0 .. Instances[h] - 1) : h \in Hosts}

\* hostname-instance, the name of the VM of a slot and of its runner.
RunnerName == [s \in Slots |-> Append(s[1], ToString(s[2]))]

\* What an event carries while no runner has the job: an empty name.
NoName == <<"">>
Names  == {RunnerName[s] : s \in Slots} \cup {NoName}

\* The jobs this fleet is for, those with a single label the VMs read, and
\* their kinds: a job and a runner of one kind are made for each other.
Served(j) == Len(LabelsOf[j]) = 1 /\ LabelsOf[j][1] \in ToSet(Order)
KindOf(j) == [repo |-> RepoOf[j], label |-> LabelsOf[j][1]]
Kinds     == {KindOf(j) : j \in {i \in Jobs : Served(i)}}

VARIABLES
    job,        \* GitHub's jobs: state, and the name of the runner that has it
    events,     \* webhook calls GitHub has yet to make
    queue,      \* gha_queued: the stored jobs of each label, oldest first
    completed,  \* gha_completed: host of the subject, runner name of the payload
    vm,         \* of each slot: the state of its VM, and the runner's registration
    budget,     \* disruptions that may still happen
    lost        \* history: of each kind, how often what brings a runner was lost

vars == <<job, events, queue, completed, vm, budget, lost>>

Waiting == [state |-> "waiting", repo |-> None, label |-> None]

Init ==
    /\ job = [j \in Jobs |-> [state |-> "new", runner |-> NoName]]
    /\ events = {}
    /\ queue = [l \in Labels |-> <<>>]
    /\ completed = {}
    /\ vm = [s \in Slots |-> Waiting]
    /\ budget = MaxDisruptions
    /\ lost = [k \in Kinds |-> 0]

Loses(k) == lost' = [lost EXCEPT ![k] = @ + 1]

Disrupt == budget > 0 /\ budget' = budget - 1

-----------------------------------------------------------------------------
(* The webhook.                                                            *)

\* Mutation: the label of the urgent jobs is forgotten.
RunsOnSelfHostedRegular(j) ==
    Len(LabelsOf[j]) = 1 /\ LabelsOf[j][1] \in Labels \ {"f0"}

RunsOnSelfHosted(j) == Len(LabelsOf[j]) = 1 /\ LabelsOf[j][1] \in Labels

\* Mutation: the host is what comes before the first dash.
HostOfFirst(name) == IF Len(name) = 1 THEN <<>> ELSE <<name[1]>>

\* All parts of the runner's name but the last.
HostOf(name) == Front(name)

\* Mutation: the stream is created for gha_completed.> .
AcceptsAny(host) == TRUE

\* The stream is there for gha_completed.*: the host must not be empty.
Accepts(host) == host # <<>>

\* SubmitPayload, when the webhook runs and the stream can be reached (else
\* Lose).  Publishing to a subject no stream has is an error, and the answer
\* 400; either way GitHub does not call again.
Deliver(e) ==
    /\ events' = events \ {e}
    /\ queue' =
         IF e.action = "queued" /\ RunsOnSelfHosted(e.job)
         THEN [queue EXCEPT ![LabelsOf[e.job][1]] = Append(@, e.job)] ELSE queue
    /\ completed' =
         IF e.action = "completed" /\ RunsOnSelfHosted(e.job) /\ Accepts(HostOf(e.name))
         THEN completed \cup {[host |-> HostOf(e.name), name |-> e.name, job |-> e.job]}
         ELSE completed
    /\ UNCHANGED <<job, vm, budget, lost>>

-----------------------------------------------------------------------------
(* The VMs and their hosts.                                                *)

\* Mutation: job_vars.txt does not set the label.
RegistrationNoLabel(j) ==
    [state |-> "idle", repo |-> RepoOf[j], label |-> "firecracker"]

\* job_vars.txt: the scope and the label the runner registers with.
Registration(j) ==
    [state |-> "idle", repo |-> RepoOf[j], label |-> LabelsOf[j][1]]

\* The message wait-for-job gets: the oldest of the first subject that has one.
Takes(l) ==
    /\ queue[l] # <<>>
    /\ \E k \in DOMAIN Order : /\ l = Order[k]
                               /\ \A i \in 1 .. k - 1 : queue[Order[i]] = <<>>
    /\ queue' = [queue EXCEPT ![l] = Tail(@)]

\* wait-for-job takes a job, and start-runner.sh registers a runner for it.
Pick(s) ==
    /\ vm[s].state = "waiting"
    /\ \E l \in Labels : /\ Takes(l)
                         /\ vm' = [vm EXCEPT ![s] = Registration(Head(queue[l]))]
    /\ UNCHANGED <<job, events, completed, budget, lost>>

\* The message is acknowledged and deleted, but the confirmation is lost: the
\* VM waits for the next one.
Forget(s) ==
    /\ vm[s].state = "waiting"
    /\ Disrupt
    /\ \E l \in Labels : Takes(l) /\ Loses(KindOf(Head(queue[l])))
    /\ UNCHANGED <<job, events, completed, vm>>

\* StopRunner: the number that ends the runner's name.
InstanceOf(name) == CHOOSE i \in Numbers : ToString(i) = Last(name)

\* Mutation: the worker does not start a new VM.
RestartedGone == [state |-> "gone", repo |-> None, label |-> None]

\* What is in the slot after StopRunner, Next and StartRunner.
Restarted == Waiting

\* ProcessCompletedJobs: a host reads the messages of its own subject.
Replace(m) ==
    /\ m.host \in Hosts
    /\ LET s == <<m.host, InstanceOf(m.name)>> IN
         vm' = [vm EXCEPT ![s] = Restarted]
    /\ completed' = completed \ {m}
    /\ UNCHANGED <<job, events, queue, budget, lost>>

\* A VM exits while it waits for a message, or after it took one and before
\* GitHub gave its runner a job; start-runner.sh may also fail there.  Nobody
\* tells the host.  (The job of a VM that exits later ends: Finish.)
Exit(s) ==
    /\ vm[s].state \in {"waiting", "idle"}
    /\ Disrupt
    /\ vm' = [vm EXCEPT ![s].state = "gone"]
    /\ IF vm[s].state = "idle" THEN Loses([repo |-> vm[s].repo, label |-> vm[s].label])
                               ELSE UNCHANGED lost
    /\ UNCHANGED <<job, events, queue, completed>>

-----------------------------------------------------------------------------
(* GitHub.                                                                 *)

Event(action, j) == [action |-> action, job |-> j, name |-> job[j].runner]

\* A workflow queues a job.
Queue(j) ==
    /\ job[j].state = "new"
    /\ job' = [job EXCEPT ![j].state = "waiting"]
    /\ events' = events \cup {Event("queued", j)}
    /\ UNCHANGED <<queue, completed, vm, budget, lost>>

\* A registered runner has GitHub's own label self-hosted besides the given one.
Matches(j, s) ==
    /\ vm[s].state = "idle" /\ vm[s].repo = RepoOf[j]
    /\ ToSet(LabelsOf[j]) \subseteq {"self-hosted", vm[s].label}

\* Any waiting job that matches, whichever job the VM was started for.
Assign(j, s) ==
    /\ job[j].state = "waiting"
    /\ Matches(j, s)
    /\ job' = [job EXCEPT ![j] = [state |-> "running", runner |-> RunnerName[s]]]
    /\ vm' = [vm EXCEPT ![s].state = "busy"]
    /\ UNCHANGED <<events, queue, completed, budget, lost>>

\* The job ends; the runner is ephemeral and takes no other.
Finish(j, s) ==
    /\ job[j].state = "running"
    /\ job[j].runner = RunnerName[s]
    /\ job' = [job EXCEPT ![j].state = "finished"]
    /\ events' = events \cup {Event("completed", j)}
    /\ vm' = [vm EXCEPT ![s].state = "done"]
    /\ UNCHANGED <<queue, completed, budget, lost>>

\* The workflow is cancelled before a runner has the job: the completed event
\* names no runner, and the queued event or message is not taken back.
Cancel(j) ==
    /\ job[j].state = "waiting"
    /\ Disrupt
    /\ job' = [job EXCEPT ![j].state = "cancelled"]
    /\ events' = events \cup {Event("completed", j)}
    /\ UNCHANGED <<queue, completed, vm, lost>>

\* The queued event of an open job is sent once more.  It is published without
\* a message ID, so the stream does not recognise it.
Redeliver(j) ==
    /\ job[j].state \in {"waiting", "running"}
    /\ Disrupt
    /\ events' = events \cup {[action |-> "queued", job |-> j, name |-> NoName]}
    /\ UNCHANGED <<job, queue, completed, vm, lost>>

\* An event does not reach the webhook, or cannot be published.  (Deliver has
\* no effect either on a completed event that names no runner.)
Lose(e) ==
    /\ e.action = "queued" \/ e.name # NoName
    /\ Disrupt
    /\ events' = events \ {e}
    /\ IF e.action = "queued" /\ Served(e.job) THEN Loses(KindOf(e.job)) ELSE UNCHANGED lost
    /\ UNCHANGED <<job, queue, completed, vm>>

-----------------------------------------------------------------------------
(* Supply and demand: of each kind, the jobs that wait for a runner, and    *)
(* what brings one: queued events, stored messages, registered runners.    *)

IsOf(j, k) == Served(j) /\ KindOf(j) = k

Demand(k) == Cardinality({j \in Jobs : job[j].state = "waiting" /\ IsOf(j, k)})

Supply(k) ==
    Cardinality({e \in events : e.action = "queued" /\ IsOf(e.job, k)})
    + Cardinality({i \in DOMAIN queue[k.label] : IsOf(queue[k.label][i], k)})
    + Cardinality({s \in Slots : vm[s].state = "idle" /\ vm[s].repo = k.repo
                                                     /\ vm[s].label = k.label})

-----------------------------------------------------------------------------
\* Nothing is left to do but for VMs to wait and exit: every job is over, or
\* waits for what was lost.
Rest == /\ \A j \in Jobs : Served(j) =>
             \/ job[j].state \in {"finished", "cancelled"}
             \/ job[j].state = "waiting" /\ Supply(KindOf(j)) = 0
        /\ UNCHANGED vars

Next ==
    \/ \E e \in events : Deliver(e) \/ Lose(e)
    \/ \E m \in completed : Replace(m)
    \/ \E s \in Slots : \/ Pick(s) \/ Forget(s) \/ Exit(s)
                        \/ \E j \in Jobs : Assign(j, s) \/ Finish(j, s)
    \/ \E j \in Jobs : Queue(j) \/ Cancel(j) \/ Redeliver(j)
    \/ Rest

Spec == Init /\ [][Next]_vars

\* GitHub makes its calls, assigns jobs and ends them; the VMs that wait look
\* at the queue again and again; the hosts handle their messages (SlotReturned
\* and SlotRefilled of RunnerHost).
Fairness ==
    /\ WF_vars(\E e \in events : Deliver(e))
    /\ WF_vars(\E m \in completed : Replace(m))
    /\ WF_vars(\E s \in Slots : Pick(s))
    /\ WF_vars(\E s \in Slots, j \in Jobs : Assign(j, s))
    /\ WF_vars(\E s \in Slots, j \in Jobs : Finish(j, s))

FairSpec == Spec /\ Fairness

-----------------------------------------------------------------------------
TypeOK ==
    /\ job \in [Jobs -> [state : {"new", "waiting", "running", "finished", "cancelled"},
                         runner : Names]]
    /\ events \subseteq [action : {"queued", "completed"}, job : Jobs, name : Names]
    /\ queue \in [Labels -> Seq(Jobs)]
    /\ completed \subseteq [host : Hosts, name : Names, job : Jobs]
    /\ vm \in [Slots -> [state : {"waiting", "idle", "busy", "done", "gone"},
                         repo : {RepoOf[j] : j \in Jobs} \cup {None},
                         label : Labels \cup {None}]]
    /\ budget \in 0 .. MaxDisruptions
    /\ lost \in [Kinds -> 0 .. MaxDisruptions]

\* A stored completed message names the VM in that very slot of that very
\* host, and the runner in it has finished the job: across host names that
\* contain dashes, no VM is replaced while it waits for a job or runs one.
ReplacesOnlyFinished ==
    \A m \in completed :
      \E s \in Slots : /\ m.host = s[1] /\ m.name = RunnerName[s]
                       /\ InstanceOf(m.name) = s[2]
                       /\ vm[s].state = "done"

\* Nothing goes astray but what a disruption takes: for each waiting job there
\* is something that will bring a runner of its kind, or one such thing was
\* lost (an event that was not published, a message whose confirmation was, a
\* VM that had taken it).  Runners and jobs are not paired, other jobs take the
\* runners meant for them, and a cancelled job, an event sent twice or a lost
\* completed event never leaves a job without.
Supplied == \A k \in Kinds : Demand(k) <= Supply(k) + lost[k]

\* Slots nobody will ever free: the runner is done and its event is lost, or
\* the VM is gone.
Reported(s) == \E m \in completed \cup events : m.name = RunnerName[s]

Stuck == {s \in Slots : vm[s].state = "gone" \/ (vm[s].state = "done" /\ ~Reported(s))}

\* What will bring a runner, or is one, in excess of the jobs of its kind: so
\* many of each kind.  In the end these are runners that hold their slots and
\* wait for a job.
Excess(k) == IF Supply(k) > Demand(k) THEN Supply(k) - Demand(k) ELSE 0

Extras == UNION {{k} \X (1 .. Excess(k)) : k \in Kinds}

\* A step that is not a disruption costs the fleet no VM, and a disruption (a
\* job cancelled early, an event sent twice or lost, a lost message, a VM that
\* exits) costs it one at most.
CapacityKept ==
    Cardinality(Extras) + Cardinality(Stuck) <= MaxDisruptions - budget

\* In the end no more jobs of a kind wait for a runner than were lost of what
\* brings one, and none waits while there is still something that would bring
\* it, as long as there are more VMs than disruptions: where nothing was lost,
\* every job runs or is cancelled.
JobsGetRunners ==
    \A k \in Kinds :
        <>[](Demand(k) <= lost[k] /\ (Demand(k) = 0 \/ Supply(k) = 0))
=============================================================================

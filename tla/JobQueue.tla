------------------------------ MODULE JobQueue ------------------------------
(***************************************************************************)
(* How the runners of all hosts share the queued jobs: `wait-for-job`      *)
(* inside each machine against the work-queue stream gha_queued.  A        *)
(* machine goes through its subjects in order of preference.  For each it  *)
(* creates a consumer, fetches one message, acknowledges it and deletes    *)
(* the consumer; each of the four is a call to NATS that may fail, and     *)
(* another machine may come in between.                                    *)
(*                                                                         *)
(* NATS (external): a work-queue stream admits one consumer per subject; a *)
(* message stays at its place until it is acknowledged through the         *)
(* consumer that delivered it; a consumer nobody uses is removed.          *)
(***************************************************************************)
EXTENDS Naturals, Sequences, FiniteSets, SequencesExt

CONSTANTS VMs,         \* machines that wait for a job
          Testrig,     \* those of them that run wait-for-job --testrig
          Jobs,        \* self-hosted jobs GitHub queues
          LabelOf,     \* the single label of each job
          None,        \* no machine, no job
          FaultKinds,  \* "call", "reply", "slow", "crash": what may go wrong ...
          MaxFaults    \* ... and a bound on how often

\* Values of the constants RunnerTestrig, RunnerHigh and RunnerRegular.
Labels == {"testrig", "f0", "firecracker"}

ASSUME QueueAssumption ==
    /\ Testrig \subseteq VMs
    /\ LabelOf \in [Jobs -> Labels]
    /\ None \notin VMs \cup Jobs
    /\ FaultKinds \subseteq {"call", "reply", "slow", "crash"}
    /\ MaxFaults \in Nat

VARIABLES
    queue,      \* gha_queued: the stored jobs of each subject, oldest first
    consumer,   \* the machine whose consumer filters on the subject
    pc,         \* what each machine does next
    at,         \* the position of the subject it is at
    got,        \* the message it has fetched
    state,      \* of each job: new, published, or picked by how many machines
    faults,     \* faults that may still happen
    waiting,    \* history: jobs stored when the machine began its pass ...
    refused     \* ... and the subjects it could not look at

serverVars == <<queue, consumer>>
vmVars     == <<pc, at, got>>
history    == <<waiting, refused>>
vars       == <<serverVars, vmVars, state, faults, history>>

\* Mutation: testrig is put after the others.
OrderTestrigLast(v) ==
    <<"f0", "firecracker">> \o (IF v \in Testrig THEN <<"testrig">> ELSE <<>>)

\* The order of wait_until_job, testrig first for those that prefer it.
Order(v) ==
    (IF v \in Testrig THEN <<"testrig">> ELSE <<>>) \o <<"f0", "firecracker">>

Subject(v) == Order(v)[at[v]]

Stored == UNION {ToSet(queue[s]) : s \in Labels}

Fault(k) == /\ k \in FaultKinds /\ faults > 0
            /\ faults' = faults - 1

Goto(v, label) == pc' = [pc EXCEPT ![v] = label]

Init ==
    /\ queue = [s \in Labels |-> <<>>]
    /\ consumer = [s \in Labels |-> None]
    /\ pc = [v \in VMs |-> "begin"]
    /\ at = [v \in VMs |-> 1]
    /\ got = [v \in VMs |-> None]
    /\ state = [j \in Jobs |-> [published |-> FALSE, picks |-> 0]]
    /\ faults = MaxFaults
    /\ waiting = [v \in VMs |-> {}]
    /\ refused = [v \in VMs |-> {}]

-----------------------------------------------------------------------------
(* SubmitPayload: a queued event is stored under the label of its job.     *)
Publish(j) ==
    /\ ~state[j].published
    /\ state' = [state EXCEPT ![j].published = TRUE]
    /\ queue' = [queue EXCEPT ![LabelOf[j]] = Append(@, j)]
    /\ UNCHANGED <<consumer, vmVars, faults, history>>

-----------------------------------------------------------------------------
(* wait_until_job and consumeMsg.                                          *)

\* A new pass over the subjects.
Begin(v) ==
    /\ pc[v] = "begin"
    /\ at' = [at EXCEPT ![v] = 1]
    /\ waiting' = [waiting EXCEPT ![v] = Stored]
    /\ refused' = [refused EXCEPT ![v] = {}]
    /\ Goto(v, "create")
    /\ UNCHANGED <<serverVars, got, state, faults>>

\* The stream cannot be looked up: the pass ends with an error.
BeginFails(v) ==
    /\ pc[v] = "begin"
    /\ Fault("call") \/ Fault("reply")
    /\ Goto(v, "sleep")
    /\ UNCHANGED <<serverVars, at, got, state, history>>

\* Mutation: the test for the last subject is off by one.
NextSubjectOffByOne(v) ==
    IF at[v] <= Len(Order(v))
    THEN at' = [at EXCEPT ![v] = @ + 1] /\ Goto(v, "create")
    ELSE UNCHANGED at /\ Goto(v, "sleep")

\* consumeMsg returns without a payload: the next subject, or, after the
\* last one, status waiting and ten seconds of sleep.
NextSubject(v) ==
    IF at[v] < Len(Order(v))
    THEN at' = [at EXCEPT ![v] = @ + 1] /\ Goto(v, "create")
    ELSE UNCHANGED at /\ Goto(v, "sleep")

Refuse(v) == refused' = [refused EXCEPT ![v] = @ \cup {Subject(v)}]

\* CreateOrUpdateConsumer is refused while another consumer has the subject.
Create(v) ==
    /\ pc[v] = "create"
    /\ IF consumer[Subject(v)] = None
       THEN /\ consumer' = [consumer EXCEPT ![Subject(v)] = v]
            /\ Goto(v, "fetch")
            /\ UNCHANGED <<at, refused>>
       ELSE NextSubject(v) /\ Refuse(v) /\ UNCHANGED consumer
    /\ UNCHANGED <<queue, got, state, faults, waiting>>

\* The call fails; the server may have created the consumer all the same.
CreateFails(v) ==
    /\ pc[v] = "create"
    /\ \/ Fault("call") /\ UNCHANGED consumer
       \/ /\ Fault("reply") /\ consumer[Subject(v)] = None
          /\ consumer' = [consumer EXCEPT ![Subject(v)] = v]
    /\ NextSubject(v) /\ Refuse(v)
    /\ UNCHANGED <<queue, got, state, waiting>>

\* FetchNoWait(1): the oldest message, or none.  It fails without consumer.
Fetch(v) ==
    /\ pc[v] = "fetch"
    /\ IF consumer[Subject(v)] = v /\ queue[Subject(v)] # <<>>
       THEN /\ got' = [got EXCEPT ![v] = Head(queue[Subject(v)])]
            /\ Goto(v, "ack")
       ELSE UNCHANGED got /\ Goto(v, "delete")
    /\ IF consumer[Subject(v)] = v THEN UNCHANGED refused ELSE Refuse(v)
    /\ UNCHANGED <<serverVars, at, state, faults, waiting>>

FetchFails(v) ==
    /\ pc[v] = "fetch"
    /\ Fault("call") \/ Fault("reply")
    /\ Refuse(v)
    /\ Goto(v, "delete")
    /\ UNCHANGED <<serverVars, at, got, state, waiting>>

\* DoubleAck takes the message out of the stream and confirms it.  Without
\* the consumer it fails, and consumeMsg returns the error and no payload.
Ack(v) ==
    /\ pc[v] = "ack"
    /\ IF consumer[Subject(v)] = v
       THEN /\ queue' = [queue EXCEPT ![Subject(v)] = Tail(@)]
            /\ UNCHANGED <<got, refused>>
       ELSE got' = [got EXCEPT ![v] = None] /\ Refuse(v) /\ UNCHANGED queue
    /\ Goto(v, "delete")
    /\ UNCHANGED <<consumer, at, state, faults, waiting>>

\* Mutation: the payload is returned whatever DoubleAck says.
AckFailsKeepsPayload(v) ==
    /\ pc[v] = "ack"
    /\ \/ Fault("call") /\ UNCHANGED queue
       \/ /\ Fault("reply") /\ consumer[Subject(v)] = v
          /\ queue' = [queue EXCEPT ![Subject(v)] = Tail(@)]
    /\ Refuse(v)
    /\ Goto(v, "delete")
    /\ UNCHANGED <<consumer, at, got, state, waiting>>

\* The acknowledgement does not arrive, or only its confirmation does not.
AckFails(v) ==
    /\ pc[v] = "ack"
    /\ \/ Fault("call") /\ UNCHANGED queue
       \/ /\ Fault("reply") /\ consumer[Subject(v)] = v
          /\ queue' = [queue EXCEPT ![Subject(v)] = Tail(@)]
    /\ got' = [got EXCEPT ![v] = None]
    /\ Refuse(v)
    /\ Goto(v, "delete")
    /\ UNCHANGED <<consumer, at, state, waiting>>

\* Mutation: the loop over the subjects does not stop at a payload.
DeleteConsumerGoesOn(v) ==
    /\ pc[v] = "delete"
    /\ \/ /\ consumer' = [consumer EXCEPT ![Subject(v)] = IF @ = v THEN None ELSE @]
          /\ UNCHANGED faults
       \/ Fault("call") /\ UNCHANGED consumer
    /\ IF got[v] # None /\ at[v] = Len(Order(v))
       THEN Goto(v, "picked") /\ UNCHANGED <<at, got>>
       ELSE NextSubject(v) /\ got' = [got EXCEPT ![v] = None]
    /\ UNCHANGED <<queue, state, history>>

\* The deferred DeleteConsumer, whose error is only logged.  A payload ends
\* the loop over the subjects and the loop of wait-for-job.
DeleteConsumer(v) ==
    /\ pc[v] = "delete"
    /\ \/ /\ consumer' = [consumer EXCEPT ![Subject(v)] = IF @ = v THEN None ELSE @]
          /\ UNCHANGED faults
       \/ Fault("call") /\ UNCHANGED consumer
    /\ IF got[v] # None
       THEN Goto(v, "picked") /\ UNCHANGED at
       ELSE NextSubject(v)
    /\ UNCHANGED <<queue, got, state, history>>

\* job_vars.txt is written, and the runner registers for the job.
Pick(v) ==
    /\ pc[v] = "picked"
    /\ state' = [state EXCEPT ![got[v]].picks = @ + 1]
    /\ got' = [got EXCEPT ![v] = None]
    /\ waiting' = [waiting EXCEPT ![v] = {}]
    /\ refused' = [refused EXCEPT ![v] = {}]
    /\ Goto(v, "busy")
    /\ UNCHANGED <<serverVars, at, faults>>

\* Mutation: wait-for-job gives up when a pass had an error.
WakeOrGiveUp(v) ==
    /\ pc[v] = "sleep"
    /\ Goto(v, IF refused[v] = {} THEN "begin" ELSE "dead")
    /\ UNCHANGED <<serverVars, at, got, state, faults, history>>

\* Ten seconds later; an error of the pass was only logged.
Wake(v) ==
    /\ pc[v] = "sleep"
    /\ Goto(v, "begin")
    /\ UNCHANGED <<serverVars, at, got, state, faults, history>>

-----------------------------------------------------------------------------
(* Machines come and go; NATS removes consumers that are not used.         *)

\* The job is completed and the host starts a new machine in the slot.
Replace(v) ==
    /\ pc[v] = "busy"
    /\ Goto(v, "begin")
    /\ UNCHANGED <<serverVars, at, got, state, faults, history>>

\* The machine dies without having completed a job: its slot stays taken.
Crash(v) ==
    /\ pc[v] \notin {"busy", "dead"}
    /\ Fault("crash")
    /\ Goto(v, "dead")
    /\ got' = [got EXCEPT ![v] = None]
    /\ UNCHANGED <<serverVars, at, state, history>>

\* hostctl is restarted and starts the machine of that slot again.
Reboot(v) ==
    /\ pc[v] = "dead"
    /\ Goto(v, "begin")
    /\ UNCHANGED <<serverVars, at, got, state, faults, history>>

Using(v, s) == pc[v] \in {"fetch", "ack", "delete"} /\ Subject(v) = s

ExpireConsumer(s) ==
    /\ consumer[s] # None
    /\ IF Using(consumer[s], s) THEN Fault("slow") ELSE UNCHANGED faults
    /\ consumer' = [consumer EXCEPT ![s] = None]
    /\ UNCHANGED <<queue, vmVars, state, history>>

Wait(v) ==
    \/ Begin(v) \/ Create(v) \/ Fetch(v) \/ Ack(v) \/ DeleteConsumer(v)
    \/ Pick(v) \/ Wake(v)

Fail(v) == BeginFails(v) \/ CreateFails(v) \/ FetchFails(v) \/ AckFails(v)

Next ==
    \/ \E j \in Jobs : Publish(j)
    \/ \E v \in VMs : Wait(v) \/ Fail(v) \/ Replace(v) \/ Crash(v) \/ Reboot(v)
    \/ \E s \in Labels : ExpireConsumer(s)

Spec == Init /\ [][Next]_vars

\* A machine that is up keeps trying and is replaced after its job, and NATS
\* removes consumers that are not used.
Fairness ==
    /\ \A v \in VMs : WF_vars(Wait(v)) /\ WF_vars(Replace(v))
    /\ \A s \in Labels : WF_vars(ExpireConsumer(s) /\ UNCHANGED faults)

FairSpec == Spec /\ Fairness

-----------------------------------------------------------------------------
TypeOK ==
    /\ queue \in [Labels -> Seq(Jobs)]
    /\ consumer \in [Labels -> VMs \cup {None}]
    /\ pc \in [VMs -> {"begin", "create", "fetch", "ack", "delete", "picked",
                       "busy", "sleep", "dead"}]
    /\ DOMAIN at = VMs /\ \A v \in VMs : at[v] \in 1 .. Len(Order(v))
    /\ got \in [VMs -> Jobs \cup {None}]
    /\ state \in [Jobs -> [published : BOOLEAN, picks : Nat]]
    /\ faults \in 0 .. MaxFaults
    /\ waiting \in [VMs -> SUBSET Jobs]
    /\ refused \in [VMs -> SUBSET Labels]

\* The machines that have taken job j out of the stream and not yet begun it.
Takers(j) == {v \in VMs : pc[v] \in {"delete", "picked"} /\ got[v] = j}

\* However calls fail and machines die, a job goes to one machine at most:
\* while it is stored nobody has it, and once someone has it, nobody else will.
HandedOutOnce ==
    \A j \in Jobs :
      Cardinality(Takers(j)) + state[j].picks + (IF j \in Stored THEN 1 ELSE 0) <= 1

\* If no call fails and no machine dies, no job disappears between the stream
\* and the machine that is to run it.
NothingLost ==
    \A j \in Jobs : state[j].published =>
      j \in Stored \/ Takers(j) # {} \/ state[j].picks > 0

\* The labels in order of urgency, whichever of them a machine reads.
Rank(label) == CASE label = "testrig" -> 1
                 [] label = "f0" -> 2
                 [] label = "firecracker" -> 3

Reads(v, j) == LabelOf[j] \in ToSet(Order(v))

\* More urgent jobs than the one v has taken, that v reads the subject of and
\* that have been stored since before its pass over the subjects began.
PassedOver(v) ==
    {j \in waiting[v] \cap Stored :
       Reads(v, j) /\ Rank(LabelOf[j]) < Rank(LabelOf[got[v]])}

HasTaken(v) == pc[v] = "picked"

\* A machine takes a job over a more urgent one that was there before its pass
\* began only if it was refused at the subject of that one in this pass.
PassedOverOnlyIfRefused ==
    \A v \in VMs : HasTaken(v) =>
      \A j \in PassedOver(v) : LabelOf[j] \in refused[v]

\* A job some machine of the fleet reads the subject of is picked in the end.
EveryJobPicked ==
    \A j \in Jobs : (state[j].published /\ \E v \in VMs : Reads(v, j))
                      ~> state[j].picks > 0
=============================================================================

------------------------------ MODULE Hostctl ------------------------------
(***************************************************************************)
(* The life of the long-running commands: `hostctl` on every host and      *)
(* `run`, the webhook, on its own machine.  Each connects to NATS, makes   *)
(* sure that both streams exist and goes on to its service; an error or a  *)
(* panic on the way ends the process and systemd starts it again.  hostctl *)
(* serves with the provider it is given, or with none.                     *)
(*                                                                         *)
(* Several hosts share one stream of completed events.  RunnerHost looks   *)
(* into one firecracker host, step by step; here a start or a stop of a    *)
(* machine is one step and always succeeds.                                *)
(***************************************************************************)
EXTENDS Naturals

CONSTANTS Hosts,      \* machines that run hostctl, under distinct names
          Web,        \* the machine that runs the webhook
          MaxSize,    \* the largest --firecracker.num-instances
          MaxEvents,  \* bound on the completed events
          MaxFaults   \* bound on errors, crashes and visits of the operator

ASSUME HostctlAssumption ==
    /\ Web \notin Hosts
    /\ MaxSize \in Nat \ {0}
    /\ MaxEvents \in Nat
    /\ MaxFaults \in Nat

Processes  == Hosts \cup {Web}
Registered == {"firecracker", "linode", "dummy"}
Slots      == 0 .. MaxSize - 1
BadName    == MaxSize  \* the runner's name does not end in a number
Events     == [id : 1 .. MaxEvents, slot : Slots \cup {BadName}]
NoEvent    == [id |-> 0, slot |-> BadName]

Starting   == {"init", "streams", "create", "purge", "consumer"}
Labels     == Starting \cup {"down", "runvms", "serving"}

VARIABLES
    provider,  \* the --provider flag of each host, "none" when it is absent
    size,      \* its --firecracker.num-instances
    pc, at,    \* what each process does next, and the stream it asks for
    streams,   \* the streams that exist in NATS
    consumers, \* the hosts whose durable consumer exists
    stored,    \* the events of each host in the stream gha_completed
    worker,    \* the worker of each host (NumWorkers MUST be 1) ...
    handling,  \* ... and the event it was handed
    vm,        \* the machine of each slot
    issued,    \* events GitHub has sent so far
    kills,     \* how many incarnations each event has ended
    faults     \* faults that may still happen

natsVars == <<streams, consumers>>
hostVars == <<worker, handling, vm>>
vars     == <<provider, size, pc, at, natsVars, stored, hostVars, issued, kills, faults>>

Table(h)   == 0 .. size[h] - 1
NoMachines == [k \in Slots |-> "none"]
Running(h) == pc[h] \in {"runvms", "serving"}

Goto(p, label) == pc' = [pc EXCEPT ![p] = label]
Work(h, label) == worker' = [worker EXCEPT ![h] = label]
Fault          == faults > 0 /\ faults' = faults - 1

Init ==
    /\ provider \in [Hosts -> Registered \cup {"none", "unknown"}]
    /\ size \in [Hosts -> 1 .. MaxSize]
    /\ pc = [p \in Processes |-> "down"]
    /\ at = [p \in Processes |-> "queued"]
    /\ streams = {}
    /\ consumers = {}
    /\ stored = [h \in Hosts |-> {}]
    /\ worker = [h \in Hosts |-> "off"]
    /\ handling = [h \in Hosts |-> NoEvent]
    /\ vm = [h \in Hosts |-> NoMachines]
    /\ issued = 0
    /\ kills = [e \in 1 .. MaxEvents |-> 0]
    /\ faults = MaxFaults

-----------------------------------------------------------------------------
(* Starting and ending.                                                    *)

\* The process is gone; systemd ends the machines of its control group too.
Dies(p) ==
    /\ Goto(p, "down")
    /\ at' = [at EXCEPT ![p] = "queued"]
    /\ worker' = [h \in Hosts |-> IF h = p THEN "off" ELSE worker[h]]
    /\ handling' = [h \in Hosts |-> IF h = p THEN NoEvent ELSE handling[h]]
    /\ vm' = [h \in Hosts |-> IF h = p THEN NoMachines ELSE vm[h]]

\* systemd (Restart=on-failure) starts the command, and one of the attempts
\* of NewConnection (every 100 ms, for 350 ms in all) succeeds.
Restart(p) ==
    /\ pc[p] = "down"
    /\ Goto(p, IF p = Web THEN "streams" ELSE "init")
    /\ UNCHANGED <<provider, size, at, natsVars, stored, hostVars, issued, kills, faults>>

\* New with MustProvider, and Init of the provider if there is one.
InitProvider(h) ==
    /\ pc[h] = "init"
    /\ provider[h] \in Registered \cup {"none"}
    /\ Goto(h, "streams")
    /\ UNCHANGED <<provider, size, at, natsVars, stored, hostVars, issued, kills, faults>>

\* MustProvider panics: no provider of that name is registered.
UnknownProvider(h) ==
    /\ pc[h] = "init"
    /\ provider[h] \notin Registered \cup {"none"}
    /\ Dies(h)
    /\ UNCHANGED <<provider, size, natsVars, stored, issued, kills, faults>>

\* The stream that was asked for is there: on to the next one, or to the service.
StreamThere(p) ==
    \/ /\ at[p] = "queued"
       /\ at' = [at EXCEPT ![p] = "completed"]
       /\ Goto(p, "streams")
    \/ /\ at[p] = "completed"
       /\ at' = [at EXCEPT ![p] = "queued"]
       /\ Goto(p, IF p = Web THEN "serving" ELSE "purge")

\* Mutation: a stream that is not found is taken for one that is.
EnsureNothing(p) ==
    /\ pc[p] = "streams"
    /\ StreamThere(p)
    /\ UNCHANGED <<provider, size, natsVars, stored, hostVars, issued, kills, faults>>

\* EnsureStreams, for one stream after the other: ensureStream asks for it ...
EnsureStream(p) ==
    /\ pc[p] = "streams"
    /\ \/ at[p] \in streams /\ StreamThere(p)
       \/ at[p] \notin streams /\ Goto(p, "create") /\ UNCHANGED at
    /\ UNCHANGED <<provider, size, natsVars, stored, hostVars, issued, kills, faults>>

\* ... and creates it if it was not found.  Another process may have done so in
\* between; again, with the same configuration, it succeeds.
CreateStream(p) ==
    /\ pc[p] = "create"
    /\ streams' = streams \cup {at[p]}
    /\ StreamThere(p)
    /\ UNCHANGED <<provider, size, consumers, stored, hostVars, issued, kills, faults>>

\* Mutations: nothing is purged, or the whole stream is.
PurgeNothing(h) ==
    /\ pc[h] = "purge"
    /\ Goto(h, "consumer")
    /\ UNCHANGED <<provider, size, at, natsVars, stored, hostVars, issued, kills, faults>>

PurgeAll(h) ==
    /\ pc[h] = "purge"
    /\ stored' = [g \in Hosts |-> {}]
    /\ Goto(h, "consumer")
    /\ UNCHANGED <<provider, size, at, natsVars, hostVars, issued, kills, faults>>

\* ProcessCompletedJobs drops the events of this host: they are about
\* machines of an earlier incarnation ...
Purge(h) ==
    /\ pc[h] = "purge"
    /\ stored' = [stored EXCEPT ![h] = {}]
    /\ Goto(h, "consumer")
    /\ UNCHANGED <<provider, size, at, natsVars, hostVars, issued, kills, faults>>

\* Mutation: the durable consumer is named after the stream, one for all.
ConsumerOfStream(h) ==
    /\ pc[h] = "consumer"
    /\ consumers' = consumers \cup {"gha_completed"}
    /\ Work(h, "next")
    /\ Goto(h, "runvms")
    /\ UNCHANGED <<provider, size, at, streams, stored, handling, vm, issued, kills, faults>>

\* ... makes its durable consumer and starts the worker.
CreateConsumer(h) ==
    /\ pc[h] = "consumer"
    /\ consumers' = consumers \cup {h}
    /\ Work(h, "next")
    /\ Goto(h, "runvms")
    /\ UNCHANGED <<provider, size, at, streams, stored, handling, vm, issued, kills, faults>>

FirstFree(h, k) == /\ k \in Table(h) /\ vm[h][k] = "none"
                   /\ \A j \in Table(h) : j < k => vm[h][j] # "none"
Full(h)         == \A k \in Table(h) : vm[h][k] # "none"

\* RunVMs of firecracker: StartRunner in every slot that Next finds.
FillSlot(h) ==
    /\ pc[h] = "runvms" /\ provider[h] = "firecracker"
    /\ \E k \in Table(h) : /\ FirstFree(h, k)
                           /\ vm' = [vm EXCEPT ![h][k] = "up"]
    /\ UNCHANGED <<provider, size, pc, at, natsVars, stored, worker, handling, issued, kills, faults>>

\* Next finds no slot (that of linode never does): Start returns, and the
\* status server runs until the process is told to stop.
Serve(h) ==
    /\ pc[h] = "runvms"
    /\ \/ provider[h] = "firecracker" /\ Full(h)
       \/ provider[h] = "linode"
    /\ Goto(h, "serving")
    /\ UNCHANGED <<provider, size, at, natsVars, stored, hostVars, issued, kills, faults>>

\* Next of dummy always finds one, and its StartRunner does nothing.
LoopForEver(h) == pc[h] = "runvms" /\ provider[h] = "dummy" /\ UNCHANGED vars

\* Without a provider RunVMs calls Next of nil.
NilProvider(h) ==
    /\ pc[h] = "runvms" /\ provider[h] = "none"
    /\ Dies(h)
    /\ UNCHANGED <<provider, size, natsVars, stored, issued, kills, faults>>

\* A step of the start returns an error (no connection in time, a missing
\* file or /dev/kvm, a failed call of NATS): the error reaches main, which
\* panics.
StartFails(p) ==
    /\ pc[p] \in Starting \cup {"down"}
    /\ Fault
    /\ Dies(p)
    /\ UNCHANGED <<provider, size, natsVars, stored, issued, kills>>

\* The process or its machine crashes.
Crash(p) ==
    /\ pc[p] # "down"
    /\ Fault
    /\ Dies(p)
    /\ UNCHANGED <<provider, size, natsVars, stored, issued, kills>>

\* An operator stops hostctl and starts it with another number of instances.
Resize(h) ==
    /\ provider[h] = "firecracker"
    /\ Fault
    /\ Dies(h)
    /\ \E n \in 1 .. MaxSize : size' = [size EXCEPT ![h] = n]
    /\ UNCHANGED <<provider, natsVars, stored, issued, kills>>

-----------------------------------------------------------------------------
(* The worker of a host.                                                   *)

\* Mutation: the worker is started when RunVMs has returned.
ReceiveWhenServing(h) ==
    /\ pc[h] = "serving" /\ worker[h] = "next" /\ h \in consumers
    /\ \E m \in stored[h] : handling' = [handling EXCEPT ![h] = m]
    /\ Work(h, "stop")
    /\ UNCHANGED <<provider, size, pc, at, natsVars, stored, vm, issued, kills, faults>>

\* iter.Next hands out an event that is neither acknowledged nor expired.
\* (Its passing errors, as a missed heartbeat, only bring the next call.)
Receive(h) ==
    /\ Running(h) /\ worker[h] = "next" /\ h \in consumers
    /\ \E m \in stored[h] : handling' = [handling EXCEPT ![h] = m]
    /\ Work(h, "stop")
    /\ UNCHANGED <<provider, size, pc, at, natsVars, stored, vm, issued, kills, faults>>

\* Once its consumer is deleted the iterator is closed: iter.Next returns the
\* same error at once for ever, and the loop spins.
GoDeaf(h) ==
    /\ Running(h) /\ worker[h] = "next" /\ h \notin consumers
    /\ Work(h, "deaf")
    /\ UNCHANGED <<provider, size, pc, at, natsVars, stored, handling, vm, issued, kills, faults>>

Stopping(h) == Running(h) /\ worker[h] = "stop"

\* StopRunner of firecracker ends the machine, if the slot is in use.
StopMachine(h) ==
    /\ Stopping(h) /\ provider[h] = "firecracker"
    /\ handling[h].slot \in Table(h)
    /\ vm' = [vm EXCEPT ![h][handling[h].slot] = "none"]
    /\ Work(h, "ack")
    /\ UNCHANGED <<provider, size, pc, at, natsVars, stored, handling, issued, kills, faults>>

\* It cannot read a number from the name; dummy does nothing; linode finds
\* no instance of its name, or one, that it deletes.
StopNothing(h) ==
    /\ Stopping(h)
    /\ \/ provider[h] = "firecracker" /\ handling[h].slot = BadName
       \/ provider[h] \in {"dummy", "linode"}
    /\ Work(h, "ack")
    /\ UNCHANGED <<provider, size, pc, at, natsVars, stored, handling, vm, issued, kills, faults>>

\* A panic in the worker ends the process: an index the table does not have,
\* no provider to call, or, of linode, a failed ListInstances.
Panic(h) ==
    /\ Stopping(h)
    /\ \/ provider[h] = "firecracker" /\ handling[h].slot \in Slots \ Table(h) /\ UNCHANGED faults
       \/ provider[h] = "none" /\ UNCHANGED faults
       \/ provider[h] = "linode" /\ Fault
    /\ kills' = [kills EXCEPT ![handling[h].id] = @ + 1]
    /\ Dies(h)
    /\ UNCHANGED <<provider, size, natsVars, stored, issued>>

\* DoubleAck removes the event, or fails and leaves it to be delivered again.
Ack(h) ==
    /\ Running(h) /\ worker[h] = "ack"
    /\ \/ stored' = [stored EXCEPT ![h] = @ \ {handling[h]}] /\ UNCHANGED faults
       \/ Fault /\ UNCHANGED stored
    /\ Work(h, "refill")
    /\ UNCHANGED <<provider, size, pc, at, natsVars, handling, vm, issued, kills>>

\* Mutation: no machine is started in place of the one that was stopped.
RefillNothing(h) ==
    /\ Running(h) /\ worker[h] = "refill"
    /\ handling' = [handling EXCEPT ![h] = NoEvent]
    /\ Work(h, "next")
    /\ UNCHANGED <<provider, size, pc, at, natsVars, stored, vm, issued, kills, faults>>

\* Then the worker starts a machine, if Next finds a slot for it.
Refill(h) ==
    /\ Running(h) /\ worker[h] = "refill"
    /\ \/ /\ provider[h] = "firecracker"
          /\ \E k \in Table(h) : FirstFree(h, k) /\ vm' = [vm EXCEPT ![h][k] = "up"]
       \/ (provider[h] = "firecracker" => Full(h)) /\ UNCHANGED vm
    /\ handling' = [handling EXCEPT ![h] = NoEvent]
    /\ Work(h, "next")
    /\ UNCHANGED <<provider, size, pc, at, natsVars, stored, issued, kills, faults>>

-----------------------------------------------------------------------------
(* The world around them.                                                  *)

Send == issued < MaxEvents /\ issued' = issued + 1

Publish(h, k) ==
    /\ Send
    /\ "completed" \in streams
    /\ stored' = [stored EXCEPT ![h] = @ \cup {[id |-> issued + 1, slot |-> k]}]

\* The runner of a machine takes a job, the job ends, GitHub calls, and the
\* webhook publishes the event.
FinishJob(h, k) ==
    /\ vm[h][k] = "up" /\ pc[Web] = "serving"
    /\ vm' = [vm EXCEPT ![h][k] = "done"]
    /\ Publish(h, k)
    /\ UNCHANGED <<provider, size, pc, at, natsVars, worker, handling, kills, faults>>

\* The job ends just as well while the webhook is down, or when it cannot
\* publish the event and answers 400.  GitHub does not call again.
FinishUnheard(h, k) ==
    /\ vm[h][k] = "up"
    /\ Send
    /\ IF pc[Web] = "serving" THEN Fault ELSE UNCHANGED faults
    /\ vm' = [vm EXCEPT ![h][k] = "unheard"]
    /\ UNCHANGED <<provider, size, pc, at, natsVars, stored, worker, handling, kills>>

\* An event of a machine that is no longer there, as it died with an earlier
\* incarnation of its host; one that GitHub sends again; or one of a runner
\* that somebody registered under a name that begins like the host's.
StrayEvent(h, k) ==
    /\ pc[Web] = "serving"
    /\ Publish(h, k)
    /\ UNCHANGED <<provider, size, pc, at, natsVars, hostVars, kills, faults>>

\* An operator deletes the consumer of a host.
DeleteConsumer(h) ==
    /\ h \in consumers
    /\ Fault
    /\ consumers' = consumers \ {h}
    /\ UNCHANGED <<provider, size, pc, at, streams, stored, hostVars, issued, kills>>

-----------------------------------------------------------------------------
\* Nothing is left to do for the processes: only the world can still act.
Settled(h) ==
    /\ pc[h] \in {"serving", "runvms"}
    /\ pc[h] = "runvms" => provider[h] = "dummy"
    /\ \/ worker[h] = "deaf"
       \/ worker[h] = "next" /\ h \in consumers /\ stored[h] = {}

Rest == pc[Web] = "serving" /\ (\A h \in Hosts : Settled(h)) /\ UNCHANGED vars

Start(p)  == Restart(p) \/ EnsureStream(p) \/ CreateStream(p)
Begin(h)  == InitProvider(h) \/ UnknownProvider(h) \/ Purge(h) \/ CreateConsumer(h)
RunVMs(h) == FillSlot(h) \/ Serve(h) \/ LoopForEver(h) \/ NilProvider(h)
Handle(h) == Receive(h) \/ GoDeaf(h) \/ StopMachine(h) \/ StopNothing(h) \/ Panic(h)
             \/ Ack(h) \/ Refill(h)
World(h)  == \/ \E k \in Slots : FinishJob(h, k) \/ FinishUnheard(h, k)
             \/ \E k \in Slots \cup {BadName} : StrayEvent(h, k)
             \/ DeleteConsumer(h)

Next ==
    \/ \E p \in Processes : Start(p) \/ StartFails(p) \/ Crash(p)
    \/ \E h \in Hosts : Begin(h) \/ RunVMs(h) \/ Handle(h) \/ Resize(h) \/ World(h)
    \/ Rest

Spec == Init /\ [][Next]_vars

\* systemd restarts what has failed, a process goes on, and so does its worker.
Fairness ==
    /\ \A p \in Processes : WF_vars(Start(p))
    /\ \A h \in Hosts : WF_vars(Begin(h) \/ RunVMs(h)) /\ WF_vars(Handle(h))

FairSpec == Spec /\ Fairness

-----------------------------------------------------------------------------
(* Properties.                                                             *)

TypeOK ==
    /\ provider \in [Hosts -> Registered \cup {"none", "unknown"}]
    /\ size \in [Hosts -> 1 .. MaxSize]
    /\ pc \in [Processes -> Labels]
    /\ at \in [Processes -> {"queued", "completed"}]
    /\ streams \subseteq {"queued", "completed"}
    /\ consumers \subseteq Hosts
    /\ stored \in [Hosts -> SUBSET Events]
    /\ worker \in [Hosts -> {"off", "next", "stop", "ack", "refill", "deaf"}]
    /\ handling \in [Hosts -> Events \cup {NoEvent}]
    /\ vm \in [Hosts -> [Slots -> {"none", "up", "done", "unheard"}]]
    /\ issued \in 0 .. MaxEvents
    /\ kills \in [1 .. MaxEvents -> Nat]
    /\ faults \in 0 .. MaxFaults

\* An event that ends hostctl (a slot the table does not have, no provider,
\* a failed call of linode) does so once: before the next incarnation reads
\* an event it has purged that one, so that it does not end in the same way.
PoisonOnce == \A e \in 1 .. MaxEvents : kills[e] <= 1

\* Whatever hosts start, fail and purge in the stream they share: the event that
\* was published of a machine whose job is done is still stored for its own host,
\* whose worker can handle it.
NoSlotForgotten ==
    \A h \in Hosts : \A k \in Slots :
        vm[h][k] = "done" => /\ worker[h] # "off"
                             /\ \E m \in stored[h] : m.slot = k

\* Whichever process starts first, and wherever the others fail: one that
\* publishes or consumes finds both streams.
StreamsExist ==
    \A p \in Processes :
        pc[p] \in {"purge", "consumer", "runvms", "serving"} => streams = {"queued", "completed"}

\* Once nothing fails any more, each host with firecracker or linode serves,
\* and a slot of a firecracker host stays without a machine that can take a job
\* only if nobody told the host: the event of its last job was not published,
\* or the worker's consumer was deleted.
Recovered(h) ==
    /\ pc[h] = "serving"
    /\ \/ worker[h] = "deaf"
       \/ provider[h] = "firecracker" => \A k \in Table(h) : vm[h][k] \in {"up", "unheard"}
HostsRecover ==
    <>[](\A h \in Hosts : provider[h] \in {"firecracker", "linode"} => Recovered(h))

\* The events of a host are handled or purged again and again, also where
\* RunVMs never returns (dummy) or ends the process each time (no provider).
EventsDrained ==
    \A h \in Hosts :
        []<>(provider[h] = "unknown" \/ stored[h] = {} \/ worker[h] = "deaf")
=============================================================================

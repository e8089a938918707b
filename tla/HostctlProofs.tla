--------------------------- MODULE HostctlProofs ---------------------------
(***************************************************************************)
(* Proofs about the life of the processes, for every number of hosts,      *)
(* instances, events and faults, and for every choice of providers.        *)
(***************************************************************************)
EXTENDS Hostctl, TLAPS

\* A process that is not (yet) running has neither machines nor a worker, a
\* worker at an event has it from the stream of its host.
Lifecycle ==
    /\ \A h \in Hosts : ~Running(h) => worker[h] = "off" /\ vm[h] = NoMachines
    /\ \A h \in Hosts : Running(h) => worker[h] # "off"
    /\ \A h \in Hosts : worker[h] = "stop" => handling[h] \in stored[h]

\* Machines are those of firecracker, and the event of each that is done has
\* still to be handled.
Attended(h, k) ==
    \E m \in stored[h] : m.slot = k /\ ~(worker[h] = "ack" /\ handling[h] = m)
Machines ==
    \A h \in Hosts : \A k \in Slots :
        /\ vm[h][k] # "none" => provider[h] = "firecracker"
        /\ vm[h][k] = "done" => Attended(h, k)

\* An event is stored once, and one that ended a process is stored only until
\* that process has purged it.
OneCopy ==
    /\ \A h \in Hosts : \A m \in stored[h] : m.id <= issued
    /\ \A h \in Hosts : handling[h] = NoEvent \/ handling[h].id <= issued
    /\ \A g, h \in Hosts : \A m \in stored[g] : \A n \in stored[h] : m.id = n.id => g = h
Poison ==
    /\ \A e \in 1 .. MaxEvents : kills[e] <= 1 /\ (e > issued => kills[e] = 0)
    /\ \A h \in Hosts : \A m \in stored[h] :
         kills[m.id] > 0 => pc[h] \in {"down", "init", "streams", "create", "purge"}

\* The second stream is asked for when the first is there.
Ensuring ==
    /\ StreamsExist
    /\ \A p \in Processes : at[p] = "completed" => "queued" \in streams

IInv == TypeOK /\ Lifecycle /\ Machines /\ OneCopy /\ Poison /\ Ensuring

-----------------------------------------------------------------------------
\* A stream that is there takes its process on.
LEMMA StreamThereEffect ==
  ASSUME TypeOK, NEW p \in Processes, StreamThere(p)
  PROVE  /\ at' \in [Processes -> {"queued", "completed"}]
         /\ \A q \in Processes : q # p => at'[q] = at[q] /\ pc'[q] = pc[q]
         /\ pc' \in [Processes -> Labels]
         /\ \/ at[p] = "queued" /\ pc'[p] = "streams"
            \/ /\ at[p] = "completed" /\ at'[p] = "queued"
               /\ pc'[p] = IF p = Web THEN "serving" ELSE "purge"
<1>1. CASE at[p] = "queued" /\ at' = [at EXCEPT ![p] = "completed"] /\ Goto(p, "streams")
  BY <1>1 DEF TypeOK, Goto, Labels, Starting
<1>2. CASE /\ at[p] = "completed" /\ at' = [at EXCEPT ![p] = "queued"]
           /\ Goto(p, IF p = Web THEN "serving" ELSE "purge")
  BY <1>2 DEF TypeOK, Goto, Labels, Starting
<1> QED BY <1>1, <1>2 DEF StreamThere

\* Asking for a stream and creating it touch nothing but the stream and how far
\* its process is.
LEMMA EnsureEffect ==
  ASSUME TypeOK, NEW p \in Processes, EnsureStream(p) \/ CreateStream(p)
  PROVE  /\ UNCHANGED <<provider, size, consumers, stored, hostVars, issued, kills, faults>>
         /\ at' \in [Processes -> {"queued", "completed"}]
         /\ pc' \in [Processes -> Labels]
         /\ streams \subseteq streams' /\ streams' \subseteq {"queued", "completed"}
         /\ \A h \in Hosts : \/ pc'[h] = pc[h]
                              \/ /\ pc[h] \in {"streams", "create"}
                                 /\ pc'[h] \in {"streams", "create", "purge"}
<1>1. pc[p] \in {"streams", "create"} /\ at[p] \in {"queued", "completed"}
  BY DEF EnsureStream, CreateStream, TypeOK
<1>2. CASE StreamThere(p)
  <2>1. \A h \in Hosts : pc'[h] = pc[h] \/ (pc[h] \in {"streams", "create"} /\ pc'[h] \in {"streams", "purge"})
    BY <1>1, <1>2, StreamThereEffect, HostctlAssumption DEF Processes
  <2>2. CASE EnsureStream(p)
    BY <1>2, <2>1, <2>2, StreamThereEffect DEF EnsureStream, natsVars, TypeOK
  <2>3. CASE CreateStream(p)
    BY <1>1, <1>2, <2>1, <2>3, StreamThereEffect DEF CreateStream, TypeOK
  <2> QED BY <2>2, <2>3
<1>3. CASE ~StreamThere(p)
  <2>1. EnsureStream(p) /\ pc' = [pc EXCEPT ![p] = "create"] /\ UNCHANGED at
    BY <1>3 DEF EnsureStream, CreateStream, Goto
  <2> QED BY <1>1, <2>1 DEF EnsureStream, natsVars, TypeOK, Labels, Starting, Processes
<1> QED BY <1>2, <1>3

\* Every step keeps the types.
LEMMA TypeStep ==
  ASSUME TypeOK, Lifecycle, [Next]_vars
  PROVE  TypeOK'
<1>1. ASSUME NEW p \in Processes, Restart(p) PROVE TypeOK'
  BY <1>1 DEF Restart, natsVars, hostVars, Goto, TypeOK, Labels, Starting
<1>2. ASSUME NEW p \in Processes, EnsureStream(p) \/ CreateStream(p) PROVE TypeOK'
  BY <1>2, EnsureEffect DEF hostVars, TypeOK
<1>3. ASSUME NEW p \in Processes, StartFails(p) PROVE TypeOK'
  BY <1>3, HostctlAssumption DEF StartFails, Starting, natsVars, Dies, Goto, Fault, TypeOK, Processes, Labels, Events, NoEvent, BadName, Slots, NoMachines
<1>4. ASSUME NEW p \in Processes, Crash(p) PROVE TypeOK'
  BY <1>4, HostctlAssumption DEF Crash, natsVars, Dies, Goto, Fault, TypeOK, Processes, Labels, Starting, Events, NoEvent, BadName, Slots, NoMachines
<1>5. ASSUME NEW h \in Hosts, InitProvider(h) PROVE TypeOK'
  BY <1>5 DEF InitProvider, natsVars, hostVars, Goto, TypeOK, Labels, Starting
<1>6. ASSUME NEW h \in Hosts, UnknownProvider(h) PROVE TypeOK'
  BY <1>6 DEF UnknownProvider, natsVars, Dies, Goto, TypeOK, Processes, Labels, Starting, Events, NoEvent, BadName, Slots, NoMachines
<1>7. ASSUME NEW h \in Hosts, Purge(h) PROVE TypeOK'
  BY <1>7 DEF Purge, natsVars, hostVars, Goto, TypeOK, Labels, Starting, Events, BadName
<1>8. ASSUME NEW h \in Hosts, CreateConsumer(h) PROVE TypeOK'
  BY <1>8 DEF CreateConsumer, Work, Goto, TypeOK, Labels, Starting
<1>9. ASSUME NEW h \in Hosts, FillSlot(h) PROVE TypeOK'
  BY <1>9, HostctlAssumption DEF FillSlot, Table, FirstFree, natsVars, hostVars, TypeOK, Processes, Labels, Starting, Registered, Events, NoEvent, BadName, Slots, NoMachines, Lifecycle
<1>10. ASSUME NEW h \in Hosts, Serve(h) PROVE TypeOK'
  BY <1>10 DEF Serve, natsVars, hostVars, Goto, TypeOK, Labels, Starting
<1>11. ASSUME NEW h \in Hosts, LoopForEver(h) PROVE TypeOK'
  BY <1>11 DEF LoopForEver, vars, natsVars, hostVars, TypeOK
<1>12. ASSUME NEW h \in Hosts, NilProvider(h) PROVE TypeOK'
  BY <1>12 DEF NilProvider, natsVars, Dies, Goto, TypeOK, Processes, Labels, Starting, Events, NoEvent, BadName, Slots, NoMachines
<1>13. ASSUME NEW h \in Hosts, Receive(h) PROVE TypeOK'
  BY <1>13 DEF Receive, Running, Work, natsVars, TypeOK, Events, BadName
<1>14. ASSUME NEW h \in Hosts, GoDeaf(h) PROVE TypeOK'
  BY <1>14 DEF GoDeaf, Work, natsVars, TypeOK
<1>15. ASSUME NEW h \in Hosts, StopMachine(h) PROVE TypeOK'
  BY <1>15 DEF StopMachine, Stopping, Table, Work, natsVars, TypeOK, Slots, NoMachines
<1>16. ASSUME NEW h \in Hosts, StopNothing(h) PROVE TypeOK'
  BY <1>16 DEF StopNothing, Stopping, Work, natsVars, TypeOK
<1>17. ASSUME NEW h \in Hosts, Panic(h) PROVE TypeOK'
  <2>1. handling[h] \in Events
    BY <1>17 DEF Panic, Stopping, Lifecycle, TypeOK
  <2>2. handling[h].id \in 1 .. MaxEvents
    BY <2>1 DEF Events
  <2>3. kills' \in [1 .. MaxEvents -> Nat]
    BY <1>17, <2>2 DEF Panic, TypeOK
  <2>4. faults' \in 0 .. MaxFaults
    BY <1>17, HostctlAssumption DEF Panic, Fault, TypeOK
  <2> QED BY <1>17, <2>3, <2>4
      DEF Panic, Dies, Goto, natsVars, TypeOK, Labels, Starting, NoMachines
<1>18. ASSUME NEW h \in Hosts, Ack(h) PROVE TypeOK'
  <2>1. stored' \in [Hosts -> SUBSET Events] /\ \A g \in Hosts : stored'[g] \subseteq stored[g]
    <3>1. CASE stored' = [stored EXCEPT ![h] = @ \ {handling[h]}]
      BY <3>1 DEF TypeOK
    <3>2. CASE UNCHANGED stored
      BY <3>2 DEF TypeOK
    <3> QED BY <1>18, <3>1, <3>2 DEF Ack
  <2>2. faults' \in 0 .. MaxFaults
    BY <1>18, HostctlAssumption DEF Ack, Fault, TypeOK
  <2> QED BY <1>18, <2>1, <2>2 DEF Ack, Work, Running, natsVars, TypeOK, Labels
<1>19. ASSUME NEW h \in Hosts, Refill(h) PROVE TypeOK'
  <2>1. vm' \in [Hosts -> [Slots -> {"none", "up", "done", "unheard"}]]
    <3>1. CASE UNCHANGED vm
      BY <3>1 DEF TypeOK
    <3>2. ASSUME NEW k \in Table(h), vm' = [vm EXCEPT ![h][k] = "up"]
          PROVE  vm' \in [Hosts -> [Slots -> {"none", "up", "done", "unheard"}]]
      <4>1. [vm[h] EXCEPT ![k] = "up"] \in [Slots -> {"none", "up", "done", "unheard"}]
        BY DEF TypeOK
      <4> QED BY <3>2, <4>1 DEF TypeOK
    <3> QED BY <1>19, <3>1, <3>2 DEF Refill
  <2> QED BY <1>19, <2>1 DEF Refill, Work, natsVars, TypeOK
<1>20. ASSUME NEW h \in Hosts, Resize(h) PROVE TypeOK'
  BY <1>20, HostctlAssumption DEF Resize, natsVars, Dies, Goto, Fault, TypeOK, Processes, Labels, Starting, Events, NoEvent, BadName, Slots, NoMachines
<1>21. ASSUME NEW h \in Hosts, NEW k \in Slots, FinishJob(h, k) PROVE TypeOK'
  <2>1. issued + 1 \in 1 .. MaxEvents
    BY <1>21, HostctlAssumption DEF FinishJob, Publish, Send, TypeOK
  <2>2. [id |-> issued + 1, slot |-> k] \in Events
    BY <2>1 DEF Events
  <2>3. stored' \in [Hosts -> SUBSET Events]
    BY <1>21, <2>2 DEF FinishJob, Publish, Send, TypeOK
  <2>4. vm' \in [Hosts -> [Slots -> {"none", "up", "done", "unheard"}]]
    BY <1>21 DEF FinishJob, TypeOK
  <2> QED BY <1>21, <2>1, <2>3, <2>4, HostctlAssumption
      DEF FinishJob, Publish, Send, natsVars, TypeOK
<1>22. ASSUME NEW h \in Hosts, NEW k \in Slots \cup {BadName}, StrayEvent(h, k) PROVE TypeOK'
  BY <1>22, HostctlAssumption DEF StrayEvent, Publish, Send, natsVars, hostVars, TypeOK, Events, BadName
<1>23. ASSUME NEW h \in Hosts, DeleteConsumer(h) PROVE TypeOK'
  BY <1>23, HostctlAssumption DEF DeleteConsumer, hostVars, Fault, TypeOK
<1>25. ASSUME NEW h \in Hosts, NEW k \in Slots, FinishUnheard(h, k) PROVE TypeOK'
  <2>1. vm' \in [Hosts -> [Slots -> {"none", "up", "done", "unheard"}]]
    BY <1>25 DEF FinishUnheard, TypeOK
  <2>2. faults' \in 0 .. MaxFaults /\ issued' \in 0 .. MaxEvents
    BY <1>25, HostctlAssumption DEF FinishUnheard, Fault, Send, TypeOK
  <2> QED BY <1>25, <2>1, <2>2 DEF FinishUnheard, natsVars, TypeOK
<1>24. CASE UNCHANGED vars
  BY <1>24 DEF vars, natsVars, hostVars, TypeOK, Processes, Labels, Starting, Registered, Events, NoEvent, BadName, Slots, NoMachines, Lifecycle
<1> QED BY <1>1, <1>2, <1>3, <1>4, <1>5, <1>6, <1>7, <1>8, <1>9, <1>10, <1>11, <1>12, <1>13, <1>14, <1>15, <1>16, <1>17, <1>18, <1>19, <1>20, <1>21, <1>22, <1>23, <1>24, <1>25
   DEF Next, Rest, Start, Begin, RunVMs, Handle, World

\* ... and what is idle while a process is down or starting.
LEMMA LifecycleStep ==
  ASSUME TypeOK, Lifecycle, [Next]_vars
  PROVE  Lifecycle'
<1>1. ASSUME NEW p \in Processes, Restart(p) PROVE Lifecycle'
  BY <1>1 DEF Restart, natsVars, hostVars, Goto, Lifecycle, TypeOK, Running, Processes
<1>2. ASSUME NEW p \in Processes, EnsureStream(p) \/ CreateStream(p) PROVE Lifecycle'
  <2>1. \A h \in Hosts : Running(h)' = Running(h)
    BY <1>2, EnsureEffect DEF Running
  <2> QED BY <1>2, <2>1, EnsureEffect DEF hostVars, Lifecycle
<1>3. ASSUME NEW p \in Processes, StartFails(p) PROVE Lifecycle'
  BY <1>3, HostctlAssumption DEF StartFails, natsVars, Dies, Goto, Fault, Lifecycle, TypeOK, Running, Processes, Slots, NoMachines
<1>4. ASSUME NEW p \in Processes, Crash(p) PROVE Lifecycle'
  BY <1>4, HostctlAssumption DEF Crash, natsVars, Dies, Goto, Fault, Lifecycle, TypeOK, Running, Processes, Slots, NoMachines
<1>5. ASSUME NEW h \in Hosts, InitProvider(h) PROVE Lifecycle'
  BY <1>5 DEF InitProvider, natsVars, hostVars, Goto, Lifecycle, TypeOK, Running, Processes
<1>6. ASSUME NEW h \in Hosts, UnknownProvider(h) PROVE Lifecycle'
  BY <1>6 DEF UnknownProvider, natsVars, Dies, Goto, Lifecycle, TypeOK, Running, Processes, Slots, NoMachines
<1>7. ASSUME NEW h \in Hosts, Purge(h) PROVE Lifecycle'
  BY <1>7 DEF Purge, natsVars, hostVars, Goto, Lifecycle, TypeOK, Running, Processes
<1>8. ASSUME NEW h \in Hosts, CreateConsumer(h) PROVE Lifecycle'
  BY <1>8 DEF CreateConsumer, Work, Goto, Lifecycle, TypeOK, Running, Processes
<1>9. ASSUME NEW h \in Hosts, FillSlot(h) PROVE Lifecycle'
  BY <1>9 DEF FillSlot, Table, FirstFree, natsVars, Lifecycle, TypeOK, Running, Slots, NoMachines
<1>10. ASSUME NEW h \in Hosts, Serve(h) PROVE Lifecycle'
  BY <1>10 DEF Serve, natsVars, hostVars, Goto, Lifecycle, TypeOK, Running, Processes
<1>11. ASSUME NEW h \in Hosts, LoopForEver(h) PROVE Lifecycle'
  BY <1>11 DEF LoopForEver, vars, natsVars, hostVars, Lifecycle, TypeOK, Running
<1>12. ASSUME NEW h \in Hosts, NilProvider(h) PROVE Lifecycle'
  BY <1>12 DEF NilProvider, natsVars, Dies, Goto, Lifecycle, TypeOK, Running, Processes, Slots, NoMachines
<1>13. ASSUME NEW h \in Hosts, Receive(h) PROVE Lifecycle'
  BY <1>13 DEF Receive, Running, Work, natsVars, Lifecycle, TypeOK
<1>14. ASSUME NEW h \in Hosts, GoDeaf(h) PROVE Lifecycle'
  BY <1>14 DEF GoDeaf, Work, natsVars, Lifecycle, TypeOK, Running
<1>15. ASSUME NEW h \in Hosts, StopMachine(h) PROVE Lifecycle'
  BY <1>15 DEF StopMachine, Stopping, Running, Table, Work, natsVars, Lifecycle, TypeOK, Slots, NoMachines
<1>16. ASSUME NEW h \in Hosts, StopNothing(h) PROVE Lifecycle'
  BY <1>16 DEF StopNothing, Stopping, Running, Work, natsVars, Lifecycle, TypeOK
<1>17. ASSUME NEW h \in Hosts, Panic(h) PROVE Lifecycle'
  BY <1>17, HostctlAssumption DEF Panic, Stopping, Running, natsVars, Dies, Goto, Fault, Lifecycle, TypeOK, Processes, Slots, NoMachines
<1>18. ASSUME NEW h \in Hosts, Ack(h) PROVE Lifecycle'
  BY <1>18, HostctlAssumption DEF Ack, Running, Work, natsVars, Fault, Lifecycle, TypeOK
<1>19. ASSUME NEW h \in Hosts, Refill(h) PROVE Lifecycle'
  <2>1. /\ Running(h) /\ UNCHANGED <<pc, stored>>
        /\ \A g \in Hosts : g # h => worker'[g] = worker[g] /\ handling'[g] = handling[g] /\ vm'[g] = vm[g]
    BY <1>19 DEF Refill, natsVars, Work, TypeOK
  <2>2. worker'[h] = "next"
    BY <1>19 DEF Refill, Work, TypeOK
  <2> QED BY <2>1, <2>2 DEF Lifecycle, Running
<1>20. ASSUME NEW h \in Hosts, Resize(h) PROVE Lifecycle'
  BY <1>20, HostctlAssumption DEF Resize, natsVars, Dies, Goto, Fault, Lifecycle, TypeOK, Running, Processes, Slots, NoMachines
<1>21. ASSUME NEW h \in Hosts, NEW k \in Slots, FinishJob(h, k) PROVE Lifecycle'
  BY <1>21, HostctlAssumption DEF FinishJob, Publish, Send, natsVars, Lifecycle, TypeOK, Running, Slots, NoMachines
<1>22. ASSUME NEW h \in Hosts, NEW k \in Slots \cup {BadName}, StrayEvent(h, k) PROVE Lifecycle'
  BY <1>22, HostctlAssumption DEF StrayEvent, Publish, Send, natsVars, hostVars, Lifecycle, TypeOK, Running
<1>23. ASSUME NEW h \in Hosts, DeleteConsumer(h) PROVE Lifecycle'
  BY <1>23, HostctlAssumption DEF DeleteConsumer, hostVars, Fault, Lifecycle, TypeOK, Running
<1>25. ASSUME NEW h \in Hosts, NEW k \in Slots, FinishUnheard(h, k) PROVE Lifecycle'
  <2>1. /\ UNCHANGED <<pc, stored, worker, handling>>
        /\ \A g \in Hosts : g # h => vm'[g] = vm[g]
    BY <1>25 DEF FinishUnheard, natsVars, TypeOK
  <2>2. Running(h)
    BY <1>25 DEF FinishUnheard, Lifecycle, NoMachines
  <2> QED BY <2>1, <2>2 DEF Lifecycle, Running
<1>24. CASE UNCHANGED vars
  BY <1>24 DEF vars, natsVars, hostVars, Lifecycle, TypeOK, Running, Processes, Slots, NoMachines
<1> QED BY <1>1, <1>2, <1>3, <1>4, <1>5, <1>6, <1>7, <1>8, <1>9, <1>10, <1>11, <1>12, <1>13, <1>14, <1>15, <1>16, <1>17, <1>18, <1>19, <1>20, <1>21, <1>22, <1>23, <1>24, <1>25
   DEF Next, Rest, Start, Begin, RunVMs, Handle, World

\* Done machines stay attended: by a purge, an acknowledgement or a stop, too.
LEMMA MachinesStep ==
  ASSUME TypeOK, Lifecycle, OneCopy, Machines, [Next]_vars
  PROVE  Machines'
<1>1. ASSUME NEW p \in Processes, Restart(p) PROVE Machines'
  BY <1>1 DEF Restart, natsVars, hostVars, Goto, Machines, Attended, Lifecycle, Running, TypeOK
<1>2. ASSUME NEW p \in Processes, EnsureStream(p) \/ CreateStream(p) PROVE Machines'
  BY <1>2, EnsureEffect DEF hostVars, Machines, Attended
<1>3. ASSUME NEW p \in Processes, StartFails(p) PROVE Machines'
  BY <1>3, HostctlAssumption DEF StartFails, natsVars, Dies, Goto, Fault, Machines, Attended, Lifecycle, Running, TypeOK, Slots, NoMachines, BadName, Events
<1>4. ASSUME NEW p \in Processes, Crash(p) PROVE Machines'
  BY <1>4, HostctlAssumption DEF Crash, natsVars, Dies, Goto, Fault, Machines, Attended, Lifecycle, Running, TypeOK, Slots, NoMachines, BadName, Events
<1>5. ASSUME NEW h \in Hosts, InitProvider(h) PROVE Machines'
  BY <1>5 DEF InitProvider, natsVars, hostVars, Goto, Machines, Attended, Lifecycle, Running, TypeOK
<1>6. ASSUME NEW h \in Hosts, UnknownProvider(h) PROVE Machines'
  BY <1>6 DEF UnknownProvider, natsVars, Dies, Goto, Machines, Attended, Lifecycle, Running, TypeOK, Slots, NoMachines, BadName, Events
<1>7. ASSUME NEW h \in Hosts, Purge(h) PROVE Machines'
  <2>1. vm[h] = NoMachines
    BY <1>7 DEF Purge, Lifecycle, Running
  <2>2. \A g \in Hosts : g # h => stored'[g] = stored[g]
    BY <1>7 DEF Purge, TypeOK
  <2> QED BY <1>7, <2>1, <2>2 DEF Purge, hostVars, Machines, Attended, NoMachines
<1>8. ASSUME NEW h \in Hosts, CreateConsumer(h) PROVE Machines'
  BY <1>8 DEF CreateConsumer, Work, Goto, Machines, Attended, Lifecycle, Running, TypeOK
<1>9. ASSUME NEW h \in Hosts, FillSlot(h) PROVE Machines'
  BY <1>9, HostctlAssumption DEF FillSlot, Table, FirstFree, natsVars, hostVars, Machines, Attended, Lifecycle, Running, TypeOK, Slots, NoMachines, BadName, Events
<1>10. ASSUME NEW h \in Hosts, Serve(h) PROVE Machines'
  BY <1>10 DEF Serve, natsVars, hostVars, Goto, Machines, Attended, Lifecycle, Running, TypeOK
<1>11. ASSUME NEW h \in Hosts, LoopForEver(h) PROVE Machines'
  BY <1>11 DEF LoopForEver, vars, natsVars, hostVars, Machines, Attended, Lifecycle, Running, TypeOK
<1>12. ASSUME NEW h \in Hosts, NilProvider(h) PROVE Machines'
  BY <1>12 DEF NilProvider, natsVars, Dies, Goto, Machines, Attended, Lifecycle, Running, TypeOK, Slots, NoMachines, BadName, Events
<1>13. ASSUME NEW h \in Hosts, Receive(h) PROVE Machines'
  BY <1>13 DEF Receive, Running, Work, natsVars, Machines, Attended, Lifecycle, TypeOK, BadName, Events
<1>14. ASSUME NEW h \in Hosts, GoDeaf(h) PROVE Machines'
  BY <1>14 DEF GoDeaf, Work, natsVars, Machines, Attended, Lifecycle, Running, TypeOK
<1>15. ASSUME NEW h \in Hosts, StopMachine(h) PROVE Machines'
  BY <1>15, HostctlAssumption DEF StopMachine, Stopping, Running, Table, Work, natsVars, hostVars, Machines, Attended, Lifecycle, TypeOK, Slots, NoMachines, BadName, Events
<1>16. ASSUME NEW h \in Hosts, StopNothing(h) PROVE Machines'
  BY <1>16, HostctlAssumption DEF StopNothing, Stopping, Running, Work, natsVars, hostVars, Machines, Attended, Lifecycle, TypeOK, Slots, NoMachines, BadName, Events
<1>17. ASSUME NEW h \in Hosts, Panic(h) PROVE Machines'
  BY <1>17, HostctlAssumption DEF Panic, Stopping, Running, natsVars, Dies, Goto, Fault, Machines, Attended, Lifecycle, TypeOK, Slots, NoMachines, BadName, Events
<1>18. ASSUME NEW h \in Hosts, Ack(h) PROVE Machines'
  BY <1>18, HostctlAssumption DEF Ack, Running, Work, natsVars, Fault, Machines, Attended, Lifecycle, TypeOK, BadName, Events
<1>19. ASSUME NEW h \in Hosts, Refill(h) PROVE Machines'
  BY <1>19, HostctlAssumption DEF Refill, Table, FirstFree, Running, Work, natsVars, hostVars, Machines, Attended, Lifecycle, TypeOK, Slots, NoMachines, BadName, Events
<1>20. ASSUME NEW h \in Hosts, Resize(h) PROVE Machines'
  BY <1>20, HostctlAssumption DEF Resize, natsVars, Dies, Goto, Fault, Machines, Attended, Lifecycle, Running, TypeOK, Slots, NoMachines, BadName, Events
<1>21. ASSUME NEW h \in Hosts, NEW k \in Slots, FinishJob(h, k) PROVE Machines'
  <2> DEFINE e == [id |-> issued + 1, slot |-> k]
  <2>1. stored' = [stored EXCEPT ![h] = @ \cup {e}] /\ vm' = [vm EXCEPT ![h][k] = "done"]
    BY <1>21 DEF FinishJob, Publish
  <2>2. UNCHANGED <<provider, worker, handling>>
    BY <1>21 DEF FinishJob
  <2>3. e \in stored'[h] /\ \A g \in Hosts : stored[g] \subseteq stored'[g]
    BY <2>1 DEF TypeOK
  <2>4. worker[h] = "ack" => handling[h] # e
    <3>1. e.id = issued + 1 /\ NoEvent.id = 0 /\ issued \in Nat
      BY HostctlAssumption DEF NoEvent, TypeOK
    <3>2. handling[h] = NoEvent \/ handling[h].id <= issued
      BY DEF OneCopy
    <3> HIDE DEF e
    <3> QED BY <3>1, <3>2
  <2>5. Attended(h, k)'
    BY <2>2, <2>3, <2>4 DEF Attended
  <2>6. ASSUME NEW g \in Hosts, NEW j \in Slots, g # h \/ j # k
        PROVE  /\ vm'[g][j] = vm[g][j]
               /\ Attended(g, j) => Attended(g, j)'
    BY <2>1, <2>2, <2>3, <2>6 DEF TypeOK, Attended
  <2> QED BY <1>21, <2>1, <2>2, <2>5, <2>6 DEF Machines, FinishJob, TypeOK
<1>22. ASSUME NEW h \in Hosts, NEW k \in Slots \cup {BadName}, StrayEvent(h, k) PROVE Machines'
  BY <1>22, HostctlAssumption DEF StrayEvent, Publish, Send, natsVars, hostVars, Machines, Attended, Lifecycle, Running, TypeOK, BadName, Events
<1>23. ASSUME NEW h \in Hosts, DeleteConsumer(h) PROVE Machines'
  BY <1>23, HostctlAssumption DEF DeleteConsumer, hostVars, Fault, Machines, Attended, Lifecycle, Running, TypeOK
<1>25. ASSUME NEW h \in Hosts, NEW k \in Slots, FinishUnheard(h, k) PROVE Machines'
  <2>1. vm' = [vm EXCEPT ![h][k] = "unheard"] /\ vm[h][k] = "up"
        /\ UNCHANGED <<provider, stored, worker, handling>>
    BY <1>25 DEF FinishUnheard
  <2> QED BY <2>1 DEF Machines, Attended, TypeOK
<1>24. CASE UNCHANGED vars
  BY <1>24 DEF vars, natsVars, hostVars, Machines, Attended, Lifecycle, Running, TypeOK, Slots, NoMachines, BadName, Events
<1> QED BY <1>1, <1>2, <1>3, <1>4, <1>5, <1>6, <1>7, <1>8, <1>9, <1>10, <1>11, <1>12, <1>13, <1>14, <1>15, <1>16, <1>17, <1>18, <1>19, <1>20, <1>21, <1>22, <1>23, <1>24, <1>25
   DEF Next, Rest, Start, Begin, RunVMs, Handle, World

\* Events keep their numbers to themselves.
LEMMA OneCopyStep ==
  ASSUME TypeOK, OneCopy, [Next]_vars
  PROVE  OneCopy'
<1>1. ASSUME NEW p \in Processes, Restart(p) PROVE OneCopy'
  BY <1>1 DEF Restart, natsVars, hostVars, Goto, OneCopy, TypeOK
<1>2. ASSUME NEW p \in Processes, EnsureStream(p) \/ CreateStream(p) PROVE OneCopy'
  BY <1>2, EnsureEffect DEF hostVars, OneCopy
<1>3. ASSUME NEW p \in Processes, StartFails(p) PROVE OneCopy'
  BY <1>3, HostctlAssumption DEF StartFails, natsVars, Dies, Goto, Fault, OneCopy, TypeOK, Events, NoEvent
<1>4. ASSUME NEW p \in Processes, Crash(p) PROVE OneCopy'
  BY <1>4, HostctlAssumption DEF Crash, natsVars, Dies, Goto, Fault, OneCopy, TypeOK, Events, NoEvent
<1>5. ASSUME NEW h \in Hosts, InitProvider(h) PROVE OneCopy'
  BY <1>5 DEF InitProvider, natsVars, hostVars, Goto, OneCopy, TypeOK
<1>6. ASSUME NEW h \in Hosts, UnknownProvider(h) PROVE OneCopy'
  BY <1>6 DEF UnknownProvider, natsVars, Dies, Goto, OneCopy, TypeOK, Events, NoEvent
<1>7. ASSUME NEW h \in Hosts, Purge(h) PROVE OneCopy'
  BY <1>7 DEF Purge, natsVars, hostVars, Goto, OneCopy, TypeOK, Events
<1>8. ASSUME NEW h \in Hosts, CreateConsumer(h) PROVE OneCopy'
  BY <1>8 DEF CreateConsumer, Work, Goto, OneCopy, TypeOK
<1>9. ASSUME NEW h \in Hosts, FillSlot(h) PROVE OneCopy'
  BY <1>9 DEF FillSlot, Table, FirstFree, natsVars, OneCopy, TypeOK
<1>10. ASSUME NEW h \in Hosts, Serve(h) PROVE OneCopy'
  BY <1>10 DEF Serve, natsVars, hostVars, Goto, OneCopy, TypeOK
<1>11. ASSUME NEW h \in Hosts, LoopForEver(h) PROVE OneCopy'
  BY <1>11 DEF LoopForEver, vars, natsVars, hostVars, OneCopy, TypeOK
<1>12. ASSUME NEW h \in Hosts, NilProvider(h) PROVE OneCopy'
  BY <1>12 DEF NilProvider, natsVars, Dies, Goto, OneCopy, TypeOK, Events, NoEvent
<1>13. ASSUME NEW h \in Hosts, Receive(h) PROVE OneCopy'
  BY <1>13 DEF Receive, Running, Work, natsVars, OneCopy, TypeOK, Events
<1>14. ASSUME NEW h \in Hosts, GoDeaf(h) PROVE OneCopy'
  BY <1>14 DEF GoDeaf, Work, natsVars, OneCopy, TypeOK
<1>15. ASSUME NEW h \in Hosts, StopMachine(h) PROVE OneCopy'
  BY <1>15 DEF StopMachine, Stopping, Running, Table, Work, natsVars, OneCopy, TypeOK
<1>16. ASSUME NEW h \in Hosts, StopNothing(h) PROVE OneCopy'
  BY <1>16 DEF StopNothing, Stopping, Running, Work, natsVars, OneCopy, TypeOK
<1>17. ASSUME NEW h \in Hosts, Panic(h) PROVE OneCopy'
  BY <1>17, HostctlAssumption DEF Panic, Stopping, Running, natsVars, Dies, Goto, Fault, OneCopy, TypeOK, Events, NoEvent
<1>18. ASSUME NEW h \in Hosts, Ack(h) PROVE OneCopy'
  <2>1. stored' \in [Hosts -> SUBSET Events] /\ \A g \in Hosts : stored'[g] \subseteq stored[g]
    <3>1. CASE stored' = [stored EXCEPT ![h] = @ \ {handling[h]}]
      BY <3>1 DEF TypeOK
    <3>2. CASE UNCHANGED stored
      BY <3>2 DEF TypeOK
    <3> QED BY <1>18, <3>1, <3>2 DEF Ack
  <2>2. faults' \in 0 .. MaxFaults
    BY <1>18, HostctlAssumption DEF Ack, Fault, TypeOK
  <2> QED BY <1>18, <2>1, <2>2 DEF Ack, Work, Running, natsVars, OneCopy
<1>19. ASSUME NEW h \in Hosts, Refill(h) PROVE OneCopy'
  BY <1>19 DEF Refill, Table, FirstFree, Running, Work, natsVars, OneCopy, TypeOK, Events, NoEvent
<1>20. ASSUME NEW h \in Hosts, Resize(h) PROVE OneCopy'
  BY <1>20, HostctlAssumption DEF Resize, natsVars, Dies, Goto, Fault, OneCopy, TypeOK, Events, NoEvent
<1>21. ASSUME NEW h \in Hosts, NEW k \in Slots, FinishJob(h, k) PROVE OneCopy'
  BY <1>21, HostctlAssumption DEF FinishJob, Publish, Send, natsVars, OneCopy, TypeOK, Events
<1>22. ASSUME NEW h \in Hosts, NEW k \in Slots \cup {BadName}, StrayEvent(h, k) PROVE OneCopy'
  BY <1>22, HostctlAssumption DEF StrayEvent, Publish, Send, natsVars, hostVars, OneCopy, TypeOK, Events
<1>23. ASSUME NEW h \in Hosts, DeleteConsumer(h) PROVE OneCopy'
  BY <1>23, HostctlAssumption DEF DeleteConsumer, hostVars, Fault, OneCopy, TypeOK
<1>25. ASSUME NEW h \in Hosts, NEW k \in Slots, FinishUnheard(h, k) PROVE OneCopy'
  <2>1. issued \in Nat /\ issued' = issued + 1 /\ UNCHANGED <<stored, handling>>
    BY <1>25, HostctlAssumption DEF FinishUnheard, Send, TypeOK
  <2>2. \A h1 \in Hosts : (\A m \in stored[h1] : m.id \in Nat) /\ handling[h1].id \in Nat
    BY HostctlAssumption DEF TypeOK, Events, NoEvent
  <2> QED BY <2>1, <2>2 DEF OneCopy
<1>24. CASE UNCHANGED vars
  BY <1>24 DEF vars, natsVars, hostVars, OneCopy, TypeOK, Events, NoEvent
<1> QED BY <1>1, <1>2, <1>3, <1>4, <1>5, <1>6, <1>7, <1>8, <1>9, <1>10, <1>11, <1>12, <1>13, <1>14, <1>15, <1>16, <1>17, <1>18, <1>19, <1>20, <1>21, <1>22, <1>23, <1>24, <1>25
   DEF Next, Rest, Start, Begin, RunVMs, Handle, World

\* An event that has ended a process is not handled again.
LEMMA PoisonStep ==
  ASSUME TypeOK, Lifecycle, OneCopy, Poison, [Next]_vars
  PROVE  Poison'
<1>1. ASSUME NEW p \in Processes, Restart(p) PROVE Poison'
  BY <1>1 DEF Restart, natsVars, hostVars, Goto, Poison, OneCopy, Lifecycle, Running, TypeOK, Processes
<1>2. ASSUME NEW p \in Processes, EnsureStream(p) \/ CreateStream(p) PROVE Poison'
  BY <1>2, EnsureEffect DEF hostVars, Poison
<1>3. ASSUME NEW p \in Processes, StartFails(p) PROVE Poison'
  BY <1>3, HostctlAssumption DEF StartFails, natsVars, Dies, Goto, Fault, Poison, OneCopy, Lifecycle, Running, TypeOK, Processes, Events
<1>4. ASSUME NEW p \in Processes, Crash(p) PROVE Poison'
  BY <1>4, HostctlAssumption DEF Crash, natsVars, Dies, Goto, Fault, Poison, OneCopy, Lifecycle, Running, TypeOK, Processes, Events
<1>5. ASSUME NEW h \in Hosts, InitProvider(h) PROVE Poison'
  BY <1>5 DEF InitProvider, natsVars, hostVars, Goto, Poison, OneCopy, Lifecycle, Running, TypeOK, Processes
<1>6. ASSUME NEW h \in Hosts, UnknownProvider(h) PROVE Poison'
  BY <1>6 DEF UnknownProvider, natsVars, Dies, Goto, Poison, OneCopy, Lifecycle, Running, TypeOK, Processes, Events
<1>7. ASSUME NEW h \in Hosts, Purge(h) PROVE Poison'
  BY <1>7 DEF Purge, natsVars, hostVars, Goto, Poison, OneCopy, Lifecycle, Running, TypeOK, Processes, Events
<1>8. ASSUME NEW h \in Hosts, CreateConsumer(h) PROVE Poison'
  BY <1>8 DEF CreateConsumer, Work, Goto, Poison, OneCopy, Lifecycle, Running, TypeOK, Processes
<1>9. ASSUME NEW h \in Hosts, FillSlot(h) PROVE Poison'
  BY <1>9 DEF FillSlot, Table, FirstFree, natsVars, Poison, OneCopy, Lifecycle, Running, TypeOK
<1>10. ASSUME NEW h \in Hosts, Serve(h) PROVE Poison'
  BY <1>10 DEF Serve, natsVars, hostVars, Goto, Poison, OneCopy, Lifecycle, Running, TypeOK, Processes
<1>11. ASSUME NEW h \in Hosts, LoopForEver(h) PROVE Poison'
  BY <1>11 DEF LoopForEver, vars, natsVars, hostVars, Poison, OneCopy, Lifecycle, Running, TypeOK
<1>12. ASSUME NEW h \in Hosts, NilProvider(h) PROVE Poison'
  BY <1>12 DEF NilProvider, natsVars, Dies, Goto, Poison, OneCopy, Lifecycle, Running, TypeOK, Processes, Events
<1>13. ASSUME NEW h \in Hosts, Receive(h) PROVE Poison'
  BY <1>13 DEF Receive, Running, Work, natsVars, Poison, OneCopy, Lifecycle, TypeOK, Events
<1>14. ASSUME NEW h \in Hosts, GoDeaf(h) PROVE Poison'
  BY <1>14 DEF GoDeaf, Work, natsVars, Poison, OneCopy, Lifecycle, Running, TypeOK
<1>15. ASSUME NEW h \in Hosts, StopMachine(h) PROVE Poison'
  BY <1>15 DEF StopMachine, Stopping, Running, Table, Work, natsVars, Poison, OneCopy, Lifecycle, TypeOK
<1>16. ASSUME NEW h \in Hosts, StopNothing(h) PROVE Poison'
  BY <1>16 DEF StopNothing, Stopping, Running, Work, natsVars, Poison, OneCopy, Lifecycle, TypeOK
<1>17. ASSUME NEW h \in Hosts, Panic(h) PROVE Poison'
  <2>1. handling[h] \in stored[h] /\ pc[h] \in {"runvms", "serving"} /\ handling[h] \in Events
    BY <1>17 DEF Panic, Stopping, Running, Lifecycle, TypeOK
  <2>2. kills[handling[h].id] = 0 /\ handling[h].id <= issued /\ handling[h].id \in 1 .. MaxEvents
    <3>1. handling[h].id \in 1 .. MaxEvents /\ kills[handling[h].id] \in Nat
      BY <2>1 DEF TypeOK, Events
    <3>2. handling[h].id <= issued
      BY <2>1 DEF OneCopy
    <3>3. ~(kills[handling[h].id] > 0)
      BY <2>1 DEF Poison
    <3> QED BY <3>1, <3>2, <3>3
  <2>3. kills' = [kills EXCEPT ![handling[h].id] = 1]
    BY <1>17, <2>2 DEF Panic, TypeOK
  <2>4. pc' = [pc EXCEPT ![h] = "down"] /\ UNCHANGED <<stored, issued>>
    BY <1>17 DEF Panic, Dies, Goto
  <2>5. \A e \in 1 .. MaxEvents : kills'[e] <= 1 /\ (e > issued' => kills'[e] = 0)
    BY <2>2, <2>3, <2>4 DEF Poison, TypeOK
  <2>6. ASSUME NEW g \in Hosts, NEW m \in stored[g], kills'[m.id] > 0
        PROVE  pc'[g] \in {"down", "init", "streams", "create", "purge"}
    <3>1. CASE m.id = handling[h].id
      BY <2>1, <2>4, <3>1 DEF OneCopy, TypeOK, Processes
    <3>2. CASE m.id # handling[h].id
      <4>1. m.id \in 1 .. MaxEvents
        BY DEF TypeOK, Events
      <4> QED BY <2>3, <2>4, <2>6, <3>2, <4>1 DEF Poison, TypeOK, Processes
    <3> QED BY <3>1, <3>2
  <2> QED BY <2>4, <2>5, <2>6 DEF Poison
<1>18. ASSUME NEW h \in Hosts, Ack(h) PROVE Poison'
  <2>1. stored' \in [Hosts -> SUBSET Events] /\ \A g \in Hosts : stored'[g] \subseteq stored[g]
    <3>1. CASE stored' = [stored EXCEPT ![h] = @ \ {handling[h]}]
      BY <3>1 DEF TypeOK
    <3>2. CASE UNCHANGED stored
      BY <3>2 DEF TypeOK
    <3> QED BY <1>18, <3>1, <3>2 DEF Ack
  <2>2. faults' \in 0 .. MaxFaults
    BY <1>18, HostctlAssumption DEF Ack, Fault, TypeOK
  <2> QED BY <1>18, <2>1, <2>2 DEF Ack, Work, Running, natsVars, Poison, TypeOK, Processes
<1>19. ASSUME NEW h \in Hosts, Refill(h) PROVE Poison'
  BY <1>19 DEF Refill, Table, FirstFree, Running, Work, natsVars, Poison, OneCopy, Lifecycle, TypeOK, Events
<1>20. ASSUME NEW h \in Hosts, Resize(h) PROVE Poison'
  BY <1>20, HostctlAssumption DEF Resize, natsVars, Dies, Goto, Fault, Poison, OneCopy, Lifecycle, Running, TypeOK, Processes, Events
<1>21. ASSUME NEW h \in Hosts, NEW k \in Slots, FinishJob(h, k) PROVE Poison'
  BY <1>21, HostctlAssumption DEF FinishJob, Publish, Send, natsVars, Poison, OneCopy, Lifecycle, Running, TypeOK, Events
<1>22. ASSUME NEW h \in Hosts, NEW k \in Slots \cup {BadName}, StrayEvent(h, k) PROVE Poison'
  BY <1>22, HostctlAssumption DEF StrayEvent, Publish, Send, natsVars, hostVars, Poison, OneCopy, Lifecycle, Running, TypeOK, Events
<1>23. ASSUME NEW h \in Hosts, DeleteConsumer(h) PROVE Poison'
  BY <1>23, HostctlAssumption DEF DeleteConsumer, hostVars, Fault, Poison, OneCopy, Lifecycle, Running, TypeOK
<1>25. ASSUME NEW h \in Hosts, NEW k \in Slots, FinishUnheard(h, k) PROVE Poison'
  <2>1. issued \in Nat /\ issued' = issued + 1 /\ UNCHANGED <<stored, kills, pc>>
    BY <1>25, HostctlAssumption DEF FinishUnheard, Send, TypeOK
  <2> QED BY <2>1 DEF Poison
<1>24. CASE UNCHANGED vars
  BY <1>24 DEF vars, natsVars, hostVars, Poison, OneCopy, Lifecycle, Running, TypeOK, Processes, Events, Starting
<1> QED BY <1>1, <1>2, <1>3, <1>4, <1>5, <1>6, <1>7, <1>8, <1>9, <1>10, <1>11, <1>12, <1>13, <1>14, <1>15, <1>16, <1>17, <1>18, <1>19, <1>20, <1>21, <1>22, <1>23, <1>24, <1>25
   DEF Next, Rest, Start, Begin, RunVMs, Handle, World

\* Streams are made in order and never removed.
LEMMA EnsuringStep ==
  ASSUME TypeOK, Ensuring, [Next]_vars
  PROVE  Ensuring'
<1>1. ASSUME NEW p \in Processes, Restart(p) PROVE Ensuring'
  BY <1>1 DEF Restart, natsVars, hostVars, Goto, Ensuring, StreamsExist, TypeOK, Processes
<1>2. ASSUME NEW p \in Processes, EnsureStream(p) \/ CreateStream(p) PROVE Ensuring'
  <2>1. /\ streams \subseteq streams' /\ streams' \subseteq {"queued", "completed"}
        /\ at[p] \in {"queued", "completed"}
    BY <1>2, EnsureEffect DEF TypeOK
  <2>2. CASE StreamThere(p)
    <3>1. at[p] \in streams'
      <4>1. CASE EnsureStream(p)
        <5>1. pc'[p] # "create"
          BY <2>2, StreamThereEffect
        <5>2. ~Goto(p, "create")
          BY <5>1 DEF Goto, TypeOK
        <5> QED BY <4>1, <5>2 DEF EnsureStream, natsVars
      <4>2. CASE CreateStream(p)
        BY <4>2 DEF CreateStream
      <4> QED BY <1>2, <4>1, <4>2
    <3>2. CASE at[p] = "queued" /\ pc'[p] = "streams"
      BY <2>1, <2>2, <3>1, <3>2, StreamThereEffect DEF Ensuring, StreamsExist
    <3>3. CASE at[p] = "completed" /\ at'[p] = "queued"
      <4>1. streams' = {"queued", "completed"}
        BY <2>1, <3>1, <3>3 DEF Ensuring
      <4> QED BY <4>1 DEF Ensuring, StreamsExist
    <3> QED BY <2>2, <3>2, <3>3, StreamThereEffect
  <2>3. CASE ~StreamThere(p)
    <3>1. pc' = [pc EXCEPT ![p] = "create"] /\ UNCHANGED at
      BY <1>2, <2>3 DEF EnsureStream, CreateStream, Goto
    <3> QED BY <2>1, <3>1 DEF Ensuring, StreamsExist, TypeOK
  <2> QED BY <2>2, <2>3
<1>3. ASSUME NEW p \in Processes, StartFails(p) PROVE Ensuring'
  BY <1>3, HostctlAssumption DEF StartFails, natsVars, Dies, Goto, Fault, Ensuring, StreamsExist, TypeOK, Processes
<1>4. ASSUME NEW p \in Processes, Crash(p) PROVE Ensuring'
  BY <1>4, HostctlAssumption DEF Crash, natsVars, Dies, Goto, Fault, Ensuring, StreamsExist, TypeOK, Processes
<1>5. ASSUME NEW h \in Hosts, InitProvider(h) PROVE Ensuring'
  BY <1>5 DEF InitProvider, natsVars, hostVars, Goto, Ensuring, StreamsExist, TypeOK, Processes
<1>6. ASSUME NEW h \in Hosts, UnknownProvider(h) PROVE Ensuring'
  BY <1>6 DEF UnknownProvider, natsVars, Dies, Goto, Ensuring, StreamsExist, TypeOK, Processes
<1>7. ASSUME NEW h \in Hosts, Purge(h) PROVE Ensuring'
  BY <1>7 DEF Purge, natsVars, hostVars, Goto, Ensuring, StreamsExist, TypeOK, Processes
<1>8. ASSUME NEW h \in Hosts, CreateConsumer(h) PROVE Ensuring'
  BY <1>8 DEF CreateConsumer, Work, Goto, Ensuring, StreamsExist, TypeOK, Processes
<1>9. ASSUME NEW h \in Hosts, FillSlot(h) PROVE Ensuring'
  BY <1>9 DEF FillSlot, Table, FirstFree, natsVars, Ensuring, StreamsExist, TypeOK
<1>10. ASSUME NEW h \in Hosts, Serve(h) PROVE Ensuring'
  BY <1>10 DEF Serve, natsVars, hostVars, Goto, Ensuring, StreamsExist, TypeOK, Processes
<1>11. ASSUME NEW h \in Hosts, LoopForEver(h) PROVE Ensuring'
  BY <1>11 DEF LoopForEver, vars, natsVars, hostVars, Ensuring, StreamsExist, TypeOK
<1>12. ASSUME NEW h \in Hosts, NilProvider(h) PROVE Ensuring'
  BY <1>12 DEF NilProvider, natsVars, Dies, Goto, Ensuring, StreamsExist, TypeOK, Processes
<1>13. ASSUME NEW h \in Hosts, Receive(h) PROVE Ensuring'
  BY <1>13 DEF Receive, Running, Work, natsVars, Ensuring, StreamsExist, TypeOK
<1>14. ASSUME NEW h \in Hosts, GoDeaf(h) PROVE Ensuring'
  BY <1>14 DEF GoDeaf, Work, natsVars, Ensuring, StreamsExist, TypeOK
<1>15. ASSUME NEW h \in Hosts, StopMachine(h) PROVE Ensuring'
  BY <1>15 DEF StopMachine, Stopping, Running, Table, Work, natsVars, Ensuring, StreamsExist, TypeOK
<1>16. ASSUME NEW h \in Hosts, StopNothing(h) PROVE Ensuring'
  BY <1>16 DEF StopNothing, Stopping, Running, Work, natsVars, Ensuring, StreamsExist, TypeOK
<1>17. ASSUME NEW h \in Hosts, Panic(h) PROVE Ensuring'
  BY <1>17, HostctlAssumption DEF Panic, Stopping, Running, natsVars, Dies, Goto, Fault, Ensuring, StreamsExist, TypeOK, Processes
<1>18. ASSUME NEW h \in Hosts, Ack(h) PROVE Ensuring'
  BY <1>18, HostctlAssumption DEF Ack, Running, Work, natsVars, Fault, Ensuring, StreamsExist, TypeOK
<1>19. ASSUME NEW h \in Hosts, Refill(h) PROVE Ensuring'
  BY <1>19 DEF Refill, Table, FirstFree, Running, Work, natsVars, Ensuring, StreamsExist, TypeOK
<1>20. ASSUME NEW h \in Hosts, Resize(h) PROVE Ensuring'
  BY <1>20, HostctlAssumption DEF Resize, natsVars, Dies, Goto, Fault, Ensuring, StreamsExist, TypeOK, Processes
<1>21. ASSUME NEW h \in Hosts, NEW k \in Slots, FinishJob(h, k) PROVE Ensuring'
  BY <1>21, HostctlAssumption DEF FinishJob, Publish, Send, natsVars, Ensuring, StreamsExist, TypeOK
<1>22. ASSUME NEW h \in Hosts, NEW k \in Slots \cup {BadName}, StrayEvent(h, k) PROVE Ensuring'
  BY <1>22, HostctlAssumption DEF StrayEvent, Publish, Send, natsVars, hostVars, Ensuring, StreamsExist, TypeOK
<1>23. ASSUME NEW h \in Hosts, DeleteConsumer(h) PROVE Ensuring'
  BY <1>23, HostctlAssumption DEF DeleteConsumer, hostVars, Fault, Ensuring, StreamsExist, TypeOK
<1>25. ASSUME NEW h \in Hosts, NEW k \in Slots, FinishUnheard(h, k) PROVE Ensuring'
  BY <1>25 DEF FinishUnheard, natsVars, Ensuring, StreamsExist
<1>24. CASE UNCHANGED vars
  BY <1>24 DEF vars, natsVars, hostVars, Ensuring, StreamsExist, TypeOK, Processes, Starting
<1> QED BY <1>1, <1>2, <1>3, <1>4, <1>5, <1>6, <1>7, <1>8, <1>9, <1>10, <1>11, <1>12, <1>13, <1>14, <1>15, <1>16, <1>17, <1>18, <1>19, <1>20, <1>21, <1>22, <1>23, <1>24, <1>25
   DEF Next, Rest, Start, Begin, RunVMs, Handle, World

\* Initially nothing runs and nothing is stored.
LEMMA InitHolds == Init => IInv
BY HostctlAssumption
   DEF Init, IInv, TypeOK, Lifecycle, Machines, OneCopy, Poison, Ensuring, StreamsExist,
       Running, NoMachines, Processes, Labels, Registered, Slots, Events, NoEvent

\* The conjunction of these parts holds in every state.
THEOREM Inductive == Spec => []IInv
<1>1. IInv /\ [Next]_vars => IInv'
  BY TypeStep, LifecycleStep, MachinesStep, OneCopyStep, PoisonStep, EnsuringStep DEF IInv
<1> QED BY InitHolds, <1>1, PTL DEF Spec

\* Every variable keeps its type, whatever the processes and the world do.
THEOREM TypeCorrect == Spec => []TypeOK
<1>1. IInv => TypeOK
  BY DEF IInv
<1> QED BY Inductive, <1>1, PTL

\* No completed event ends hostctl twice (Manager.Start purges before it reads).
THEOREM PoisonEndsOnce == Spec => []PoisonOnce
<1>1. IInv => PoisonOnce
  BY DEF IInv, Poison, PoisonOnce
<1> QED BY Inductive, <1>1, PTL

\* The event that was published of a machine whose job is done stays stored for
\* its host until the worker has dealt with it, and there is a worker, however
\* many hosts purge, fail and restart.  (An event that was never published is
\* not spoken of: its machine is unheard.)
THEOREM PublishedEventsStay == Spec => []NoSlotForgotten
<1>1. IInv => NoSlotForgotten
  BY DEF IInv, Lifecycle, Machines, Attended, NoMachines, NoSlotForgotten
<1> QED BY Inductive, <1>1, PTL

\* Who publishes or consumes finds both streams.
THEOREM BothStreamsExist == Spec => []StreamsExist
<1>1. IInv => StreamsExist
  BY DEF IInv, Ensuring
<1> QED BY Inductive, <1>1, PTL
=============================================================================

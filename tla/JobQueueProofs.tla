--------------------------- MODULE JobQueueProofs ---------------------------
(***************************************************************************)
(* Proofs about wait-for-job and the queued stream, for every number of    *)
(* machines, jobs and faults.                                              *)
(***************************************************************************)
EXTENDS JobQueue, SequenceTheorems, FiniteSetTheorems, TLAPS

\* Machine v has taken j out of the stream and not yet begun it.
Taken(v, j) == pc[v] \in {"delete", "picked"} /\ got[v] = j

\* Of queues q: the jobs stored, and each of them once, under its label.
StoredIn(q) == UNION {ToSet(q[s]) : s \in Labels}

Once(q) ==
    \A s \in Labels : \A i \in 1 .. Len(q[s]) :
      LabelOf[q[s][i]] = s /\ \A k \in 1 .. Len(q[s]) : q[s][k] = q[s][i] => k = i

\* A stored job is stored once, and has been published.
QueuesOK == Once(queue) /\ \A j \in Stored : state[j].published

\* A machine holds a message from the fetch to the end of its pass, and it is
\* one of the subject it is at.
GotOK ==
    \A v \in VMs :
      /\ got[v] # None =>
           /\ pc[v] \in {"ack", "delete", "picked"}
           /\ LabelOf[got[v]] = Subject(v)
           /\ state[got[v]].published
      /\ pc[v] \in {"ack", "picked"} => got[v] # None

\* As long as its consumer is there, what a machine is about to acknowledge is
\* what the server will remove.
FetchedIsHead ==
    \A v \in VMs :
      pc[v] = "ack" /\ consumer[Subject(v)] = v =>
        queue[Subject(v)] # <<>> /\ Head(queue[Subject(v)]) = got[v]

\* A job is stored, taken by one machine, or picked, and not two of these.
Exclusive ==
    \A j \in Jobs :
      /\ state[j].picks \in {0, 1}
      /\ state[j].picks = 1 =>
           state[j].published /\ j \notin Stored /\ \A v \in VMs : ~Taken(v, j)
      /\ \A v \in VMs : Taken(v, j) =>
           j \notin Stored /\ \A w \in VMs : Taken(w, j) => w = v

\* Machine v has been refused at s in this pass, or nothing that was stored
\* there when its pass began is still there.
Seen(v, s) == s \in refused[v] \/ \A j \in waiting[v] \cap Stored : LabelOf[j] # s

InPass == {"create", "fetch", "ack", "delete", "picked"}

\* The subjects a machine has passed, it has seen; and the one it is at, once
\* it leaves it without a message.
Looked ==
    \A v \in VMs :
      /\ \A j \in waiting[v] : state[j].published
      /\ pc[v] \in InPass => \A i \in 1 .. at[v] - 1 : Seen(v, Order(v)[i])
      /\ pc[v] = "delete" /\ got[v] = None => Seen(v, Subject(v))

IInv == TypeOK /\ QueuesOK /\ GotOK /\ FetchedIsHead /\ Exclusive /\ Looked

-----------------------------------------------------------------------------
\* The subjects of a machine, in order of urgency.
LEMMA OrderFacts ==
  ASSUME NEW v \in VMs
  PROVE  /\ Len(Order(v)) \in Nat \ {0}
         /\ DOMAIN Order(v) = 1 .. Len(Order(v))
         /\ \A i \in 1 .. Len(Order(v)) : Order(v)[i] \in Labels
         /\ \A i, k \in 1 .. Len(Order(v)) :
              Rank(Order(v)[i]) < Rank(Order(v)[k]) => i < k
<1>1. CASE v \in Testrig
  <2>1. Order(v) = <<"testrig">> \o <<"f0", "firecracker">>
    BY <1>1 DEF Order
  <2>2. <<"testrig">> \in Seq(Labels) /\ <<"f0", "firecracker">> \in Seq(Labels)
    BY DEF Labels
  <2>3. /\ Order(v) \in Seq(Labels) /\ Len(Order(v)) = 3
        /\ Order(v)[1] = "testrig" /\ Order(v)[2] = "f0" /\ Order(v)[3] = "firecracker"
    BY <2>1, <2>2, ConcatProperties
  <2> QED BY <2>3, LenProperties DEF Rank, Labels
<1>2. CASE v \notin Testrig
  <2>1. Order(v) = <<>> \o <<"f0", "firecracker">>
    BY <1>2 DEF Order
  <2>2. <<"f0", "firecracker">> \in Seq(Labels)
    BY DEF Labels
  <2>3. Order(v) = <<"f0", "firecracker">>
    BY <2>1, <2>2, ConcatEmptySeq
  <2> QED BY <2>3 DEF Rank, Labels
<1> QED BY <1>1, <1>2

\* A VM always looks at one of the labels.
LEMMA SubjectType ==
  ASSUME TypeOK, NEW v \in VMs PROVE Subject(v) \in Labels
BY OrderFacts DEF Subject, TypeOK

\* Queues of jobs, when one is appended and when the first is removed.
LEMMA QueueAppend ==
  ASSUME NEW q \in Seq(Jobs), NEW j \in Jobs
  PROVE  /\ Append(q, j) \in Seq(Jobs) /\ Append(q, j) # <<>>
         /\ Len(q) \in Nat /\ Len(Append(q, j)) = Len(q) + 1
         /\ \A i \in 1 .. Len(q) : Append(q, j)[i] = q[i]
         /\ Append(q, j)[Len(q) + 1] = j
         /\ q # <<>> => Head(Append(q, j)) = Head(q)
BY AppendProperties, LenProperties, HeadTailAppend, EmptySeq

\* What the head and the tail of a stored queue are.
LEMMA QueueTail ==
  ASSUME NEW q \in Seq(Jobs), q # <<>>
  PROVE  /\ Tail(q) \in Seq(Jobs)
         /\ Len(q) \in Nat \ {0} /\ Len(Tail(q)) = Len(q) - 1
         /\ Head(q) = q[1] /\ Head(q) \in Jobs
         /\ \A i \in 1 .. Len(q) - 1 : Tail(q)[i] = q[i + 1]
BY HeadTailProperties, LenProperties, EmptySeq

\* Jobs are stored under their label only.
LEMMA StoredUnderLabel ==
  ASSUME NEW q \in [Labels -> Seq(Jobs)], Once(q), NEW j \in Jobs
  PROVE  j \in StoredIn(q) <=> \E i \in 1 .. Len(q[LabelOf[j]]) : q[LabelOf[j]][i] = j
<1>1. \A s \in Labels : DOMAIN q[s] = 1 .. Len(q[s])
  BY LenProperties
<1>2. LabelOf[j] \in Labels
  BY QueueAssumption
<1>3. j \in StoredIn(q) <=> \E s \in Labels : j \in ToSet(q[s])
  BY DEF StoredIn
<1>4. \A s \in Labels : j \in ToSet(q[s]) <=> \E i \in 1 .. Len(q[s]) : q[s][i] = j
  BY <1>1 DEF ToSet
<1> QED BY <1>2, <1>3, <1>4 DEF Once

\* A new job is added to the stored ones ...
LEMMA StoreOne ==
  ASSUME NEW q \in [Labels -> Seq(Jobs)], Once(q), NEW j \in Jobs, j \notin StoredIn(q),
         NEW r, r = [q EXCEPT ![LabelOf[j]] = Append(@, j)]
  PROVE  /\ r \in [Labels -> Seq(Jobs)] /\ Once(r)
         /\ \A k \in Jobs : k \in StoredIn(r) <=> k \in StoredIn(q) \/ k = j
<1> DEFINE l == LabelOf[j]
<1>1. l \in Labels /\ q[l] \in Seq(Jobs)
  BY QueueAssumption
<1>2. /\ r[l] = Append(q[l], j) /\ \A s \in Labels : s # l => r[s] = q[s]
      /\ \A s \in Labels : r[s] \in Seq(Jobs)
  BY <1>1, QueueAppend
<1>3. /\ Len(q[l]) \in Nat /\ Len(r[l]) = Len(q[l]) + 1
      /\ \A i \in 1 .. Len(q[l]) : r[l][i] = q[l][i]
      /\ r[l][Len(q[l]) + 1] = j
  BY <1>1, <1>2, QueueAppend
<1>4. r \in [Labels -> Seq(Jobs)]
  BY <1>1, QueueAppend
<1>5. \A i \in 1 .. Len(q[l]) : q[l][i] # j
  BY StoredUnderLabel
<1> HIDE DEF l
<1>6. ASSUME NEW i \in 1 .. Len(r[l])
      PROVE  LabelOf[r[l][i]] = l /\ \A k \in 1 .. Len(r[l]) : r[l][k] = r[l][i] => k = i
  BY <1>1, <1>3, <1>5, LabelOf[j] = l DEF l, Once
<1>7. Once(r)
  BY <1>2, <1>6 DEF Once
<1>8. ASSUME NEW k \in Jobs PROVE k \in StoredIn(r) <=> k \in StoredIn(q) \/ k = j
  <2>1. /\ k \in StoredIn(q) <=> \E i \in 1 .. Len(q[LabelOf[k]]) : q[LabelOf[k]][i] = k
        /\ k \in StoredIn(r) <=> \E i \in 1 .. Len(r[LabelOf[k]]) : r[LabelOf[k]][i] = k
    BY <1>4, <1>7, StoredUnderLabel
  <2>2. LabelOf[k] \in Labels /\ LabelOf[j] = l
    BY QueueAssumption DEF l
  <2>3. CASE LabelOf[k] = l
    BY <1>3, <2>1, <2>2, <2>3
  <2>4. CASE LabelOf[k] # l
    BY <1>2, <2>1, <2>2, <2>4
  <2> QED BY <2>3, <2>4
<1> QED BY <1>4, <1>7, <1>8

\* ... and the oldest of a subject is removed from them.
Removal(q, s, r) ==
    /\ q \in [Labels -> Seq(Jobs)] /\ Once(q) /\ s \in Labels /\ q[s] # <<>>
    /\ r \in [Labels -> Seq(Jobs)] /\ r = [q EXCEPT ![s] = Tail(@)]

Removed(q, j, r) ==
    /\ Once(r) /\ j \in StoredIn(q) /\ j \in Jobs
    /\ \A k \in Jobs : k \in StoredIn(r) <=> k \in StoredIn(q) /\ k # j

\* Removing the head of one subject leaves the others alone.
LEMMA RemoveOne ==
  ASSUME NEW q, NEW s, NEW r, Removal(q, s, r) PROVE Removed(q, Head(q[s]), r)
<1> USE DEF Removal
<1>1. q[s] \in Seq(Jobs)
  OBVIOUS
<1>2. /\ r[s] = Tail(q[s]) /\ \A t \in Labels : t # s => r[t] = q[t]
      /\ r \in [Labels -> Seq(Jobs)]
  OBVIOUS
<1>3. /\ Len(q[s]) \in Nat \ {0} /\ Len(r[s]) = Len(q[s]) - 1
      /\ \A i \in 1 .. Len(q[s]) - 1 : r[s][i] = q[s][i + 1]
      /\ Head(q[s]) = q[s][1] /\ Head(q[s]) \in Jobs
  BY <1>1, <1>2, QueueTail
<1>4. ASSUME NEW i \in 1 .. Len(r[s])
      PROVE  LabelOf[r[s][i]] = s /\ \A k \in 1 .. Len(r[s]) : r[s][k] = r[s][i] => k = i
  <2>1. \A k \in 1 .. Len(r[s]) : k + 1 \in 1 .. Len(q[s]) /\ r[s][k] = q[s][k + 1]
    BY <1>3
  <2>2. LabelOf[q[s][i + 1]] = s
    BY <2>1 DEF Once
  <2>3. \A k \in 1 .. Len(r[s]) : q[s][k + 1] = q[s][i + 1] => k + 1 = i + 1
    BY <2>1 DEF Once
  <2> QED BY <1>3, <2>1, <2>2, <2>3
<1>5. Once(r)
  BY <1>2, <1>4 DEF Once
<1>6. LabelOf[Head(q[s])] = s /\ Head(q[s]) \in StoredIn(q)
  BY <1>3, StoredUnderLabel DEF Once
<1>7. ASSUME NEW k \in Jobs PROVE k \in StoredIn(r) <=> k \in StoredIn(q) /\ k # Head(q[s])
  <2>1. /\ k \in StoredIn(q) <=> \E i \in 1 .. Len(q[LabelOf[k]]) : q[LabelOf[k]][i] = k
        /\ k \in StoredIn(r) <=> \E i \in 1 .. Len(r[LabelOf[k]]) : r[LabelOf[k]][i] = k
    BY <1>2, <1>5, StoredUnderLabel
  <2>2. LabelOf[k] \in Labels
    BY QueueAssumption
  <2>3. CASE LabelOf[k] = s
    <3>1. ASSUME NEW i \in 1 .. Len(q[s]), q[s][i] = k, k # Head(q[s])
          PROVE  i - 1 \in 1 .. Len(r[s]) /\ r[s][i - 1] = k
      BY <1>3, <3>1
    <3>2. ASSUME NEW i \in 1 .. Len(r[s]), r[s][i] = k
          PROVE  i + 1 \in 1 .. Len(q[s]) /\ q[s][i + 1] = k /\ k # Head(q[s])
      <4>1. i + 1 \in 1 .. Len(q[s]) /\ 1 \in 1 .. Len(q[s]) /\ q[s][i + 1] = k
        BY <1>3, <3>2
      <4>2. q[s][1] = q[s][i + 1] => 1 = i + 1
        BY <4>1 DEF Once
      <4> QED BY <1>3, <4>1, <4>2
    <3> QED BY <2>1, <2>3, <3>1, <3>2
  <2>4. CASE LabelOf[k] # s
    BY <1>2, <1>6, <2>1, <2>2, <2>4
  <2> QED BY <2>3, <2>4
<1> QED BY <1>3, <1>5, <1>6, <1>7 DEF Removed

-----------------------------------------------------------------------------
\* Types.
LEMMA FaultType ==
  ASSUME TypeOK, NEW k, Fault(k) PROVE faults' \in 0 .. MaxFaults
BY QueueAssumption DEF TypeOK, Fault

\* Going on to the next subject, or to sleep, stays in the order of the VM.
LEMMA NextSubjectType ==
  ASSUME TypeOK, NEW v \in VMs, NextSubject(v)
  PROVE  /\ pc' \in [VMs -> {"begin", "create", "fetch", "ack", "delete", "picked",
                             "busy", "sleep", "dead"}]
         /\ DOMAIN at' = VMs /\ \A w \in VMs : at'[w] \in 1 .. Len(Order(w))
<1>1. Len(Order(v)) \in Nat \ {0} /\ at[v] \in 1 .. Len(Order(v))
  BY OrderFacts DEF TypeOK
<1>2. CASE at[v] < Len(Order(v))
  <2>1. at' = [at EXCEPT ![v] = at[v] + 1] /\ pc' = [pc EXCEPT ![v] = "create"]
    BY <1>2 DEF NextSubject, Goto
  <2>2. at[v] + 1 \in 1 .. Len(Order(v))
    BY <1>1, <1>2
  <2> QED BY <2>1, <2>2 DEF TypeOK
<1>3. CASE ~(at[v] < Len(Order(v)))
  <2>1. at' = at /\ pc' = [pc EXCEPT ![v] = "sleep"]
    BY <1>3 DEF NextSubject, Goto
  <2> QED BY <2>1 DEF TypeOK
<1> QED BY <1>2, <1>3

\* Only labels are noted as refused.
LEMMA RefuseType ==
  ASSUME TypeOK, NEW v \in VMs, Refuse(v) PROVE refused' \in [VMs -> SUBSET Labels]
BY SubjectType DEF TypeOK, Refuse

\* Only jobs are stored.
LEMMA StoredType == ASSUME TypeOK PROVE Stored \in SUBSET Jobs
<1> SUFFICES ASSUME NEW j \in Stored PROVE j \in Jobs
  OBVIOUS
<1>1. PICK s \in Labels : j \in ToSet(queue[s])
  BY DEF Stored
<1>2. PICK i \in DOMAIN queue[s] : j = queue[s][i]
  BY <1>1 DEF ToSet
<1> QED BY <1>2, ElementOfSeq, LenProperties DEF TypeOK

\* What a machine acknowledges through its consumer is there to be removed.
LEMMA TailType ==
  ASSUME TypeOK, FetchedIsHead, NEW v \in VMs, pc[v] = "ack", consumer[Subject(v)] = v
  PROVE  [queue EXCEPT ![Subject(v)] = Tail(@)] \in [Labels -> Seq(Jobs)]
<1>1. queue[Subject(v)] \in Seq(Jobs) /\ queue[Subject(v)] # <<>>
  BY SubjectType DEF TypeOK, FetchedIsHead
<1>2. Tail(queue[Subject(v)]) \in Seq(Jobs)
  BY <1>1, QueueTail
<1> QED BY <1>2, SubjectType DEF TypeOK

\* Every step keeps the types.
LEMMA TypedStep ==
  ASSUME TypeOK, GotOK, FetchedIsHead, [Next]_vars PROVE TypeOK'
<1> USE DEF Goto
<1>1. ASSUME NEW j \in Jobs, Publish(j) PROVE TypeOK'
  <2>1. LabelOf[j] \in Labels
    BY QueueAssumption
  <2>2. Append(queue[LabelOf[j]], j) \in Seq(Jobs)
    BY <2>1, QueueAppend DEF TypeOK
  <2>3. queue' \in [Labels -> Seq(Jobs)]
    BY <1>1, <2>1, <2>2 DEF Publish, TypeOK
  <2>4. state' \in [Jobs -> [published : BOOLEAN, picks : Nat]]
    BY <1>1 DEF Publish, TypeOK
  <2> QED BY <1>1, <2>3, <2>4 DEF Publish, TypeOK, vmVars, history
<1>2. ASSUME NEW v \in VMs, Begin(v) PROVE TypeOK'
  BY <1>2, StoredType, OrderFacts DEF Begin, TypeOK, serverVars
<1>3. ASSUME NEW v \in VMs, BeginFails(v) PROVE TypeOK'
  BY <1>3, FaultType DEF BeginFails, TypeOK, serverVars, history
<1>4. ASSUME NEW v \in VMs, Create(v) PROVE TypeOK'
  <2>1. CASE consumer[Subject(v)] = None
    BY <1>4, <2>1, SubjectType DEF Create, TypeOK
  <2>2. CASE consumer[Subject(v)] # None
    BY <1>4, <2>2, NextSubjectType, RefuseType DEF Create, TypeOK
  <2> QED BY <2>1, <2>2
<1>5. ASSUME NEW v \in VMs, CreateFails(v) PROVE TypeOK'
  <2>1. consumer' \in [Labels -> VMs \cup {None}] /\ faults' \in 0 .. MaxFaults
    BY <1>5, FaultType DEF CreateFails, TypeOK
  <2> QED BY <1>5, <2>1, NextSubjectType, RefuseType DEF CreateFails, TypeOK
<1>6. ASSUME NEW v \in VMs, Fetch(v) PROVE TypeOK'
  <2>1. refused' \in [VMs -> SUBSET Labels]
    BY <1>6, RefuseType DEF Fetch, TypeOK
  <2>2. CASE consumer[Subject(v)] = v /\ queue[Subject(v)] # <<>>
    <3>1. Head(queue[Subject(v)]) \in Jobs
      BY <2>2, QueueTail, SubjectType DEF TypeOK
    <3> QED BY <1>6, <2>1, <2>2, <3>1 DEF Fetch, TypeOK, serverVars
  <2>3. CASE ~(consumer[Subject(v)] = v /\ queue[Subject(v)] # <<>>)
    BY <1>6, <2>1, <2>3 DEF Fetch, TypeOK, serverVars
  <2> QED BY <2>2, <2>3
<1>7. ASSUME NEW v \in VMs, FetchFails(v) PROVE TypeOK'
  BY <1>7, FaultType, RefuseType DEF FetchFails, TypeOK, serverVars
<1>8. ASSUME NEW v \in VMs, Ack(v) PROVE TypeOK'
  <2>1. refused' \in [VMs -> SUBSET Labels]
    BY <1>8, RefuseType DEF Ack, TypeOK
  <2>2. queue' \in [Labels -> Seq(Jobs)]
    BY <1>8, TailType DEF Ack, TypeOK
  <2> QED BY <1>8, <2>1, <2>2 DEF Ack, TypeOK
<1>9. ASSUME NEW v \in VMs, AckFails(v) PROVE TypeOK'
  <2>1. queue' \in [Labels -> Seq(Jobs)] /\ faults' \in 0 .. MaxFaults
    BY <1>9, TailType, FaultType DEF AckFails, TypeOK
  <2> QED BY <1>9, <2>1, RefuseType DEF AckFails, TypeOK
<1>10. ASSUME NEW v \in VMs, DeleteConsumer(v) PROVE TypeOK'
  <2>1. faults' \in 0 .. MaxFaults
    BY <1>10, FaultType DEF DeleteConsumer, TypeOK
  <2>2. consumer' \in [Labels -> VMs \cup {None}]
    BY <1>10, SubjectType DEF DeleteConsumer, TypeOK
  <2>3. CASE got[v] # None
    BY <1>10, <2>1, <2>2, <2>3 DEF DeleteConsumer, TypeOK, history
  <2>4. CASE got[v] = None
    BY <1>10, <2>1, <2>2, <2>4, NextSubjectType DEF DeleteConsumer, TypeOK, history
  <2> QED BY <2>3, <2>4
<1>11. ASSUME NEW v \in VMs, Pick(v) PROVE TypeOK'
  <2>1. got[v] \in Jobs
    BY <1>11 DEF Pick, GotOK, TypeOK
  <2>2. state' \in [Jobs -> [published : BOOLEAN, picks : Nat]]
    <3> DEFINE n == state[got[v]].picks + 1
    <3>1. n \in Nat
      BY <2>1 DEF TypeOK
    <3>2. state' = [state EXCEPT ![got[v]].picks = n]
      BY <1>11 DEF Pick
    <3> HIDE DEF n
    <3> QED BY <3>1, <3>2 DEF TypeOK
  <2> QED BY <1>11, <2>2 DEF Pick, TypeOK, serverVars
<1>12. ASSUME NEW v \in VMs, Wake(v) \/ Replace(v) \/ Reboot(v) PROVE TypeOK'
  BY <1>12 DEF Wake, Replace, Reboot, TypeOK, serverVars, history
<1>13. ASSUME NEW v \in VMs, Crash(v) PROVE TypeOK'
  BY <1>13, FaultType DEF Crash, TypeOK, serverVars, history
<1>14. ASSUME NEW s \in Labels, ExpireConsumer(s) PROVE TypeOK'
  <2>1. faults' \in 0 .. MaxFaults
    BY <1>14, FaultType DEF ExpireConsumer, TypeOK
  <2> QED BY <1>14, <2>1 DEF ExpireConsumer, TypeOK, vmVars, history
<1>15. CASE UNCHANGED vars
  BY <1>15 DEF vars, serverVars, vmVars, history, TypeOK
<1> QED BY <1>1, <1>2, <1>3, <1>4, <1>5, <1>6, <1>7, <1>8, <1>9, <1>10, <1>11, <1>12, <1>13,
           <1>14, <1>15 DEF Next, Wait, Fail
-----------------------------------------------------------------------------
\* What one machine does, and what it leaves alone.
Act(v) == Wait(v) \/ Fail(v) \/ Replace(v) \/ Crash(v) \/ Reboot(v)

Takes(v) == /\ pc[v] = "ack" /\ consumer[Subject(v)] = v
            /\ queue' = [queue EXCEPT ![Subject(v)] = Tail(@)]

\* An action of v concerns only the state of v ...
LEMMA OthersUntouched ==
  ASSUME TypeOK, NEW v \in VMs, Act(v), NEW w \in VMs, w # v
  PROVE  /\ pc'[w] = pc[w] /\ at'[w] = at[w] /\ got'[w] = got[w]
         /\ waiting'[w] = waiting[w] /\ refused'[w] = refused[w]
<1> USE DEF Goto, TypeOK
<1>1. CASE Begin(v) \/ BeginFails(v)
  BY <1>1 DEF Begin, BeginFails, history
<1>2. CASE Create(v) \/ CreateFails(v)
  BY <1>2 DEF Create, CreateFails, NextSubject, Refuse
<1>3. CASE Fetch(v) \/ FetchFails(v)
  BY <1>3 DEF Fetch, FetchFails, Refuse
<1>4. CASE Ack(v) \/ AckFails(v)
  BY <1>4 DEF Ack, AckFails, Refuse
<1>5. CASE DeleteConsumer(v)
  BY <1>5 DEF DeleteConsumer, NextSubject, history
<1>6. CASE Pick(v) \/ Wake(v) \/ Replace(v) \/ Crash(v) \/ Reboot(v)
  BY <1>6 DEF Pick, Wake, Replace, Crash, Reboot, history
<1> QED BY <1>1, <1>2, <1>3, <1>4, <1>5, <1>6 DEF Act, Wait, Fail

\* ... and on the server at most a consumer of v and what v acknowledges.
LEMMA ServerChange ==
  ASSUME TypeOK, NEW v \in VMs, Act(v)
  PROVE  /\ UNCHANGED queue \/ Takes(v)
         /\ \A s \in Labels : \/ consumer'[s] \in {consumer[s], None}
                              \/ consumer'[s] = v /\ pc'[v] # "ack"
<1> USE DEF Goto, TypeOK
<1>1. CASE Begin(v) \/ BeginFails(v)
  BY <1>1 DEF Begin, BeginFails, serverVars
<1>2. CASE Create(v) \/ CreateFails(v)
  BY <1>2, SubjectType DEF Create, CreateFails, NextSubject
<1>3. CASE Fetch(v) \/ FetchFails(v)
  BY <1>3 DEF Fetch, FetchFails, serverVars
<1>4. CASE Ack(v) \/ AckFails(v)
  BY <1>4 DEF Ack, AckFails, Takes
<1>5. CASE DeleteConsumer(v)
  BY <1>5, SubjectType DEF DeleteConsumer
<1>6. CASE Pick(v) \/ Wake(v) \/ Replace(v) \/ Crash(v) \/ Reboot(v)
  BY <1>6 DEF Pick, Wake, Replace, Crash, Reboot, serverVars
<1> QED BY <1>1, <1>2, <1>3, <1>4, <1>5, <1>6 DEF Act, Wait, Fail

\* A machine picks what it holds, and publishes nothing.
LEMMA JobsChange ==
  ASSUME TypeOK, GotOK, NEW v \in VMs, Act(v), NEW j \in Jobs
  PROVE  /\ state'[j].published = state[j].published
         /\ \/ state'[j].picks = state[j].picks
            \/ /\ Pick(v) /\ j = got[v]
               /\ state'[j].picks = state[j].picks + 1
<1>1. CASE Pick(v)
  <2> DEFINE n == state[got[v]].picks + 1
  <2>1. got[v] \in Jobs
    BY <1>1 DEF Pick, GotOK, TypeOK
  <2>2. state' = [state EXCEPT ![got[v]].picks = n]
    BY <1>1 DEF Pick
  <2>3. j = got[v] => n = state[j].picks + 1
    OBVIOUS
  <2> HIDE DEF n
  <2>4. /\ state'[j].published = state[j].published
        /\ state'[j].picks = IF j = got[v] THEN n ELSE state[j].picks
    BY <2>1, <2>2 DEF TypeOK
  <2> QED BY <1>1, <2>3, <2>4
<1>2. CASE ~Pick(v)
  <2>1. UNCHANGED state
    BY <1>2 DEF Act, Wait, Fail, Begin, BeginFails, Create, CreateFails, Fetch, FetchFails,
         Ack, AckFails, DeleteConsumer, Wake, Replace, Crash, Reboot
  <2> QED BY <2>1
<1> QED BY <1>1, <1>2

\* What GitHub publishes was not there before.
LEMMA PublishChange ==
  ASSUME TypeOK, QueuesOK, NEW j \in Jobs, Publish(j)
  PROVE  /\ ~state[j].published /\ state'[j].published
         /\ \A k \in Jobs : state'[k].picks = state[k].picks
                         /\ (state[k].published => state'[k].published)
         /\ j \notin Stored /\ Once(queue')
         /\ \A k \in Jobs : k \in Stored' <=> k \in Stored \/ k = j
         /\ LabelOf[j] \in Labels /\ queue[LabelOf[j]] \in Seq(Jobs)
         /\ queue' = [queue EXCEPT ![LabelOf[j]] = Append(@, j)]
<1>1. state' = [state EXCEPT ![j].published = TRUE]
  BY DEF Publish
<1>2. /\ state'[j].published
      /\ \A k \in Jobs : state'[k].picks = state[k].picks
                      /\ (state[k].published => state'[k].published)
  BY <1>1 DEF TypeOK
<1>3. ~state[j].published /\ queue' = [queue EXCEPT ![LabelOf[j]] = Append(@, j)]
  BY DEF Publish
<1>4. Stored = StoredIn(queue) /\ Stored' = StoredIn(queue')
  BY DEF Stored, StoredIn
<1>5. j \notin StoredIn(queue) /\ Once(queue) /\ queue \in [Labels -> Seq(Jobs)]
  BY <1>3, <1>4 DEF QueuesOK, TypeOK
<1>6. Once(queue') /\ \A k \in Jobs : k \in StoredIn(queue') <=> k \in StoredIn(queue) \/ k = j
  <2> DEFINE r == [queue EXCEPT ![LabelOf[j]] = Append(@, j)]
  <2>1. Once(r) /\ \A k \in Jobs : k \in StoredIn(r) <=> k \in StoredIn(queue) \/ k = j
    BY <1>5, StoreOne
  <2>2. queue' = r
    BY <1>3
  <2> HIDE DEF r
  <2> QED BY <2>1, <2>2
<1>7. LabelOf[j] \in Labels
  BY QueueAssumption
<1> QED BY <1>2, <1>3, <1>4, <1>5, <1>6, <1>7

\* What a machine acknowledges is what it has fetched, and it is gone.
LEMMA TakesChange ==
  ASSUME TypeOK, QueuesOK, FetchedIsHead, NEW v \in VMs, Takes(v)
  PROVE  /\ got[v] \in Stored /\ got[v] \in Jobs /\ Once(queue')
         /\ \A k \in Jobs : k \in Stored' <=> k \in Stored /\ k # got[v]
<1>1. Stored = StoredIn(queue) /\ Stored' = StoredIn(queue')
  BY DEF Stored, StoredIn
<1>2. /\ queue[Subject(v)] # <<>> /\ Head(queue[Subject(v)]) = got[v]
      /\ queue' = [queue EXCEPT ![Subject(v)] = Tail(@)]
  BY DEF FetchedIsHead, Takes
<1>3. Once(queue) /\ queue \in [Labels -> Seq(Jobs)] /\ Subject(v) \in Labels
  BY SubjectType DEF QueuesOK, TypeOK
<1> HIDE DEF Subject
<1>4. /\ Once(queue')
      /\ \A k \in Jobs : k \in StoredIn(queue') <=> k \in StoredIn(queue) /\ k # got[v]
      /\ got[v] \in StoredIn(queue) /\ got[v] \in Jobs
  <2> DEFINE r == [queue EXCEPT ![Subject(v)] = Tail(@)]
  <2>1. Removal(queue, Subject(v), r)
    BY <1>2, <1>3, TailType DEF Takes, Removal
  <2>2. queue' = r
    BY <1>2
  <2> HIDE DEF r
  <2>3. Removed(queue, Head(queue[Subject(v)]), r)
    BY <2>1, RemoveOne
  <2> QED BY <1>2, <2>2, <2>3 DEF Removed
<1> QED BY <1>1, <1>4

\* Published jobs stay so, and are never stored again.
LEMMA NotStoredAgain ==
  ASSUME TypeOK, QueuesOK, GotOK, FetchedIsHead, [Next]_vars, NEW j \in Jobs, state[j].published
  PROVE  state'[j].published /\ (j \in Stored' => j \in Stored)
<1>1. ASSUME NEW k \in Jobs, Publish(k) PROVE state'[j].published /\ (j \in Stored' => j \in Stored)
  BY <1>1, PublishChange
<1>2. ASSUME NEW v \in VMs, Act(v) PROVE state'[j].published /\ (j \in Stored' => j \in Stored)
  <2>1. CASE Takes(v)
    BY <1>2, <2>1, JobsChange, TakesChange
  <2>2. CASE UNCHANGED queue
    BY <1>2, <2>2, JobsChange DEF Stored
  <2> QED BY <1>2, <2>1, <2>2, ServerChange
<1>3. CASE UNCHANGED <<queue, state>>
  BY <1>3 DEF Stored
<1> QED BY <1>1, <1>2, <1>3 DEF Next, Act, ExpireConsumer, vars, serverVars
-----------------------------------------------------------------------------
\* The parts of the invariant.
LEMMA QueuesKept ==
  ASSUME TypeOK, QueuesOK, GotOK, FetchedIsHead, [Next]_vars PROVE QueuesOK'
<1>1. TypeOK' /\ Stored' \in SUBSET Jobs
  <2>1. TypeOK'
    BY TypedStep
  <2>2. \A s \in Labels : queue'[s] \in Seq(Jobs)
    BY <2>1 DEF TypeOK
  <2>3. \A s \in Labels : \A k \in ToSet(queue'[s]) : k \in Jobs
    BY <2>2, ElementOfSeq, LenProperties DEF ToSet
  <2> QED BY <2>1, <2>3 DEF Stored
<1>2. ASSUME NEW j \in Jobs, Publish(j) PROVE QueuesOK'
  <2>1. Once(queue')
    BY <1>2, PublishChange
  <2>2. ASSUME NEW k \in Stored' PROVE state'[k].published
    BY <1>1, <1>2, <2>2, PublishChange DEF QueuesOK
  <2> QED BY <2>1, <2>2 DEF QueuesOK
<1>3. ASSUME NEW v \in VMs, Takes(v) PROVE QueuesOK'
  <2>1. Once(queue')
    BY <1>3, TakesChange
  <2>2. ASSUME NEW k \in Stored' PROVE state'[k].published
    BY <1>1, <1>3, <2>2, TakesChange, NotStoredAgain DEF QueuesOK
  <2> QED BY <2>1, <2>2 DEF QueuesOK
<1>4. CASE UNCHANGED queue
  <2>1. ASSUME NEW k \in Stored' PROVE state'[k].published
    BY <1>1, <1>4, <2>1, NotStoredAgain DEF QueuesOK, Stored
  <2> QED BY <1>4, <2>1 DEF QueuesOK
<1> QED BY <1>2, <1>3, <1>4, ServerChange DEF Next, Act, ExpireConsumer, vars, serverVars

\* After a step of its own, what a VM holds is a published job of its subject.
LEMMA GotAfterAct ==
  ASSUME TypeOK, QueuesOK, GotOK, FetchedIsHead, NEW v \in VMs, Act(v), Next
  PROVE  /\ got'[v] # None =>
              /\ pc'[v] \in {"ack", "delete", "picked"}
              /\ LabelOf[got'[v]] = Subject(v)'
              /\ state'[got'[v]].published
         /\ pc'[v] \in {"ack", "picked"} => got'[v] # None
<1> USE DEF Goto
<1>1. CASE Begin(v) \/ BeginFails(v)
  <2>1. got'[v] = None /\ pc'[v] \in {"create", "sleep"}
    BY <1>1 DEF Begin, BeginFails, GotOK, TypeOK
  <2> QED BY <2>1
<1>2. CASE Create(v) \/ CreateFails(v)
  <2>1. got'[v] = None /\ pc'[v] \in {"create", "sleep", "fetch"}
    BY <1>2 DEF Create, CreateFails, NextSubject, GotOK, TypeOK
  <2> QED BY <2>1
<1>3. CASE Fetch(v) /\ consumer[Subject(v)] = v /\ queue[Subject(v)] # <<>>
  <2> DEFINE s == Subject(v)
             h == Head(queue[s])
  <2>1. s \in Labels /\ queue[s] \in Seq(Jobs) /\ queue[s] # <<>>
    BY <1>3, SubjectType DEF TypeOK
  <2>2. h \in Jobs /\ 1 \in 1 .. Len(queue[s]) /\ h = queue[s][1]
    BY <2>1, QueueTail
  <2>3. LabelOf[h] = s
    BY <2>1, <2>2 DEF QueuesOK, Once
  <2>4. h \in StoredIn(queue)
    BY <2>1, <2>2, <2>3, StoredUnderLabel DEF QueuesOK, TypeOK
  <2>5. state[h].published /\ UNCHANGED state
    BY <1>3, <2>4 DEF QueuesOK, StoredIn, Stored, Fetch
  <2>6. got'[v] = h /\ pc'[v] = "ack" /\ UNCHANGED at /\ h # None
    BY <1>3, <2>2, QueueAssumption DEF Fetch, TypeOK
  <2>7. Subject(v)' = s
    BY <2>6 DEF Subject
  <2> HIDE DEF s, h
  <2> QED BY <2>3, <2>5, <2>6, <2>7
<1>4. CASE (Fetch(v) /\ ~(consumer[Subject(v)] = v /\ queue[Subject(v)] # <<>>)) \/ FetchFails(v)
  <2>1. got'[v] = None /\ pc'[v] = "delete"
    BY <1>4 DEF Fetch, FetchFails, GotOK, TypeOK
  <2> QED BY <2>1
<1>5. CASE Ack(v) \/ AckFails(v)
  <2>1. got'[v] \in {got[v], None} /\ pc'[v] = "delete" /\ UNCHANGED <<at, state>>
    BY <1>5 DEF Ack, AckFails, TypeOK
  <2>2. Subject(v)' = Subject(v)
    BY <2>1 DEF Subject
  <2> QED BY <2>1, <2>2 DEF GotOK
<1>6. CASE DeleteConsumer(v) /\ got[v] # None
  <2>1. got'[v] = got[v] /\ pc'[v] = "picked" /\ UNCHANGED <<at, state>>
    BY <1>6 DEF DeleteConsumer, TypeOK
  <2>2. Subject(v)' = Subject(v)
    BY <2>1 DEF Subject
  <2> QED BY <1>6, <2>1, <2>2 DEF GotOK
<1>7. CASE DeleteConsumer(v) /\ got[v] = None
  <2>1. got'[v] = None /\ pc'[v] \in {"create", "sleep"}
    BY <1>7 DEF DeleteConsumer, NextSubject, TypeOK
  <2> QED BY <2>1
<1>8. CASE Pick(v) \/ Wake(v) \/ Replace(v) \/ Crash(v) \/ Reboot(v)
  <2>1. got'[v] = None /\ pc'[v] \in {"busy", "begin", "dead"}
    BY <1>8 DEF Pick, Wake, Replace, Crash, Reboot, GotOK, TypeOK
  <2> QED BY <2>1
<1> QED BY <1>1, <1>2, <1>3, <1>4, <1>5, <1>6, <1>7, <1>8 DEF Act, Wait, Fail

\* Every step keeps GotOK: what a VM holds was published under its subject.
LEMMA GotKept ==
  ASSUME TypeOK, QueuesOK, GotOK, FetchedIsHead, [Next]_vars PROVE GotOK'
<1>1. ASSUME NEW w \in VMs, pc'[w] = pc[w], at'[w] = at[w], got'[w] = got[w]
      PROVE  /\ got'[w] # None =>
                  /\ pc'[w] \in {"ack", "delete", "picked"}
                  /\ LabelOf[got'[w]] = Subject(w)'
                  /\ state'[got'[w]].published
             /\ pc'[w] \in {"ack", "picked"} => got'[w] # None
  <2>1. Subject(w)' = Subject(w)
    BY <1>1 DEF Subject
  <2>2. got[w] # None => got[w] \in Jobs /\ state'[got[w]].published
    BY NotStoredAgain DEF GotOK, TypeOK
  <2> QED BY <1>1, <2>1, <2>2 DEF GotOK
<1>2. ASSUME NEW v \in VMs, Act(v), Next PROVE GotOK'
  BY <1>1, <1>2, OthersUntouched, GotAfterAct DEF GotOK
<1>3. CASE UNCHANGED vmVars
  BY <1>1, <1>3 DEF GotOK, vmVars
<1> QED BY <1>2, <1>3 DEF Next, Act, Publish, ExpireConsumer, vars

\* Every step keeps FetchedIsHead: a fetched job stays at the head of its subject.
LEMMA HeadKept ==
  ASSUME TypeOK, QueuesOK, GotOK, FetchedIsHead, [Next]_vars PROVE FetchedIsHead'
<1> SUFFICES ASSUME NEW w \in VMs, pc'[w] = "ack", consumer'[Subject(w)'] = w
             PROVE  queue'[Subject(w)'] # <<>> /\ Head(queue'[Subject(w)']) = got'[w]
  BY DEF FetchedIsHead
<1>1. w # None
  BY QueueAssumption
<1>2. ASSUME pc[w] = "ack", at'[w] = at[w], got'[w] = got[w], consumer[Subject(w)] = w
      PROVE  /\ Subject(w)' = Subject(w) /\ Subject(w) \in Labels
             /\ queue[Subject(w)] # <<>> /\ Head(queue[Subject(w)]) = got'[w]
  BY <1>2, SubjectType DEF FetchedIsHead, Subject
<1>3. ASSUME NEW j \in Jobs, Publish(j)
      PROVE  queue'[Subject(w)'] # <<>> /\ Head(queue'[Subject(w)']) = got'[w]
  <2>1. UNCHANGED <<consumer, pc, at, got>>
    BY <1>3 DEF Publish, vmVars
  <2>2. Subject(w)' = Subject(w)
    BY <2>1 DEF Subject
  <2>3. /\ Subject(w) \in Labels /\ queue[Subject(w)] # <<>>
        /\ Head(queue[Subject(w)]) = got'[w]
    BY <1>2, <2>1, <2>2
  <2>4. /\ LabelOf[j] \in Labels /\ queue[LabelOf[j]] \in Seq(Jobs)
        /\ queue' = [queue EXCEPT ![LabelOf[j]] = Append(@, j)]
    BY <1>3, PublishChange
  <2>5. queue[LabelOf[j]] # <<>> =>
          /\ Append(queue[LabelOf[j]], j) # <<>>
          /\ Head(Append(queue[LabelOf[j]], j)) = Head(queue[LabelOf[j]])
    BY <2>4, QueueAppend
  <2>6. CASE LabelOf[j] = Subject(w)
    <3>1. queue'[Subject(w)] = Append(queue[LabelOf[j]], j)
      BY <2>3, <2>4, <2>6 DEF TypeOK
    <3> QED BY <2>2, <2>3, <2>5, <2>6, <3>1
  <2>7. CASE LabelOf[j] # Subject(w)
    <3>1. queue'[Subject(w)] = queue[Subject(w)]
      BY <2>3, <2>4, <2>7 DEF TypeOK
    <3> QED BY <2>2, <2>3, <3>1
  <2> QED BY <2>6, <2>7
<1>4. ASSUME NEW v \in VMs, Act(v), v # w
      PROVE  queue'[Subject(w)'] # <<>> /\ Head(queue'[Subject(w)']) = got'[w]
  <2>1. pc[w] = "ack" /\ at'[w] = at[w] /\ got'[w] = got[w]
    BY <1>4, OthersUntouched
  <2>2. Subject(w)' = Subject(w) /\ Subject(w) \in Labels
    BY <2>1, SubjectType DEF Subject
  <2>3. consumer[Subject(w)] = w
    BY <1>1, <1>4, <2>2, ServerChange
  <2>4. queue'[Subject(w)] = queue[Subject(w)]
    <3>1. CASE Takes(v)
      <4>1. Subject(v) # Subject(w)
        BY <1>4, <2>3, <3>1 DEF Takes
      <4> QED BY <2>2, <3>1, <4>1 DEF Takes, TypeOK
    <3> QED BY <1>4, <3>1, ServerChange
  <2> QED BY <1>2, <2>1, <2>2, <2>3, <2>4
<1>5. CASE Act(w)
  <2>1. consumer[Subject(w)] = w /\ queue[Subject(w)] # <<>> /\ Fetch(w)
    BY <1>5 DEF Act, Wait, Fail, Begin, BeginFails, Create, CreateFails, Fetch, FetchFails, Ack,
         AckFails, DeleteConsumer, Pick, Wake, Replace, Crash, Reboot, Goto, TypeOK, NextSubject
  <2>2. UNCHANGED <<at, queue>> /\ got'[w] = Head(queue[Subject(w)])
    BY <2>1 DEF Fetch, serverVars, TypeOK
  <2>3. Subject(w)' = Subject(w)
    BY <2>2 DEF Subject
  <2> QED BY <2>1, <2>2, <2>3
<1>6. ASSUME NEW s \in Labels, ExpireConsumer(s)
      PROVE  queue'[Subject(w)'] # <<>> /\ Head(queue'[Subject(w)']) = got'[w]
  <2>1. /\ UNCHANGED <<queue, pc, at, got>>
        /\ \A t \in Labels : consumer'[t] \in {consumer[t], None}
    BY <1>6 DEF ExpireConsumer, vmVars, TypeOK
  <2>2. Subject(w)' = Subject(w) /\ Subject(w) \in Labels
    BY <2>1, SubjectType DEF Subject
  <2>3. consumer[Subject(w)] = w
    BY <1>1, <2>1, <2>2
  <2> QED BY <1>2, <2>1, <2>2, <2>3
<1>7. CASE UNCHANGED vars
  BY <1>7 DEF vars, serverVars, vmVars, FetchedIsHead, Subject
<1> QED BY <1>3, <1>4, <1>5, <1>6, <1>7 DEF Next, Act

\* A machine that has taken a job had it before, or acknowledges it now.
LEMMA TakenFromStore ==
  ASSUME TypeOK, GotOK, NEW v \in VMs, Act(v), NEW j \in Jobs, Taken(v, j)'
  PROVE  \/ Taken(v, j) /\ UNCHANGED queue /\ ~Pick(v)
         \/ Takes(v) /\ got[v] = j
<1> USE DEF Goto, Taken, TypeOK, GotOK
<1>1. j # None
  BY QueueAssumption
<1>2. CASE Begin(v) \/ BeginFails(v) \/ Create(v) \/ CreateFails(v)
  BY <1>1, <1>2 DEF Begin, BeginFails, Create, CreateFails, NextSubject
<1>3. CASE Fetch(v) \/ FetchFails(v)
  BY <1>1, <1>3 DEF Fetch, FetchFails
<1>4. CASE Ack(v) \/ AckFails(v)
  BY <1>1, <1>4 DEF Ack, AckFails, Takes
<1>5. CASE DeleteConsumer(v)
  BY <1>1, <1>5 DEF DeleteConsumer, Pick
<1>6. CASE Pick(v) \/ Wake(v) \/ Replace(v) \/ Crash(v) \/ Reboot(v)
  BY <1>1, <1>6 DEF Pick, Wake, Replace, Crash, Reboot
<1> QED BY <1>2, <1>3, <1>4, <1>5, <1>6 DEF Act, Wait, Fail

\* Every step keeps Exclusive: a job is in one place.
LEMMA ExclusiveKept ==
  ASSUME TypeOK, QueuesOK, GotOK, FetchedIsHead, Exclusive, [Next]_vars PROVE Exclusive'
<1>1. ASSUME NEW k \in Jobs, Publish(k) PROVE Exclusive'
  <2> SUFFICES ASSUME NEW j \in Jobs
               PROVE  /\ state'[j].picks \in {0, 1}
                      /\ state'[j].picks = 1 =>
                           /\ state'[j].published /\ j \notin Stored'
                           /\ \A v \in VMs : ~Taken(v, j)'
                      /\ \A v \in VMs : Taken(v, j)' =>
                           j \notin Stored' /\ \A w \in VMs : Taken(w, j)' => w = v
    BY DEF Exclusive
  <2>1. UNCHANGED <<pc, got>>
    BY <1>1 DEF Publish, vmVars
  <2>2. \A v \in VMs : Taken(v, j)' <=> Taken(v, j)
    BY <2>1 DEF Taken
  <2>3. state'[j].picks = state[j].picks /\ (state[j].published => state'[j].published)
    BY <1>1, PublishChange
  <2>4. CASE j # k
    <3>1. j \in Stored' <=> j \in Stored
      BY <1>1, <2>4, PublishChange
    <3> QED BY <2>2, <2>3, <3>1 DEF Exclusive
  <2>5. CASE j = k
    <3>1. ~state[j].published
      BY <1>1, <2>5, PublishChange
    <3>2. state[j].picks # 1 /\ \A v \in VMs : ~Taken(v, j)
      BY <3>1, QueueAssumption DEF Exclusive, GotOK, Taken
    <3> QED BY <2>2, <2>3, <3>2 DEF Exclusive
  <2> QED BY <2>4, <2>5
<1>2. ASSUME NEW v \in VMs, Act(v) PROVE Exclusive'
  <2> SUFFICES ASSUME NEW j \in Jobs
               PROVE  /\ state'[j].picks \in {0, 1}
                      /\ state'[j].picks = 1 =>
                           /\ state'[j].published /\ j \notin Stored'
                           /\ \A u \in VMs : ~Taken(u, j)'
                      /\ \A u \in VMs : Taken(u, j)' =>
                           j \notin Stored' /\ \A w \in VMs : Taken(w, j)' => w = u
    BY DEF Exclusive
  <2>1. \A w \in VMs \ {v} : Taken(w, j)' <=> Taken(w, j)
    BY <1>2, OthersUntouched DEF Taken
  <2>2. Taken(v, j)' =>
          (Taken(v, j) /\ UNCHANGED queue /\ ~Pick(v)) \/ (Takes(v) /\ got[v] = j)
    BY <1>2, TakenFromStore
  <2>3. state'[j].published = state[j].published
    BY <1>2, JobsChange
  <2>4. CASE Takes(v)
    <3>1. j \in Stored' <=> j \in Stored /\ j # got[v]
      BY <2>4, TakesChange
    <3>2. got[v] \in Stored
      BY <2>4, TakesChange
    <3>3. state'[j].picks = state[j].picks /\ ~Taken(v, j)
      BY <1>2, <2>4, JobsChange DEF Takes, Pick, Taken
    <3>4. CASE j = got[v]
      <4>1. state[j].picks # 1 /\ \A w \in VMs : ~Taken(w, j)
        BY <3>2, <3>4 DEF Exclusive
      <4> QED BY <2>1, <3>1, <3>3, <3>4, <4>1 DEF Exclusive
    <3>5. CASE j # got[v]
      <4>1. \A w \in VMs : Taken(w, j)' => Taken(w, j)
        BY <2>1, <2>2, <3>5
      <4> QED BY <2>3, <3>1, <3>3, <4>1 DEF Exclusive
    <3> QED BY <3>4, <3>5
  <2>5. CASE UNCHANGED queue /\ ~Takes(v)
    <3>1. j \in Stored' <=> j \in Stored
      BY <2>5 DEF Stored
    <3>2. \A w \in VMs : Taken(w, j)' => Taken(w, j)
      BY <2>1, <2>2, <2>5
    <3>3. CASE state'[j].picks = state[j].picks
      BY <2>3, <3>1, <3>2, <3>3 DEF Exclusive
    <3>4. CASE state'[j].picks # state[j].picks
      <4>1. Pick(v) /\ j = got[v] /\ state'[j].picks = state[j].picks + 1
        BY <1>2, <3>4, JobsChange
      <4>2. Taken(v, j)
        BY <4>1 DEF Pick, Taken
      <4>3. state[j].picks = 0 /\ j \notin Stored /\ \A w \in VMs : Taken(w, j) => w = v
        BY <4>2 DEF Exclusive
      <4>4. \A w \in VMs : ~Taken(w, j)'
        BY <2>2, <2>5, <3>2, <4>1, <4>3
      <4>5. state[j].published
        BY <4>1, QueueAssumption DEF GotOK
      <4> QED BY <2>3, <3>1, <4>1, <4>3, <4>4, <4>5
    <3> QED BY <3>3, <3>4
  <2> QED BY <1>2, <2>4, <2>5, ServerChange
<1>3. CASE UNCHANGED <<queue, pc, got, state>>
  BY <1>3 DEF Exclusive, Stored, Taken
<1> QED BY <1>1, <1>2, <1>3 DEF Next, Act, ExpireConsumer, vars, serverVars, vmVars

\* What a machine has seen stays so until its next pass.
LEMMA SeenKept ==
  ASSUME TypeOK, QueuesOK, GotOK, FetchedIsHead, Looked, [Next]_vars, NEW v \in VMs,
         waiting'[v] = waiting[v], refused[v] \subseteq refused'[v], NEW s, Seen(v, s)
  PROVE  Seen(v, s)'
<1>1. \A j \in waiting[v] : j \in Jobs /\ state[j].published
  BY DEF Looked, TypeOK
<1>2. \A j \in waiting[v] : j \in Stored' => j \in Stored
  BY <1>1, NotStoredAgain
<1> QED BY <1>2 DEF Seen

\* The next subject, when the one v is at has been seen.
LEMMA LookedOn ==
  ASSUME TypeOK, NEW v \in VMs, NextSubject(v), pc[v] \in InPass,
         \A i \in 1 .. at[v] - 1 : Seen(v, Order(v)[i])',
         \A s \in Labels : s = Subject(v) => Seen(v, s)'
  PROVE  /\ pc'[v] \in InPass => \A i \in 1 .. at'[v] - 1 : Seen(v, Order(v)[i])'
         /\ pc'[v] # "delete"
<1>1. at[v] \in Nat
  BY OrderFacts DEF TypeOK
<1>2. CASE at[v] < Len(Order(v))
  <2>1. at'[v] = at[v] + 1 /\ pc'[v] = "create"
    BY <1>2 DEF NextSubject, Goto, TypeOK
  <2>2. ASSUME NEW i \in 1 .. at'[v] - 1 PROVE Seen(v, Order(v)[i])'
    <3>1. i \in 1 .. at[v] - 1 \/ i = at[v]
      BY <1>1, <2>1
    <3>2. Order(v)[at[v]] \in Labels
      BY SubjectType DEF Subject
    <3> QED BY <3>1, <3>2 DEF Subject
  <2> QED BY <2>1, <2>2
<1>3. CASE ~(at[v] < Len(Order(v)))
  BY <1>3 DEF NextSubject, Goto, TypeOK, InPass
<1> QED BY <1>2, <1>3

\* After a step of its own, a VM has looked at all subjects before the one it is at.
LEMMA LookedAfterAct ==
  ASSUME TypeOK, QueuesOK, GotOK, FetchedIsHead, Looked, NEW v \in VMs, Act(v), Next
  PROVE  /\ \A j \in waiting'[v] : state'[j].published
         /\ pc'[v] \in InPass => \A i \in 1 .. at'[v] - 1 : Seen(v, Order(v)[i])'
         /\ pc'[v] = "delete" /\ got'[v] = None => Seen(v, Subject(v))'
<1> USE DEF Goto
<1>1. ASSUME NEW j \in waiting[v] PROVE state'[j].published
  BY <1>1, NotStoredAgain DEF Looked, TypeOK
<1>2. ASSUME pc[v] \in InPass, waiting'[v] = waiting[v], refused[v] \subseteq refused'[v]
      PROVE  \A i \in 1 .. at[v] - 1 : Seen(v, Order(v)[i])'
  BY <1>2, SeenKept DEF Looked
<1>3. CASE Begin(v)
  <2>1. at'[v] = 1 /\ pc'[v] = "create" /\ waiting'[v] = Stored /\ UNCHANGED state
    BY <1>3 DEF Begin, TypeOK
  <2> QED BY <2>1 DEF QueuesOK
<1>4. CASE Create(v) /\ consumer[Subject(v)] = None
  <2>1. /\ pc[v] = "create" /\ pc'[v] = "fetch" /\ UNCHANGED at
        /\ waiting'[v] = waiting[v] /\ refused'[v] = refused[v]
    BY <1>4 DEF Create, TypeOK
  <2> QED BY <1>1, <1>2, <2>1 DEF InPass
<1>5. CASE (Create(v) /\ consumer[Subject(v)] # None) \/ CreateFails(v)
  <2>1. /\ NextSubject(v) /\ pc[v] = "create" /\ waiting'[v] = waiting[v]
        /\ refused'[v] = refused[v] \cup {Subject(v)}
    BY <1>5 DEF Create, CreateFails, Refuse, TypeOK
  <2>2. Subject(v) \in refused'[v] /\ pc[v] \in InPass
    BY <2>1 DEF InPass
  <2>3. \A i \in 1 .. at[v] - 1 : Seen(v, Order(v)[i])'
    BY <1>2, <2>1, <2>2
  <2>4. \A s \in Labels : s = Subject(v) => Seen(v, s)'
    BY <2>2 DEF Seen
  <2>5. /\ pc'[v] \in InPass => \A i \in 1 .. at'[v] - 1 : Seen(v, Order(v)[i])'
        /\ pc'[v] # "delete"
    BY <2>1, <2>2, <2>3, <2>4, LookedOn
  <2> QED BY <1>1, <2>1, <2>5
<1>6. CASE Fetch(v) \/ FetchFails(v) \/ Ack(v) \/ AckFails(v)
  <2>1. /\ pc[v] \in InPass /\ UNCHANGED at
        /\ waiting'[v] = waiting[v] /\ refused[v] \subseteq refused'[v]
        /\ pc'[v] = "delete" => Subject(v) \in refused'[v] \/ got'[v] # None
             \/ (consumer[Subject(v)] = v /\ queue[Subject(v)] = <<>> /\ UNCHANGED queue)
    BY <1>6 DEF Fetch, FetchFails, Ack, AckFails, Refuse, TypeOK, InPass, GotOK, serverVars
  <2>2. Subject(v)' = Subject(v)
    BY <2>1 DEF Subject
  <2>3. ASSUME queue[Subject(v)] = <<>>, UNCHANGED queue, NEW j \in waiting'[v] \cap Stored'
        PROVE  LabelOf[j] # Subject(v)
    <3>1. j \in Jobs /\ j \in StoredIn(queue)
      BY <2>1, <2>3 DEF Stored, StoredIn, TypeOK
    <3>2. \E i \in 1 .. Len(queue[LabelOf[j]]) : queue[LabelOf[j]][i] = j
      BY <3>1, StoredUnderLabel DEF QueuesOK, TypeOK
    <3>3. Len(<<>>) = 0
      BY LenProperties
    <3> QED BY <2>3, <3>2, <3>3
  <2>4. pc'[v] = "delete" /\ got'[v] = None => Seen(v, Subject(v))'
    BY <2>1, <2>2, <2>3 DEF Seen
  <2> QED BY <1>1, <1>2, <2>1, <2>4
<1>7. CASE DeleteConsumer(v) /\ got[v] # None
  <2>1. /\ pc[v] = "delete" /\ pc'[v] = "picked" /\ UNCHANGED <<at, waiting, refused>>
    BY <1>7 DEF DeleteConsumer, TypeOK, history
  <2> QED BY <1>1, <1>2, <2>1 DEF InPass
<1>8. CASE DeleteConsumer(v) /\ got[v] = None
  <2>1. /\ NextSubject(v) /\ pc[v] = "delete" /\ UNCHANGED <<waiting, refused>>
    BY <1>8 DEF DeleteConsumer, TypeOK, history
  <2>2. \A i \in 1 .. at[v] - 1 : Seen(v, Order(v)[i])'
    BY <1>2, <2>1 DEF InPass
  <2>3. \A s \in Labels : s = Subject(v) => Seen(v, s)'
    BY <1>8, <2>1, SeenKept DEF Looked
  <2>4. /\ pc'[v] \in InPass => \A i \in 1 .. at'[v] - 1 : Seen(v, Order(v)[i])'
        /\ pc'[v] # "delete"
    BY <2>1, <2>2, <2>3, LookedOn DEF InPass
  <2> QED BY <1>1, <2>1, <2>4
<1>9. CASE Pick(v) \/ Wake(v) \/ Replace(v) \/ Crash(v) \/ Reboot(v) \/ BeginFails(v)
  <2>1. pc'[v] \notin InPass /\ waiting'[v] \in {waiting[v], {}}
    BY <1>9 DEF Pick, Wake, Replace, Crash, Reboot, BeginFails, TypeOK, history, InPass
  <2> QED BY <1>1, <2>1 DEF InPass
<1> QED BY <1>3, <1>4, <1>5, <1>6, <1>7, <1>8, <1>9 DEF Act, Wait, Fail

\* Every step keeps Looked, so a pass skips no subject unseen.
LEMMA LookedKept ==
  ASSUME TypeOK, QueuesOK, GotOK, FetchedIsHead, Looked, [Next]_vars PROVE Looked'
<1>1. ASSUME NEW w \in VMs, pc'[w] = pc[w], at'[w] = at[w], got'[w] = got[w],
             waiting'[w] = waiting[w], refused'[w] = refused[w]
      PROVE  /\ \A j \in waiting'[w] : state'[j].published
             /\ pc'[w] \in InPass => \A i \in 1 .. at'[w] - 1 : Seen(w, Order(w)[i])'
             /\ pc'[w] = "delete" /\ got'[w] = None => Seen(w, Subject(w))'
  <2>1. \A j \in waiting[w] : state'[j].published
    BY NotStoredAgain DEF Looked, TypeOK
  <2>2. pc[w] \in InPass => \A i \in 1 .. at[w] - 1 : Seen(w, Order(w)[i])'
    BY <1>1, SeenKept DEF Looked
  <2>3. Subject(w)' = Subject(w)
    BY <1>1 DEF Subject
  <2>4. pc[w] = "delete" /\ got[w] = None =>
          \A s \in Labels : s = Subject(w) => Seen(w, s)'
    BY <1>1, SeenKept DEF Looked
  <2> QED BY <1>1, <2>1, <2>2, <2>3, <2>4, SubjectType DEF Seen
<1>2. ASSUME NEW v \in VMs, Act(v), Next PROVE Looked'
  BY <1>1, <1>2, OthersUntouched, LookedAfterAct DEF Looked
<1>3. CASE UNCHANGED <<vmVars, history>>
  BY <1>1, <1>3 DEF Looked, vmVars, history
<1> QED BY <1>2, <1>3 DEF Next, Act, Publish, ExpireConsumer, vars

-----------------------------------------------------------------------------
\* The invariant, and what follows from it.
LEMMA InitHolds == Init => IInv
<1> SUFFICES ASSUME Init PROVE IInv
  OBVIOUS
<1>1. \A v \in VMs : 1 \in 1 .. Len(Order(v))
  BY OrderFacts
<1>2. Stored = {}
  <2>1. \A s \in Labels : ToSet(queue[s]) = {}
    BY LenProperties, EmptySeq DEF Init, ToSet
  <2> QED BY <2>1 DEF Stored
<1>3. TypeOK
  <2>1. queue \in [Labels -> Seq(Jobs)]
    BY EmptySeq DEF Init
  <2>2. state \in [Jobs -> [published : BOOLEAN, picks : Nat]]
    BY DEF Init
  <2>3. faults \in 0 .. MaxFaults
    BY QueueAssumption DEF Init
  <2> QED BY <1>1, <2>1, <2>2, <2>3 DEF Init, TypeOK
<1>4. QueuesOK
  <2>1. \A s \in Labels : Len(queue[s]) = 0
    BY EmptySeq, LenProperties DEF Init
  <2> QED BY <1>2, <2>1 DEF QueuesOK, Once
<1>5. GotOK /\ FetchedIsHead
  BY DEF Init, GotOK, FetchedIsHead
<1>6. Exclusive
  BY DEF Init, Exclusive, Taken
<1>7. Looked
  BY DEF Init, Looked, InPass
<1> QED BY <1>3, <1>4, <1>5, <1>6, <1>7 DEF IInv

\* The conjunction is inductive.
LEMMA Inductive == IInv /\ [Next]_vars => IInv'
BY TypedStep, QueuesKept, GotKept, HeadKept, ExclusiveKept, LookedKept DEF IInv

\* IInv is an invariant of the queue.
LEMMA Invariant == Spec => []IInv
BY InitHolds, Inductive, PTL DEF Spec

\* Queues hold jobs, machines are at a subject they read, and so on: every
\* variable keeps its type, whatever calls fail.
THEOREM Typed == Spec => []TypeOK
<1>1. IInv => TypeOK
  BY DEF IInv
<1> QED BY Invariant, <1>1, PTL

\* A job is stored, or in the hands of one machine, or begun by one machine,
\* and not two of these: two runners never run the same job, however many
\* machines wait, calls fail and machines die.
THEOREM OneRunnerPerJob == Spec => []HandedOutOnce
<1>1. IInv => HandedOutOnce
  <2> SUFFICES ASSUME IInv, NEW j \in Jobs
               PROVE  Cardinality(Takers(j)) + state[j].picks
                        + (IF j \in Stored THEN 1 ELSE 0) <= 1
    BY DEF HandedOutOnce
  <2>1. /\ state[j].picks \in {0, 1}
        /\ state[j].picks = 1 => j \notin Stored /\ \A v \in VMs : ~Taken(v, j)
        /\ \A v \in VMs : Taken(v, j) =>
             j \notin Stored /\ \A w \in VMs : Taken(w, j) => w = v
    BY DEF IInv, Exclusive
  <2>2. Takers(j) = {v \in VMs : Taken(v, j)}
    BY DEF Takers, Taken
  <2>3. CASE Takers(j) = {}
    <3>1. Cardinality(Takers(j)) = 0
      BY <2>3, FS_EmptySet
    <3> QED BY <2>1, <3>1
  <2>4. CASE Takers(j) # {}
    <3>1. PICK v \in VMs : Taken(v, j)
      BY <2>2, <2>4
    <3>2. Takers(j) = {v}
      BY <2>1, <2>2, <3>1
    <3>3. Cardinality(Takers(j)) = 1
      BY <3>2, FS_Singleton
    <3> QED BY <2>1, <3>1, <3>3
  <2> QED BY <2>3, <2>4
<1> QED BY Invariant, <1>1, PTL

\* A machine begins a job although a more urgent one was there before its pass
\* only if it was refused at that subject in the pass: it never skips it.
THEOREM UrgentFirst == Spec => []PassedOverOnlyIfRefused
<1>1. IInv => PassedOverOnlyIfRefused
  <2> SUFFICES ASSUME IInv, NEW v \in VMs, pc[v] = "picked", NEW j \in PassedOver(v)
               PROVE  LabelOf[j] \in refused[v]
    BY DEF PassedOverOnlyIfRefused, HasTaken
  <2>1. /\ j \in waiting[v] \cap Stored /\ LabelOf[j] \in ToSet(Order(v))
        /\ Rank(LabelOf[j]) < Rank(LabelOf[got[v]])
    BY DEF PassedOver, Reads
  <2>2. PICK i \in 1 .. Len(Order(v)) : LabelOf[j] = Order(v)[i]
    BY <2>1, OrderFacts DEF ToSet
  <2>3. LabelOf[got[v]] = Order(v)[at[v]] /\ at[v] \in 1 .. Len(Order(v))
    BY DEF IInv, GotOK, TypeOK, Subject
  <2>4. i < at[v]
    BY <2>1, <2>2, <2>3, OrderFacts
  <2>5. i \in 1 .. at[v] - 1
    BY <2>2, <2>3, <2>4, OrderFacts
  <2>6. Seen(v, LabelOf[j])
    BY <2>2, <2>5 DEF IInv, Looked, InPass
  <2> QED BY <2>1, <2>6 DEF Seen
<1> QED BY Invariant, <1>1, PTL

-----------------------------------------------------------------------------
\* Calls may be lost, and machines slow; but no call takes effect unnoticed,
\* and no machine dies.
NoSilentEffect == FaultKinds \subseteq {"call", "slow"}

KeptSomewhere(j) == j \in Stored \/ (\E v \in VMs : Taken(v, j)) \/ state[j].picks = 1

NothingLostInv == \A j \in Jobs : state[j].published => KeptSomewhere(j)

\* Without a silent effect, no step takes a job out of the stream and out of every VM.
LEMMA NothingLostStep ==
  ASSUME NoSilentEffect, IInv, IInv', NothingLostInv, [Next]_vars
  PROVE  NothingLostInv'
<1>1. ASSUME NEW k \in Jobs, Publish(k) PROVE NothingLostInv'
  <2> SUFFICES ASSUME NEW j \in Jobs, state'[j].published PROVE KeptSomewhere(j)'
    BY DEF NothingLostInv
  <2>1. j = k \/ state[j].published
    BY <1>1 DEF Publish, IInv, TypeOK
  <2>2. j \in Stored' <=> j \in Stored \/ j = k
    BY <1>1, PublishChange DEF IInv
  <2>3. state'[j].picks = state[j].picks /\ UNCHANGED <<pc, got>>
    BY <1>1, PublishChange DEF IInv, Publish, vmVars
  <2> QED BY <2>1, <2>2, <2>3 DEF NothingLostInv, KeptSomewhere, Taken
<1>2. ASSUME NEW v \in VMs, Act(v) PROVE NothingLostInv'
  <2> SUFFICES ASSUME NEW j \in Jobs, state'[j].published PROVE KeptSomewhere(j)'
    BY DEF NothingLostInv
  <2>1. /\ state[j].published
        /\ \/ state'[j].picks = state[j].picks
           \/ Pick(v) /\ j = got[v] /\ state'[j].picks = state[j].picks + 1
    BY <1>2, JobsChange DEF IInv
  <2>2. KeptSomewhere(j)
    BY <2>1 DEF NothingLostInv
  <2>3. CASE state[j].picks = 1
    <3>1. ~(Pick(v) /\ j = got[v])
      BY <2>3 DEF IInv, Exclusive, Taken, Pick
    <3> QED BY <2>1, <2>3, <3>1 DEF KeptSomewhere
  <2>4. ASSUME NEW w \in VMs, Taken(w, j) PROVE KeptSomewhere(j)'
    <3>1. CASE w # v
      BY <1>2, <2>4, <3>1, OthersUntouched DEF IInv, Taken, KeptSomewhere
    <3>2. CASE w = v /\ Pick(v)
      <4>1. j = got[v] /\ state[j].picks = 0
        BY <2>4, <3>2 DEF IInv, Exclusive, Taken
      <4>2. state'[j].picks # state[j].picks
        <5> DEFINE n == state[got[v]].picks + 1
        <5>1. state' = [state EXCEPT ![got[v]].picks = n] /\ got[v] \in Jobs
          BY <3>2, <4>1 DEF Pick
        <5>2. n = 1
          BY <4>1
        <5> HIDE DEF n
        <5>3. state'[j].picks = n
          BY <4>1, <5>1 DEF IInv, TypeOK
        <5> QED BY <4>1, <5>2, <5>3
      <4> QED BY <2>1, <4>1, <4>2 DEF KeptSomewhere
    <3>3. CASE w = v /\ ~Pick(v)
      <4>1. DeleteConsumer(v) /\ got[v] # None
        BY <1>2, <2>4, <3>3, QueueAssumption DEF Act, Wait, Fail, Begin, BeginFails, Create,
           CreateFails, Fetch, FetchFails, Ack, AckFails, Wake, Replace, Crash, Reboot, Taken,
           Fault, NoSilentEffect
      <4>2. pc'[v] = "picked" /\ got'[v] = got[v]
        BY <4>1 DEF DeleteConsumer, Goto, IInv, TypeOK
      <4> QED BY <2>4, <3>3, <4>2 DEF Taken, KeptSomewhere
    <3> QED BY <3>1, <3>2, <3>3
  <2>5. CASE j \in Stored
    <3>1. CASE UNCHANGED queue
      BY <2>5, <3>1 DEF KeptSomewhere, Stored
    <3>2. CASE Takes(v) /\ j # got[v]
      <4>1. j \in Stored'
        BY <2>5, <3>2, TakesChange DEF IInv
      <4> QED BY <4>1 DEF KeptSomewhere
    <3>3. CASE Takes(v) /\ j = got[v] /\ ~UNCHANGED queue
      <4>1. Ack(v)
        BY <1>2, <3>3 DEF Takes, Act, Wait, Fail, Begin, BeginFails, Create, serverVars,
           CreateFails, Fetch, FetchFails, DeleteConsumer, Pick, AckFails, Wake, Replace, Crash,
           Reboot, Fault, NoSilentEffect
      <4>2. pc'[v] = "delete" /\ got'[v] = j
        BY <3>3, <4>1 DEF Ack, Takes, Goto, IInv, TypeOK
      <4> QED BY <4>2 DEF Taken, KeptSomewhere
    <3> QED BY <1>2, <3>1, <3>2, <3>3, ServerChange DEF IInv
  <2> QED BY <2>2, <2>3, <2>4, <2>5 DEF KeptSomewhere
<1>3. CASE UNCHANGED <<queue, pc, got, state>>
  BY <1>3 DEF NothingLostInv, KeptSomewhere, Stored, Taken
<1> QED BY <1>1, <1>2, <1>3 DEF Next, Act, ExpireConsumer, vars, serverVars, vmVars

\* As long as no reply is lost and no machine dies, a published job is in the
\* stream, in the hands of a machine, or begun: none disappears in between.
THEOREM JobsNotLost ==
  ASSUME NoSilentEffect PROVE Spec => []NothingLost
<1>1. Init => NothingLostInv
  BY DEF Init, NothingLostInv
<1>2. IInv /\ IInv' /\ NothingLostInv /\ [Next]_vars => NothingLostInv'
  BY NothingLostStep
<1>3. IInv /\ NothingLostInv => NothingLost
  BY DEF IInv, NothingLostInv, NothingLost, KeptSomewhere, Takers, Taken
<1> QED BY Invariant, <1>1, <1>2, <1>3, PTL DEF Spec
=============================================================================

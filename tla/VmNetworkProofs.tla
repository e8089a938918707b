-------------------------- MODULE VmNetworkProofs --------------------------
(***************************************************************************)
(* Theorems about the network of a host's VMs, for every set of instance   *)
(* numbers: NetInv is inductive, and the properties that MCVmNetwork checks*)
(* on four numbers follow from it.                                         *)
(***************************************************************************)
EXTENDS VmNetwork, TLAPS

\* Two slots share no device name.
LEMMA TapsApart ==
    ASSUME NEW i \in Nat, NEW j \in Nat, i # j
    PROVE  /\ Taps(i) \cap Taps(j) = {}
           /\ Taps(i) \subseteq Nat
BY DEF Taps, Tap0, Tap1, Base

\* The two names of a slot differ.
LEMMA TapsDiffer ==
    ASSUME NEW i \in Nat
    PROVE  Tap0(i) # Tap1(i) /\ Tap0(i) \in Nat /\ Tap1(i) \in Nat /\ Gateway(i) \in Nat
           /\ Gateway(i) # NoAddr
BY DEF Tap0, Tap1, Base, Gateway, NoAddr

\* Both addresses of a slot are hosts of the subnet that has its number.
LEMMA SubnetOfSlot ==
    ASSUME NEW i \in Nat
    PROVE  /\ Subnet(Gateway(i)) = i /\ Subnet(Guest(i)) = i
           /\ IsHost(Gateway(i)) /\ IsHost(Guest(i))
           /\ Gateway(i) # Guest(i)
           /\ IsOctet(Gateway(i)) => IsOctet(Guest(i))
BY DEF Subnet, Gateway, Guest, Base, IsHost, IsOctet

\* The invariant holds at the start: there are no devices.
LEMMA NetInit == Init => NetInv
BY IdsAssumption DEF Init, NetInv, TypeOK, LinksOK, RunningOK, LinksOf

\* Devices of one slot, once the old ones are gone and others have come.
LEMMA LinksAfter ==
    ASSUME NEW i \in Nat, NEW j \in Nat, NEW L, NEW R,
           \A l \in R : l.dev \in Taps(i)
    PROVE  LET new == (L \ {l \in L : l.dev \in Taps(i)}) \cup R
           IN  {l \in new : l.dev \in Taps(j)}
                 = IF i = j THEN R ELSE {l \in L : l.dev \in Taps(j)}
<1>1. CASE i = j
  BY <1>1
<1>2. CASE i # j
  <2>1. Taps(i) \cap Taps(j) = {}
    BY <1>2, TapsApart
  <2> QED
    BY <1>2, <2>1
<1> QED
  BY <1>1, <1>2

\* A successful start makes the two devices of the slot and its rule.
LEMMA StartVMInv ==
    ASSUME NetInv, NEW i \in Ids, StartVM(i)
    PROVE  NetInv'
<1> DEFINE made == {Link(Tap0(i), NoAddr), Link(Tap1(i), Gateway(i))}
<1>0. i \in Nat /\ IsOctet(Gateway(i))
  BY IdsAssumption DEF StartVM
<1>1. \A l \in made : /\ l.dev \in Taps(i)
                      /\ l \in [dev : Nat, addr : Nat \cup {NoAddr}]
  BY <1>0, TapsDiffer DEF Link, Taps
<1>2. links' = (links \ {l \in links : l.dev \in Taps(i)}) \cup made
  BY DEF StartVM, LinksOf
<1>3. TypeOK'
  <2>1. state' \in [Ids -> {"down", "up"}]
    BY DEF NetInv, TypeOK, StartVM
  <2>2. links' \subseteq [dev : Nat, addr : Nat \cup {NoAddr}]
    BY <1>1, <1>2 DEF NetInv, TypeOK
  <2>3. forward' \subseteq Nat
    BY <1>0, TapsDiffer DEF NetInv, TypeOK, StartVM, Forwarded
  <2> QED
    BY <2>1, <2>2, <2>3 DEF TypeOK
<1>4. LinksOK'
  <2>1. \A l \in made : \/ l.dev \in Taps(i) /\ l.addr = NoAddr
                        \/ l = Link(Tap1(i), Gateway(i)) /\ IsOctet(Gateway(i))
    BY <1>0 DEF Link, Taps
  <2> QED
    BY <1>2, <2>1 DEF NetInv, LinksOK
<1>5. RunningOK'
  <2> SUFFICES ASSUME NEW j \in Ids, state'[j] = "up"
               PROVE  /\ IsOctet(Gateway(j))
                      /\ LinksOf(j)' = {Link(Tap0(j), NoAddr), Link(Tap1(j), Gateway(j))}
                      /\ Tap1(j) \in forward'
    BY DEF RunningOK
  <2>1. LinksOf(j)' = IF i = j THEN made ELSE LinksOf(j)
    <3>1. j \in Nat
      BY IdsAssumption
    <3> HIDE DEF made
    <3>2. {l \in links' : l.dev \in Taps(j)}
            = IF i = j THEN made ELSE {l \in links : l.dev \in Taps(j)}
      BY <1>0, <1>1, <1>2, <3>1, LinksAfter
    <3> QED
      BY <3>2 DEF LinksOf
  <2>2. CASE i = j
    BY <1>0, <2>1, <2>2 DEF StartVM, Forwarded
  <2>3. CASE i # j
    <3>1. state[j] = "up"
      BY <2>3 DEF StartVM, NetInv, TypeOK
    <3> QED
      BY <2>1, <2>3, <3>1 DEF NetInv, RunningOK, StartVM
  <2> QED
    BY <2>2, <2>3
<1> QED
  BY <1>3, <1>4, <1>5 DEF NetInv

\* What a failed start leaves behind are devices of the slot, none of them with
\* an address that does not exist.
LEMMA RemainsOK ==
    ASSUME NetInv, NEW i \in Ids, NEW R \in Remains(i)
    PROVE  \A l \in R :
             /\ l.dev \in Taps(i)
             /\ l \in [dev : Nat, addr : Nat \cup {NoAddr}]
             /\ \/ l \in links
                \/ l.addr = NoAddr
                \/ l = Link(Tap1(i), Gateway(i)) /\ IsOctet(Gateway(i))
<1>1. i \in Nat
  BY IdsAssumption
<1>2. \A l \in LinksOf(i) : l \in links /\ l.dev \in Taps(i)
                            /\ l \in [dev : Nat, addr : Nat \cup {NoAddr}]
  BY DEF LinksOf, NetInv, TypeOK
<1>3. Link(Tap0(i), NoAddr).dev \in Taps(i) /\ Link(Tap0(i), NoAddr).addr = NoAddr
      /\ Link(Tap0(i), NoAddr) \in [dev : Nat, addr : Nat \cup {NoAddr}]
  BY <1>1, TapsDiffer DEF Link, Taps
<1>4. Link(Tap1(i), NoAddr).dev \in Taps(i) /\ Link(Tap1(i), NoAddr).addr = NoAddr
      /\ Link(Tap1(i), NoAddr) \in [dev : Nat, addr : Nat \cup {NoAddr}]
  BY <1>1, TapsDiffer DEF Link, Taps
<1>5. Link(Tap1(i), Gateway(i)).dev \in Taps(i)
      /\ Link(Tap1(i), Gateway(i)) \in [dev : Nat, addr : Nat \cup {NoAddr}]
  BY <1>1, TapsDiffer DEF Link, Taps
<1> QED
  BY <1>2, <1>3, <1>4, <1>5 DEF Remains

\* A failed start leaves the running VMs what they have.
LEMMA StartFailsInv ==
    ASSUME NetInv, NEW i \in Ids, StartFails(i)
    PROVE  NetInv'
<1>1. PICK R \in Remains(i) : links' = (links \ LinksOf(i)) \cup R
  BY DEF StartFails
<1>2. i \in Nat /\ state[i] = "down" /\ state' = state
  BY IdsAssumption DEF StartFails
<1>3. \A l \in R :
        /\ l.dev \in Taps(i)
        /\ l \in [dev : Nat, addr : Nat \cup {NoAddr}]
        /\ \/ l \in links
           \/ l.addr = NoAddr
           \/ l = Link(Tap1(i), Gateway(i)) /\ IsOctet(Gateway(i))
  BY RemainsOK
<1>4. forward \subseteq forward' /\ forward' \subseteq forward \cup {Forwarded(i)}
  BY DEF StartFails
<1>5. TypeOK'
  <2>1. links' \subseteq [dev : Nat, addr : Nat \cup {NoAddr}]
    BY <1>1, <1>3 DEF NetInv, TypeOK
  <2>2. forward' \subseteq Nat
    BY <1>2, <1>4, TapsDiffer DEF NetInv, TypeOK, Forwarded
  <2> QED
    BY <1>2, <2>1, <2>2 DEF NetInv, TypeOK
<1>6. LinksOK'
  BY <1>1, <1>3 DEF NetInv, LinksOK
<1>7. RunningOK'
  <2> SUFFICES ASSUME NEW j \in Ids, state'[j] = "up"
               PROVE  /\ IsOctet(Gateway(j))
                      /\ LinksOf(j)' = {Link(Tap0(j), NoAddr), Link(Tap1(j), Gateway(j))}
                      /\ Tap1(j) \in forward'
    BY DEF RunningOK
  <2>1. i # j /\ state[j] = "up" /\ j \in Nat
    BY <1>2, IdsAssumption
  <2>2. LinksOf(j)' = LinksOf(j)
    <3>1. links' = (links \ {l \in links : l.dev \in Taps(i)}) \cup R
      BY <1>1 DEF LinksOf
    <3>2. {l \in links' : l.dev \in Taps(j)}
            = IF i = j THEN R ELSE {l \in links : l.dev \in Taps(j)}
      BY <1>2, <1>3, <2>1, <3>1, LinksAfter
    <3> QED
      BY <2>1, <3>2 DEF LinksOf
  <2> QED
    BY <1>4, <2>1, <2>2 DEF NetInv, RunningOK
<1> QED
  BY <1>5, <1>6, <1>7 DEF NetInv

\* Stopping a VM takes devices of its slot only.
LEMMA StopVMInv ==
    ASSUME NetInv, NEW i \in Ids, StopVM(i)
    PROVE  NetInv'
<1>1. PICK gone \in SUBSET Taps(i) : links' = {l \in links : l.dev \notin gone}
  BY DEF StopVM
<1>2. TypeOK' /\ LinksOK'
  BY <1>1 DEF StopVM, NetInv, TypeOK, LinksOK
<1>3. RunningOK'
  <2> SUFFICES ASSUME NEW j \in Ids, state'[j] = "up"
               PROVE  /\ IsOctet(Gateway(j))
                      /\ LinksOf(j)' = {Link(Tap0(j), NoAddr), Link(Tap1(j), Gateway(j))}
                      /\ Tap1(j) \in forward'
    BY DEF RunningOK
  <2>1. i # j /\ state[j] = "up"
    BY DEF StopVM, NetInv, TypeOK
  <2>2. Taps(i) \cap Taps(j) = {}
    BY <2>1, IdsAssumption, TapsApart
  <2>3. LinksOf(j)' = LinksOf(j)
    BY <1>1, <2>2 DEF LinksOf
  <2> QED
    BY <2>1, <2>3 DEF StopVM, NetInv, RunningOK
<1> QED
  BY <1>2, <1>3 DEF NetInv

\* NetInv holds in every reachable state.
THEOREM NetInvariant == Spec => []NetInv
<1>1. ASSUME NetInv, [Next]_vars
      PROVE  NetInv'
  <2>1. CASE UNCHANGED vars
    BY <1>1, <2>1 DEF vars, NetInv, TypeOK, LinksOK, RunningOK, LinksOf
  <2>2. CASE Crash
    BY <1>1, <2>2 DEF Crash, NetInv, TypeOK, LinksOK, RunningOK, LinksOf
  <2>3. CASE \E i \in Ids : StartVM(i) \/ StartFails(i) \/ StopVM(i)
    BY <1>1, <2>3, StartVMInv, StartFailsInv, StopVMInv
  <2> QED
    BY <1>1, <2>1, <2>2, <2>3 DEF Next
<1> QED
  BY <1>1, NetInit, PTL DEF Spec

\* createVM, TapDelete: the variables keep their types.
THEOREM NetTypeCorrect == Spec => []TypeOK
BY NetInvariant, PTL DEF NetInv

\* A device with an address in the subnet of a slot is the second one of this
\* slot, so a running VM is reached over its own device, for all instance
\* numbers and whatever failed starts and restarts left behind.
THEOREM GuestsReached == Spec => []ReachesItsGuest
<1>1. NetInv => ReachesItsGuest
  <2> SUFFICES ASSUME NetInv, NEW i \in Ids, state[i] = "up"
               PROVE  /\ Routes(Guest(i)) = {Link(Tap1(i), Gateway(i))}
                      /\ Gateway(i) # Guest(i) /\ IsHost(Gateway(i)) /\ IsHost(Guest(i))
    BY DEF ReachesItsGuest
  <2>1. i \in Nat
    BY IdsAssumption
  <2>2. ASSUME NEW l \in Routes(Guest(i))
        PROVE  l = Link(Tap1(i), Gateway(i))
    <3>1. l \in links /\ l.addr # NoAddr /\ Subnet(l.addr) = i
      BY <2>1, SubnetOfSlot DEF Routes
    <3>2. PICK j \in Ids : l = Link(Tap1(j), Gateway(j))
      BY <3>1 DEF NetInv, LinksOK
    <3>3. l.addr = Gateway(j) /\ j \in Nat
      BY <3>2, IdsAssumption DEF Link
    <3>4. i = j
      BY <3>1, <3>3, SubnetOfSlot
    <3> QED
      BY <3>2, <3>4
  <2>3. Link(Tap1(i), Gateway(i)) \in Routes(Guest(i))
    <3>1. Link(Tap1(i), Gateway(i)) \in links
      BY DEF NetInv, RunningOK, LinksOf
    <3>2. Link(Tap1(i), Gateway(i)).addr = Gateway(i)
      BY DEF Link
    <3> QED
      BY <2>1, <3>1, <3>2, SubnetOfSlot, TapsDiffer DEF Routes
  <2> QED
    BY <2>1, <2>2, <2>3, SubnetOfSlot
<1> QED
  BY <1>1, NetInvariant, PTL

\* A running VM has a forwarding rule for the device with its gateway.
THEOREM Egress == Spec => []HasEgress
<1>1. NetInv => HasEgress
  <2> SUFFICES ASSUME NetInv, NEW i \in Ids, state[i] = "up"
               PROVE  \E l \in links : l.dev \in forward /\ l.addr = Gateway(i)
    BY DEF HasEgress
  <2>1. Link(Tap1(i), Gateway(i)) \in links /\ Tap1(i) \in forward
    BY DEF NetInv, RunningOK, LinksOf
  <2> QED
    BY <2>1 DEF Link
<1> QED
  BY <1>1, NetInvariant, PTL

\* Running VMs have instance numbers with addresses, so their MAC addresses
\* differ, as the addresses do.
THEOREM MacsSafe == Spec => []MacsDistinct
<1>1. NetInv => MacsDistinct
  <2> SUFFICES ASSUME NetInv, NEW i \in Ids, NEW j \in Ids,
                      NEW m \in {1, 2}, NEW n \in {1, 2},
                      state[i] = "up", state[j] = "up", <<i, m>> # <<j, n>>
               PROVE  Macs(i)[m] # Macs(j)[n]
    BY DEF MacsDistinct
  <2>1. i \in Nat /\ j \in Nat
    BY IdsAssumption
  <2>2. IsOctet(Gateway(i)) /\ IsOctet(Guest(i)) /\ IsOctet(Gateway(j)) /\ IsOctet(Guest(j))
    BY <2>1, SubnetOfSlot DEF NetInv, RunningOK
  <2>3. \A o, p : IsOctet(o) /\ IsOctet(p) /\ o # p => MacAddr(o) # MacAddr(p)
    BY DEF MacAddr, IsOctet
  <2>4. /\ i # j => /\ Gateway(i) # Gateway(j) /\ Gateway(i) # Guest(j)
                    /\ Guest(i) # Gateway(j) /\ Guest(i) # Guest(j)
        /\ Gateway(i) # Guest(i)
    BY <2>1, SubnetOfSlot
  <2>5. Macs(i)[1] = MacAddr(Gateway(i)) /\ Macs(i)[2] = MacAddr(Guest(i))
        /\ Macs(j)[1] = MacAddr(Gateway(j)) /\ Macs(j)[2] = MacAddr(Guest(j))
    BY DEF Macs
  <2>6. i # j \/ m # n
    OBVIOUS
  <2>7. CASE m = 1 /\ n = 1
    BY <2>2, <2>3, <2>4, <2>5, <2>6, <2>7
  <2>8. CASE m = 1 /\ n = 2
    BY <2>2, <2>3, <2>4, <2>5, <2>8
  <2>9. CASE m = 2 /\ n = 1
    BY <2>2, <2>3, <2>4, <2>5, <2>9
  <2>10. CASE m = 2 /\ n = 2
    BY <2>2, <2>3, <2>4, <2>5, <2>6, <2>10
  <2> QED
    BY <2>7, <2>8, <2>9, <2>10
<1> QED
  BY <1>1, NetInvariant, PTL

\* No step of one slot changes the devices of a VM that runs in another.
THEOREM OthersSafe == Spec => OthersUntouched
<1> DEFINE Keeps == \A i \in Ids : state[i] = "up" /\ state'[i] = "up" =>
         \A dev \in Taps(i) : \A addr \in {NoAddr, Gateway(i)} :
           Link(dev, addr) \in links <=> Link(dev, addr) \in links'
<1>1. ASSUME NetInv, NetInv', [Next]_vars
      PROVE  [Keeps]_vars
  <2> SUFFICES ASSUME NEW i \in Ids, state[i] = "up", state'[i] = "up",
                      NEW dev \in Taps(i), NEW addr \in {NoAddr, Gateway(i)}
               PROVE  Link(dev, addr) \in links <=> Link(dev, addr) \in links'
    OBVIOUS
  <2>1. LinksOf(i) = LinksOf(i)'
    BY <1>1 DEF NetInv, RunningOK
  <2>2. Link(dev, addr) \in links <=> Link(dev, addr) \in LinksOf(i)
    BY DEF LinksOf, Link
  <2>3. Link(dev, addr) \in links' <=> Link(dev, addr) \in LinksOf(i)'
    BY DEF LinksOf, Link
  <2> QED
    BY <2>1, <2>2, <2>3
<1> QED
  BY <1>1, NetInvariant, PTL DEF Spec, OthersUntouched
=============================================================================

----------------------------- MODULE VmNetwork -----------------------------
(***************************************************************************)
(* The network of the VMs of one host.  createVM computes the names of two *)
(* tap devices, two addresses in 172.26.0.0/24 and two MAC addresses from  *)
(* the instance number; nothing records which of them are in use.  Devices *)
(* outlive the VM when a start fails half-way or hostctl dies, iptables    *)
(* rules are never removed.                                                *)
(*                                                                         *)
(* A device fc<n> is its number n, an address 172.26.0.<o> its last octet  *)
(* o.  When the steps of one slot meet those of another is the subject of  *)
(* RunnerHost; here starting and stopping a VM are one step each.          *)
(***************************************************************************)
EXTENDS Integers, FiniteSets

CONSTANT Ids   \* instance numbers of the slots

ASSUME IdsAssumption == Ids \subseteq Nat

VARIABLES
    state,     \* of each slot: whether its VM runs
    links,     \* the tap devices that exist, with their address (or none)
    forward    \* devices with a FORWARD rule

vars == <<state, links, forward>>

\* Mutation: one number for each slot, not four.
BaseOfOne(i) == i

\* Mutation: slots are taken to be numbered from 1.
BaseFromOne(i) == (i - 1) * 4

\* Every slot has four numbers, for names and addresses alike.
Base(i) == i * 4

Tap0(i) == Base(i) + 1   \* of eth0, metadata only, no address
Tap1(i) == Base(i) + 2   \* of eth1
Taps(i) == {Tap0(i), Tap1(i)}

Gateway(i) == Base(i) + 1   \* ip0, of Tap1 on the host's side
Guest(i)   == Base(i) + 2   \* ip1, of eth1 in the guest

NoAddr  == -1
IsOctet(o) == o \in 0 .. 255

\* Mutation: VMS_NETWORK_SUBNET is 29.
Subnet29(o) == o \div 8

\* VMS_NETWORK_SUBNET = 30: the subnet of an address.
Subnet(o) == o \div 4

\* The first and the last address of a subnet are not a host's.
IsHost(o) == o % 4 \in {1, 2}

\* MacAddr: AA:FC and the bytes of the address, all digits of each; what is not
\* an address has no bytes.
MacAddr(o) == IF IsOctet(o) THEN <<"AA:FC", 172, 26, 0, o>> ELSE <<"AA:FC">>

\* The MAC addresses of eth0 and eth1.
Macs(i) == <<MacAddr(Gateway(i)), MacAddr(Guest(i))>>

Link(dev, addr) == [dev |-> dev, addr |-> addr]

LinksOf(i) == {l \in links : l.dev \in Taps(i)}

Init ==
    /\ state = [i \in Ids |-> "down"]
    /\ links = {}
    /\ forward = {}

\* Mutation: the rule is made for the other device.
ForwardedTap0(i) == Tap0(i)

\* SetupIPTables gets tap1.
Forwarded(i) == Tap1(i)

\* createVM up to the start of the machine: devices left over are deleted, new
\* ones made, the second with an address.  AppendUnique keeps one rule each.
StartVM(i) ==
    /\ state[i] = "down"
    /\ IsOctet(Gateway(i))
    /\ links' = (links \ LinksOf(i)) \cup {Link(Tap0(i), NoAddr), Link(Tap1(i), Gateway(i))}
    /\ forward' = forward \cup {Forwarded(i)}
    /\ state' = [state EXCEPT ![i] = "up"]

\* What createVM leaves behind when it fails: at the deletion of an old device,
\* at one of the three commands of CreateTap, or later.  "ip addr add" fails for
\* sure if the address is none.
Remains(i) ==
    {LinksOf(i),
     {l \in LinksOf(i) : l.dev = Tap1(i)},
     {l \in LinksOf(i) : l.dev = Tap1(i)} \cup {Link(Tap0(i), NoAddr)},
     {Link(Tap0(i), NoAddr)},
     {Link(Tap0(i), NoAddr), Link(Tap1(i), NoAddr)}}
    \cup (IF IsOctet(Gateway(i))
          THEN {{Link(Tap0(i), NoAddr), Link(Tap1(i), Gateway(i))}} ELSE {})

StartFails(i) ==
    /\ state[i] = "down"
    /\ \E remains \in Remains(i) :
         /\ links' = (links \ LinksOf(i)) \cup remains
         /\ forward' \in {forward} \cup
              (IF Link(Tap1(i), Gateway(i)) \in remains THEN {forward \cup {Forwarded(i)}} ELSE {})
    /\ UNCHANGED state

\* StopRunner deletes the devices under both names, and goes on if it cannot.
StopVM(i) ==
    /\ state[i] = "up"
    /\ \E gone \in SUBSET Taps(i) : links' = {l \in links : l.dev \notin gone}
    /\ state' = [state EXCEPT ![i] = "down"]
    /\ UNCHANGED forward

\* hostctl dies with its VMs, and is restarted.
Crash ==
    /\ state' = [i \in Ids |-> "down"]
    /\ UNCHANGED <<links, forward>>

Next ==
    \/ \E i \in Ids : StartVM(i) \/ StartFails(i) \/ StopVM(i)
    \/ Crash

Spec == Init /\ [][Next]_vars

-----------------------------------------------------------------------------
TypeOK ==
    /\ state \in [Ids -> {"down", "up"}]
    /\ links \subseteq [dev : Nat, addr : Nat \cup {NoAddr}]
    /\ forward \subseteq Nat

\* The devices the host's routing table offers for an address.
Routes(o) == {l \in links : l.addr # NoAddr /\ Subnet(l.addr) = Subnet(o)}

\* Packets for the guest of a VM go to its own device, whatever devices other
\* VMs have or have left behind, and guest and gateway can talk: they are two
\* hosts of one subnet.
ReachesItsGuest ==
    \A i \in Ids : state[i] = "up" =>
      /\ Routes(Guest(i)) = {Link(Tap1(i), Gateway(i))}
      /\ Gateway(i) # Guest(i) /\ IsHost(Gateway(i)) /\ IsHost(Guest(i))

\* And its own packets are forwarded: there is a rule for the device that has
\* the gateway's address.
HasEgress ==
    \A i \in Ids : state[i] = "up" =>
      \E l \in links : l.dev \in forward /\ l.addr = Gateway(i)

\* All network interfaces of running VMs have different MAC addresses, though
\* an instance number of 64 or more has none of its own.
MacsDistinct ==
    \A i, j \in Ids, m, n \in {1, 2} :
      state[i] = "up" /\ state[j] = "up" /\ <<i, m>> # <<j, n>> => Macs(i)[m] # Macs(j)[n]

\* Starting or stopping a VM, or failing to, leaves the devices of the VMs that
\* run alone.
OthersUntouched ==
    [][\A i \in Ids : state[i] = "up" /\ state'[i] = "up" =>
         \A dev \in Taps(i) : \A addr \in {NoAddr, Gateway(i)} :
           Link(dev, addr) \in links <=> Link(dev, addr) \in links']_vars

\* What these rest on: devices have names and addresses of some slot, and those
\* of a VM that runs are there and are the only ones.
LinksOK ==
    \A l \in links : \E i \in Ids :
      \/ l.dev \in Taps(i) /\ l.addr = NoAddr
      \/ l = Link(Tap1(i), Gateway(i)) /\ IsOctet(Gateway(i))

RunningOK ==
    \A i \in Ids : state[i] = "up" =>
      /\ IsOctet(Gateway(i))
      /\ LinksOf(i) = {Link(Tap0(i), NoAddr), Link(Tap1(i), Gateway(i))}
      /\ Tap1(i) \in forward

NetInv == TypeOK /\ LinksOK /\ RunningOK
=============================================================================

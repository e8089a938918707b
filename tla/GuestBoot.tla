----------------------------- MODULE GuestBoot -----------------------------
(***************************************************************************)
(* What a VM is told when it boots, and what it makes of it.  createVM     *)
(* gives it two network interfaces, a kernel command line that carries the *)
(* network configuration of the guest, encoded, and metadata, which the    *)
(* guest fetches over eth0.  Host and guest must mean the same by them.    *)
(*                                                                         *)
(* A word of the command line is a sequence of pieces, with a = between    *)
(* any two; the line is a sequence of words.                               *)
(***************************************************************************)
EXTENDS VmNetwork, Sequences, SequencesExt

CONSTANT HostName   \* its parts between dashes

ASSUME HostNameAssumption == HostName \in Seq(STRING)

VARIABLES
    devices,   \* the network interfaces of the machine of each slot
    cmdline,   \* its kernel arguments
    mmds,      \* its metadata
    guest      \* what the guest has configured

bootVars == <<devices, cmdline, mmds, guest>>

NoMachine == [i \in Ids |-> <<>>]
NoGuest   == [eth |-> {}, names |-> {}]

-----------------------------------------------------------------------------
(* Network configuration: the guest finds an interface by its MAC address. *)

MMDSNet == -2   \* 169.254.0.1/16, no octet of 172.26.0.0/24

\* Mutation: eth0 and eth1 are taken for each other.
BuildNetCfgSwapped(i) ==
    [eth0 |-> [mac |-> Macs(i)[2], addr |-> MMDSNet, gateway |-> NoAddr],
     eth1 |-> [mac |-> Macs(i)[1], addr |-> Guest(i), gateway |-> Gateway(i)]]

BuildNetCfg(i) ==
    [eth0 |-> [mac |-> Macs(i)[1], addr |-> MMDSNet, gateway |-> NoAddr],
     eth1 |-> [mac |-> Macs(i)[2], addr |-> Guest(i), gateway |-> Gateway(i)]]

\* In Base64, which ends in up to two = of padding, as the length wants it.
Encode(cfg, pad) == <<cfg>> \o [k \in 1 .. pad |-> ""]

\* nf0, which may reach the metadata service, and nf1.
Interfaces(i) == <<[mac |-> Macs(i)[1], dev |-> Tap0(i), mmds |-> TRUE],
                   [mac |-> Macs(i)[2], dev |-> Tap1(i), mmds |-> FALSE]>>

-----------------------------------------------------------------------------
(* kernelArgs: a map of keys to values, or to nil.                         *)

Nil == <<>>

\* Mutation: strings.Split in place of SplitN.
ParseFieldSplitAll(field) == <<Head(field), IF Len(field) = 1 THEN Nil ELSE <<field[2]>>>>

\* SplitN(kv, "=", 2): the value keeps any other =.
ParseField(field) == <<Head(field), Tail(field)>>

\* A later argument of the same key replaces an earlier one.
parseKernelArgs(line) ==
    LET last(key) == CHOOSE k \in DOMAIN line :
                        /\ Head(line[k]) = key
                        /\ \A j \in DOMAIN line : j > k => Head(line[j]) # key
    IN  [key \in {Head(line[k]) : k \in DOMAIN line} |-> ParseField(line[last(key)])[2]]

\* Its arguments in the order of a map: any.
Strings(kargs) ==
    {[k \in DOMAIN keys |-> <<keys[k]>> \o kargs[keys[k]]] : keys \in SetToSeqs(DOMAIN kargs)}

FixedArgs == << <<"keep_bootcon">>, <<"console", "ttyS0">>, <<"noapic">>,
                <<"reboot", "k">>, <<"panic", "1">>, <<"pci", "off">>, <<"rw">> >>

DataSource == <<"nocloud-net;s", "http://169.254.169.254/latest/">>

\* What the handler adds to the arguments it finds: none, in the new machine.
KernelArgs(i, pad) ==
    LET found == parseKernelArgs(<<>>)
    IN  [key \in {"ds", "network-config"} \cup DOMAIN found |->
           CASE key = "ds"             -> DataSource
             [] key = "network-config" -> Encode(BuildNetCfg(i), pad)
             [] OTHER                  -> found[key]]

-----------------------------------------------------------------------------
(* Metadata.                                                               *)

RunnerName(i) == HostName \o <<i>>

\* The name of the machine, and the user data: a script that exports the name
\* of the runner and the options of the host and starts the runner.
BuildData(i) == [hostname |-> RunnerName(i), runner |-> RunnerName(i)]

-----------------------------------------------------------------------------
BootInit ==
    /\ Init
    /\ devices = NoMachine
    /\ cmdline = NoMachine
    /\ mmds = NoMachine
    /\ guest = [i \in Ids |-> NoGuest]

\* createVM: the network of the host, the machine, its arguments and metadata.
BootVM(i) ==
    /\ StartVM(i)
    /\ devices' = [devices EXCEPT ![i] = Interfaces(i)]
    /\ \E pad \in 0 .. 2 : \E printed \in Strings(KernelArgs(i, pad)) :
         cmdline' = [cmdline EXCEPT ![i] = FixedArgs \o printed]
    /\ mmds' = [mmds EXCEPT ![i] = BuildData(i)]
    /\ UNCHANGED guest

\* A failed start (GitHub does not send the SSH keys, say) leaves no machine.
BootFails(i) == StartFails(i) /\ UNCHANGED bootVars

Shutdown(i) ==
    /\ StopVM(i)
    /\ devices' = [devices EXCEPT ![i] = <<>>]
    /\ cmdline' = [cmdline EXCEPT ![i] = <<>>]
    /\ mmds' = [mmds EXCEPT ![i] = <<>>]
    /\ guest' = [guest EXCEPT ![i] = NoGuest]

HostDies ==
    /\ Crash
    /\ devices' = NoMachine
    /\ cmdline' = NoMachine
    /\ mmds' = NoMachine
    /\ guest' = [i \in Ids |-> NoGuest]

\* cloud-init reads the network configuration in the command line, and gives
\* each device what it says for its MAC address.
ConfigureNetwork(i) ==
    /\ state[i] = "up" /\ guest[i].eth = {}
    /\ LET cfg == Head(parseKernelArgs(cmdline[i])["network-config"])
       IN  guest' = [guest EXCEPT ![i].eth =
             {[nf |-> p[1], cfg |-> cfg[p[2]]] :
                p \in {q \in ToSet(devices[i]) \X DOMAIN cfg : cfg[q[2]].mac = q[1].mac}}]
    /\ UNCHANGED <<vars, devices, cmdline, mmds>>

\* Over an interface that reaches it, the guest fetches its metadata from the
\* address that the command line gives.
FetchMetadata(i) ==
    /\ state[i] = "up" /\ guest[i].names = {}
    /\ parseKernelArgs(cmdline[i])["ds"] = DataSource
    /\ \E eth \in guest[i].eth : eth.nf.mmds /\ eth.cfg.addr = MMDSNet
    /\ guest' = [guest EXCEPT ![i].names = {mmds[i].hostname, mmds[i].runner}]
    /\ UNCHANGED <<vars, devices, cmdline, mmds>>

BootNext ==
    \/ \E i \in Ids : BootVM(i) \/ BootFails(i) \/ Shutdown(i)
                      \/ ConfigureNetwork(i) \/ FetchMetadata(i)
    \/ HostDies

BootSpec == BootInit /\ [][BootNext]_<<vars, bootVars>>

-----------------------------------------------------------------------------
\* Whatever the order in which the map is printed and the padding of its
\* values: parsing the line again gives every argument as it was set.
KernelArgsSurvive ==
    \A i \in Ids : state[i] = "up" =>
      LET kargs == parseKernelArgs(cmdline[i])
      IN  /\ \E pad \in 0 .. 2 : \A key \in {"ds", "network-config"} :
               kargs[key] = KernelArgs(i, pad)[key]
          /\ \A k \in DOMAIN FixedArgs : kargs[Head(FixedArgs[k])] = Tail(FixedArgs[k])

\* What the guest has configured fits the host, whatever devices others have
\* or have left: it sends to its gateway over the device that has the gateway's
\* address, to the metadata service over the one that is let through, and it and
\* its runner go by a name whose last part StopRunner takes for its slot.
GuestFitsHost ==
    \A i \in Ids : state[i] = "up" =>
      /\ guest[i].eth # {} =>
           /\ \E eth \in guest[i].eth : eth.nf.mmds /\ eth.cfg.addr = MMDSNet
           /\ \E eth \in guest[i].eth :
                /\ Routes(eth.cfg.addr) = {Link(eth.nf.dev, eth.cfg.gateway)}
                /\ eth.nf.dev \in forward
      /\ \A name \in guest[i].names : Last(name) = i
=============================================================================

-------------------------- MODULE GuestBootProofs --------------------------
(***************************************************************************)
(* Theorems about what the machines of a host are told, for every set of   *)
(* instance numbers, every name of the host, and every order in which a    *)
(* map is printed.                                                         *)
(***************************************************************************)
EXTENDS GuestBoot, VmNetworkProofs, SequenceTheorems, FiniteSetTheorems

\* The two arguments that the handler adds.
DsWord         == <<"ds">> \o DataSource
NetWord(i, pad) == <<"network-config">> \o Encode(BuildNetCfg(i), pad)

\* A line of the fixed words and two more.
HasWords(line, v, w) ==
    /\ DOMAIN line = 1 .. 9 /\ line[8] = v /\ line[9] = w
    /\ \A k \in 1 .. 7 : line[k] = FixedArgs[k]

\* A line whose arguments mean what createVM has set for a slot.
MeansArgs(line, i) ==
    /\ \E pad \in 0 .. 2 : \A key \in {"ds", "network-config"} :
         parseKernelArgs(line)[key] = KernelArgs(i, pad)[key]
    /\ \A k \in DOMAIN FixedArgs : parseKernelArgs(line)[Head(FixedArgs[k])] = Tail(FixedArgs[k])

-----------------------------------------------------------------------------
(* The command line.                                                       *)

\* A word is cut into its key and its value where they were joined.
LEMMA WordParts ==
  ASSUME NEW T, NEW key, NEW v \in Seq(T)
  PROVE  Head(<<key>> \o v) = key /\ Tail(<<key>> \o v) = v
<1> DEFINE U == T \cup {key}
           w == <<key>> \o v
<1>1. <<key>> \in Seq(U) /\ Len(<<key>>) = 1 /\ <<key>>[1] = key
  OBVIOUS
<1>2. v \in Seq(U) /\ Len(v) \in Nat
  BY SeqMonotonic, LenProperties
<1>3. /\ w \in Seq(U) /\ Len(w) = 1 + Len(v)
      /\ \A n \in 1 .. 1 + Len(v) : w[n] = IF n <= 1 THEN <<key>>[n] ELSE v[n - 1]
  BY <1>1, <1>2, ConcatProperties
<1>4. w[1] = key /\ \A n \in 1 .. Len(v) : w[n + 1] = v[n]
  BY <1>1, <1>2, <1>3
<1> HIDE DEF w, U
<1>5. w # <<>> /\ Head(w) = w[1]
  BY <1>2, <1>3, EmptySeq
<1>6. /\ Tail(w) \in Seq(U) /\ Len(Tail(w)) = Len(w) - 1
      /\ \A n \in 1 .. Len(Tail(w)) : Tail(w)[n] = w[n + 1]
  BY <1>3, <1>5, HeadTailProperties
<1>7. Len(Tail(w)) = Len(v) /\ \A n \in 1 .. Len(v) : Tail(w)[n] = v[n]
  BY <1>2, <1>3, <1>4, <1>6
<1>8. Tail(w) = v
  BY <1>2, <1>6, <1>7, SeqEqual
<1> QED BY <1>4, <1>5, <1>8 DEF w

\* A key that one word of the line has is given the value of that word.
LEMMA Parsed ==
  ASSUME NEW line, NEW n \in Nat, DOMAIN line = 1 .. n, NEW k \in 1 .. n,
         \A j \in 1 .. n : Head(line[j]) = Head(line[k]) => j = k
  PROVE  parseKernelArgs(line)[Head(line[k])] = Tail(line[k])
<1> DEFINE key == Head(line[k])
           IsLast(m) == /\ Head(line[m]) = key
                        /\ \A j \in 1 .. n : j > m => Head(line[j]) # key
<1>1. IsLast(k) /\ \A m \in 1 .. n : IsLast(m) => m = k
  OBVIOUS
<1>2. (CHOOSE m \in 1 .. n : IsLast(m)) = k
  BY <1>1
<1>3. key \in {Head(line[m]) : m \in 1 .. n}
  OBVIOUS
<1>4. parseKernelArgs(line)[key] = ParseField(line[CHOOSE m \in 1 .. n : IsLast(m)])[2]
  BY <1>3 DEF parseKernelArgs
<1>5. ParseField(line[k])[2] = Tail(line[k])
  BY DEF ParseField
<1> QED BY <1>2, <1>4, <1>5

\* The fixed arguments have seven keys, and none is one of the two added.
LEMMA FixedKeys ==
  /\ Len(FixedArgs) = 7 /\ DOMAIN FixedArgs = 1 .. 7
  /\ \A j, k \in 1 .. 7 : Head(FixedArgs[j]) = Head(FixedArgs[k]) => j = k
  /\ \A k \in 1 .. 7 : Head(FixedArgs[k]) \notin {"ds", "network-config"}
<1>1. /\ Head(FixedArgs[1]) = "keep_bootcon" /\ Head(FixedArgs[2]) = "console"
      /\ Head(FixedArgs[3]) = "noapic" /\ Head(FixedArgs[4]) = "reboot"
      /\ Head(FixedArgs[5]) = "panic" /\ Head(FixedArgs[6]) = "pci"
      /\ Head(FixedArgs[7]) = "rw"
  BY DEF FixedArgs
<1>2. Len(FixedArgs) = 7 /\ DOMAIN FixedArgs = 1 .. 7
  BY DEF FixedArgs
<1>3. \A k \in 1 .. 7 : k \in {1, 2, 3, 4, 5, 6, 7}
  OBVIOUS
<1>4. \A k \in 1 .. 7 : Head(FixedArgs[k]) \notin {"ds", "network-config"}
  BY <1>1, <1>3
<1>5. \A j, k \in 1 .. 7 : Head(FixedArgs[j]) = Head(FixedArgs[k]) => j = k
  BY <1>1, <1>3
<1> QED BY <1>2, <1>4, <1>5

\* The words of a line with two more arguments.
LEMMA LineWords ==
  ASSUME NEW v, NEW w
  PROVE  HasWords(FixedArgs \o <<v, w>>, v, w)
<1> DEFINE X == {FixedArgs[1], FixedArgs[2], FixedArgs[3], FixedArgs[4], FixedArgs[5],
                 FixedArgs[6], FixedArgs[7], v, w}
           line == FixedArgs \o <<v, w>>
<1>1. FixedArgs \in Seq(X)
  BY DEF FixedArgs
<1>2. <<v, w>> \in Seq(X) /\ Len(<<v, w>>) = 2 /\ <<v, w>>[1] = v /\ <<v, w>>[2] = w
  OBVIOUS
<1> HIDE DEF X
<1>3. /\ line \in Seq(X) /\ Len(line) = 7 + 2
      /\ \A n \in 1 .. 7 + 2 : line[n] = IF n <= 7 THEN FixedArgs[n] ELSE <<v, w>>[n - 7]
  <2>1. \A s, t \in Seq(X) :
          /\ s \o t \in Seq(X) /\ Len(s \o t) = Len(s) + Len(t)
          /\ \A n \in 1 .. Len(s) + Len(t) : (s \o t)[n] = IF n <= Len(s) THEN s[n] ELSE t[n - Len(s)]
    BY ConcatProperties
  <2>2. PICK f \in Seq(X) : f = FixedArgs
    BY <1>1
  <2>3. PICK t \in Seq(X) : t = <<v, w>>
    BY <1>2
  <2>4. Len(f) = 7 /\ Len(t) = 2
    BY <1>2, <2>2, <2>3, FixedKeys
  <2>5. /\ f \o t \in Seq(X) /\ Len(f \o t) = 7 + 2
        /\ \A n \in 1 .. 7 + 2 : (f \o t)[n] = IF n <= 7 THEN f[n] ELSE t[n - 7]
    <3>1. /\ f \o t \in Seq(X) /\ Len(f \o t) = Len(f) + Len(t)
          /\ \A n \in 1 .. Len(f) + Len(t) :
               (f \o t)[n] = IF n <= Len(f) THEN f[n] ELSE t[n - Len(f)]
      BY <2>1, Zenon
    <3> QED BY ONLY <2>4, <3>1
  <2> QED BY <2>2, <2>3, <2>5
<1>4. DOMAIN line = 1 .. 9
  BY <1>3, LenProperties
<1> HIDE DEF line
<1>5. line[8] = <<v, w>>[1] /\ line[9] = <<v, w>>[2] /\ \A n \in 1 .. 7 : line[n] = FixedArgs[n]
  BY <1>3
<1> QED BY <1>2, <1>4, <1>5 DEF line, HasWords

\* Two words of different keys, none of them a fixed one, are found in the line
\* behind the fixed ones, and so are these.
LEMMA LineParsed ==
  ASSUME NEW line, NEW v, NEW w, HasWords(line, v, w),
         Head(v) \in {"ds", "network-config"}, Head(w) \in {"ds", "network-config"},
         Head(v) # Head(w)
  PROVE  /\ parseKernelArgs(line)[Head(v)] = Tail(v)
         /\ parseKernelArgs(line)[Head(w)] = Tail(w)
         /\ \A k \in 1 .. 7 : parseKernelArgs(line)[Head(FixedArgs[k])] = Tail(FixedArgs[k])
<1>1. /\ DOMAIN line = 1 .. 9 /\ line[8] = v /\ line[9] = w
      /\ \A k \in 1 .. 7 : line[k] = FixedArgs[k]
  BY DEF HasWords
<1>2. \A j \in 1 .. 9 : j \in 1 .. 7 \/ j = 8 \/ j = 9
  OBVIOUS
<1>3. \A j \in 1 .. 9 : Head(line[j]) = Head(line[8]) => j = 8
  BY <1>1, <1>2, FixedKeys
<1>4. \A j \in 1 .. 9 : Head(line[j]) = Head(line[9]) => j = 9
  BY <1>1, <1>2, FixedKeys
<1>5. ASSUME NEW k \in 1 .. 7 PROVE \A j \in 1 .. 9 : Head(line[j]) = Head(line[k]) => j = k
  BY <1>1, <1>2, FixedKeys
<1>6. \A k \in 1 .. 9 : (\A j \in 1 .. 9 : Head(line[j]) = Head(line[k]) => j = k)
                          => parseKernelArgs(line)[Head(line[k])] = Tail(line[k])
  <2>1. \A n \in Nat : \A k \in 1 .. n :
          DOMAIN line = 1 .. n /\ (\A j \in 1 .. n : Head(line[j]) = Head(line[k]) => j = k)
            => parseKernelArgs(line)[Head(line[k])] = Tail(line[k])
    BY Parsed
  <2> QED BY <1>1, <2>1
<1>7. parseKernelArgs(line)[Head(v)] = Tail(v)
  <2>1. parseKernelArgs(line)[Head(line[8])] = Tail(line[8])
    BY <1>3, <1>6
  <2> QED BY <1>1, <2>1
<1>8. parseKernelArgs(line)[Head(w)] = Tail(w)
  BY <1>1, <1>4, <1>6
<1>9. ASSUME NEW k \in 1 .. 7 PROVE parseKernelArgs(line)[Head(FixedArgs[k])] = Tail(FixedArgs[k])
  <2>1. k \in 1 .. 9 /\ line[k] = FixedArgs[k]
    BY <1>1
  <2> QED BY <1>5, <1>6, <2>1
<1> QED BY <1>7, <1>8, <1>9

\* What the arguments are, and the words they are printed as.
LEMMA ArgsOfSlot ==
  ASSUME NEW i, NEW pad \in 0 .. 2
  PROVE  /\ DOMAIN KernelArgs(i, pad) = {"ds", "network-config"}
         /\ KernelArgs(i, pad)["ds"] = DataSource
         /\ KernelArgs(i, pad)["network-config"] = Encode(BuildNetCfg(i), pad)
<1>1. DOMAIN parseKernelArgs(<<>>) = {}
  BY DEF parseKernelArgs
<1> QED BY <1>1 DEF KernelArgs

\* The encoded configuration is one piece, with padding behind it.
LEMMA Encoded ==
  ASSUME NEW cfg, NEW pad \in 0 .. 2
  PROVE  /\ Encode(cfg, pad) \in Seq({cfg, ""})
         /\ Head(Encode(cfg, pad)) = cfg
<1> DEFINE padding == [k \in 1 .. pad |-> ""]
<1>1. padding \in Seq({""})
  OBVIOUS
<1>2. padding \in Seq({cfg, ""}) /\ <<cfg>> \in Seq({cfg, ""})
  OBVIOUS
<1>3. Head(<<cfg>> \o padding) = cfg
  BY <1>1, WordParts
<1>4. <<cfg>> \o padding \in Seq({cfg, ""})
  BY <1>2, ConcatProperties
<1> QED BY <1>3, <1>4 DEF Encode

\* How the printed words of a slot come apart at their first "=".
LEMMA WordsOfSlot ==
  ASSUME NEW i, NEW pad \in 0 .. 2
  PROVE  /\ Head(DsWord) = "ds" /\ Tail(DsWord) = DataSource
         /\ Head(NetWord(i, pad)) = "network-config"
         /\ Tail(NetWord(i, pad)) = Encode(BuildNetCfg(i), pad)
<1>1. DataSource \in Seq({DataSource[1], DataSource[2]})
  BY DEF DataSource
<1>2. Head(DsWord) = "ds" /\ Tail(DsWord) = DataSource
  BY <1>1, WordParts DEF DsWord
<1>3. Encode(BuildNetCfg(i), pad) \in Seq({BuildNetCfg(i), ""})
  BY Encoded
<1> QED BY <1>2, <1>3, WordParts DEF NetWord

\* A map of two is printed in one of two orders.
LEMMA TwoOrders ==
  ASSUME NEW i, NEW pad \in 0 .. 2, NEW printed \in Strings(KernelArgs(i, pad))
  PROVE  printed \in {<<DsWord, NetWord(i, pad)>>, <<NetWord(i, pad), DsWord>>}
<1> DEFINE K == {"ds", "network-config"}
           kargs == KernelArgs(i, pad)
<1>1. Cardinality(K) = 2
  <2>1. K = {"ds"} \cup {"network-config"} /\ "network-config" \notin {"ds"}
    OBVIOUS
  <2>2. \A x : IsFiniteSet({x}) /\ Cardinality({x}) = 1
    BY FS_Singleton
  <2>3. \A x, y : y # x => Cardinality({x} \cup {y}) = 2
    <3>1. \A S, y : IsFiniteSet(S) /\ y \notin S => Cardinality(S \cup {y}) = Cardinality(S) + 1
      BY FS_AddElement
    <3> SUFFICES ASSUME NEW x, NEW y, y # x PROVE Cardinality({x} \cup {y}) = 2
      OBVIOUS
    <3>2. IsFiniteSet({x}) /\ Cardinality({x}) = 1 /\ y \notin {x}
      BY <2>2
    <3>3. Cardinality({x} \cup {y}) = Cardinality({x}) + 1
      BY <3>1, <3>2
    <3> QED BY <3>2, <3>3
  <2> QED BY <2>1, <2>3
<1>2. PICK keys \in SetToSeqs(K) : printed = [k \in DOMAIN keys |-> <<keys[k]>> \o kargs[keys[k]]]
  BY ArgsOfSlot DEF Strings
<1>3. keys \in [1 .. 2 -> K] /\ keys[1] # keys[2]
  BY <1>1, <1>2 DEF SetToSeqs
<1>4. 1 .. 2 = {1, 2}
  OBVIOUS
<1>5. /\ printed = [k \in 1 .. 2 |-> <<keys[k]>> \o kargs[keys[k]]]
      /\ printed[1] = <<keys[1]>> \o kargs[keys[1]] /\ printed[2] = <<keys[2]>> \o kargs[keys[2]]
  BY <1>2, <1>3
<1>6. printed = <<printed[1], printed[2]>>
  BY <1>5
<1>7. kargs["ds"] = DataSource /\ kargs["network-config"] = Encode(BuildNetCfg(i), pad)
  BY ArgsOfSlot
<1>8. CASE keys[1] = "ds" /\ keys[2] = "network-config"
  BY <1>5, <1>6, <1>7, <1>8 DEF DsWord, NetWord
<1>9. CASE keys[1] = "network-config" /\ keys[2] = "ds"
  BY <1>5, <1>6, <1>7, <1>9 DEF DsWord, NetWord
<1>10. keys[1] \in K /\ keys[2] \in K
  BY <1>3
<1> QED BY <1>3, <1>8, <1>9, <1>10

\* Whatever the order and the padding, the line means what was set.
LEMMA LineMeans ==
  ASSUME NEW i, NEW pad \in 0 .. 2, NEW printed \in Strings(KernelArgs(i, pad))
  PROVE  MeansArgs(FixedArgs \o printed, i)
<1>1. PICK d, e : d = DsWord /\ e = NetWord(i, pad)
  OBVIOUS
<1>2. /\ Head(d) = "ds" /\ Tail(d) = DataSource
      /\ Head(e) = "network-config" /\ Tail(e) = Encode(BuildNetCfg(i), pad)
  BY <1>1, WordsOfSlot
<1>3. PICK line : line = FixedArgs \o printed
  OBVIOUS
<1>4. HasWords(line, d, e) \/ HasWords(line, e, d)
  <2>1. HasWords(FixedArgs \o <<d, e>>, d, e) /\ HasWords(FixedArgs \o <<e, d>>, e, d)
    BY LineWords
  <2>2. printed \in {<<d, e>>, <<e, d>>}
    BY <1>1, TwoOrders
  <2> QED BY <1>3, <2>1, <2>2
<1>5. /\ parseKernelArgs(line)[Head(d)] = Tail(d) /\ parseKernelArgs(line)[Head(e)] = Tail(e)
      /\ \A k \in 1 .. 7 : parseKernelArgs(line)[Head(FixedArgs[k])] = Tail(FixedArgs[k])
  <2>1. /\ Head(d) \in {"ds", "network-config"} /\ Head(e) \in {"ds", "network-config"}
        /\ Head(d) # Head(e)
    BY <1>2
  <2> QED BY <1>4, <2>1, LineParsed
<1>6. /\ parseKernelArgs(line)["ds"] = DataSource
      /\ parseKernelArgs(line)["network-config"] = Encode(BuildNetCfg(i), pad)
  BY <1>2, <1>5
<1>7. MeansArgs(line, i)
  <2>1. \A key \in {"ds", "network-config"} : parseKernelArgs(line)[key] = KernelArgs(i, pad)[key]
    BY <1>6, ArgsOfSlot
  <2>2. \A k \in DOMAIN FixedArgs : parseKernelArgs(line)[Head(FixedArgs[k])] = Tail(FixedArgs[k])
    BY <1>5, FixedKeys
  <2> QED BY <2>1, <2>2 DEF MeansArgs
<1> QED BY <1>3, <1>7

-----------------------------------------------------------------------------
(* Machines and guests.                                                    *)

\* The interfaces of the guest as configured: eth0 over nf0, eth1 over nf1.
Ethernet(i) == {[nf |-> Interfaces(i)[1], cfg |-> BuildNetCfg(i).eth0],
                [nf |-> Interfaces(i)[2], cfg |-> BuildNetCfg(i).eth1]}

\* A machine that runs has what createVM made for its slot ...
MachinesOK ==
    \A i \in Ids : state[i] = "up" =>
      devices[i] = Interfaces(i) /\ mmds[i] = BuildData(i) /\ MeansArgs(cmdline[i], i)

\* ... and a guest nothing else, if it has got so far.
GuestsOK ==
    \A i \in Ids : guest[i] \in [eth : {{}, Ethernet(i)}, names : {{}, {RunnerName(i)}}]

Indexed ==
    DOMAIN devices = Ids /\ DOMAIN cmdline = Ids /\ DOMAIN mmds = Ids /\ DOMAIN guest = Ids

BootInv == NetInv /\ Indexed /\ MachinesOK /\ GuestsOK

\* With machines and guests, the network takes the same steps.
LEMMA BootStep == ASSUME [BootNext]_<<vars, bootVars>> PROVE [Next]_vars
BY DEF BootNext, BootVM, BootFails, Shutdown, HostDies, ConfigureNetwork, FetchMetadata, Next, vars

\* What is true of the network of a host's machines is true of it with them.
THEOREM NetworkOfMachines == BootSpec => Spec
BY BootStep, PTL DEF BootSpec, Spec, BootInit

\* The MAC addresses of a slot that has any differ.
LEMMA TwoMacs ==
  ASSUME NEW i \in Ids, IsOctet(Gateway(i)) PROVE Macs(i)[1] # Macs(i)[2]
<1>1. Gateway(i) # Guest(i) /\ IsOctet(Guest(i))
  BY IdsAssumption, SubnetOfSlot
<1>2. \A o, p : IsOctet(o) /\ IsOctet(p) /\ o # p => MacAddr(o) # MacAddr(p)
  BY DEF MacAddr, IsOctet
<1> QED BY <1>1, <1>2 DEF Macs

\* An interface that is found by its MAC address is the one that was meant.
LEMMA EthernetFound ==
  ASSUME NEW i \in Ids, IsOctet(Gateway(i)), NEW cfg, cfg = BuildNetCfg(i)
  PROVE  {[nf |-> p[1], cfg |-> cfg[p[2]]] :
            p \in {q \in ToSet(Interfaces(i)) \X DOMAIN cfg : cfg[q[2]].mac = q[1].mac}}
           = Ethernet(i)
<1> DEFINE a == Interfaces(i)[1]
           b == Interfaces(i)[2]
<1>1. ToSet(Interfaces(i)) = {a, b}
  <2>1. \A x, y : ToSet(<<x, y>>) = {x, y}
    BY DEF ToSet
  <2>2. Interfaces(i) = <<a, b>>
    BY DEF Interfaces
  <2> HIDE DEF a, b
  <2> QED BY <2>1, <2>2
<1>2. DOMAIN cfg = {"eth0", "eth1"}
  BY DEF BuildNetCfg
<1>3. /\ a.mac = Macs(i)[1] /\ b.mac = Macs(i)[2]
      /\ cfg["eth0"].mac = Macs(i)[1] /\ cfg["eth1"].mac = Macs(i)[2]
      /\ cfg["eth0"] = BuildNetCfg(i).eth0 /\ cfg["eth1"] = BuildNetCfg(i).eth1
  BY DEF Interfaces, BuildNetCfg
<1>4. a.mac # b.mac
  BY <1>3, TwoMacs
<1> HIDE DEF a, b
<1>5. {q \in {a, b} \X {"eth0", "eth1"} : cfg[q[2]].mac = q[1].mac} = {<<a, "eth0">>, <<b, "eth1">>}
  BY <1>3, <1>4
<1>6. {[nf |-> p[1], cfg |-> cfg[p[2]]] : p \in {<<a, "eth0">>, <<b, "eth1">>}}
        = {[nf |-> a, cfg |-> cfg["eth0"]], [nf |-> b, cfg |-> cfg["eth1"]]}
  OBVIOUS
<1> QED BY <1>1, <1>2, <1>3, <1>5, <1>6 DEF Ethernet, a, b

\* A host that has started nothing satisfies it.
LEMMA BootInitInv == ASSUME BootInit PROVE BootInv
<1>1. NetInv
  BY NetInit DEF BootInit
<1>2. Indexed
  BY DEF BootInit, Indexed, NoMachine
<1>3. MachinesOK
  BY DEF BootInit, Init, MachinesOK
<1>4. GuestsOK
  BY DEF BootInit, GuestsOK, NoGuest
<1> QED BY <1>1, <1>2, <1>3, <1>4 DEF BootInv

\* createVM gives the machine what belongs to its slot, and none other anything.
LEMMA BootVMInv ==
  ASSUME BootInv, NEW i \in Ids, BootVM(i) PROVE Indexed' /\ MachinesOK' /\ GuestsOK'
<1>1. state' = [state EXCEPT ![i] = "up"] /\ DOMAIN state = Ids
  BY DEF BootVM, StartVM, BootInv, NetInv, TypeOK
<1>2. PICK pad \in 0 .. 2 : \E printed \in Strings(KernelArgs(i, pad)) :
        cmdline' = [cmdline EXCEPT ![i] = FixedArgs \o printed]
  BY DEF BootVM
<1>3. PICK printed \in Strings(KernelArgs(i, pad)) :
        /\ cmdline' = [cmdline EXCEPT ![i] = FixedArgs \o printed]
        /\ MeansArgs(FixedArgs \o printed, i)
  BY <1>2, LineMeans
<1>4. PICK line : line = FixedArgs \o printed
  OBVIOUS
<1>5. /\ devices' = [devices EXCEPT ![i] = Interfaces(i)]
      /\ cmdline' = [cmdline EXCEPT ![i] = line]
      /\ mmds' = [mmds EXCEPT ![i] = BuildData(i)] /\ UNCHANGED guest
      /\ MeansArgs(line, i)
  BY <1>3, <1>4 DEF BootVM
<1>6. Indexed'
  BY <1>5 DEF BootInv, Indexed
<1>7. MachinesOK'
  <2> SUFFICES ASSUME NEW j \in Ids, state'[j] = "up"
               PROVE  /\ devices'[j] = Interfaces(j) /\ mmds'[j] = BuildData(j)
                      /\ MeansArgs(cmdline'[j], j)
    BY DEF MachinesOK, MeansArgs, Interfaces, BuildData, RunnerName, Macs, KernelArgs
  <2>1. CASE j = i
    BY <1>5, <2>1 DEF BootInv, Indexed
  <2>2. CASE j # i
    <3>1. /\ state[j] = "up" /\ devices'[j] = devices[j] /\ mmds'[j] = mmds[j]
          /\ cmdline'[j] = cmdline[j]
      BY <1>1, <1>5, <2>2 DEF BootInv, Indexed
    <3> QED BY <3>1 DEF BootInv, MachinesOK
  <2> QED BY <2>1, <2>2
<1>8. GuestsOK'
  BY <1>5 DEF BootInv, GuestsOK
<1> QED BY <1>6, <1>7, <1>8

\* A machine that stops takes its own along, and leaves the others.
LEMMA ShutdownInv ==
  ASSUME BootInv, NEW i \in Ids, Shutdown(i) PROVE Indexed' /\ MachinesOK' /\ GuestsOK'
<1>1. state' = [state EXCEPT ![i] = "down"] /\ DOMAIN state = Ids
  BY DEF Shutdown, StopVM, BootInv, NetInv, TypeOK
<1>2. Indexed'
  BY DEF Shutdown, BootInv, Indexed
<1>3. ASSUME NEW j \in Ids, state'[j] = "up"
      PROVE  /\ state[j] = "up" /\ devices'[j] = devices[j] /\ mmds'[j] = mmds[j]
             /\ cmdline'[j] = cmdline[j]
  BY <1>1, <1>3 DEF Shutdown, BootInv, Indexed
<1>4. MachinesOK'
  BY <1>3 DEF BootInv, MachinesOK
<1>5. GuestsOK'
  <2>1. \A j \in Ids : guest'[j] = guest[j] \/ guest'[j] = NoGuest
    BY DEF Shutdown, BootInv, Indexed
  <2> QED BY <2>1 DEF BootInv, GuestsOK, NoGuest
<1> QED BY <1>2, <1>4, <1>5

\* cloud-init finds in the command line what was encoded there, and so the
\* interfaces of its own machine.
LEMMA ConfigureNetworkInv ==
  ASSUME BootInv, NEW i \in Ids, ConfigureNetwork(i) PROVE Indexed' /\ MachinesOK' /\ GuestsOK'
<1> DEFINE cfg == Head(parseKernelArgs(cmdline[i])["network-config"])
<1>1. /\ state[i] = "up" /\ UNCHANGED <<state, devices, cmdline, mmds>>
      /\ guest' = [guest EXCEPT ![i].eth =
             {[nf |-> p[1], cfg |-> cfg[p[2]]] :
                p \in {q \in ToSet(devices[i]) \X DOMAIN cfg : cfg[q[2]].mac = q[1].mac}}]
  BY DEF ConfigureNetwork, vars
<1>2. cfg = BuildNetCfg(i)
  <2>1. PICK pad \in 0 .. 2 :
          parseKernelArgs(cmdline[i])["network-config"] = KernelArgs(i, pad)["network-config"]
    BY <1>1 DEF BootInv, MachinesOK, MeansArgs
  <2> QED BY <2>1, ArgsOfSlot, Encoded
<1>3. IsOctet(Gateway(i)) /\ devices[i] = Interfaces(i)
  BY <1>1 DEF BootInv, NetInv, RunningOK, MachinesOK
<1> HIDE DEF cfg
<1>4. guest' = [guest EXCEPT ![i].eth = Ethernet(i)]
  <2>1. {[nf |-> p[1], cfg |-> cfg[p[2]]] :
           p \in {q \in ToSet(Interfaces(i)) \X DOMAIN cfg : cfg[q[2]].mac = q[1].mac}} = Ethernet(i)
    BY <1>2, <1>3, EthernetFound
  <2> QED BY <1>1, <1>3, <2>1
<1>5. Indexed' /\ MachinesOK'
  BY <1>1, <1>4 DEF BootInv, Indexed, MachinesOK
<1>6. GuestsOK'
  <2>1. \A j \in Ids : j # i => guest'[j] = guest[j]
    BY <1>4 DEF BootInv, Indexed
  <2>2. guest'[i] = [guest[i] EXCEPT !.eth = Ethernet(i)]
    BY <1>4 DEF BootInv, Indexed
  <2>3. guest[i] \in [eth : {{}, Ethernet(i)}, names : {{}, {RunnerName(i)}}]
    BY DEF BootInv, GuestsOK
  <2>4. guest'[i] \in [eth : {{}, Ethernet(i)}, names : {{}, {RunnerName(i)}}]
    BY <2>2, <2>3
  <2> QED BY <2>1, <2>4 DEF BootInv, GuestsOK
<1> QED BY <1>5, <1>6

\* The name that the guest fetches is the runner's name of its slot.
LEMMA FetchMetadataInv ==
  ASSUME BootInv, NEW i \in Ids, FetchMetadata(i) PROVE Indexed' /\ MachinesOK' /\ GuestsOK'
<1>1. /\ state[i] = "up" /\ UNCHANGED <<state, devices, cmdline, mmds>>
      /\ guest' = [guest EXCEPT ![i].names = {mmds[i].hostname, mmds[i].runner}]
  BY DEF FetchMetadata, vars
<1>2. mmds[i].hostname = RunnerName(i) /\ mmds[i].runner = RunnerName(i)
  <2>1. mmds[i] = BuildData(i)
    BY <1>1 DEF BootInv, MachinesOK
  <2>2. BuildData(i).hostname = RunnerName(i) /\ BuildData(i).runner = RunnerName(i)
    BY DEF BuildData
  <2> QED BY <2>1, <2>2
<1>3. guest' = [guest EXCEPT ![i].names = {RunnerName(i)}]
  BY <1>1, <1>2
<1>4. Indexed' /\ MachinesOK'
  BY <1>1, <1>3 DEF BootInv, Indexed, MachinesOK
<1>5. GuestsOK'
  <2>1. \A j \in Ids : j # i => guest'[j] = guest[j]
    BY <1>3 DEF BootInv, Indexed
  <2>2. guest'[i] = [guest[i] EXCEPT !.names = {RunnerName(i)}]
    BY <1>3 DEF BootInv, Indexed
  <2>3. guest[i] \in [eth : {{}, Ethernet(i)}, names : {{}, {RunnerName(i)}}]
    BY DEF BootInv, GuestsOK
  <2>4. guest'[i] \in [eth : {{}, Ethernet(i)}, names : {{}, {RunnerName(i)}}]
    BY <2>2, <2>3
  <2> QED BY <2>1, <2>4 DEF BootInv, GuestsOK
<1> QED BY <1>4, <1>5

\* BootInv is an invariant of the guests' specification.
LEMMA BootInvariant == BootSpec => []BootInv
<1>1. ASSUME BootInv, [BootNext]_<<vars, bootVars>> PROVE Indexed' /\ MachinesOK' /\ GuestsOK'
  <2>1. CASE UNCHANGED <<vars, bootVars>>
    BY <1>1, <2>1 DEF vars, bootVars, BootInv, Indexed, MachinesOK, GuestsOK
  <2>2. CASE \E i \in Ids : BootFails(i)
    BY <1>1, <2>2 DEF BootFails, StartFails, bootVars, BootInv, Indexed, MachinesOK, GuestsOK
  <2>3. CASE HostDies
    <3>1. \A i \in Ids : state'[i] = "down" /\ guest'[i] = NoGuest
      BY <2>3 DEF HostDies, Crash
    <3>2. Indexed'
      BY <2>3 DEF HostDies, Indexed, NoMachine
    <3>3. MachinesOK'
      BY <3>1 DEF MachinesOK
    <3>4. GuestsOK'
      BY <3>1 DEF GuestsOK, NoGuest
    <3> QED BY <3>2, <3>3, <3>4
  <2> QED BY <1>1, <2>1, <2>2, <2>3, BootVMInv, ShutdownInv, ConfigureNetworkInv, FetchMetadataInv
          DEF BootNext
<1>2. BootSpec => []NetInv
  BY NetworkOfMachines, NetInvariant, PTL
<1>3. BootInv /\ NetInv' /\ [BootNext]_<<vars, bootVars>> => BootInv'
  BY <1>1 DEF BootInv
<1>4. BootInit => BootInv
  BY BootInitInv
<1> QED BY <1>2, <1>3, <1>4, PTL DEF BootSpec

\* Whichever way a map is printed and a value padded, parsing the command line
\* again gives each argument as it was set: kernelArgs and its parser agree
\* about words with several = signs.
THEOREM ArgumentsSurvive == BootSpec => []KernelArgsSurvive
<1>1. BootInv => KernelArgsSurvive
  BY DEF BootInv, MachinesOK, MeansArgs, KernelArgsSurvive
<1> QED BY <1>1, BootInvariant, PTL

\* What BuildNetCfg and BuildData tell a guest fits the devices and rules that
\* its host has made, whatever other slots have or have left.
THEOREM GuestsFit == BootSpec => []GuestFitsHost
<1>1. BootInv /\ ReachesItsGuest => GuestFitsHost
  <2> SUFFICES ASSUME BootInv, ReachesItsGuest, NEW i \in Ids, state[i] = "up"
               PROVE  /\ guest[i].eth # {} =>
                           /\ \E eth \in guest[i].eth : eth.nf.mmds /\ eth.cfg.addr = MMDSNet
                           /\ \E eth \in guest[i].eth :
                                /\ Routes(eth.cfg.addr) = {Link(eth.nf.dev, eth.cfg.gateway)}
                                /\ eth.nf.dev \in forward
                      /\ \A name \in guest[i].names : Last(name) = i
    BY DEF GuestFitsHost
  <2>1. guest[i].eth \in {{}, Ethernet(i)} /\ guest[i].names \in {{}, {RunnerName(i)}}
    BY DEF BootInv, GuestsOK
  <2>2. Routes(Guest(i)) = {Link(Tap1(i), Gateway(i))} /\ Tap1(i) \in forward
    BY DEF ReachesItsGuest, BootInv, NetInv, RunningOK
  <2>3. PICK a, b : a = [nf |-> Interfaces(i)[1], cfg |-> BuildNetCfg(i).eth0]
                    /\ b = [nf |-> Interfaces(i)[2], cfg |-> BuildNetCfg(i).eth1]
    OBVIOUS
  <2>4. Ethernet(i) = {a, b}
    BY <2>3 DEF Ethernet
  <2>5. a.nf.mmds /\ a.cfg.addr = MMDSNet
    BY <2>3 DEF Interfaces, BuildNetCfg
  <2>6. b.nf.dev = Tap1(i) /\ b.cfg.addr = Guest(i) /\ b.cfg.gateway = Gateway(i)
    BY <2>3 DEF Interfaces, BuildNetCfg
  <2>7. Last(RunnerName(i)) = i
    <3>1. HostName \in Seq(STRING \cup {i}) /\ <<i>> \in Seq(STRING \cup {i})
          /\ Len(<<i>>) = 1 /\ <<i>>[1] = i /\ Len(HostName) \in Nat
      BY HostNameAssumption
    <3>2. /\ Len(HostName \o <<i>>) = Len(HostName) + 1
          /\ (HostName \o <<i>>)[Len(HostName) + 1] = <<i>>[1]
      BY <3>1, ConcatProperties
    <3> QED BY <3>1, <3>2 DEF Last, RunnerName
  <2> QED BY <2>1, <2>2, <2>4, <2>5, <2>6, <2>7
<1>2. BootSpec => []ReachesItsGuest
  BY NetworkOfMachines, GuestsReached, PTL
<1> QED BY <1>1, <1>2, BootInvariant, PTL

=============================================================================

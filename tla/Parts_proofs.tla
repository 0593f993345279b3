---------------------------- MODULE Parts_proofs ----------------------------
(***************************************************************************)
(* Proofs about the components of Parts: for every size of a window and    *)
(* number of words, every file and rate, any set of threads, objects,      *)
(* boards and processes, what each component keeps in the steps of its     *)
(* calls.  Each has an inductive invariant in its own module; here it is   *)
(* proved of the component's Init and of each action of its Next, and at   *)
(* the end of the behaviours of Parts.                                     *)
(***************************************************************************)
EXTENDS Parts, TLAPS, SequenceTheorems, FiniteSetTheorems

-----------------------------------------------------------------------------
\* The library of the older interface.

\* No object, no device: the registry is empty.
LEMMA RegistryStart == Registry!Init => Registry!IInv
<1> SUFFICES ASSUME Registry!Init PROVE Registry!IInv
  OBVIOUS
<1> USE DeviceNumbers DEF Registry!None, Registry!Devices, Registry!Init
<1>1. PICK n \in RegistryNumbers : v2 = [i \in Registry!Devices |-> n]
  OBVIOUS
<1>2. PICK m \in RegistryNumbers : v4 = [o \in Objects |-> m]
  OBVIOUS
<1>3. Registry!TypeOK
  BY <1>1, <1>2 DEF Registry!TypeOK
<1>4. Registry!Linked /\ Registry!EntriesExist /\ Registry!DeviceFound
  BY <1>2 DEF Registry!Linked, Registry!EntriesExist, Registry!DeviceFound
<1>5. Registry!NothingOrphaned
  BY DEF Registry!NothingOrphaned
<1> QED
  BY <1>3, <1>4, <1>5, Zenon DEF Registry!IInv, Registry!RegistryTrue

\* Each call on an object of the older interface keeps numbers, devices and the
\* registry in agreement.
LEMMA RegistryStep == Registry!IInv /\ [Registry!Next]_Registry!vars => Registry!IInv'
<1> DEFINE device == v1
           numberOf == v2
           dev == v3
           dev_number == v4
           bar == v5
           registry == v6
           held == v7
           left == v8
           careless == v9
<1> SUFFICES ASSUME Registry!IInv, [Registry!Next]_Registry!vars PROVE Registry!IInv'
  OBVIOUS
<1> USE DeviceNumbers DEF Registry!None, Registry!Devices
<1>0. /\ Registry!TypeOK /\ Registry!Linked /\ left \in BOOLEAN /\ careless \in BOOLEAN
      /\ Registry!EntriesExist /\ Registry!DeviceFound
      /\ ~careless => Registry!NothingOrphaned
  BY DEF Registry!IInv, Registry!RegistryTrue
<1>1. ASSUME NEW o \in Objects, NEW n \in RegistryNumbers, Registry!Open(o, n)
      PROVE  Registry!IInv'
  <2>1. PICK i \in Registry!Devices :
           /\ Registry!Fresh(i)
           /\ \E result \in {"open", "unopened"} : device' = [device EXCEPT ![i] = result]
           /\ numberOf' = [numberOf EXCEPT ![i] = n]
           /\ dev' = [dev EXCEPT ![o] = i]
           /\ dev_number' = [dev_number EXCEPT ![o] = n]
           /\ registry' = [registry EXCEPT ![n] = i]
    BY <1>1, Zenon DEF Registry!Open, Registry!RegisterDevice
  <2>2. device[i] = "unmade" /\ i # 0
    BY <2>1 DEF Registry!Fresh
  <2>3. careless' = (careless \/ dev[o] # 0) /\ bar' = bar /\ held' = held /\ left' = left
    BY <1>1 DEF Registry!Open, Registry!buffers
  <2>4. Registry!TypeOK'
    BY <1>0, <2>1, <2>3 DEF Registry!TypeOK
  <2>5. Registry!Linked'
    BY <1>0, <2>1, <2>2 DEF Registry!TypeOK, Registry!Linked
  <2>6. Registry!EntriesExist'
    BY <1>0, <2>1, <2>2, <2>3 DEF Registry!TypeOK, Registry!EntriesExist
  <2>7. Registry!DeviceFound'
    <3>1. SUFFICES ASSUME NEW p \in Objects, dev'[p] # 0, p # o,
                          \A j \in Registry!Devices :
                              numberOf'[j] = dev_number'[p] /\ j # dev'[p] => device'[j] = "unmade"
                   PROVE  registry'[dev_number'[p]] = dev'[p]
      BY <1>0, <2>1 DEF Registry!TypeOK, Registry!DeviceFound
    <3>2. dev'[p] = dev[p] /\ dev_number'[p] = dev_number[p] /\ dev[p] # i
      BY <1>0, <2>1, <2>2, <3>1 DEF Registry!TypeOK, Registry!Linked
    <3>3. dev_number[p] # n
      BY <1>0, <2>1, <2>2, <3>1, <3>2 DEF Registry!TypeOK
    <3>4. \A j \in Registry!Devices :
             numberOf[j] = dev_number[p] /\ j # dev[p] => device[j] = "unmade"
      BY <1>0, <2>1, <2>2, <3>1, <3>2 DEF Registry!TypeOK
    <3> QED
      BY <1>0, <2>1, <3>1, <3>2, <3>3, <3>4 DEF Registry!TypeOK, Registry!DeviceFound
  <2>8. ~careless' => Registry!NothingOrphaned'
    BY <1>0, <2>1, <2>2, <2>3, Zenon DEF Registry!TypeOK, Registry!NothingOrphaned
  <2> QED
    BY <1>0, <2>3, <2>4, <2>5, <2>6, <2>7, <2>8 DEF Registry!IInv, Registry!RegistryTrue
<1>2. ASSUME NEW o \in Objects, Registry!Close(o)
      PROVE  Registry!IInv'
  <2>0. /\ dev[o] # 0
        /\ device' = [device EXCEPT ![dev[o]] = "deleted"]
        /\ dev' = [dev EXCEPT ![o] = 0]
        /\ bar' = [bar EXCEPT ![o] = [b \in Bars |-> 0]]
        /\ registry' = [registry EXCEPT ![dev_number[o]] = 0]
        /\ careless' = (careless \/ \E h \in Registry!Holders : held[h] = dev[o])
        /\ UNCHANGED <<numberOf, dev_number, held, left>>
    BY <1>2 DEF Registry!Close, Registry!Unregistered, Registry!buffers
  <2>1. Registry!TypeOK'
    BY <1>0, <2>0 DEF Registry!TypeOK
  <2>2. Registry!Linked'
    BY <1>0, <2>0 DEF Registry!TypeOK, Registry!Linked
  <2>3. Registry!EntriesExist'
    BY <1>0, <2>0 DEF Registry!TypeOK, Registry!Linked, Registry!EntriesExist
  <2>4. Registry!DeviceFound'
    <3>1. SUFFICES ASSUME NEW p \in Objects, dev'[p] # 0,
                          \A j \in Registry!Devices :
                              numberOf[j] = dev_number[p] /\ j # dev'[p] => device'[j] = "unmade"
                   PROVE  registry'[dev_number[p]] = dev'[p]
      BY <1>0, <2>0, Zenon DEF Registry!TypeOK, Registry!DeviceFound
    <3>2. p # o /\ dev'[p] = dev[p] /\ dev[p] # dev[o] /\ dev[o] \in Registry!Devices
      BY <1>0, <2>0, <3>1 DEF Registry!TypeOK, Registry!Linked
    <3>3. dev_number[p] # dev_number[o]
      BY <1>0, <2>0, <3>1, <3>2 DEF Registry!TypeOK, Registry!Linked
    <3>4. \A j \in Registry!Devices :
             numberOf[j] = dev_number[p] /\ j # dev[p] => device[j] = "unmade"
      BY <1>0, <2>0, <3>1, <3>2, <3>3 DEF Registry!TypeOK, Registry!Linked
    <3> QED
      BY <1>0, <2>0, <3>1, <3>2, <3>3, <3>4 DEF Registry!TypeOK, Registry!DeviceFound
  <2>5. ~careless' => Registry!NothingOrphaned'
    BY <1>0, <2>0, Zenon DEF Registry!TypeOK, Registry!NothingOrphaned
  <2> QED
    BY <1>0, <2>0, <2>1, <2>2, <2>3, <2>4, <2>5 DEF Registry!IInv, Registry!RegistryTrue
<1>3. ASSUME NEW o \in Objects, NEW b \in Bars, Registry!GetBarAccess(o, b)
      PROVE  Registry!IInv'
  <2>1. /\ UNCHANGED <<device, numberOf, dev, dev_number, registry, held, left, careless>>
        /\ \/ bar' = bar
           \/ dev[o] # 0 /\ bar' = [bar EXCEPT ![o][b] = dev[o]]
    BY <1>3 DEF Registry!GetBarAccess, Registry!buffers, Registry!library
  <2>2. /\ bar' \in [Objects -> [Bars -> Registry!Devices \cup {0}]]
        /\ \A p \in Objects, c \in Bars : bar'[p][c] \in {bar[p][c], dev[p]}
    <3> DEFINE row == [bar[o] EXCEPT ![b] = dev[o]]
    <3>1. /\ row \in [Bars -> Registry!Devices \cup {0}]
          /\ \A c \in Bars : row[c] \in {bar[o][c], dev[o]}
      BY <1>0 DEF Registry!TypeOK
    <3>2. bar' = bar \/ bar' = [bar EXCEPT ![o] = row]
      BY <1>0, <2>1 DEF Registry!TypeOK
    <3>3. bar \in [Objects -> [Bars -> Registry!Devices \cup {0}]]
      BY <1>0 DEF Registry!TypeOK
    <3> HIDE DEF row
    <3> QED
      BY <3>1, <3>2, <3>3
  <2>3. Registry!TypeOK'
    BY <1>0, <2>1, <2>2 DEF Registry!TypeOK
  <2>5. Registry!Linked' /\ Registry!EntriesExist' /\ Registry!DeviceFound'
    BY <1>0, <2>1 DEF Registry!Linked, Registry!EntriesExist, Registry!DeviceFound
  <2>4. ~careless' => Registry!NothingOrphaned'
    BY <1>0, <2>1, <2>2 DEF Registry!NothingOrphaned
  <2> QED
    BY <1>0, <2>1, <2>3, <2>4, <2>5 DEF Registry!IInv, Registry!RegistryTrue
<1>4. ASSUME NEW h \in Registry!Holders, NEW n \in RegistryNumbers, Registry!Allocate(h, n)
      PROVE  Registry!IInv'
  <2>1. /\ UNCHANGED <<device, numberOf, dev, dev_number, bar, registry>>
        /\ registry[n] # 0
        /\ careless' = (careless \/ held[h] # 0 \/ device[registry[n]] # "open")
        /\ \/ held' = [held EXCEPT ![h] = registry[n]] /\ left' = (left \/ held[h] # 0)
           \/ held' = held /\ left' = left
    BY <1>4 DEF Registry!Allocate, Registry!GetDevice, Registry!objects, Registry!library,
       Registry!buffers
  <2>2. Registry!TypeOK' /\ left' \in BOOLEAN /\ careless' \in BOOLEAN
    BY <1>0, <2>1, Zenon DEF Registry!TypeOK
  <2>3. Registry!Linked' /\ Registry!EntriesExist' /\ Registry!DeviceFound'
    BY <1>0, <2>1 DEF Registry!Linked, Registry!EntriesExist, Registry!DeviceFound
  <2>4. ASSUME ~careless' PROVE Registry!NothingOrphaned'
    <3>0. ~careless /\ held[h] = 0 /\ device[registry[n]] = "open"
      BY <1>0, <2>1, <2>4, Zenon
    <3>1. /\ ~careless /\ device[registry[n]] = "open"
          /\ left \in BOOLEAN => (left' <=> left)
          /\ held' = held \/ held' = [held EXCEPT ![h] = registry[n]]
      BY <2>1, <3>0
    <3>2. Registry!NothingOrphaned
      BY <1>0, <3>1
    <3>3. ASSUME NEW x \in Registry!Holders, held'[x] # 0 PROVE device'[held'[x]] = "open"
      BY <1>0, <2>1, <3>1, <3>2, <3>3 DEF Registry!TypeOK, Registry!NothingOrphaned
    <3>4. QED
      BY <1>0, <2>1, <3>1, <3>2, <3>3 DEF Registry!NothingOrphaned
  <2> QED
    BY <2>2, <2>3, <2>4 DEF Registry!IInv, Registry!RegistryTrue
<1>5. ASSUME NEW h \in Registry!Holders, Registry!Release(h)
      PROVE  Registry!IInv'
  BY <1>0, <1>5 DEF Registry!Release, Registry!objects, Registry!library, Registry!TypeOK,
     Registry!Linked, Registry!EntriesExist, Registry!DeviceFound,
     Registry!NothingOrphaned, Registry!IInv, Registry!RegistryTrue
<1>6. CASE UNCHANGED Registry!vars
  BY <1>0, <1>6 DEF Registry!vars, Registry!library, Registry!objects, Registry!buffers,
     Registry!IInv, Registry!TypeOK, Registry!Linked, Registry!RegistryTrue,
     Registry!EntriesExist, Registry!DeviceFound, Registry!NothingOrphaned
<1> QED
  BY <1>1, <1>2, <1>3, <1>4, <1>5, <1>6
  DEF Registry!Next, Registry!Alloc, Registry!LockBuffer, Registry!Free, Registry!UnlockBuffer

-----------------------------------------------------------------------------
\* The configuration space.

\* A device that has not been opened was told nothing.
LEMMA PciStart == Pci!Init => Pci!IInv
  BY DEF Pci!Init, Pci!IInv, Pci!TypeOK, Pci!ConfigTrue

\* What the driver writes by the cells of a union is what the program means by
\* address and width, and bits.
LEMMA PciWritten ==
    ASSUME NEW addr \in Pci!Addresses, NEW v \in Pci!Bits, NEW size \in Pci!Sizes,
           NEW a \in Pci!Addresses,
           a >= addr /\ (a - addr) \in Pci!Cells(size)
    PROVE  /\ addr <= a /\ a < addr + size
           /\ Pci!Value(v, size)[a - addr] = (v + a - addr) % 2
           /\ (v + a - addr) % 2 \in Pci!Bits
<1>1. /\ addr \in Nat /\ a \in Nat /\ v \in Nat /\ size \in Nat /\ size <= 4
  BY SpaceNumbers DEF Pci!Addresses, Pci!Bits, Pci!Sizes
<1>2. PICK i \in 0 .. 3 : i = a - addr /\ i < size
  BY <1>1 DEF Pci!Cells
<1>3. Pci!Value(v, size)[i] = (v + i) % 2
  BY <1>2 DEF Pci!Value
<1>4. v + i = v + a - addr /\ v + i \in Nat
  BY <1>1, <1>2
<1>5. (v + i) % 2 \in 0 .. 1
  BY <1>4
<1> QED
  BY <1>1, <1>2, <1>3, <1>4, <1>5 DEF Pci!Bits

\* Each access reaches the bytes it names.
LEMMA PciStep == Pci!IInv /\ [Pci!Next]_Pci!vars => Pci!IInv'
<1> DEFINE handle == v1
           config == v2
           want == v3
           got == v4
           wanted == v5
           how == v6
           told == v7
           Tellings == {"ok", "failed", "NOT_OPEN", "INVALID_BAR"}
<1> SUFFICES ASSUME Pci!IInv, [Pci!Next]_Pci!vars PROVE Pci!IInv'
  OBVIOUS
<1>0. /\ handle \in {"open", "closed", "null"}
      /\ config \in [Pci!Addresses -> Pci!Bits]
      /\ told \in Tellings /\ how \in {"access", "refused", "identity", "other"}
      /\ want = config /\ (how = "access" => got = wanted)
  BY DEF Pci!IInv, Pci!TypeOK, Pci!ConfigTrue
<1>1. ASSUME handle' \in {"open", "closed", "null"}, UNCHANGED Pci!space,
             how' \in {"refused", "identity", "other"} \/ (how' = "access" /\ wanted' = got'),
             told' \in Tellings
      PROVE  Pci!IInv'
  BY <1>0, <1>1 DEF Pci!space, Pci!IInv, Pci!TypeOK, Pci!ConfigTrue
<1>2. ASSUME NEW t \in Tellings, Pci!Other(t), handle' \in {"open", "closed", "null"}
      PROVE  Pci!IInv'
  BY <1>1, <1>2 DEF Pci!Other
<1>3. ASSUME NEW addr \in Pci!Addresses, NEW size \in Pci!Sizes, Pci!Read(addr, size),
             handle' = handle, UNCHANGED Pci!space
      PROVE  Pci!IInv'
  <2>1. how' = IF Pci!Aligned(addr, size) THEN "access" ELSE "refused"
    BY <1>3 DEF Pci!Read
  <2>2. told' = "ok" /\ got' = [i \in 1 .. size |-> Pci!DriverRead(addr, size)[i - 1]]
        /\ wanted' = Pci!Named(addr, size)
    BY <1>3 DEF Pci!Read
  <2>3. ASSUME Pci!Aligned(addr, size), NEW i \in 1 .. size
        PROVE  /\ Pci!DriverRead(addr, size)[i - 1] = config[addr + i - 1]
               /\ addr + i <= Space
    <3>1. /\ addr \in Nat /\ size \in Nat /\ size <= 4 /\ addr + size <= Space /\ Space \in Nat
      BY <2>3, SpaceNumbers DEF Pci!Addresses, Pci!Sizes, Pci!Aligned
    <3>2. PICK j \in 0 .. 3 : j = i - 1 /\ j < size
      BY <3>1
    <3>3. j \in Pci!Cells(size)
      BY <3>1, <3>2 DEF Pci!Cells
    <3>4. Pci!DriverRead(addr, size)[j] = config[addr + j]
      BY <2>3, <3>3 DEF Pci!DriverRead
    <3>5. addr + j = addr + i - 1
      BY <3>1, <3>2
    <3> QED
      BY <3>1, <3>2, <3>4, <3>5
  <2>4. ASSUME Pci!Aligned(addr, size)
        PROVE  got' = wanted'
    BY <1>0, <2>2, <2>3, <2>4, Zenon DEF Pci!Named
  <2> QED
    BY <1>0, <1>1, <1>3, <2>1, <2>2, <2>4
<1>4. ASSUME NEW addr \in Pci!Addresses, NEW v \in Pci!Bits, NEW size \in Pci!Sizes,
             Pci!Write(addr, v, size)
      PROVE  Pci!IInv'
  <2> DEFINE val == Pci!Value(v, size)
             al == Pci!Aligned(addr, size)
             put(a) == IF al /\ a \notin ReadOnly /\ a >= addr /\ (a - addr) \in Pci!Cells(size)
                       THEN val[a - addr] ELSE config[a]
             ask(a) == CASE ~al \/ a \in ReadOnly -> want[a]
                         [] al /\ a \notin ReadOnly ->
                              IF addr <= a /\ a < addr + size
                              THEN (v + a - addr) % 2 ELSE want[a]
  <2>1. /\ config' = [a \in Pci!Addresses |-> put(a)]
        /\ want' = [a \in Pci!Addresses |-> ask(a)]
    BY <1>4 DEF Pci!Write, Pci!DriverWrite
  <2>2. /\ handle' = handle /\ wanted' = got' /\ told' = "ok"
        /\ how' \in {"access", "refused", "identity", "other"}
    BY <1>4 DEF Pci!Write
  <2>3. ASSUME NEW a \in Pci!Addresses
        PROVE  put(a) = ask(a) /\ put(a) \in Pci!Bits
    <3>1. config[a] = want[a] /\ config[a] \in Pci!Bits
      BY <1>0
    <3>2. CASE ~al \/ a \in ReadOnly
      BY <3>1, <3>2
    <3>3. CASE al /\ a \notin ReadOnly /\ a >= addr /\ (a - addr) \in Pci!Cells(size)
      <4>0. a >= addr /\ (a - addr) \in Pci!Cells(size)
        BY <3>3
      <4>1. /\ addr <= a /\ a < addr + size
            /\ val[a - addr] = (v + a - addr) % 2
            /\ (v + a - addr) % 2 \in Pci!Bits
        BY <4>0, PciWritten
      <4> HIDE DEF val, al
      <4> QED
        BY <3>3, <4>1, Zenon
    <3>4. CASE al /\ a \notin ReadOnly /\ ~(a >= addr /\ (a - addr) \in Pci!Cells(size))
      <4>1. ~(addr <= a /\ a < addr + size)
        BY <3>4, SpaceNumbers DEF Pci!Addresses, Pci!Cells, Pci!Sizes
      <4> QED
        BY <3>1, <3>4, <4>1
    <3> QED
      BY <3>2, <3>3, <3>4
  <2> HIDE DEF put, ask
  <2>4. config' = want' /\ config' \in [Pci!Addresses -> Pci!Bits]
    BY <2>1, <2>3
  <2> QED
    BY <1>0, <2>2, <2>4 DEF Pci!IInv, Pci!TypeOK, Pci!ConfigTrue
<1>n. ASSUME Pci!NotOpen PROVE Pci!IInv'
  BY <1>0, <1>2, <1>n DEF Pci!NotOpen
<1>5. ASSUME NEW addr \in Pci!Addresses, NEW size \in Pci!Sizes,
             Pci!PciDeviceRead(addr, size) \/ Pci!PdRead(addr, size) \/ Pci!CompatRead(addr, size)
      PROVE  Pci!IInv'
  <2>1. CASE Pci!Read(addr, size) /\ UNCHANGED <<handle, Pci!space>>
    BY <1>3, <2>1
  <2>2. CASE Pci!NotOpen
    BY <1>n, <2>2
  <2>3. CASE how' = "other" /\ told' = "ok" /\ UNCHANGED <<handle, Pci!space>>
    BY <1>0, <1>1, <2>3
  <2> QED
    BY <1>5, <2>1, <2>2, <2>3 DEF Pci!PciDeviceRead, Pci!PdRead, Pci!CompatRead
<1>6. ASSUME NEW addr \in Pci!Addresses, NEW v \in Pci!Bits, NEW size \in Pci!Sizes,
             \/ Pci!PciDeviceWrite(addr, v, size)
             \/ Pci!PdWrite(addr, v, size)
             \/ Pci!CompatWrite(addr, v, size)
      PROVE  Pci!IInv'
  BY <1>0, <1>2, <1>4, <1>6, <1>n
  DEF Pci!PciDeviceWrite, Pci!PdWrite, Pci!CompatWrite
<1>7. ASSUME Pci!GetPlace \/ Pci!PdGetID
      PROVE  Pci!IInv'
  <2>1. CASE how' = "identity" /\ told' = "ok" /\ UNCHANGED <<handle, Pci!space>>
    BY <1>0, <1>1, <2>1
  <2> QED
    BY <1>0, <1>2, <1>7, <1>n, <2>1 DEF Pci!GetPlace, Pci!PdGetID
<1>8. ASSUME NEW bar \in {0, 6}, Pci!GetBARsize(bar) \/ Pci!PdGetBARsize(bar)
      PROVE  Pci!IInv'
  BY <1>0, <1>2, <1>8, <1>n DEF Pci!GetBARsize, Pci!PdGetBARsize
<1>9. CASE Pci!Open \/ Pci!Close \/ Pci!Null
  BY <1>2, <1>9 DEF Pci!Open, Pci!Close, Pci!Null
<1>10. CASE Pci!CompatGetId
  <2>1. 0 \in Pci!Addresses /\ 2 \in Pci!Addresses /\ 2 \in Pci!Sizes
    BY SpaceNumbers DEF Pci!Addresses, Pci!Sizes
  <2> QED
    BY <1>5, <1>10, <2>1 DEF Pci!CompatGetId
<1>11. CASE UNCHANGED Pci!vars
  BY <1>0, <1>11 DEF Pci!vars, Pci!space, Pci!answer, Pci!IInv, Pci!TypeOK, Pci!ConfigTrue
<1> QED
  BY <1>5, <1>6, <1>7, <1>8, <1>9, <1>10, <1>11 DEF Pci!Next

-----------------------------------------------------------------------------
\* The main FPGA of MPRACE2.

\* Nobody has told the main FPGA anything.
LEMMA MainStart == Main!Init => Main!IInv
<1> SUFFICES ASSUME Main!Init PROVE Main!IInv
  OBVIOUS
<1>1. Main!Idle \in Main!Calls
  BY DEF Main!Idle, Main!Calls
<1>2. Main!TypeOK
  BY <1>1, Zenon DEF Main!Init, Main!TypeOK, Main!Fields
<1>3. Main!Apart
  BY DEF Main!Init, Main!Apart, Main!Calling, Main!ToldSoFar
<1> QED
  BY <1>2, <1>3 DEF Main!IInv

\* Each step of a call keeps what the main FPGA was told so far, unless another
\* call runs into it.
LEMMA MainStep == Main!IInv /\ [Main!Next]_Main!vars => Main!IInv'
<1> DEFINE announced == v1
           call == v2
           pc == v3
           left == v4
           dma == v5
           halfReset == v6
           mixed == v7
<1> SUFFICES ASSUME Main!IInv, [Main!Next]_Main!vars PROVE Main!IInv'
  OBVIOUS
<1>0. Main!TypeOK /\ (~mixed => Main!Apart)
  BY DEF Main!IInv
<1>n. /\ MainWord \in Nat \ {0} /\ MemSize \in Nat /\ RegOffset \in Nat /\ BridgeSize \in Nat
      /\ MainAddresses \subseteq Nat /\ Counts \subseteq Nat
  BY MainNumbers DEF MainAssumption
\* A thread alone in a call writes words of the window.
<1>1. ASSUME NEW t \in Threads, pc[t] = "idle", announced' \in [Main!Fields -> Nat],
             UNCHANGED <<call, pc, left, dma, halfReset>>,
             Main!Join(t) \/ UNCHANGED <<announced, mixed>>
      PROVE  Main!IInv'
  <2>1. Main!TypeOK'
    BY <1>0, <1>1, Zenon DEF Main!TypeOK, Main!Join, Main!Busy
  <2>2. ASSUME ~mixed', UNCHANGED <<announced, mixed>>
        PROVE  Main!Apart'
    BY <1>0, <1>1, <2>2 DEF Main!Apart, Main!Calling, Main!ToldSoFar, Main!Told
  <2>3. ASSUME ~mixed', Main!Join(t)
        PROVE  Main!Apart'
    BY <1>1, <2>3, Zenon DEF Main!Join, Main!Busy, Main!Apart, Main!Calling, Main!ToldSoFar
  <2> QED
    BY <1>1, <2>1, <2>2, <2>3 DEF Main!IInv
<1>2. ASSUME NEW t \in Threads, NEW a \in Nat, NEW v \in Nat, Main!PutMain(t, a, v)
      PROVE  Main!IInv'
  BY <1>0, <1>1, <1>2 DEF Main!PutMain, Main!Stored, Main!TypeOK
<1>3. ASSUME NEW t \in Threads, pc[t] = "idle", NEW a \in Nat, NEW n \in Nat,
             NEW inc \in BOOLEAN, Main!Fill(t, a, 0, n, inc)
      PROVE  Main!IInv'
  BY <1>0, <1>1, <1>3 DEF Main!Fill, Main!TypeOK
<1>4. ASSUME NEW t \in Threads, Main!ResetMGTlink(t)
      PROVE  Main!IInv'
  <2>1. \A f \in Main!Fields : RegOffset + 0 # RegOffset + Main!Index[f]
    BY <1>n DEF Main!Fields, Main!Index
  <2>2. /\ announced' = announced /\ UNCHANGED <<call, left, dma, mixed>>
        /\ \/ pc[t] = "idle" /\ pc' = [pc EXCEPT ![t] = "link"] /\ halfReset' = TRUE
           \/ pc[t] = "link" /\ pc' = [pc EXCEPT ![t] = "idle"] /\ halfReset' = FALSE
    BY <1>0, <1>4, <2>1
    DEF Main!ResetMGTlink, Main!Stored, Main!Set, Main!MainResetLink, Main!TypeOK
  <2>3. pc' \in [Threads -> Main!Fields \cup {"idle", "load", "wait", "link"}]
    BY <1>0, <2>2 DEF Main!TypeOK
  <2>4. Main!TypeOK'
    BY <1>0, <2>2, <2>3, Zenon DEF Main!TypeOK
  <2>5. \A o \in Threads : pc'[o] = pc[o] \/ {pc'[o], pc[o]} \subseteq {"idle", "link"}
    BY <1>0, <2>2 DEF Main!TypeOK
  <2>6. ASSUME Main!Apart PROVE Main!Apart'
    <3>1. \A o \in Threads : Main!Calling(o)' => Main!Calling(o)
      BY <2>5 DEF Main!Calling
    <3>2. \A o, p \in Threads : Main!Calling(o)' /\ Main!Calling(p)' => o = p
      BY <2>6, <3>1 DEF Main!Apart
    <3>3. dma' # Main!Idle => Main!Told(dma)' /\ \A o \in Threads : pc'[o] \in {"idle", "link", "wait"}
      BY <2>2, <2>5, <2>6 DEF Main!Apart, Main!Told
    <3>4. \A o \in Threads : Main!ToldSoFar(o)'
      BY <2>2, <2>5, <2>6 DEF Main!Apart, Main!ToldSoFar
    <3>5. QED
      BY <3>2, <3>3, <3>4 DEF Main!Apart
  <2> QED
    BY <1>0, <2>2, <2>4, <2>6 DEF Main!IInv
<1>5. ASSUME NEW t \in Threads, NEW op \in {"load", "dma", "dmaNoWait"}, NEW a \in Nat,
             NEW n \in Nat, NEW times \in Nat, Main!Enter(t, op, a, n, times)
      PROVE  Main!IInv'
  <2>1. /\ pc[t] = "idle" /\ pc' = [pc EXCEPT ![t] = "src"]
        /\ call' = [call EXCEPT ![t] = [op |-> op, addr |-> a, count |-> n]]
        /\ left' = [left EXCEPT ![t] = times]
        /\ UNCHANGED <<announced, dma, halfReset>> /\ Main!Join(t)
    BY <1>5 DEF Main!Enter, Main!Set
  <2>2. Main!TypeOK'
    BY <1>0, <2>1 DEF Main!TypeOK, Main!Calls, Main!Fields, Main!Join, Main!Busy
  <2>3. ASSUME ~mixed'
        PROVE  Main!Apart'
    BY <1>0, <2>1, <2>3, Zenon DEF Main!Join, Main!Busy, Main!TypeOK, Main!Apart, Main!Calling,
       Main!ToldSoFar
  <2> QED
    BY <2>2, <2>3 DEF Main!IInv
<1>6. ASSUME NEW t \in Threads, Main!Announce(t)
      PROVE  Main!IInv'
  <2>1. PICK f \in Main!Fields :
           /\ pc[t] = f
           /\ announced' = [announced EXCEPT ![f] = Main!FieldValue(call[t], f)]
           /\ pc' = [pc EXCEPT ![t] = Main!NextStep[f]]
           /\ UNCHANGED <<call, left, dma, halfReset, mixed>>
    BY <1>6, Zenon DEF Main!Announce, Main!Set
  <2>2. /\ Main!NextStep[f] \in {"dest", "size", "load"}
        /\ f = "src" => Main!NextStep[f] = "dest"
        /\ f = "dest" => Main!NextStep[f] = "size"
        /\ f = "size" => Main!NextStep[f] = "load"
    BY DEF Main!Fields, Main!NextStep
  <2>3. call[t].addr \in Nat /\ call[t].count \in Nat
    BY <1>0 DEF Main!TypeOK, Main!Calls
  <2>4. Main!TypeOK'
    BY <1>0, <2>1, <2>2, <2>3 DEF Main!TypeOK, Main!Fields, Main!FieldValue
  <2>5. ASSUME ~mixed'
        PROVE  Main!Apart'
    <3>1. Main!Apart /\ Main!Calling(t)
      BY <1>0, <2>1, <2>5 DEF Main!Calling, Main!Fields
    <3>2. dma = Main!Idle /\ \A o \in Threads : o # t => pc'[o] = pc[o] /\ pc[o] \in {"idle", "link"}
      BY <1>0, <2>1, <3>1 DEF Main!Apart, Main!Calling, Main!Fields, Main!TypeOK
    <3>3. \A o \in Threads : pc'[o] = IF o = t THEN Main!NextStep[f] ELSE pc[o]
      BY <1>0, <2>1 DEF Main!TypeOK
    <3>4. Main!ToldSoFar(t)'
      BY <1>0, <2>1, <2>2, <3>1, <3>3 DEF Main!Apart, Main!TypeOK, Main!ToldSoFar,
         Main!Fields, Main!FieldValue
    <3>5. \A o \in Threads : Main!ToldSoFar(o)'
      BY <3>2, <3>3, <3>4 DEF Main!ToldSoFar
    <3> QED
      BY <2>1, <3>2, <3>3, <3>5 DEF Main!Apart, Main!Calling
  <2> QED
    BY <2>4, <2>5 DEF Main!IInv
<1>7. ASSUME NEW t \in Threads, Main!Load(t)
      PROVE  Main!IInv'
  BY <1>0, <1>7 DEF Main!Load, Main!Set, Main!TypeOK, Main!Fields, Main!IInv, Main!Apart,
     Main!Calling, Main!ToldSoFar, Main!Told
\* A call ends, and the transfer it may have started goes on.
<1>8. ASSUME NEW t \in Threads, UNCHANGED <<announced, left, dma, halfReset>>,
             pc' = [pc EXCEPT ![t] = "idle"], call' = [call EXCEPT ![t] = Main!Idle],
             mixed' = mixed \/ Main!Leave(t)
      PROVE  Main!IInv'
  <2>1. Main!TypeOK'
    BY <1>0, <1>8, Zenon DEF Main!TypeOK, Main!Calls, Main!Idle, Main!Leave, Main!Busy
  <2>2. \A o \in Threads : pc'[o] = IF o = t THEN "idle" ELSE pc[o]
    BY <1>0, <1>8 DEF Main!TypeOK
  <2>3. \A o \in Threads \ {t} : call'[o] = call[o]
    BY <1>0, <1>8 DEF Main!TypeOK
  <2>4. ASSUME ~mixed
        PROVE  Main!Apart'
    BY <1>0, <1>8, <2>2, <2>3, <2>4 DEF Main!Apart, Main!Calling, Main!ToldSoFar, Main!Told
  <2>5. ASSUME mixed, ~mixed'
        PROVE  Main!Apart'
    <3>1. dma = Main!Idle /\ \A o \in Threads : pc'[o] = "idle"
      BY <1>8, <2>2, <2>5, Zenon DEF Main!Leave, Main!Busy
    <3> QED
      BY <1>8, <3>1 DEF Main!Apart, Main!Calling, Main!ToldSoFar
  <2> QED
    BY <2>1, <2>4, <2>5 DEF Main!IInv
<1>9. ASSUME NEW t \in Threads, Main!Return(t) \/ Main!GiveUp(t)
      PROVE  Main!IInv'
  BY <1>8, <1>9 DEF Main!Return, Main!GiveUp, Main!Set
<1>10. ASSUME NEW t \in Threads, Main!StartDMA(t)
       PROVE  Main!IInv'
  <2>1. /\ pc[t] = "load" /\ dma = Main!Idle /\ dma' = call[t]
        /\ \/ pc' = [pc EXCEPT ![t] = "wait"] /\ call' = call
           \/ pc' = [pc EXCEPT ![t] = "idle"] /\ call' = [call EXCEPT ![t] = Main!Idle]
        /\ UNCHANGED <<announced, left, halfReset, mixed>>
    BY <1>10 DEF Main!StartDMA, Main!Set
  <2>2. Main!TypeOK'
    BY <1>0, <2>1 DEF Main!TypeOK, Main!Calls, Main!Idle
  <2>3. \A o \in Threads : IF o = t THEN pc'[o] \in {"wait", "idle"} ELSE pc'[o] = pc[o]
    BY <1>0, <2>1 DEF Main!TypeOK
  <2>4. ASSUME ~mixed'
        PROVE  Main!Apart'
    BY <1>0, <2>1, <2>3, <2>4 DEF Main!Apart, Main!Calling, Main!ToldSoFar, Main!Told
  <2> QED
    BY <2>2, <2>4 DEF Main!IInv
<1>11. CASE Main!DmaDone
  <2>1. Main!TypeOK'
    BY <1>0, <1>11 DEF Main!DmaDone, Main!TypeOK, Main!Calls, Main!Idle
  <2>2. ASSUME ~mixed, ~mixed'
        PROVE  Main!Apart'
    BY <1>0, <1>11, <2>2 DEF Main!DmaDone, Main!Apart, Main!Calling, Main!ToldSoFar, Main!Told
  <2>3. ASSUME mixed, ~mixed'
        PROVE  Main!Apart'
    BY <1>11, <2>3, Zenon DEF Main!DmaDone, Main!Apart, Main!Calling, Main!ToldSoFar
  <2> QED
    BY <2>1, <2>2, <2>3 DEF Main!IInv
<1>12. CASE UNCHANGED Main!vars
  BY <1>0, <1>12
  DEF Main!vars, Main!IInv, Main!TypeOK, Main!Apart, Main!Calling, Main!ToldSoFar, Main!Told
<1>13. ASSUME NEW t \in Threads, NEW a, Main!SetBridgeReg(t, a)
       PROVE  Main!IInv'
  BY <1>0, <1>13
  DEF Main!SetBridgeReg, Main!IInv, Main!TypeOK, Main!Apart, Main!Calling, Main!ToldSoFar,
      Main!Told
<1>14. ASSUME NEW t \in Threads, NEW a \in MainAddresses,
              \/ Main!GetReg(t, a) \/ Main!Read(t, a)
              \/ Main!SetReg(t, a, 0) \/ Main!Write(t, a, 0)
       PROVE  Main!IInv'
  BY <1>2, <1>5, <1>14, <1>n DEF Main!GetReg, Main!Read, Main!SetReg, Main!Write
<1>15. ASSUME NEW t \in Threads, NEW a \in MainAddresses, NEW n \in Counts, NEW inc \in BOOLEAN,
              \/ Main!WriteBlock(t, a, 0, n, inc) \/ Main!WriteDMA(t, a, 0, n, inc)
              \/ Main!ReadBlock(t, a, n, inc) \/ Main!ReadDMA(t, a, n, inc)
       PROVE  Main!IInv'
  <2>1. a \in Nat /\ n \in Nat
    BY <1>n
  <2>2. CASE Main!WriteBlock(t, a, 0, n, inc) \/ Main!WriteDMA(t, a, 0, n, inc)
    BY <1>3, <1>12, <2>1, <2>2 DEF Main!WriteBlock, Main!WriteDMA
  <2>3. CASE Main!ReadBlock(t, a, n, inc)
    BY <1>5, <2>1, <2>3 DEF Main!ReadBlock
  <2>4. CASE Main!ReadDMA(t, a, n, inc)
    BY <1>5, <2>1, <2>4 DEF Main!ReadDMA
  <2> QED
    BY <1>15, <2>2, <2>3, <2>4
<1> QED
  BY <1>4, <1>6, <1>7, <1>9, <1>10, <1>11, <1>12, <1>13, <1>14, <1>15 DEF Main!Next

-----------------------------------------------------------------------------
\* The life of the creotech driver.

\* The orders of probe and removal.
Resources == {"enabled", "regions", "region", "msi", "irq", "dma", "buffer", "misc"}

\* Both orders name every resource, the region third.
LEMMA CreotechOrders ==
    /\ Len(Creotech!Steps) = 8 /\ Len(Creotech!Removal) = 7
    /\ {Creotech!Steps[i] : i \in DOMAIN Creotech!Steps} = Resources
    /\ \A i \in 1 .. 8 :
          /\ Creotech!Steps[i] \in Resources
          /\ Creotech!Steps[i] = "region" <=> i = 3
          /\ Creotech!Steps[i] = "msi" <=> i = 4
          /\ Creotech!Steps[i] = "dma" <=> i = 6
          /\ Creotech!Steps[i] = "misc" <=> i = 8
    /\ \A i \in 1 .. 7 :
          /\ Creotech!Removal[i] \in Resources \ {"msi"}
          /\ Creotech!Removal[i] = "dma" <=> i = 3
          /\ Creotech!Removal[i] = "region" <=> i = 4
          /\ Creotech!Removal[i] = "misc" <=> i = 7
<1> DEFINE S == <<"enabled", "regions", "region", "msi", "irq", "dma", "buffer", "misc">>
           R == <<"buffer", "irq", "dma", "region", "regions", "enabled", "misc">>
<1>1. /\ S[1] = "enabled" /\ S[2] = "regions" /\ S[3] = "region" /\ S[4] = "msi"
      /\ S[5] = "irq" /\ S[6] = "dma" /\ S[7] = "buffer" /\ S[8] = "misc"
      /\ Len(S) = 8 /\ DOMAIN S = 1 .. 8
  OBVIOUS
<1>2. /\ R[1] = "buffer" /\ R[2] = "irq" /\ R[3] = "dma" /\ R[4] = "region"
      /\ R[5] = "regions" /\ R[6] = "enabled" /\ R[7] = "misc" /\ Len(R) = 7
  OBVIOUS
<1>3. \A i \in 1 .. 8 : i \in {1, 2, 3, 4, 5, 6, 7, 8}
  OBVIOUS
<1>4. \A i \in 1 .. 7 : i \in {1, 2, 3, 4, 5, 6, 7}
  OBVIOUS
<1>5. S = Creotech!Steps /\ R = Creotech!Removal
  BY DEF Creotech!Steps, Creotech!Removal
<1> HIDE DEF S, R
<1>6. {S[i] : i \in DOMAIN S} = Resources
  BY <1>1, <1>3 DEF Resources
<1>7. \A i \in 1 .. 8 : /\ S[i] \in Resources
                        /\ S[i] = "region" <=> i = 3
                        /\ S[i] = "msi" <=> i = 4
                        /\ S[i] = "dma" <=> i = 6
                        /\ S[i] = "misc" <=> i = 8
  BY <1>1, <1>3 DEF Resources
<1>8. \A i \in 1 .. 7 : /\ R[i] \in Resources \ {"msi"}
                        /\ R[i] = "dma" <=> i = 3
                        /\ R[i] = "region" <=> i = 4
                        /\ R[i] = "misc" <=> i = 7
  BY <1>2, <1>4 DEF Resources
<1> QED
  BY <1>1, <1>2, <1>5, <1>6, <1>7, <1>8

\* What is owed grows and shrinks by one thing at a time, each of which occurs
\* once.
LEMMA CreotechOwing ==
    /\ Creotech!Acquired(0) = {} /\ Creotech!GivenBack(0) = {}
    /\ Creotech!Acquired(8) = Resources
    /\ Creotech!GivenBack(7) = Resources \ {"msi"}
    /\ \A k \in 0 .. 7 :
          /\ Creotech!Acquired(k + 1) = Creotech!Acquired(k) \cup {Creotech!Steps[k + 1]}
          /\ Creotech!Steps[k + 1] \notin Creotech!Acquired(k)
    /\ \A k \in 0 .. 6 :
          /\ Creotech!GivenBack(k + 1) = Creotech!GivenBack(k) \cup {Creotech!Removal[k + 1]}
          /\ Creotech!Removal[k + 1] \notin Creotech!GivenBack(k)
    /\ \A k \in 0 .. 8 :
          /\ Creotech!Acquired(k) \subseteq Resources
          /\ "region" \in Creotech!Acquired(k) <=> k >= 3
          /\ "dma" \in Creotech!Acquired(k) <=> k >= 6
          /\ "misc" \in Creotech!Acquired(k) <=> k = 8
    /\ \A k \in 0 .. 7 :
          /\ "dma" \in Creotech!GivenBack(k) <=> k >= 3
          /\ "region" \in Creotech!GivenBack(k) <=> k >= 4
          /\ "misc" \in Creotech!GivenBack(k) <=> k = 7
          /\ "msi" \notin Creotech!GivenBack(k)
<1> DEFINE S == <<"enabled", "regions", "region", "msi", "irq", "dma", "buffer", "misc">>
           R == <<"buffer", "irq", "dma", "region", "regions", "enabled", "misc">>
<1>1. /\ S[1] = "enabled" /\ S[2] = "regions" /\ S[3] = "region" /\ S[4] = "msi"
      /\ S[5] = "irq" /\ S[6] = "dma" /\ S[7] = "buffer" /\ S[8] = "misc"
  OBVIOUS
<1>2. /\ R[1] = "buffer" /\ R[2] = "irq" /\ R[3] = "dma" /\ R[4] = "region"
      /\ R[5] = "regions" /\ R[6] = "enabled" /\ R[7] = "misc"
  OBVIOUS
<1>3. S = Creotech!Steps /\ R = Creotech!Removal
  BY DEF Creotech!Steps, Creotech!Removal
<1> HIDE DEF S, R
<1>4. \A k : Creotech!Acquired(k) = {S[i] : i \in 1 .. k}
  BY <1>3 DEF Creotech!Acquired
<1>5. \A k : Creotech!GivenBack(k) = {R[i] : i \in 1 .. k}
  BY <1>3 DEF Creotech!GivenBack
<1>6. \A i, j \in 1 .. 8 : S[i] = S[j] => i = j
  BY <1>1
<1>7. \A i, j \in 1 .. 7 : R[i] = R[j] => i = j
  BY <1>2
<1>8. \A k \in 0 .. 8, i \in 1 .. 8 : S[i] \in Creotech!Acquired(k) <=> i <= k
  BY <1>4, <1>6
<1>9. \A k \in 0 .. 7, i \in 1 .. 7 : R[i] \in Creotech!GivenBack(k) <=> i <= k
  BY <1>5, <1>7
<1>10. \A k \in 0 .. 8 : \A x \in Creotech!Acquired(k) : \E i \in 1 .. 8 : i <= k /\ x = S[i]
  BY <1>4
<1>11. \A k \in 0 .. 7 : \A x \in Creotech!GivenBack(k) : \E i \in 1 .. 7 : i <= k /\ x = R[i]
  BY <1>5
<1>12. \A i \in 1 .. 8 : S[i] \in Resources
  BY CreotechOrders, <1>3
<1>13. \A i \in 1 .. 7 : R[i] \in Resources \ {"msi"}
  BY CreotechOrders, <1>3
<1>14. Creotech!Acquired(0) = {} /\ Creotech!GivenBack(0) = {}
  BY <1>4, <1>5
<1>15. Creotech!Acquired(8) = Resources
  BY <1>1, <1>8, <1>10, <1>12 DEF Resources
<1>16. Creotech!GivenBack(7) = Resources \ {"msi"}
  BY <1>2, <1>9, <1>11, <1>13 DEF Resources
<1>17. ASSUME NEW k \in 0 .. 7
       PROVE  /\ Creotech!Acquired(k + 1) = Creotech!Acquired(k) \cup {S[k + 1]}
              /\ S[k + 1] \notin Creotech!Acquired(k)
  BY <1>8, <1>10
<1>18. ASSUME NEW k \in 0 .. 6
       PROVE  /\ Creotech!GivenBack(k + 1) = Creotech!GivenBack(k) \cup {R[k + 1]}
              /\ R[k + 1] \notin Creotech!GivenBack(k)
  BY <1>9, <1>11
<1>19. ASSUME NEW k \in 0 .. 8
       PROVE  /\ Creotech!Acquired(k) \subseteq Resources
              /\ "region" \in Creotech!Acquired(k) <=> k >= 3
              /\ "dma" \in Creotech!Acquired(k) <=> k >= 6
              /\ "misc" \in Creotech!Acquired(k) <=> k = 8
  BY <1>1, <1>8, <1>10, <1>12
<1>20. ASSUME NEW k \in 0 .. 7
       PROVE  /\ "dma" \in Creotech!GivenBack(k) <=> k >= 3
              /\ "region" \in Creotech!GivenBack(k) <=> k >= 4
              /\ "misc" \in Creotech!GivenBack(k) <=> k = 7
              /\ "msi" \notin Creotech!GivenBack(k)
  BY <1>2, <1>9, <1>11, <1>13
<1> QED
  BY <1>3, <1>14, <1>15, <1>16, <1>17, <1>18, <1>19, <1>20

\* The resources that are owed are resources.
LEMMA CreotechRange ==
    /\ 0 .. Len(Creotech!Steps) = 0 .. 8 /\ Creotech!Null = "null"
    /\ {Creotech!Steps[i] : i \in DOMAIN Creotech!Steps} = Resources
<1>1. 0 .. Len(Creotech!Steps) = 0 .. 8 /\ Creotech!Null = "null"
  BY CreotechOrders DEF Creotech!Null
<1>2. {Creotech!Steps[i] : i \in DOMAIN Creotech!Steps} = Resources
  BY CreotechOrders
<1> QED
  BY <1>1, <1>2

\* The module's own copy of Cardinality is Cardinality.
LEMMA CreotechCounts == \A S : Creotech!Cardinality(S) = Cardinality(S)
  BY Zenon DEF Creotech!Cardinality, Cardinality

\* No board has been probed, and no process has a file.
LEMMA CreotechStart == Creotech!Init => Creotech!IInv
<1> SUFFICES ASSUME Creotech!Init PROVE Creotech!IInv
  OBVIOUS
<1> USE DEF Creotech!Init
<1>1. Creotech!TypeOK
  <2>1. v4 \in [Boards -> 0 .. 8] /\ v7 = "null"
    BY CreotechRange
  <2>2. v5 \in [Boards -> SUBSET (Resources \cup {"further", "half"})]
    OBVIOUS
  <2> QED
    BY <2>1, <2>2, CreotechRange, Zenon DEF Creotech!TypeOK
<1>2. \A b \in Boards : Creotech!Holds(b) /\ Creotech!InOrder(b) /\ Creotech!Describes(b)
  BY DEF Creotech!Holds, Creotech!Owed, Creotech!InOrder, Creotech!Describes
<1>3. Creotech!OneAtATime /\ Creotech!OneChannel
  BY DEF Creotech!OneAtATime, Creotech!OneChannel
<1>4. Creotech!Counting
  <2>1. {p \in Processes : v9[p] \in {"open", "releasing"}} = {}
    OBVIOUS
  <2>2. Creotech!Cardinality(v10) = 0 /\ v10 = {}
    BY FS_EmptySet, CreotechCounts
  <2>3. v2 = Creotech!Cardinality(v10) /\ v10 = {}
    BY <2>2
  <2>4. v1 = "out"
    OBVIOUS
  <2> QED
    BY <2>1, <2>3, <2>4 DEF Creotech!Counting
<1>5. Creotech!Alone /\ Creotech!Served /\ Creotech!NameStays
  BY DEF Creotech!Alone, Creotech!Served, Creotech!NameStays, Creotech!Opening
<1> QED
  BY <1>1, <1>2, <1>3, <1>4, <1>5 DEF Creotech!IInv

\* Each step of a probe, a removal, open, release and mmap.
LEMMA CreotechStep == Creotech!IInv /\ [Creotech!Next]_Creotech!cvars => Creotech!IInv'
<1> DEFINE code == v1
           refs == v2
           phase == v3
           at == v4
           have == v5
           wide == v6
           mapping == v7
           deviceOpen == v8
           fpc == v9
           counted == v10
           mapped == v11
           clobbered == v12
           overtaken == v13
           Of(b) == Creotech!Holds(b) /\ Creotech!InOrder(b) /\ Creotech!Describes(b)
           Types ==
             /\ code \in {"out", "init", "live", "going"} /\ refs \in Nat
             /\ phase \in [Boards -> {"idle", "probing", "unwinding", "bound", "leaving"}]
             /\ at \in [Boards -> 0 .. 8]
             /\ have \in [Boards -> SUBSET (Resources \cup {"further", "half"})]
             /\ wide \subseteq Boards /\ mapping \in Boards \cup {"null"}
             /\ deviceOpen \in Nat
             /\ fpc \in [Processes -> {"out", "opening", "open", "releasing"}]
             /\ counted \subseteq Processes /\ mapped \subseteq Processes
             /\ clobbered \in BOOLEAN /\ overtaken \subseteq Processes
           Idle == code = "out" => \A b \in Boards : phase[b] = "idle"
<1> SUFFICES ASSUME Creotech!IInv, [Creotech!Next]_Creotech!cvars PROVE Creotech!IInv'
  OBVIOUS
<1>0. /\ Creotech!TypeOK /\ \A b \in Boards : Of(b)
      /\ Creotech!OneAtATime /\ Creotech!OneChannel /\ Idle
      /\ Creotech!Counting /\ Creotech!Alone /\ Creotech!Served /\ Creotech!NameStays
  BY DEF Creotech!IInv
<1>q. ASSUME Creotech!TypeOK', \A b \in Boards : Of(b)', Creotech!OneAtATime', Creotech!OneChannel',
             Idle', Creotech!Counting', Creotech!Alone', Creotech!Served', Creotech!NameStays'
      PROVE  Creotech!IInv'
  BY <1>q DEF Creotech!IInv
<1>t. Types
  BY <1>0, CreotechRange DEF Creotech!TypeOK
<1>p. ASSUME Types' PROVE Creotech!TypeOK'
  BY <1>p, CreotechRange DEF Creotech!TypeOK
\* What boards do leaves the processes' part alone, but for what serves them.
<1>f. ASSUME UNCHANGED <<code, refs, deviceOpen, fpc, counted>>
      PROVE  Creotech!Counting' /\ Creotech!Alone'
  BY <1>0, <1>f DEF Creotech!Counting, Creotech!Alone
<1>n. ASSUME UNCHANGED fpc, \A b \in Boards : "misc" \in have[b] => "misc" \in have'[b]
      PROVE  Creotech!NameStays'
  BY <1>0, <1>n DEF Creotech!NameStays, Creotech!Opening
<1>1. ASSUME NEW b \in Boards, Creotech!Probe(b)
      PROVE  Creotech!IInv'
  <2>1. /\ code \in {"init", "live"} /\ \A c \in Boards : phase[c] \in {"idle", "bound"}
        /\ phase[b] = "idle" /\ phase' = [phase EXCEPT ![b] = "probing"]
        /\ clobbered' = \E c \in Boards : phase[c] = "bound"
        /\ UNCHANGED <<code, at, have, wide, mapping>>
        /\ UNCHANGED <<refs, deviceOpen, fpc, counted, mapped, overtaken>>
    BY <1>1 DEF Creotech!Probe, Creotech!files, Creotech!Quiet
  <2>2. \A c \in Boards : phase'[c] = IF c = b THEN "probing" ELSE phase[c]
    BY <1>t, <2>1
  <2>3. Creotech!TypeOK'
    BY <1>t, <1>p, <2>1
  <2>4. \A c \in Boards : Of(c)'
    <3>1. SUFFICES ASSUME NEW c \in Boards PROVE Of(c)'
      OBVIOUS
    <3>2. at[b] = 0
      BY <1>0, <2>1 DEF Creotech!InOrder
    <3>a. Creotech!Acquired(0) = {}
      BY CreotechOwing
    <3>b. at'[b] = 0 /\ at'[c] = at[c] /\ mapping' = mapping
      BY <2>1, <3>2
    <3>3. Creotech!Owed(c)' = Creotech!Owed(c) /\ Creotech!Forgotten(c)' = Creotech!Forgotten(c)
      <4>1. Creotech!Forgotten(c)' = Creotech!Forgotten(c)
        BY <3>b DEF Creotech!Forgotten
      <4>2. CASE c = b
        <5>1. phase[c] = "idle" /\ phase'[c] = "probing" /\ at'[c] = 0
          BY <2>1, <2>2, <3>b, <4>2
        <5>2. Creotech!Owed(c) = {}
          BY <5>1 DEF Creotech!Owed
        <5>3. Creotech!Owed(c)' = Creotech!Acquired(0)
          BY <5>1 DEF Creotech!Owed
        <5> QED
          BY <3>a, <4>1, <5>2, <5>3
      <4>3. CASE c # b
        BY <2>2, <3>b, <4>1, <4>3, Zenon DEF Creotech!Owed
      <4> QED
        BY <4>2, <4>3
    <3>4. Creotech!Holds(c)'
      BY <1>0, <2>1, <3>3 DEF Creotech!Holds
    <3>5. Creotech!InOrder(c)'
      BY <1>0, <2>1, <2>2 DEF Creotech!InOrder
    <3>6. Creotech!Describes(c)'
      BY <1>0, <2>1, <2>2, <3>2 DEF Creotech!Describes
    <3> QED
      BY <3>4, <3>5, <3>6
  <2>5. Creotech!OneAtATime'
    BY <2>1, <2>2 DEF Creotech!OneAtATime
  <2>6. Creotech!OneChannel' /\ Idle'
    BY <1>0, <2>1 DEF Creotech!OneChannel
  <2>7. Creotech!Served'
    BY <1>0, <2>1, <2>2 DEF Creotech!Served
  <2>8. Creotech!NameStays'
    BY <1>n, <2>1
  <2> QED
    BY <1>q, <1>f, <2>1, <2>3, <2>4, <2>5, <2>6, <2>7, <2>8
<1>2. ASSUME NEW b \in Boards, Creotech!Acquire(b)
      PROVE  Creotech!IInv'
  <2> DEFINE r == Creotech!Steps[at[b] + 1]
             k == at[b]
  <2>1. /\ phase[b] = "probing" /\ k \in 0 .. 7
        /\ Creotech!Available(b, r)
        /\ have' = [have EXCEPT ![b] = Creotech!Claimed(b, r)]
        /\ mapping' = IF r = "region" THEN b ELSE mapping
        /\ at' = [at EXCEPT ![b] = k + 1]
        /\ UNCHANGED <<code, phase, wide, clobbered>>
        /\ UNCHANGED <<refs, deviceOpen, fpc, counted, mapped, overtaken>>
    BY <1>t, <1>2, CreotechOrders DEF Creotech!Acquire, Creotech!files
  <2>2. /\ r \in Resources /\ (r = "region" <=> k = 2) /\ (r = "dma" <=> k = 5)
        /\ Creotech!Acquired(k + 1) = Creotech!Acquired(k) \cup {r}
        /\ k + 1 \in 0 .. 8 /\ k \in Nat
    BY <2>1, CreotechOrders, CreotechOwing
  <2>3. /\ have[b] \cup {r} \subseteq have'[b]
        /\ have'[b] \subseteq have[b] \cup {r, "further"}
        /\ \A c \in Boards \ {b} : have'[c] = have[c] /\ at'[c] = at[c]
        /\ at'[b] = k + 1
    BY <1>t, <2>1 DEF Creotech!Claimed
  <2> HIDE DEF r, k
  <2>4. Creotech!TypeOK'
    BY <2>1, <2>2, <2>3, <1>t, <1>p
  <2>5. \A c \in Boards : Of(c)'
    <3>1. SUFFICES ASSUME NEW c \in Boards PROVE Of(c)'
      OBVIOUS
    <3>2. CASE c = b
      <4>1. Creotech!Owed(c) = Creotech!Acquired(k) /\ Creotech!Owed(c)' = Creotech!Acquired(k) \cup {r}
        BY <2>1, <2>2, <2>3, <3>2 DEF Creotech!Owed, k
      <4>2. /\ Creotech!Forgotten(c) \subseteq Creotech!Forgotten(c)' \cup {r}
            /\ "further" \in Creotech!Forgotten(c)'
        BY <2>1, <3>2 DEF Creotech!Forgotten
      <4>3. Creotech!Holds(c)'
        BY <1>0, <2>3, <3>2, <4>1, <4>2 DEF Creotech!Holds
      <4>4. Creotech!InOrder(c)'
        BY <2>1, <3>2 DEF Creotech!InOrder
      <4>5. Creotech!Describes(c)'
        BY <1>0, <2>1, <2>2, <2>3, <3>2 DEF Creotech!Describes, k
      <4> QED
        BY <4>3, <4>4, <4>5
    <3>3. CASE c # b
      <4>1. phase[c] \in {"idle", "bound"}
        BY <1>0, <2>1, <3>3 DEF Creotech!OneAtATime
      <4>2. Creotech!Owed(c)' = Creotech!Owed(c)
        BY <2>1, <2>3, <3>3 DEF Creotech!Owed
      <4>3. Creotech!Forgotten(c) \subseteq Creotech!Forgotten(c)'
        BY <2>1, <3>3 DEF Creotech!Forgotten
      <4>4. Creotech!Holds(c)'
        BY <1>0, <2>3, <3>3, <4>2, <4>3 DEF Creotech!Holds
      <4>5. Creotech!InOrder(c)'
        BY <1>0, <2>1, <2>3, <3>3 DEF Creotech!InOrder
      <4>6. Creotech!Describes(c)'
        BY <1>0, <2>1, <3>3, <4>1 DEF Creotech!Describes
      <4> QED
        BY <4>4, <4>5, <4>6
    <3> QED
      BY <3>2, <3>3
  <2>6. Creotech!OneAtATime' /\ Idle'
    BY <1>0, <2>1 DEF Creotech!OneAtATime
  <2>7. Creotech!OneChannel'
    BY <1>0, <2>1, <2>3 DEF Creotech!OneChannel, Creotech!Available
  <2>8. Creotech!Served'
    BY <1>0, <2>1, <2>3, <1>t, CreotechOrders DEF k, Creotech!Served
  <2>9. Creotech!NameStays'
    BY <2>1, <2>3, <1>n
  <2> QED
    BY <1>q, <1>f, <2>1, <2>4, <2>5, <2>6, <2>7, <2>8, <2>9
<1>3. ASSUME NEW b \in Boards, Creotech!WithoutMsi(b)
      PROVE  Creotech!IInv'
  <2>1. /\ phase[b] = "probing" /\ at[b] \in 0 .. 7 /\ Creotech!Steps[at[b] + 1] = "msi"
        /\ at' = [at EXCEPT ![b] = at[b] + 1]
        /\ UNCHANGED <<code, phase, have, wide, mapping, clobbered>>
        /\ UNCHANGED <<refs, deviceOpen, fpc, counted, mapped, overtaken>>
    BY <1>t, <1>3, CreotechOrders DEF Creotech!WithoutMsi, Creotech!files
  <2>2. at[b] = 3
    BY <2>1, CreotechOrders, <1>t
  <2>3. at'[b] = 4 /\ \A c \in Boards \ {b} : at'[c] = at[c]
    BY <1>t, <2>1, <2>2
  <2>4. Creotech!TypeOK'
    BY <1>t, <1>p, <2>1, <2>2
  <2>5. \A c \in Boards : Of(c)'
    <3> SUFFICES ASSUME NEW c \in Boards PROVE Of(c)'
      OBVIOUS
    <3>1. CASE c = b
      <4>1. Creotech!Owed(c) = Creotech!Acquired(3) /\ Creotech!Owed(c)' = Creotech!Acquired(4)
        BY <2>1, <2>2, <2>3, <3>1 DEF Creotech!Owed
      <4>2. Creotech!Acquired(4) = Creotech!Acquired(3) \cup {"msi"}
        BY <2>1, <2>2, CreotechOwing
      <4>3. Creotech!Forgotten(c)' = Creotech!Forgotten(c) /\ have'[c] = have[c]
        BY <2>1 DEF Creotech!Forgotten
      <4>4. Creotech!Holds(c)'
        BY <1>0, <4>1, <4>2, <4>3 DEF Creotech!Holds
      <4>5. Creotech!InOrder(c)' /\ Creotech!Describes(c)'
        BY <1>0, <2>1, <2>2, <2>3, <3>1 DEF Creotech!InOrder, Creotech!Describes
      <4> QED
        BY <4>4, <4>5
    <3>2. CASE c # b
      BY <1>0, <2>1, <2>3, <3>2, Zenon DEF Creotech!Owed, Creotech!Forgotten, Creotech!Holds,
         Creotech!InOrder, Creotech!Describes
    <3> QED
      BY <3>1, <3>2
  <2>6. Creotech!OneAtATime' /\ Creotech!OneChannel' /\ Idle'
    BY <1>0, <2>1 DEF Creotech!OneAtATime, Creotech!OneChannel
  <2>7. Creotech!Served'
    BY <1>0, <2>1, <2>2, <2>3, CreotechOrders DEF Creotech!Served
  <2>8. Creotech!NameStays'
    BY <1>n, <2>1
  <2> QED
    BY <1>q, <1>f, <2>1, <2>4, <2>5, <2>6, <2>7, <2>8
<1>4. ASSUME NEW b \in Boards, Creotech!ProbeFails(b)
      PROVE  Creotech!IInv'
  <2>1. /\ phase[b] = "probing" /\ at[b] \in 0 .. 7
        /\ phase' = [phase EXCEPT ![b] = "unwinding"]
        /\ mapping' = IF Creotech!Steps[at[b] + 1] = "region" THEN "null" ELSE mapping
        /\ UNCHANGED <<code, at, have, wide, clobbered>>
        /\ UNCHANGED <<refs, deviceOpen, fpc, counted, mapped, overtaken>>
    BY <1>t, <1>4, CreotechOrders, CreotechRange DEF Creotech!ProbeFails, Creotech!files
  <2>2. mapping' = mapping \/ (at[b] = 2 /\ mapping' = "null")
    BY <2>1, CreotechOrders, <1>t
  <2>3. \A c \in Boards : phase'[c] = IF c = b THEN "unwinding" ELSE phase[c]
    BY <1>t, <2>1
  <2>a. \A c \in Boards \ {b} : phase[c] \in {"idle", "bound"} /\ (phase[c] = "bound" => clobbered)
    BY <1>0, <1>t, <2>1 DEF Creotech!OneAtATime, Creotech!Describes
  <2>4. Creotech!TypeOK'
    BY <1>t, <1>p, <2>1, <2>2
  <2>5. \A c \in Boards : Of(c)'
    <3> SUFFICES ASSUME NEW c \in Boards PROVE Of(c)'
      OBVIOUS
    <3>1. Creotech!Owed(c)' = Creotech!Owed(c)
      <4>1. CASE c = b
        <5>1. phase[c] = "probing" /\ phase'[c] = "unwinding" /\ at'[c] = at[c]
          BY <2>1, <2>3, <4>1
        <5> QED
          BY <5>1 DEF Creotech!Owed
      <4>2. CASE c # b
        BY <2>1, <2>3, <4>2, Zenon DEF Creotech!Owed
      <4> QED
        BY <4>1, <4>2
    <3>2. Creotech!Forgotten(c) \subseteq Creotech!Forgotten(c)'
      BY <2>2, CreotechNames DEF Creotech!Forgotten
    <3>3. Creotech!Holds(c)'
      BY <1>0, <2>1, <3>1, <3>2 DEF Creotech!Holds
    <3>4. Creotech!InOrder(c)'
      BY <1>0, <2>1, <2>3, CreotechOrders DEF Creotech!InOrder
    <3>5. Creotech!Describes(c)'
      BY <1>0, <2>1, <2>2, <2>3, <2>a DEF Creotech!Describes
    <3> QED
      BY <3>3, <3>4, <3>5
  <2>6. Creotech!OneAtATime' /\ Creotech!OneChannel' /\ Idle'
    BY <1>0, <2>1, <2>3, <2>a DEF Creotech!OneAtATime, Creotech!OneChannel
  <2>7. Creotech!Served'
    BY <1>0, <2>1, <2>3, CreotechOrders DEF Creotech!Served
  <2>8. Creotech!NameStays'
    BY <1>n, <2>1
  <2> QED
    BY <1>q, <1>f, <2>1, <2>4, <2>5, <2>6, <2>7, <2>8
<1>5. ASSUME NEW b \in Boards, Creotech!Bound(b)
      PROVE  Creotech!IInv'
  <2>1. /\ phase[b] = "probing" /\ at[b] = 8
        /\ phase' = [phase EXCEPT ![b] = "bound"]
        /\ at' = [at EXCEPT ![b] = 0]
        /\ UNCHANGED <<code, have, wide, mapping, clobbered>>
        /\ UNCHANGED <<refs, deviceOpen, fpc, counted, mapped, overtaken>>
    BY <1>t, <1>5, CreotechOrders DEF Creotech!Bound, Creotech!files
  <2>2. \A c \in Boards : /\ phase'[c] = IF c = b THEN "bound" ELSE phase[c]
                          /\ at'[c] = IF c = b THEN 0 ELSE at[c]
    BY <1>t, <2>1
  <2>a. \A c \in Boards \ {b} : phase[c] \in {"idle", "bound"} /\ (phase[c] = "bound" => clobbered)
    BY <1>0, <1>t, <2>1 DEF Creotech!OneAtATime, Creotech!Describes
  <2>4. Creotech!TypeOK'
    BY <1>t, <1>p, <2>1
  <2>5. \A c \in Boards : Of(c)'
    <3> SUFFICES ASSUME NEW c \in Boards PROVE Of(c)'
      OBVIOUS
    <3>1. Creotech!Owed(c)' = Creotech!Owed(c)
      <4>1. CASE c = b
        <5>1. phase[c] = "probing" /\ at[c] = 8 /\ phase'[c] = "bound"
          BY <2>1, <2>2, <4>1
        <5>2. Creotech!Owed(c) = Creotech!Acquired(8) /\ Creotech!Owed(c)' = Creotech!Acquired(8)
          BY <5>1, CreotechOrders DEF Creotech!Owed
        <5> QED
          BY <5>2
      <4>2. CASE c # b
        BY <2>2, <4>2, Zenon DEF Creotech!Owed
      <4> QED
        BY <4>1, <4>2
    <3>2. Creotech!Forgotten(c) = Creotech!Forgotten(c)'
      BY <2>1 DEF Creotech!Forgotten
    <3>3. Creotech!Holds(c)'
      BY <1>0, <2>1, <3>1, <3>2 DEF Creotech!Holds
    <3>4. Creotech!InOrder(c)'
      BY <1>0, <2>1, <2>2 DEF Creotech!InOrder
    <3>5. Creotech!Describes(c)'
      BY <1>0, <2>1, <2>2, <2>a DEF Creotech!Describes
    <3> QED
      BY <3>3, <3>4, <3>5
  <2>6. Creotech!OneAtATime' /\ Creotech!OneChannel' /\ Idle'
    BY <1>0, <2>1, <2>2, <2>a DEF Creotech!OneAtATime, Creotech!OneChannel
  <2>7. Creotech!Served'
    BY <1>0, <2>1, <2>2, CreotechOrders DEF Creotech!Served
  <2>8. Creotech!NameStays'
    BY <1>n, <2>1
  <2> QED
    BY <1>q, <1>f, <2>1, <2>4, <2>5, <2>6, <2>7, <2>8
<1>6. ASSUME NEW b \in Boards, Creotech!Unwind(b)
      PROVE  Creotech!IInv'
  <2> DEFINE r == Creotech!Steps[at[b]]
             k == at[b]
  <2>1. /\ phase[b] = "unwinding" /\ k \in 1 .. 7
        /\ have' = IF r = "msi" THEN have ELSE Creotech!Undone(b, r)
        /\ at' = [at EXCEPT ![b] = k - 1]
        /\ UNCHANGED <<code, phase, wide, mapping, clobbered>>
        /\ UNCHANGED <<refs, deviceOpen, fpc, counted, mapped, overtaken>>
    BY <1>0, <1>t, <1>6, CreotechOrders DEF Creotech!Unwind, Creotech!files, Creotech!InOrder
  <2>2. /\ r \in Resources \ {"misc"} /\ (r = "region" <=> k = 3)
        /\ Creotech!Acquired(k) = Creotech!Acquired(k - 1) \cup {r}
        /\ r \notin Creotech!Acquired(k - 1)
    BY <2>1, CreotechOwing, CreotechOrders
  <2>3. r = "region" => mapping = b
    BY <1>0, <2>1, <2>2 DEF Creotech!Describes
  <2> HIDE DEF r
  <2>4. /\ r # "msi" => have'[b] \subseteq (have[b] \ {r}) \cup {"half"}
        /\ r = "msi" => have'[b] = have[b]
        /\ have[b] \ {r, "msi"} \subseteq have'[b]
        /\ \A c \in Boards \ {b} : have'[c] = have[c] /\ at'[c] = at[c]
        /\ at'[b] = k - 1
    <3>1. at'[b] = k - 1 /\ \A c \in Boards \ {b} : at'[c] = at[c]
      BY <1>t, <2>1
    <3>2. CASE r = "msi"
      BY <2>1, <3>1, <3>2
    <3>3. CASE r = "region"
      BY <2>1, <2>3, <3>1, <3>3 DEF Creotech!Undone
    <3>4. CASE r = "buffer"
      BY <2>1, <3>1, <3>4, <1>t DEF Creotech!Undone
    <3>5. CASE r = "irq"
      BY <2>1, <3>1, <3>5, <1>t DEF Creotech!Undone
    <3>6. CASE r \notin {"msi", "region", "buffer", "irq"}
      BY <2>1, <3>1, <3>6, <1>t DEF Creotech!Undone
    <3> QED
      BY <3>2, <3>3, <3>4, <3>5, <3>6
  <2>5. Creotech!TypeOK'
    <3>1. \A c \in Boards : have'[c] \subseteq Resources \cup {"further", "half"}
      BY <2>4, <1>t
    <3>2. have' = [c \in Boards |-> have'[c]]
      BY <2>1, <1>t, Zenon DEF Creotech!Undone
    <3>3. have' \in [Boards -> SUBSET (Resources \cup {"further", "half"})]
      BY <3>1, <3>2
    <3>4. at' \in [Boards -> 0 .. 8]
      BY <1>t, <2>1
    <3> QED
      BY <1>t, <1>p, <2>1, <3>3, <3>4
  <2>6. \A c \in Boards : Of(c)'
    <3> SUFFICES ASSUME NEW c \in Boards PROVE Of(c)'
      OBVIOUS
    <3>1. CASE c = b
      <4>1. Creotech!Owed(c) = Creotech!Acquired(k - 1) \cup {r} /\ Creotech!Owed(c)' = Creotech!Acquired(k - 1)
        BY <2>1, <2>2, <2>4, <3>1 DEF Creotech!Owed
      <4>2. Creotech!Forgotten(c)' = Creotech!Forgotten(c) /\ {"msi", "half"} \subseteq Creotech!Forgotten(c)
        BY <2>1 DEF Creotech!Forgotten
      <4>3. Creotech!Holds(c)'
        BY <1>0, <2>2, <2>4, <3>1, <4>1, <4>2 DEF Creotech!Holds
      <4>4. Creotech!InOrder(c)'
        BY <2>1, <2>4, <3>1, CreotechOrders DEF Creotech!InOrder
      <4>5. Creotech!Describes(c)'
        BY <1>0, <2>1, <2>4, <3>1 DEF Creotech!Describes
      <4> QED
        BY <4>3, <4>4, <4>5
    <3>2. CASE c # b
      BY <1>0, <2>1, <2>4, <3>2, Zenon DEF Creotech!Owed, Creotech!Forgotten, Creotech!Holds,
         Creotech!InOrder, Creotech!Describes
    <3> QED
      BY <3>1, <3>2
  <2>7. Creotech!OneAtATime' /\ Idle'
    BY <1>0, <2>1 DEF Creotech!OneAtATime
  <2>8. Creotech!OneChannel'
    BY <1>0, <2>4 DEF Creotech!OneChannel
  <2>9. Creotech!Served'
    BY <1>0, <2>1, <2>4, CreotechOrders DEF Creotech!Served
  <2>10. Creotech!NameStays'
    BY <2>1, <2>2, <2>4, <1>n
  <2> QED
    BY <1>q, <1>f, <2>1, <2>5, <2>6, <2>7, <2>8, <2>9, <2>10
<1>7. ASSUME NEW b \in Boards, Creotech!Unwound(b)
      PROVE  Creotech!IInv'
  <2>1. /\ phase[b] = "unwinding" /\ at[b] = 0
        /\ phase' = [phase EXCEPT ![b] = "idle"]
        /\ UNCHANGED <<code, at, have, wide, mapping, clobbered>>
        /\ UNCHANGED <<refs, deviceOpen, fpc, counted, mapped, overtaken>>
    BY <1>t, <1>7 DEF Creotech!Unwound, Creotech!files
  <2>2. \A c \in Boards : phase'[c] = IF c = b THEN "idle" ELSE phase[c]
    BY <1>t, <2>1
  <2>3. Creotech!TypeOK'
    BY <1>t, <1>p, <2>1
  <2>4. \A c \in Boards : Of(c)'
    <3> SUFFICES ASSUME NEW c \in Boards PROVE Of(c)'
      OBVIOUS
    <3>1. Creotech!Owed(c)' = Creotech!Owed(c)
      <4>1. CASE c = b
        <5>1. phase[c] = "unwinding" /\ at[c] = 0 /\ phase'[c] = "idle"
          BY <2>1, <2>2, <4>1
        <5>2. Creotech!Owed(c) = Creotech!Acquired(0) /\ Creotech!Owed(c)' = {}
          BY <5>1 DEF Creotech!Owed
        <5> QED
          BY <5>2, CreotechOwing
      <4>2. CASE c # b
        BY <2>1, <2>2, <4>2, Zenon DEF Creotech!Owed
      <4> QED
        BY <4>1, <4>2
    <3>2. Creotech!Forgotten(c) = Creotech!Forgotten(c)'
      BY <2>1 DEF Creotech!Forgotten
    <3>3. Creotech!Holds(c)'
      BY <1>0, <2>1, <3>1, <3>2 DEF Creotech!Holds
    <3>4. Creotech!InOrder(c)'
      BY <1>0, <2>1, <2>2 DEF Creotech!InOrder
    <3>5. Creotech!Describes(c)'
      BY <1>0, <2>1, <2>2 DEF Creotech!Describes
    <3> QED
      BY <3>3, <3>4, <3>5
  <2>5. Creotech!OneAtATime' /\ Creotech!OneChannel' /\ Idle'
    BY <1>0, <2>1, <2>2 DEF Creotech!OneAtATime, Creotech!OneChannel
  <2>6. Creotech!Served'
    BY <1>0, <2>1, <2>2, CreotechOrders DEF Creotech!Served
  <2>7. Creotech!NameStays'
    BY <1>n, <2>1
  <2> QED
    BY <1>q, <1>f, <2>1, <2>3, <2>4, <2>5, <2>6, <2>7
<1>8. ASSUME NEW b \in Boards, Creotech!Remove(b)
      PROVE  Creotech!IInv'
  <2>1. /\ code # "out" /\ phase[b] = "bound" /\ \A c \in Boards : phase[c] \in {"idle", "bound"}
        /\ phase' = [phase EXCEPT ![b] = "leaving"]
        /\ overtaken' = overtaken \cup {p \in Processes : fpc[p] \in {"opening", "open"}}
        /\ UNCHANGED <<code, at, have, wide, mapping, clobbered>>
        /\ UNCHANGED <<refs, deviceOpen, fpc, counted, mapped>>
    BY <1>t, <1>8 DEF Creotech!Remove, Creotech!Quiet
  <2>2. \A c \in Boards : phase'[c] = IF c = b THEN "leaving" ELSE phase[c]
    BY <1>t, <2>1
  <2>3. at[b] = 0
    BY <1>0, <2>1 DEF Creotech!InOrder
  <2>4. \A c \in Boards : phase[c] = "bound" => "dma" \in have[c]
    <3> SUFFICES ASSUME NEW c \in Boards, phase[c] = "bound" PROVE "dma" \in have[c]
      OBVIOUS
    <3>1. Creotech!Owed(c) = Resources
      BY CreotechOrders, CreotechOwing DEF Creotech!Owed
    <3> QED
      BY <1>0, <3>1 DEF Creotech!Holds, Resources
  <2>5. \A c \in Boards \ {b} : phase[c] = "idle"
    BY <1>0, <2>1, <2>4 DEF Creotech!OneChannel
  <2>6. Creotech!TypeOK'
    BY <1>t, <1>p, <2>1
  <2>7. \A c \in Boards : Of(c)'
    <3> SUFFICES ASSUME NEW c \in Boards PROVE Of(c)'
      OBVIOUS
    <3>1. Creotech!Owed(c)' = Creotech!Owed(c)
      <4>1. CASE c = b
        <5>1. phase[c] = "bound" /\ at[c] = 0 /\ phase'[c] = "leaving" /\ at'[c] = 0
          BY <2>1, <2>2, <2>3, <4>1
        <5>2. /\ Creotech!Owed(c) = Creotech!Acquired(8)
              /\ Creotech!Owed(c)' = Creotech!Acquired(8) \ Creotech!GivenBack(0)
          BY <5>1, CreotechOrders DEF Creotech!Owed
        <5> QED
          BY <5>2, CreotechOwing
      <4>2. CASE c # b
        BY <2>1, <2>2, <4>2 DEF Creotech!Owed
      <4> QED
        BY <4>1, <4>2
    <3>2. Creotech!Forgotten(c) = Creotech!Forgotten(c)'
      BY <2>1 DEF Creotech!Forgotten
    <3>3. Creotech!Holds(c)'
      BY <1>0, <2>1, <3>1, <3>2 DEF Creotech!Holds
    <3>4. Creotech!InOrder(c)'
      BY <1>0, <2>1, <2>2, <2>3, CreotechOrders DEF Creotech!InOrder
    <3>5. Creotech!Describes(c)'
      BY <1>0, <2>1, <2>2, <2>5 DEF Creotech!Describes
    <3> QED
      BY <3>3, <3>4, <3>5
  <2>8. Creotech!OneAtATime' /\ Creotech!OneChannel' /\ Idle'
    BY <1>0, <2>1, <2>2, <2>5 DEF Creotech!OneAtATime, Creotech!OneChannel
  <2>9. Creotech!Served'
    BY <2>1 DEF Creotech!Served
  <2>10. Creotech!NameStays'
    BY <1>n, <2>1
  <2> QED
    BY <1>q, <1>f, <2>1, <2>6, <2>7, <2>8, <2>9, <2>10
<1>9. ASSUME NEW b \in Boards, Creotech!GiveBack(b)
      PROVE  Creotech!IInv'
  <2> DEFINE k == at[b]
             r == Creotech!Removal[k + 1]
  <2>1. /\ phase[b] = "leaving" /\ k \in 0 .. 6
        /\ r = "misc" => Creotech!Opening = {}
        /\ have' = Creotech!Undone(b, r)
        /\ at' = [at EXCEPT ![b] = k + 1]
        /\ UNCHANGED <<code, phase, wide, mapping, clobbered>>
        /\ UNCHANGED <<refs, deviceOpen, fpc, counted, mapped, overtaken>>
    BY <1>t, <1>9, CreotechOrders DEF Creotech!GiveBack, Creotech!files
  <2>2. /\ r \in Resources \ {"msi"}
        /\ Creotech!GivenBack(k + 1) = Creotech!GivenBack(k) \cup {r}
    BY <2>1, CreotechOrders, CreotechOwing
  <2> HIDE DEF r
  <2>3. \A c \in Boards \ {b} : phase[c] = "idle"
    BY <1>0, <2>1 DEF Creotech!OneAtATime
  <2>4. at'[b] = k + 1 /\ \A c \in Boards \ {b} : at'[c] = at[c]
    BY <1>t, <2>1
  <2>5. have' \in [Boards -> SUBSET (Resources \cup {"further", "half"})]
    BY <2>1, <1>t DEF Creotech!Undone
  <2>6. /\ have'[b] \subseteq (have[b] \ (IF r = "region" /\ mapping # b THEN {} ELSE {r})) \cup {"half"}
        /\ have[b] \ {r, "msi"} \subseteq have'[b]
        /\ \A c \in Boards \ {b} : have'[c] \subseteq have[c] /\ have[c] \ {r} \subseteq have'[c]
    <3>3. CASE r = "region"
      BY <2>1, <3>3 DEF Creotech!Undone
    <3>4. CASE r = "buffer"
      BY <2>1, <3>4, <1>t DEF Creotech!Undone
    <3>5. CASE r = "irq"
      BY <2>1, <3>5, <1>t DEF Creotech!Undone
    <3>6. CASE r \notin {"region", "buffer", "irq"}
      BY <2>1, <3>6, <1>t DEF Creotech!Undone
    <3> QED
      BY <3>3, <3>4, <3>5, <3>6
  <2>7. Creotech!TypeOK'
    BY <2>1, <2>5, <1>t, <1>p
  <2>8. \A c \in Boards : Of(c)'
    <3> SUFFICES ASSUME NEW c \in Boards PROVE Of(c)'
      OBVIOUS
    <3>1. CASE c = b
      <4>1. Creotech!Owed(c) = Resources \ Creotech!GivenBack(k) /\ Creotech!Owed(c)' = Resources \ Creotech!GivenBack(k + 1)
        BY <2>1, <2>4, <3>1, CreotechOrders, CreotechOwing DEF Creotech!Owed
      <4>2. /\ Creotech!Forgotten(c)' = Creotech!Forgotten(c) /\ {"msi", "half"} \subseteq Creotech!Forgotten(c)
            /\ mapping # b => "region" \in Creotech!Forgotten(c)
        BY <2>1, <3>1 DEF Creotech!Forgotten
      <4>3. Creotech!Owed(c)' = Creotech!Owed(c) \ {r}
        BY <2>2, <4>1
      <4>4. Creotech!Owed(c)' \ {"msi"} \subseteq have'[c]
        BY <1>0, <2>6, <3>1, <4>3 DEF Creotech!Holds
      <4>5. have'[c] \subseteq Creotech!Owed(c)' \cup Creotech!Forgotten(c)'
        BY <1>0, <2>6, <3>1, <4>2, <4>3 DEF Creotech!Holds
      <4>6. Creotech!InOrder(c)'
        BY <2>1, <2>4, <3>1, CreotechOrders DEF Creotech!InOrder
      <4>7. Creotech!Describes(c)'
        BY <2>1, <3>1 DEF Creotech!Describes
      <4> QED
        BY <4>4, <4>5, <4>6, <4>7 DEF Creotech!Holds
    <3>2. CASE c # b
      <4>1. phase[c] = "idle" /\ phase'[c] = "idle" /\ at'[c] = at[c]
        BY <2>1, <2>3, <2>4, <3>2
      <4>2. Creotech!Owed(c)' = {} /\ Creotech!Owed(c) = {} /\ Creotech!Forgotten(c)' = Creotech!Forgotten(c)
        BY <2>1, <4>1 DEF Creotech!Owed, Creotech!Forgotten
      <4>3. Creotech!Holds(c)'
        BY <1>0, <2>6, <3>2, <4>2 DEF Creotech!Holds
      <4>4. Creotech!InOrder(c)' /\ Creotech!Describes(c)'
        BY <1>0, <4>1 DEF Creotech!InOrder, Creotech!Describes
      <4> QED
        BY <4>3, <4>4
    <3> QED
      BY <3>1, <3>2
  <2>9. Creotech!OneAtATime' /\ Idle'
    BY <1>0, <2>1 DEF Creotech!OneAtATime
  <2>10. Creotech!OneChannel'
    BY <1>0, <2>6 DEF Creotech!OneChannel
  <2>11. Creotech!Served'
    BY <1>0, <2>1, <2>4, CreotechOrders DEF Creotech!Served
  <2>12. Creotech!NameStays'
    <3>1. CASE r = "misc"
      BY <2>1, <3>1 DEF Creotech!NameStays, Creotech!Opening
    <3>2. CASE r # "misc"
      BY <2>1, <2>6, <3>2, <1>n
    <3> QED
      BY <3>1, <3>2
  <2> QED
    BY <1>q, <1>f, <2>1, <2>7, <2>8, <2>9, <2>10, <2>11, <2>12
<1>10. ASSUME NEW b \in Boards, Creotech!Removed(b)
       PROVE  Creotech!IInv'
  <2>1. /\ phase[b] = "leaving" /\ at[b] = 7
        /\ phase' = [phase EXCEPT ![b] = "idle"]
        /\ at' = [at EXCEPT ![b] = 0]
        /\ UNCHANGED <<code, have, wide, mapping, clobbered>>
        /\ UNCHANGED <<refs, deviceOpen, fpc, counted, mapped, overtaken>>
    BY <1>t, <1>10, CreotechOrders DEF Creotech!Removed, Creotech!files
  <2>2. \A c \in Boards : /\ phase'[c] = IF c = b THEN "idle" ELSE phase[c]
                          /\ at'[c] = IF c = b THEN 0 ELSE at[c]
    BY <1>t, <2>1
  <2>3. Creotech!TypeOK'
    BY <1>t, <1>p, <2>1
  <2>4. \A c \in Boards : Of(c)'
    <3> SUFFICES ASSUME NEW c \in Boards PROVE Of(c)'
      OBVIOUS
    <3>1. Creotech!Owed(c)' = Creotech!Owed(c) \ {"msi"} \/ Creotech!Owed(c)' = Creotech!Owed(c)
      <4>1. CASE c = b
        BY <2>1, <2>2, <4>1, CreotechOrders, CreotechOwing DEF Creotech!Owed
      <4>2. CASE c # b
        BY <2>2, <4>2, Zenon DEF Creotech!Owed
      <4> QED
        BY <4>1, <4>2
    <3>2. Creotech!Forgotten(c) = Creotech!Forgotten(c)' /\ "msi" \in Creotech!Forgotten(c)
      BY <2>1 DEF Creotech!Forgotten
    <3>3. Creotech!Holds(c)'
      BY <1>0, <2>1, <3>1, <3>2 DEF Creotech!Holds
    <3>4. Creotech!InOrder(c)'
      BY <1>0, <2>1, <2>2 DEF Creotech!InOrder
    <3>5. Creotech!Describes(c)'
      BY <1>0, <2>1, <2>2 DEF Creotech!Describes
    <3> QED
      BY <3>3, <3>4, <3>5
  <2>5. Creotech!OneAtATime' /\ Creotech!OneChannel' /\ Idle'
    BY <1>0, <2>1, <2>2 DEF Creotech!OneAtATime, Creotech!OneChannel
  <2>6. Creotech!Served'
    BY <1>0, <2>1, <2>2, CreotechOrders DEF Creotech!Served
  <2>7. Creotech!NameStays'
    BY <1>n, <2>1
  <2> QED
    BY <1>q, <1>f, <2>1, <2>3, <2>4, <2>5, <2>6, <2>7
\* Processes leave the boards alone.
<1>b. ASSUME UNCHANGED <<phase, at, have, wide, mapping, clobbered>>
      PROVE  (\A b \in Boards : Of(b)') /\ Creotech!OneAtATime' /\ Creotech!OneChannel'
  BY <1>0, <1>b, Zenon DEF Creotech!Owed, Creotech!Forgotten, Creotech!Holds, Creotech!InOrder,
     Creotech!Describes, Creotech!OneAtATime, Creotech!OneChannel
\* Nobody opens the file when no board has its name.
<1>u. (\A b \in Boards : phase[b] = "idle") => Creotech!Opening = {}
  BY <1>0 DEF Creotech!Holds, Creotech!Owed, Creotech!Forgotten, Creotech!NameStays
<1>v. IsFiniteSet(counted)
  BY <1>t, CreotechNames, FS_Subset
<1>w. refs = Cardinality(counted)
  BY <1>0, CreotechCounts DEF Creotech!Counting
<1>c. ASSUME refs' = Cardinality(counted'),
             \A p \in counted' : p \in Processes /\ fpc'[p] \in {"open", "releasing"},
             code' \in {"init", "live"} =>
                 \A p \in Processes : fpc'[p] \in {"open", "releasing"} => p \in counted',
             code' \in {"going", "out"} => counted' = {}
      PROVE  Creotech!Counting'
  BY <1>c, CreotechCounts DEF Creotech!Counting
<1>k. /\ \A p \in counted : p \in Processes /\ fpc[p] \in {"open", "releasing"}
      /\ code \in {"init", "live"} =>
             \A p \in Processes : fpc[p] \in {"open", "releasing"} => p \in counted
      /\ code \in {"going", "out"} => counted = {}
  BY <1>0, <1>t DEF Creotech!Counting
<1>11. ASSUME Creotech!Insmod
       PROVE  Creotech!IInv'
  <2>1. /\ code = "out" /\ \A p \in Processes : fpc[p] = "out"
        /\ code' = "init" /\ deviceOpen' = 0 /\ refs' = 0
        /\ clobbered' = FALSE /\ mapping' = "null"
        /\ UNCHANGED <<phase, at, have, wide, fpc, counted, mapped, overtaken>>
    BY <1>11, CreotechRange DEF Creotech!Insmod
  <2>2. \A b \in Boards : phase[b] = "idle" /\ phase'[b] = "idle"
    BY <1>0, <2>1
  <2>3. Creotech!TypeOK'
    BY <1>t, <1>p, <2>1, Zenon
  <2>4. \A b \in Boards : Of(b)'
    <3> SUFFICES ASSUME NEW b \in Boards PROVE Of(b)'
      OBVIOUS
    <3>1. Creotech!Owed(b)' = Creotech!Owed(b)
      BY <2>2 DEF Creotech!Owed
    <3>2. Creotech!Forgotten(b) \subseteq Creotech!Forgotten(b)'
      BY <2>1, CreotechNames DEF Creotech!Forgotten
    <3>3. Creotech!Holds(b)'
      BY <1>0, <2>1, <3>1, <3>2 DEF Creotech!Holds
    <3>4. Creotech!InOrder(b)' /\ Creotech!Describes(b)'
      BY <1>0, <2>1, <2>2 DEF Creotech!InOrder, Creotech!Describes
    <3> QED
      BY <3>3, <3>4
  <2>5. Creotech!OneAtATime' /\ Creotech!OneChannel' /\ Idle'
    BY <1>0, <2>1, <2>2 DEF Creotech!OneAtATime, Creotech!OneChannel
  <2>6. Creotech!Counting'
    BY <2>1, <1>k, FS_EmptySet, <1>c
  <2>7. Creotech!Alone' /\ Creotech!Served'
    BY <2>1 DEF Creotech!Alone, Creotech!Served
  <2>8. Creotech!NameStays'
    BY <1>n, <2>1
  <2> QED
    BY <1>q, <2>3, <2>4, <2>5, <2>6, <2>7, <2>8
<1>12. ASSUME Creotech!Registered \/ Creotech!Rmmod \/ Creotech!Unloaded
       PROVE  Creotech!IInv'
  <2>1. /\ code \in {"init", "live", "going"} /\ code' \in {"live", "going", "out"}
        /\ code = "init" => code' = "live"
        /\ code = "live" => code' = "going" /\ refs = 0
        /\ code = "going" => code' = "out" /\ \A b \in Boards : phase[b] = "idle"
        /\ UNCHANGED <<phase, at, have, wide, mapping, clobbered>>
        /\ UNCHANGED <<refs, deviceOpen, fpc, counted, mapped, overtaken>>
    BY <1>12 DEF Creotech!Registered, Creotech!Rmmod, Creotech!Unloaded, Creotech!boards,
       Creotech!files
  <2>2. Creotech!TypeOK'
    BY <1>t, <1>p, <2>1
  <2>3. Creotech!Counting'
    BY <2>1, <1>v, <1>w, FS_EmptySet, <1>k, <1>c
  <2>4. Creotech!Alone' /\ Creotech!Served'
    BY <1>0, <2>1 DEF Creotech!Alone, Creotech!Served
  <2>5. Creotech!NameStays'
    BY <1>n, <2>1
  <2>6. Idle'
    BY <2>1
  <2> QED
    BY <1>q, <1>b, <2>1, <2>2, <2>3, <2>4, <2>5, <2>6
<1>13. ASSUME NEW p \in Processes, Creotech!OpenTest(p)
       PROVE  Creotech!IInv'
  <2>1. /\ fpc[p] = "out" /\ Creotech!Opening = {}
        /\ \E b \in Boards : "misc" \in have[b]
        /\ deviceOpen = 0
        /\ fpc' = [fpc EXCEPT ![p] = "opening"]
        /\ overtaken' = IF \E b \in Boards : phase[b] = "leaving"
                        THEN overtaken \cup {p} ELSE overtaken
        /\ UNCHANGED <<phase, at, have, wide, mapping, clobbered>>
        /\ UNCHANGED <<code, refs, deviceOpen, counted, mapped>>
    BY <1>13 DEF Creotech!OpenTest, Creotech!Unused, Creotech!Go, Creotech!boards
  <2>2. \A q \in Processes : fpc'[q] = IF q = p THEN "opening" ELSE fpc[q]
    BY <1>t, <2>1
  <2>3. Creotech!TypeOK'
    BY <1>t, <1>p, <2>1
  <2>4. Creotech!Counting'
    BY <2>1, <2>2, <1>k, <1>w, <1>c
  <2>5. \A q \in Processes : fpc[q] \notin {"opening", "open"}
    BY <1>0, <2>1 DEF Creotech!Opening, Creotech!Alone
  <2>6. Creotech!Alone'
    BY <2>1, <2>2, <2>5 DEF Creotech!Alone
  <2>7. Creotech!Served'
    <3>1. CASE \E b \in Boards : phase[b] = "leaving"
      BY <2>1, <2>2, <2>5, <3>1 DEF Creotech!Served
    <3>2. CASE ~ \E b \in Boards : phase[b] = "leaving"
      <4>1. PICK b \in Boards : "misc" \in have[b]
        BY <2>1
      <4>2. "misc" \in Creotech!Owed(b)
        BY <1>0, <4>1 DEF Creotech!Holds, Creotech!Forgotten
      <4>3. phase[b] # "idle"
        BY <4>2 DEF Creotech!Owed
      <4>4. phase[b] \in {"probing", "unwinding"} => at[b] = 8
        BY <4>2, <1>t, CreotechOwing DEF Creotech!Owed
      <4>5. phase[b] # "unwinding"
        BY <1>0, <4>4, CreotechOrders DEF Creotech!InOrder
      <4>6. phase[b] = "bound" \/ (phase[b] = "probing" /\ at[b] = 8)
        BY <1>t, <3>2, <4>3, <4>4, <4>5
      <4> QED
        BY <2>1, <4>6, CreotechOrders DEF Creotech!Served
    <3> QED
      BY <3>1, <3>2
  <2>8. Creotech!NameStays'
    BY <2>1 DEF Creotech!NameStays
  <2>9. Idle'
    BY <1>0, <2>1
  <2> QED
    BY <1>q, <1>b, <2>1, <2>3, <2>4, <2>6, <2>7, <2>8, <2>9
<1>14. ASSUME NEW p \in Processes, Creotech!OpenCount(p)
       PROVE  Creotech!IInv'
  <2>1. /\ fpc[p] = "opening"
        /\ fpc' = [fpc EXCEPT ![p] = "open"]
        /\ deviceOpen' = deviceOpen + 1
        /\ IF code = "going"
           THEN refs' = refs /\ counted' = counted
           ELSE refs' = refs + 1 /\ counted' = counted \cup {p}
        /\ UNCHANGED <<phase, at, have, wide, mapping, clobbered>>
        /\ UNCHANGED <<code, mapped, overtaken>>
    BY <1>14 DEF Creotech!OpenCount, Creotech!Go, Creotech!boards
  <2>2. \A q \in Processes : fpc'[q] = IF q = p THEN "open" ELSE fpc[q]
    BY <1>t, <2>1
  <2>3. code # "out"
    BY <1>0, <1>u, <2>1 DEF Creotech!Opening
  <2>4. Creotech!TypeOK'
    BY <1>t, <1>p, <2>1
  <2>5. Creotech!Counting'
    <3>1. p \notin counted
      BY <1>k, <2>1
    <3>2. refs' = Cardinality(counted')
      <4>1. CASE code = "going"
        BY <1>w, <2>1, <4>1
      <4>2. CASE code # "going"
        BY <2>1, <3>1, <4>2, <1>v, FS_AddElement, <1>w
      <4> QED
        BY <4>1, <4>2
    <3>3. \A q \in counted' : q \in Processes /\ fpc'[q] \in {"open", "releasing"}
      BY <1>k, <2>1, <2>2
    <3>4. code' \in {"init", "live"} =>
              \A q \in Processes : fpc'[q] \in {"open", "releasing"} => q \in counted'
      BY <1>k, <2>1, <2>2
    <3>5. code' \in {"going", "out"} => counted' = {}
      BY <1>k, <1>t, <2>1, <2>3
    <3> QED
      BY <1>c, <3>2, <3>3, <3>4, <3>5
  <2>6. Creotech!Alone'
    <3>1. \A q \in Processes : fpc[q] \in {"opening", "open"} => q = p
      BY <1>0, <2>1 DEF Creotech!Alone
    <3>2. deviceOpen = 0
      BY <1>0, <2>1, <3>1 DEF Creotech!Alone
    <3>3. deviceOpen' = 1 /\ fpc'[p] = "open"
      BY <2>1, <2>2, <3>2
    <3>4. \A q, s \in Processes :
              fpc'[q] \in {"opening", "open"} /\ fpc'[s] \in {"opening", "open"} => q = s
      BY <2>2, <3>1
    <3> QED
      BY <3>3, <3>4 DEF Creotech!Alone
  <2>7. Creotech!Served'
    BY <1>0, <2>1, <2>2 DEF Creotech!Served
  <2>8. Creotech!NameStays'
    BY <1>0, <2>1, <2>2 DEF Creotech!NameStays, Creotech!Opening
  <2>9. Idle'
    BY <1>0, <2>1
  <2> QED
    BY <1>q, <1>b, <2>1, <2>4, <2>5, <2>6, <2>7, <2>8, <2>9
<1>15. ASSUME NEW p \in Processes, Creotech!Mmap(p) \/ Creotech!VmaClose(p)
       PROVE  Creotech!IInv'
  <2>1. /\ mapped' \subseteq mapped \cup {p}
        /\ UNCHANGED <<phase, at, have, wide, mapping, clobbered>>
        /\ UNCHANGED <<code, refs, deviceOpen, fpc, counted, overtaken>>
    BY <1>15 DEF Creotech!Mmap, Creotech!VmaClose, Creotech!boards
  <2>2. Creotech!TypeOK'
    BY <1>t, <1>p, <2>1
  <2>3. Creotech!Served' /\ Idle'
    BY <1>0, <2>1 DEF Creotech!Served
  <2>4. Creotech!NameStays'
    BY <1>n, <2>1
  <2> QED
    BY <1>q, <1>b, <1>f, <2>1, <2>2, <2>3, <2>4
<1>16. ASSUME NEW p \in Processes, Creotech!Release(p)
       PROVE  Creotech!IInv'
  <2>1. /\ fpc[p] = "open"
        /\ fpc' = [fpc EXCEPT ![p] = "releasing"]
        /\ deviceOpen' = deviceOpen - 1
        /\ overtaken' = overtaken \ {p}
        /\ UNCHANGED <<phase, at, have, wide, mapping, clobbered>>
        /\ UNCHANGED <<code, refs, counted, mapped>>
    BY <1>16 DEF Creotech!Release, Creotech!Go, Creotech!boards
  <2>2. \A q \in Processes : fpc'[q] = IF q = p THEN "releasing" ELSE fpc[q]
    BY <1>t, <2>1
  <2>3. deviceOpen' = 0
    <3>1. deviceOpen = 1
      BY <1>0, <2>1 DEF Creotech!Alone
    <3> QED
      BY <2>1, <3>1
  <2>4. Creotech!TypeOK'
    BY <1>t, <1>p, <2>1, <2>3
  <2>5. Creotech!Counting'
    BY <2>1, <2>2, <1>w, <1>c, <1>k
  <2>6. Creotech!Alone'
    BY <1>0, <2>1, <2>2, <2>3 DEF Creotech!Alone
  <2>7. Creotech!Served'
    BY <1>0, <2>1, <2>2 DEF Creotech!Served
  <2>8. Creotech!NameStays'
    BY <1>0, <2>1, <2>2 DEF Creotech!NameStays, Creotech!Opening
  <2>9. Idle'
    BY <1>0, <2>1
  <2> QED
    BY <1>q, <1>b, <2>1, <2>4, <2>5, <2>6, <2>7, <2>8, <2>9
<1>17. ASSUME NEW p \in Processes, Creotech!ReleasePut(p)
       PROVE  Creotech!IInv'
  <2>1. /\ fpc[p] = "releasing"
        /\ fpc' = [fpc EXCEPT ![p] = "out"]
        /\ refs' = IF refs = 0 THEN 0 ELSE refs - 1
        /\ counted' = counted \ {p}
        /\ UNCHANGED <<phase, at, have, wide, mapping, clobbered>>
        /\ UNCHANGED <<code, deviceOpen, mapped, overtaken>>
    BY <1>17 DEF Creotech!ReleasePut, Creotech!Go, Creotech!boards
  <2>2. \A q \in Processes : fpc'[q] = IF q = p THEN "out" ELSE fpc[q]
    BY <1>t, <2>1
  <2>4. Creotech!TypeOK'
    BY <1>t, <1>p, <2>1
  <2>5. Creotech!Counting'
    <3>1. refs' = Cardinality(counted')
      <4>1. CASE p \in counted
        BY <2>1, <4>1, <1>v, FS_RemoveElement, <1>w, FS_EmptySet
      <4>2. CASE p \notin counted
        BY <2>1, <4>2, <1>k, <1>t, <1>w, FS_EmptySet, Zenon
      <4> QED
        BY <4>1, <4>2
    <3>2. \A q \in counted' : q \in Processes /\ fpc'[q] \in {"open", "releasing"}
      BY <1>k, <2>1, <2>2
    <3>3. code' \in {"init", "live"} =>
              \A q \in Processes : fpc'[q] \in {"open", "releasing"} => q \in counted'
      BY <1>k, <2>1, <2>2
    <3>4. code' \in {"going", "out"} => counted' = {}
      BY <1>k, <2>1
    <3> QED
      BY <1>c, <3>1, <3>2, <3>3, <3>4
  <2>6. Creotech!Alone'
    BY <1>0, <2>1, <2>2 DEF Creotech!Alone
  <2>7. Creotech!Served'
    BY <1>0, <2>1, <2>2 DEF Creotech!Served
  <2>8. Creotech!NameStays'
    BY <1>0, <2>1, <2>2 DEF Creotech!NameStays, Creotech!Opening
  <2>9. Idle'
    BY <1>0, <2>1
  <2> QED
    BY <1>q, <1>b, <2>1, <2>4, <2>5, <2>6, <2>7, <2>8, <2>9
<1>18. ASSUME UNCHANGED Creotech!cvars PROVE Creotech!IInv'
  <2>1. /\ UNCHANGED <<phase, at, have, wide, mapping, clobbered>>
        /\ UNCHANGED <<code, refs, deviceOpen, fpc, counted, mapped, overtaken>>
    BY <1>18 DEF Creotech!cvars, Creotech!boards, Creotech!files
  <2>2. Creotech!TypeOK'
    BY <1>t, <1>p, <2>1
  <2>3. Creotech!Served' /\ Idle'
    BY <1>0, <2>1 DEF Creotech!Served
  <2>4. Creotech!NameStays'
    BY <1>n, <2>1
  <2> QED
    BY <1>q, <1>b, <1>f, <2>1, <2>2, <2>3, <2>4
<1> QED
  BY <1>1, <1>2, <1>3, <1>4, <1>5, <1>6, <1>7, <1>8, <1>9, <1>10, <1>11, <1>12, <1>13,
     <1>14, <1>15, <1>16, <1>17, <1>18 DEF Creotech!Next

\* What the invariant says of files and of boards that are gone.
LEMMA CreotechServes ==
    Creotech!IInv => Creotech!OneFile /\ Creotech!FilesServed /\ Creotech!BoardGone
<1> SUFFICES ASSUME Creotech!IInv
             PROVE  Creotech!OneFile /\ Creotech!FilesServed /\ Creotech!BoardGone
  OBVIOUS
<1>0. /\ Creotech!TypeOK
      /\ \A b \in Boards : Creotech!Holds(b) /\ Creotech!InOrder(b) /\ Creotech!Describes(b)
      /\ Creotech!Counting /\ Creotech!Alone /\ Creotech!Served
  BY DEF Creotech!IInv
<1>1. Creotech!OneFile
  <2> DEFINE Past == {p \in Processes : v9[p] \in {"opening", "open"}}
             Open == {p \in Processes : v9[p] = "open"}
  <2>1. ASSUME NEW S, \A p, q \in S : p = q
        PROVE  Cardinality(S) = IF S = {} THEN 0 ELSE 1
    <3>1. CASE S = {}
      BY <3>1, FS_EmptySet
    <3>2. CASE S # {}
      <4>1. PICK p \in S : TRUE
        BY <3>2
      <4>2. S = {p}
        BY <2>1, <4>1
      <4> QED
        BY <3>2, <4>2, FS_Singleton
    <3> QED
      BY <3>1, <3>2
  <2>2. \A p, q \in Past : p = q
    BY <1>0 DEF Creotech!Alone
  <2>3. \A p, q \in Open : p = q
    BY <1>0 DEF Creotech!Alone
  <2>4. v8 = IF Open = {} THEN 0 ELSE 1
    BY <1>0 DEF Creotech!Alone
  <2> HIDE DEF Past, Open
  <2>5. Cardinality(Past) <= 1
    BY <2>1, <2>2
  <2>6. Cardinality(Open) = v8
    BY <2>1, <2>3, <2>4
  <2>7. Creotech!Cardinality(Open) = v8 /\ Creotech!Cardinality(Past) <= 1
    BY <2>5, <2>6, CreotechCounts
  <2>8. v10 # {} => v1 \in {"init", "live"}
    BY <1>0 DEF Creotech!TypeOK, Creotech!Counting
  <2> QED
    BY <2>7, <2>8 DEF Creotech!OneFile, Past, Open
<1>2. Creotech!FilesServed
  <2> SUFFICES ASSUME NEW p \in Processes \ v13, v9[p] = "open", ~v12
               PROVE  \E b \in Boards : /\ v7 = b
                                        /\ {"region", "irq", "dma", "buffer"} \subseteq v5[b]
    BY DEF Creotech!FilesServed
  <2>1. PICK b \in Boards : v3[b] = "bound" \/ (v3[b] = "probing" /\ v4[b] = 8)
    BY <1>0, CreotechOrders DEF Creotech!Served
  <2>2. v7 = b
    BY <1>0, <2>1 DEF Creotech!Describes
  <2>3. Creotech!Owed(b) = Creotech!Acquired(8)
    BY <2>1, CreotechOrders DEF Creotech!Owed
  <2>4. Resources \ {"msi"} \subseteq v5[b]
    BY <1>0, <2>3, CreotechOwing DEF Creotech!Holds
  <2>5. {"region", "irq", "dma", "buffer"} \subseteq v5[b]
    BY <2>4 DEF Resources
  <2> QED
    BY <2>2, <2>5
<1>3. Creotech!BoardGone
  BY <1>0 DEF Creotech!BoardGone, Creotech!Holds, Creotech!Owed, Creotech!Forgotten
<1> QED
  BY <1>1, <1>2, <1>3

-----------------------------------------------------------------------------
\* Descriptors and handles of the library.

\* Descriptors are numbers, and the names of other holders are no objects.
LEMMA HandleConstants ==
    /\ Handles!Fds = 0 .. MaxFd /\ Handles!Closed = -1 /\ Handles!Closed \notin Handles!Fds
    /\ Handles!Free = "free" /\ Handles!Other = "other" /\ Handles!NoObject = "none"
    /\ "free" \notin Objects /\ "other" \notin Objects /\ "none" \notin Objects
<1>1. /\ Handles!Fds = 0 .. MaxFd /\ Handles!Closed = -1
      /\ Handles!Free = "free" /\ Handles!Other = "other" /\ Handles!NoObject = "none"
  BY DEF Handles!Fds, Handles!Closed, Handles!Free, Handles!Other, Handles!NoObject
<1>2. -1 \notin 0 .. MaxFd
  BY ObjectNames
<1> QED
  BY <1>1, <1>2, ObjectNames

\* Nothing is open.
LEMMA HandlesStart == Handles!Init => Handles!IInv
<1> SUFFICES ASSUME Handles!Init PROVE Handles!IInv
  OBVIOUS
<1>0. /\ v1 \in [Objects -> {"c", "cpp"}]
      /\ v2 = [o \in Objects |-> "none"]
      /\ v3 = [o \in Objects |-> -1]
      /\ v4 \in [Handles!Fds -> {"other", "free"}]
      /\ v5 = [o \in Objects |-> {}]
      /\ v6 = [t \in Threads |-> "idle"]
      /\ v7 = [t \in Threads |-> "none"]
      /\ v8 = [o \in Objects |-> {}]
      /\ v9 = [o \in Objects |-> {}]
      /\ v10 = FALSE
  <2>1. PICK s \in {{}, {0}} : v4 = [f \in Handles!Fds |-> IF f \in s THEN Handles!Other ELSE Handles!Free]
    BY DEF Handles!Init
  <2>2. v4 \in [Handles!Fds -> {"other", "free"}]
    BY <2>1, HandleConstants
  <2> QED
    BY <2>2, HandleConstants DEF Handles!Init
<1>1. Handles!TypeOK
  BY <1>0, HandleConstants, Zenon DEF Handles!TypeOK
<1>2. v6 \in [Threads -> Handles!Positions]
  BY <1>0 DEF Handles!Positions
<1>3. \A t \in Threads : Handles!InPlace(t)
  BY <1>0, HandleConstants DEF Handles!InPlace
<1>4. \A o \in Objects : Handles!Described(o)
  BY <1>0, HandleConstants DEF Handles!Described
<1>5. \A o \in Objects : Handles!Accounted(o)
  <2> SUFFICES ASSUME NEW o \in Objects PROVE Handles!Accounted(o)
    OBVIOUS
  <2>1. Handles!Coming(o) = {}
    BY <1>0 DEF Handles!Coming
  <2> QED
    BY <1>0, <2>1 DEF Handles!Accounted
<1>6. Handles!OneMaker /\ Handles!LockReturned
  BY <1>0, HandleConstants DEF Handles!OneMaker, Handles!LockReturned
<1> QED
  BY <1>1, <1>2, <1>3, <1>4, <1>5, <1>6 DEF Handles!IInv

\* Each call of the library, under its lock and without it.
LEMMA HandlesStep == Handles!IInv /\ [Handles!Next]_Handles!vars => Handles!IInv'
<1> DEFINE api == v1
           life == v2
           handle == v3
           owner == v4
           mutex == v5
           pc == v6
           on == v7
           entries == v8
           named == v9
           misused == v10
           Types ==
             /\ api \in [Objects -> {"c", "cpp"}]
             /\ life \in [Objects -> {"none", "made", "gone"}]
             /\ handle \in [Objects -> (0 .. MaxFd) \cup {-1}]
             /\ owner \in [0 .. MaxFd -> Objects \cup {"other", "free"}]
             /\ mutex \in [Objects -> SUBSET Threads]
             /\ on \in [Threads -> Objects \cup {"none"}]
             /\ entries \in [Objects -> SUBSET {"kernel", "user"}]
             /\ named \in [Objects -> SUBSET {"kernel", "user"}]
             /\ misused \in BOOLEAN
             /\ pc \in [Threads -> Handles!Positions]
           \* What an object has of a descriptor.
           Fd(o) ==
             /\ life[o] = "made" /\ api[o] = "c" => handle[o] # -1
             /\ life[o] = "none" => handle[o] = -1
             /\ \A f \in 0 .. MaxFd :
                   owner[f] = o <=> handle[o] = f /\ (life[o] = "made" \/ (f = 0 /\ api[o] = "cpp"))
           \* What it has of memory.
           Way(o) == \E t \in Threads : on[t] = o /\ pc[t] \in {"alloclock", "allocmap"}
           Mem(o) ==
             /\ entries[o] = named[o] \cup (IF Way(o) THEN {"kernel"} ELSE {})
             /\ \A t \in Threads :
                   on[t] = o /\ pc[t] \in {"alloc", "alloclock", "allocmap"} => "kernel" \notin named[o]
           In(t) ==
             /\ on[t] = "none" <=> pc[t] = "idle"
             /\ on[t] # "none" => life[on[t]] = "made" /\ handle[on[t]] # -1
           Maker ==
             \A t, u \in Threads :
                on[t] # "none" /\ on[t] = on[u] /\ pc[t] \in Handles!Making /\ pc[u] \in Handles!Making
                => t = u
           Locked ==
             \A o \in Objects, t \in Threads :
                t \in mutex[o] => on[t] = o /\ pc[t] \in {"barmode", "barmap", "allocmap"}
           Good ==
             /\ \A t \in Threads : In(t)
             /\ \A o \in Objects : Fd(o)
             /\ \A o \in Objects : Mem(o)
             /\ Maker /\ Locked
<1>a. Handles!IInv => Types /\ (~misused => Good)
  <2> SUFFICES ASSUME Handles!IInv PROVE Types /\ (~misused => Good)
    OBVIOUS
  <2>1. Types
    BY HandleConstants DEF Handles!IInv, Handles!TypeOK
  <2>2. ASSUME ~misused PROVE Good
    <3>0. /\ \A t \in Threads : Handles!InPlace(t)
          /\ \A o \in Objects : Handles!Described(o) /\ Handles!Accounted(o)
          /\ Handles!OneMaker /\ Handles!LockReturned
      BY <2>2 DEF Handles!IInv
    <3>1. \A t \in Threads : In(t)
      BY <3>0, HandleConstants DEF Handles!InPlace
    <3>2. \A o \in Objects : Fd(o)
      BY <3>0, HandleConstants DEF Handles!Described
    <3>3. \A o \in Objects : Mem(o)
      <4> SUFFICES ASSUME NEW o \in Objects PROVE Mem(o)
        OBVIOUS
      <4>1. Handles!Coming(o) = {} <=> ~Way(o)
        BY DEF Handles!Coming
      <4> QED
        BY <3>0, <4>1 DEF Handles!Accounted
    <3>4. Maker
      BY <3>0, HandleConstants DEF Handles!OneMaker
    <3>5. Locked
      BY <2>2, <3>0 DEF Handles!LockReturned
    <3> QED
      BY <3>1, <3>2, <3>3, <3>4, <3>5
  <2> QED
    BY <2>1, <2>2
<1>b. ASSUME Types', ~misused' => Good' PROVE Handles!IInv'
  <2>1. Handles!TypeOK' /\ pc' \in [Threads -> Handles!Positions]
    BY <1>b, HandleConstants DEF Handles!TypeOK
  <2>2. ASSUME ~misused'
        PROVE  /\ \A t \in Threads : Handles!InPlace(t)'
               /\ \A o \in Objects : Handles!Described(o)' /\ Handles!Accounted(o)'
               /\ Handles!OneMaker' /\ Handles!LockReturned'
    <3>0. Good'
      BY <1>b, <2>2
    <3>1. \A t \in Threads : Handles!InPlace(t)'
      BY <3>0, HandleConstants DEF Handles!InPlace
    <3>2. \A o \in Objects : Handles!Described(o)'
      BY <3>0, HandleConstants DEF Handles!Described
    <3>3. \A o \in Objects : Handles!Accounted(o)'
      <4> SUFFICES ASSUME NEW o \in Objects PROVE Handles!Accounted(o)'
        OBVIOUS
      <4>1. Handles!Coming(o)' = {} <=> ~Way(o)'
        BY DEF Handles!Coming
      <4> QED
        BY <3>0, <4>1 DEF Handles!Accounted
    <3>4. Handles!OneMaker'
      BY <3>0, HandleConstants DEF Handles!OneMaker
    <3>5. Handles!LockReturned'
      BY <3>0 DEF Handles!LockReturned
    <3> QED
      BY <3>1, <3>2, <3>3, <3>4, <3>5
  <2> QED
    BY <2>1, <2>2 DEF Handles!IInv
<1> SUFFICES ASSUME Types, ~misused => Good, [Handles!Next]_Handles!vars
             PROVE  Types' /\ (~misused' => Good')
  BY <1>a, <1>b
<1>t. Types
  OBVIOUS
\* An open or a close of an object that no call is on.
<1>c. ASSUME Good, NEW o \in Objects, UNCHANGED <<pc, on, entries, named>>,
             \A x \in Objects : mutex'[x] \subseteq mutex[x],
             \A x \in Objects \ {o} : life'[x] = life[x] /\ handle'[x] = handle[x],
             ~Handles!InCall(o), \A x \in Objects : Fd(x)'
      PROVE  Good'
  <2>1. \A t \in Threads : on[t] # o
    BY <1>c DEF Handles!InCall
  <2>2. \A t \in Threads : In(t)'
    BY <1>c, <1>t, <2>1, HandleConstants
  <2>3. \A x \in Objects : Mem(x)'
    BY <1>c
  <2>4. Maker' /\ Locked'
    BY <1>c
  <2> QED
    BY <1>c, <2>2, <2>3, <2>4
\* A descriptor that opening takes is nobody's.
<1>f. ASSUME NEW f \in 0 .. MaxFd, Handles!Lowest(f)
      PROVE  owner[f] = "free"
  BY <1>f, HandleConstants DEF Handles!Lowest
<1>1. ASSUME Good, NEW o \in Objects, Handles!Construct(o)
      PROVE  Types' /\ (~misused' => Good')
  <2>1. /\ api[o] = "cpp" /\ life[o] = "none"
        /\ life' = [life EXCEPT ![o] = "made"]
        /\ handle' = [handle EXCEPT ![o] = -1]
        /\ UNCHANGED <<api, owner, mutex, pc, on, entries, named, misused>>
    BY <1>1, HandleConstants DEF Handles!Construct, Handles!memory
  <2>2. Types'
    BY <1>t, <2>1
  <2>3. ~Handles!InCall(o)
    BY <1>1, <1>t, <2>1, HandleConstants DEF Handles!InCall
  <2>4. \A x \in Objects : Fd(x)'
    BY <1>1, <1>t, <2>1
  <2>5. Good'
    BY <1>1, <1>c, <1>t, <2>1, <2>3, <2>4
  <2> QED
    BY <2>2, <2>5
<1>2. ASSUME Good, NEW o \in Objects, Handles!Destroy(o)
      PROVE  Types' /\ (~misused' => Good')
  <2>1. /\ api[o] = "cpp" /\ life[o] = "made" /\ ~Handles!InCall(o)
        /\ life' = [life EXCEPT ![o] = "gone"]
        /\ owner' = IF handle[o] > 0 THEN [owner EXCEPT ![handle[o]] = "free"] ELSE owner
        /\ handle' = IF handle[o] > 0 THEN [handle EXCEPT ![o] = -1] ELSE handle
        /\ mutex' = [mutex EXCEPT ![o] = {}]
        /\ misused' = (misused \/ named[o] # {})
        /\ UNCHANGED <<api, pc, on, entries, named>>
    BY <1>2, <1>t, HandleConstants DEF Handles!Destroy, Handles!memory, Handles!ClosedFd
  <2>2. Types'
    BY <1>t, <2>1
  <2>3. \A x \in Objects : Fd(x)'
    <3> SUFFICES ASSUME NEW x \in Objects PROVE Fd(x)'
      OBVIOUS
    <3>1. CASE handle[o] > 0
      BY <1>2, <2>1, <3>1, <1>t, HandleConstants
    <3>2. CASE ~(handle[o] > 0)
      BY <1>2, <1>t, <2>1, <3>2
    <3> QED
      BY <3>1, <3>2
  <2>4. Good'
    BY <1>2, <2>1, <2>3, <1>t, <1>c
  <2> QED
    BY <2>2, <2>4
<1>3. ASSUME Good, NEW o \in Objects, Handles!Open(o)
      PROVE  Types' /\ (~misused' => Good')
  <2>1. PICK f \in 0 .. MaxFd :
        /\ api[o] = "cpp" /\ life[o] = "made" /\ handle[o] = -1
        /\ owner[f] = "free"
        /\ handle' = [handle EXCEPT ![o] = f]
        /\ owner' = [owner EXCEPT ![f] = o]
        /\ misused' = (misused \/ Handles!InCall(o))
        /\ UNCHANGED <<api, life, mutex, pc, on, entries, named>>
    BY <1>3, <1>f, HandleConstants, Zenon DEF Handles!Open, Handles!MayOpen, Handles!memory
  <2>2. Types'
    BY <1>t, <2>1 DEF Handles!InCall
  <2>3. \A x \in Objects : Fd(x)'
    <3> SUFFICES ASSUME NEW x \in Objects PROVE Fd(x)'
      OBVIOUS
    <3>1. CASE x = o
      BY <1>3, <1>t, <2>1, <3>1, HandleConstants
    <3>2. CASE x # o
      BY <1>3, <1>t, <2>1, <3>2, HandleConstants
    <3> QED
      BY <3>1, <3>2
  <2>4. \A x \in Objects \ {o} : life'[x] = life[x] /\ handle'[x] = handle[x]
    BY <1>t, <2>1
  <2>5. ~misused' => Good'
    BY <1>3, <1>c, <2>1, <2>3, <2>4
  <2> QED
    BY <2>2, <2>5
<1>4. ASSUME Good, NEW o \in Objects, Handles!Close(o)
      PROVE  Types' /\ (~misused' => Good')
  <2>1. /\ api[o] = "cpp" /\ life[o] = "made" /\ handle[o] # -1
        /\ owner' = [owner EXCEPT ![handle[o]] = "free"]
        /\ handle' = [handle EXCEPT ![o] = -1]
        /\ misused' = (misused \/ Handles!InCall(o) \/ named[o] # {})
        /\ UNCHANGED <<api, life, mutex, pc, on, entries, named>>
    BY <1>4, <1>t, HandleConstants DEF Handles!Close, Handles!memory, Handles!ClosedFd
  <2>2. Types'
    BY <1>t, <2>1 DEF Handles!InCall
  <2>3. \A x \in Objects : Fd(x)'
    <3> SUFFICES ASSUME NEW x \in Objects PROVE Fd(x)'
      OBVIOUS
    <3>1. handle[o] \in 0 .. MaxFd /\ owner[handle[o]] = o
      BY <1>4, <1>t, <2>1
    <3>2. CASE x = o
      BY <1>4, <1>t, <2>1, <3>1, <3>2, HandleConstants
    <3>3. CASE x # o
      BY <1>4, <1>t, <2>1, <3>1, <3>3, HandleConstants
    <3> QED
      BY <3>2, <3>3
  <2>4. \A x \in Objects \ {o} : life'[x] = life[x] /\ handle'[x] = handle[x]
    BY <1>t, <2>1
  <2>5. ~misused' => Good'
    BY <1>4, <1>c, <2>1, <2>3, <2>4, Zenon
  <2> QED
    BY <2>2, <2>5
<1>5. ASSUME Good, NEW o \in Objects, Handles!PdOpen(o)
      PROVE  Types' /\ (~misused' => Good')
  <2>1. PICK f \in 0 .. MaxFd :
        /\ api[o] = "c" /\ owner[f] = "free"
        /\ handle' = [handle EXCEPT ![o] = f]
        /\ owner' = [owner EXCEPT ![f] = o]
        /\ mutex' = [mutex EXCEPT ![o] = {}]
        /\ misused' = (misused \/ Handles!InCall(o) \/ life[o] = "made")
        /\ life' = [life EXCEPT ![o] = "made"]
        /\ UNCHANGED <<api, pc, on, entries, named>>
    BY <1>5, <1>f, HandleConstants, Zenon DEF Handles!PdOpen, Handles!memory
  <2>2. Types'
    BY <1>t, <2>1 DEF Handles!InCall
  <2>3. ASSUME ~misused' PROVE \A x \in Objects : Fd(x)'
    <3> SUFFICES ASSUME NEW x \in Objects PROVE Fd(x)'
      OBVIOUS
    <3>1. life[o] # "made" /\ \A g \in 0 .. MaxFd : owner[g] # o
      <4>1. life[o] # "made"
        BY <1>t, <2>1, <2>3, Zenon DEF Handles!InCall
      <4> QED
        BY <1>5, <2>1, <4>1
    <3>2. CASE x = o
      BY <1>t, <2>1, <3>1, <3>2, HandleConstants
    <3>3. CASE x # o
      BY <1>5, <1>t, <2>1, <3>3, HandleConstants
    <3> QED
      BY <3>2, <3>3
  <2>4. \A x \in Objects \ {o} : life'[x] = life[x] /\ handle'[x] = handle[x]
    BY <1>t, <2>1
  <2>5. \A x \in Objects : mutex'[x] \subseteq mutex[x]
    BY <1>t, <2>1
  <2>6. ~misused' => Good'
    BY <1>5, <1>c, <2>1, <2>3, <2>4, <2>5
  <2> QED
    BY <2>2, <2>6
<1>6. ASSUME Good, NEW o \in Objects, Handles!PdClose(o)
      PROVE  Types' /\ (~misused' => Good')
  <2>1. /\ api[o] = "c" /\ life[o] # "none"
        /\ owner' = IF handle[o] \in 0 .. MaxFd THEN [owner EXCEPT ![handle[o]] = "free"] ELSE owner
        /\ mutex' = [mutex EXCEPT ![o] = {}]
        /\ misused' = (misused \/ Handles!InCall(o) \/ named[o] # {} \/ life[o] = "gone")
        /\ life' = [life EXCEPT ![o] = "gone"]
        /\ UNCHANGED <<api, handle, pc, on, entries, named>>
    BY <1>6, HandleConstants DEF Handles!PdClose, Handles!memory, Handles!ClosedFd
  <2>2. Types'
    BY <1>t, <2>1 DEF Handles!InCall
  <2>3. ASSUME ~misused' PROVE \A x \in Objects : Fd(x)'
    <3> SUFFICES ASSUME NEW x \in Objects PROVE Fd(x)'
      OBVIOUS
    <3>1. life[o] = "made" /\ handle[o] \in 0 .. MaxFd /\ owner[handle[o]] = o
      <4>1. life[o] = "made"
        BY <1>t, <2>1, <2>3, Zenon DEF Handles!InCall
      <4> QED
        BY <1>6, <1>t, <2>1, <4>1
    <3>2. CASE x = o
      BY <1>6, <1>t, <2>1, <3>1, <3>2, HandleConstants
    <3>3. CASE x # o
      BY <1>6, <1>t, <2>1, <3>1, <3>3, HandleConstants
    <3> QED
      BY <3>2, <3>3
  <2>4. \A x \in Objects \ {o} : life'[x] = life[x] /\ handle'[x] = handle[x]
    BY <1>t, <2>1
  <2>5. \A x \in Objects : mutex'[x] \subseteq mutex[x]
    BY <1>t, <2>1
  <2>6. ~misused' => Good'
    BY <1>6, <1>c, <2>1, <2>3, <2>4, <2>5, Zenon
  <2> QED
    BY <2>2, <2>6
<1>7. ASSUME Good, NEW f \in Handles!Fds, Handles!OpenOther(f) \/ Handles!CloseOther(f)
      PROVE  Types' /\ (~misused' => Good')
  <2>1. /\ owner[f] \in {"free", "other"} /\ f \in 0 .. MaxFd
        /\ \E w \in {"free", "other"} : owner' = [owner EXCEPT ![f] = w]
        /\ UNCHANGED <<api, life, handle, mutex, pc, on, entries, named, misused>>
    BY <1>7, HandleConstants
       DEF Handles!OpenOther, Handles!CloseOther, Handles!Lowest, Handles!memory,
           Handles!objects
  <2>2. Types'
    BY <1>t, <2>1
  <2>3. \A x \in Objects : Fd(x)'
    BY <1>7, <1>t, <2>1, HandleConstants
  <2>4. Good'
    BY <1>7, <2>1, <2>3
  <2> QED
    BY <2>2, <2>4
\* A call reaches the board of the object it is on.
<1>r. ASSUME Good, NEW t \in Threads, pc[t] # "idle"
      PROVE  /\ on[t] \in Objects /\ on[t] # "none"
             /\ Handles!Reached(on[t]) = on[t] /\ Handles!Succeeds(on[t])
  BY <1>r, <1>t, HandleConstants DEF Handles!Reached, Handles!Succeeds
\* A thread goes from one position of its call to another; only it can take the
\* lock, and it has it at these positions only.
<1> DEFINE Held(t, o, step) ==
             \A x \in Objects, u \in Threads :
                 u \in mutex'[x] => (u \in mutex[x] \/ (u = t /\ x = o))
                                    /\ (u = t => step \in {"barmode", "barmap", "allocmap"})
<1>s. ASSUME Good, NEW t \in Threads, NEW o \in Objects, on[t] = o,
             UNCHANGED <<api, life, handle, owner, misused>>,
             NEW step \in Handles!Positions,
             pc' = [pc EXCEPT ![t] = step],
             on' = IF step = "idle" THEN [on EXCEPT ![t] = "none"] ELSE on,
             step \in Handles!Making => pc[t] \in Handles!Making,
             mutex' \in [Objects -> SUBSET Threads],
             Held(t, o, step),
             entries' \in [Objects -> SUBSET {"kernel", "user"}],
             named' \in [Objects -> SUBSET {"kernel", "user"}],
             \A x \in Objects \ {o} : entries'[x] = entries[x] /\ named'[x] = named[x],
             Mem(o)'
      PROVE  Types' /\ Good'
  <2>1. \A u \in Threads : /\ pc'[u] = IF u = t THEN step ELSE pc[u]
                           /\ on'[u] = IF u = t /\ step = "idle" THEN "none" ELSE on[u]
    BY <1>s, <1>t
  <2>2. Types'
    BY <1>s, <1>t
  <2>3. \A u \in Threads : In(u)'
    BY <1>s, <1>t, <2>1, HandleConstants
  <2>4. \A x \in Objects : Fd(x)'
    BY <1>s
  <2>5. \A x \in Objects : Mem(x)'
    <3> SUFFICES ASSUME NEW x \in Objects \ {o} PROVE Mem(x)'
      BY <1>s
    <3>1. \A u \in Threads : on'[u] = x <=> on[u] = x /\ u # t
      BY <1>s, <2>1, HandleConstants
    <3>2. Way(x)' <=> Way(x)
      BY <1>s, <2>1, <3>1
    <3> QED
      BY <1>s, <2>1, <3>1, <3>2
  <2>6. Maker'
    <3> SUFFICES ASSUME NEW u \in Threads, NEW w \in Threads, on'[u] # "none", on'[u] = on'[w],
                        pc'[u] \in Handles!Making, pc'[w] \in Handles!Making
                 PROVE  u = w
      OBVIOUS
    <3>1. on[u] # "none" /\ on[u] = on[w]
      BY <1>s, <2>1, HandleConstants
    <3>2. pc[u] \in Handles!Making /\ pc[w] \in Handles!Making
      BY <1>s, <2>1
    <3> QED
      BY <1>s, <3>1, <3>2
  <2>7. Locked'
    <3> SUFFICES ASSUME NEW x \in Objects, NEW u \in Threads, u \in mutex'[x]
                 PROVE  on'[u] = x /\ pc'[u] \in {"barmode", "barmap", "allocmap"}
      OBVIOUS
    <3>1. on[u] = x
      BY <1>s
    <3>2. CASE u = t
      BY <1>s, <2>1, <3>1, <3>2
    <3>3. CASE u # t
      BY <1>s, <2>1, <3>1, <3>3
    <3> QED
      BY <3>2, <3>3
  <2> QED
    BY <2>2, <2>3, <2>4, <2>5, <2>6, <2>7
\* Nobody else is at an object's memory while a thread is.
<1>e. ASSUME Good, NEW t \in Threads, NEW o \in Objects, on[t] = o, pc[t] \in Handles!Making
      PROVE  /\ \A u \in Threads \ {t} : on[u] = o =>
                    pc[u] \notin {"alloc", "alloclock", "allocmap"}
             /\ Way(o) <=> pc[t] \in {"alloclock", "allocmap"}
  BY <1>e, HandleConstants DEF Handles!Making
<1>8. ASSUME Good, NEW t \in Threads, NEW o \in Objects, Handles!Calls(t, o)
      PROVE  Types' /\ (~misused' => Good')
  <2>1. PICK step \in {"ioctl", "bar", "alloc", "user", "freekernel", "freeuser"} :
          /\ Handles!Begin(t, o, step)
          /\ step \in {"alloc", "user", "freekernel", "freeuser"} =>
                \A u \in Threads : on[u] = o => pc[u] \notin Handles!Making
          /\ step = "alloc" => "kernel" \notin named[o]
    BY <1>8 DEF Handles!Calls, Handles!BeginMemory
  <2>2. /\ pc[t] = "idle"
        /\ pc' = [pc EXCEPT ![t] = step]
        /\ on' = [on EXCEPT ![t] = o]
        /\ misused' = (misused \/ life[o] = "gone")
        /\ UNCHANGED <<api, life, handle, owner, mutex, entries, named>>
    BY <2>1 DEF Handles!Begin, Handles!objects, Handles!memory
  <2>3. Handles!Usable(o)
    BY <2>1 DEF Handles!Begin
  <2>4. /\ \A u \in Threads : /\ pc'[u] = IF u = t THEN step ELSE pc[u]
                              /\ on'[u] = IF u = t THEN o ELSE on[u]
        /\ step \in Handles!Positions /\ on[t] = "none"
        /\ step \notin {"alloclock", "allocmap", "idle"}
    BY <1>8, <1>t, <2>1, <2>2 DEF Handles!Positions, Handles!Making
  <2>5. Types'
    BY <1>t, <2>2, <2>4
  <2>6. ASSUME ~misused' PROVE Good'
    <3>1. life[o] = "made" /\ handle[o] # -1
      <4>1. life[o] # "gone"
        BY <1>t, <2>2, <2>6, Zenon
      <4>2. CASE api[o] = "cpp"
        BY <2>3, <4>2, HandleConstants DEF Handles!Usable
      <4>3. CASE api[o] = "c"
        BY <1>8, <2>3, <4>1, <4>3, <1>t DEF Handles!Usable
      <4> QED
        BY <1>t, <4>2, <4>3
    <3>2. \A u \in Threads : In(u)'
      BY <1>8, <2>2, <2>4, <3>1, HandleConstants
    <3>3. \A x \in Objects : Fd(x)'
      BY <1>8, <2>2
    <3>4. \A x \in Objects : Mem(x)'
      <4> SUFFICES ASSUME NEW x \in Objects PROVE Mem(x)'
        OBVIOUS
      <4>1. Way(x)' <=> Way(x)
        BY <2>4, HandleConstants
      <4>2. \A u \in Threads : on'[u] = x /\ pc'[u] \in {"alloc", "alloclock", "allocmap"}
                               => "kernel" \notin named[x]
        BY <1>8, <2>1, <2>4
      <4> QED
        BY <1>8, <2>2, <4>1, <4>2
    <3>5. Maker'
      BY <1>8, <2>1, <2>4, HandleConstants DEF Handles!Making
    <3>6. Locked'
      BY <1>8, <2>2, <2>4, HandleConstants
    <3> QED
      BY <3>2, <3>3, <3>4, <3>5, <3>6
  <2> QED
    BY <2>5, <2>6
\* A step that leaves memory and locks as they are.
<1>9. ASSUME Good, NEW t \in Threads, NEW o \in Objects, on[t] = o,
             NEW step \in {"idle", "barlock", "barmap"}, Handles!Step(t, step),
             pc[t] \in {"ioctl", "bar", "barmode"},
             pc[t] # "barmode" => step \in {"idle", "barlock"},
             pc[t] = "barmode" => step = "barmap",
             UNCHANGED <<api, life, handle, owner, mutex, entries, named, misused>>
      PROVE  Types' /\ (~misused' => Good')
  <2>1. /\ pc' = [pc EXCEPT ![t] = step]
        /\ on' = IF step = "idle" THEN [on EXCEPT ![t] = "none"] ELSE on
    BY <1>9, HandleConstants DEF Handles!Step
  <2>2. step \in Handles!Positions /\ step \notin Handles!Making
    BY <1>9 DEF Handles!Positions, Handles!Making
  <2>3. Mem(o)'
    <3>1. \A u \in Threads : on'[u] = o => on[u] = o
      BY <1>9, <1>t, <2>1, HandleConstants
    <3>2. \A u \in Threads : pc'[u] \in {"alloc", "alloclock", "allocmap"} => pc'[u] = pc[u] /\ u # t
      BY <1>9, <1>t, <2>1
    <3>3. \A u \in Threads \ {t} : on'[u] = on[u] /\ pc'[u] = pc[u]
      BY <1>t, <2>1
    <3>4. Way(o)' <=> Way(o)
      BY <1>9, <3>1, <3>2, <3>3
    <3> QED
      BY <1>9, <3>1, <3>2, <3>4
  <2>4. Held(t, o, step)
    BY <1>9
  <2> HIDE DEF Held, Mem, Good, Types
  <2>5. mutex' \in [Objects -> SUBSET Threads] /\ entries' \in [Objects -> SUBSET {"kernel", "user"}]
        /\ named' \in [Objects -> SUBSET {"kernel", "user"}]
    BY <1>9, <1>t DEF Types
  <2> QED
    BY <1>9, <1>s, <2>1, <2>2, <2>3, <2>4, <2>5, Zenon
<1>10. ASSUME Good, NEW t \in Threads, Handles!Ioctl(t)
       PROVE  Types' /\ (~misused' => Good')
  BY <1>9, <1>10, <1>r DEF Handles!Ioctl, Handles!objects, Handles!memory
<1>11. ASSUME Good, NEW t \in Threads, Handles!MapBarInfo(t) \/ Handles!MapBarMode(t)
       PROVE  Types' /\ (~misused' => Good')
  BY <1>9, <1>11, <1>r DEF Handles!MapBarInfo, Handles!MapBarMode, Handles!objects,
     Handles!memory
<1>12. ASSUME Good, NEW t \in Threads,
              Handles!Lock(t, "barlock", "barmode") \/ Handles!Lock(t, "alloclock", "allocmap")
       PROVE  Types' /\ (~misused' => Good')
  <2>a. pc[t] \in {"barlock", "alloclock"}
    BY <1>12 DEF Handles!Lock
  <2>2. PICK o \in Objects : on[t] = o
    BY <1>12, <1>r, <2>a
  <2>p. PICK step \in {"barmode", "allocmap"} : step = IF pc[t] = "barlock" THEN "barmode" ELSE "allocmap"
    OBVIOUS
  <2>1. /\ pc[t] \in {"barlock", "alloclock"} /\ mutex[o] = {}
        /\ mutex' = [mutex EXCEPT ![o] = {t}]
        /\ Handles!Step(t, step)
        /\ UNCHANGED <<api, life, handle, owner, entries, named, misused>>
    BY <1>12, <2>2, <2>p DEF Handles!Lock, Handles!objects, Handles!memory
  <2>3. pc' = [pc EXCEPT ![t] = step] /\ on' = on
    BY <2>1 DEF Handles!Step
  <2>4. /\ step \in Handles!Positions
        /\ step \in Handles!Making => pc[t] \in Handles!Making
    BY <2>1, <2>p DEF Handles!Positions, Handles!Making
  <2>5. \A u \in Threads : pc'[u] = IF u = t THEN step ELSE pc[u]
    BY <1>t, <2>3
  <2>6. Mem(o)'
    BY <1>12, <2>1, <2>2, <2>3, <2>5, <2>p
  <2>7. /\ mutex' \in [Objects -> SUBSET Threads]
        /\ \A x \in Objects, u \in Threads :
            u \in mutex'[x] => u \in mutex[x] \/ (u = t /\ x = o)
    BY <1>12, <1>t, <2>1, <2>2
  <2>8. step \in {"barmode", "barmap", "allocmap"} /\ step # "idle"
    OBVIOUS
  <2>9. \A x \in Objects \ {o} : entries'[x] = entries[x] /\ named'[x] = named[x]
    BY <2>1
  <2>10. entries' \in [Objects -> SUBSET {"kernel", "user"}] /\ named' \in [Objects -> SUBSET {"kernel", "user"}]
    BY <1>t, <2>1
  <2>11. on' = IF step = "idle" THEN [on EXCEPT ![t] = "none"] ELSE on
    BY <2>3, <2>8
  <2>12. Held(t, o, step)
    BY <2>7, <2>8
  <2> HIDE DEF Held, Mem, Good, Types
  <2> QED
    BY <1>s, <1>12, <2>1, <2>2, <2>3, <2>4, <2>6, <2>7, <2>9, <2>10, <2>11, <2>12, Zenon
\* The last step of a call that holds the lock or none: what it does to memory
\* leaves the program's handles and the driver's entries alike.
<1>13. ASSUME Good, NEW t \in Threads, NEW o \in Objects, on[t] = o,
              pc[t] # "idle", Handles!Step(t, "idle"),
              UNCHANGED <<api, life, handle, owner, misused>>,
              mutex' = [mutex EXCEPT ![o] = mutex[o] \ {t}]
                \/ (mutex' = mutex /\ pc[t] \notin {"barmode", "barmap", "allocmap"}),
              entries' \in [Objects -> SUBSET {"kernel", "user"}],
              named' \in [Objects -> SUBSET {"kernel", "user"}],
              \A x \in Objects \ {o} : entries'[x] = entries[x] /\ named'[x] = named[x],
              Mem(o)'
       PROVE  Types' /\ (~misused' => Good')
  <2>1. pc' = [pc EXCEPT ![t] = "idle"] /\ on' = [on EXCEPT ![t] = "none"]
    BY <1>13, HandleConstants DEF Handles!Step
  <2>2. "idle" \in Handles!Positions /\ "idle" \notin Handles!Making
    BY DEF Handles!Positions, Handles!Making
  <2>3. mutex' \in [Objects -> SUBSET Threads]
    BY <1>13, <1>t
  <2>4. \A x \in Objects, u \in Threads :
            u \in mutex'[x] => u \in mutex[x] /\ u # t
    BY <1>13, <1>t
  <2>5. Held(t, o, "idle")
    BY <2>4
  <2> HIDE DEF Held, Mem, Good, Types
  <2> QED
    BY <1>s, <1>13, <2>1, <2>2, <2>3, <2>5, Zenon
\* Afterwards the thread is not at the object's memory any more.
<1>x. ASSUME Good, NEW t \in Threads, NEW o \in Objects, on[t] = o, pc[t] \in Handles!Making,
             Handles!Step(t, "idle"), entries'[o] = named'[o]
      PROVE  Mem(o)'
  BY <1>x, <1>t, HandleConstants, <1>e DEF Handles!Step
<1>14. ASSUME Good, NEW t \in Threads, Handles!MapBarMap(t)
       PROVE  Types' /\ (~misused' => Good')
  <2>a. pc[t] = "barmap"
    BY <1>14 DEF Handles!MapBarMap
  <2>2. PICK o \in Objects : on[t] = o
    BY <1>14, <1>r, <2>a
  <2>1. /\ pc[t] = "barmap" /\ mutex' = [mutex EXCEPT ![o] = mutex[o] \ {t}]
        /\ Handles!Step(t, "idle")
        /\ UNCHANGED <<api, life, handle, owner, entries, named, misused>>
    BY <1>14, <2>2 DEF Handles!MapBarMap, Handles!Unlocked, Handles!objects, Handles!memory
  <2>3. Mem(o)'
    <3>1. \A u \in Threads : u # t => on'[u] = on[u] /\ pc'[u] = pc[u]
      BY <1>t, <2>1, HandleConstants DEF Handles!Step
    <3>2. on'[t] = "none" /\ pc'[t] = "idle"
      BY <1>t, <2>1, HandleConstants DEF Handles!Step
    <3>3. Way(o)' <=> Way(o)
      BY <2>1, <2>2, <3>1, <3>2
    <3>4. \A u \in Threads : on'[u] = o /\ pc'[u] \in {"alloc", "alloclock", "allocmap"}
                             => "kernel" \notin named[o]
      BY <1>14, <2>2, <3>1, <3>2
    <3> QED
      BY <1>14, <2>1, <2>2, <3>3, <3>4
  <2>5. \A x \in Objects \ {o} : entries'[x] = entries[x] /\ named'[x] = named[x]
    BY <2>1
  <2>6. /\ entries' \in [Objects -> SUBSET {"kernel", "user"}]
        /\ named' \in [Objects -> SUBSET {"kernel", "user"}]
    BY <1>t, <2>1
  <2> HIDE DEF Mem, Good, Types
  <2> QED
    BY <1>13, <1>14, <2>1, <2>2, <2>3, <2>5, <2>6, Zenon
\* The first step of an allocation.
<1>y. ASSUME Good, NEW t \in Threads, NEW o \in Objects, on[t] = o, pc[t] = "alloc",
             NEW step \in Handles!Positions, step = "alloclock",
             pc' = [pc EXCEPT ![t] = step], on' = on,
             UNCHANGED <<api, life, handle, owner, mutex, named, misused>>,
             entries' = [entries EXCEPT ![o] = entries[o] \cup {"kernel"}],
             Mem(o)'
      PROVE  Types' /\ (~misused' => Good')
  <2>1. on' = IF step = "idle" THEN [on EXCEPT ![t] = "none"] ELSE on
    BY <1>y
  <2>2. step \in Handles!Making => pc[t] \in Handles!Making
    BY <1>y DEF Handles!Making
  <2>3. /\ entries' \in [Objects -> SUBSET {"kernel", "user"}]
        /\ named' \in [Objects -> SUBSET {"kernel", "user"}]
        /\ mutex' \in [Objects -> SUBSET Threads]
        /\ \A x \in Objects \ {o} : entries'[x] = entries[x] /\ named'[x] = named[x]
    BY <1>y, <1>t
  <2>4. Held(t, o, step)
    BY <1>y
  <2> HIDE DEF Held, Mem, Good, Types
  <2> QED
    BY <1>s, <1>y, <2>1, <2>2, <2>3, <2>4, Zenon
<1>15. ASSUME Good, NEW t \in Threads, Handles!AllocEntry(t)
       PROVE  Types' /\ (~misused' => Good')
  <2>a. pc[t] = "alloc"
    BY <1>15 DEF Handles!AllocEntry
  <2>2. PICK o \in Objects : on[t] = o /\ Handles!Reached(o) = o
    BY <1>15, <1>r, <2>a
  <2>1. /\ pc[t] = "alloc"
        /\ \/ Handles!Kept(o, {"kernel"}) /\ Handles!Step(t, "alloclock")
           \/ Handles!Step(t, "idle") /\ entries' = entries
        /\ UNCHANGED <<api, life, handle, owner, mutex, named, misused>>
    BY <1>15, <2>2 DEF Handles!AllocEntry, Handles!objects
  <2>3. pc[t] \in Handles!Making /\ "alloclock" \in Handles!Making /\ "alloclock" \in Handles!Positions
    BY <2>1 DEF Handles!Making, Handles!Positions
  <2>4. entries[o] = named[o] /\ "kernel" \notin named[o]
    <3>1. ~Way(o)
      BY <1>e, <1>15, <2>1, <2>2, <2>3
    <3>2. Mem(o)
      BY <1>15
    <3> QED
      BY <2>1, <2>2, <3>1, <3>2
  <2>5. ~ (t \in mutex[o]) /\ \A x \in Objects : t \notin mutex[x]
    BY <1>15, <2>1, <2>2
  <2>6. CASE Handles!Kept(o, {"kernel"}) /\ Handles!Step(t, "alloclock")
    <3>1. /\ entries' = [entries EXCEPT ![o] = entries[o] \cup {"kernel"}]
          /\ pc' = [pc EXCEPT ![t] = "alloclock"] /\ on' = on
      BY <2>6 DEF Handles!Kept, Handles!Step
    <3>2. Mem(o)'
      BY <2>1, <2>2, <2>4, <3>1, <1>t
    <3> HIDE DEF Mem, Good, Types
    <3> QED
      BY <1>y, <1>15, <2>1, <2>2, <2>3, <3>1, <3>2, Zenon
  <2>7. CASE Handles!Step(t, "idle") /\ entries' = entries
    <3>1. Mem(o)'
      <4>1. entries'[o] = named'[o]
        BY <2>1, <2>4, <2>7
      <4> HIDE DEF Mem, Good, Types
      <4> QED
        BY <1>x, <1>15, <2>2, <2>3, <2>7, <4>1
    <3>2. \A x \in Objects \ {o} : entries'[x] = entries[x] /\ named'[x] = named[x]
      BY <2>1, <2>7
    <3>3. /\ entries' \in [Objects -> SUBSET {"kernel", "user"}]
          /\ named' \in [Objects -> SUBSET {"kernel", "user"}]
      BY <1>t, <2>1, <2>7
    <3> HIDE DEF Mem, Good, Types
    <3> QED
      BY <1>13, <1>15, <2>1, <2>2, <2>7, <3>1, <3>2, <3>3
  <2> QED
    BY <2>1, <2>2, <2>6, <2>7
<1>16. ASSUME Good, NEW t \in Threads, Handles!AllocFails(t) \/ Handles!AllocMapped(t)
       PROVE  Types' /\ (~misused' => Good')
  <2>1. pc[t] = "allocmap"
    BY <1>16 DEF Handles!AllocFails, Handles!AllocMapped
  <2>2. PICK o \in Objects : on[t] = o /\ Handles!Reached(o) = o /\ Handles!Succeeds(o)
    BY <1>16, <1>r, <2>1
  <2>3. /\ mutex' = [mutex EXCEPT ![o] = mutex[o] \ {t}]
        /\ Handles!Step(t, "idle")
        /\ \/ entries' = [entries EXCEPT ![o] = entries[o] \ {"kernel"}] /\ named' = named
           \/ named' = [named EXCEPT ![o] = named[o] \cup {"kernel"}] /\ entries' = entries
        /\ UNCHANGED <<api, life, handle, owner, misused>>
    BY <1>16, <2>2
       DEF Handles!AllocFails, Handles!AllocMapped, Handles!Unlocked, Handles!Dropped,
           Handles!objects
  <2>4. pc[t] \in Handles!Making
    BY <2>1 DEF Handles!Making
  <2>5. entries[o] = named[o] \cup {"kernel"} /\ "kernel" \notin named[o]
    BY <1>16, <2>1, <2>2, <2>4, <1>e
  <2>6. entries'[o] = named'[o]
    <3>1. CASE entries' = [entries EXCEPT ![o] = entries[o] \ {"kernel"}] /\ named' = named
      BY <2>5, <3>1, <1>t
    <3>2. CASE named' = [named EXCEPT ![o] = named[o] \cup {"kernel"}] /\ entries' = entries
      BY <2>5, <3>2, <1>t
    <3> QED
      BY <2>3, <3>1, <3>2
  <2>7. Mem(o)'
    <3> HIDE DEF Mem, Good, Types
    <3> QED
      BY <1>x, <1>16, <2>2, <2>3, <2>4, <2>6
  <2>8. /\ entries' \in [Objects -> SUBSET {"kernel", "user"}]
        /\ named' \in [Objects -> SUBSET {"kernel", "user"}]
        /\ \A x \in Objects \ {o} : entries'[x] = entries[x] /\ named'[x] = named[x]
    BY <1>t, <2>2, <2>3
  <2> HIDE DEF Mem, Good, Types
  <2> QED
    BY <1>13, <1>16, <2>1, <2>2, <2>3, <2>7, <2>8, Zenon
<1>17. ASSUME Good, NEW t \in Threads,
              Handles!MapUser(t) \/ Handles!FreeKernel(t) \/ Handles!UnmapUser(t)
       PROVE  Types' /\ (~misused' => Good')
  <2>1. pc[t] \in {"user", "freekernel", "freeuser"}
    BY <1>17 DEF Handles!MapUser, Handles!FreeKernel, Handles!UnmapUser, Handles!Release
  <2>2. PICK o \in Objects : on[t] = o /\ Handles!Reached(o) = o /\ Handles!Succeeds(o)
    BY <1>17, <1>r, <2>1
  <2>3. /\ Handles!Step(t, "idle")
        /\ UNCHANGED <<api, life, handle, owner, mutex, misused>>
        /\ \/ UNCHANGED <<entries, named>>
           \/ /\ entries' = [entries EXCEPT ![o] = entries[o] \cup {"user"}]
              /\ named' = [named EXCEPT ![o] = named[o] \cup {"user"}]
           \/ \E m \in {"kernel", "user"} :
                /\ entries' = [entries EXCEPT ![o] = entries[o] \ {m}]
                /\ named' = [named EXCEPT ![o] = named[o] \ {m}]
    BY <1>17, <2>2
       DEF Handles!MapUser, Handles!FreeKernel, Handles!UnmapUser, Handles!Release,
           Handles!Kept, Handles!Dropped, Handles!objects, Handles!memory
  <2>4. pc[t] \in Handles!Making
    BY <2>1 DEF Handles!Making
  <2>5. entries[o] = named[o]
    <3>1. ~Way(o)
      BY <1>e, <1>17, <2>1, <2>2, <2>4
    <3>2. Mem(o)
      BY <1>17
    <3> QED
      BY <3>1, <3>2
  <2>6. entries'[o] = named'[o]
    <3>1. CASE UNCHANGED <<entries, named>>
      BY <2>5, <3>1
    <3>2. CASE /\ entries' = [entries EXCEPT ![o] = entries[o] \cup {"user"}]
               /\ named' = [named EXCEPT ![o] = named[o] \cup {"user"}]
      BY <1>t, <2>5, <3>2
    <3>3. ASSUME NEW m \in {"kernel", "user"},
                 entries' = [entries EXCEPT ![o] = entries[o] \ {m}],
                 named' = [named EXCEPT ![o] = named[o] \ {m}]
          PROVE  entries'[o] = named'[o]
      BY <1>t, <2>5, <3>3
    <3> QED
      BY <2>3, <3>1, <3>2, <3>3
  <2>7. Mem(o)'
    <3> HIDE DEF Mem, Good, Types
    <3> QED
      BY <1>x, <1>17, <2>2, <2>3, <2>4, <2>6
  <2>8. /\ entries' \in [Objects -> SUBSET {"kernel", "user"}]
        /\ named' \in [Objects -> SUBSET {"kernel", "user"}]
        /\ \A x \in Objects \ {o} : entries'[x] = entries[x] /\ named'[x] = named[x]
    BY <1>t, <2>2, <2>3
  <2> HIDE DEF Mem, Good, Types
  <2> QED
    BY <1>13, <1>17, <2>1, <2>2, <2>3, <2>7, <2>8
<1>18. ASSUME UNCHANGED Handles!vars PROVE Types' /\ (~misused' => Good')
  BY <1>18 DEF Handles!vars, Handles!objects, Handles!memory
<1>19. ASSUME Handles!Next PROVE Types' /\ (~misused' => Good')
  <2>1. Good
    BY <1>19 DEF Handles!Next
  <2> HIDE DEF Good, Types
  <2>2. ASSUME NEW o \in Objects,
               \/ Handles!Construct(o) \/ Handles!Destroy(o) \/ Handles!Open(o) \/ Handles!Close(o)
               \/ Handles!PdOpen(o) \/ Handles!PdClose(o)
               \/ \E t \in Threads : Handles!Calls(t, o)
        PROVE  Types' /\ (~misused' => Good')
    BY <1>1, <1>2, <1>3, <1>4, <1>5, <1>6, <1>8, <2>1, <2>2
  <2>3. ASSUME NEW t \in Threads, Handles!Steps(t) PROVE Types' /\ (~misused' => Good')
    BY <1>10, <1>11, <1>12, <1>14, <1>15, <1>16, <1>17, <2>1, <2>3
       DEF Handles!Steps, Handles!MapBar, Handles!AllocKernel
  <2>4. ASSUME NEW f \in Handles!Fds, Handles!OpenOther(f) \/ Handles!CloseOther(f)
        PROVE  Types' /\ (~misused' => Good')
    BY <1>7, <2>1, <2>4
  <2> QED
    BY <1>19, <2>2, <2>3, <2>4 DEF Handles!Next
<1> QED
  BY <1>18, <1>19

\* What the invariant says of descriptors, handles and the lock.
LEMMA HandlesAgree == Handles!IInv => Handles!HandlesExact /\ Handles!LockReturned
<1> SUFFICES ASSUME Handles!IInv PROVE Handles!HandlesExact /\ Handles!LockReturned
  OBVIOUS
<1>1. Handles!LockReturned
  BY DEF Handles!IInv, Handles!LockReturned
<1>2. Handles!HandlesExact
  <2> SUFFICES ASSUME ~v10, NEW o \in Objects
               PROVE  /\ \A f \in Handles!Fds :
                            v4[f] = o <=> v3[o] = f /\ (v2[o] = "made" \/ (f = 0 /\ v1[o] = "cpp"))
                      /\ ~Handles!InCall(o) => v8[o] = v9[o]
    BY DEF Handles!HandlesExact
  <2>1. Handles!Described(o) /\ Handles!Accounted(o)
    BY DEF Handles!IInv
  <2>2. ~Handles!InCall(o) => Handles!Coming(o) = {}
    BY DEF Handles!InCall, Handles!Coming
  <2> QED
    BY <2>1, <2>2 DEF Handles!Described, Handles!Accounted
<1> QED
  BY <1>1, <1>2

-----------------------------------------------------------------------------
\* ASCII bitstreams.

\* What the first lines of an ASCII bitstream make of the buffer: each line
\* stores its four bytes after those of the lines before.
Filling(lines) == [j \in 1 .. 4 * lines |->
                      Bitstream!Bytes(1 + ((j - 1) \div 4))[1 + ((j - 1) % 4)]]

Places == Nat \X Int

\* The bytes of each line are stored as they are in the line, one line after
\* the other.
LEMMA FillingByte ==
    ASSUME NEW lines \in Nat
    PROVE  /\ Filling(lines) \in Seq(Places) /\ Len(Filling(lines)) = 4 * lines
           /\ \A j \in 1 .. 4 * lines :
                 Filling(lines)[j] = <<1 + ((j - 1) \div 4), 3 - ((j - 1) % 4)>>
<1>1. \A j \in 1 .. 4 * lines :
         /\ (j - 1) \div 4 \in Nat /\ (j - 1) % 4 \in 0 .. 3
         /\ 4 - (1 + ((j - 1) % 4)) = 3 - ((j - 1) % 4)
         /\ 1 + ((j - 1) % 4) \in 1 .. 4
  OBVIOUS
<1>2. \A i \in Nat, k \in 1 .. 4 : Bitstream!Bytes(i)[k] = <<i, 4 - k>>
  BY DEF Bitstream!Bytes
<1>3. \A j \in 1 .. 4 * lines :
         Filling(lines)[j] = <<1 + ((j - 1) \div 4), 3 - ((j - 1) % 4)>>
  <2> TAKE j \in 1 .. 4 * lines
  <2> DEFINE q == (j - 1) \div 4
             r == (j - 1) % 4
  <2>1. Filling(lines)[j] = Bitstream!Bytes(1 + q)[1 + r]
    BY DEF Filling
  <2>2. /\ q \in Nat /\ r \in 0 .. 3 /\ 1 + q \in Nat /\ 1 + r \in 1 .. 4
        /\ 4 - (1 + r) = 3 - r
    BY <1>1
  <2> HIDE DEF q, r
  <2>3. Filling(lines)[j] = <<1 + q, 3 - r>>
    BY <1>2, <2>1, <2>2
  <2> QED
    BY <2>3 DEF q, r
<1>4. \A j \in 1 .. 4 * lines : Filling(lines)[j] \in Places
  <2> TAKE j \in 1 .. 4 * lines
  <2> DEFINE q == (j - 1) \div 4
             r == (j - 1) % 4
  <2>1. Filling(lines)[j] = <<1 + q, 3 - r>>
    BY <1>3
  <2>2. q \in Nat /\ r \in Int
    BY <1>1
  <2> HIDE DEF q, r
  <2>3. 1 + q \in Nat /\ 3 - r \in Int
    BY <2>2
  <2> QED
    BY <2>1, <2>3 DEF Places
<1>5. DOMAIN Filling(lines) = 1 .. 4 * lines /\ 4 * lines \in Nat
      /\ Filling(lines) = [j \in 1 .. 4 * lines |-> Filling(lines)[j]]
  BY DEF Filling
<1> HIDE DEF Filling
<1>6. Filling(lines) \in Seq(Places) /\ Len(Filling(lines)) = 4 * lines
  BY <1>4, <1>5
<1> QED
  BY <1>3, <1>6, Zenon

\* The next line stores its four bytes at the end.
LEMMA FillingGrows ==
    ASSUME NEW lines \in Nat
    PROVE  Filling(lines) \o Bitstream!Bytes(lines + 1) = Filling(lines + 1)
<1> DEFINE old == Filling(lines)
           four == Bitstream!Bytes(lines + 1)
           new == Filling(lines + 1)
<1>1. /\ old \in Seq(Places) /\ Len(old) = 4 * lines
      /\ \A j \in 1 .. 4 * lines : old[j] = <<1 + ((j - 1) \div 4), 3 - ((j - 1) % 4)>>
  BY FillingByte
<1>2. /\ new \in Seq(Places) /\ Len(new) = 4 * (lines + 1)
      /\ \A j \in 1 .. 4 * (lines + 1) : new[j] = <<1 + ((j - 1) \div 4), 3 - ((j - 1) % 4)>>
  <2>1. PICK more \in Nat : more = lines + 1
    OBVIOUS
  <2>2. /\ Filling(more) \in Seq(Places) /\ Len(Filling(more)) = 4 * more
        /\ \A j \in 1 .. 4 * more :
              Filling(more)[j] = <<1 + ((j - 1) \div 4), 3 - ((j - 1) % 4)>>
    BY FillingByte
  <2> QED
    BY <2>1, <2>2, Zenon
<1>3. /\ four \in Seq(Places) /\ Len(four) = 4
      /\ \A k \in 1 .. 4 : four[k] = <<lines + 1, 4 - k>>
  BY DEF Places, Bitstream!Bytes
<1> HIDE DEF old, four, new
<1>4. /\ old \o four \in Seq(Places) /\ Len(old \o four) = 4 * (lines + 1)
      /\ \A j \in 1 .. 4 * (lines + 1) :
            (old \o four)[j] = IF j <= 4 * lines THEN old[j] ELSE four[j - 4 * lines]
  <2>1. /\ old \o four \in Seq(Places) /\ Len(old \o four) = Len(old) + Len(four)
        /\ \A j \in 1 .. Len(old) + Len(four) :
              (old \o four)[j] = IF j <= Len(old) THEN old[j] ELSE four[j - Len(old)]
    BY <1>1, <1>3, ConcatProperties, Zenon
  <2>2. Len(old) = 4 * lines /\ Len(old) + Len(four) = 4 * (lines + 1)
    BY <1>1, <1>3
  <2> QED
    BY <2>1, <2>2
<1>5. ASSUME NEW j \in 1 .. 4 * (lines + 1)
      PROVE  (old \o four)[j] = new[j]
  <2>1. CASE j <= 4 * lines
    <3>1. (old \o four)[j] = old[j] /\ j \in 1 .. 4 * lines
      BY <1>4, <2>1
    <3> QED
      BY <1>1, <1>2, <3>1, Zenon
  <2>2. CASE ~(j <= 4 * lines)
    <3>1. (old \o four)[j] = four[j - 4 * lines] /\ j - 4 * lines \in 1 .. 4
      BY <1>4, <2>2, SMTT(20)
    <3>2. (j - 1) \div 4 = lines /\ (j - 1) % 4 = j - 1 - 4 * lines
      BY <2>2
    <3>3. 4 - (j - 4 * lines) = 3 - (j - 1 - 4 * lines) /\ 1 + lines = lines + 1
      OBVIOUS
    <3>4. four[j - 4 * lines] = <<lines + 1, 4 - (j - 4 * lines)>>
      BY <1>3, <3>1, Zenon
    <3>5. new[j] = <<1 + lines, 3 - (j - 1 - 4 * lines)>>
      BY <1>2, <3>2
    <3> QED
      BY <3>1, <3>3, <3>4, <3>5
  <2> QED
    BY <2>1, <2>2, Zenon
<1>6. PICK both : both = old \o four
  BY Zenon
<1>7. both \in Seq(Places) /\ new \in Seq(Places) /\ Len(both) = Len(new)
      /\ \A j \in 1 .. Len(both) : both[j] = new[j]
  BY <1>2, <1>4, <1>5, <1>6, Zenon
<1>8. both = new
  BY <1>7, SeqEqual
<1> QED
  BY <1>6, <1>8 DEF old, four, new

\* The file is about to be opened.
LEMMA BitstreamStart == Bitstream!Init => Bitstream!IInv
<1> SUFFICES ASSUME Bitstream!Init PROVE Bitstream!IInv
  OBVIOUS
<1>1. v1.lines \in 0 .. MaxLines
  BY DEF Bitstream!Init, Bitstream!Files
<1> QED
  BY <1>1, FileNumbers DEF Bitstream!Init, Bitstream!IInv, Bitstream!TypeOK

\* Each step of config() keeps what has been read so far.
LEMMA BitstreamStep == Bitstream!IInv /\ [Bitstream!Next]_Bitstream!vars => Bitstream!IInv'
<1> DEFINE file == v1
           pos == v2
           good == v3
           type == v4
           count == v5
           line == v6
           buffer == v7
           shown == v8
           pins == v9
           lastStatus == v10
<1> SUFFICES ASSUME Bitstream!IInv, [Bitstream!Next]_Bitstream!vars PROVE Bitstream!IInv'
  OBVIOUS
<1>0. /\ file \in Bitstream!Files /\ good \in BOOLEAN
      /\ pos \in {"none", "idle", "open", "binary", "rbt", "lines", "read", "wild", "thrown"}
      /\ type \in Bitstream!Kinds \cup {"UNKNOWN"} /\ count \in Nat
      /\ line \in 0 .. MaxLines
  BY DEF Bitstream!IInv, Bitstream!TypeOK
<1>a. /\ pos = "binary" => file.kind # "RBT"
      /\ pos \in {"rbt", "lines", "read"} => file.kind = "RBT"
      /\ pos \in {"open", "rbt"} => count = 0 /\ line = 0 /\ buffer = <<>>
      /\ pos = "read" => line = file.lines
      /\ pos = "wild" /\ file.kind = "RBT" => 32 * file.lines > file.bits
  BY DEF Bitstream!IInv
<1>b. pos \in {"lines", "read"} =>
         /\ count = file.bits \div 8 /\ line <= file.lines
         /\ Len(buffer) = 4 * line /\ Len(buffer) <= count
         /\ buffer = Filling(line)
  BY DEF Bitstream!IInv, Bitstream!ReadSoFar, Bitstream!SizeInBytes, Filling
<1>c. /\ file.bits \in Nat /\ file.lines \in 0 .. MaxLines
      /\ file.first = "title" <=> file.kind = "RBT"
  BY <1>0, FileNumbers, Zenon DEF Bitstream!Files
<1>d. file.kind \in Bitstream!Kinds /\ file.first \in Bitstream!FirstLines
  BY <1>0 DEF Bitstream!Files
<1>t. ASSUME file' = file, good' \in BOOLEAN,
             pos' \in {"none", "idle", "open", "binary", "rbt", "lines", "read", "wild", "thrown"},
             type' \in Bitstream!Kinds \cup {"UNKNOWN"}, count' \in Nat, line' \in 0 .. MaxLines
      PROVE  Bitstream!TypeOK'
  BY <1>0, <1>t DEF Bitstream!TypeOK
<1>1. CASE Bitstream!Construct
  BY <1>0, <1>1, <1>t DEF Bitstream!Construct, Bitstream!stream, Bitstream!result,
     Bitstream!IInv
<1>2. CASE Bitstream!Open
  BY <1>2, FileNumbers, <1>t DEF Bitstream!Open, Bitstream!IInv
<1>3. CASE Bitstream!Detect
  <2>1. /\ file' = file /\ pos = "open" /\ good' = (file.first # "long")
        /\ type' \in Bitstream!Detected
        /\ pos' = CASE type' = "RBT" -> "rbt"
                    [] type' = "UNKNOWN" -> "thrown"
                    [] OTHER -> "binary"
        /\ count' = count /\ line' = line /\ buffer' = buffer
    BY <1>3 DEF Bitstream!Detect
  <2>2. /\ file.first = "title" => type' = "RBT"
        /\ file.first # "title" => type' \in {"UNKNOWN", "BIN", "BIT"}
    BY <2>1, <1>d DEF Bitstream!Detected, Bitstream!FirstLines
  <2>3. type' \in {"RBT", "UNKNOWN", "BIN", "BIT"} /\ pos' \in {"rbt", "thrown", "binary"}
        /\ (pos' = "rbt" <=> type' = "RBT")
    BY <2>1, <2>2
  <2>4. Bitstream!TypeOK'
    BY <1>0, <1>t, <2>1, <2>3 DEF Bitstream!Kinds
  <2> QED
    BY <1>a, <1>c, <2>1, <2>2, <2>3, <2>4 DEF Bitstream!IInv
<1>4. CASE Bitstream!ReadBinary
  BY <1>0, <1>4, <1>a, <1>t DEF Bitstream!ReadBinary, Bitstream!stream, Bitstream!IInv
<1>5. CASE Bitstream!ReadHeader
  <2>1. /\ file' = file /\ good' = good /\ pos = "rbt" /\ pos' = "lines"
        /\ type' = type /\ count' = file.bits \div 8 /\ line' = line /\ buffer' = buffer
    BY <1>5 DEF Bitstream!ReadHeader, Bitstream!SizeInBytes, Bitstream!stream
  <2>2. count' \in Nat /\ line = 0 /\ buffer = <<>> /\ Len(buffer) = 0
    BY <1>a, <1>c, <2>1
  <2>3. Bitstream!TypeOK'
    BY <1>0, <1>t, <2>1, <2>2
  <2>4. Filling(0) = <<>>
    BY FillingByte
  <2>5. buffer' = Filling(line') /\ Len(buffer') = 4 * line' /\ line' <= file'.lines
        /\ Len(buffer') <= count'
    BY <1>c, <2>1, <2>2, <2>4
  <2> QED
    BY <1>a, <2>1, <2>3, <2>5
    DEF Bitstream!IInv, Bitstream!ReadSoFar, Bitstream!SizeInBytes, Filling
<1>6. CASE Bitstream!ReadLine
  <2>1. /\ file' = file /\ good' = good /\ pos = "lines" /\ line < file.lines
        /\ type' = type /\ count' = count /\ line' = line + 1
        /\ buffer' = buffer \o Bitstream!Bytes(line + 1)
        /\ pos' = IF Len(buffer') > count THEN "wild" ELSE "lines"
    BY <1>6 DEF Bitstream!ReadLine, Bitstream!stream
  <2>2. line \in Nat /\ line' \in 0 .. MaxLines /\ line' <= file.lines
    BY <1>0, <1>c, <2>1, FileNumbers
  <2>3. buffer' = Filling(line + 1)
    BY <1>b, <2>1, <2>2, FillingGrows, Zenon
  <2>4. Len(buffer') = 4 * line'
    <3>1. line + 1 \in Nat
      BY <2>2
    <3>2. Len(Filling(line + 1)) = 4 * (line + 1)
      BY <3>1, FillingByte, Zenon
    <3> QED
      BY <2>1, <2>3, <3>2
  <2>5. Bitstream!TypeOK'
    BY <1>0, <1>t, <2>1, <2>2
  <2>6. pos' = "wild" => 32 * file.lines > file.bits
    BY <1>0, <1>b, <1>c, <2>1, <2>2, <2>4
  <2>7. pos' # "wild" => Len(buffer') <= count'
    BY <1>0, <2>1, <2>2, <2>4
  <2>8. count = file.bits \div 8 /\ file.kind = "RBT"
    BY <1>a, <1>b, <2>1
  <2>9. pos' \in {"wild", "lines"}
    BY <2>1
  <2>10. Bitstream!ReadSoFar'
    BY <2>1, <2>2, <2>3, <2>4, <2>8, Zenon DEF Bitstream!ReadSoFar, Bitstream!SizeInBytes,
       Filling
  <2> QED
    BY <2>1, <2>5, <2>6, <2>7, <2>8, <2>9, <2>10 DEF Bitstream!IInv
<1>7. CASE Bitstream!EndOfFile
  BY <1>0, <1>7, <1>t, <1>b, <1>a, Zenon DEF Bitstream!EndOfFile, Bitstream!ReadSoFar,
     Bitstream!SizeInBytes, Filling, Bitstream!IInv
<1>8. CASE Bitstream!Show
  BY <1>0, <1>8, <1>t DEF Bitstream!Show, Bitstream!stream, Bitstream!IInv
<1>9. CASE UNCHANGED Bitstream!vars
  BY <1>0, <1>9, <1>t, <1>b, <1>a DEF Bitstream!vars, Bitstream!ReadSoFar,
     Bitstream!SizeInBytes, Filling, Bitstream!IInv
<1> QED
  BY <1>1, <1>2, <1>3, <1>4, <1>5, <1>6, <1>7, <1>8, <1>9 DEF Bitstream!Next

\* With every line read, a buffer of the size the header told is full.
LEMMA BitstreamRead == Bitstream!IInv => Bitstream!BitstreamExact
<1> SUFFICES ASSUME Bitstream!IInv PROVE Bitstream!BitstreamExact
  OBVIOUS
<1>1. v1.bits \in Nat /\ v1.lines \in Nat
  <2>1. v1 \in Bitstream!Files
    BY DEF Bitstream!IInv, Bitstream!TypeOK
  <2>2. v1.bits \in FileBits /\ v1.lines \in 0 .. MaxLines
    BY <2>1 DEF Bitstream!Files
  <2>3. v1.bits \in Nat
    BY <2>2, FileNumbers, Zenon
  <2>4. v1.lines \in Nat
    BY <2>2, FileNumbers
  <2> QED
    BY <2>3, <2>4
<1>2. ASSUME v2 = "read", 32 * v1.lines = v1.bits
      PROVE  4 * v6 = v5
  BY <1>1, <1>2 DEF Bitstream!IInv, Bitstream!ReadSoFar, Bitstream!SizeInBytes
<1>3. ASSUME v2 = "read", 32 * v1.lines = v1.bits
      PROVE  v7 = [j \in 1 .. v5 |-> Bitstream!Bytes(1 + ((j - 1) \div 4))[1 + ((j - 1) % 4)]]
  BY <1>2, <1>3 DEF Bitstream!IInv, Bitstream!ReadSoFar
<1> QED
  BY <1>3 DEF Bitstream!IInv, Bitstream!BitstreamExact

-----------------------------------------------------------------------------
\* The timer.

\* Quotients: a product is divided by its factor, and rounding down does not
\* lose what is there completely.
LEMMA Quotients ==
    ASSUME NEW a \in Nat, NEW b \in Nat \ {0}
    PROVE  /\ (b * a) \div b = a /\ (a * b) \div b = a
           /\ a \div b \in Nat /\ a % b \in 0 .. b - 1
           /\ a = (b * (a \div b)) + (a % b)
<1>1. /\ a \div b \in Nat /\ a % b \in 0 .. b - 1
      /\ a = (b * (a \div b)) + (a % b)
  OBVIOUS
<1>2. (b * a) \div b = a
  OBVIOUS
<1>3. b * a = a * b
  OBVIOUS
<1> QED
  BY <1>1, <1>2, <1>3

\* What reaches a multiple of b is that many times b at least.
LEMMA QuotientAtLeast ==
    ASSUME NEW x \in Nat, NEW a \in Nat, NEW b \in Nat \ {0}, x >= a * b
    PROVE  x \div b >= a
<1>1. PICK q \in Nat, r \in 0 .. b - 1 : q = x \div b /\ x = b * q + r
  BY Quotients
<1>2. ASSUME q < a PROVE FALSE
  <2>1. a - (q + 1) \in Nat
    BY <1>2
  <2>2. b * (a - (q + 1)) \in Nat
    BY <2>1
  <2>3. b * (a - (q + 1)) = a * b - b * q - b
    OBVIOUS
  <2>4. a * b \in Nat /\ b * q \in Nat
    OBVIOUS
  <2> QED
    BY <1>1, <2>2, <2>3, <2>4
<1> QED
  BY <1>1, <1>2

\* The difference of two times is what lies between them, wherever in a second
\* the first of them was.
LEMMA DiffTrue ==
    ASSUME NEW x \in Nat, NEW k \in Nat
    PROVE  Timer!AsMillis(Timer!Diff(Timer!TimeSpec(x), Timer!TimeSpec(x + k))) = k
<1>0. Second \in Nat \ {0}
  BY TimerNumbers DEF TimerAssumption
<1>1. PICK q \in Nat, r \in 0 .. Second - 1 :
         q = x \div Second /\ r = x % Second /\ x = Second * q + r
  BY <1>0, Quotients
<1>2. PICK q2 \in Nat, r2 \in 0 .. Second - 1 :
         /\ q2 = (x + k) \div Second /\ r2 = (x + k) % Second
         /\ x + k = Second * q2 + r2
  <2>1. PICK y \in Nat : y = x + k
    OBVIOUS
  <2>2. PICK q2 \in Nat, r2 \in 0 .. Second - 1 :
           q2 = y \div Second /\ r2 = y % Second /\ y = Second * q2 + r2
    BY <1>0, Quotients
  <2> QED
    BY <2>1, <2>2
<1>3. /\ Timer!TimeSpec(x) = [sec |-> q, nsec |-> r]
      /\ Timer!TimeSpec(x + k) = [sec |-> q2, nsec |-> r2]
  BY <1>1, <1>2 DEF Timer!TimeSpec
<1>4. /\ Second * q \in Nat /\ Second * q2 \in Nat
      /\ (q2 - q) * Second = Second * q2 - Second * q
      /\ (q2 - q - 1) * Second = Second * q2 - Second * q - Second
  BY <1>0
<1> DEFINE b == [sec |-> q, nsec |-> r]
           e == [sec |-> q2, nsec |-> r2]
<1>5. CASE r2 < r
  <2>1. Timer!Diff(b, e) = [sec |-> q2 - q - 1, nsec |-> (r2 + Second) - r]
    BY <1>0, <1>5 DEF Timer!Diff
  <2>2. Timer!AsMillis(Timer!Diff(b, e)) = (q2 - q - 1) * Second + ((r2 + Second) - r)
    BY <2>1 DEF Timer!AsMillis
  <2>3. (Second * q2 - Second * q - Second) + ((r2 + Second) - r) = k
    <3>1. PICK u \in Nat, u2 \in Nat : u = Second * q /\ u2 = Second * q2
      BY <1>4
    <3>2. x = u + r /\ x + k = u2 + r2
      BY <1>1, <1>2, <3>1, Zenon
    <3>3. (u2 - u - Second) + ((r2 + Second) - r) = k
      BY <1>0, <3>2
    <3> QED
      BY <3>1, <3>3
  <2> QED
    BY <1>3, <1>4, <2>2, <2>3
<1>6. CASE ~(r2 < r)
  <2>1. Timer!Diff(b, e) = [sec |-> q2 - q, nsec |-> r2 - r]
    BY <1>0, <1>6 DEF Timer!Diff
  <2>2. Timer!AsMillis(Timer!Diff(b, e)) = (q2 - q) * Second + (r2 - r)
    BY <2>1 DEF Timer!AsMillis
  <2>3. (Second * q2 - Second * q) + (r2 - r) = k
    <3>1. PICK u \in Nat, u2 \in Nat : u = Second * q /\ u2 = Second * q2
      BY <1>4
    <3>2. x = u + r /\ x + k = u2 + r2
      BY <1>1, <1>2, <3>1, Zenon
    <3>3. (u2 - u) + (r2 - r) = k
      BY <1>0, <3>2
    <3> QED
      BY <3>1, <3>3
  <2> QED
    BY <1>3, <1>4, <2>2, <2>3
<1> QED
  BY <1>5, <1>6

\* The timer has not been calibrated.
LEMMA TimerStart == Timer!Init => Timer!IInv
<1> SUFFICES ASSUME Timer!Init PROVE Timer!IInv
  OBVIOUS
<1>1. Rate * MaxTime \in Nat /\ Second \in Nat \ {0} /\ Loops \in Nat
  BY TimerNumbers DEF TimerAssumption
<1>2. /\ v1 = 0 /\ v2 \in Nat /\ v3 = 0 /\ v4 = FALSE /\ v5 = "idle" /\ v6 = 0 /\ v7 = 0
      /\ v9 = 0 /\ v10 = 0 /\ v11 = 0
  BY <1>1 DEF Timer!Init
<1>3. 0 \in 0 .. Rate * MaxTime /\ 0 \in 0 .. Loops
  BY <1>1
<1>4. Timer!TypeOK
  BY <1>2, <1>3, Zenon DEF Timer!TypeOK
<1>5. v9 \in 0 .. v1
  BY <1>2
<1> QED
  BY <1>2, <1>4, <1>5 DEF Timer!IInv, Timer!TimesTrue

\* What a calibration adds up, and what a wait has to reach.
LEMMA TimerStep == Timer!IInv /\ [Timer!Next]_Timer!vars => Timer!IInv'
<1> DEFINE tick == v1
           clock == v2
           ticksPerMs == v3
           calibrated == v4
           pos == v5
           loops == v6
           acc == v7
           begin == v8
           startTime == v9
           asked == v10
           waited == v11
           stepped == v12
<1> SUFFICES ASSUME Timer!IInv, [Timer!Next]_Timer!vars PROVE Timer!IInv'
  OBVIOUS
<1>0. /\ Second \in Nat \ {0} /\ Rate \in Nat \ {0} /\ Loops \in Nat \ {0}
      /\ TimerSleeps \subseteq Nat \ {0} /\ Delays \subseteq Nat /\ Rate * MaxTime \in Nat
  BY TimerNumbers DEF TimerAssumption
<1> DEFINE Types ==
      /\ tick \in 0 .. Rate * MaxTime /\ clock \in Nat
      /\ ticksPerMs \in Nat /\ calibrated \in BOOLEAN
      /\ pos \in {"idle", "sleeping", "waiting"}
      /\ loops \in 0 .. Loops /\ acc \in Nat
      /\ asked \in Nat /\ waited \in Nat
      /\ startTime \in 0 .. tick
<1>t. Types
  BY DEF Timer!IInv, Timer!TypeOK
<1>p. ASSUME Types' PROVE Timer!TypeOK' /\ (startTime \in 0 .. tick)'
  BY <1>p DEF Timer!TypeOK
<1>a. calibrated /\ pos # "sleeping" /\ ~stepped =>
         /\ ticksPerMs = Rate
         /\ pos = "idle" => waited >= asked
  BY DEF Timer!IInv, Timer!TimesTrue
<1>b. pos = "sleeping" =>
         /\ begin = Timer!TimeSpec(clock) /\ startTime = tick
         /\ loops < Loops /\ asked = 0 /\ waited = 0
         /\ ~stepped => acc = loops * Rate
  BY DEF Timer!IInv
<1>1. CASE Timer!Calibrate
  <2>1. /\ pos' = "sleeping" /\ loops' = 0 /\ acc' = 0 /\ begin' = Timer!TimeSpec(clock)
        /\ startTime' = tick /\ asked' = 0 /\ waited' = 0 /\ tick' = tick /\ clock' = clock
        /\ ticksPerMs' = ticksPerMs /\ calibrated' = calibrated
    BY <1>1 DEF Timer!Calibrate, Timer!learned
  <2>2. Types'
    BY <1>0, <1>t, <2>1
  <2>3. 0 = 0 * Rate /\ 0 < Loops /\ Timer!TimeSpec(clock) = Timer!TimeSpec(clock)'
    BY <1>0, <2>1 DEF Timer!TimeSpec
  <2> HIDE DEF Types
  <2> QED
    BY <1>p, <2>1, <2>2, <2>3 DEF Timer!IInv, Timer!TimesTrue
<1>2. CASE Timer!CalibrateLoop
  <2>1. PICK d \in TimerSleeps, s \in {0, 1} : Timer!Pass(d, s)
    BY <1>2 DEF Timer!CalibrateLoop
  <2> DEFINE e == Timer!AsMillis(Timer!Diff(begin, Timer!TimeSpec(clock')))
             more == (tick' - startTime) \div e
  <2>2. /\ pos = "sleeping" /\ acc' = acc + more /\ loops' = loops + 1
        /\ begin' = Timer!TimeSpec(clock') /\ startTime' = tick'
        /\ asked' = asked /\ waited' = waited
        /\ IF loops + 1 < Loops
           THEN pos' = "sleeping" /\ ticksPerMs' = ticksPerMs /\ calibrated' = calibrated
           ELSE /\ pos' = "idle"
                /\ ticksPerMs' = (acc + more) \div Loops
                /\ calibrated' = TRUE
    BY <1>2 DEF Timer!CalibrateLoop, Timer!learned
  <2>3. /\ tick' = tick + Rate * d /\ tick + Rate * d <= Rate * MaxTime
        /\ clock' = clock + d + s
        /\ stepped' = (stepped \/ s # 0)
    BY <2>1 DEF Timer!Pass
  <2>4. d \in Nat \ {0} /\ Rate * d \in Nat /\ d + s \in Nat \ {0}
    BY <1>0
  <2>5. e = d + s
    <3>1. PICK k \in Nat : k = d + s
      BY <2>4
    <3>2. clock' = clock + k /\ clock \in Nat
      BY <1>t, <2>3, <2>4, <3>1
    <3>3. Timer!AsMillis(Timer!Diff(Timer!TimeSpec(clock), Timer!TimeSpec(clock + k))) = k
      BY <3>2, DiffTrue
    <3> QED
      BY <1>b, <2>2, <3>1, <3>2, <3>3
  <2>6. tick' - startTime = Rate * d
    BY <1>b, <1>t, <2>2, <2>3, <2>4
  <2>7. more \in Nat
    <3>1. PICK x \in Nat, y \in Nat \ {0} : x = Rate * d /\ y = d + s
      BY <2>4
    <3>2. x \div y \in Nat
      BY Quotients
    <3> QED
      BY <2>5, <2>6, <3>1, <3>2
  <2>8. ~stepped' => more = Rate
    <3>1. (Rate * d) \div d = Rate
      BY <1>0, <2>4, Quotients
    <3>2. ~stepped' => s = 0
      BY <2>3, Zenon
    <3>3. d + 0 = d
      BY <2>4
    <3> QED
      BY <2>5, <2>6, <3>1, <3>2, <3>3
  <2> HIDE DEF more, e
  <2>9. ~stepped' => ~stepped /\ acc' = (loops + 1) * Rate
    <3>1. loops \in Nat /\ loops * Rate + Rate = (loops + 1) * Rate
      BY <1>0, <1>t
    <3> QED
      BY <1>b, <2>2, <2>3, <2>8, <3>1, Zenon
  <2>10. ~(loops + 1 < Loops) => loops + 1 = Loops
    BY <1>b, <1>t, <1>0, <2>2
  <2>11. (acc + more) \div Loops \in Nat
    <3>1. PICK x \in Nat : x = acc + more
      BY <1>t, <2>7
    <3> QED
      BY <1>0, <3>1, Quotients, Zenon
  <2>12. ~stepped' /\ ~(loops + 1 < Loops) => ticksPerMs' = Rate
    BY <1>0, <2>2, <2>9, <2>10, Quotients
  <2>13. Types'
    <3>1. tick' \in 0 .. Rate * MaxTime /\ clock' \in Nat /\ startTime' \in 0 .. tick'
      BY <1>0, <1>t, <2>2, <2>3, <2>4
    <3>2. acc' \in Nat /\ loops' \in 0 .. Loops /\ ticksPerMs' \in Nat
      BY <1>0, <1>t, <1>b, <2>2, <2>7, <2>11
    <3> QED
      BY <1>t, <2>2, <3>1, <3>2, Zenon
  <2>14. (pos = "sleeping")' =>
            /\ loops + 1 < Loops
            /\ begin' = Timer!TimeSpec(clock)'
    BY <2>2 DEF Timer!TimeSpec
  <2>15. Timer!TimesTrue'
    <3>1. pos' # "sleeping" => ~(loops + 1 < Loops)
      BY <2>2
    <3>2. waited' = 0 /\ asked' = 0
      BY <1>b, <2>2
    <3>3. waited' >= asked'
      BY <3>2
    <3> QED
      BY <2>12, <3>1, <3>3 DEF Timer!TimesTrue
  <2> HIDE DEF Types
  <2> QED
    BY <1>b, <1>p, <2>2, <2>9, <2>13, <2>14, <2>15 DEF Timer!IInv
<1>3. ASSUME NEW d \in Delays, Timer!Wait(d)
      PROVE  Timer!IInv'
  <2>1. /\ pos = "idle" /\ pos' = "waiting" /\ startTime' = tick /\ asked' = d /\ waited' = 0
        /\ tick' = tick /\ clock' = clock /\ loops' = loops /\ acc' = acc
        /\ ticksPerMs' = ticksPerMs /\ calibrated' = calibrated /\ stepped' = stepped
    BY <1>3 DEF Timer!Wait, Timer!learned, Timer!calibration
  <2>2. Types'
    BY <1>0, <1>t, <2>1
  <2> HIDE DEF Types
  <2> QED
    BY <1>a, <1>p, <2>1, <2>2 DEF Timer!IInv, Timer!TimesTrue
<1>4. CASE Timer!Spin
  <2>1. /\ pos = "waiting" /\ pos' = pos /\ startTime' = startTime /\ asked' = asked
        /\ waited' = waited /\ loops' = loops /\ acc' = acc
        /\ ticksPerMs' = ticksPerMs /\ calibrated' = calibrated
    BY <1>4 DEF Timer!Spin, Timer!learned, Timer!calibration, Timer!measure
  <2>2. /\ tick + Rate * 1 <= Rate * MaxTime /\ tick' = tick + Rate * 1
        /\ clock' = clock + 1 + 0
        /\ stepped' = (stepped \/ 0 # 0)
    BY <1>4 DEF Timer!Spin, Timer!Pass
  <2>3. Types'
    BY <1>0, <1>t, <2>1, <2>2
  <2> HIDE DEF Types
  <2> QED
    BY <1>a, <1>p, <2>1, <2>2, <2>3, Zenon DEF Timer!IInv, Timer!TimesTrue
<1>5. CASE Timer!WaitOver
  <2>1. /\ pos = "waiting" /\ pos' = "idle" /\ startTime' = startTime /\ asked' = asked
        /\ waited' = (tick - startTime) \div Rate
        /\ tick' = tick /\ clock' = clock /\ loops' = loops /\ acc' = acc
        /\ ticksPerMs' = ticksPerMs /\ calibrated' = calibrated /\ stepped' = stepped
        /\ ticksPerMs = 0 \/ tick - startTime >= asked * ticksPerMs
    BY <1>5 DEF Timer!WaitOver, Timer!learned, Timer!calibration, Timer!Over
  <2>2. PICK x \in Nat : x = tick - startTime
    BY <1>t
  <2>3. x \div Rate \in Nat
    BY <1>0, Quotients, Zenon
  <2>4. ticksPerMs = Rate => x \div Rate >= asked
    BY <1>0, <2>1, <2>2, <1>t, QuotientAtLeast
  <2>5. Types'
    BY <1>0, <1>t, <2>1, <2>2, <2>3
  <2> HIDE DEF Types
  <2> QED
    BY <1>a, <1>p, <2>1, <2>2, <2>4, <2>5 DEF Timer!IInv, Timer!TimesTrue
<1>6. CASE UNCHANGED Timer!vars
  <2>1. /\ pos' = pos /\ startTime' = startTime /\ asked' = asked /\ begin' = begin
        /\ waited' = waited
        /\ tick' = tick /\ clock' = clock /\ loops' = loops /\ acc' = acc
        /\ ticksPerMs' = ticksPerMs /\ calibrated' = calibrated /\ stepped' = stepped
    BY <1>6 DEF Timer!vars, Timer!learned, Timer!calibration, Timer!measure
  <2>2. Types' /\ Timer!TimeSpec(clock) = Timer!TimeSpec(clock)'
    BY <1>t, <2>1 DEF Timer!TimeSpec
  <2> HIDE DEF Types
  <2> QED
    BY <1>a, <1>b, <1>p, <2>1, <2>2 DEF Timer!IInv, Timer!TimesTrue
<1> QED
  BY <1>1, <1>2, <1>3, <1>4, <1>5, <1>6 DEF Timer!Next

-----------------------------------------------------------------------------
\* Boards and block transfers.

\* Sizes and addresses are numbers.
LEMMA BoardConstants ==
    /\ BoardWord \in Nat \ {0} /\ BoardSize.mem \in Nat /\ BoardSize.fifo \in Nat
    /\ BoardSize.mem = BoardSize["mem"] /\ BoardSize.mem <= BoardWord
    /\ \A w \in Board!Windows : BoardSize[w] \in Nat
    /\ BoardCounts \subseteq Nat
    /\ \A a \in Board!Addresses : a \in Nat
    /\ \A a : a \in Board!Offsets("mem") <=> a \in Nat /\ a < BoardSize.mem
  BY BoardNumbers DEF BoardAssumption, Board!Windows, Windows, Board!Addresses, Board!Offsets

\* Whatever a block asks for, it asks for bits, and for none of the registers.
LEMMA BlockTypes ==
    ASSUME NEW a \in Nat, NEW n \in Nat, NEW inc \in BOOLEAN, NEW v \in Board!Bits,
           \A w \in Board!Windows : v8[w] \in [Board!Offsets(w) -> Board!Bits]
    PROVE  LET t == Board!Asked(v, a, n, inc)
           IN  /\ DOMAIN t = Board!Windows
               /\ \A w \in Board!Windows : t[w] \in [Board!Offsets(w) -> Board!Bits]
               /\ t["regs"] = v8["regs"]
<1> DEFINE t == Board!Asked(v, a, n, inc)
           p(w, x) == Board!Place(w, x)
           ask(w, x) ==
             CASE w # "regs" /\ inc /\ p(w, x) >= a /\ p(w, x) < a + n -> (v + p(w, x) - a) % 2
               [] w # "regs" /\ ~inc /\ n > 0 /\ p(w, x) = a -> (v + n - 1) % 2
               [] OTHER -> v8[w][x]
<1>1. ASSUME NEW w \in Board!Windows, NEW x \in Board!Offsets(w)
      PROVE  ask(w, x) \in Board!Bits
  <2>1. v \in 0 .. 1 /\ Board!Bits = 0 .. 1 /\ v8[w][x] \in 0 .. 1
    BY DEF Board!Bits
  <2>2. p(w, x) \in Nat
    BY BoardConstants DEF Board!Offsets, Board!Place
  <2> HIDE DEF p
  <2>3. p(w, x) >= a => (v + p(w, x) - a) % 2 \in 0 .. 1
    BY <2>1, <2>2
  <2>4. n > 0 => (v + n - 1) % 2 \in 0 .. 1
    BY <2>1
  <2> QED
    BY <2>1, <2>3, <2>4
<1>2. \A x : ask("regs", x) = v8["regs"][x]
  OBVIOUS
<1>3. t = [w \in Board!Windows |-> [x \in Board!Offsets(w) |-> ask(w, x)]]
  BY DEF Board!Asked
<1>4. "regs" \in Board!Windows
  BY DEF Board!Windows
<1> HIDE DEF t, ask
<1>5. \A w \in Board!Windows : t[w] = [x \in Board!Offsets(w) |-> ask(w, x)]
  BY <1>3
<1>6. t["regs"] = v8["regs"]
  BY <1>2, <1>4, <1>5
<1>7. ASSUME NEW w \in Board!Windows
      PROVE  t[w] \in [Board!Offsets(w) -> Board!Bits]
  BY <1>1, <1>5
<1> QED
  BY <1>3, <1>6, <1>7 DEF t

\* A block within the memory asks for what the branch for it places there.
LEMMA BlockMeant ==
    ASSUME NEW a \in Nat, NEW n \in Nat, NEW inc \in BOOLEAN, NEW v \in Board!Bits,
           DOMAIN v8 = Board!Windows,
           \A w \in Board!Windows : v8[w] \in [Board!Offsets(w) -> Board!Bits],
           Board!Touched(Board!Base(a, n, inc), n, inc) \subseteq Board!Offsets("mem"),
           n = 0 \/ Board!InMemory(a, n, inc)
    PROVE  Board!Asked(v, a, n, inc) =
             [v8 EXCEPT !["mem"] = Board!Placed(v8["mem"], Board!Base(a, n, inc), n, inc, v)]
<1> DEFINE b == Board!Base(a, n, inc)
           p(w, x) == Board!Place(w, x)
           ask(w, x) ==
             CASE w # "regs" /\ inc /\ p(w, x) >= a /\ p(w, x) < a + n -> (v + p(w, x) - a) % 2
               [] w # "regs" /\ ~inc /\ n > 0 /\ p(w, x) = a -> (v + n - 1) % 2
               [] OTHER -> v8[w][x]
           put(x) == IF x \in Board!Touched(b, n, inc)
                     THEN Board!Item(v, IF inc THEN x - b ELSE n - 1)
                     ELSE v8["mem"][x]
<1>1. v \in 0 .. 1 /\ Board!Bits = 0 .. 1
  BY DEF Board!Bits
<1>2. ASSUME n = 0
      PROVE  /\ \A w \in Board!Windows : \A x \in Board!Offsets(w) : ask(w, x) = v8[w][x]
             /\ \A x \in Board!Offsets("mem") : put(x) = v8["mem"][x]
  <2>1. ASSUME NEW w \in Board!Windows, NEW x \in Board!Offsets(w)
        PROVE  ask(w, x) = v8[w][x]
    <3>1. p(w, x) \in Nat
      BY BoardConstants DEF Board!Offsets, Board!Place
    <3> HIDE DEF p
    <3> QED
      BY <1>2, <3>1
  <2>2. Board!Touched(b, n, inc) = {}
    BY <1>2 DEF Board!Touched
  <2> QED
    BY <2>1, <2>2
<1>3. ASSUME n > 0, Board!InMemory(a, n, inc)
      PROVE  /\ \A w \in Board!Windows : \A x \in Board!Offsets(w) :
                   w # "mem" => ask(w, x) = v8[w][x]
             /\ \A x \in Board!Offsets("mem") : put(x) = ask("mem", x)
  <2>1. b = a
    BY <1>3 DEF Board!Base
  <2>2. a < BoardSize.mem /\ (inc => a + n <= BoardSize.mem) /\ BoardSize.mem \in Nat
    <3>1. a < BoardSize.mem
      BY <1>3 DEF Board!InMemory, Board!Within
    <3>2. ASSUME inc PROVE a + n <= BoardSize.mem
      <4>1. a + n - 1 \in Board!Touched(a, n, inc)
        BY <1>3, <3>2 DEF Board!Touched
      <4>2. a + n - 1 < BoardSize.mem
        BY <2>1, <4>1, BoardConstants
      <4> QED
        BY <4>2, BoardConstants
    <3> QED
      BY <3>1, <3>2, BoardConstants
  <2>3. ASSUME NEW w \in Board!Windows, NEW x \in Board!Offsets(w), w # "mem"
        PROVE  ask(w, x) = v8[w][x]
    <3>1. CASE w = "regs"
      BY <3>1
    <3>2. CASE w = "fifo"
      <4>1. p(w, x) \in Nat /\ p(w, x) >= BoardSize.mem
        BY <3>2, BoardConstants DEF Board!Offsets, Board!Place
      <4> HIDE DEF p
      <4> QED
        BY <2>2, <4>1
    <3> QED
      BY <2>3, <3>1, <3>2 DEF Board!Windows
  <2>4. ASSUME NEW x \in Board!Offsets("mem")
        PROVE  put(x) = ask("mem", x)
    <3>1. x \in Nat /\ p("mem", x) = x
      BY BoardConstants DEF Board!Place
    <3> HIDE DEF p, b
    <3>2. CASE inc
      BY <1>1, <2>1, <3>1, <3>2 DEF Board!Touched, Board!Item
    <3>3. CASE ~inc
      BY <1>1, <1>3, <2>1, <3>1, <3>3 DEF Board!Touched, Board!Item
    <3> QED
      BY <3>2, <3>3
  <2> QED
    BY <2>3, <2>4
<1>4. Board!Asked(v, a, n, inc) =
         [w \in Board!Windows |-> [x \in Board!Offsets(w) |-> ask(w, x)]]
  BY DEF Board!Asked
<1>5. "mem" \in Board!Windows
  BY DEF Board!Windows
<1>6. Board!Placed(v8["mem"], b, n, inc, v) = [x \in Board!Offsets("mem") |-> put(x)]
  BY <1>5 DEF Board!Placed
<1> HIDE DEF ask, put, b
<1>7. /\ \A w \in Board!Windows : \A x \in Board!Offsets(w) : w # "mem" => ask(w, x) = v8[w][x]
      /\ \A x \in Board!Offsets("mem") : put(x) = ask("mem", x)
  BY <1>2, <1>3, <1>5
<1>8. \A w \in Board!Windows : w # "mem" => [x \in Board!Offsets(w) |-> ask(w, x)] = v8[w]
  BY <1>7
<1>9. [x \in Board!Offsets("mem") |-> put(x)] = [x \in Board!Offsets("mem") |-> ask("mem", x)]
  BY <1>7
<1> DEFINE u == Board!Placed(v8["mem"], b, n, inc, v)
<1>10. u = [x \in Board!Offsets("mem") |-> ask("mem", x)]
  BY <1>6, <1>9
<1> HIDE DEF u
<1>11. \A w \in Board!Windows :
          [x \in Board!Offsets(w) |-> ask(w, x)] = IF w = "mem" THEN u ELSE v8[w]
  BY <1>8, <1>10
<1>12. Board!Asked(v, a, n, inc) = [v8 EXCEPT !["mem"] = u]
  BY <1>4, <1>11
<1> QED
  BY <1>12 DEF u, b

\* A block within the memory is read from the words it names.
LEMMA BlockRead ==
    ASSUME NEW a \in Nat, NEW n \in Nat, NEW inc \in BOOLEAN,
           Board!Touched(Board!Base(a, n, inc), n, inc) \subseteq Board!Offsets("mem"),
           n = 0 \/ Board!InMemory(a, n, inc)
    PROVE  Board!Taken(v8["mem"], Board!Base(a, n, inc), n, inc) =
             [i \in 1 .. n |-> Board!WordAt(IF inc THEN a + i - 1 ELSE a)]
<1>1. ASSUME NEW i \in 1 .. n
      PROVE  v8["mem"][IF inc THEN Board!Base(a, n, inc) + i - 1 ELSE Board!Base(a, n, inc)]
               = Board!WordAt(IF inc THEN a + i - 1 ELSE a)
  <2>1. n > 0 /\ Board!InMemory(a, n, inc)
    OBVIOUS
  <2>2. Board!Base(a, n, inc) = a
    BY <2>1 DEF Board!Base
  <2> DEFINE q == IF inc THEN a + i - 1 ELSE a
  <2>3. q \in Board!Touched(a, n, inc)
    BY <2>1 DEF Board!Touched
  <2>4. q < BoardSize.mem
    BY <2>2, <2>3, BoardConstants
  <2>5. Board!WordAt(q) = v8["mem"][q]
    BY <2>4, BoardConstants DEF Board!WordAt
  <2> QED
    BY <2>2, <2>5
<1> QED
  BY <1>1, Zenon DEF Board!Taken

\* What is written to the memory has its type, wherever it begins.
LEMMA BlockPlaced ==
    ASSUME NEW win \in [Board!Offsets("mem") -> Board!Bits],
           NEW b \in Nat, NEW n \in Nat, NEW inc \in BOOLEAN, NEW v \in Board!Bits
    PROVE  Board!Placed(win, b, n, inc, v) \in [Board!Offsets("mem") -> Board!Bits]
<1>1. ASSUME NEW x \in Board!Touched(b, n, inc)
      PROVE  Board!Item(v, IF inc THEN x - b ELSE n - 1) \in Board!Bits
  BY DEF Board!Touched, Board!Item, Board!Bits
<1> QED
  BY <1>1 DEF Board!Placed

\* What is read from the words of a block is bits.
LEMMA BlockTaken ==
    ASSUME NEW win \in [Board!Offsets("mem") -> Board!Bits],
           NEW b \in Nat, NEW n \in Nat, NEW inc \in BOOLEAN,
           Board!Touched(b, n, inc) \subseteq Board!Offsets("mem")
    PROVE  Board!Taken(win, b, n, inc) \in Seq(Board!Bits)
<1>1. ASSUME NEW i \in 1 .. n
      PROVE  win[IF inc THEN b + i - 1 ELSE b] \in Board!Bits
  BY DEF Board!Touched
<1> QED
  BY <1>1 DEF Board!Taken

\* A block that ends before the last word of the memory touches nothing else.
LEMMA BlockWithin ==
    ASSUME NEW a \in Board!Offsets("mem"), NEW n \in Nat, NEW inc \in BOOLEAN,
           (IF inc THEN a + n ELSE a) < BoardSize.mem
    PROVE  Board!Touched(Board!Base(a, n, inc), n, inc) \subseteq Board!Offsets("mem")
<1>1. /\ a \in Nat /\ a < BoardSize.mem /\ BoardSize.mem \in Nat /\ BoardSize.mem <= BoardWord
      /\ BoardWord \in Nat \ {0}
  BY BoardConstants
<1>2. inc => (a + n) % BoardWord = a + n
  <2> SUFFICES ASSUME inc PROVE (a + n) % BoardWord = a + n
    OBVIOUS
  <2>1. PICK e \in Nat : e = a + n
    BY <1>1
  <2>2. e < BoardWord
    BY <1>1, <2>1
  <2>3. e % BoardWord = e
    BY <1>1, <2>2
  <2> QED
    BY <2>1, <2>3
<1>3. Board!InMemory(a, n, inc)
  BY <1>1, <1>2 DEF Board!InMemory, Board!Within, Board!End
<1>4. Board!Base(a, n, inc) = a
  BY <1>3 DEF Board!Base
<1>5. \A x \in Board!Touched(a, n, inc) : x \in Nat /\ x < BoardSize.mem
  BY <1>1 DEF Board!Touched
<1> QED
  BY <1>4, <1>5, BoardConstants

\* There is no board.
LEMMA BoardStart == Board!Init => Board!IInv
<1> SUFFICES ASSUME Board!Init PROVE Board!IInv
  OBVIOUS
<1>1. /\ v1 = "none" /\ v2 = "none" /\ v3 = FALSE /\ v4 = {} /\ v5 = FALSE /\ v6 = FALSE
      /\ v7 = [w \in Board!Windows |-> [a \in Board!Offsets(w) |-> 0]]
      /\ v8 = v7 /\ v9 = <<>> /\ v10 = <<>> /\ v12 = FALSE
  BY DEF Board!Init, Board!None
<1>2. ASSUME NEW w \in Board!Windows
      PROVE  v7[w] \in [Board!Offsets(w) -> Board!Bits] /\ v8[w] \in [Board!Offsets(w) -> Board!Bits]
  BY <1>1 DEF Board!Bits
<1>3. Board!TypeOK
  <2>1. /\ v1 \in {"ABB", "ML605", "MPRACE2"} \cup {"none"}
        /\ v2 \in {"none", "alive", "failed", "dead", "crashed"}
        /\ v3 \in BOOLEAN /\ v4 \subseteq 0 .. 3 /\ v5 \in BOOLEAN /\ v6 \in BOOLEAN
    BY <1>1, Zenon
  <2>2. v9 \in Seq(Board!Bits)
    BY <1>1
  <2>3. v12 \in BOOLEAN
    BY <1>1, Zenon
  <2> QED
    BY <1>2, <2>1, <2>2, <2>3 DEF Board!TypeOK
<1> QED
  BY <1>1, <1>3 DEF Board!IInv, Board!WordsLand, Board!BlocksLand, Board!Released

\* Calls on the words and blocks of a board that is there, its construction
\* and its end.
LEMMA BoardStep == Board!IInv /\ [Board!Next]_Board!vars => Board!IInv'
<1> DEFINE kind == v1
           life == v2
           fd == v3
           bars == v4
           log == v5
           lost == v6
           store == v7
           want == v8
           got == v9
           wanted == v10
           outcome == v11
           misled == v12
           Kinds == {"ABB", "ML605", "MPRACE2"}
<1> SUFFICES ASSUME Board!IInv, [Board!Next]_Board!vars PROVE Board!IInv'
  OBVIOUS
<1> DEFINE Object ==
      /\ kind \in Kinds \cup {"none"}
      /\ life \in {"none", "alive", "failed", "dead", "crashed"}
      /\ fd \in BOOLEAN /\ bars \subseteq 0 .. 3
      /\ log \in BOOLEAN /\ lost \in BOOLEAN
      /\ life = "dead" => ~fd /\ bars = {} /\ ~log
      /\ life = "alive" => bars \subseteq Board!BarsOf(kind)
      /\ life = "none" => bars = {} /\ ~fd
           Data ==
      /\ \A w \in Board!Windows : store[w] \in [Board!Offsets(w) -> Board!Bits]
      /\ \A w \in Board!Windows : want[w] \in [Board!Offsets(w) -> Board!Bits]
      /\ DOMAIN store = Board!Windows /\ DOMAIN want = Board!Windows
      /\ got \in Seq(Board!Bits) /\ misled \in BOOLEAN
      /\ ~misled => store = want /\ got = wanted
      /\ store["regs"] = want["regs"]
           InWindow ==
      life = "crashed" =>
          ~ \E a \in Board!Offsets("mem"), n \in BoardCounts, inc \in BOOLEAN :
                outcome = <<a, n, inc>> /\ (IF inc THEN a + n ELSE a) < BoardSize.mem
<1>t. Object /\ Data /\ InWindow
  BY DEF Board!IInv, Board!TypeOK, Board!WordsLand, Board!BlocksLand, Board!Released
<1>p. ASSUME Object', Data', InWindow' PROVE Board!IInv'
  BY <1>p DEF Board!IInv, Board!TypeOK, Board!WordsLand, Board!BlocksLand, Board!Released
<1>s. ASSUME UNCHANGED Board!data PROVE Data'
  BY <1>t, <1>s DEF Board!data
<1>o. ASSUME UNCHANGED <<Board!object, Board!loggers>> PROVE Object'
  BY <1>t, <1>o DEF Board!object, Board!loggers
\* A call that leaves the object alone leaves it outside no window.
<1>c. ASSUME life = "alive", UNCHANGED <<Board!object, Board!loggers>> PROVE InWindow'
  BY <1>c DEF Board!object
<1>e. \A e : life = "alive" /\ Board!Throws(e) => Board!IInv'
  <2> TAKE e
  <2> SUFFICES ASSUME life = "alive", Board!Throws(e) PROVE Board!IInv'
    OBVIOUS
  <2>1. /\ got' = <<>> /\ wanted' = <<>> /\ store' = store /\ want' = want /\ misled' = misled
        /\ UNCHANGED <<Board!object, Board!loggers>>
    BY DEF Board!Throws, Board!Returns, Board!None
  <2>2. Data'
    BY <1>t, <2>1
  <2> HIDE DEF Data, Object, InWindow
  <2> QED
    BY <1>c, <1>o, <1>p, <2>1, <2>2
<1>w. ASSUME NEW s, NEW t, life = "alive", Board!Written(s, t),
             DOMAIN s = Board!Windows, DOMAIN t = Board!Windows,
             \A w \in Board!Windows : s[w] \in [Board!Offsets(w) -> Board!Bits],
             \A w \in Board!Windows : t[w] \in [Board!Offsets(w) -> Board!Bits],
             s["regs"] = t["regs"], misled' \in BOOLEAN, ~misled' => s = t
      PROVE  Board!IInv'
  <2>1. /\ got' = <<>> /\ wanted' = <<>> /\ store' = s /\ want' = t
        /\ UNCHANGED <<Board!object, Board!loggers>>
    BY <1>w DEF Board!Written, Board!Returns, Board!None
  <2>2. Data'
    BY <1>w, <2>1
  <2> HIDE DEF Data, Object, InWindow
  <2> QED
    BY <1>c, <1>o, <1>p, <1>w, <2>1, <2>2
<1>r. ASSUME NEW s \in Seq(Board!Bits), NEW t, life = "alive", Board!Answer(s, t),
             misled' \in BOOLEAN, ~misled' => ~misled /\ s = t
      PROVE  Board!IInv'
  <2>1. /\ got' = s /\ wanted' = t /\ store' = store /\ want' = want
        /\ UNCHANGED <<Board!object, Board!loggers>>
    BY <1>r DEF Board!Answer, Board!Returns
  <2>2. Data'
    BY <1>r, <1>t, <2>1
  <2> HIDE DEF Data, Object, InWindow
  <2> QED
    BY <1>c, <1>o, <1>p, <1>r, <2>1, <2>2
<1>1. ASSUME NEW k \in Kinds, NEW order, NEW n \in Nat, n = Len(order),
             Board!Construct(k, order),
             \A i \in 1 .. n : order[i] \in Board!BarsOf(k)
      PROVE  Board!IInv'
  <2>1. /\ kind' = k /\ life' \in {"alive", "failed"} /\ fd' \in BOOLEAN
        /\ UNCHANGED Board!loggers /\ UNCHANGED Board!data
    BY <1>1, Zenon DEF Board!Construct
  <2>2. \A m \in 0 .. n : Board!MmapAreas(order, m) => bars' \subseteq Board!BarsOf(k)
    BY <1>1 DEF Board!MmapAreas
  <2>3. bars' \subseteq Board!BarsOf(k)
    BY <1>1, <2>2 DEF Board!Construct
  <2>4. Board!BarsOf(k) \subseteq 0 .. 3
    BY DEF Board!BarsOf
  <2>5. Object'
    BY <1>t, <2>1, <2>3, <2>4 DEF Board!loggers
  <2>6. InWindow'
    BY <2>1
  <2> HIDE DEF Data, Object, InWindow
  <2> QED
    BY <1>p, <1>s, <2>1, <2>5, <2>6
<1>2. CASE Board!AbbConstruct \/ Board!Ml605Construct
  <2>1. \A i \in 1 .. 3 : <<1, 0, 2>>[i] \in 0 .. 2
    OBVIOUS
  <2>2. \E k \in {"ABB", "ML605"} : Board!Construct(k, <<1, 0, 2>>)
    BY <1>2 DEF Board!AbbConstruct, Board!Ml605Construct
  <2>3. \A k \in {"ABB", "ML605"} : Board!BarsOf(k) = 0 .. 2
    BY DEF Board!BarsOf
  <2>4. 3 = Len(<<1, 0, 2>>)
    OBVIOUS
  <2> QED
    BY <1>1, <2>1, <2>2, <2>3, <2>4, Zenon
<1>3. CASE Board!Mprace2Construct
  <2>1. \A i \in 1 .. 4 : <<1, 0, 3, 2>>[i] \in 0 .. 3
    OBVIOUS
  <2>2. Board!Construct("MPRACE2", <<1, 0, 3, 2>>)
    BY <1>3 DEF Board!Mprace2Construct
  <2>3. Board!BarsOf("MPRACE2") = 0 .. 3
    BY DEF Board!BarsOf
  <2>4. 4 = Len(<<1, 0, 3, 2>>)
    OBVIOUS
  <2> QED
    BY <1>1, <2>1, <2>2, <2>3, <2>4, Zenon
<1>4. ASSUME NEW k \in Kinds, NEW areas, Board!Destroy(k, areas), Board!BarsOf(k) \subseteq areas
      PROVE  Board!IInv'
  <2>1. /\ life = "alive" /\ kind = k /\ kind' = kind /\ life' = "dead" /\ fd' = FALSE
        /\ bars' = bars \ areas /\ log' = FALSE /\ lost' = lost /\ UNCHANGED Board!data
    BY <1>4 DEF Board!Destroy, Board!Alive, Board!UnmapAreas
  <2>2. bars' = {}
    BY <1>4, <1>t, <2>1, Zenon
  <2>3. Object'
    BY <1>t, <2>1, <2>2, Zenon
  <2>4. InWindow'
    BY <2>1
  <2> HIDE DEF Data, Object, InWindow
  <2> QED
    BY <1>p, <1>s, <2>1, <2>3, <2>4
<1>5. CASE Board!AbbDestroy \/ Board!Ml605Destroy \/ Board!Mprace2Destroy
  BY <1>4, <1>5 DEF Board!AbbDestroy, Board!Ml605Destroy, Board!Mprace2Destroy,
     Board!BarsOf
<1>6. CASE Board!EnableLog \/ Board!DisableLog
  <2>1. /\ life = "alive" /\ UNCHANGED Board!object /\ UNCHANGED Board!data
        /\ log' \in BOOLEAN /\ lost' \in BOOLEAN
    BY <1>6, <1>t, Zenon DEF Board!EnableLog, Board!DisableLog
  <2>2. Object'
    BY <1>t, <2>1 DEF Board!object
  <2>3. InWindow'
    BY <2>1 DEF Board!object
  <2> HIDE DEF Data, Object, InWindow
  <2> QED
    BY <1>p, <1>s, <2>1, <2>2, <2>3
<1>7. CASE Board!Unsupported \/ Board!AbbWaitForInterrupt \/ Board!Ml605WaitForInterrupt
  BY <1>7, <1>e DEF Board!Unsupported, Board!AbbWaitForInterrupt,
     Board!Ml605WaitForInterrupt, Board!WaitForInterrupt, Board!Alive
<1>8. ASSUME NEW w \in Board!Windows, NEW a \in Board!Addresses, NEW v \in Board!Bits,
             life = "alive", Board!PutWord(w, a, v)
      PROVE  Board!IInv'
  <2>1. CASE ~(a < BoardSize[w])
    BY <1>8, <1>e, <2>1 DEF Board!PutWord
  <2>2. CASE a < BoardSize[w]
    <3> DEFINE s == [store EXCEPT ![w][a] = v]
               t == [want EXCEPT ![w][a] = v]
    <3>1. Board!Written(s, t) /\ misled' = misled
      BY <1>8, <2>2 DEF Board!PutWord
    <3>2. DOMAIN s = Board!Windows /\ DOMAIN t = Board!Windows
      BY <1>t
    <3>3. a \in Board!Offsets(w)
      BY <2>2, BoardConstants DEF Board!Offsets
    <3>4. \A x \in Board!Windows : s[x] \in [Board!Offsets(x) -> Board!Bits]
      BY <1>t, <3>3
    <3>5. \A x \in Board!Windows : t[x] \in [Board!Offsets(x) -> Board!Bits]
      BY <1>t, <3>3
    <3>6. s["regs"] = t["regs"]
      BY <1>t DEF Board!Windows
    <3>7. misled' \in BOOLEAN /\ (~misled' => s = t)
      BY <1>t, <3>1
    <3> HIDE DEF s, t
    <3> QED
      BY <1>8, <1>w, <3>1, <3>2, <3>4, <3>5, <3>6, <3>7
  <2> QED
    BY <2>1, <2>2
<1>9. ASSUME NEW w \in Board!Windows, NEW a \in Board!Addresses,
             life = "alive", Board!GetWord(w, a)
      PROVE  Board!IInv'
  <2>1. CASE ~(a < BoardSize[w])
    BY <1>9, <1>e, <2>1 DEF Board!GetWord
  <2>2. CASE a < BoardSize[w]
    <3>1. Board!Answer(<<store[w][a]>>, <<want[w][a]>>) /\ misled' = misled
      BY <1>9, <2>2 DEF Board!GetWord
    <3>2. a \in Board!Offsets(w)
      BY <2>2, BoardConstants DEF Board!Offsets
    <3>3. store[w][a] \in Board!Bits
      BY <1>t, <3>2
    <3>4. <<store[w][a]>> \in Seq(Board!Bits)
      BY <3>3
    <3>5. misled' \in BOOLEAN /\ (~misled' => ~misled /\ <<store[w][a]>> = <<want[w][a]>>)
      BY <1>t, <3>1
    <3> QED
      BY <1>9, <1>r, <3>1, <3>4, <3>5, Zenon
  <2> QED
    BY <2>1, <2>2
<1>10. CASE Board!Words
  <2>1. "mem" \in Board!Windows /\ "fifo" \in Board!Windows /\ "regs" \in Board!Windows
    BY DEF Board!Windows
  <2>2. PICK a \in Board!Addresses :
          \/ Board!AbbGetReg(a) \/ Board!AbbRead(a) \/ Board!AbbReadFIFO(a)
          \/ Board!Ml605GetReg(a) \/ Board!Ml605Read(a) \/ Board!Ml605ReadFIFO(a)
          \/ \E v \in Board!Bits :
                \/ Board!AbbSetReg(a, v) \/ Board!AbbWrite(a, v) \/ Board!AbbWriteFIFO(a, v)
                \/ Board!Ml605SetReg(a, v) \/ Board!Ml605Write(a, v)
                \/ Board!Ml605WriteFIFO(a, v)
    BY <1>10 DEF Board!Words
  <2>3. life = "alive" /\ \/ \E w \in Board!Windows : Board!GetWord(w, a)
                          \/ \E w \in Board!Windows, v \in Board!Bits : Board!PutWord(w, a, v)
    BY <2>1, <2>2 DEF Board!Alive, Board!AbbGetReg, Board!AbbRead, Board!AbbReadFIFO,
         Board!Ml605GetReg, Board!Ml605Read, Board!Ml605ReadFIFO, Board!AbbSetReg, Board!AbbWrite,
         Board!AbbWriteFIFO, Board!Ml605SetReg, Board!Ml605Write, Board!Ml605WriteFIFO
  <2> QED
    BY <1>8, <1>9, <2>3
\* A block that leaves the window ends the behaviour.
<1>11. ASSUME NEW a \in Board!Addresses, NEW n \in BoardCounts, NEW inc \in BOOLEAN,
              life = "alive", Board!Wild, outcome' = <<a, n, inc>>,
              ~(Board!Touched(Board!Base(a, n, inc), n, inc) \subseteq Board!Offsets("mem"))
       PROVE  Board!IInv'
  <2>1. /\ life' = "crashed" /\ kind' = kind /\ fd' = fd /\ bars' = bars
        /\ log' = log /\ lost' = lost /\ UNCHANGED Board!data
    BY <1>11 DEF Board!Wild, Board!loggers
  <2>2. Object'
    BY <1>t, <2>1
  <2>3. InWindow'
    <3> SUFFICES ASSUME NEW a2 \in Board!Offsets("mem"), NEW n2 \in BoardCounts,
                        NEW inc2 \in BOOLEAN, <<a, n, inc>> = <<a2, n2, inc2>>,
                        (IF inc2 THEN a2 + n2 ELSE a2) < BoardSize.mem
                 PROVE  FALSE
      BY <1>11
    <3>1. a2 = a /\ n2 = n /\ inc2 = inc /\ n \in Nat
      BY BoardConstants
    <3> QED
      BY <1>11, <3>1, BlockWithin
  <2> HIDE DEF Data, Object, InWindow
  <2> QED
    BY <1>p, <1>s, <2>1, <2>2, <2>3
<1>12. ASSUME NEW a \in Board!Addresses, NEW n \in BoardCounts, NEW inc \in BOOLEAN
       PROVE  /\ n \in Nat /\ a \in Nat /\ Board!Base(a, n, inc) \in Nat
              /\ store.mem = store["mem"] /\ store.mem \in [Board!Offsets("mem") -> Board!Bits]
  BY BoardConstants, <1>t DEF Board!Windows, Board!Base
<1>m. ASSUME NEW a \in Board!Addresses, NEW n \in BoardCounts, NEW inc \in BOOLEAN,
             Board!Misleads(a, n, inc)
      PROVE  misled' \in BOOLEAN /\ (~misled' => ~misled /\ (n = 0 \/ Board!InMemory(a, n, inc)))
  <2>1. n = 0 \/ n > 0
    BY <1>12
  <2>2. misled' = (misled \/ (n > 0 /\ ~Board!InMemory(a, n, inc)))
    BY <1>m DEF Board!Misleads
  <2> QED
    BY <2>1, <2>2, Zenon
<1>13. ASSUME NEW a \in Board!Addresses, NEW v \in Board!Bits, NEW n \in BoardCounts,
              NEW inc \in BOOLEAN, life = "alive", Board!WriteBlock(a, v, n, inc)
       PROVE  Board!IInv'
  <2> DEFINE b == Board!Base(a, n, inc)
             s == [store EXCEPT !.mem = Board!Placed(@, b, n, inc, v)]
             t == Board!Asked(v, a, n, inc)
             There == Board!Touched(b, n, inc) \subseteq Board!Offsets("mem")
  <2>1. \/ Board!Throws("ADDRESS_OUT_OF_RANGE")
        \/ ~There /\ Board!Wild /\ outcome' = <<a, n, inc>>
        \/ There /\ Board!Written(s, t) /\ Board!Misleads(a, n, inc)
    BY <1>13 DEF Board!WriteBlock
  <2>2. /\ DOMAIN s = Board!Windows /\ s["regs"] = store["regs"]
        /\ \A w \in Board!Windows : s[w] \in [Board!Offsets(w) -> Board!Bits]
        /\ s = [store EXCEPT !["mem"] = Board!Placed(store["mem"], b, n, inc, v)]
    <3>1. PICK u \in [Board!Offsets("mem") -> Board!Bits] :
             u = Board!Placed(store.mem, b, n, inc, v)
      BY <1>12, BlockPlaced
    <3>2. s = [store EXCEPT !["mem"] = u]
      BY <3>1
    <3> HIDE DEF s
    <3> QED
      BY <1>12, <1>t, <3>1, <3>2 DEF Board!Windows
  <2>3. /\ DOMAIN t = Board!Windows /\ t["regs"] = want["regs"]
        /\ \A w \in Board!Windows : t[w] \in [Board!Offsets(w) -> Board!Bits]
    <3>1. a \in Nat /\ n \in Nat /\ \A w \in Board!Windows : v8[w] \in [Board!Offsets(w) -> Board!Bits]
      BY <1>12, <1>t
    <3> QED
      BY <3>1, BlockTypes
  <2>4. ASSUME There, Board!Misleads(a, n, inc)
        PROVE  misled' \in BOOLEAN /\ (~misled' => s = t)
    <3>1. misled' \in BOOLEAN /\ (~misled' => ~misled /\ (n = 0 \/ Board!InMemory(a, n, inc)))
      BY <1>m, <2>4
    <3>2. ASSUME ~misled, n = 0 \/ Board!InMemory(a, n, inc) PROVE s = t
      <4>1. t = [want EXCEPT !["mem"] = Board!Placed(want["mem"], b, n, inc, v)]
        BY <1>12, <1>t, <2>4, <3>2, BlockMeant
      <4>2. store = want
        BY <1>t, <3>2
      <4> HIDE DEF s, t, b
      <4> QED
        BY <2>2, <4>1, <4>2
    <3> QED
      BY <3>1, <3>2
  <2> HIDE DEF s, t, There
  <2>5. There /\ Board!Written(s, t) /\ Board!Misleads(a, n, inc) => Board!IInv'
    <3> SUFFICES ASSUME There, Board!Written(s, t), Board!Misleads(a, n, inc) PROVE Board!IInv'
      OBVIOUS
    <3>1. s["regs"] = t["regs"]
      BY <1>t, <2>2, <2>3
    <3>2. misled' \in BOOLEAN /\ (~misled' => s = t)
      BY <2>4
    <3> QED
      BY <1>13, <1>w, <2>2, <2>3, <3>1, <3>2
  <2>6. ~There /\ Board!Wild /\ outcome' = <<a, n, inc>> => Board!IInv'
    BY <1>11, <1>13 DEF There
  <2> QED
    BY <1>13, <1>e, <2>1, <2>5, <2>6
<1>14. ASSUME NEW a \in Board!Addresses, NEW n \in BoardCounts,
              NEW inc \in BOOLEAN, life = "alive", Board!ReadBlock(a, n, inc)
       PROVE  Board!IInv'
  <2> DEFINE b == Board!Base(a, n, inc)
             There == Board!Touched(b, n, inc) \subseteq Board!Offsets("mem")
             s == Board!Taken(store.mem, b, n, inc)
             t == [i \in 1 .. n |-> Board!WordAt(IF inc THEN a + i - 1 ELSE a)]
  <2>1. \/ Board!Throws("ADDRESS_OUT_OF_RANGE")
        \/ ~There /\ Board!Wild /\ outcome' = <<a, n, inc>>
        \/ There /\ Board!Answer(s, t) /\ Board!Misleads(a, n, inc)
    BY <1>14 DEF Board!ReadBlock
  <2>2. ASSUME There, Board!Misleads(a, n, inc)
        PROVE  misled' \in BOOLEAN /\ (~misled' => ~misled /\ s = t)
    <3>1. misled' \in BOOLEAN /\ (~misled' => ~misled /\ (n = 0 \/ Board!InMemory(a, n, inc)))
      BY <1>m, <2>2
    <3>2. ASSUME ~misled, n = 0 \/ Board!InMemory(a, n, inc) PROVE s = t
      <4>1. Board!Taken(want["mem"], b, n, inc) = t
        BY <1>12, <2>2, <3>2, BlockRead
      <4>2. store.mem = want["mem"]
        BY <1>12, <1>t, <3>2
      <4> HIDE DEF t, b
      <4> QED
        BY <4>1, <4>2
    <3> QED
      BY <3>1, <3>2
  <2>3. There => s \in Seq(Board!Bits)
    BY <1>12, BlockTaken
  <2> HIDE DEF s, t
  <2>4. There /\ Board!Answer(s, t) /\ Board!Misleads(a, n, inc) => Board!IInv'
    BY <1>14, <1>r, <2>2, <2>3
  <2>5. ~There /\ Board!Wild /\ outcome' = <<a, n, inc>> => Board!IInv'
    BY <1>11, <1>14
  <2> HIDE DEF There
  <2> QED
    BY <1>14, <1>e, <2>1, <2>4, <2>5
<1>15. CASE Board!Blocks
  <2>1. PICK a \in Board!Addresses, n \in BoardCounts, inc \in BOOLEAN :
          \/ Board!AbbReadBlock(a, n, inc) \/ Board!Ml605ReadBlock(a, n, inc)
          \/ \E v \in Board!Bits :
                Board!AbbWriteBlock(a, v, n, inc) \/ Board!Ml605WriteBlock(a, v, n, inc)
    BY <1>15 DEF Board!Blocks
  <2>2. life = "alive" /\ \/ Board!ReadBlock(a, n, inc)
                          \/ \E v \in Board!Bits : Board!WriteBlock(a, v, n, inc)
    BY <2>1 DEF Board!AbbReadBlock, Board!Ml605ReadBlock, Board!AbbWriteBlock,
                Board!Ml605WriteBlock, Board!Alive
  <2> QED
    BY <1>13, <1>14, <2>2
<1>16. CASE Board!Transfers
  BY <1>16, <1>e DEF Board!Transfers, Board!AbbWriteDMA, Board!AbbWriteDMAFIFO,
     Board!AbbReadDMA, Board!AbbReadDMAFIFO, Board!Ml605WriteDMA, Board!Ml605WriteDMAFIFO,
     Board!Ml605ReadDMA, Board!Ml605ReadDMAFIFO, Board!Alive, Board!HandOver
<1>17. CASE UNCHANGED Board!vars
  <2>1. UNCHANGED Board!data /\ UNCHANGED <<Board!object, Board!loggers>> /\ outcome' = outcome
    BY <1>17 DEF Board!vars
  <2>2. InWindow'
    BY <1>t, <2>1 DEF Board!object
  <2> HIDE DEF Data, Object, InWindow
  <2> QED
    BY <1>o, <1>p, <1>s, <2>1, <2>2
<1> QED
  BY <1>2, <1>3, <1>5, <1>6, <1>7, <1>10, <1>15, <1>16, <1>17 DEF Board!Next

-----------------------------------------------------------------------------
\* DMA buffers.

\* The module's own copies of Cardinality and IsFiniteSet are those of FiniteSets.
LEMMA BuffersCount ==
    /\ \A S : Buffers!Cardinality(S) = Cardinality(S)
    /\ \A S : Buffers!IsFiniteSet(S) = IsFiniteSet(S)
<1>1. \A S : Buffers!IsFiniteSet(S) = IsFiniteSet(S)
  BY Zenon DEF Buffers!IsFiniteSet, IsFiniteSet
<1>2. \A S : Buffers!Cardinality(S) = Cardinality(S)
  BY Zenon DEF Buffers!Cardinality, Cardinality
<1> QED
  BY <1>1, <1>2

\* The next word a channel moves is one that it has still to move.
LEMMA NextWord ==
    ASSUME NEW S \in SUBSET Nat, S # {}
    PROVE  (CHOOSE x \in S : \A y \in S : x <= y) \in S
<1> DEFINE R == OpToRel(<, Nat)
<1>1. IsWellFoundedOn(R, Nat)
  BY NatLessThanWellFounded, Zenon
<1>2. \A m, n \in Nat : m < n => <<m, n>> \in R
  BY DEF OpToRel
<1> HIDE DEF R
<1>3. PICK n \in S : \A m \in S : ~ (<<m, n>> \in R)
  BY <1>1, WFMin, Zenon
<1>4. ASSUME NEW m \in S PROVE n <= m
  <2>1. m \in Nat /\ n \in Nat
    OBVIOUS
  <2>2. ~ (m < n)
    BY <1>2, <1>3, <2>1, Zenon
  <2> QED
    BY <2>1, <2>2
<1>5. \E x \in S : \A y \in S : x <= y
  BY <1>4
<1> QED
  BY <1>5, Zenon

\* An allocation is one more entry of the statistics.
LEMMA EntryCounted ==
    ASSUME NEW s, NEW t, NEW r \in Buffers!Tries, s \in [Buffers!Tries -> Nat],
           t = [s EXCEPT ![r] = @ + 1],
           NEW S, S = UNION {{i} \X (1 .. s[i]) : i \in Buffers!Tries},
           NEW T, T = UNION {{i} \X (1 .. t[i]) : i \in Buffers!Tries},
           IsFiniteSet(S)
    PROVE  IsFiniteSet(T) /\ Cardinality(T) = Cardinality(S) + 1
<1>1. PICK last \in Nat : last = s[r]
  OBVIOUS
<1>2. t[r] = last + 1 /\ \A i \in Buffers!Tries \ {r} : t[i] = s[i]
  BY <1>1
<1> DEFINE new == <<r, last + 1>>
<1>3. ASSUME NEW x
      PROVE  x \in T <=> x \in S \/ x = new
  <2>1. x \in T <=> \E i \in Buffers!Tries : x \in {i} \X (1 .. t[i])
    OBVIOUS
  <2>2. x \in S <=> \E i \in Buffers!Tries : x \in {i} \X (1 .. s[i])
    OBVIOUS
  <2>3. \A i \in Buffers!Tries \ {r} : x \in {i} \X (1 .. t[i]) <=> x \in {i} \X (1 .. s[i])
    BY <1>2
  <2>4. x \in {r} \X (1 .. t[r]) <=> x \in {r} \X (1 .. s[r]) \/ x = new
    BY <1>1, <1>2
  <2> QED
    BY <2>1, <2>2, <2>3, <2>4
<1>4. new \notin S
  BY <1>1
<1>5. T = S \cup {new}
  BY <1>3
<1> HIDE DEF new
<1>6. ASSUME NEW U, NEW x, IsFiniteSet(U), x \notin U
      PROVE  IsFiniteSet(U \cup {x}) /\ Cardinality(U \cup {x}) = Cardinality(U) + 1
  BY <1>6, FS_AddElement
<1>7. IsFiniteSet(S)
  OBVIOUS
<1>8. IsFiniteSet(S \cup {new}) /\ Cardinality(S \cup {new}) = Cardinality(S) + 1
  BY <1>4, <1>6, <1>7, Zenon
<1> QED
  BY <1>5, <1>8, Zenon

\* Numbers of words, tries and entries are numbers.
LEMMA BuffersConstants ==
    /\ MaxRetries \in Nat \ {0} /\ NumWords \in Nat
    /\ Buffers!Words = 1 .. NumWords /\ Buffers!Values = {0, 1}
    /\ Buffers!Tries = 0 .. MaxRetries - 1 /\ 0 \in Buffers!Tries
    /\ Buffers!Words \in SUBSET Nat
    /\ "host2board" \in Buffers!Directions /\ "board2host" \in Buffers!Directions
    /\ \A d \in Buffers!Directions : d = "host2board" \/ d = "board2host"
  BY BufferNumbers DEF Buffers!Words, Buffers!Values, Buffers!Tries, Buffers!Directions

\* A list is needed by every type but one, and all a type needs is released.
LEMMA BuffersNeeds ==
    /\ Buffers!Needs("kernel") = {"kernelMemory"} /\ ~Buffers!HasList("kernel")
    /\ Buffers!Needs("pieces") = {"kernelMemory"} \cup Buffers!List /\ Buffers!HasList("pieces")
    /\ Buffers!Needs("user") = {"hostMemory", "pins"} \cup Buffers!List /\ Buffers!HasList("user")
    /\ Buffers!Needs("view") = {"pins"} \cup Buffers!List /\ Buffers!HasList("view")
    /\ \A k \in Buffers!Kinds : Buffers!Needs(k) \subseteq Buffers!Released(k)
    /\ Buffers!List = {"array", "native", "nativePins", "blocks"}
<1>1. /\ Buffers!Needs("kernel") = {"kernelMemory"} /\ ~Buffers!HasList("kernel")
      /\ Buffers!Needs("pieces") = {"kernelMemory"} \cup Buffers!List /\ Buffers!HasList("pieces")
      /\ Buffers!Needs("user") = {"hostMemory", "pins"} \cup Buffers!List
      /\ Buffers!HasList("user")
      /\ Buffers!Needs("view") = {"pins"} \cup Buffers!List /\ Buffers!HasList("view")
  BY DEF Buffers!Needs, Buffers!HasList
<1>2. /\ Buffers!Released("kernel") = {"kernelMemory"}
      /\ Buffers!Released("pieces") = Buffers!List \cup {"kernelMemory"}
      /\ Buffers!Released("user") = Buffers!List \cup {"pins", "hostMemory"}
      /\ Buffers!Released("view") = Buffers!List \cup {"pins"}
  BY <1>1 DEF Buffers!Released, Buffers!ReleasedList
<1>3. \A k \in Buffers!Kinds : Buffers!Needs(k) \subseteq Buffers!Released(k)
  BY <1>1, <1>2 DEF Buffers!Kinds
<1> QED
  BY <1>1, <1>3 DEF Buffers!List

\* There is no buffer, and nothing is held.
LEMMA BuffersStart == Buffers!Init => Buffers!IInv
<1> SUFFICES ASSUME Buffers!Init PROVE Buffers!IInv
  OBVIOUS
<1>1. /\ v1 = "none" /\ v2 = "none" /\ v3 = {} /\ v4 = {} /\ v8 = FALSE /\ v5 = 0
      /\ v6 = [i \in Buffers!Tries |-> 0] /\ v7 = 0
      /\ v9 = Buffers!Zero /\ v10 = Buffers!Zero /\ v11 = Buffers!Zero
      /\ v12 = [d \in Buffers!Directions |-> {}]
      /\ v13 = Buffers!NoCall
      /\ v14 = Buffers!Zero /\ v15 = Buffers!Words /\ v16 = Buffers!Zero
  BY DEF Buffers!Init
<1>2. Buffers!Zero \in [Buffers!Words -> Buffers!Values]
  BY DEF Buffers!Zero, Buffers!Values
<1>3. /\ v13.dir = "none" /\ v13.target = {}
      /\ v13 \in [dir : Buffers!Directions \cup {"none"}, target : SUBSET Buffers!Words,
                  lock : BOOLEAN, over : BOOLEAN]
  BY <1>1 DEF Buffers!NoCall
<1>4. Buffers!TypeOK
  BY <1>1, <1>2, <1>3, BuffersConstants DEF Buffers!TypeOK
<1>5. Buffers!Counted = {}
  BY <1>1 DEF Buffers!Counted
<1>6. Buffers!HasSoFar
  BY <1>1, <1>5, FS_EmptySet, BuffersCount DEF Buffers!HasSoFar
<1>7. Buffers!WordsTyped
  BY <1>1, <1>2, <1>3 DEF Buffers!WordsTyped
<1>8. Buffers!AtRest /\ Buffers!SameWords /\ \A d \in Buffers!Directions : v12[d] = {}
  BY <1>1, BuffersConstants DEF Buffers!AtRest, Buffers!SameWords
<1> QED
  BY <1>1, <1>4, <1>6, <1>7, <1>8 DEF Buffers!IInv

\* Each call on a buffer, each word a channel moves and each copy of the kernel.
LEMMA BuffersStep == Buffers!IInv /\ [Buffers!Next]_Buffers!vars => Buffers!IInv'
<1> DEFINE kind == v1
           life == v2
           held == v3
           left == v4
           retry == v5
           stats == v6
           allocs == v7
           failed == v8
           host == v9
           bounce == v10
           board == v11
           moving == v12
           call == v13
           want == v14
           sure == v15
           boardWant == v16
           Words == Buffers!Words
           Values == Buffers!Values
           Calls == [dir : Buffers!Directions \cup {"none"}, target : SUBSET Words,
                     lock : BOOLEAN, over : BOOLEAN]
           CountedOnce == allocs = Cardinality(Buffers!Counted) /\ IsFiniteSet(Buffers!Counted)
           Own ==
      /\ kind \in Buffers!Kinds \cup {"none"}
      /\ life \in {"none", "allocating", "mapping", "listing", "alive", "thrown"}
      /\ life \in {"none", "allocating", "thrown"} => held = {}
      /\ life = "mapping" =>
            /\ kind \in {"user", "view"}
            /\ held = Buffers!Needs(kind) \ ({"pins"} \cup Buffers!List)
      /\ life = "listing" => Buffers!HasList(kind) /\ held = Buffers!Needs(kind) \ Buffers!List
      /\ life = "alive" => held = Buffers!Needs(kind)
      /\ life = "allocating" => kind \in {"kernel", "pieces"}
      /\ life \in {"mapping", "listing", "alive"} => kind \in Buffers!Kinds
      /\ left # {} => failed
           Tried == retry \in Buffers!Tries /\ stats \in [Buffers!Tries -> Nat] /\ allocs \in Nat
           Stored ==
      /\ host \in [Words -> Values] /\ bounce \in [Words -> Values] /\ board \in [Words -> Values]
      /\ want \in [Words -> Values]
      /\ moving \in [Buffers!Directions -> SUBSET Words]
      /\ sure \subseteq Words
      /\ call \in Calls
           Rest ==
      /\ call = Buffers!NoCall
      /\ \A w \in sure : host[w] = want[w]
      /\ moving["board2host"] \cap sure = {}
      /\ board = boardWant
           Empty == host = want /\ moving["host2board"] = {} /\ moving["board2host"] = {}
           Modes == Rest \/ Buffers!Sending \/ Buffers!Receiving \/ Buffers!Received
           Coherent == kind \in {"kernel", "pieces"}
           Mem ==
      /\ life = "alive" => (Coherent => host = bounce) /\ Modes
      /\ life # "alive" => Rest /\ host = bounce /\ Empty
<1> SUFFICES ASSUME Buffers!IInv, [Buffers!Next]_Buffers!vars PROVE Buffers!IInv'
  OBVIOUS
<1>t. Own /\ Tried /\ Stored /\ Mem
  BY BuffersConstants DEF Buffers!IInv, Buffers!TypeOK, Buffers!HasSoFar, Buffers!WordsTyped,
     Buffers!AtRest, Buffers!SameWords, Buffers!Coherent
<1>n. CountedOnce
  BY BuffersCount DEF Buffers!IInv, Buffers!HasSoFar
<1>p. ASSUME Own', Tried', Stored', Mem', CountedOnce' PROVE Buffers!IInv'
  <2>1. call'.dir \in Buffers!Directions \cup {"none"} /\ call'.target \subseteq Words
    BY <1>p
  <2>2. Buffers!TypeOK'
    BY <1>p, <2>1 DEF Buffers!TypeOK
  <2>3. allocs' = Buffers!Cardinality(Buffers!Counted)' /\ Buffers!IsFiniteSet(Buffers!Counted)'
    BY <1>p, BuffersCount
  <2>4. Buffers!HasSoFar'
    BY <1>p, <2>3 DEF Buffers!HasSoFar
  <2>5. Buffers!WordsTyped'
    BY <1>p DEF Buffers!WordsTyped
  <2>6. /\ (life = "alive")' => (Buffers!Coherent => Buffers!SameWords)' /\
              (Buffers!AtRest \/ Buffers!Sending \/ Buffers!Receiving \/ Buffers!Received)'
        /\ (life # "alive")' => Buffers!AtRest' /\ Buffers!SameWords' /\ (host = want)' /\
              \A d \in Buffers!Directions : moving'[d] = {}
    BY <1>p, BuffersConstants, Zenon DEF Buffers!AtRest, Buffers!SameWords, Buffers!Coherent
  <2> QED
    BY <2>2, <2>4, <2>5, <2>6 DEF Buffers!IInv
\* Steps that leave a part alone.
<1>k. ASSUME stats' = stats, allocs' = allocs, retry' \in Buffers!Tries
      PROVE  Tried' /\ CountedOnce'
  BY <1>k, <1>n, <1>t DEF Buffers!Counted
<1>u. ASSUME UNCHANGED Buffers!words
      PROVE  /\ Stored'
             /\ host' = host /\ bounce' = bounce /\ board' = board /\ moving' = moving
             /\ call' = call /\ want' = want /\ sure' = sure /\ boardWant' = boardWant
  BY <1>u, <1>t DEF Buffers!words
<1>v. ASSUME life # "alive", UNCHANGED Buffers!words
      PROVE  Stored' /\ Mem'
  BY <1>u, <1>v, <1>t DEF Buffers!words
<1>o. ASSUME UNCHANGED Buffers!object
      PROVE  Own' /\ kind' = kind /\ life' = life
  BY <1>o, <1>t DEF Buffers!object
<1> HIDE DEF CountedOnce
\* What the transfers and the program do to the words of a buffer that is there.
<1>a. ASSUME life = "alive", UNCHANGED <<Buffers!object, Buffers!allocation>>, Stored', Modes',
             Coherent => host' = bounce'
      PROVE  Buffers!IInv'
  <2>1. Own' /\ kind' = kind /\ life' = life
    BY <1>a, <1>o
  <2>2. Tried' /\ CountedOnce'
    BY <1>a, <1>k, <1>t DEF Buffers!allocation
  <2> HIDE DEF Modes
  <2>3. Mem'
    BY <1>a, <2>1
  <2> HIDE DEF Own, Tried, Stored, Mem
  <2> QED
    BY <1>a, <1>p, <2>1, <2>2, <2>3
<1>1. ASSUME NEW k \in Buffers!Kinds, Buffers!New(k)
      PROVE  Buffers!IInv'
  <2>1. /\ life = "none" /\ kind' = k
        /\ life' = IF k \in {"kernel", "pieces"} THEN "allocating" ELSE "mapping"
        /\ held' = IF k = "user" THEN {"hostMemory"} ELSE {}
        /\ retry' = 0 /\ left' = left /\ failed' = failed
        /\ stats' = stats /\ allocs' = allocs /\ UNCHANGED Buffers!words
    BY <1>1 DEF Buffers!New
  <2>2. Own'
    BY <2>1, BuffersNeeds, <1>t DEF Buffers!Kinds
  <2>3. Tried' /\ CountedOnce'
    BY <1>k, <2>1, BuffersConstants
  <2>4. Stored' /\ Mem'
    BY <1>t, <1>u, <2>1, Zenon
  <2> HIDE DEF Own, Tried, Stored, Mem
  <2> QED
    BY <1>p, <2>2, <2>3, <2>4
<1>2. ASSUME NEW more, life \in {"allocating", "mapping", "listing"}, Buffers!Throw(more)
      PROVE  Own' /\ Stored' /\ Mem'
  BY <1>2, <1>t, <1>u DEF Buffers!Throw
<1>3. ASSUME NEW resources, life \in {"allocating", "mapping"}, Buffers!Ready(resources),
             held \cup resources = Buffers!Needs(kind) \ Buffers!List
      PROVE  Own' /\ Stored' /\ Mem'
  <2>1. /\ held' = held \cup resources
        /\ life' = IF Buffers!HasList(kind) THEN "listing" ELSE "alive"
        /\ kind' = kind /\ left' = left /\ failed' = failed /\ UNCHANGED Buffers!words
    BY <1>3 DEF Buffers!Ready
  <2>2. kind \in {"kernel", "pieces", "user", "view"} /\ kind \in Buffers!Kinds
    BY <1>3, <1>t DEF Buffers!Kinds
  <2>3. ~Buffers!HasList(kind) => held' = Buffers!Needs(kind)
    BY <1>3, <2>1, <2>2, BuffersNeeds
  <2>4. Own'
    BY <1>3, <1>t, <2>1, <2>2, <2>3
  <2>5. Stored' /\ Mem'
    BY <1>3, <1>t, <1>u, <2>1
  <2> QED
    BY <2>4, <2>5
<1>4. CASE Buffers!AllocKernelMemory
  <2>1. /\ life = "allocating" /\ stats' = [stats EXCEPT ![retry] = @ + 1] /\ allocs' = allocs + 1
        /\ retry' = retry /\ (Buffers!Ready({"kernelMemory"}) \/ Buffers!Throw({}))
    BY <1>4 DEF Buffers!AllocKernelMemory, Buffers!Entered
  <2>2. held \cup {"kernelMemory"} = Buffers!Needs(kind) \ Buffers!List
    BY <2>1, <1>t, BuffersNeeds
  <2>3. Own' /\ Stored' /\ Mem'
    BY <1>2, <1>3, <2>1, <2>2
  <2>4. Tried'
    BY <1>t, <2>1
  <2>5. CountedOnce'
    <3>1. /\ Buffers!Counted = UNION {{i} \X (1 .. stats[i]) : i \in Buffers!Tries}
          /\ Buffers!Counted' = UNION {{i} \X (1 .. stats'[i]) : i \in Buffers!Tries}
      BY DEF Buffers!Counted
    <3>2. /\ allocs = Cardinality(Buffers!Counted) /\ IsFiniteSet(Buffers!Counted)
      BY <1>n DEF CountedOnce
    <3>3. IsFiniteSet(Buffers!Counted') /\ Cardinality(Buffers!Counted') = Cardinality(Buffers!Counted) + 1
      BY <1>t, <2>1, <3>1, <3>2, EntryCounted
    <3> QED
      BY <2>1, <3>2, <3>3 DEF CountedOnce
  <2> HIDE DEF Own, Tried, Stored, Mem
  <2> QED
    BY <1>p, <2>3, <2>4, <2>5
<1>5. CASE Buffers!AllocBusy
  <2>1. /\ life = "allocating" /\ retry < MaxRetries - 1 /\ retry' = retry + 1
        /\ UNCHANGED Buffers!object /\ stats' = stats /\ allocs' = allocs /\ UNCHANGED Buffers!words
    BY <1>5 DEF Buffers!AllocBusy
  <2>2. retry' \in Buffers!Tries
    BY <1>t, <2>1, BuffersConstants
  <2>3. Tried' /\ CountedOnce'
    BY <1>k, <2>1, <2>2
  <2>4. Own' /\ life' = life /\ kind' = kind
    BY <1>o, <2>1
  <2>5. Stored' /\ Mem'
    BY <1>t, <1>u, <2>1, <2>4, Zenon
  <2> HIDE DEF Own, Tried, Stored, Mem
  <2> QED
    BY <1>p, <2>3, <2>4, <2>5
<1>6. CASE Buffers!AllocGivenUp
  <2>1. life = "allocating" /\ Buffers!Throw({}) /\ UNCHANGED Buffers!allocation
    BY <1>6 DEF Buffers!AllocGivenUp
  <2>2. Tried' /\ CountedOnce'
    BY <1>k, <1>t, <2>1 DEF Buffers!allocation
  <2>3. Own' /\ Stored' /\ Mem'
    BY <1>2, <2>1
  <2> HIDE DEF Own, Tried, Stored, Mem
  <2> QED
    BY <1>p, <2>2, <2>3
<1>7. CASE Buffers!MapUserMemory
  <2>1. /\ life = "mapping" /\ (Buffers!Ready({"pins"}) \/ Buffers!Throw({}))
        /\ UNCHANGED Buffers!allocation
    BY <1>7 DEF Buffers!MapUserMemory
  <2>2. held \cup {"pins"} = Buffers!Needs(kind) \ Buffers!List
    BY <2>1, <1>t, BuffersNeeds
  <2>3. Own' /\ Stored' /\ Mem'
    BY <1>2, <1>3, <2>1, <2>2
  <2>4. Tried' /\ CountedOnce'
    BY <1>k, <1>t, <2>1 DEF Buffers!allocation
  <2> HIDE DEF Own, Tried, Stored, Mem
  <2> QED
    BY <1>p, <2>3, <2>4
<1>8. CASE Buffers!FillDescriptorList
  <2>1. /\ life = "listing" /\ UNCHANGED Buffers!allocation
        /\ \/ /\ held' = held \cup Buffers!List /\ life' = "alive"
              /\ kind' = kind /\ left' = left /\ failed' = failed /\ UNCHANGED Buffers!words
           \/ Buffers!Throw({"array", "native"})
    BY <1>8 DEF Buffers!FillDescriptorList
  <2>2. Tried' /\ CountedOnce'
    BY <1>k, <1>t, <2>1 DEF Buffers!allocation
  <2>3. Own' /\ Stored' /\ Mem'
    <3>1. CASE Buffers!Throw({"array", "native"})
      BY <1>2, <2>1, <3>1
    <3>2. CASE ~Buffers!Throw({"array", "native"})
      <4>1. /\ held' = held \cup Buffers!List /\ life' = "alive"
            /\ kind' = kind /\ left' = left /\ failed' = failed /\ UNCHANGED Buffers!words
        BY <2>1, <3>2
      <4>2. kind \in {"pieces", "user", "view"} /\ kind \in Buffers!Kinds
        BY <1>t, <2>1, BuffersNeeds DEF Buffers!Kinds
      <4>3. Buffers!List \subseteq Buffers!Needs(kind)
        BY <4>2, BuffersNeeds
      <4>4. held' = Buffers!Needs(kind)
        BY <1>t, <2>1, <4>1, <4>3
      <4>5. Own'
        BY <1>t, <2>1, <4>1, <4>2, <4>4
      <4>6. Stored' /\ Mem'
        BY <1>t, <1>u, <2>1, <4>1, Zenon
      <4> QED
        BY <4>5, <4>6
    <3> QED
      BY <3>1, <3>2
  <2> HIDE DEF Own, Tried, Stored, Mem
  <2> QED
    BY <1>p, <2>2, <2>3
<1>9. CASE Buffers!Delete
  <2>1. /\ life = "alive" /\ life' = "none" /\ held' = {} /\ kind' = kind /\ failed' = failed
        /\ left' = left \cup (held \ Buffers!Released(kind))
        /\ UNCHANGED Buffers!allocation
    BY <1>9 DEF Buffers!Delete
  <2>2. /\ host' = Buffers!Zero /\ bounce' = Buffers!Zero /\ want' = Buffers!Zero
        /\ board' = Buffers!Zero /\ boardWant' = Buffers!Zero
        /\ sure' = Words /\ call' = Buffers!NoCall
        /\ moving' = [d \in Buffers!Directions |-> {}]
    BY <1>9 DEF Buffers!Delete, Buffers!Fresh
  <2>3. Tried' /\ CountedOnce'
    BY <1>k, <1>t, <2>1 DEF Buffers!allocation
  <2>4. left' = left
    BY <1>t, <2>1, BuffersNeeds
  <2>5. Own'
    BY <1>t, <2>1, <2>4
  <2>6. Stored'
    BY <2>2 DEF Buffers!Zero, Buffers!Values, Buffers!NoCall
  <2>7. Mem'
    BY <2>1, <2>2, BuffersConstants
  <2> HIDE DEF Own, Tried, Stored, Mem
  <2> QED
    BY <1>p, <2>3, <2>5, <2>6, <2>7

\* The words, while a buffer is there: the program, the board and the transfers.
<1>m. ASSUME life = "alive"
      PROVE  /\ Modes /\ (Coherent => host = bounce)
             /\ DOMAIN host = Words /\ DOMAIN bounce = Words /\ DOMAIN board = Words
             /\ DOMAIN want = Words
  BY <1>t, <1>m
<1>q. call = Buffers!NoCall => Rest
  BY <1>m, <1>t DEF Buffers!Sending, Buffers!Receiving, Buffers!Received, Buffers!NoCall
<1>10. ASSUME NEW w \in Words, NEW v \in Values, Buffers!Store(w, v)
       PROVE  Buffers!IInv'
  <2>1. /\ life = "alive" /\ call = Buffers!NoCall
        /\ host' = [host EXCEPT ![w] = v]
        /\ bounce' = IF Coherent THEN [bounce EXCEPT ![w] = v] ELSE bounce
        /\ want' = [want EXCEPT ![w] = v]
        /\ sure' = IF w \in moving["board2host"] THEN sure ELSE sure \cup {w}
        /\ board' = board /\ moving' = moving /\ call' = call /\ boardWant' = boardWant
        /\ UNCHANGED <<Buffers!object, Buffers!allocation>>
    BY <1>10 DEF Buffers!Store, Buffers!Idle, Buffers!Coherent
  <2>2. Stored'
    BY <1>t, <2>1
  <2>3. Rest
    BY <1>q, <2>1
  <2>4. \A x \in Words : /\ host'[x] = IF x = w THEN v ELSE host[x]
                         /\ want'[x] = IF x = w THEN v ELSE want[x]
    BY <1>m, <2>1
  <2>5. \A x \in sure' : host'[x] = want'[x]
    BY <1>t, <2>1, <2>3, <2>4
  <2>6. moving'["board2host"] \cap sure' = {}
    BY <2>1, <2>3
  <2>7. Rest'
    BY <2>1, <2>3, <2>5, <2>6
  <2>8. Coherent => host' = bounce'
    BY <1>m, <2>1, Zenon
  <2> HIDE DEF Stored, Mem, Own, Tried, Rest
  <2> QED
    BY <1>a, <2>1, <2>2, <2>7, <2>8
<1>11. ASSUME NEW w \in Words, NEW v \in Values, Buffers!BoardStore(w, v)
       PROVE  Buffers!IInv'
  <2>1. /\ life = "alive" /\ call = Buffers!NoCall
        /\ board' = [board EXCEPT ![w] = v] /\ boardWant' = [boardWant EXCEPT ![w] = v]
        /\ host' = host /\ bounce' = bounce /\ moving' = moving /\ call' = call
        /\ want' = want /\ sure' = sure
        /\ UNCHANGED <<Buffers!object, Buffers!allocation>>
    BY <1>11 DEF Buffers!BoardStore, Buffers!Idle
  <2>2. Stored'
    BY <1>t, <2>1
  <2>3. Rest
    BY <1>q, <2>1
  <2>4. Rest'
    BY <2>1, <2>3
  <2>5. Coherent => host' = bounce'
    BY <1>m, <2>1
  <2> HIDE DEF Stored, Mem, Own, Tried, Rest
  <2> QED
    BY <1>a, <2>1, <2>2, <2>4, <2>5
<1>12. ASSUME NEW n \in Words, NEW lock \in BOOLEAN, Buffers!Host2Board(n, lock)
       PROVE  Buffers!IInv'
  <2>1. /\ life = "alive" /\ call = Buffers!NoCall
        /\ call' = [dir |-> "host2board", target |-> 1 .. n, lock |-> lock, over |-> FALSE]
        /\ moving' = [moving EXCEPT !["host2board"] = 1 .. n]
        /\ bounce' = IF Coherent THEN bounce ELSE host
        /\ host' = host /\ board' = board /\ want' = want /\ sure' = sure
        /\ boardWant' = boardWant
        /\ UNCHANGED <<Buffers!object, Buffers!allocation>>
    BY <1>12 DEF Buffers!Host2Board, Buffers!Idle, Buffers!ToDevice, Buffers!Coherent
  <2>2. 1 .. n \subseteq Words
    BY BuffersConstants
  <2>3. /\ moving'["host2board"] = 1 .. n /\ moving'["board2host"] = moving["board2host"]
        /\ moving' \in [Buffers!Directions -> SUBSET Words]
    BY <1>t, <2>1, <2>2, BuffersConstants
  <2>4. call' \in Calls
    BY <2>1, <2>2, BuffersConstants
  <2>5. Stored'
    BY <1>t, <2>1, <2>3, <2>4
  <2>6. Rest /\ (Coherent => host = bounce)
    BY <1>m, <1>q, <2>1
  <2>7. bounce' = host' /\ \A w \in sure' : host'[w] = want'[w] /\ bounce'[w] = want'[w]
    BY <2>1, <2>6
  <2>8. call'.dir = "host2board" /\ ~call'.over /\ call'.target = 1 .. n
    BY <2>1
  <2>9. Buffers!Sending'
    BY <2>1, <2>3, <2>6, <2>7, <2>8 DEF Buffers!Sending
  <2> HIDE DEF Stored, Mem, Own, Tried, Rest
  <2> QED
    BY <1>a, <2>1, <2>5, <2>7, <2>9
<1>13. ASSUME NEW n \in Words, NEW lock \in BOOLEAN, Buffers!Board2Host(n, lock)
       PROVE  Buffers!IInv'
  <2>1. /\ life = "alive" /\ call = Buffers!NoCall
        /\ call' = [dir |-> "board2host", target |-> 1 .. n, lock |-> lock, over |-> FALSE]
        /\ moving' = [moving EXCEPT !["board2host"] = 1 .. n]
        /\ bounce' = IF n < NumWords THEN (IF Coherent THEN bounce ELSE host) ELSE bounce
        /\ host' = host /\ board' = board /\ want' = want /\ sure' = sure
        /\ boardWant' = boardWant
        /\ UNCHANGED <<Buffers!object, Buffers!allocation>>
    BY <1>13 DEF Buffers!Board2Host, Buffers!Before, Buffers!Idle, Buffers!ToDevice,
                 Buffers!Coherent
  <2>2. 1 .. n \subseteq Words /\ (~(n < NumWords) => 1 .. n = Words)
    BY BuffersConstants
  <2>3. /\ moving'["board2host"] = 1 .. n
        /\ moving' \in [Buffers!Directions -> SUBSET Words]
    BY <1>t, <2>1, <2>2, BuffersConstants
  <2>4. call' \in Calls
    BY <2>1, <2>2, BuffersConstants
  <2>5. Stored'
    BY <1>t, <2>1, <2>3, <2>4
  <2>6. Rest /\ (Coherent => host = bounce)
    BY <1>m, <1>q, <2>1
  <2>7. \A w \in sure' \ (1 .. n) : host'[w] = want'[w] /\ bounce'[w] = want'[w]
    BY <2>1, <2>2, <2>6, <1>t, Zenon
  <2>8. call'.dir = "board2host" /\ ~call'.over /\ call'.target = 1 .. n
    BY <2>1
  <2>9. Buffers!Receiving'
    BY <2>1, <2>3, <2>6, <2>7, <2>8 DEF Buffers!Receiving
  <2>10. Coherent => host' = bounce'
    BY <2>1, <2>6
  <2> HIDE DEF Stored, Mem, Own, Tried, Rest
  <2> QED
    BY <1>a, <2>1, <2>5, <2>9, <2>10
<1>14. CASE Buffers!Move("host2board")
  <2>1. PICK w \in moving["host2board"] :
          /\ life = "alive" /\ moving' = [moving EXCEPT !["host2board"] = @ \ {w}]
          /\ board' = [board EXCEPT ![w] = bounce[w]]
          /\ boardWant' = IF call.dir = "host2board" THEN boardWant
                          ELSE [boardWant EXCEPT ![w] = bounce[w]]
          /\ host' = host /\ bounce' = bounce /\ call' = call /\ want' = want /\ sure' = sure
          /\ UNCHANGED <<Buffers!object, Buffers!allocation>>
    BY <1>14, <1>t, BuffersConstants, NextWord, Zenon DEF Buffers!Move
  <2>2. /\ w \in Words
        /\ moving'["host2board"] = moving["host2board"] \ {w}
        /\ moving'["board2host"] = moving["board2host"]
        /\ moving' \in [Buffers!Directions -> SUBSET Words]
    BY <1>t, <2>1, BuffersConstants
  <2>3. Stored'
    BY <1>t, <2>1, <2>2
  <2>4. \A x \in Words : board'[x] = IF x = w THEN bounce[w] ELSE board[x]
    BY <1>m, <2>1, <2>2
  <2>5. call.dir # "host2board" /\ board = boardWant => board' = boardWant'
    BY <2>1
  <2>6. CASE Rest
    <3>1. Rest'
      BY <2>1, <2>2, <2>5, <2>6 DEF Buffers!NoCall
    <3> HIDE DEF Rest, Stored
    <3> QED
      BY <1>a, <1>m, <2>1, <2>3, <3>1
  <2>7. CASE Buffers!Sending
    <3>1. \A x \in (call.target \cap sure) \ moving'["host2board"] : board'[x] = want[x]
      <4> TAKE x \in (call.target \cap sure) \ moving'["host2board"]
      <4>1. x \in Words
        BY <1>t
      <4>2. CASE x = w
        BY <2>4, <2>7, <4>1, <4>2 DEF Buffers!Sending
      <4>3. CASE x # w
        BY <2>2, <2>4, <2>7, <4>1, <4>3 DEF Buffers!Sending
      <4> QED
        BY <4>2, <4>3
    <3>2. Buffers!Sending'
      BY <2>1, <2>2, <2>7, <3>1 DEF Buffers!Sending
    <3> HIDE DEF Rest, Stored
    <3> QED
      BY <1>a, <1>m, <2>1, <2>3, <3>2
  <2>8. CASE Buffers!Receiving
    <3>1. \A x \in call.target \ moving'["board2host"] : bounce'[x] = board'[x]
      <4> TAKE x \in call.target \ moving'["board2host"]
      <4>1. x \in Words
        BY <1>t
      <4>2. bounce[x] = board[x]
        BY <2>2, <2>8 DEF Buffers!Receiving
      <4> QED
        BY <2>1, <2>4, <4>1, <4>2
    <3>2. Buffers!Receiving'
      BY <2>1, <2>2, <2>5, <2>8, <3>1 DEF Buffers!Receiving
    <3> HIDE DEF Rest, Stored
    <3> QED
      BY <1>a, <1>m, <2>1, <2>3, <3>2
  <2>9. CASE Buffers!Received
    <3>1. Buffers!Received'
      BY <2>1, <2>2, <2>5, <2>9 DEF Buffers!Received
    <3> HIDE DEF Rest, Stored
    <3> QED
      BY <1>a, <1>m, <2>1, <2>3, <3>1
  <2> QED
    BY <1>m, <2>1, <2>6, <2>7, <2>8, <2>9
<1>15. CASE Buffers!Move("board2host")
  <2>1. PICK w \in moving["board2host"] :
          /\ life = "alive" /\ moving' = [moving EXCEPT !["board2host"] = @ \ {w}]
          /\ bounce' = [bounce EXCEPT ![w] = board[w]]
          /\ host' = IF Coherent THEN [host EXCEPT ![w] = board[w]] ELSE host
          /\ board' = board /\ boardWant' = boardWant
          /\ call' = call /\ want' = want /\ sure' = sure
          /\ UNCHANGED <<Buffers!object, Buffers!allocation>>
    BY <1>15, <1>t, BuffersConstants, NextWord, Zenon DEF Buffers!Move, Buffers!Coherent
  <2>2. /\ w \in Words
        /\ moving'["board2host"] = moving["board2host"] \ {w}
        /\ moving'["host2board"] = moving["host2board"]
        /\ moving' \in [Buffers!Directions -> SUBSET Words]
    BY <1>t, <2>1, BuffersConstants
  <2>3. Stored'
    BY <1>t, <2>1, <2>2
  <2>4. /\ \A x \in Words : bounce'[x] = IF x = w THEN board[w] ELSE bounce[x]
        /\ \A x \in Words : x # w => host'[x] = host[x]
        /\ Coherent => host' = bounce'
    BY <1>m, <2>1, <2>2, Zenon
  <2>5. ASSUME w \notin sure
        PROVE  \A x \in sure : x \in Words /\ host'[x] = host[x] /\ bounce'[x] = bounce[x]
    BY <1>t, <2>4, <2>5
  <2>6. CASE Rest
    <3>1. w \notin sure
      BY <2>1, <2>6
    <3>2. Rest'
      BY <2>1, <2>2, <2>5, <2>6, <3>1
    <3> HIDE DEF Rest, Stored
    <3> QED
      BY <1>a, <2>1, <2>3, <2>4, <3>2
  <2>7. CASE Buffers!Sending
    <3>1. w \notin sure
      BY <2>1, <2>7 DEF Buffers!Sending
    <3>2. Buffers!Sending'
      BY <2>1, <2>2, <2>5, <2>7, <3>1 DEF Buffers!Sending
    <3> HIDE DEF Rest, Stored
    <3> QED
      BY <1>a, <2>1, <2>3, <2>4, <3>2
  <2>8. CASE Buffers!Receiving
    <3>1. w \in call.target /\ call.target \subseteq Words
      BY <1>t, <2>1, <2>8 DEF Buffers!Receiving
    <3>2. \A x \in sure \ call.target : host'[x] = want'[x] /\ bounce'[x] = want'[x]
      <4> TAKE x \in sure \ call.target
      <4>1. x \in Words /\ x # w
        BY <1>t, <3>1
      <4> QED
        BY <2>1, <2>4, <2>8, <4>1 DEF Buffers!Receiving
    <3>3. \A x \in call.target \ moving'["board2host"] : bounce'[x] = board'[x]
      <4> TAKE x \in call.target \ moving'["board2host"]
      <4>1. CASE x = w
        BY <2>1, <2>2, <2>4, <4>1
      <4>2. CASE x # w
        BY <2>1, <2>2, <2>4, <2>8, <3>1, <4>2 DEF Buffers!Receiving
      <4> QED
        BY <4>1, <4>2
    <3>4. Buffers!Receiving'
      BY <2>1, <2>2, <2>8, <3>2, <3>3 DEF Buffers!Receiving
    <3> HIDE DEF Rest, Stored
    <3> QED
      BY <1>a, <2>1, <2>3, <2>4, <3>4
  <2>9. CASE Buffers!Received
    <3>1. w \notin sure
      BY <2>1, <2>9 DEF Buffers!Received
    <3>2. Buffers!Received'
      BY <2>1, <2>2, <2>5, <2>9, <3>1 DEF Buffers!Received
    <3> HIDE DEF Rest, Stored
    <3> QED
      BY <1>a, <2>1, <2>3, <2>4, <3>2
  <2> QED
    BY <1>m, <2>1, <2>6, <2>7, <2>8, <2>9
\* A transfer that ended, complete or not; the channel may have been reset.
<1>16. ASSUME NEW complete \in BOOLEAN, Buffers!Conclude(complete),
              moving' \in [Buffers!Directions -> SUBSET Words],
              moving'["board2host"] \subseteq moving["board2host"],
              complete => moving[call.dir] = {}
       PROVE  Buffers!IInv'
  <2>1. /\ life = "alive" /\ call # Buffers!NoCall /\ ~call.over
        /\ Buffers!Expect(complete)
        /\ IF call.dir = "board2host" /\ ~call.lock
           THEN call' = [call EXCEPT !.over = TRUE] /\ host' = host
           ELSE /\ call' = Buffers!NoCall
                /\ host' = IF call.dir = "board2host"
                           THEN (IF Coherent THEN host ELSE bounce) ELSE host
        /\ bounce' = bounce /\ board' = board
        /\ UNCHANGED <<Buffers!object, Buffers!allocation>>
    BY <1>16 DEF Buffers!Conclude, Buffers!FromDevice, Buffers!Coherent
  <2>2. Buffers!Sending \/ Buffers!Receiving
    BY <1>m, <2>1 DEF Buffers!Received
  <2>3. Buffers!NoCall \in Calls
    BY DEF Buffers!NoCall
  <2>4. CASE Buffers!Sending
    <3>1. /\ call.dir = "host2board" /\ call' = Buffers!NoCall /\ host' = host
          /\ want' = want /\ sure' = sure
          /\ boardWant' = [w \in Words |-> IF w \in call.target \cap sure /\ complete
                                           THEN want[w] ELSE board[w]]
      BY <2>1, <2>4 DEF Buffers!Sending, Buffers!Expect
    <3>2. Stored'
      BY <1>16, <1>t, <2>1, <2>3, <3>1
    <3>3. \A w \in Words : (IF w \in call.target \cap sure /\ complete THEN want[w] ELSE board[w])
                              = board[w]
      BY <1>16, <2>4, <3>1 DEF Buffers!Sending
    <3>4. boardWant' = [w \in Words |-> board[w]]
      BY <3>1, <3>3
    <3>5. board = [w \in Words |-> board[w]]
      BY <1>t
    <3>6. Rest'
      BY <1>16, <2>1, <2>4, <3>1, <3>4, <3>5 DEF Buffers!Sending
    <3>7. Coherent => host' = bounce'
      BY <1>m, <2>1, <3>1
    <3> HIDE DEF Rest, Stored
    <3> QED
      BY <1>a, <2>1, <3>2, <3>6, <3>7
  <2>5. CASE Buffers!Receiving
    <3> DEFINE new == IF complete THEN call.target ELSE {}
    <3>1. /\ call.dir = "board2host"
          /\ want' = [w \in Words |-> IF w \in new THEN board[w] ELSE want[w]]
          /\ sure' = (sure \ call.target) \cup new
          /\ boardWant' = boardWant
      BY <2>1, <2>5 DEF Buffers!Receiving, Buffers!Expect
    <3>2. call.target \subseteq Words /\ new \subseteq call.target
      BY <1>t
    <3>3. want' \in [Words -> Values] /\ sure' \subseteq Words
      BY <1>t, <3>1, <3>2
    <3>4. moving'["board2host"] \cap sure' = {}
      BY <1>16, <2>5, <3>1 DEF Buffers!Receiving
    <3>5. \A w \in sure' : bounce[w] = want'[w]
      <4> TAKE w \in sure'
      <4>1. w \in Words
        BY <3>3
      <4>2. CASE w \in new
        BY <1>16, <2>5, <3>1, <4>1, <4>2 DEF Buffers!Receiving
      <4>3. CASE w \notin new
        BY <2>5, <3>1, <4>1, <4>3 DEF Buffers!Receiving
      <4> QED
        BY <4>2, <4>3
    <3>6. board' = boardWant'
      BY <2>1, <2>5, <3>1 DEF Buffers!Receiving
    <3>7. Coherent => host = bounce
      BY <1>m, <2>1
    <3> HIDE DEF new
    <3>8. CASE call.lock
      <4>1. /\ call' = Buffers!NoCall /\ host' = IF Coherent THEN host ELSE bounce
        BY <2>1, <3>1, <3>8
      <4>2. host' = bounce' /\ host' \in [Words -> Values]
        BY <1>t, <2>1, <3>7, <4>1
      <4>3. Stored'
        BY <1>16, <1>t, <2>1, <2>3, <3>3, <4>1, <4>2
      <4>4. Rest'
        BY <2>1, <3>4, <3>5, <3>6, <4>1, <4>2
      <4> HIDE DEF Rest, Stored
      <4> QED
        BY <1>a, <2>1, <4>2, <4>3, <4>4
    <3>9. CASE ~call.lock
      <4>1. call' = [call EXCEPT !.over = TRUE] /\ host' = host
        BY <2>1, <3>1, <3>9
      <4>2. call' \in Calls /\ call'.over /\ call'.dir = "board2host"
        BY <1>t, <3>1, <4>1, Zenon
      <4>3. Stored'
        BY <1>16, <1>t, <2>1, <3>3, <4>1, <4>2
      <4>4. Buffers!Received'
        BY <2>1, <3>4, <3>5, <3>6, <4>2 DEF Buffers!Received
      <4>5. Coherent => host' = bounce'
        BY <2>1, <3>7, <4>1
      <4> HIDE DEF Rest, Stored
      <4> QED
        BY <1>a, <2>1, <4>3, <4>4, <4>5
    <3>10. call.lock \in BOOLEAN
      BY <1>t
    <3> QED
      BY <3>8, <3>9, <3>10
  <2> QED
    BY <2>2, <2>4, <2>5
<1>17. CASE Buffers!Done
  BY <1>16, <1>17, <1>t, Zenon DEF Buffers!Done
<1>18. CASE Buffers!EngineTimeout
  <2>1. Buffers!Conclude(FALSE) /\ moving' = [moving EXCEPT ![call.dir] = {}]
    BY <1>18, Zenon DEF Buffers!EngineTimeout
  <2>2. /\ moving' \in [Buffers!Directions -> SUBSET Words]
        /\ moving'["board2host"] \subseteq moving["board2host"]
    BY <2>1, <1>t, BuffersConstants, Zenon
  <2> QED
    BY <1>16, <2>1, <2>2, Zenon
<1>19. CASE Buffers!WaitTimeout
  BY <1>16, <1>19, <1>t, Zenon DEF Buffers!WaitTimeout
<1>20. CASE Buffers!SyncFromDevice
  <2>1. /\ life = "alive" /\ call.over /\ call' = Buffers!NoCall
        /\ host' = IF Coherent THEN host ELSE bounce
        /\ bounce' = bounce /\ board' = board /\ moving' = moving /\ want' = want
        /\ sure' = sure /\ boardWant' = boardWant
        /\ UNCHANGED <<Buffers!object, Buffers!allocation>>
    BY <1>20 DEF Buffers!SyncFromDevice, Buffers!FromDevice, Buffers!Coherent
  <2>2. Buffers!Received
    BY <1>m, <2>1 DEF Buffers!Sending, Buffers!Receiving, Buffers!NoCall
  <2>3. host' = bounce' /\ host' \in [Words -> Values]
    BY <1>m, <1>t, <2>1
  <2>4. Buffers!NoCall \in Calls
    BY DEF Buffers!NoCall
  <2>5. Stored'
    BY <1>t, <2>1, <2>3, <2>4
  <2>6. Rest'
    BY <2>1, <2>2, <2>3 DEF Buffers!Received
  <2> HIDE DEF Rest, Stored
  <2> QED
    BY <1>a, <2>1, <2>3, <2>5, <2>6
<1>21. CASE UNCHANGED Buffers!vars
  <2>1. /\ UNCHANGED Buffers!object /\ UNCHANGED Buffers!allocation
        /\ UNCHANGED Buffers!words
    BY <1>21 DEF Buffers!vars
  <2>2. Own' /\ life' = life /\ kind' = kind
    BY <1>o, <2>1
  <2>3. Tried' /\ CountedOnce'
    BY <1>k, <1>t, <2>1 DEF Buffers!allocation
  <2>4. /\ Stored'
        /\ host' = host /\ bounce' = bounce /\ board' = board /\ moving' = moving
        /\ call' = call /\ want' = want /\ sure' = sure /\ boardWant' = boardWant
    BY <1>u, <2>1
  <2>5. Modes => Modes'
    BY <2>4 DEF Buffers!Sending, Buffers!Receiving, Buffers!Received
  <2>6. Mem'
    <3> HIDE DEF Modes
    <3> QED
      BY <1>t, <2>2, <2>4, <2>5
  <2> HIDE DEF Own, Tried, Stored, Mem
  <2> QED
    BY <1>p, <2>2, <2>3, <2>4, <2>6
<1>22. CASE Buffers!Construction
  BY <1>1, <1>4, <1>5, <1>6, <1>7, <1>8, <1>22 DEF Buffers!Construction
<1>23. CASE Buffers!Transfer
  BY <1>12, <1>13, <1>14, <1>15, <1>17, <1>18, <1>19, <1>20, <1>23, BuffersConstants
  DEF Buffers!Transfer
<1> QED
  BY <1>9, <1>10, <1>11, <1>21, <1>22, <1>23 DEF Buffers!Next

\* What the invariant says of the words and of the allocations.
LEMMA BuffersKeep == Buffers!IInv => Buffers!WordsKept /\ Buffers!Accounted
<1> SUFFICES ASSUME Buffers!IInv PROVE Buffers!WordsKept /\ Buffers!Accounted
  OBVIOUS
<1>1. Buffers!Accounted
  BY DEF Buffers!IInv, Buffers!HasSoFar, Buffers!Accounted
<1>2. Buffers!WordsKept
  BY DEF Buffers!IInv, Buffers!WordsKept, Buffers!AtRest, Buffers!Sending, Buffers!Receiving,
         Buffers!Received, Buffers!NoCall
<1> QED
  BY <1>1, <1>2

-----------------------------------------------------------------------------
\* The test programs.

\* What a statement has besides its name.
LEMMA StatementKinds ==
    ASSUME NEW st \in Tests!Statements
    PROVE  /\ st[1] \in {"acquire", "release"} => st[2] \in Tests!Things \ {"lock"}
           /\ st[1] = "fill" => st[2] \in Tests!Memories /\ st[3] \in Tests!Patterns
           /\ st[1] = "show" => st[2] \in Tests!Memories
           /\ st[1] = "start" => st[2] \in Tests!Memories /\ st[3] \in Tests!Memories
           /\ st = Tests!Sleep => st[1] = "sleep"
           /\ st = Tests!Sync => st[1] = "sync"
  BY DEF Tests!Statements, Tests!Acquire, Tests!Release, Tests!Fill, Tests!Show, Tests!Start,
         Tests!Size, Tests!Poke, Tests!Sleep, Tests!Sync, Tests!Scattered, Tests!Create,
         Tests!Stop, Tests!Lock, Tests!Destroy

\* Statements one after the other.
LEMMA Joined ==
    ASSUME NEW s \in Seq(Tests!Statements), NEW t \in Seq(Tests!Statements)
    PROVE  /\ s \o t \in Seq(Tests!Statements) /\ Len(s \o t) = Len(s) + Len(t)
           /\ Len(s) \in Nat /\ Len(t) \in Nat
           /\ \A i \in 1 .. Len(s) : (s \o t)[i] = s[i]
           /\ \A i \in 1 .. Len(t) : (s \o t)[Len(s) + i] = t[i]
  BY ConcatProperties

\* What two scripts give back when one follows the other.
LEMMA JoinedGives ==
    ASSUME NEW s \in Seq(Tests!Statements), NEW t \in Seq(Tests!Statements)
    PROVE  Tests!GivenBy(s \o t) = Tests!GivenBy(s) \cup Tests!GivenBy(t)
<1>1. ASSUME NEW x, NEW i \in 1 .. Len(s \o t), Tests!Gives(s \o t, i, x)
      PROVE  \/ \E j \in 1 .. Len(s) : Tests!Gives(s, j, x)
             \/ \E j \in 1 .. Len(t) : Tests!Gives(t, j, x)
  <2>1. CASE i <= Len(s)
    BY <1>1, <2>1, Joined DEF Tests!Gives
  <2>2. CASE i > Len(s)
    <3>1. i - Len(s) \in 1 .. Len(t) /\ (s \o t)[i] = t[i - Len(s)]
      BY <2>2, Joined
    <3>2. QED
      BY <1>1, <3>1 DEF Tests!Gives
  <2>3. QED
    BY <2>1, <2>2, Joined
<1>2. ASSUME NEW x, NEW j \in 1 .. Len(s), Tests!Gives(s, j, x)
      PROVE  \E i \in 1 .. Len(s \o t) : Tests!Gives(s \o t, i, x)
  BY <1>2, Joined DEF Tests!Gives
<1>3. ASSUME NEW x, NEW j \in 1 .. Len(t), Tests!Gives(t, j, x)
      PROVE  \E i \in 1 .. Len(s \o t) : Tests!Gives(s \o t, i, x)
  <2>1. Len(s) + j \in 1 .. Len(s \o t) /\ (s \o t)[Len(s) + j] = t[j]
    BY Joined
  <2>2. QED
    BY <1>3, <2>1 DEF Tests!Gives
<1>4. QED
  BY <1>1, <1>2, <1>3 DEF Tests!GivenBy

\* What the first script leaves to be given back, the second one gives back.
LEMMA JoinedReturns ==
    ASSUME NEW s \in Seq(Tests!Statements), NEW t \in Seq(Tests!Statements), NEW later,
           Tests!Returned(s, Tests!GivenBy(t) \cup later), Tests!Returned(t, later)
    PROVE  Tests!Returned(s \o t, later)
<1> SUFFICES ASSUME NEW i \in 1 .. Len(s \o t), (s \o t)[i][1] = "acquire"
             PROVE  \/ (s \o t)[i][2] \in later
                    \/ \E j \in i + 1 .. Len(s \o t) :
                          Tests!Gives(s \o t, j, (s \o t)[i][2])
  BY DEF Tests!Returned
<1>1. CASE i <= Len(s)
  <2>1. i \in 1 .. Len(s) /\ (s \o t)[i] = s[i]
    BY <1>1, Joined
  <2>2. CASE s[i][2] \in later
    BY <2>1, <2>2
  <2>3. CASE s[i][2] \in Tests!GivenBy(t)
    <3>1. PICK j \in 1 .. Len(t) : Tests!Gives(t, j, s[i][2])
      BY <2>3 DEF Tests!GivenBy
    <3>2. Len(s) + j \in i + 1 .. Len(s \o t) /\ (s \o t)[Len(s) + j] = t[j]
      BY <2>1, Joined
    <3>3. QED
      BY <2>1, <3>1, <3>2, Zenon DEF Tests!Gives
  <2>4. CASE \E j \in i + 1 .. Len(s) : Tests!Gives(s, j, s[i][2])
    <3>1. PICK j \in i + 1 .. Len(s) : Tests!Gives(s, j, s[i][2])
      BY <2>4
    <3>2. j \in i + 1 .. Len(s \o t) /\ (s \o t)[j] = s[j]
      BY <2>1, Joined
    <3>3. QED
      BY <2>1, <3>1, <3>2 DEF Tests!Gives
  <2>5. QED
    BY <2>1, <2>2, <2>3, <2>4 DEF Tests!Returned
<1>2. CASE i > Len(s)
  <2>1. PICK k \in 1 .. Len(t) : i = Len(s) + k /\ (s \o t)[i] = t[k]
    BY <1>2, Joined
  <2>2. CASE t[k][2] \in later
    BY <2>1, <2>2
  <2>3. CASE \E j \in k + 1 .. Len(t) : Tests!Gives(t, j, t[k][2])
    <3>1. PICK j \in k + 1 .. Len(t) : Tests!Gives(t, j, t[k][2])
      BY <2>3
    <3>2. Len(s) + j \in i + 1 .. Len(s \o t) /\ (s \o t)[Len(s) + j] = t[j]
      BY <2>1, Joined
    <3>3. QED
      BY <2>1, <3>1, <3>2, Zenon DEF Tests!Gives
  <2>4. QED
    BY <2>1, <2>2, <2>3 DEF Tests!Returned
<1>3. QED
  BY <1>1, <1>2, Joined

\* Transfers of two scripts, when one follows the other.
LEMMA JoinedSends ==
    ASSUME NEW s \in Seq(Tests!Statements), NEW t \in Seq(Tests!Statements),
           Tests!Slept(s), Tests!Slept(t), Tests!Prepared(s), Tests!Prepared(t)
    PROVE  Tests!Slept(s \o t) /\ Tests!Prepared(s \o t)
<1> DEFINE u == s \o t
<1>1. /\ Len(s) \in Nat /\ Len(t) \in Nat /\ Len(u) = Len(s) + Len(t)
      /\ \A i \in 1 .. Len(s) : u[i] = s[i]
      /\ \A i \in 1 .. Len(t) : u[Len(s) + i] = t[i]
      /\ \A i \in 1 .. Len(u) : i > Len(s) => i - Len(s) \in 1 .. Len(t) /\ i = Len(s) + (i - Len(s))
  BY Joined
<1> HIDE DEF u
<1>2. ASSUME NEW i \in 1 .. Len(u), Tests!Starts(u, i)
      PROVE  u[i][2] # u[i][3] /\ i < Len(u) /\ u[i + 1] = Tests!Sleep
  <2>1. CASE i <= Len(s)
    BY <1>1, <1>2, <2>1 DEF Tests!Starts, Tests!Slept
  <2>2. CASE i > Len(s)
    <3>1. PICK k \in 1 .. Len(t) : i = Len(s) + k
      BY <1>1, <2>2, Zenon
    <3>2. u[i] = t[k] /\ Tests!Starts(t, k)
      BY <1>1, <1>2, <3>1 DEF Tests!Starts
    <3>3. /\ t[k][2] # t[k][3] /\ k < Len(t) /\ t[k + 1] = Tests!Sleep
      BY <3>2 DEF Tests!Slept
    <3>4. k + 1 \in 1 .. Len(t) /\ i + 1 = Len(s) + (k + 1) /\ i < Len(u)
      BY <1>1, <3>1, <3>3
    <3>5. u[i + 1] = t[k + 1]
      BY <1>1, <3>4
    <3>6. QED
      BY <3>2, <3>3, <3>4, <3>5
  <2>3. QED
    BY <1>1, <2>1, <2>2
<1>3. ASSUME NEW i \in 1 .. Len(u), Tests!Sends(u, i)
      PROVE  Tests!FilledAndSynced(u, i)
  <2>1. CASE i <= Len(s)
    <3>1. /\ i \in 1 .. Len(s) /\ Tests!Sends(s, i)
      BY <1>1, <1>3, <2>1 DEF Tests!Starts, Tests!Sends
    <3>0. PICK k \in 1 .. i - 1 : \E j \in k + 1 .. i - 1 :
             /\ Tests!Fills(s, k) /\ s[j] = Tests!Sync
             /\ Tests!NotBrought(s, k, i) /\ Tests!NotFilled(s, j, i)
      BY <3>1 DEF Tests!Prepared, Tests!FilledAndSynced
    <3>2. PICK j \in k + 1 .. i - 1 :
             /\ Tests!Fills(s, k) /\ s[j] = Tests!Sync
             /\ Tests!NotBrought(s, k, i) /\ Tests!NotFilled(s, j, i)
      BY <3>0
    <3>3. \A l \in 1 .. i - 1 : u[l] = s[l]
      BY <1>1, <3>1
    <3>4. Tests!Fills(u, k) /\ u[j] = Tests!Sync
      BY <3>2, <3>3 DEF Tests!Fills
    <3>5. Tests!NotBrought(u, k, i)
      BY <3>2, <3>3 DEF Tests!NotBrought, Tests!Brings, Tests!Starts
    <3>6. Tests!NotFilled(u, j, i)
      BY <3>2, <3>3 DEF Tests!NotFilled, Tests!Fills
    <3>7. QED
      BY <3>4, <3>5, <3>6 DEF Tests!FilledAndSynced
  <2>2. CASE i > Len(s)
    <3>1. PICK h \in 1 .. Len(t) : i = Len(s) + h
      BY <1>1, <2>2, Zenon
    <3>2. Tests!Sends(t, h)
      BY <1>1, <1>3, <3>1 DEF Tests!Starts, Tests!Sends
    <3>0. PICK k \in 1 .. h - 1 : \E j \in k + 1 .. h - 1 :
             /\ Tests!Fills(t, k) /\ t[j] = Tests!Sync
             /\ Tests!NotBrought(t, k, h) /\ Tests!NotFilled(t, j, h)
      BY <3>2 DEF Tests!Prepared, Tests!FilledAndSynced
    <3>3. PICK j \in k + 1 .. h - 1 :
             /\ Tests!Fills(t, k) /\ t[j] = Tests!Sync
             /\ Tests!NotBrought(t, k, h) /\ Tests!NotFilled(t, j, h)
      BY <3>0
    <3> DEFINE K == Len(s) + k
               J == Len(s) + j
    <3>4. K \in 1 .. i - 1 /\ J \in K + 1 .. i - 1
      BY <1>1, <3>1, <3>3
    <3>5. u[K] = t[k] /\ u[J] = t[j]
      BY <1>1, <3>1, <3>3
    <3>6. ASSUME NEW l \in K + 1 .. i - 1
          PROVE  l - Len(s) \in k + 1 .. h - 1 /\ u[l] = t[l - Len(s)]
      <4>1. l - Len(s) \in k + 1 .. h - 1 /\ l - Len(s) \in 1 .. Len(t) /\ l = Len(s) + (l - Len(s))
        BY <1>1, <3>1, <3>3
      <4>2. QED
        BY <1>1, <4>1, Zenon
    <3>7. Tests!NotBrought(u, K, i)
      BY <3>3, <3>6, Zenon DEF Tests!NotBrought, Tests!Brings, Tests!Starts
    <3>8. ASSUME NEW l \in J + 1 .. i - 1
          PROVE  l - Len(s) \in j + 1 .. h - 1 /\ u[l] = t[l - Len(s)]
      <4>1. /\ l - Len(s) \in j + 1 .. h - 1 /\ l - Len(s) \in 1 .. Len(t)
            /\ l = Len(s) + (l - Len(s))
        BY <1>1, <3>1, <3>3
      <4>2. QED
        BY <1>1, <4>1, Zenon
    <3>9. Tests!NotFilled(u, J, i)
      BY <3>3, <3>8, Zenon DEF Tests!NotFilled, Tests!Fills
    <3>10. Tests!Fills(u, K) /\ u[J] = Tests!Sync
      BY <3>3, <3>5 DEF Tests!Fills
    <3> HIDE DEF K, J
    <3>11. QED
      BY <3>4, <3>7, <3>9, <3>10 DEF Tests!FilledAndSynced
  <2>3. QED
    BY <1>1, <2>1, <2>2
<1>4. QED
  BY <1>2, <1>3 DEF Tests!Slept, Tests!Prepared, u

\* A script that is in order by itself, but for what others have to give back.
Needing(s, later) ==
    /\ s \in Seq(Tests!Statements) /\ Tests!Slept(s) /\ Tests!Prepared(s)
    /\ Tests!Returned(s, later)

\* The statements of the scripts are statements.
LEMMA StatementsAre ==
    /\ \A x \in Tests!Things \ {"lock"} :
          Tests!Acquire(x) \in Tests!Statements /\ Tests!Release(x) \in Tests!Statements
    /\ \A m \in Tests!Memories :
          /\ Tests!Show(m) \in Tests!Statements
          /\ \A p \in Tests!Patterns : Tests!Fill(m, p) \in Tests!Statements
          /\ \A n \in Tests!Memories : Tests!Start(m, n) \in Tests!Statements
    /\ {Tests!Size, Tests!Poke, Tests!Sleep, Tests!Sync, Tests!Scattered, Tests!Create,
        Tests!Stop, Tests!Lock, Tests!Destroy} \subseteq Tests!Statements
  BY DEF Tests!Statements

\* A script followed by one that gives back what it needs.
LEMMA NeedingJoined ==
    ASSUME NEW s, NEW t, NEW need, NEW later, Needing(s, need), Needing(t, later),
           need \subseteq Tests!GivenBy(t) \cup later
    PROVE  Needing(s \o t, later)
<1>1. Tests!Returned(s, Tests!GivenBy(t) \cup later)
  BY DEF Needing, Tests!Returned
<1>2. QED
  BY <1>1, Joined, JoinedReturns, JoinedSends DEF Needing

\* A script that only uses what is there.
LEMMA NeedingNothing ==
    ASSUME NEW s \in Seq(Tests!Statements), NEW later,
           \A i \in 1 .. Len(s) : s[i][1] \notin {"acquire", "start"}
    PROVE  Needing(s, later)
  BY DEF Needing, Tests!Returned, Tests!Slept, Tests!Prepared, Tests!Sends, Tests!Starts

\* A script that starts no transfer.
LEMMA NeedingAlone ==
    ASSUME NEW s \in Seq(Tests!Statements), NEW later,
           \A i \in 1 .. Len(s) : s[i][1] # "start", Tests!Returned(s, later)
    PROVE  Needing(s, later)
  BY DEF Needing, Tests!Slept, Tests!Prepared, Tests!Sends, Tests!Starts

\* The name of a statement, and what it is about.
LEMMA StatementsSay ==
    /\ \A x : Tests!Acquire(x)[1] = "acquire" /\ Tests!Acquire(x)[2] = x
    /\ \A x : Tests!Release(x)[1] = "release" /\ Tests!Release(x)[2] = x
    /\ \A m, p : /\ Tests!Fill(m, p)[1] = "fill" /\ Tests!Fill(m, p)[2] = m
                /\ Tests!Fill(m, p)[3] = p
    /\ \A m, n : /\ Tests!Start(m, n)[1] = "start" /\ Tests!Start(m, n)[2] = m
                /\ Tests!Start(m, n)[3] = n
    /\ \A m : Tests!Show(m)[1] = "show"
    /\ Tests!Size[1] = "size" /\ Tests!Poke[1] = "poke" /\ Tests!Sleep[1] = "sleep"
    /\ Tests!Sync[1] = "sync" /\ Tests!Scattered[1] = "scattered"
    /\ Tests!Create[1] = "create" /\ Tests!Stop[1] = "stop"
    /\ Tests!Lock[1] = "lock" /\ Tests!Destroy[1] = "destroy"
  BY DEF Tests!Acquire, Tests!Release, Tests!Fill, Tests!Show, Tests!Start,
         Tests!Size, Tests!Poke, Tests!Sleep, Tests!Sync, Tests!Scattered, Tests!Create,
         Tests!Stop, Tests!Lock, Tests!Destroy

\* Scripts of a few statements that only use what is there.
Still(st) == st \in Tests!Statements /\ st[1] \notin {"acquire", "start"}

\* Such statements are scripts in order by themselves.
LEMMA FewStill ==
    ASSUME NEW later, NEW a, NEW b, NEW c, NEW d, Still(a)
    PROVE  /\ Needing(<<a>>, later)
           /\ Still(b) => Needing(<<a, b>>, later)
           /\ Still(b) /\ Still(c) => Needing(<<a, b, c>>, later)
           /\ Still(b) /\ Still(c) /\ Still(d) => Needing(<<a, b, c, d>>, later)
<1>1. Needing(<<a>>, later)
  <2> DEFINE s == <<a>>
  <2>1. s \in Seq(Tests!Statements)
    BY DEF Still
  <2>2. \A i \in 1 .. Len(s) : s[i] \in {a}
    OBVIOUS
  <2> HIDE DEF s
  <2>3. \A i \in 1 .. Len(s) : s[i][1] \notin {"acquire", "start"}
    BY <2>2 DEF Still
  <2>4. Needing(s, later)
    BY <2>1, <2>3, NeedingNothing
  <2>5. QED
    BY <2>4 DEF s
<1>2. ASSUME Still(b) PROVE Needing(<<a, b>>, later)
  <2> DEFINE s == <<a, b>>
  <2>1. s \in Seq(Tests!Statements)
    BY <1>2 DEF Still
  <2>2. \A i \in 1 .. Len(s) : s[i] \in {a, b}
    OBVIOUS
  <2> HIDE DEF s
  <2>3. \A i \in 1 .. Len(s) : s[i][1] \notin {"acquire", "start"}
    BY <1>2, <2>2 DEF Still
  <2>4. Needing(s, later)
    BY <2>1, <2>3, NeedingNothing
  <2>5. QED
    BY <2>4 DEF s
<1>3. ASSUME Still(b), Still(c) PROVE Needing(<<a, b, c>>, later)
  <2> DEFINE s == <<a, b, c>>
  <2>1. s \in Seq(Tests!Statements)
    BY <1>3 DEF Still
  <2>2. \A i \in 1 .. Len(s) : s[i] \in {a, b, c}
    OBVIOUS
  <2> HIDE DEF s
  <2>3. \A i \in 1 .. Len(s) : s[i][1] \notin {"acquire", "start"}
    BY <1>3, <2>2 DEF Still
  <2>4. Needing(s, later)
    BY <2>1, <2>3, NeedingNothing
  <2>5. QED
    BY <2>4 DEF s
<1>4. ASSUME Still(b), Still(c), Still(d) PROVE Needing(<<a, b, c, d>>, later)
  <2> DEFINE s == <<a, b, c, d>>
  <2>1. s \in Seq(Tests!Statements)
    BY <1>4 DEF Still
  <2>2. \A i \in 1 .. Len(s) : s[i] \in {a, b, c, d}
    OBVIOUS
  <2> HIDE DEF s
  <2>3. \A i \in 1 .. Len(s) : s[i][1] \notin {"acquire", "start"}
    BY <1>4, <2>2 DEF Still
  <2>4. Needing(s, later)
    BY <2>1, <2>3, NeedingNothing
  <2>5. QED
    BY <2>4 DEF s
<1>5. QED
  BY <1>1, <1>2, <1>3, <1>4

\* Statements that only use what is there.
LEMMA StillOnes ==
    /\ \A x \in Tests!Things \ {"lock"} : Still(Tests!Release(x))
    /\ \A m \in Tests!Memories : Still(Tests!Show(m))
    /\ \A m \in Tests!Memories, p \in Tests!Patterns : Still(Tests!Fill(m, p))
    /\ Still(Tests!Size) /\ Still(Tests!Poke) /\ Still(Tests!Sleep) /\ Still(Tests!Sync)
    /\ Still(Tests!Scattered) /\ Still(Tests!Create) /\ Still(Tests!Stop)
    /\ Still(Tests!Lock) /\ Still(Tests!Destroy)
  BY StatementsAre, StatementsSay DEF Still

\* The short scripts.
LEMMA Short ==
    ASSUME NEW later
    PROVE  /\ Needing(Tests!UnmapBars, later)
           /\ Needing(Tests!Blocks, later)
           /\ Needing(<<Tests!Size, Tests!Size>>, later)
           /\ Needing(<<Tests!Release("file")>>, later)
           /\ Needing(<<Tests!Release("object")>>, later)
           /\ Needing(<<Tests!Release("kernel"), Tests!Release("user")>>, later)
           /\ Needing(<<Tests!Release("file"), Tests!Destroy>>, later)
           /\ Needing(<<Tests!Fill("board", "ramp"), Tests!Scattered>>, later)
           /\ Needing(<<Tests!Show("board"), Tests!Release("kernel")>>, later)
<1> USE StillOnes, FewStill DEF Tests!Things, Tests!Memories, Tests!Patterns
<1>1. Needing(Tests!UnmapBars, later)
  BY Zenon DEF Tests!UnmapBars
<1>2. Needing(Tests!Blocks, later)
  BY Zenon DEF Tests!Blocks
<1>3. Needing(<<Tests!Size, Tests!Size>>, later)
  BY Zenon
<1>4. Needing(<<Tests!Release("file")>>, later)
  BY Zenon
<1>5. Needing(<<Tests!Release("object")>>, later)
  BY Zenon
<1>6. Needing(<<Tests!Release("kernel"), Tests!Release("user")>>, later)
  BY Zenon
<1>7. Needing(<<Tests!Release("file"), Tests!Destroy>>, later)
  BY Zenon
<1>8. Needing(<<Tests!Fill("board", "ramp"), Tests!Scattered>>, later)
  BY Zenon
<1>9. Needing(<<Tests!Show("board"), Tests!Release("kernel")>>, later)
  BY Zenon
<1>10. QED
  BY <1>1, <1>2, <1>3, <1>4, <1>5, <1>6, <1>7, <1>8, <1>9

\* Scripts that move words, but none of the user's buffer.
LEMMA NeedingSleep ==
    ASSUME NEW s \in Seq(Tests!Statements), NEW later,
           \A i \in 1 .. Len(s) : s[i][1] # "acquire",
           \A i \in 1 .. Len(s) :
              s[i][1] = "start" => /\ s[i][2] # s[i][3] /\ s[i][2] # "user"
                                   /\ i < Len(s) /\ s[i + 1] = Tests!Sleep
    PROVE  Needing(s, later)
  BY DEF Needing, Tests!Returned, Tests!Slept, Tests!Prepared, Tests!Sends, Tests!Starts

\* A transfer and the sleep after it.
LEMMA Moving ==
    ASSUME NEW later, NEW m \in {"kernel", "board"}, NEW n \in Tests!Memories, m # n
    PROVE  /\ Needing(<<Tests!Start(m, n), Tests!Sleep>>, later)
           /\ \A c : Still(c) => Needing(<<Tests!Start(m, n), Tests!Sleep, c>>, later)
           /\ \A a, b : Still(a) /\ Still(b) =>
                 Needing(<<a, b, Tests!Start(m, n), Tests!Sleep>>, later)
<1> DEFINE x == Tests!Start(m, n)
           z == Tests!Sleep
<1>1. /\ x \in Tests!Statements /\ z \in Tests!Statements
      /\ x[1] = "start" /\ x[2] = m /\ x[3] = n /\ z[1] = "sleep" /\ m # "user"
  BY StatementsAre, StatementsSay DEF Tests!Memories
<1>2. z = Tests!Sleep
  OBVIOUS
<1> HIDE DEF x, z
<1>3. Needing(<<x, z>>, later)
  <2> DEFINE s == <<x, z>>
  <2>1. s \in Seq(Tests!Statements)
    BY <1>1
  <2>2. Len(s) = 2 /\ s[1] = x /\ s[2] = z
    OBVIOUS
  <2> HIDE DEF s
  <2>3. \A i \in 1 .. Len(s) : i = 1 \/ i = 2
    BY <2>2
  <2>4. \A i \in 1 .. Len(s) : s[i][1] # "acquire"
    BY <1>1, <2>2, <2>3
  <2>5. \A i \in 1 .. Len(s) :
            s[i][1] = "start" => /\ s[i][2] # s[i][3] /\ s[i][2] # "user"
                                 /\ i < Len(s) /\ s[i + 1] = Tests!Sleep
    BY <1>1, <1>2, <2>2, <2>3
  <2>6. Needing(s, later)
    BY <2>1, <2>4, <2>5, NeedingSleep
  <2>7. QED
    BY <2>6 DEF s
<1>4. ASSUME NEW c, Still(c) PROVE Needing(<<x, z, c>>, later)
  <2> DEFINE s == <<x, z, c>>
  <2>1. s \in Seq(Tests!Statements)
    BY <1>1, <1>4 DEF Still
  <2>2. Len(s) = 3 /\ s[1] = x /\ s[2] = z /\ s[3] = c
    OBVIOUS
  <2> HIDE DEF s
  <2>3. \A i \in 1 .. Len(s) : i = 1 \/ i = 2 \/ i = 3
    BY <2>2
  <2>4. c[1] \notin {"acquire", "start"}
    BY <1>4 DEF Still
  <2>5. Needing(s, later)
    BY <1>1, <1>2, <2>1, <2>2, <2>3, <2>4, NeedingSleep
  <2>6. QED
    BY <2>5 DEF s
<1>5. ASSUME NEW a, NEW b, Still(a), Still(b) PROVE Needing(<<a, b, x, z>>, later)
  <2> DEFINE s == <<a, b, x, z>>
  <2>1. s \in Seq(Tests!Statements)
    BY <1>1, <1>5 DEF Still
  <2>2. Len(s) = 4 /\ s[1] = a /\ s[2] = b /\ s[3] = x /\ s[4] = z
    OBVIOUS
  <2> HIDE DEF s
  <2>3. \A i \in 1 .. Len(s) : i = 1 \/ i = 2 \/ i = 3 \/ i = 4
    BY <2>2
  <2>4. a[1] \notin {"acquire", "start"} /\ b[1] \notin {"acquire", "start"}
    BY <1>5 DEF Still
  <2>5. Needing(s, later)
    BY <1>1, <1>2, <2>1, <2>2, <2>3, <2>4, NeedingSleep
  <2>6. QED
    BY <2>5 DEF s
<1>6. QED
  BY <1>3, <1>4, <1>5 DEF x, z

\* The tests of transfers, of buffers of the kernel and of the user.
LEMMA WriteTests ==
    ASSUME NEW later, NEW m \in {"kernel", "user"}
    PROVE  /\ Needing(Tests!WriteTest(m, <<>>), later)
           /\ Needing(Tests!WriteTest(m, <<Tests!Sync>>), later)
<1> DEFINE a == <<Tests!Fill(m, "zeros"), Tests!Show(m), Tests!Start("board", m), Tests!Sleep>>
           z == <<Tests!Show(m)>>
<1>1. /\ m \in Tests!Memories /\ "board" # m /\ "zeros" \in Tests!Patterns
  BY DEF Tests!Memories, Tests!Patterns
<1>2. Still(Tests!Fill(m, "zeros")) /\ Still(Tests!Show(m)) /\ Still(Tests!Sync)
  BY <1>1, StillOnes
<1>3. \A r : Needing(a, r)
  BY <1>1, <1>2, Moving, Zenon
<1>4. \A r : Needing(z, r) /\ Needing(<<Tests!Sync>>, r)
  BY <1>2, FewStill, Zenon
<1>5. \A r : Needing(<<>>, r)
  <2>1. <<>> \in Seq(Tests!Statements) /\ \A i \in 1 .. Len(<<>>) : FALSE
    OBVIOUS
  <2>2. QED
    BY <2>1, NeedingNothing, Zenon
<1>6. Tests!WriteTest(m, <<>>) = (a \o <<>>) \o z
  BY DEF Tests!WriteTest
<1>7. Tests!WriteTest(m, <<Tests!Sync>>) = (a \o <<Tests!Sync>>) \o z
  BY DEF Tests!WriteTest
<1> HIDE DEF a, z
<1>8. Needing(a \o <<>>, later) /\ Needing(a \o <<Tests!Sync>>, later)
  BY <1>3, <1>4, <1>5, NeedingJoined
<1>9. Needing((a \o <<>>) \o z, later) /\ Needing((a \o <<Tests!Sync>>) \o z, later)
  BY <1>3, <1>4, <1>5, <1>8, NeedingJoined
<1>10. QED
  BY <1>6, <1>7, <1>9, Zenon

\* The user's buffer is filled and synced before the board reads it.
LEMMA ReadTests ==
    ASSUME NEW later
    PROVE  /\ Needing(Tests!ReadTest("kernel", <<>>), later)
           /\ Needing(Tests!ReadTest("user", <<Tests!Sync>>), later)
<1>1. Needing(Tests!ReadTest("kernel", <<>>), later)
  <2> DEFINE a == <<Tests!Fill("kernel", "fives"), Tests!Show("kernel"),
                    Tests!Fill("board", "zeros"), Tests!Show("board")>>
             z == <<Tests!Start("kernel", "board"), Tests!Sleep, Tests!Show("board")>>
  <2>1. \A r : Needing(a, r)
    BY StillOnes, FewStill, Zenon DEF Tests!Memories, Tests!Patterns
  <2>2. \A r : Needing(z, r)
    BY StillOnes, Moving DEF Tests!Memories
  <2>3. \A r : Needing(<<>>, r)
    <3>1. <<>> \in Seq(Tests!Statements) /\ \A i \in 1 .. Len(<<>>) : FALSE
      OBVIOUS
    <3>2. QED
      BY <3>1, NeedingNothing, Zenon
  <2>4. Tests!ReadTest("kernel", <<>>) = (a \o <<>>) \o z
    BY DEF Tests!ReadTest
  <2> HIDE DEF a, z
  <2>5. Needing(a \o <<>>, later)
    BY <2>1, <2>3, NeedingJoined
  <2>6. QED
    BY <2>2, <2>4, <2>5, NeedingJoined, Zenon
<1>2. Needing(Tests!ReadTest("user", <<Tests!Sync>>), later)
  <2> DEFINE a == Tests!Fill("user", "fives")
             b == Tests!Show("user")
             c == Tests!Fill("board", "zeros")
             d == Tests!Show("board")
             e == Tests!Sync
             f == Tests!Start("user", "board")
             g == Tests!Sleep
             first == <<a, b, c, d>>
             last == <<f, g, d>>
             half == first \o <<e>>
             s == half \o last
  <2>1. {a, b, c, d, e, f, g} \subseteq Tests!Statements
    BY StatementsAre DEF Tests!Memories, Tests!Patterns
  <2>2. /\ a[1] = "fill" /\ a[2] = "user" /\ b[1] = "show" /\ c[1] = "fill" /\ c[2] = "board"
        /\ d[1] = "show" /\ e[1] = "sync" /\ e = Tests!Sync
        /\ f[1] = "start" /\ f[2] = "user" /\ f[3] = "board" /\ g[1] = "sleep"
        /\ g = Tests!Sleep
    BY StatementsSay
  <2>3. Tests!ReadTest("user", <<Tests!Sync>>) = s
    BY DEF Tests!ReadTest
  <2> HIDE DEF a, b, c, d, e, f, g
  <2>0. /\ first \in Seq(Tests!Statements) /\ last \in Seq(Tests!Statements)
        /\ <<e>> \in Seq(Tests!Statements)
    BY <2>1
  <2>01. /\ Len(first) = 4 /\ Len(last) = 3 /\ Len(<<e>>) = 1
         /\ first[1] = a /\ first[2] = b /\ first[3] = c /\ first[4] = d /\ <<e>>[1] = e
         /\ last[1] = f /\ last[2] = g /\ last[3] = d
    OBVIOUS
  <2> HIDE DEF first, last, half, s
  <2>02. /\ half \in Seq(Tests!Statements) /\ Len(half) = 5
         /\ half[1] = a /\ half[2] = b /\ half[3] = c /\ half[4] = d /\ half[4 + 1] = e
    <3> DEFINE one == <<e>>
    <3>0. one = <<e>> /\ Len(one) = 1 /\ one[1] = e /\ one \in Seq(Tests!Statements)
      BY <2>0, <2>01
    <3> HIDE DEF one
    <3>1. /\ first \o one \in Seq(Tests!Statements)
          /\ Len(first \o one) = Len(first) + Len(one)
          /\ \A i \in 1 .. Len(first) : (first \o one)[i] = first[i]
          /\ \A i \in 1 .. Len(one) : (first \o one)[Len(first) + i] = one[i]
      BY <2>0, <3>0, Joined
    <3>2. half = first \o one
      BY <3>0 DEF half
    <3>3. QED
      BY <2>01, <3>0, <3>1, <3>2
  <2>4. /\ s \in Seq(Tests!Statements) /\ Len(s) = 8
        /\ s[1] = a /\ s[2] = b /\ s[3] = c /\ s[4] = d /\ s[5] = half[5]
        /\ s[5 + 1] = f /\ s[5 + 2] = g /\ s[5 + 3] = d
    <3>1. /\ half \o last \in Seq(Tests!Statements)
          /\ Len(half \o last) = Len(half) + Len(last)
          /\ \A i \in 1 .. Len(half) : (half \o last)[i] = half[i]
          /\ \A i \in 1 .. Len(last) : (half \o last)[Len(half) + i] = last[i]
      BY <2>0, <2>02, Joined, Zenon
    <3>2. s = half \o last
      BY DEF s
    <3>3. QED
      BY <2>01, <2>02, <3>1, <3>2
  <2>5. /\ Len(s) = 8 /\ s[1] = a /\ s[2] = b /\ s[3] = c /\ s[4] = d /\ s[5] = e
        /\ s[6] = f /\ s[7] = g /\ s[8] = d
    BY <2>02, <2>4
  <2>6. \A i \in 1 .. Len(s) : i \in {1, 2, 3, 4, 5, 6, 7, 8}
    BY <2>5
  <2>7. Tests!Returned(s, later)
    BY <2>2, <2>5, <2>6 DEF Tests!Returned
  <2>8. Tests!Slept(s)
    BY <2>2, <2>5, <2>6 DEF Tests!Slept, Tests!Starts
  <2>9. Tests!FilledAndSynced(s, 6)
    <3>1. Tests!Fills(s, 1) /\ s[5] = Tests!Sync /\ 1 \in 1 .. 6 - 1 /\ 5 \in 1 + 1 .. 6 - 1
      BY <2>2, <2>5 DEF Tests!Fills
    <3>2. Tests!NotBrought(s, 1, 6)
      BY <2>2, <2>5 DEF Tests!NotBrought, Tests!Brings, Tests!Starts
    <3>3. Tests!NotFilled(s, 5, 6)
      BY DEF Tests!NotFilled
    <3>4. QED
      BY <3>1, <3>2, <3>3 DEF Tests!FilledAndSynced
  <2>10. Tests!Prepared(s)
    BY <2>2, <2>5, <2>6, <2>9 DEF Tests!Sends, Tests!Starts, Tests!Prepared
  <2>11. QED
    BY <2>3, <2>4, <2>7, <2>8, <2>10 DEF Needing
<1>3. QED
  BY <1>1, <1>2

\* A thing that a statement of a script gives back is one the script gives back.
LEMMA GivesOne ==
    ASSUME NEW s, NEW i \in 1 .. Len(s), NEW x \in Tests!Things \ {"lock"},
           s[i] = Tests!Release(x)
    PROVE  x \in Tests!GivenBy(s)
<1>1. s[i][1] = "release" /\ s[i][2] = x
  BY StatementsSay
<1>2. x \in Tests!Given(x)
  BY DEF Tests!Given
<1>3. QED
  BY <1>1, <1>2 DEF Tests!GivenBy, Tests!Gives

\* The scripts that acquire things, and those that keep them for no longer than
\* they run.
LEMMA Acquiring ==
    ASSUME NEW later
    PROVE  /\ {"bar0", "bar1"} \subseteq later => Needing(Tests!MapBars, later)
           /\ "file" \in later => Needing(<<Tests!Acquire("file")>>, later)
           /\ "file" \in later => Needing(<<Tests!Create, Tests!Acquire("file")>>, later)
           /\ {"object", "file"} \subseteq later =>
                 Needing(<<Tests!Acquire("object"), Tests!Acquire("file")>>, later)
           /\ {"kernel", "user"} \subseteq later =>
                 Needing(<<Tests!Acquire("kernel"), Tests!Acquire("user")>>, later)
           /\ "kernel" \in later =>
                 Needing(<<Tests!Poke, Tests!Acquire("kernel"), Tests!Fill("kernel", "zeros")>>, later)
           /\ Needing(<<Tests!Acquire("bar0"), Tests!Release("bar0"), Tests!Size>>, later)
           /\ Needing(<<Tests!Acquire("bar1"), Tests!Release("bar1"), Tests!Size>>, later)
           /\ Needing(<<Tests!Acquire("kernel"), Tests!Sleep, Tests!Stop, Tests!Lock,
                        Tests!Destroy, Tests!Release("kernel")>>, later)
<1>1. ASSUME "bar0" \in later, "bar1" \in later
      PROVE  Needing(Tests!MapBars, later)
  <2> DEFINE a == Tests!Acquire("bar0")
             b == Tests!Acquire("bar1")
             s == <<a, b>>
  <2>1. {a, b} \subseteq Tests!Statements
    BY StatementsAre DEF Tests!Things, Tests!Memories, Tests!Patterns
  <2>2. a[1] = "acquire" /\ a[2] = "bar0" /\ b[1] = "acquire" /\ b[2] = "bar1"
    BY StatementsSay
  <2> HIDE DEF a, b
  <2>3. s \in Seq(Tests!Statements)
    BY <2>1
  <2>4. Len(s) = 2 /\ s[1] = a /\ s[2] = b
    OBVIOUS
  <2> HIDE DEF s
  <2>5. \A i \in 1 .. Len(s) : i = 1 \/ i = 2
    BY <2>4
  <2>6. \A i \in 1 .. Len(s) : s[i][1] # "start"
    BY <2>2, <2>4, <2>5
  <2>9. Tests!Returned(s, later)
    BY <1>1, <2>2, <2>4, <2>5 DEF Tests!Returned
  <2>10. Needing(s, later)
    BY <2>3, <2>6, <2>9, NeedingAlone
  <2>11. QED
    BY <2>10 DEF s, a, b, Tests!MapBars
<1>2. ASSUME "file" \in later PROVE Needing(<<Tests!Acquire("file")>>, later)
  <2> DEFINE a == Tests!Acquire("file")
             s == <<a>>
  <2>1. {a} \subseteq Tests!Statements
    BY StatementsAre DEF Tests!Things, Tests!Memories, Tests!Patterns
  <2>2. a[1] = "acquire" /\ a[2] = "file"
    BY StatementsSay
  <2> HIDE DEF a
  <2>3. s \in Seq(Tests!Statements)
    BY <2>1
  <2>4. Len(s) = 1 /\ s[1] = a
    OBVIOUS
  <2> HIDE DEF s
  <2>5. \A i \in 1 .. Len(s) : i = 1
    BY <2>4
  <2>6. \A i \in 1 .. Len(s) : s[i][1] # "start"
    BY <2>2, <2>4, <2>5
  <2>9. Tests!Returned(s, later)
    BY <1>2, <2>2, <2>4, <2>5 DEF Tests!Returned
  <2>10. Needing(s, later)
    BY <2>3, <2>6, <2>9, NeedingAlone
  <2>11. QED
    BY <2>10 DEF s, a
<1>3. ASSUME "file" \in later
      PROVE  Needing(<<Tests!Create, Tests!Acquire("file")>>, later)
  <2> DEFINE a == Tests!Create
             b == Tests!Acquire("file")
             s == <<a, b>>
  <2>1. {a, b} \subseteq Tests!Statements
    BY StatementsAre DEF Tests!Things, Tests!Memories, Tests!Patterns
  <2>2. a[1] = "create" /\ b[1] = "acquire" /\ b[2] = "file"
    BY StatementsSay
  <2> HIDE DEF a, b
  <2>3. s \in Seq(Tests!Statements)
    BY <2>1
  <2>4. Len(s) = 2 /\ s[1] = a /\ s[2] = b
    OBVIOUS
  <2> HIDE DEF s
  <2>5. \A i \in 1 .. Len(s) : i = 1 \/ i = 2
    BY <2>4
  <2>6. \A i \in 1 .. Len(s) : s[i][1] # "start"
    BY <2>2, <2>4, <2>5
  <2>9. Tests!Returned(s, later)
    BY <1>3, <2>2, <2>4, <2>5 DEF Tests!Returned
  <2>10. Needing(s, later)
    BY <2>3, <2>6, <2>9, NeedingAlone
  <2>11. QED
    BY <2>10 DEF s, a, b
<1>4. ASSUME "object" \in later, "file" \in later
      PROVE  Needing(<<Tests!Acquire("object"), Tests!Acquire("file")>>, later)
  <2> DEFINE a == Tests!Acquire("object")
             b == Tests!Acquire("file")
             s == <<a, b>>
  <2>1. {a, b} \subseteq Tests!Statements
    BY StatementsAre DEF Tests!Things, Tests!Memories, Tests!Patterns
  <2>2. a[1] = "acquire" /\ a[2] = "object" /\ b[1] = "acquire" /\ b[2] = "file"
    BY StatementsSay
  <2> HIDE DEF a, b
  <2>3. s \in Seq(Tests!Statements)
    BY <2>1
  <2>4. Len(s) = 2 /\ s[1] = a /\ s[2] = b
    OBVIOUS
  <2> HIDE DEF s
  <2>5. \A i \in 1 .. Len(s) : i = 1 \/ i = 2
    BY <2>4
  <2>6. \A i \in 1 .. Len(s) : s[i][1] # "start"
    BY <2>2, <2>4, <2>5
  <2>9. Tests!Returned(s, later)
    BY <1>4, <2>2, <2>4, <2>5 DEF Tests!Returned
  <2>10. Needing(s, later)
    BY <2>3, <2>6, <2>9, NeedingAlone
  <2>11. QED
    BY <2>10 DEF s, a, b
<1>5. ASSUME "kernel" \in later, "user" \in later
      PROVE  Needing(<<Tests!Acquire("kernel"), Tests!Acquire("user")>>, later)
  <2> DEFINE a == Tests!Acquire("kernel")
             b == Tests!Acquire("user")
             s == <<a, b>>
  <2>1. {a, b} \subseteq Tests!Statements
    BY StatementsAre DEF Tests!Things, Tests!Memories, Tests!Patterns
  <2>2. a[1] = "acquire" /\ a[2] = "kernel" /\ b[1] = "acquire" /\ b[2] = "user"
    BY StatementsSay
  <2> HIDE DEF a, b
  <2>3. s \in Seq(Tests!Statements)
    BY <2>1
  <2>4. Len(s) = 2 /\ s[1] = a /\ s[2] = b
    OBVIOUS
  <2> HIDE DEF s
  <2>5. \A i \in 1 .. Len(s) : i = 1 \/ i = 2
    BY <2>4
  <2>6. \A i \in 1 .. Len(s) : s[i][1] # "start"
    BY <2>2, <2>4, <2>5
  <2>9. Tests!Returned(s, later)
    BY <1>5, <2>2, <2>4, <2>5 DEF Tests!Returned
  <2>10. Needing(s, later)
    BY <2>3, <2>6, <2>9, NeedingAlone
  <2>11. QED
    BY <2>10 DEF s, a, b
<1>6. ASSUME "kernel" \in later
      PROVE  Needing(<<Tests!Poke, Tests!Acquire("kernel"), Tests!Fill("kernel", "zeros")>>, later)
  <2> DEFINE a == Tests!Poke
             b == Tests!Acquire("kernel")
             c == Tests!Fill("kernel", "zeros")
             s == <<a, b, c>>
  <2>1. {a, b, c} \subseteq Tests!Statements
    BY StatementsAre DEF Tests!Things, Tests!Memories, Tests!Patterns
  <2>2. a[1] = "poke" /\ b[1] = "acquire" /\ b[2] = "kernel" /\ c[1] = "fill" /\ c[2] = "kernel"
    BY StatementsSay
  <2> HIDE DEF a, b, c
  <2>3. s \in Seq(Tests!Statements)
    BY <2>1
  <2>4. Len(s) = 3 /\ s[1] = a /\ s[2] = b /\ s[3] = c
    OBVIOUS
  <2> HIDE DEF s
  <2>5. \A i \in 1 .. Len(s) : i = 1 \/ i = 2 \/ i = 3
    BY <2>4
  <2>6. \A i \in 1 .. Len(s) : s[i][1] # "start"
    BY <2>2, <2>4, <2>5
  <2>9. Tests!Returned(s, later)
    BY <1>6, <2>2, <2>4, <2>5 DEF Tests!Returned
  <2>10. Needing(s, later)
    BY <2>3, <2>6, <2>9, NeedingAlone
  <2>11. QED
    BY <2>10 DEF s, a, b, c
<1>7. Needing(<<Tests!Acquire("bar0"), Tests!Release("bar0"), Tests!Size>>, later)
  <2> DEFINE a == Tests!Acquire("bar0")
             b == Tests!Release("bar0")
             c == Tests!Size
             s == <<a, b, c>>
  <2>1. {a, b, c} \subseteq Tests!Statements
    BY StatementsAre DEF Tests!Things, Tests!Memories, Tests!Patterns
  <2>2. a[1] = "acquire" /\ a[2] = "bar0" /\ b[1] = "release" /\ b[2] = "bar0" /\ c[1] = "size"
    BY StatementsSay
  <2> HIDE DEF a, b, c
  <2>3. s \in Seq(Tests!Statements)
    BY <2>1
  <2>4. Len(s) = 3 /\ s[1] = a /\ s[2] = b /\ s[3] = c
    OBVIOUS
  <2> HIDE DEF s
  <2>5. \A i \in 1 .. Len(s) : i = 1 \/ i = 2 \/ i = 3
    BY <2>4
  <2>6. \A i \in 1 .. Len(s) : s[i][1] # "start"
    BY <2>2, <2>4, <2>5
  <2>7. Tests!Gives(s, 2, "bar0")
    BY <2>2, <2>4 DEF Tests!Gives, Tests!Given
  <2>8. 2 \in 1 + 1 .. Len(s)
    BY <2>4
  <2>9. Tests!Returned(s, later)
    BY <2>2, <2>4, <2>5, <2>7, <2>8 DEF Tests!Returned
  <2>10. Needing(s, later)
    BY <2>3, <2>6, <2>9, NeedingAlone
  <2>11. QED
    BY <2>10 DEF s, a, b, c
<1>8. Needing(<<Tests!Acquire("bar1"), Tests!Release("bar1"), Tests!Size>>, later)
  <2> DEFINE a == Tests!Acquire("bar1")
             b == Tests!Release("bar1")
             c == Tests!Size
             s == <<a, b, c>>
  <2>1. {a, b, c} \subseteq Tests!Statements
    BY StatementsAre DEF Tests!Things, Tests!Memories, Tests!Patterns
  <2>2. a[1] = "acquire" /\ a[2] = "bar1" /\ b[1] = "release" /\ b[2] = "bar1" /\ c[1] = "size"
    BY StatementsSay
  <2> HIDE DEF a, b, c
  <2>3. s \in Seq(Tests!Statements)
    BY <2>1
  <2>4. Len(s) = 3 /\ s[1] = a /\ s[2] = b /\ s[3] = c
    OBVIOUS
  <2> HIDE DEF s
  <2>5. \A i \in 1 .. Len(s) : i = 1 \/ i = 2 \/ i = 3
    BY <2>4
  <2>6. \A i \in 1 .. Len(s) : s[i][1] # "start"
    BY <2>2, <2>4, <2>5
  <2>7. Tests!Gives(s, 2, "bar1")
    BY <2>2, <2>4 DEF Tests!Gives, Tests!Given
  <2>8. 2 \in 1 + 1 .. Len(s)
    BY <2>4
  <2>9. Tests!Returned(s, later)
    BY <2>2, <2>4, <2>5, <2>7, <2>8 DEF Tests!Returned
  <2>10. Needing(s, later)
    BY <2>3, <2>6, <2>9, NeedingAlone
  <2>11. QED
    BY <2>10 DEF s, a, b, c
<1>9. Needing(<<Tests!Acquire("kernel"), Tests!Sleep, Tests!Stop, Tests!Lock,
               Tests!Destroy, Tests!Release("kernel")>>, later)
  <2> DEFINE a == Tests!Acquire("kernel")
             b == Tests!Sleep
             c == Tests!Stop
             d == Tests!Lock
             e == Tests!Destroy
             f == Tests!Release("kernel")
             s == <<a, b, c, d, e, f>>
  <2>1. {a, b, c, d, e, f} \subseteq Tests!Statements
    BY StatementsAre DEF Tests!Things, Tests!Memories, Tests!Patterns
  <2>2. a[1] = "acquire" /\ a[2] = "kernel" /\ b[1] = "sleep" /\ c[1] = "stop" /\ d[1] = "lock" /\ e[1] = "destroy" /\ f[1] = "release" /\ f[2] = "kernel"
    BY StatementsSay
  <2> HIDE DEF a, b, c, d, e, f
  <2>3. s \in Seq(Tests!Statements)
    BY <2>1
  <2>4. Len(s) = 6 /\ s[1] = a /\ s[2] = b /\ s[3] = c /\ s[4] = d /\ s[5] = e /\ s[6] = f
    OBVIOUS
  <2> HIDE DEF s
  <2>5. \A i \in 1 .. Len(s) : i = 1 \/ i = 2 \/ i = 3 \/ i = 4 \/ i = 5 \/ i = 6
    BY <2>4
  <2>6. \A i \in 1 .. Len(s) : s[i][1] # "start"
    BY <2>2, <2>4, <2>5
  <2>7. Tests!Gives(s, 6, "kernel")
    BY <2>2, <2>4 DEF Tests!Gives, Tests!Given
  <2>8. 6 \in 1 + 1 .. Len(s)
    BY <2>4
  <2>9. Tests!Returned(s, later)
    BY <2>2, <2>4, <2>5, <2>7, <2>8 DEF Tests!Returned
  <2>10. Needing(s, later)
    BY <2>3, <2>6, <2>9, NeedingAlone
  <2>11. QED
    BY <2>10 DEF s, a, b, c, d, e, f
<1>10. QED
  BY <1>1, <1>2, <1>3, <1>4, <1>5, <1>6, <1>7, <1>8, <1>9

\* What the ends of the tests give back.
LEMMA Ends ==
    ASSUME NEW later
    PROVE  /\ {"bar0", "bar1"} \subseteq Tests!GivenBy(Tests!UnmapBars)
           /\ "file" \in Tests!GivenBy(<<Tests!Release("file")>>)
           /\ {"object", "file"} \subseteq Tests!GivenBy(<<Tests!Release("object")>>)
           /\ "file" \in Tests!GivenBy(<<Tests!Release("file"), Tests!Destroy>>)
           /\ "kernel" \in Tests!GivenBy(<<Tests!Show("board"), Tests!Release("kernel")>>)
           /\ Needing(Tests!Cleanup, later)
           /\ {"file", "bar0", "bar1", "kernel", "user"} \subseteq Tests!GivenBy(Tests!Cleanup)
<1>1. {"bar0", "bar1"} \subseteq Tests!GivenBy(Tests!UnmapBars)
  <2> DEFINE s == Tests!UnmapBars
  <2>1. 1 \in 1 .. Len(s) /\ 2 \in 1 .. Len(s)
        /\ s[1] = Tests!Release("bar0") /\ s[2] = Tests!Release("bar1")
    BY DEF Tests!UnmapBars
  <2> HIDE DEF s
  <2>2. "bar0" \in Tests!GivenBy(s) /\ "bar1" \in Tests!GivenBy(s)
    BY <2>1, GivesOne DEF Tests!Things
  <2>3. QED
    BY <2>2 DEF s
<1>2. "file" \in Tests!GivenBy(<<Tests!Release("file")>>)
  <2> DEFINE s == <<Tests!Release("file")>>
  <2>1. 1 \in 1 .. Len(s) /\ s[1] = Tests!Release("file")
    OBVIOUS
  <2> HIDE DEF s
  <2>2. "file" \in Tests!GivenBy(s)
    BY <2>1, GivesOne DEF Tests!Things
  <2>3. QED
    BY <2>2 DEF s
<1>3. {"object", "file"} \subseteq Tests!GivenBy(<<Tests!Release("object")>>)
  <2> DEFINE s == <<Tests!Release("object")>>
  <2>1. 1 \in 1 .. Len(s) /\ s[1] = Tests!Release("object")
    OBVIOUS
  <2> HIDE DEF s
  <2>2. s[1][1] = "release" /\ s[1][2] = "object"
    BY <2>1, StatementsSay
  <2>3. "object" \in Tests!GivenBy(s) /\ "file" \in Tests!GivenBy(s)
    BY <2>1, <2>2 DEF Tests!GivenBy, Tests!Gives, Tests!Given, Tests!Things
  <2>4. QED
    BY <2>3 DEF s
<1>4. "file" \in Tests!GivenBy(<<Tests!Release("file"), Tests!Destroy>>)
  <2> DEFINE s == <<Tests!Release("file"), Tests!Destroy>>
  <2>1. 1 \in 1 .. Len(s) /\ s[1] = Tests!Release("file")
    OBVIOUS
  <2> HIDE DEF s
  <2>2. "file" \in Tests!GivenBy(s)
    BY <2>1, GivesOne DEF Tests!Things
  <2>3. QED
    BY <2>2 DEF s
<1>5. "kernel" \in Tests!GivenBy(<<Tests!Show("board"), Tests!Release("kernel")>>)
  <2> DEFINE s == <<Tests!Show("board"), Tests!Release("kernel")>>
  <2>1. 2 \in 1 .. Len(s) /\ s[2] = Tests!Release("kernel")
    OBVIOUS
  <2> HIDE DEF s
  <2>2. "kernel" \in Tests!GivenBy(s)
    BY <2>1, GivesOne DEF Tests!Things
  <2>3. QED
    BY <2>2 DEF s
<1> DEFINE a == <<Tests!Release("kernel"), Tests!Release("user")>>
           b == Tests!UnmapBars
           c == <<Tests!Release("file")>>
<1>6. "kernel" \in Tests!GivenBy(a) /\ "user" \in Tests!GivenBy(a)
  <2>1. 1 \in 1 .. Len(a) /\ 2 \in 1 .. Len(a)
        /\ a[1] = Tests!Release("kernel") /\ a[2] = Tests!Release("user")
    OBVIOUS
  <2> HIDE DEF a
  <2>2. QED
    BY <2>1, GivesOne DEF Tests!Things
<1>7. \A r : Needing(a, r) /\ Needing(b, r) /\ Needing(c, r)
  BY Short
<1>8. Tests!Cleanup = (a \o b) \o c
  BY DEF Tests!Cleanup
<1> HIDE DEF a, b, c
<1>9. \A r : Needing(a \o b, r)
  BY <1>7, NeedingJoined
<1>10. Needing((a \o b) \o c, later)
  BY <1>7, <1>9, NeedingJoined
<1>11. /\ a \in Seq(Tests!Statements) /\ b \in Seq(Tests!Statements)
       /\ c \in Seq(Tests!Statements) /\ a \o b \in Seq(Tests!Statements)
  BY <1>7, <1>9 DEF Needing
<1>12. Tests!GivenBy((a \o b) \o c) =
         (Tests!GivenBy(a) \cup Tests!GivenBy(b)) \cup Tests!GivenBy(c)
  BY <1>11, JoinedGives, Zenon
<1>13. "file" \in Tests!GivenBy(c) /\ {"bar0", "bar1"} \subseteq Tests!GivenBy(b)
  BY <1>1, <1>2 DEF b, c
<1>14. QED
  BY <1>1, <1>2, <1>3, <1>4, <1>5, <1>6, <1>8, <1>10, <1>12, <1>13

\* The tests of testPCIeBoard, testDMA and testDMA_c give back what they take.
LEMMA DirectIO ==
    Needing(Tests!TestDirectIO, {}) /\ Needing(Tests!CTestDirectIO, {})
<1> DEFINE a == <<Tests!Acquire("file")>>
           b == Tests!MapBars
           c == <<Tests!Size, Tests!Size>>
           d == Tests!Blocks
           e == Tests!UnmapBars
           f == <<Tests!Release("file")>>
           all == {"file", "bar0", "bar1"}
<1>1. Tests!TestDirectIO = ((((a \o b) \o c) \o d) \o e) \o f
  BY DEF Tests!TestDirectIO
<1>2. Tests!CTestDirectIO = (b \o d) \o e
  BY DEF Tests!CTestDirectIO
<1>3. Needing(a, all) /\ Needing(b, all) /\ Needing(b, {"bar0", "bar1"})
  BY Acquiring
<1>4. \A r : Needing(c, r) /\ Needing(d, r) /\ Needing(e, r) /\ Needing(f, r)
  BY Short
<1>5. {"bar0", "bar1"} \subseteq Tests!GivenBy(e) /\ "file" \in Tests!GivenBy(f)
  BY Ends
<1> HIDE DEF a, b, c, d, e, f
<1>6. Needing(a \o b, all)
  BY <1>3, NeedingJoined
<1>7. Needing((a \o b) \o c, all)
  BY <1>4, <1>6, NeedingJoined
<1>8. Needing(((a \o b) \o c) \o d, all)
  BY <1>4, <1>7, NeedingJoined
<1>9. Needing((((a \o b) \o c) \o d) \o e, {"file"})
  <2>1. all \subseteq Tests!GivenBy(e) \cup {"file"}
    BY <1>5
  <2>2. Needing(e, {"file"})
    BY <1>4
  <2> HIDE DEF all
  <2>3. QED
    BY <1>8, <2>1, <2>2, NeedingJoined
<1>10. Needing(((((a \o b) \o c) \o d) \o e) \o f, {})
  BY <1>4, <1>5, <1>9, NeedingJoined
<1>11. Needing(b \o d, {"bar0", "bar1"})
  BY <1>3, <1>4, NeedingJoined
<1>12. Needing((b \o d) \o e, {})
  BY <1>4, <1>5, <1>11, NeedingJoined
<1>13. QED
  BY <1>1, <1>2, <1>10, <1>12

\* The tests of DMA begin by taking five things, and end by giving them back.
AllFive == {"file", "bar0", "bar1", "kernel", "user"}

\* The set-up takes them.
LEMMA SetupNeeds == Needing(Tests!Setup, AllFive)
<1> DEFINE a == <<Tests!Acquire("file")>>
           b == Tests!MapBars
           c == <<Tests!Acquire("kernel"), Tests!Acquire("user")>>
<1>1. Tests!Setup = (a \o b) \o c
  BY DEF Tests!Setup
<1>2. Needing(a, AllFive) /\ Needing(b, AllFive) /\ Needing(c, AllFive)
  BY Acquiring DEF AllFive
<1> HIDE DEF a, b, c
<1>3. Needing(a \o b, AllFive)
  BY <1>2, NeedingJoined
<1>4. QED
  BY <1>1, <1>2, <1>3, NeedingJoined

\* Whatever a test has done after that, the clean-up leaves nothing.
LEMMA CleanedUp ==
    ASSUME NEW s, Needing(s, AllFive)
    PROVE  Needing(s \o Tests!Cleanup, {})
<1>1. AllFive \subseteq Tests!GivenBy(Tests!Cleanup) \cup {} /\ Needing(Tests!Cleanup, {})
  BY Ends DEF AllFive
<1>2. QED
  BY <1>1, NeedingJoined

\* testPCIeBoard's test of DMA.
LEMMA PcieDMA == Needing(Tests!PcieTestDMA, {})
<1> DEFINE a == Tests!Setup
           b == Tests!WriteTest("kernel", <<>>)
           c == Tests!ReadTest("kernel", <<>>)
           d == <<Tests!Fill("board", "ramp"), Tests!Scattered>>
           e == Tests!WriteTest("user", <<Tests!Sync>>)
           f == Tests!ReadTest("user", <<Tests!Sync>>)
           g == Tests!Cleanup
<1>1. Tests!PcieTestDMA = (((((a \o b) \o c) \o d) \o e) \o f) \o g
  BY DEF Tests!PcieTestDMA
<1>2. /\ Needing(a, AllFive) /\ Needing(b, AllFive) /\ Needing(c, AllFive)
      /\ Needing(d, AllFive) /\ Needing(e, AllFive) /\ Needing(f, AllFive)
  BY SetupNeeds, WriteTests, ReadTests, Short
<1>3. \A s : Needing(s, AllFive) => Needing(s \o g, {})
  BY CleanedUp
<1> HIDE DEF a, b, c, d, e, f, g
<1>4. \A s, t : Needing(s, AllFive) /\ Needing(t, AllFive) => Needing(s \o t, AllFive)
  BY NeedingJoined
<1>5. Needing((a \o b) \o c, AllFive)
  BY <1>2, <1>4
<1>6. Needing(((a \o b) \o c) \o d, AllFive)
  BY <1>2, <1>4, <1>5
<1>7. Needing(((((a \o b) \o c) \o d) \o e) \o f, AllFive)
  BY <1>2, <1>4, <1>6
<1>8. QED
  BY <1>1, <1>3, <1>7

\* The transfers of testDMA.
LEMMA KernelMemory == Needing(Tests!TestDMAKernelMemory, AllFive)
<1> DEFINE a == <<Tests!Fill("kernel", "zeros")>>
           b == Tests!WriteDMA
           c == <<Tests!Show("board"), Tests!Fill("kernel", "stripes")>>
           d == <<Tests!Show("board"), Tests!Fill("kernel", "zeros")>>
           e == Tests!ReadDMA
           f == <<Tests!Show("kernel"), Tests!Fill("board", "zeros")>>
           g == <<Tests!Show("kernel")>>
<1>1. Tests!TestDMAKernelMemory =
        (((((((a \o b) \o c) \o b) \o d) \o e) \o f) \o e) \o g
  BY DEF Tests!TestDMAKernelMemory
<1>2. Needing(a, AllFive) /\ Needing(c, AllFive) /\ Needing(d, AllFive)
  BY StillOnes, FewStill, Zenon DEF Tests!Memories, Tests!Patterns
<1>3. Needing(f, AllFive) /\ Needing(g, AllFive)
  BY StillOnes, FewStill, Zenon DEF Tests!Memories, Tests!Patterns
<1>4. Needing(b, AllFive) /\ Needing(e, AllFive)
  BY Moving DEF Tests!WriteDMA, Tests!ReadDMA, Tests!Memories
<1> HIDE DEF a, b, c, d, e, f, g
<1>5. \A s, t : Needing(s, AllFive) /\ Needing(t, AllFive) => Needing(s \o t, AllFive)
  BY NeedingJoined
<1>6. Needing((a \o b) \o c, AllFive)
  BY <1>2, <1>4, <1>5
<1>7. Needing((((a \o b) \o c) \o b) \o d, AllFive)
  BY <1>2, <1>4, <1>5, <1>6
<1>8. Needing((((((a \o b) \o c) \o b) \o d) \o e) \o f, AllFive)
  BY <1>3, <1>4, <1>5, <1>7
<1>9. QED
  BY <1>1, <1>3, <1>4, <1>5, <1>8

\* testDMA's test of DMA.
LEMMA DmaDMA == Needing(Tests!DmaTestDMA, {})
<1>1. Tests!DmaTestDMA = (Tests!Setup \o Tests!TestDMAKernelMemory) \o Tests!Cleanup
  BY DEF Tests!DmaTestDMA
<1>2. Needing(Tests!Setup \o Tests!TestDMAKernelMemory, AllFive)
  BY SetupNeeds, KernelMemory, NeedingJoined
<1>3. QED
  BY <1>1, <1>2, CleanedUp

\* The test of interrupts.
LEMMA InterruptTest == Needing(Tests!TestInterrupts, {})
<1> DEFINE a == <<Tests!Create, Tests!Acquire("file")>>
           b == Tests!MapBars
           c == <<Tests!Acquire("kernel"), Tests!Sleep, Tests!Stop, Tests!Lock,
                  Tests!Destroy, Tests!Release("kernel")>>
           d == Tests!UnmapBars
           e == <<Tests!Release("file"), Tests!Destroy>>
           all == {"file", "bar0", "bar1"}
<1>1. Tests!TestInterrupts = (((a \o b) \o c) \o d) \o e
  BY DEF Tests!TestInterrupts
<1>2. Needing(a, all) /\ Needing(b, all) /\ Needing(c, all)
  BY Acquiring
<1>3. all \subseteq Tests!GivenBy(d) \cup {"file"} /\ Needing(d, {"file"})
  BY Ends, Short
<1>4. {"file"} \subseteq Tests!GivenBy(e) \cup {} /\ Needing(e, {})
  BY Ends, Short
<1> HIDE DEF a, b, c, d, e, all
<1>5. Needing((a \o b), all)
  BY <1>2, NeedingJoined
<1>6. Needing((a \o b) \o c, all)
  BY <1>2, <1>5, NeedingJoined
<1>7. Needing(((a \o b) \o c) \o d, {"file"})
  BY <1>3, <1>6, NeedingJoined
<1>8. QED
  BY <1>1, <1>4, <1>7, NeedingJoined

\* testDMA_c's.
LEMMA CDMA == Needing(Tests!CTestDMA, {})
<1> DEFINE a == Tests!MapBars
           b == <<Tests!Poke, Tests!Acquire("kernel"), Tests!Fill("kernel", "zeros")>>
           c == Tests!WriteDMA
           d == <<Tests!Show("board"), Tests!Release("kernel")>>
           e == Tests!UnmapBars
           all == {"bar0", "bar1", "kernel"}
           two == {"bar0", "bar1"}
<1>1. Tests!CTestDMA = (((a \o b) \o c) \o d) \o e
  BY DEF Tests!CTestDMA
<1>2. Needing(a, all) /\ Needing(b, all) /\ Needing(c, all)
  BY Acquiring, Moving DEF Tests!WriteDMA, Tests!Memories
<1>3. all \subseteq Tests!GivenBy(d) \cup two /\ Needing(d, two)
  BY Ends, Short
<1>4. two \subseteq Tests!GivenBy(e) \cup {} /\ Needing(e, {})
  BY Ends, Short
<1> HIDE DEF a, b, c, d, e, all, two
<1>5. Needing((a \o b), all)
  BY <1>2, NeedingJoined
<1>6. Needing((a \o b) \o c, all)
  BY <1>2, <1>5, NeedingJoined
<1>7. Needing(((a \o b) \o c) \o d, two)
  BY <1>3, <1>6, NeedingJoined
<1>8. QED
  BY <1>1, <1>4, <1>7, NeedingJoined

\* The tests of a program: what the first one takes, the later ones give back,
\* and each of those gives back what it takes.
InOrder(ts) ==
    /\ ts \in Seq(Seq(Tests!Statements)) /\ Len(ts) > 0
    /\ Needing(ts[1], UNION {Tests!GivenBy(ts[k]) : k \in 2 .. Len(ts)})
    /\ \A k \in 2 .. Len(ts) : Needing(ts[k], {})

\* Tests one after the other.
LEMMA JoinedTests ==
    ASSUME NEW s \in Seq(Seq(Tests!Statements)), NEW t \in Seq(Seq(Tests!Statements))
    PROVE  /\ s \o t \in Seq(Seq(Tests!Statements)) /\ Len(s \o t) = Len(s) + Len(t)
           /\ \A i \in 1 .. Len(s) : (s \o t)[i] = s[i]
           /\ \A i \in 1 .. Len(t) : (s \o t)[Len(s) + i] = t[i]
  BY ConcatProperties

\* The programs in C++: the first test, those of the BARs, and the others, the
\* last of which deletes the object.
LEMMA ObjectTests ==
    ASSUME NEW rest \in Seq(Seq(Tests!Statements)), Len(rest) > 0,
           \A k \in 1 .. Len(rest) : Needing(rest[k], {}),
           rest[Len(rest)] = <<Tests!Release("object")>>
    PROVE  InOrder((<<<<Tests!Acquire("object"), Tests!Acquire("file")>>>> \o Tests!TestBars)
                   \o rest)
<1> DEFINE f == <<Tests!Acquire("object"), Tests!Acquire("file")>>
           a == <<Tests!Acquire("bar0"), Tests!Release("bar0"), Tests!Size>>
           b == <<Tests!Acquire("bar1"), Tests!Release("bar1"), Tests!Size>>
           c == <<Tests!Release("file")>>
           one == <<f>>
           half == one \o Tests!TestBars
           ts == half \o rest
<1>1. Needing(a, {}) /\ Needing(b, {}) /\ Needing(c, {})
  BY Acquiring, Short, Zenon
<1>2. \A later : {"object", "file"} \subseteq later => Needing(f, later)
  BY Acquiring, Zenon
<1>3. Tests!TestBars = <<a, b, c>>
  BY DEF Tests!TestBars
<1>4. {"object", "file"} \subseteq Tests!GivenBy(<<Tests!Release("object")>>)
  BY Ends, Zenon
<1> HIDE DEF f, a, b, c
<1>5. /\ a \in Seq(Tests!Statements) /\ b \in Seq(Tests!Statements)
      /\ c \in Seq(Tests!Statements) /\ f \in Seq(Tests!Statements)
  BY <1>1, <1>2, Zenon DEF Needing
<1>6. /\ one \in Seq(Seq(Tests!Statements)) /\ Len(one) = 1 /\ one[1] = f
  BY <1>5
<1>7. /\ Tests!TestBars \in Seq(Seq(Tests!Statements)) /\ Len(Tests!TestBars) = 3
      /\ Tests!TestBars[1] = a /\ Tests!TestBars[2] = b /\ Tests!TestBars[3] = c
  BY <1>3, <1>5
<1> DEFINE bars == Tests!TestBars
<1> HIDE DEF one, bars
<1>70. /\ bars \in Seq(Seq(Tests!Statements)) /\ Len(bars) = 3
       /\ bars[1] = a /\ bars[2] = b /\ bars[3] = c
  BY <1>7 DEF bars
<1>8. /\ half \in Seq(Seq(Tests!Statements)) /\ Len(half) = 4 /\ half[1] = f
      /\ half[1 + 1] = a /\ half[1 + 2] = b /\ half[1 + 3] = c
  <2>1. /\ one \o bars \in Seq(Seq(Tests!Statements)) /\ Len(one \o bars) = Len(one) + Len(bars)
        /\ \A i \in 1 .. Len(one) : (one \o bars)[i] = one[i]
        /\ \A i \in 1 .. Len(bars) : (one \o bars)[Len(one) + i] = bars[i]
    BY <1>6, <1>70, JoinedTests, Zenon
  <2>2. half = one \o bars
    BY DEF bars
  <2> HIDE DEF half
  <2>3. /\ \A i \in 1 .. 1 : half[i] = one[i]
        /\ \A i \in 1 .. 3 : half[1 + i] = bars[i]
    BY <1>6, <1>70, <2>1, <2>2, Zenon
  <2>4. half \in Seq(Seq(Tests!Statements)) /\ Len(half) = 4
    BY <1>6, <1>70, <2>1, <2>2
  <2>5. half[1] = one[1]
    BY <2>3
  <2>6. half[1 + 1] = bars[1]
    BY <2>3
  <2>7. half[1 + 2] = bars[2]
    BY <2>3
  <2>8. half[1 + 3] = bars[3]
    BY <2>3
  <2>9. QED
    BY <1>6, <1>70, <2>4, <2>5, <2>6, <2>7, <2>8
<1> HIDE DEF half
<1>9. /\ ts \in Seq(Seq(Tests!Statements)) /\ Len(ts) = 4 + Len(rest)
      /\ \A i \in 1 .. 4 : ts[i] = half[i]
      /\ \A i \in 1 .. Len(rest) : ts[4 + i] = rest[i]
      /\ Len(rest) \in Nat
  <2>1. /\ half \o rest \in Seq(Seq(Tests!Statements))
        /\ Len(half \o rest) = Len(half) + Len(rest)
        /\ \A i \in 1 .. Len(half) : (half \o rest)[i] = half[i]
        /\ \A i \in 1 .. Len(rest) : (half \o rest)[Len(half) + i] = rest[i]
    BY <1>8, JoinedTests, Zenon
  <2>2. ts = half \o rest
    OBVIOUS
  <2>3. Len(rest) \in Nat
    OBVIOUS
  <2> HIDE DEF ts
  <2>4. QED
    BY <1>8, <2>1, <2>2, <2>3, Zenon
<1> HIDE DEF ts
<1>10. ASSUME NEW k \in 2 .. Len(ts) PROVE Needing(ts[k], {})
  <2>1. CASE k \in 1 .. 4
    BY <1>1, <1>8, <1>9, <2>1
  <2>2. CASE k > 4
    <3> DEFINE n == Len(rest)
    <3>1. n \in Nat /\ k \in 2 .. 4 + n
      BY <1>9
    <3> HIDE DEF n
    <3>2. k - 4 \in 1 .. n /\ k = 4 + (k - 4)
      BY <2>2, <3>1
    <3>3. QED
      BY <1>9, <3>2, Zenon DEF n
  <2>3. QED
    BY <1>9, <2>1, <2>2
<1>11. {"object", "file"} \subseteq UNION {Tests!GivenBy(ts[k]) : k \in 2 .. Len(ts)}
  <2>1. Len(ts) \in 2 .. Len(ts) /\ ts[Len(ts)] = rest[Len(rest)]
    <3> DEFINE n == Len(rest)
    <3>1. n \in Nat /\ n > 0 /\ Len(ts) = 4 + n /\ \A i \in 1 .. n : ts[4 + i] = rest[i]
      BY <1>9
    <3>2. rest[n] = rest[Len(rest)]
      OBVIOUS
    <3> HIDE DEF n
    <3>3. QED
      BY <3>1, <3>2
  <2>2. QED
    BY <1>4, <2>1, Zenon
<1>12. ts[1] = f
  BY <1>8, <1>9
<1>13. InOrder(ts)
  <2> DEFINE given == UNION {Tests!GivenBy(ts[k]) : k \in 2 .. Len(ts)}
  <2>1. Needing(ts[1], given)
    <3>1. {"object", "file"} \subseteq given
      BY <1>11
    <3> HIDE DEF given
    <3>2. QED
      BY <1>2, <1>12, <3>1
  <2>2. Len(ts) > 0
    BY <1>9
  <2>3. QED
    BY <1>9, <1>10, <2>1, <2>2 DEF InOrder
<1>14. QED
  BY <1>13 DEF ts, half, one, f

\* What each program runs for a device is in order.
LEMMA Scripts == \A p \in Tests!Programs : InOrder(Tests!TestDevice(p))
<1>1. InOrder(Tests!PcieTestDevice)
  <2> DEFINE a == Tests!TestDirectIO
             b == Tests!PcieTestDMA
             c == Tests!TestInterrupts
             d == <<Tests!Release("object")>>
             rest == <<a, b, c, d>>
  <2>1. Needing(a, {}) /\ Needing(b, {}) /\ Needing(c, {}) /\ Needing(d, {})
    BY DirectIO, PcieDMA, InterruptTest, Short
  <2>2. Tests!PcieTestDevice =
          (<<<<Tests!Acquire("object"), Tests!Acquire("file")>>>> \o Tests!TestBars) \o rest
    BY DEF Tests!PcieTestDevice
  <2>3. d = <<Tests!Release("object")>>
    OBVIOUS
  <2> HIDE DEF a, b, c, d
  <2>4. /\ a \in Seq(Tests!Statements) /\ b \in Seq(Tests!Statements)
        /\ c \in Seq(Tests!Statements) /\ d \in Seq(Tests!Statements)
    BY <2>1 DEF Needing
  <2>5. /\ rest \in Seq(Seq(Tests!Statements)) /\ Len(rest) = 4
        /\ rest[1] = a /\ rest[2] = b /\ rest[3] = c /\ rest[4] = d
    BY <2>4
  <2> HIDE DEF rest
  <2>6. \A k \in 1 .. Len(rest) : Needing(rest[k], {})
    BY <2>1, <2>5
  <2>7. QED
    <3>1. Len(rest) > 0 /\ rest[Len(rest)] = <<Tests!Release("object")>>
      BY <2>3, <2>5
    <3>2. InOrder((<<<<Tests!Acquire("object"), Tests!Acquire("file")>>>> \o Tests!TestBars)
                  \o rest)
      BY <2>5, <2>6, <3>1, ObjectTests, Zenon
    <3>3. QED
      BY <2>2, <3>2 DEF rest
<1>2. InOrder(Tests!DmaTestDevice)
  <2> DEFINE a == Tests!TestDirectIO
             b == Tests!DmaTestDMA
             c == <<Tests!Release("object")>>
             rest == <<a, b, c>>
  <2>1. Needing(a, {}) /\ Needing(b, {}) /\ Needing(c, {})
    BY DirectIO, DmaDMA, Short
  <2>2. Tests!DmaTestDevice =
          (<<<<Tests!Acquire("object"), Tests!Acquire("file")>>>> \o Tests!TestBars) \o rest
    BY DEF Tests!DmaTestDevice
  <2>3. c = <<Tests!Release("object")>>
    OBVIOUS
  <2> HIDE DEF a, b, c
  <2>4. /\ a \in Seq(Tests!Statements) /\ b \in Seq(Tests!Statements)
        /\ c \in Seq(Tests!Statements)
    BY <2>1 DEF Needing
  <2>5. /\ rest \in Seq(Seq(Tests!Statements)) /\ Len(rest) = 3
        /\ rest[1] = a /\ rest[2] = b /\ rest[3] = c
    BY <2>4
  <2> HIDE DEF rest
  <2>6. \A k \in 1 .. Len(rest) : Needing(rest[k], {})
    BY <2>1, <2>5
  <2>7. QED
    <3>1. Len(rest) > 0 /\ rest[Len(rest)] = <<Tests!Release("object")>>
      BY <2>3, <2>5
    <3>2. InOrder((<<<<Tests!Acquire("object"), Tests!Acquire("file")>>>> \o Tests!TestBars)
                  \o rest)
      BY <2>5, <2>6, <3>1, ObjectTests, Zenon
    <3>3. QED
      BY <2>2, <3>2 DEF rest
<1>3. InOrder(Tests!CTestDevice)
  <2> DEFINE a == <<Tests!Acquire("file")>>
             b == Tests!CTestDirectIO
             c == Tests!CTestDMA
             d == <<Tests!Release("file")>>
             ts == <<a, b, c, d>>
  <2>1. Needing(b, {}) /\ Needing(c, {}) /\ Needing(d, {}) /\ Needing(a, {"file"})
    BY DirectIO, CDMA, Short, Acquiring
  <2>2. \A later : "file" \in later => Needing(a, later)
    BY Acquiring
  <2>3. "file" \in Tests!GivenBy(d)
    BY Ends
  <2> HIDE DEF a, b, c, d
  <2>4. /\ a \in Seq(Tests!Statements) /\ b \in Seq(Tests!Statements)
        /\ c \in Seq(Tests!Statements) /\ d \in Seq(Tests!Statements)
    BY <2>1 DEF Needing
  <2>5. /\ ts \in Seq(Seq(Tests!Statements)) /\ Len(ts) = 4
        /\ ts[1] = a /\ ts[2] = b /\ ts[3] = c /\ ts[4] = d
    BY <2>4
  <2> HIDE DEF ts
  <2>6. \A k \in 2 .. Len(ts) : Needing(ts[k], {})
    BY <2>1, <2>5
  <2>7. "file" \in UNION {Tests!GivenBy(ts[k]) : k \in 2 .. Len(ts)}
    BY <2>3, <2>5
  <2>8. InOrder(ts)
    BY <2>2, <2>5, <2>6, <2>7 DEF InOrder
  <2>9. QED
    BY <2>8 DEF ts, a, b, c, d, Tests!CTestDevice
<1>4. QED
  BY <1>1, <1>2, <1>3 DEF Tests!Programs, Tests!TestDevice

\* A sequence without its first element.
LEMMA TailOf ==
    ASSUME NEW S, NEW s \in Seq(S), s # <<>>
    PROVE  /\ Tail(s) \in Seq(S) /\ Len(s) \in Nat \ {0} /\ Len(Tail(s)) = Len(s) - 1
           /\ Head(s) = s[1] /\ s[1] \in S
           /\ \A i \in 1 .. Len(Tail(s)) : i + 1 \in 1 .. Len(s) /\ Tail(s)[i] = s[i + 1]
           /\ \A i \in 2 .. Len(s) : i - 1 \in 1 .. Len(Tail(s)) /\ Tail(s)[i - 1] = s[i]
<1>1. /\ Tail(s) \in Seq(S) /\ Len(Tail(s)) = Len(s) - 1 /\ Len(s) \in Nat \ {0}
      /\ \A i \in 1 .. Len(Tail(s)) : Tail(s)[i] = s[i + 1]
  BY HeadTailProperties, EmptySeq
<1>2. Head(s) = s[1] /\ s[1] \in S
  BY <1>1
<1>3. QED
  BY <1>1, <1>2

\* What a script keeps when its first statement has been executed.
LEMMA TailKeeps ==
    ASSUME NEW s \in Seq(Tests!Statements), s # <<>>
    PROVE  /\ Tests!Slept(s) => Tests!Slept(Tail(s))
           /\ \A later : Tests!Returned(s, later) => Tests!Returned(Tail(s), later)
           /\ Tests!GivenBy(Tail(s)) \subseteq Tests!GivenBy(s)
           /\ \A x \in Tests!GivenBy(s) :
                 \/ x \in Tests!GivenBy(Tail(s))
                 \/ Head(s)[1] = "release" /\ x \in Tests!Given(Head(s)[2])
           /\ \A later : Tests!Returned(s, later) /\ Head(s)[1] = "acquire" =>
                 Head(s)[2] \in later \cup Tests!GivenBy(Tail(s))
           /\ Tests!Slept(s) /\ Head(s)[1] = "start" =>
                 Tail(s) # <<>> /\ Head(Tail(s)) = Tests!Sleep /\ Head(s)[2] # Head(s)[3]
<1> DEFINE t == Tail(s)
<1>1. /\ t \in Seq(Tests!Statements) /\ Len(s) \in Nat \ {0} /\ Len(t) = Len(s) - 1
      /\ Head(s) = s[1] /\ s[1] \in Tests!Statements
      /\ \A i \in 1 .. Len(t) : i + 1 \in 1 .. Len(s) /\ t[i] = s[i + 1]
      /\ \A i \in 2 .. Len(s) : i - 1 \in 1 .. Len(t) /\ t[i - 1] = s[i]
  BY TailOf
<1> HIDE DEF t
<1>2. ASSUME Tests!Slept(s) PROVE Tests!Slept(t)
  <2> SUFFICES ASSUME NEW i \in 1 .. Len(t), Tests!Starts(t, i)
               PROVE  t[i][2] # t[i][3] /\ i < Len(t) /\ t[i + 1] = Tests!Sleep
    BY DEF Tests!Slept
  <2>1. i + 1 \in 1 .. Len(s) /\ Tests!Starts(s, i + 1) /\ t[i] = s[i + 1]
    BY <1>1 DEF Tests!Starts
  <2>2. s[i + 1][2] # s[i + 1][3] /\ i + 1 < Len(s) /\ s[(i + 1) + 1] = Tests!Sleep
    BY <1>2, <2>1 DEF Tests!Slept
  <2>3. i + 1 \in 1 .. Len(t) /\ i < Len(t)
    BY <1>1, <2>2
  <2>4. t[i + 1] = s[(i + 1) + 1]
    BY <1>1, <2>3
  <2>5. QED
    BY <2>1, <2>2, <2>3, <2>4
<1>3. ASSUME NEW later, Tests!Returned(s, later) PROVE Tests!Returned(t, later)
  <2> SUFFICES ASSUME NEW i \in 1 .. Len(t), t[i][1] = "acquire"
               PROVE  t[i][2] \in later \/ \E j \in i + 1 .. Len(t) : Tests!Gives(t, j, t[i][2])
    BY DEF Tests!Returned
  <2>1. i + 1 \in 1 .. Len(s) /\ t[i] = s[i + 1]
    BY <1>1
  <2>2. \/ t[i][2] \in later
        \/ \E j \in (i + 1) + 1 .. Len(s) : Tests!Gives(s, j, t[i][2])
    BY <1>3, <2>1 DEF Tests!Returned
  <2>3. CASE \E j \in (i + 1) + 1 .. Len(s) : Tests!Gives(s, j, t[i][2])
    <3>1. PICK j \in (i + 1) + 1 .. Len(s) : Tests!Gives(s, j, t[i][2])
      BY <2>3
    <3>2. j \in 2 .. Len(s) /\ j - 1 \in i + 1 .. Len(t)
      BY <1>1, <2>1
    <3>3. t[j - 1] = s[j]
      BY <1>1, <3>2, Zenon
    <3>4. Tests!Gives(t, j - 1, t[i][2])
      BY <3>1, <3>3 DEF Tests!Gives
    <3>5. QED
      BY <3>2, <3>4
  <2>4. QED
    BY <2>2, <2>3
<1>4. Tests!GivenBy(t) \subseteq Tests!GivenBy(s)
  <2> SUFFICES ASSUME NEW x \in Tests!Things, NEW i \in 1 .. Len(t), Tests!Gives(t, i, x)
               PROVE  x \in Tests!GivenBy(s)
    BY DEF Tests!GivenBy
  <2>1. i + 1 \in 1 .. Len(s) /\ Tests!Gives(s, i + 1, x)
    BY <1>1 DEF Tests!Gives
  <2>2. QED
    BY <2>1 DEF Tests!GivenBy
<1>5. ASSUME NEW x \in Tests!Things, NEW i \in 1 .. Len(s), Tests!Gives(s, i, x)
      PROVE  x \in Tests!GivenBy(t) \/ (Head(s)[1] = "release" /\ x \in Tests!Given(Head(s)[2]))
  <2>1. CASE i = 1
    BY <1>1, <1>5, <2>1 DEF Tests!Gives
  <2>2. CASE i # 1
    BY <1>1, <1>5, <2>2 DEF Tests!Gives, Tests!GivenBy
  <2>3. QED
    BY <2>1, <2>2
<1>6. ASSUME NEW later, Tests!Returned(s, later), s[1][1] = "acquire"
      PROVE  s[1][2] \in later \cup Tests!GivenBy(t)
  <2>1. 1 \in 1 .. Len(s) /\ s[1][2] \in Tests!Things
    BY <1>1, <1>6, StatementKinds
  <2>2. s[1][2] \in later \/ \E j \in 1 + 1 .. Len(s) : Tests!Gives(s, j, s[1][2])
    BY <1>6, <2>1 DEF Tests!Returned
  <2>3. CASE \E j \in 1 + 1 .. Len(s) : Tests!Gives(s, j, s[1][2])
    <3>1. PICK j \in 1 + 1 .. Len(s) : Tests!Gives(s, j, s[1][2])
      BY <2>3
    <3>2. j \in 2 .. Len(s)
      BY <3>1
    <3>3. j - 1 \in 1 .. Len(t) /\ Tests!Gives(t, j - 1, s[1][2])
      BY <1>1, <3>1, <3>2 DEF Tests!Gives
    <3>4. QED
      BY <2>1, <3>3 DEF Tests!GivenBy
  <2>4. QED
    BY <2>2, <2>3
<1>7. ASSUME Tests!Slept(s), s[1][1] = "start"
      PROVE  t # <<>> /\ Head(t) = Tests!Sleep /\ s[1][2] # s[1][3]
  <2>1. 1 \in 1 .. Len(s) /\ Tests!Starts(s, 1)
    BY <1>1, <1>7 DEF Tests!Starts
  <2>2. s[1][2] # s[1][3] /\ 1 < Len(s) /\ s[1 + 1] = Tests!Sleep
    BY <1>7, <2>1 DEF Tests!Slept
  <2>3. 1 \in 1 .. Len(t)
    BY <1>1, <2>2
  <2>4. t # <<>>
    BY <2>3
  <2>5. t[1] = s[1 + 1]
    BY <1>1, <2>3
  <2>6. Head(t) = t[1]
    BY <1>1, <2>4, TailOf
  <2>7. QED
    BY <2>2, <2>4, <2>5, <2>6
<1>8. \A x \in Tests!GivenBy(s) :
         x \in Tests!GivenBy(t) \/ (Head(s)[1] = "release" /\ x \in Tests!Given(Head(s)[2]))
  BY <1>5 DEF Tests!GivenBy
<1>9. QED
  BY <1>1, <1>2, <1>3, <1>4, <1>6, <1>7, <1>8 DEF t

\* What is given back by a sequence of tests: by the first one or by the others.
Later(ts) == UNION {Tests!GivenBy(ts[k]) : k \in 1 .. Len(ts)}

\* The first test gives back its own, the others theirs.
LEMMA LaterThanFirst ==
    ASSUME NEW ts \in Seq(Seq(Tests!Statements)), ts # <<>>
    PROVE  /\ Later(ts) = Tests!GivenBy(ts[1]) \cup Later(Tail(ts))
           /\ Later(Tail(ts)) = UNION {Tests!GivenBy(ts[k]) : k \in 2 .. Len(ts)}
<1> DEFINE t == Tail(ts)
<1>1. /\ Len(ts) \in Nat \ {0} /\ Len(t) = Len(ts) - 1
      /\ \A i \in 1 .. Len(t) : i + 1 \in 1 .. Len(ts) /\ t[i] = ts[i + 1]
      /\ \A i \in 2 .. Len(ts) : i - 1 \in 1 .. Len(t) /\ t[i - 1] = ts[i]
  BY TailOf
<1> HIDE DEF t
<1>2. ASSUME NEW x, NEW i \in 1 .. Len(t), x \in Tests!GivenBy(t[i])
      PROVE  \E k \in 2 .. Len(ts) : x \in Tests!GivenBy(ts[k])
  BY <1>1, <1>2
<1>3. ASSUME NEW x, NEW k \in 2 .. Len(ts), x \in Tests!GivenBy(ts[k])
      PROVE  \E i \in 1 .. Len(t) : x \in Tests!GivenBy(t[i])
  BY <1>1, <1>3
<1>4. Later(t) = UNION {Tests!GivenBy(ts[k]) : k \in 2 .. Len(ts)}
  BY <1>2, <1>3, Zenon DEF Later
<1>5. Later(ts) = Tests!GivenBy(ts[1]) \cup UNION {Tests!GivenBy(ts[k]) : k \in 2 .. Len(ts)}
  BY <1>1 DEF Later
<1>6. QED
  BY <1>4, <1>5 DEF t

\* The statements from the first on, and the same ones from the second on.
LEMMA TailSees ==
    ASSUME NEW s \in Seq(Tests!Statements), s # <<>>,
           NEW i \in 1 .. Len(Tail(s)), Tests!Sends(Tail(s), i)
    PROVE  /\ i + 1 \in 1 .. Len(s) /\ Tests!Sends(s, i + 1)
           /\ Tests!FilledAndSynced(s, i + 1) =>
                 \/ Tests!FilledAndSynced(Tail(s), i)
                 \/ /\ Tests!Fills(s, 1) /\ Tests!NotBrought(Tail(s), 0, i)
                    /\ \E j \in 1 .. i - 1 :
                          Tail(s)[j] = Tests!Sync /\ Tests!NotFilled(Tail(s), j, i)
           /\ Tests!NotBrought(s, 0, i + 1) =>
                 Tests!NotBrought(Tail(s), 0, i) /\ ~Tests!Brings(s, 1)
           /\ Tests!NotFilled(s, 0, i + 1) =>
                 Tests!NotFilled(Tail(s), 0, i) /\ ~Tests!Fills(s, 1)
           /\ \A j \in 1 .. i : s[j] = Tests!Sync /\ Tests!NotFilled(s, j, i + 1) =>
                 \/ j = 1 /\ Tests!NotFilled(Tail(s), 0, i)
                 \/ /\ j - 1 \in 1 .. i - 1 /\ Tail(s)[j - 1] = Tests!Sync
                    /\ Tests!NotFilled(Tail(s), j - 1, i)
<1> DEFINE t == Tail(s)
<1>1. /\ t \in Seq(Tests!Statements) /\ Len(s) \in Nat \ {0} /\ Len(t) = Len(s) - 1
      /\ \A l \in 1 .. Len(t) : l + 1 \in 1 .. Len(s) /\ t[l] = s[l + 1]
      /\ \A l \in 2 .. Len(s) : l - 1 \in 1 .. Len(t) /\ t[l - 1] = s[l]
  BY TailOf
<1>2. i \in 1 .. Len(t) /\ Tests!Sends(t, i)
  OBVIOUS
<1> HIDE DEF t
<1>3. i + 1 \in 1 .. Len(s) /\ Tests!Sends(s, i + 1)
  BY <1>1, <1>2 DEF Tests!Sends, Tests!Starts
<1>4. ASSUME NEW k \in 0 .. i, Tests!NotBrought(s, k + 1, i + 1)
      PROVE  Tests!NotBrought(t, k, i)
  <2> SUFFICES ASSUME NEW l \in k + 1 .. i - 1 PROVE ~Tests!Brings(t, l)
    BY DEF Tests!NotBrought
  <2>1. l + 1 \in (k + 1) + 1 .. (i + 1) - 1 /\ l \in 1 .. Len(t)
    BY <1>1, <1>2
  <2>2. ~Tests!Brings(s, l + 1) /\ t[l] = s[l + 1]
    BY <1>1, <1>4, <2>1 DEF Tests!NotBrought
  <2>3. QED
    BY <2>2 DEF Tests!Brings, Tests!Starts
<1>5. ASSUME NEW k \in 0 .. i, Tests!NotFilled(s, k + 1, i + 1)
      PROVE  Tests!NotFilled(t, k, i)
  <2> SUFFICES ASSUME NEW l \in k + 1 .. i - 1 PROVE ~Tests!Fills(t, l)
    BY DEF Tests!NotFilled
  <2>1. l + 1 \in (k + 1) + 1 .. (i + 1) - 1 /\ l \in 1 .. Len(t)
    BY <1>1, <1>2
  <2>2. ~Tests!Fills(s, l + 1) /\ t[l] = s[l + 1]
    BY <1>1, <1>5, <2>1 DEF Tests!NotFilled
  <2>3. QED
    BY <2>2 DEF Tests!Fills
<1>6. ASSUME Tests!NotBrought(s, 0, i + 1)
      PROVE  Tests!NotBrought(t, 0, i) /\ ~Tests!Brings(s, 1)
  <2>1. \A l \in 1 .. i : ~Tests!Brings(s, l)
    BY <1>2, <1>6 DEF Tests!NotBrought
  <2>2. Tests!NotBrought(s, 0 + 1, i + 1)
    BY <1>2, <2>1 DEF Tests!NotBrought
  <2>3. 0 \in 0 .. i /\ 1 \in 1 .. i
    BY <1>2
  <2>4. QED
    BY <1>4, <2>1, <2>2, <2>3
<1>7. ASSUME Tests!NotFilled(s, 0, i + 1)
      PROVE  Tests!NotFilled(t, 0, i) /\ ~Tests!Fills(s, 1)
  <2>1. \A l \in 1 .. i : ~Tests!Fills(s, l)
    BY <1>2, <1>7 DEF Tests!NotFilled
  <2>2. Tests!NotFilled(s, 0 + 1, i + 1)
    BY <1>2, <2>1 DEF Tests!NotFilled
  <2>3. 0 \in 0 .. i /\ 1 \in 1 .. i
    BY <1>2
  <2>4. QED
    BY <1>5, <2>1, <2>2, <2>3
<1>8. ASSUME NEW j \in 1 .. i, s[j] = Tests!Sync, Tests!NotFilled(s, j, i + 1)
      PROVE  \/ j = 1 /\ Tests!NotFilled(t, 0, i)
             \/ /\ j - 1 \in 1 .. i - 1 /\ t[j - 1] = Tests!Sync
                /\ Tests!NotFilled(t, j - 1, i)
  <2>1. j - 1 \in 0 .. i /\ j = (j - 1) + 1
    BY <1>2
  <2>2. Tests!NotFilled(t, j - 1, i)
    BY <1>5, <1>8, <2>1
  <2>3. CASE j = 1
    <3>1. j - 1 = 0
      BY <2>3
    <3>2. QED
      BY <2>2, <2>3, <3>1
  <2>4. CASE j # 1
    <3>1. j \in 2 .. Len(s) /\ j - 1 \in 1 .. i - 1
      BY <1>1, <1>2, <2>4
    <3>2. t[j - 1] = s[j]
      BY <1>1, <3>1
    <3>3. QED
      BY <1>8, <2>2, <3>1, <3>2
  <2>5. QED
    BY <2>3, <2>4
<1>9. ASSUME Tests!FilledAndSynced(s, i + 1)
      PROVE  \/ Tests!FilledAndSynced(t, i)
             \/ /\ Tests!Fills(s, 1) /\ Tests!NotBrought(t, 0, i)
                /\ \E j \in 1 .. i - 1 : t[j] = Tests!Sync /\ Tests!NotFilled(t, j, i)
  <2>0. (i + 1) - 1 = i
    BY <1>2
  <2>1. PICK k \in 1 .. i : \E j \in k + 1 .. i :
           /\ Tests!Fills(s, k) /\ s[j] = Tests!Sync
           /\ Tests!NotBrought(s, k, i + 1) /\ Tests!NotFilled(s, j, i + 1)
    BY <1>9, <2>0 DEF Tests!FilledAndSynced
  <2>2. PICK j \in k + 1 .. i :
           /\ Tests!Fills(s, k) /\ s[j] = Tests!Sync
           /\ Tests!NotBrought(s, k, i + 1) /\ Tests!NotFilled(s, j, i + 1)
    BY <2>1
  <2>3. j \in 1 .. i /\ j # 1
    BY <1>2, <2>2
  <2>4. /\ j - 1 \in 1 .. i - 1 /\ t[j - 1] = Tests!Sync /\ Tests!NotFilled(t, j - 1, i)
    BY <1>8, <2>2, <2>3
  <2>5. k - 1 \in 0 .. i /\ k = (k - 1) + 1
    BY <1>2
  <2>6. Tests!NotBrought(t, k - 1, i)
    BY <1>4, <2>2, <2>5
  <2>7. CASE k = 1
    <3>1. k - 1 = 0
      BY <2>7
    <3>2. QED
      BY <2>2, <2>4, <2>6, <2>7, <3>1
  <2>8. CASE k # 1
    <3>1. k \in 2 .. Len(s) /\ k - 1 \in 1 .. i - 1 /\ j - 1 \in (k - 1) + 1 .. i - 1
      BY <1>1, <1>2, <2>2, <2>8
    <3>2. Tests!Fills(t, k - 1)
      BY <1>1, <2>2, <3>1, Zenon DEF Tests!Fills
    <3>3. QED
      BY <2>4, <2>6, <3>1, <3>2 DEF Tests!FilledAndSynced
  <2>9. QED
    BY <2>7, <2>8
<1>10. QED
  BY <1>3, <1>6, <1>7, <1>8, <1>9 DEF t

\* The transfers of the user's buffer that are still to come, when a statement
\* has been executed: the buffer is filled by it, or left as it should be.
LEMMA UserGoes ==
    ASSUME Tests!Scripted, Tests!UserInOrder, v4 # <<>>, v4' = Tail(v4), v7' = v7,
           Tests!Fills(v4, 1) => Tests!Clean',
           Tests!Clean /\ ~Tests!Brings(v4, 1) => Tests!Clean',
           Tests!Clean /\ ~Tests!Brings(v4, 1) /\ v4[1] = Tests!Sync => v8' = v6'["user"],
           Tests!Clean /\ v8 = v6["user"] /\ ~Tests!Brings(v4, 1) /\ ~Tests!Fills(v4, 1) =>
              v8' = v6'["user"]
    PROVE  Tests!UserInOrder'
<1> SUFFICES ASSUME v7', NEW i \in 1 .. Len(v4'), Tests!Sends(v4', i)
             PROVE  \/ Tests!FilledAndSynced(v4', i)
                    \/ /\ Tests!Clean' /\ Tests!NotBrought(v4', 0, i)
                       /\ \E j \in 1 .. i - 1 : v4'[j] = Tests!Sync /\ Tests!NotFilled(v4', j, i)
                    \/ /\ Tests!Clean' /\ v8' = v6'["user"]
                       /\ Tests!NotBrought(v4', 0, i) /\ Tests!NotFilled(v4', 0, i)
  BY DEF Tests!UserInOrder
<1> DEFINE s == v4
           t == Tail(v4)
<1>1. s \in Seq(Tests!Statements) /\ s # <<>> /\ v4' = t
  BY DEF Tests!Scripted
<1>2. i \in 1 .. Len(t) /\ Tests!Sends(t, i)
  BY <1>1
<1>3. /\ i + 1 \in 1 .. Len(s) /\ Tests!Sends(s, i + 1)
      /\ Tests!FilledAndSynced(s, i + 1) =>
            \/ Tests!FilledAndSynced(t, i)
            \/ /\ Tests!Fills(s, 1) /\ Tests!NotBrought(t, 0, i)
               /\ \E j \in 1 .. i - 1 : t[j] = Tests!Sync /\ Tests!NotFilled(t, j, i)
      /\ Tests!NotBrought(s, 0, i + 1) => Tests!NotBrought(t, 0, i) /\ ~Tests!Brings(s, 1)
      /\ Tests!NotFilled(s, 0, i + 1) => Tests!NotFilled(t, 0, i) /\ ~Tests!Fills(s, 1)
      /\ \A j \in 1 .. i : s[j] = Tests!Sync /\ Tests!NotFilled(s, j, i + 1) =>
            \/ j = 1 /\ Tests!NotFilled(t, 0, i)
            \/ /\ j - 1 \in 1 .. i - 1 /\ t[j - 1] = Tests!Sync
               /\ Tests!NotFilled(t, j - 1, i)
  BY <1>1, <1>2, TailSees
<1>4. \/ Tests!FilledAndSynced(s, i + 1)
      \/ /\ Tests!Clean /\ Tests!NotBrought(s, 0, i + 1)
         /\ \E j \in 1 .. i : s[j] = Tests!Sync /\ Tests!NotFilled(s, j, i + 1)
      \/ /\ Tests!Clean /\ v8 = v6["user"]
         /\ Tests!NotBrought(s, 0, i + 1) /\ Tests!NotFilled(s, 0, i + 1)
  <2>1. (i + 1) - 1 = i
    BY <1>2
  <2>2. QED
    BY <1>3, <2>1 DEF Tests!UserInOrder
<1> HIDE DEF t
<1>5. CASE Tests!FilledAndSynced(s, i + 1)
  BY <1>1, <1>3, <1>5, Zenon
<1>6. CASE /\ Tests!Clean /\ Tests!NotBrought(s, 0, i + 1)
           /\ \E j \in 1 .. i : s[j] = Tests!Sync /\ Tests!NotFilled(s, j, i + 1)
  <2>1. PICK j \in 1 .. i : s[j] = Tests!Sync /\ Tests!NotFilled(s, j, i + 1)
    BY <1>6
  <2>2. Tests!Clean' /\ Tests!NotBrought(t, 0, i) /\ ~Tests!Brings(s, 1)
    BY <1>3, <1>6
  <2>3. CASE j = 1 /\ Tests!NotFilled(t, 0, i)
    BY <1>1, <1>6, <2>1, <2>2, <2>3, Zenon
  <2>4. CASE /\ j - 1 \in 1 .. i - 1 /\ t[j - 1] = Tests!Sync
             /\ Tests!NotFilled(t, j - 1, i)
    BY <1>1, <2>2, <2>4, Zenon
  <2>5. QED
    BY <1>3, <2>1, <2>3, <2>4
<1>7. CASE /\ Tests!Clean /\ v8 = v6["user"]
           /\ Tests!NotBrought(s, 0, i + 1) /\ Tests!NotFilled(s, 0, i + 1)
  BY <1>1, <1>3, <1>7, Zenon
<1>8. QED
  BY <1>4, <1>5, <1>6, <1>7

\* The script after a statement, and what is still to be given back.
LEMMA ScriptGoes ==
    ASSUME Tests!Scripted, v4 # <<>>, Tests!Go
    PROVE  /\ Tests!Scripted' /\ Tests!GivenLater' = Tests!GivenLater
           /\ Head(v4) \in Tests!Statements /\ Head(v4) = v4[1]
<1>1. v4 \in Seq(Tests!Statements) /\ v4' = Tail(v4) /\ v3' = v3
  BY DEF Tests!Scripted, Tests!Go
<1>2. /\ Tail(v4) \in Seq(Tests!Statements) /\ Head(v4) = v4[1] /\ v4[1] \in Tests!Statements
  BY <1>1, TailOf
<1>3. Tests!Slept(Tail(v4))
  BY <1>1, TailKeeps DEF Tests!Scripted
<1>4. Tests!GivenLater' = Tests!GivenLater
  BY <1>1 DEF Tests!GivenLater
<1>5. Tests!Scripted'
  BY <1>1, <1>2, <1>3 DEF Tests!Scripted
<1>6. QED
  BY <1>2, <1>4, <1>5

\* What is held when a statement has been executed.
LEMMA HeldGoes ==
    ASSUME Tests!Scripted, Tests!WillReturn, v4 # <<>>, Tests!Go, v11 \subseteq v11',
           \/ v5' = v5
           \/ Head(v4)[1] = "acquire" /\ v5' = v5 \cup {Head(v4)[2]},
           Head(v4)[1] # "release"
    PROVE  Tests!WillReturn'
<1> SUFFICES ASSUME v11' \cap {"failure", "early"} = {}
             PROVE  /\ v5' \subseteq Tests!GivenBy(v4') \cup Tests!GivenLater'
                    /\ Tests!Returned(v4', Tests!GivenLater')
  BY DEF Tests!WillReturn
<1>1. /\ v5 \subseteq Tests!GivenBy(v4) \cup Tests!GivenLater
      /\ Tests!Returned(v4, Tests!GivenLater)
  BY DEF Tests!WillReturn
<1>2. /\ v4 \in Seq(Tests!Statements) /\ v4' = Tail(v4) /\ Tests!GivenLater' = Tests!GivenLater
  BY ScriptGoes DEF Tests!Scripted, Tests!Go
<1>3. \A x \in Tests!GivenBy(v4) : x \in Tests!GivenBy(Tail(v4))
  BY <1>2, TailKeeps
<1>4. Tests!Returned(Tail(v4), Tests!GivenLater)
  BY <1>1, <1>2, TailKeeps
<1>5. Head(v4)[1] = "acquire" => Head(v4)[2] \in Tests!GivenLater \cup Tests!GivenBy(Tail(v4))
  BY <1>1, <1>2, TailKeeps
<1>6. QED
  BY <1>1, <1>2, <1>3, <1>4, <1>5

\* What is held when something has been given back.
LEMMA HeldReleased ==
    ASSUME Tests!Scripted, Tests!WillReturn, v4 # <<>>, Tests!Go, v11 \subseteq v11',
           Head(v4)[1] = "release", v5' = v5 \ Tests!Given(Head(v4)[2])
    PROVE  Tests!WillReturn'
<1> SUFFICES ASSUME v11' \cap {"failure", "early"} = {}
             PROVE  /\ v5' \subseteq Tests!GivenBy(v4') \cup Tests!GivenLater'
                    /\ Tests!Returned(v4', Tests!GivenLater')
  BY DEF Tests!WillReturn
<1>1. /\ v5 \subseteq Tests!GivenBy(v4) \cup Tests!GivenLater
      /\ Tests!Returned(v4, Tests!GivenLater)
  BY DEF Tests!WillReturn
<1>2. /\ v4 \in Seq(Tests!Statements) /\ v4' = Tail(v4) /\ Tests!GivenLater' = Tests!GivenLater
  BY ScriptGoes DEF Tests!Scripted, Tests!Go
<1>3. \A x \in Tests!GivenBy(v4) :
         x \in Tests!GivenBy(Tail(v4)) \/ x \in Tests!Given(Head(v4)[2])
  BY <1>2, TailKeeps
<1>4. Tests!Returned(Tail(v4), Tests!GivenLater)
  BY <1>1, <1>2, TailKeeps
<1>5. QED
  BY <1>1, <1>2, <1>3, <1>4

\* A script that is as it was, and one that is at an end.
LEMMA ScriptStays ==
    ASSUME Tests!Scripted,
           \/ v3' = v3 /\ v4' = v4
           \/ v3' = <<>> /\ v4' = <<>>
    PROVE  Tests!Scripted'
<1>1. CASE v3' = v3 /\ v4' = v4
  BY <1>1 DEF Tests!Scripted
<1>2. CASE v3' = <<>> /\ v4' = <<>>
  BY <1>2 DEF Tests!Scripted, Tests!Slept
<1>3. QED
  BY <1>1, <1>2

\* The next test.
LEMMA ScriptNext ==
    ASSUME Tests!Scripted, Tests!NextTest
    PROVE  /\ Tests!Scripted' /\ Tests!Prepared(v4')
           /\ v3 # <<>> => /\ Tests!GivenLater = Tests!GivenBy(v4') \cup Tests!GivenLater'
                           /\ Tests!Returned(v4', {})
<1>1. CASE v3 = <<>>
  BY <1>1, ScriptStays DEF Tests!NextTest, Tests!Prepared
<1>2. CASE v3 # <<>>
  <2>1. v3 \in Seq(Seq(Tests!Statements)) /\ v3' = Tail(v3) /\ v4' = Head(v3)
    BY <1>2 DEF Tests!Scripted, Tests!NextTest
  <2>2. /\ Tail(v3) \in Seq(Seq(Tests!Statements)) /\ Len(v3) \in Nat \ {0}
        /\ Head(v3) = v3[1] /\ v3[1] \in Seq(Tests!Statements)
        /\ \A i \in 1 .. Len(Tail(v3)) : i + 1 \in 1 .. Len(v3) /\ Tail(v3)[i] = v3[i + 1]
    BY <1>2, <2>1, TailOf
  <2>3. \A k \in 1 .. Len(v3) :
           Tests!Slept(v3[k]) /\ Tests!Prepared(v3[k]) /\ Tests!Returned(v3[k], {})
    BY DEF Tests!Scripted
  <2>4. 1 \in 1 .. Len(v3)
    BY <2>2
  <2>5. \A k \in 1 .. Len(Tail(v3)) :
           /\ Tests!Slept(Tail(v3)[k]) /\ Tests!Prepared(Tail(v3)[k])
           /\ Tests!Returned(Tail(v3)[k], {})
    BY <2>2, <2>3, Zenon
  <2>6. Tests!GivenLater = Tests!GivenBy(v4') \cup Tests!GivenLater'
    <3>1. Later(v3) = Tests!GivenBy(v3[1]) \cup Later(Tail(v3))
      BY <1>2, <2>1, LaterThanFirst
    <3>2. QED
      BY <2>1, <2>2, <3>1, Zenon DEF Later, Tests!GivenLater
  <2>7. Tests!Scripted'
    BY <2>1, <2>2, <2>3, <2>4, <2>5 DEF Tests!Scripted
  <2>8. QED
    BY <2>1, <2>2, <2>3, <2>4, <2>6, <2>7
<1>3. QED
  BY <1>1, <1>2

\* Nothing that would keep the words from being where they should be.
Quiet == v11 \cap {"late", "short"} = {}

\* A transfer is under way only before a sleep.
LEMMA LeftOnlyAsleep ==
    ASSUME Tests!WordsInOrder, v4 = <<>> \/ Head(v4)[1] # "sleep"
    PROVE  v9.left = {}
<1>1. Tests!Sleep[1] = "sleep"
  BY StatementsSay
<1>2. QED
  BY <1>1 DEF Tests!WordsInOrder

\* The memories when nothing has touched them.
LEMMA MemoryStays ==
    ASSUME Tests!WordsInOrder, v9.left = {}, v6' = v6, v9' = v9, v10' = v10, v7' = v7
    PROVE  Tests!WordsInOrder'
  BY DEF Tests!WordsInOrder, Tests!Direct

\* The memories when something has been written.
LEMMA MemoryStored ==
    ASSUME Tests!TypeOK, Tests!WordsInOrder, v9.left = {}, v9' = v9, v7' = v7,
           NEW m \in Tests!Memories, NEW cells, NEW p \in Tests!Patterns,
           v6' = Tests!Stored(v6, m, cells, p), v10' = Tests!Stored(v10, m, cells, p)
    PROVE  /\ Tests!WordsInOrder'
           /\ v6' \in [Tests!Memories -> [Tests!Cells -> Tests!Patterns]]
           /\ v10' \in [Tests!Memories -> [Tests!Cells -> Tests!Patterns]]
           /\ Tests!Clean => Tests!Clean'
           /\ m # "user" => v6'["user"] = v6["user"]
           /\ m = "user" /\ cells = Tests!Cells => Tests!Clean'
<1>1. /\ v6 \in [Tests!Memories -> [Tests!Cells -> Tests!Patterns]]
      /\ v10 \in [Tests!Memories -> [Tests!Cells -> Tests!Patterns]]
  BY DEF Tests!TypeOK
<1>2. /\ v6' \in [Tests!Memories -> [Tests!Cells -> Tests!Patterns]]
      /\ v10' \in [Tests!Memories -> [Tests!Cells -> Tests!Patterns]]
  BY <1>1 DEF Tests!Stored
<1>3. \A n \in Tests!Memories : \A c \in Tests!Cells :
         /\ v6'[n][c] = IF n = m /\ c \in cells THEN p ELSE v6[n][c]
         /\ v10'[n][c] = IF n = m /\ c \in cells THEN p ELSE v10[n][c]
  BY <1>1 DEF Tests!Stored
<1>4. "user" \in Tests!Memories /\ Tests!Direct \subseteq Tests!Memories
  BY DEF Tests!Memories, Tests!Direct
<1>5. Tests!WordsInOrder'
  BY <1>3, <1>4 DEF Tests!WordsInOrder, Tests!Direct
<1>6. m # "user" => v6'["user"] = v6["user"] /\ v10'["user"] = v10["user"]
  BY <1>1, <1>4 DEF Tests!Stored
<1>7. v6["user"] = v10["user"] => v6'["user"] = v10'["user"]
  <2>1. v6'["user"] \in [Tests!Cells -> Tests!Patterns] /\ v10'["user"] \in [Tests!Cells -> Tests!Patterns]
    BY <1>2, <1>4
  <2>2. ASSUME v6["user"] = v10["user"], NEW c \in Tests!Cells
        PROVE  v6'["user"][c] = v10'["user"][c]
    BY <1>3, <1>4, <2>2
  <2>3. QED
    BY <2>1, <2>2
<1>8. m = "user" /\ cells = Tests!Cells => v6'["user"] = v10'["user"]
  <2>1. v6'["user"] \in [Tests!Cells -> Tests!Patterns] /\ v10'["user"] \in [Tests!Cells -> Tests!Patterns]
    BY <1>2, <1>4
  <2>2. ASSUME m = "user", cells = Tests!Cells, NEW c \in Tests!Cells
        PROVE  v6'["user"][c] = v10'["user"][c]
    BY <1>3, <1>4, <2>2
  <2>3. QED
    BY <2>1, <2>2
<1>9. QED
  BY <1>2, <1>5, <1>6, <1>7, <1>8 DEF Tests!Clean

\* What is no longer at hand is as it was at the start.
LEMMA MemoryForgotten ==
    ASSUME Tests!TypeOK, NEW ms \in SUBSET Tests!Memories, Tests!Forget(ms), v7' = v7
    PROVE  /\ v6' \in [Tests!Memories -> [Tests!Cells -> Tests!Patterns]]
           /\ v10' \in [Tests!Memories -> [Tests!Cells -> Tests!Patterns]]
           /\ v8' \in [Tests!Cells -> Tests!Patterns]
           /\ v9' \in [from : Tests!Memories, to : Tests!Memories, left : SUBSET Tests!Cells]
           /\ v9.left = {} => v9'.left = {}
           /\ Tests!WordsInOrder /\ v9.left = {} => Tests!WordsInOrder'
           /\ Tests!Clean /\ v9.left = {} => Tests!Clean'
           /\ v8 = v6["user"] => v8' = v6'["user"]
           /\ ms = Tests!Memories => Tests!WordsInOrder' /\ Tests!Clean'
<1>1. /\ v6 \in [Tests!Memories -> [Tests!Cells -> Tests!Patterns]]
      /\ v10 \in [Tests!Memories -> [Tests!Cells -> Tests!Patterns]]
      /\ v8 \in [Tests!Cells -> Tests!Patterns]
      /\ v9 \in [from : Tests!Memories, to : Tests!Memories, left : SUBSET Tests!Cells]
  BY DEF Tests!TypeOK
<1>2. /\ v6' = [m \in Tests!Memories |-> IF m \in ms THEN Tests!Untouched[m] ELSE v6[m]]
      /\ v10' = [m \in Tests!Memories |-> IF m \in ms THEN Tests!Untouched[m] ELSE v10[m]]
      /\ v8' = IF "user" \in ms THEN Tests!Untouched["user"] ELSE v8
      /\ v9' = IF {v9.from, v9.to} \cap ms = {} THEN v9 ELSE Tests!NoMove
  BY DEF Tests!Forget
<1>3. Tests!Untouched \in [Tests!Memories -> [Tests!Cells -> Tests!Patterns]]
  BY DEF Tests!Untouched, Tests!Patterns
<1>4. "user" \in Tests!Memories /\ Tests!Direct' \subseteq Tests!Memories
      /\ Tests!Direct' = Tests!Direct
  BY DEF Tests!Memories, Tests!Direct
<1>5. Tests!NoMove \in [from : Tests!Memories, to : Tests!Memories, left : SUBSET Tests!Cells]
      /\ Tests!NoMove.left = {}
  BY DEF Tests!NoMove, Tests!Memories
<1>6. /\ v6' \in [Tests!Memories -> [Tests!Cells -> Tests!Patterns]]
      /\ v10' \in [Tests!Memories -> [Tests!Cells -> Tests!Patterns]]
  BY <1>1, <1>2, <1>3
<1>7. v8' \in [Tests!Cells -> Tests!Patterns]
  BY <1>1, <1>2, <1>3, <1>4
<1>8. v9' \in [from : Tests!Memories, to : Tests!Memories, left : SUBSET Tests!Cells]
  BY <1>1, <1>2, <1>5
<1>9. v9.left = {} => v9'.left = {}
  BY <1>2, <1>5
<1>10. ASSUME Tests!WordsInOrder, v9.left = {} PROVE Tests!WordsInOrder'
  BY <1>2, <1>4, <1>9, <1>10 DEF Tests!WordsInOrder
<1>11. v6["user"] = v10["user"] => v6'["user"] = v10'["user"]
  BY <1>2, <1>4
<1>12. v8 = v6["user"] => v8' = v6'["user"]
  BY <1>2, <1>4
<1>13. ASSUME ms = Tests!Memories PROVE Tests!WordsInOrder' /\ Tests!Clean'
  BY <1>1, <1>2, <1>4, <1>5, <1>13 DEF Tests!WordsInOrder, Tests!Clean
<1>14. QED
  BY <1>6, <1>7, <1>8, <1>9, <1>10, <1>11, <1>12, <1>13 DEF Tests!Clean

\* A script that has not used any of its transfers.
LEMMA UserPrepared ==
    ASSUME Tests!Prepared(v4') PROVE Tests!UserInOrder'
  BY DEF Tests!UserInOrder, Tests!Prepared

\* The statements that leave the memories alone.
LEMMA GoesQuietly ==
    ASSUME Tests!Scripted, Tests!WordsInOrder, Tests!UserInOrder, v9.left = {},
           v4 # <<>>, Tests!Go, v6' = v6, v8' = v8, v9' = v9, v10' = v10, v7' = v7,
           Head(v4)[1] \notin {"fill", "sync"}
    PROVE  Tests!WordsInOrder' /\ Tests!UserInOrder'
<1>1. Tests!WordsInOrder'
  BY MemoryStays
<1>2. Head(v4) = v4[1] /\ v4' = Tail(v4)
  BY ScriptGoes DEF Tests!Go
<1>3. ~Tests!Fills(v4, 1) /\ v4[1] # Tests!Sync
  BY <1>2, StatementsSay DEF Tests!Fills
<1>4. Tests!Clean => Tests!Clean'
  BY DEF Tests!Clean
<1>5. Tests!UserInOrder'
  BY <1>2, <1>3, <1>4, UserGoes
<1>6. QED
  BY <1>1, <1>5

\* The parts of the invariant after a step.
LEMMA TestsKept ==
    ASSUME Tests!TypeOK', Tests!Scripted', Tests!WillReturn',
           Quiet' => Tests!WordsInOrder' /\ Tests!UserInOrder'
    PROVE  Tests!IInv'
  BY DEF Tests!IInv, Quiet

\* A step that touches neither the script nor the memories, if it keeps what is
\* held or has met with a failure.
LEMMA StepAside ==
    ASSUME Tests!IInv, Tests!TypeOK', v3' = v3, v4' = v4,
           v6' = v6, v7' = v7, v8' = v8, v9' = v9, v10' = v10, v11 \subseteq v11',
           v5' = v5 \/ "failure" \in v11'
    PROVE  Tests!IInv'
<1>1. Tests!Scripted'
  BY ScriptStays DEF Tests!IInv
<1>2. Tests!WillReturn'
  <2>1. CASE "failure" \in v11'
    BY <2>1 DEF Tests!WillReturn
  <2>2. CASE v5' = v5
    BY <2>2 DEF Tests!GivenLater, Tests!IInv, Tests!WillReturn
  <2>3. QED
    BY <2>1, <2>2
<1>3. ASSUME Quiet' PROVE Tests!WordsInOrder' /\ Tests!UserInOrder'
  <2>1. Tests!WordsInOrder /\ Tests!UserInOrder
    BY <1>3 DEF Tests!IInv, Quiet
  <2>2. Tests!WordsInOrder'
    BY <2>1 DEF Tests!Seen, Tests!WordsInOrder, Tests!Direct
  <2>3. Tests!UserInOrder'
    BY <2>1 DEF Tests!UserInOrder, Tests!Clean
  <2>4. QED
    BY <2>2, <2>3
<1>4. QED
  BY <1>1, <1>2, <1>3, TestsKept

\* A statement that only uses what is there and leaves the memories alone.
LEMMA StepOn ==
    ASSUME Tests!IInv, Tests!TypeOK', v4 # <<>>, Tests!Go,
           v6' = v6, v7' = v7, v8' = v8, v9' = v9, v10' = v10, v11 \subseteq v11',
           \/ v5' = v5
           \/ Head(v4)[1] = "acquire" /\ v5' = v5 \cup {Head(v4)[2]},
           Head(v4)[1] \notin {"release", "fill", "sync"},
           Head(v4)[1] = "sleep" /\ Quiet' => v9.left = {}
    PROVE  Tests!IInv'
<1>1. Tests!TypeOK /\ Tests!Scripted /\ Tests!WillReturn
  BY DEF Tests!IInv
<1>2. Tests!Scripted'
  BY <1>1, ScriptGoes
<1>3. Tests!WillReturn'
  BY <1>1, HeldGoes
<1>4. ASSUME Quiet' PROVE Tests!WordsInOrder' /\ Tests!UserInOrder'
  BY <1>1, <1>4, LeftOnlyAsleep, GoesQuietly DEF Tests!IInv, Quiet
<1>5. QED
  BY <1>2, <1>3, <1>4, TestsKept

\* open, new, mapBAR and the buffers.
LEMMA AcquiresKeep == Tests!IInv /\ Tests!Acquires => Tests!IInv'
<1> SUFFICES ASSUME Tests!IInv, Tests!Acquires PROVE Tests!IInv'
  OBVIOUS
<1>1. /\ v4 # <<>> /\ Head(v4)[1] = "acquire" /\ Tests!Go /\ v5' = v5 \cup {Head(v4)[2]}
      /\ v1' = v1 /\ v2' = v2 /\ v6' = v6 /\ v7' = v7 /\ v8' = v8 /\ v9' = v9 /\ v10' = v10
      /\ v11' = v11 /\ v12' = v12 /\ v13' = v13 /\ v14' = v14 /\ v15' = v15
  BY DEF Tests!Acquires, Tests!Doing, Tests!Arg, Tests!place, Tests!memory, Tests!irq
<1>2. Head(v4) \in Tests!Statements
  BY <1>1, ScriptGoes DEF Tests!IInv
<1>3. Head(v4)[2] \in Tests!Things
  BY <1>1, <1>2, StatementKinds
<1>4. Tests!TypeOK'
  BY <1>1, <1>3 DEF Tests!IInv, Tests!TypeOK
<1>5. QED
  BY <1>1, <1>4, StepOn

\* The statements that touch neither what is held nor the memories, and those of
\* the thread.
LEMMA StillKeep ==
    ASSUME Tests!IInv,
           \/ Tests!GetSize \/ Tests!ShowMemory \/ Tests!Sleeps
           \/ Tests!CreateThread \/ Tests!StopThread \/ Tests!LockMutex \/ Tests!DestroyMutex
    PROVE  Tests!IInv'
<1>1. /\ v4 # <<>> /\ Tests!Go /\ v5' = v5
      /\ Head(v4)[1] \in {"size", "show", "sleep", "create", "stop", "lock", "destroy"}
      /\ v1' = v1 /\ v2' = v2 /\ v6' = v6 /\ v7' = v7 /\ v8' = v8 /\ v9' = v9 /\ v10' = v10
      /\ v12' = v12 /\ v11 \subseteq v11' /\ v11' \subseteq v11 \cup {"late"}
  BY DEF Tests!GetSize, Tests!ShowMemory, Tests!Sleeps, Tests!CreateThread, Tests!StopThread,
         Tests!LockMutex, Tests!DestroyMutex, Tests!Doing, Tests!place, Tests!memory,
         Tests!irq, Tests!Meet
<1>2. /\ v13' \in [Tests!Numbers -> {"none", "test", "wait", "ioctl", "unlock", "gone"}]
      /\ v14' \in BOOLEAN /\ v15' \in {"free", "locked", "destroyed"}
  BY Zenon DEF Tests!GetSize, Tests!ShowMemory, Tests!Sleeps, Tests!CreateThread,
     Tests!StopThread,
         Tests!LockMutex, Tests!DestroyMutex, Tests!irq, Tests!IInv, Tests!TypeOK
<1>3. Tests!TypeOK'
  BY <1>1, <1>2 DEF Tests!IInv, Tests!TypeOK, Tests!Hindrances
<1>4. Head(v4)[1] = "sleep" /\ Quiet' => v9.left = {}
  BY DEF Tests!GetSize, Tests!ShowMemory, Tests!Sleeps, Tests!CreateThread, Tests!StopThread,
         Tests!LockMutex, Tests!DestroyMutex, Tests!Doing, Tests!Meet, Quiet
<1>5. QED
  BY <1>1, <1>3, <1>4, StepOn

\* What is given back, with its words.
LEMMA ReleasesKeep == Tests!IInv /\ Tests!Releases => Tests!IInv'
<1> SUFFICES ASSUME Tests!IInv, Tests!Releases PROVE Tests!IInv'
  OBVIOUS
<1> DEFINE ms == Tests!Given(Tests!Arg) \cap Tests!Memories
<1>1. /\ v4 # <<>> /\ Head(v4)[1] = "release" /\ Tests!Go
      /\ v5' = v5 \ Tests!Given(Head(v4)[2]) /\ Tests!Forget(ms)
      /\ v1' = v1 /\ v2' = v2 /\ v7' = v7
      /\ v11' = v11 /\ v12' = v12 /\ v13' = v13 /\ v14' = v14 /\ v15' = v15
  BY DEF Tests!Releases, Tests!Doing, Tests!Arg, Tests!place, Tests!irq
<1>2. Tests!TypeOK /\ Tests!Scripted /\ Tests!WillReturn
  BY DEF Tests!IInv
<1>3. ms \in SUBSET Tests!Memories
  OBVIOUS
<1> HIDE DEF ms
<1>4. /\ v6' \in [Tests!Memories -> [Tests!Cells -> Tests!Patterns]]
      /\ v10' \in [Tests!Memories -> [Tests!Cells -> Tests!Patterns]]
      /\ v8' \in [Tests!Cells -> Tests!Patterns]
      /\ v9' \in [from : Tests!Memories, to : Tests!Memories, left : SUBSET Tests!Cells]
  BY <1>1, <1>2, <1>3, MemoryForgotten
<1>5. Tests!TypeOK'
  BY <1>1, <1>2, <1>4 DEF Tests!TypeOK
<1>6. Tests!Scripted' /\ Head(v4) = v4[1]
  BY <1>1, <1>2, ScriptGoes
<1>7. Tests!WillReturn'
  BY <1>1, <1>2, HeldReleased
<1>8. ASSUME Quiet' PROVE Tests!WordsInOrder' /\ Tests!UserInOrder'
  <2>1. Tests!WordsInOrder /\ Tests!UserInOrder
    BY <1>1, <1>8 DEF Tests!IInv, Quiet
  <2>2. v9.left = {}
    BY <1>1, <2>1, LeftOnlyAsleep
  <2>3. /\ Tests!WordsInOrder' /\ (Tests!Clean => Tests!Clean')
        /\ (v8 = v6["user"] => v8' = v6'["user"])
    BY <1>1, <1>2, <1>3, <2>1, <2>2, MemoryForgotten
  <2>4. ~Tests!Fills(v4, 1) /\ v4[1] # Tests!Sync /\ v4' = Tail(v4)
    BY <1>1, <1>6, StatementsSay DEF Tests!Fills, Tests!Go
  <2>5. Tests!UserInOrder'
    BY <1>1, <1>2, <2>1, <2>3, <2>4, UserGoes
  <2>6. QED
    BY <2>3, <2>5
<1>9. QED
  BY <1>5, <1>6, <1>7, <1>8, TestsKept

\* The program writes to a memory.
LEMMA StoresKeep == Tests!IInv /\ (Tests!PokeRegs \/ Tests!FillMemory) => Tests!IInv'
<1> SUFFICES ASSUME Tests!IInv, Tests!PokeRegs \/ Tests!FillMemory PROVE Tests!IInv'
  OBVIOUS
<1>1. /\ v4 # <<>> /\ Tests!Go /\ Head(v4)[1] \in {"poke", "fill"}
      /\ v1' = v1 /\ v2' = v2 /\ v5' = v5 /\ v7' = v7 /\ v8' = v8 /\ v9' = v9
      /\ v11' = v11 /\ v12' = v12 /\ v13' = v13 /\ v14' = v14 /\ v15' = v15
  BY DEF Tests!PokeRegs, Tests!FillMemory, Tests!Doing, Tests!place, Tests!irq
<1>2. Tests!TypeOK /\ Tests!Scripted /\ Tests!WillReturn
  BY DEF Tests!IInv
<1>3. Tests!Scripted' /\ Head(v4) = v4[1] /\ Head(v4) \in Tests!Statements
  BY <1>1, <1>2, ScriptGoes
<1>4. Tests!WillReturn'
  BY <1>1, <1>2, HeldGoes
<1>5. PICK m \in Tests!Memories, cells \in SUBSET Tests!Cells, p \in Tests!Patterns :
         /\ v6' = Tests!Stored(v6, m, cells, p) /\ v10' = Tests!Stored(v10, m, cells, p)
         /\ Tests!Fills(v4, 1) => m = "user" /\ cells = Tests!Cells
         /\ ~Tests!Fills(v4, 1) => m # "user"
  <2>1. CASE Tests!PokeRegs
    BY <1>3, <2>1 DEF Tests!PokeRegs, Tests!Doing, Tests!Fills, Tests!Memories,
       Tests!Cells, Tests!Patterns
  <2>2. CASE Tests!FillMemory
    BY <1>3, <2>2, StatementKinds DEF Tests!FillMemory, Tests!Doing, Tests!Arg, Tests!Fills
  <2>3. QED
    BY <2>1, <2>2
<1>6. /\ v6' \in [Tests!Memories -> [Tests!Cells -> Tests!Patterns]]
      /\ v10' \in [Tests!Memories -> [Tests!Cells -> Tests!Patterns]]
  BY <1>2, <1>5 DEF Tests!TypeOK, Tests!Stored
<1>7. Tests!TypeOK'
  BY <1>1, <1>2, <1>6 DEF Tests!TypeOK
<1>8. ASSUME Quiet' PROVE Tests!WordsInOrder' /\ Tests!UserInOrder'
  <2>1. Tests!WordsInOrder /\ Tests!UserInOrder
    BY <1>1, <1>8 DEF Tests!IInv, Quiet
  <2>2. v9.left = {}
    BY <1>1, <2>1, LeftOnlyAsleep
  <2>3. /\ Tests!WordsInOrder' /\ (Tests!Clean => Tests!Clean')
        /\ (m # "user" => v6'["user"] = v6["user"])
        /\ (m = "user" /\ cells = Tests!Cells => Tests!Clean')
    BY <1>1, <1>2, <1>5, <2>1, <2>2, MemoryStored
  <2>4. v4[1] # Tests!Sync /\ v4' = Tail(v4)
    BY <1>1, <1>3, StatementsSay DEF Tests!Go
  <2>5. Tests!UserInOrder'
    BY <1>1, <1>2, <1>5, <2>1, <2>3, <2>4, UserGoes
  <2>6. QED
    BY <2>3, <2>5
<1>9. QED
  BY <1>3, <1>4, <1>7, <1>8, TestsKept

\* The sync of the user's buffer.
LEMMA SyncKeeps == Tests!IInv /\ Tests!SyncUser => Tests!IInv'
<1> SUFFICES ASSUME Tests!IInv, Tests!SyncUser PROVE Tests!IInv'
  OBVIOUS
<1>1. /\ v4 # <<>> /\ Tests!Go /\ Head(v4)[1] = "sync" /\ v8' = v6["user"]
      /\ v1' = v1 /\ v2' = v2 /\ v5' = v5 /\ v6' = v6 /\ v7' = v7 /\ v9' = v9 /\ v10' = v10
      /\ v11' = v11 /\ v12' = v12 /\ v13' = v13 /\ v14' = v14 /\ v15' = v15
  BY DEF Tests!SyncUser, Tests!Doing, Tests!place, Tests!irq
<1>2. Tests!TypeOK /\ Tests!Scripted /\ Tests!WillReturn
  BY DEF Tests!IInv
<1>3. Tests!Scripted' /\ Head(v4) = v4[1]
  BY <1>1, <1>2, ScriptGoes
<1>4. Tests!WillReturn'
  BY <1>1, <1>2, HeldGoes
<1>5. Tests!TypeOK'
  BY <1>1, <1>2 DEF Tests!TypeOK, Tests!Memories
<1>6. ASSUME Quiet' PROVE Tests!WordsInOrder' /\ Tests!UserInOrder'
  <2>1. Tests!WordsInOrder /\ Tests!UserInOrder
    BY <1>1, <1>6 DEF Tests!IInv, Quiet
  <2>2. v9.left = {}
    BY <1>1, <2>1, LeftOnlyAsleep
  <2>3. Tests!WordsInOrder'
    BY <1>1, <2>1, <2>2, MemoryStays
  <2>4. ~Tests!Fills(v4, 1) /\ v4' = Tail(v4) /\ (Tests!Clean => Tests!Clean')
    BY <1>1, <1>3 DEF Tests!Fills, Tests!Go, Tests!Clean
  <2>5. Tests!UserInOrder'
    BY <1>1, <1>2, <2>1, <2>4, UserGoes
  <2>6. QED
    BY <2>3, <2>5
<1>7. QED
  BY <1>3, <1>4, <1>5, <1>6, TestsKept

\* A transfer is told to the board: it is between two memories, and the source
\* has the words it should have.
LEMMA StartKeeps == Tests!IInv /\ Tests!StartDMA => Tests!IInv'
<1> SUFFICES ASSUME Tests!IInv, Tests!StartDMA PROVE Tests!IInv'
  OBVIOUS
<1> DEFINE from == Head(v4)[2]
           to == Head(v4)[3]
           cells == Tests!Moved(v1)
<1>1. /\ v4 # <<>> /\ Tests!Go /\ Head(v4)[1] = "start"
      /\ v9' = [from |-> from, to |-> to, left |-> cells]
      /\ v10' = [v10 EXCEPT ![to] =
                    [c \in Tests!Cells |-> IF c \in cells THEN v10[from][c] ELSE @[c]]]
      /\ v1' = v1 /\ v2' = v2 /\ v5' = v5 /\ v6' = v6 /\ v7' = v7 /\ v8' = v8
      /\ v11' = v11 /\ v12' = v12 /\ v13' = v13 /\ v14' = v14 /\ v15' = v15
  BY DEF Tests!StartDMA, Tests!Doing, Tests!Arg, Tests!place, Tests!irq
<1>2. Tests!TypeOK /\ Tests!Scripted /\ Tests!WillReturn
  BY DEF Tests!IInv
<1>3. Tests!Scripted' /\ Head(v4) = v4[1] /\ Head(v4) \in Tests!Statements
  BY <1>1, <1>2, ScriptGoes
<1>4. Tests!WillReturn'
  BY <1>1, <1>2, HeldGoes
<1>5. from \in Tests!Memories /\ to \in Tests!Memories /\ cells \subseteq Tests!Cells
  BY <1>1, <1>3, StatementKinds DEF Tests!Moved, Tests!Cells
<1>6. /\ v4' # <<>> /\ Head(v4') = Tests!Sleep /\ from # to /\ v4' = Tail(v4)
  BY <1>1, <1>2, TailKeeps, Zenon DEF Tests!Scripted, Tests!Go
<1> HIDE DEF cells
<1>7. /\ v10 \in [Tests!Memories -> [Tests!Cells -> Tests!Patterns]]
      /\ v6 \in [Tests!Memories -> [Tests!Cells -> Tests!Patterns]]
  BY <1>2 DEF Tests!TypeOK
<1>8. \A m \in Tests!Memories, c \in Tests!Cells :
         v10'[m][c] = IF m = to /\ c \in cells THEN v10[from][c] ELSE v10[m][c]
  BY <1>1, <1>5, <1>7
<1>9. v10' \in [Tests!Memories -> [Tests!Cells -> Tests!Patterns]]
  BY <1>1, <1>5, <1>7
<1>10. Tests!TypeOK'
  BY <1>1, <1>2, <1>5, <1>9 DEF Tests!TypeOK
<1>11. ASSUME Quiet' PROVE Tests!WordsInOrder' /\ Tests!UserInOrder'
  <2>1. Tests!WordsInOrder /\ Tests!UserInOrder
    BY <1>1, <1>11 DEF Tests!IInv, Quiet
  <2>2. v9.left = {}
    BY <1>1, <2>1, LeftOnlyAsleep
  <2>3. \A m \in Tests!Direct, c \in Tests!Cells : v6[m][c] = v10[m][c]
    BY <2>1, <2>2 DEF Tests!WordsInOrder
  <2>4. Tests!Direct' = Tests!Direct /\ Tests!Direct \subseteq Tests!Memories
    BY <1>1 DEF Tests!Direct, Tests!Memories
  <2>5. ASSUME NEW c \in cells PROVE v10[from][c] = Tests!Seen(from)[c]
    <3>1. CASE from \in Tests!Direct
      BY <1>5, <2>3, <2>5, <3>1 DEF Tests!Seen, Tests!Direct
    <3>2. CASE from \notin Tests!Direct
      <4>1. from = "user" /\ v7
        BY <1>5, <3>2 DEF Tests!Direct, Tests!Memories
      <4>2. 1 \in 1 .. Len(v4) /\ Tests!Sends(v4, 1)
        BY <1>1, <1>2, <1>3, <4>1, TailOf DEF Tests!Scripted, Tests!Sends, Tests!Starts
      <4>3. ~Tests!FilledAndSynced(v4, 1)
        BY DEF Tests!FilledAndSynced
      <4>4. Tests!Clean /\ v8 = v6["user"]
        BY <2>1, <4>1, <4>2, <4>3 DEF Tests!UserInOrder
      <4>5. QED
        BY <4>1, <4>4 DEF Tests!Clean, Tests!Seen
    <3>3. QED
      BY <3>1, <3>2
  <2>7. /\ v9'.left = cells /\ v9'.from = from /\ v9'.to = to
    BY <1>1
  <2>8. Tests!WordsInOrder'
    <3>1. \A m \in Tests!Direct', c \in Tests!Cells :
             m # v9'.to \/ c \notin v9'.left => v6'[m][c] = v10'[m][c]
      BY <1>1, <1>8, <2>3, <2>4, <2>7
    <3>2. \A c \in v9'.left :
             v10'[v9'.to][c] = (IF v9'.from = "user" /\ v7' THEN v8' ELSE v6'[v9'.from])[c]
      BY <1>1, <1>5, <1>8, <2>5, <2>7 DEF Tests!Seen
    <3>3. QED
      BY <1>6, <2>7, <3>1, <3>2 DEF Tests!WordsInOrder, Tests!Seen
  <2>9. /\ ~Tests!Fills(v4, 1) /\ v4[1] # Tests!Sync
        /\ (Tests!Brings(v4, 1) <=> to = "user")
    BY <1>1, <1>3, StatementsSay DEF Tests!Fills, Tests!Brings, Tests!Starts
  <2>10. Tests!Clean /\ to # "user" => Tests!Clean'
    BY <1>1, <1>7, <2>7 DEF Tests!Memories, Tests!Clean
  <2>11. Tests!UserInOrder'
    BY <1>1, <1>2, <1>6, <2>1, <2>9, <2>10, UserGoes
  <2>12. QED
    BY <2>8, <2>11
<1>12. QED
  BY <1>3, <1>4, <1>10, <1>11, TestsKept

\* A word is moved by the board.
LEMMA MoveKeeps ==
    ASSUME NEW c \in Tests!Cells, Tests!IInv, Tests!Move(c)
    PROVE  Tests!IInv'
<1> DEFINE word == Tests!Seen(v9.from)[c]
           Into == IF v9.to = "user" /\ v7
                   THEN v8' = [v8 EXCEPT ![c] = word] /\ v6' = v6
                   ELSE v6' = [v6 EXCEPT ![v9.to][c] = word] /\ v8' = v8
<1>1. /\ c \in v9.left /\ v9' = [v9 EXCEPT !.left = @ \ {c}]
      /\ IF ~Tests!InReach(c) THEN v6' = v6 /\ v8' = v8 ELSE Into
      /\ v1' = v1 /\ v2' = v2 /\ v3' = v3 /\ v4' = v4 /\ v5' = v5 /\ v7' = v7 /\ v10' = v10
      /\ v11' = v11 /\ v12' = v12 /\ v13' = v13 /\ v14' = v14 /\ v15' = v15
  BY DEF Tests!Move, Tests!place, Tests!script, Tests!irq
<1>2. Tests!TypeOK /\ Tests!Scripted /\ Tests!WillReturn
  BY DEF Tests!IInv
<1>3. /\ v6 \in [Tests!Memories -> [Tests!Cells -> Tests!Patterns]]
      /\ v8 \in [Tests!Cells -> Tests!Patterns]
      /\ v9 \in [from : Tests!Memories, to : Tests!Memories, left : SUBSET Tests!Cells]
      /\ v9.from \in Tests!Memories /\ v9.to \in Tests!Memories
  BY <1>2 DEF Tests!TypeOK
<1>4. word \in Tests!Patterns
  BY <1>3 DEF Tests!Seen
<1> HIDE DEF word
<1>5. Tests!Scripted'
  BY <1>1, <1>2, ScriptStays
<1>6. Tests!WillReturn'
  BY <1>1, <1>2 DEF Tests!GivenLater, Tests!WillReturn
<1>7. /\ v9'.from = v9.from /\ v9'.to = v9.to /\ v9'.left = v9.left \ {c}
      /\ v9' \in [from : Tests!Memories, to : Tests!Memories, left : SUBSET Tests!Cells]
  BY <1>1, <1>3
<1>8. /\ v6' \in [Tests!Memories -> [Tests!Cells -> Tests!Patterns]]
      /\ v8' \in [Tests!Cells -> Tests!Patterns]
  <2>1. \/ v6' = v6 \/ v6' = [v6 EXCEPT ![v9.to][c] = word]
    BY <1>1
  <2>2. \/ v8' = v8 \/ v8' = [v8 EXCEPT ![c] = word]
    BY <1>1
  <2>3. QED
    BY <1>3, <1>4, <2>1, <2>2
<1>9. Tests!TypeOK'
  BY <1>1, <1>2, <1>7, <1>8 DEF Tests!TypeOK
<1>10. ASSUME Quiet' PROVE Tests!WordsInOrder' /\ Tests!UserInOrder'
  <2>1. Tests!WordsInOrder /\ Tests!UserInOrder
    BY <1>1, <1>10 DEF Tests!IInv, Quiet
  <2>2. /\ v4 # <<>> /\ Head(v4) = Tests!Sleep /\ v9.from # v9.to
        /\ word = v10[v9.to][c]
    BY <1>1, <2>1 DEF Tests!WordsInOrder, word
  <2>3. Tests!InReach(c) /\ Into
    BY <1>1, <1>10 DEF Tests!InReach, Quiet
  <2>4. Tests!Seen(v9.from) = IF v9'.from = "user" /\ v7' THEN v8' ELSE v6'[v9'.from]
    BY <1>1, <1>3, <1>7, <2>2, <2>3 DEF Tests!Seen
  <2>5. Tests!Direct' = Tests!Direct /\ Tests!Direct \subseteq Tests!Memories
    BY <1>1 DEF Tests!Direct, Tests!Memories
  <2>6. ASSUME NEW m \in Tests!Direct, NEW d \in Tests!Cells,
               m # v9.to \/ d \notin v9.left \ {c}
        PROVE  v6'[m][d] = v10'[m][d]
    <3>1. CASE m = v9.to /\ d = c
      BY <1>1, <1>3, <2>2, <2>3, <3>1 DEF Tests!Direct
    <3>2. CASE ~(m = v9.to /\ d = c)
      BY <1>1, <1>3, <2>1, <2>3, <2>5, <2>6, <3>2 DEF Tests!WordsInOrder
    <3>3. QED
      BY <3>1, <3>2
  <2>7. Tests!WordsInOrder'
    <3>1. \A d \in v9'.left :
             v10'[v9'.to][d] = (IF v9'.from = "user" /\ v7' THEN v8' ELSE v6'[v9'.from])[d]
      BY <1>1, <1>7, <2>1, <2>4 DEF Tests!WordsInOrder
    <3>2. \A m \in Tests!Direct', d \in Tests!Cells :
             m # v9'.to \/ d \notin v9'.left => v6'[m][d] = v10'[m][d]
      BY <1>7, <2>5, <2>6
    <3>3. v4' # <<>> /\ Head(v4') = Tests!Sleep /\ v9'.from # v9'.to
      BY <1>1, <1>7, <2>2
    <3>4. QED
      BY <3>1, <3>2, <3>3 DEF Tests!WordsInOrder, Tests!Seen
  <2>8. Tests!Clean => Tests!Clean' /\ v6'["user"] = v6["user"] /\ v8' = v8
    BY <1>1, <1>3, <1>7, <2>3 DEF Tests!Clean, Tests!Memories
  <2>9. Tests!UserInOrder'
    BY <1>1, <2>1, <2>8 DEF Tests!UserInOrder
  <2>10. QED
    BY <2>7, <2>9
<1>11. QED
  BY <1>5, <1>6, <1>9, <1>10, TestsKept

\* A step to the next test, or the end, with what was met on the way.
LEMMA StepAway ==
    ASSUME Tests!IInv, Tests!TypeOK', Tests!WillReturn',
           Tests!NextTest \/ (v3' = <<>> /\ v4' = <<>>),
           v7' = v7, v11 \subseteq v11',
           v4 = <<>> \/ Head(v4)[1] # "sleep",
           Tests!WordsInOrder /\ v9.left = {} => Tests!WordsInOrder'
    PROVE  Tests!IInv'
<1>1. Tests!Scripted' /\ Tests!Prepared(v4')
  <2>1. CASE Tests!NextTest
    BY <2>1, ScriptNext DEF Tests!IInv
  <2>2. CASE v3' = <<>> /\ v4' = <<>>
    BY <2>2, ScriptStays DEF Tests!Prepared, Tests!IInv
  <2>3. QED
    BY <2>1, <2>2
<1>2. ASSUME Quiet' PROVE Tests!WordsInOrder' /\ Tests!UserInOrder'
  BY <1>1, <1>2, LeftOnlyAsleep, UserPrepared DEF Tests!IInv, Quiet
<1>3. QED
  BY <1>1, <1>2, TestsKept

\* A failure: the program ends, or goes on without the test or the device.
LEMMA FailuresKeep ==
    ASSUME Tests!IInv, Tests!PcieCallFails \/ Tests!DmaCallFails \/ Tests!CCallFails
    PROVE  Tests!IInv'
<1>1. /\ v4 # <<>> /\ Head(v4)[1] \in {"acquire", "release", "size", "sync"}
      /\ v11' = v11 \cup {"failure"}
      /\ v1' = v1 /\ v2' = v2 /\ v6' = v6 /\ v7' = v7 /\ v8' = v8 /\ v9' = v9 /\ v10' = v10
      /\ v13' = v13 /\ v14' = v14 /\ v15' = v15
      /\ v12' \in {v12, "terminated", "exited"}
  BY DEF Tests!PcieCallFails, Tests!DmaCallFails, Tests!CCallFails, Tests!Failing,
         Tests!Doing, Tests!Meet, Tests!place, Tests!memory, Tests!irq
<1>2. v5' \subseteq v5 \cup {"lock"}
  BY DEF Tests!PcieCallFails, Tests!DmaCallFails, Tests!CCallFails, Tests!HeldAfterFailure
<1>3. \/ v3' = v3 /\ v4' = v4
      \/ Tests!NextTest \/ (v3' = <<>> /\ v4' = <<>>)
      \/ Tests!Go /\ Head(v4)[1] = "release"
  BY DEF Tests!PcieCallFails, Tests!DmaCallFails, Tests!CCallFails, Tests!script, Tests!Doing
<1>4. Tests!TypeOK'
  BY <1>1, <1>2 DEF Tests!IInv, Tests!TypeOK, Tests!Things, Tests!Hindrances
<1>5. Tests!WillReturn'
  BY <1>1 DEF Tests!WillReturn
<1>6. CASE v3' = v3 /\ v4' = v4
  BY <1>1, <1>4, <1>6, StepAside
<1>7. CASE Tests!NextTest \/ (v3' = <<>> /\ v4' = <<>>)
  BY <1>1, <1>4, <1>5, <1>7, MemoryStays, StepAway
<1>8. CASE Tests!Go /\ Head(v4)[1] = "release"
  <2>1. Tests!Scripted' /\ v4' = Tail(v4) /\ Head(v4) = v4[1] /\ Tests!Scripted
    BY <1>1, <1>8, ScriptGoes DEF Tests!IInv, Tests!Go
  <2>2. ASSUME Quiet' PROVE Tests!WordsInOrder' /\ Tests!UserInOrder'
    <3>1. Tests!WordsInOrder /\ Tests!UserInOrder
      BY <1>1, <2>2 DEF Tests!IInv, Quiet
    <3>2. v9.left = {}
      BY <1>1, <3>1, LeftOnlyAsleep
    <3>3. Tests!WordsInOrder'
      BY <1>1, <3>1, <3>2, MemoryStays
    <3>4. ~Tests!Fills(v4, 1) /\ (Tests!Clean => Tests!Clean')
      BY <1>1, <2>1 DEF Tests!Fills, Tests!Clean
    <3>5. Tests!UserInOrder'
      BY <1>1, <1>8, <2>1, <3>1, <3>4, StatementsSay, UserGoes
    <3>6. QED
      BY <3>3, <3>5
  <2>3. QED
    BY <1>4, <1>5, <2>1, <2>2, TestsKept
<1>9. QED
  BY <1>3, <1>6, <1>7, <1>8

\* The tests a program begins with, one by one.
LEMMA Beginning ==
    ASSUME NEW p \in Tests!Programs, NEW first, NEW rest,
           first = Head(Tests!TestDevice(p)), rest = Tail(Tests!TestDevice(p))
    PROVE  /\ first \in Seq(Tests!Statements) /\ Tests!Slept(first) /\ Tests!Prepared(first)
           /\ Tests!Returned(first, Later(rest))
           /\ rest \in Seq(Seq(Tests!Statements))
           /\ \A k \in 1 .. Len(rest) :
                 /\ Tests!Slept(rest[k]) /\ Tests!Prepared(rest[k])
                 /\ Tests!Returned(rest[k], {})
<1> DEFINE ts == Tests!TestDevice(p)
<1>1. InOrder(ts)
  BY Scripts
<1> HIDE DEF ts
<1>2. ts \in Seq(Seq(Tests!Statements)) /\ Len(ts) > 0 /\ ts # <<>>
  <2>1. Len(<<>>) = 0
    OBVIOUS
  <2>2. QED
    BY <1>1, <2>1 DEF InOrder
<1>3. /\ Tail(ts) \in Seq(Seq(Tests!Statements)) /\ Head(ts) = ts[1]
      /\ \A i \in 1 .. Len(Tail(ts)) : i + 1 \in 1 .. Len(ts) /\ Tail(ts)[i] = ts[i + 1]
  BY <1>2, TailOf
<1>4. Later(Tail(ts)) = UNION {Tests!GivenBy(ts[k]) : k \in 2 .. Len(ts)}
  BY <1>2, LaterThanFirst
<1>5. Needing(ts[1], Later(Tail(ts)))
  BY <1>1, <1>4, Zenon DEF InOrder
<1>6. \A k \in 2 .. Len(ts) : Needing(ts[k], {})
  BY <1>1 DEF InOrder
<1>7. ASSUME NEW k \in 1 .. Len(Tail(ts)) PROVE Needing(Tail(ts)[k], {})
  <2>1. k + 1 \in 2 .. Len(ts) /\ Tail(ts)[k] = ts[k + 1]
    BY <1>3
  <2>2. QED
    BY <1>6, <2>1
<1>8. first = ts[1] /\ rest = Tail(ts)
  BY <1>3 DEF ts
<1>9. QED
  BY <1>3, <1>5, <1>7, <1>8, Zenon DEF Needing

\* A program has begun: nothing is held, and no word has been touched.
LEMMA TestsStart == Tests!Init => Tests!IInv
<1> SUFFICES ASSUME Tests!Init PROVE Tests!IInv
  OBVIOUS
<1>1. /\ v1 \in Tests!Programs /\ v2 = 0
      /\ v3 = Tail(Tests!TestDevice(v1)) /\ v4 = Head(Tests!TestDevice(v1))
      /\ v5 = {} /\ v11 = {} /\ v12 = "running"
      /\ v6 = Tests!Untouched /\ v10 = Tests!Untouched
      /\ v8 = Tests!Untouched["user"] /\ v9 = Tests!NoMove /\ v7 \in BOOLEAN
      /\ v13 = [n \in Tests!Numbers |-> "none"] /\ v14 = FALSE /\ v15 = "free"
  BY DEF Tests!Init
<1>2. /\ v4 \in Seq(Tests!Statements) /\ Tests!Slept(v4) /\ Tests!Prepared(v4)
      /\ Tests!Returned(v4, Later(v3))
      /\ v3 \in Seq(Seq(Tests!Statements))
      /\ \A k \in 1 .. Len(v3) :
            Tests!Slept(v3[k]) /\ Tests!Prepared(v3[k]) /\ Tests!Returned(v3[k], {})
  BY <1>1, Beginning, Zenon
<1>3. Tests!Scripted
  BY <1>2 DEF Tests!Scripted
<1>4. Tests!WillReturn
  BY <1>1, <1>2, Zenon DEF Tests!WillReturn, Tests!GivenLater, Later
<1>5. Tests!Untouched \in [Tests!Memories -> [Tests!Cells -> Tests!Patterns]]
  BY DEF Tests!Untouched, Tests!Patterns
<1>6. "user" \in Tests!Memories /\ 0 \in Tests!Numbers
  BY TestNumbers DEF Tests!Memories, Tests!Numbers
<1>7. Tests!NoMove \in [from : Tests!Memories, to : Tests!Memories, left : SUBSET Tests!Cells]
      /\ Tests!NoMove.left = {}
  BY DEF Tests!NoMove, Tests!Memories
<1>8. Tests!TypeOK
  BY <1>1, <1>5, <1>6, <1>7, Zenon DEF Tests!TypeOK
<1>9. Tests!WordsInOrder
  BY <1>1, <1>7 DEF Tests!WordsInOrder
<1>10. Tests!UserInOrder
  BY <1>2 DEF Tests!UserInOrder, Tests!Prepared
<1>11. QED
  BY <1>3, <1>4, <1>8, <1>9, <1>10 DEF Tests!IInv

\* A scattered buffer is used, or given up with all that the test holds.
LEMMA ScatteredKeeps == Tests!IInv /\ Tests!TestScattered => Tests!IInv'
<1> SUFFICES ASSUME Tests!IInv, Tests!TestScattered PROVE Tests!IInv'
  OBVIOUS
<1>1. /\ v4 # <<>> /\ Head(v4)[1] = "scattered"
      /\ v1' = v1 /\ v2' = v2 /\ v7' = v7 /\ v12' = v12
      /\ v13' = v13 /\ v14' = v14 /\ v15' = v15
  BY DEF Tests!TestScattered, Tests!Doing, Tests!place, Tests!irq
<1>2. CASE /\ Tests!Go /\ v5' = v5 /\ v11' \in {v11, v11 \cup {"short"}}
           /\ v6' = v6 /\ v8' = v8 /\ v9' = v9 /\ v10' = v10
  BY <1>1, <1>2, StepOn DEF Tests!IInv, Tests!TypeOK, Tests!Hindrances
<1>3. CASE /\ Tests!NextTest /\ v11' = v11 \cup {"early"}
           /\ v5' = v5 \ {"kernel", "user", "file"} /\ Tests!Forget({"kernel", "user"})
  <2>1. {"kernel", "user"} \in SUBSET Tests!Memories
    BY DEF Tests!Memories
  <2>2. /\ v6' \in [Tests!Memories -> [Tests!Cells -> Tests!Patterns]]
        /\ v10' \in [Tests!Memories -> [Tests!Cells -> Tests!Patterns]]
        /\ v8' \in [Tests!Cells -> Tests!Patterns]
        /\ v9' \in [from : Tests!Memories, to : Tests!Memories, left : SUBSET Tests!Cells]
        /\ Tests!WordsInOrder /\ v9.left = {} => Tests!WordsInOrder'
    BY <1>1, <1>3, <2>1, MemoryForgotten DEF Tests!IInv
  <2>3. Tests!TypeOK'
    BY <1>1, <1>3, <2>2 DEF Tests!IInv, Tests!TypeOK, Tests!Hindrances
  <2>4. Tests!WillReturn'
    BY <1>3 DEF Tests!WillReturn
  <2>5. QED
    BY <1>1, <1>3, <2>2, <2>3, <2>4, StepAway
<1>4. QED
  BY <1>2, <1>3 DEF Tests!TestScattered, Tests!Meet, Tests!memory

\* The threads that wait for interrupts.
LEMMA HandlersKeep ==
    ASSUME NEW n \in Tests!Numbers, Tests!IInv, Tests!Handler(n)
    PROVE  Tests!IInv'
<1>1. /\ v1' = v1 /\ v2' = v2 /\ v3' = v3 /\ v4' = v4 /\ v5' = v5 /\ v6' = v6 /\ v7' = v7
      /\ v8' = v8 /\ v9' = v9 /\ v10' = v10 /\ v14' = v14
  BY DEF Tests!Handler, Tests!HandlerTest, Tests!HandlerWait, Tests!Interrupt,
         Tests!HandlerUnlock, Tests!place, Tests!script, Tests!memory
<1>2. v11' \in {v11, v11 \cup {"race"}} /\ v12' \in {v12, "terminated"}
      /\ v15' \in {v15, "free"}
  BY DEF Tests!Handler, Tests!HandlerTest, Tests!HandlerWait, Tests!Interrupt,
         Tests!HandlerUnlock, Tests!Meet
<1>3. PICK to \in {"test", "wait", "ioctl", "unlock", "gone"} :
         v13' = v13 \/ v13' = [v13 EXCEPT ![n] = to]
  BY DEF Tests!Handler, Tests!HandlerTest, Tests!HandlerWait, Tests!Interrupt,
         Tests!HandlerUnlock
<1>4. Tests!TypeOK'
  BY <1>1, <1>2, <1>3 DEF Tests!IInv, Tests!TypeOK, Tests!Hindrances
<1>5. v11 \subseteq v11'
  BY <1>2
<1>6. QED
  BY <1>1, <1>4, <1>5, StepAside

\* A test is over: what is still held, the other tests give back.
LEMMA OverKeeps == Tests!IInv /\ Tests!TestOver => Tests!IInv'
<1> SUFFICES ASSUME Tests!IInv, Tests!TestOver PROVE Tests!IInv'
  OBVIOUS
<1>1. /\ v4 = <<>> /\ v3 # <<>> /\ Tests!NextTest
      /\ v1' = v1 /\ v2' = v2 /\ v5' = v5 /\ v6' = v6 /\ v7' = v7 /\ v8' = v8 /\ v9' = v9
      /\ v10' = v10 /\ v11' = v11 /\ v12' = v12 /\ v13' = v13 /\ v14' = v14 /\ v15' = v15
  BY DEF Tests!TestOver, Tests!place, Tests!memory, Tests!irq
<1>2. Tests!TypeOK'
  BY <1>1 DEF Tests!IInv, Tests!TypeOK
<1>3. Tests!WillReturn'
  <2>1. /\ Tests!GivenLater = Tests!GivenBy(v4') \cup Tests!GivenLater'
        /\ Tests!Returned(v4', {})
    BY <1>1, ScriptNext DEF Tests!IInv
  <2>2. Tests!GivenBy(v4) = {}
    BY <1>1 DEF Tests!GivenBy
  <2>3. v11 \cap {"failure", "early"} = {} => v5 \subseteq Tests!GivenBy(v4) \cup Tests!GivenLater
    BY DEF Tests!IInv, Tests!WillReturn
  <2>4. Tests!Returned(v4', Tests!GivenLater')
    BY <2>1 DEF Tests!Returned
  <2>5. QED
    BY <1>1, <2>1, <2>2, <2>3, <2>4 DEF Tests!WillReturn
<1>4. Tests!WordsInOrder /\ v9.left = {} => Tests!WordsInOrder'
  BY <1>1, MemoryStays
<1>5. QED
  BY <1>1, <1>2, <1>3, <1>4, StepAway

\* main: the next device, with nothing held, or the end.
LEMMA MainKeeps == Tests!IInv /\ Tests!Main => Tests!IInv'
<1> SUFFICES ASSUME Tests!IInv, Tests!Main PROVE Tests!IInv'
  OBVIOUS
<1>1. /\ v4 = <<>> /\ v3 = <<>> /\ v5' = {} /\ v11' = {} /\ Tests!Forget(Tests!Memories)
      /\ v1' = v1 /\ v7' = v7 /\ v13' = v13 /\ v14' = v14 /\ v15' = v15
  BY DEF Tests!Main, Tests!Over, Tests!irq
<1>2. /\ v2' = v2 \/ v2' \in Tests!Numbers
      /\ v12' \in {v12, "done"}
      /\ \/ v3' = Tail(Tests!TestDevice(v1)) /\ v4' = Head(Tests!TestDevice(v1))
         \/ v3' = v3 /\ v4' = v4
  BY DEF Tests!Main, Tests!script
<1>3. /\ v6' \in [Tests!Memories -> [Tests!Cells -> Tests!Patterns]]
      /\ v10' \in [Tests!Memories -> [Tests!Cells -> Tests!Patterns]]
      /\ v8' \in [Tests!Cells -> Tests!Patterns]
      /\ v9' \in [from : Tests!Memories, to : Tests!Memories, left : SUBSET Tests!Cells]
      /\ Tests!WordsInOrder'
  BY <1>1, MemoryForgotten DEF Tests!IInv
<1>4. Tests!TypeOK'
  BY <1>1, <1>2, <1>3 DEF Tests!IInv, Tests!TypeOK
<1>5. Tests!Scripted' /\ Tests!WillReturn' /\ Tests!Prepared(v4')
  <2>1. CASE v3' = Tail(Tests!TestDevice(v1)) /\ v4' = Head(Tests!TestDevice(v1))
    <3>1. v1 \in Tests!Programs
      BY DEF Tests!IInv, Tests!TypeOK
    <3>2. /\ v4' \in Seq(Tests!Statements) /\ Tests!Slept(v4') /\ Tests!Prepared(v4')
          /\ Tests!Returned(v4', Later(v3'))
          /\ v3' \in Seq(Seq(Tests!Statements))
          /\ \A k \in 1 .. Len(v3') :
                Tests!Slept(v3'[k]) /\ Tests!Prepared(v3'[k]) /\ Tests!Returned(v3'[k], {})
      BY <2>1, <3>1, Beginning, Zenon
    <3>3. Tests!Scripted'
      BY <3>2 DEF Tests!Scripted
    <3>4. Tests!WillReturn'
      BY <1>1, <3>2 DEF Tests!WillReturn, Tests!GivenLater, Later
    <3>5. QED
      BY <3>2, <3>3, <3>4
  <2>2. CASE v3' = v3 /\ v4' = v4
    BY <1>1, <2>2, ScriptStays DEF Tests!IInv, Tests!WillReturn, Tests!Returned,
       Tests!Prepared
  <2>3. QED
    BY <1>2, <2>1, <2>2
<1>6. Tests!UserInOrder'
  BY <1>5, UserPrepared
<1>7. QED
  BY <1>3, <1>4, <1>5, <1>6, TestsKept

\* Each statement of a test, the board's moves, the threads and the way from one
\* test to the next.
LEMMA TestsStep == Tests!IInv /\ [Tests!Next]_Tests!vars => Tests!IInv'
<1> SUFFICES ASSUME Tests!IInv, [Tests!Next]_Tests!vars PROVE Tests!IInv'
  OBVIOUS
<1>1. CASE UNCHANGED Tests!vars
  BY <1>1, StepAside DEF Tests!vars, Tests!place, Tests!script, Tests!memory, Tests!irq,
     Tests!IInv, Tests!TypeOK
<1>2. CASE Tests!Acquires
  BY <1>2, AcquiresKeep
<1>3. CASE Tests!Releases
  BY <1>3, ReleasesKeep
<1>4. CASE \/ Tests!GetSize \/ Tests!ShowMemory \/ Tests!Sleeps
           \/ Tests!CreateThread \/ Tests!StopThread \/ Tests!LockMutex \/ Tests!DestroyMutex
  BY <1>4, StillKeep
<1>5. CASE Tests!PcieCallFails \/ Tests!DmaCallFails \/ Tests!CCallFails
  BY <1>5, FailuresKeep
<1>6. CASE Tests!PokeRegs \/ Tests!FillMemory
  BY <1>6, StoresKeep
<1>7. CASE Tests!StartDMA
  BY <1>7, StartKeeps
<1>8. CASE Tests!SyncUser
  BY <1>8, SyncKeeps
<1>9. CASE Tests!TestScattered
  BY <1>9, ScatteredKeeps
<1>10. CASE Tests!TestOver
  BY <1>10, OverKeeps
<1>11. CASE Tests!Main
  BY <1>11, MainKeeps
<1>12. CASE \E c \in Tests!Cells : Tests!Move(c)
  BY <1>12, MoveKeeps
<1>13. CASE \E n \in Tests!Numbers : Tests!Handler(n)
  BY <1>13, HandlersKeep
<1>14. QED
  BY <1>1, <1>2, <1>3, <1>4, <1>5, <1>6, <1>7, <1>8, <1>9, <1>10, <1>11, <1>12, <1>13
  DEF Tests!Next

\* What the invariant says of what is left, and of what is shown.
LEMMA TestsTrue == Tests!IInv => Tests!NothingLeft /\ Tests!ShownTrue
<1> SUFFICES ASSUME Tests!IInv PROVE Tests!NothingLeft /\ Tests!ShownTrue
  OBVIOUS
<1>1. Tests!NothingLeft
  <2> SUFFICES ASSUME Tests!Over, v11 \cap {"failure", "early"} = {} PROVE v5 = {}
    BY DEF Tests!NothingLeft
  <2>1. v4 = <<>> /\ v3 = <<>>
    BY DEF Tests!Over
  <2>2. Tests!GivenBy(v4) = {} /\ Tests!GivenLater = {}
    BY <2>1 DEF Tests!GivenBy, Tests!GivenLater
  <2>3. QED
    BY <2>2 DEF Tests!IInv, Tests!WillReturn
<1>2. Tests!ShownTrue
  <2> SUFFICES ASSUME Tests!Doing("show"), "late" \notin v11, "short" \notin v11,
                      ~(Tests!Arg = "user" /\ v7)
               PROVE  v6[Tests!Arg] = v10[Tests!Arg]
    BY DEF Tests!ShownTrue
  <2>1. Tests!TypeOK /\ Tests!Scripted /\ Tests!WordsInOrder
    BY DEF Tests!IInv
  <2>2. v4 # <<>> /\ Head(v4)[1] = "show" /\ Tests!Arg = Head(v4)[2]
    BY DEF Tests!Doing, Tests!Arg
  <2>3. Head(v4) \in Tests!Statements
    BY <2>1, <2>2, TailOf DEF Tests!Scripted
  <2>4. Tests!Arg \in Tests!Memories
    BY <2>2, <2>3, StatementKinds
  <2>5. Tests!Arg \in Tests!Direct
    BY <2>4 DEF Tests!Direct, Tests!Memories
  <2>6. v9.left = {}
    BY <2>1, <2>2, LeftOnlyAsleep
  <2>7. \A c \in Tests!Cells : v6[Tests!Arg][c] = v10[Tests!Arg][c]
    BY <2>1, <2>5, <2>6 DEF Tests!WordsInOrder
  <2>8. v6[Tests!Arg] \in [Tests!Cells -> Tests!Patterns]
        /\ v10[Tests!Arg] \in [Tests!Cells -> Tests!Patterns]
    BY <2>1, <2>4 DEF Tests!TypeOK
  <2>9. QED
    BY <2>7, <2>8
<1>3. QED
  BY <1>1, <1>2

-----------------------------------------------------------------------------
\* Scatter/gather lists.

\* A set of natural numbers has a least element.
LEMMA LeastNumber ==
    ASSUME NEW S \in SUBSET Nat, S # {}
    PROVE  \E n \in S : \A m \in S : n <= m
<1> DEFINE R == OpToRel(<, Nat)
<1>1. IsWellFoundedOn(R, Nat)
  BY NatLessThanWellFounded, Zenon
<1>2. \A m, n \in Nat : m < n => <<m, n>> \in R
  BY DEF OpToRel
<1> HIDE DEF R
<1>3. PICK n \in S : \A m \in S : ~ (<<m, n>> \in R)
  BY <1>1, WFMin, Zenon
<1>4. ASSUME NEW m \in S PROVE n <= m
  <2>1. ~ (m < n)
    BY <1>2, <1>3, Zenon
  <2> QED
    BY <2>1
<1> QED
  BY <1>4

\* What holds of a number, and of the next one with each it holds of, holds of
\* all from there on.
LEMMA Upwards ==
    ASSUME NEW a \in Nat, NEW b \in Nat, NEW S, a \in S,
           \A n \in Nat : a <= n /\ n < b /\ n \in S => n + 1 \in S
    PROVE  \A n \in Nat : a <= n /\ n <= b => n \in S
<1> DEFINE Wrong == {n \in Nat : a <= n /\ n <= b /\ n \notin S}
<1>1. SUFFICES ASSUME Wrong # {} PROVE FALSE
  OBVIOUS
<1>2. PICK n \in Wrong : \A m \in Wrong : n <= m
  BY <1>1, LeastNumber, Zenon
<1>3. n # a /\ n - 1 \in Nat /\ a <= n - 1 /\ n - 1 < b
  BY <1>2
<1>4. n - 1 \notin Wrong
  BY <1>2, <1>3
<1>5. n - 1 \in S
  BY <1>3, <1>4
<1> QED
  BY <1>2, <1>3, <1>5

\* When two sequences make up a third.
LEMMA MadeUp ==
    ASSUME NEW S, NEW s \in Seq(S), NEW t \in Seq(S), NEW u \in Seq(S),
           Len(u) = Len(s) + Len(t),
           \A i \in 1 .. Len(s) : u[i] = s[i],
           \A i \in 1 .. Len(t) : u[Len(s) + i] = t[i]
    PROVE  s \o t = u
<1>1. /\ s \o t \in Seq(S) /\ Len(s \o t) = Len(s) + Len(t)
      /\ \A i \in 1 .. Len(s) + Len(t) :
            (s \o t)[i] = IF i <= Len(s) THEN s[i] ELSE t[i - Len(s)]
  BY ConcatProperties
<1>2. ASSUME NEW i \in 1 .. Len(u) PROVE (s \o t)[i] = u[i]
  <2>1. CASE i <= Len(s)
    BY <1>1, <2>1
  <2>2. CASE ~(i <= Len(s))
    BY <1>1, <2>2
  <2> QED
    BY <2>1, <2>2
<1> QED
  BY <1>1, <1>2, SeqEqual

\* A byte of a buffer on the bus, and the list that names the bytes, for any
\* buffer.
At(o, f, j) == f[(o + j - 1) \div PageSize + 1] * PageSize + ((o + j - 1) % PageSize)

\* The bytes after w up to u are on the bus from a on.
Lie(o, f, w, u, a) == \A j \in w + 1 .. u : At(o, f, j) = a + j - w - 1

Naming(o, f, l, ends) ==
    /\ ends[0] = 0
    /\ \A k \in 1 .. Len(l) :
          /\ ends[k - 1] < ends[k]
          /\ l[k].size = ends[k] - ends[k - 1]
          /\ Lie(o, f, ends[k - 1], ends[k], l[k].addr)

\* The bytes of an entry that follows another are counted on from that one's.
LEMMA CountedOn ==
    ASSUME NEW o, NEW f,
           NEW a \in Int, NEW b \in Int, NEW u \in Int, NEW w \in Int, NEW m \in Int,
           a = b + (u - w), Lie(o, f, w, u, b), Lie(o, f, u, m, a)
    PROVE  Lie(o, f, w, m, b)
<1> USE DEF Lie
<1> SUFFICES ASSUME NEW j \in w + 1 .. m PROVE At(o, f, j) = b + j - w - 1
  OBVIOUS
<1>1. CASE j <= u
  BY <1>1
<1>2. CASE ~(j <= u)
  BY <1>2
<1> QED
  BY <1>1, <1>2

NamedUpTo(o, s, f, l, n) ==
    \E ends \in [0 .. Len(l) -> 0 .. s] : Naming(o, f, l, ends) /\ ends[Len(l)] = n

\* Where entries end, and one more.
WithEnd(l, ends, m) == [i \in 0 .. Len(l) + 1 |-> IF i = Len(l) + 1 THEN m ELSE ends[i]]

\* Another entry, with the bytes up to m.
LEMMA NamesMore ==
    ASSUME NEW o, NEW f, NEW s \in Nat, NEW l \in Seq(List!Entries), NEW e \in List!Entries,
           NEW ends \in [0 .. Len(l) -> 0 .. s], Naming(o, f, l, ends),
           NEW m \in 0 .. s, ends[Len(l)] < m, e.size = m - ends[Len(l)],
           Lie(o, f, ends[Len(l)], m, e.addr)
    PROVE  Naming(o, f, Append(l, e), WithEnd(l, ends, m))
<1> DEFINE n == Len(l)
           more == WithEnd(l, ends, m)
           longer == Append(l, e)
<1>0. n \in Nat /\ n = Len(l)
  OBVIOUS
<1>1. /\ Len(longer) = n + 1 /\ longer[n + 1] = e
      /\ \A k \in 1 .. n : longer[k] = l[k]
  BY AppendProperties
<1>3. more[n + 1] = m /\ \A i \in 0 .. n : more[i] = ends[i]
  BY <1>0 DEF WithEnd
<1> HIDE DEF more, longer, n
<1>4. ASSUME NEW k \in 1 .. n + 1
      PROVE  /\ more[k - 1] < more[k]
             /\ longer[k].size = more[k] - more[k - 1]
             /\ Lie(o, f, more[k - 1], more[k], longer[k].addr)
  <2>1. CASE k = n + 1
    BY <1>0, <1>1, <1>3, <2>1
  <2>2. CASE k # n + 1
    <3>1. k \in 1 .. n /\ k - 1 \in 0 .. n /\ k \in 0 .. n
      BY <1>0, <2>2
    <3>2. more[k - 1] = ends[k - 1] /\ more[k] = ends[k] /\ longer[k] = l[k]
      BY <1>1, <1>3, <3>1
    <3> QED
      BY <1>0, <3>1, <3>2 DEF Naming
  <2> QED
    BY <2>1, <2>2
<1>5. more[0] = 0
  BY <1>0, <1>3 DEF Naming
<1>6. Naming(o, f, longer, more)
  BY <1>1, <1>4, <1>5 DEF Naming
<1> QED
  BY <1>6 DEF longer, more

\* The last entry made longer, by bytes that follow it on the bus.
LEMMA NamesLonger ==
    ASSUME NEW o, NEW f, NEW s \in Nat, NEW l \in Seq(List!Entries), l # <<>>,
           NEW e \in List!Entries,
           NEW ends \in [0 .. Len(l) -> 0 .. s], Naming(o, f, l, ends),
           NEW m \in 0 .. s, ends[Len(l)] < m, e.size = m - ends[Len(l)],
           e.addr = l[Len(l)].addr + l[Len(l)].size,
           Lie(o, f, ends[Len(l)], m, e.addr),
           NEW longer \in Seq(List!Entries), Len(longer) = Len(l),
           \A k \in 1 .. Len(l) - 1 : longer[k] = l[k],
           longer[Len(l)].addr = l[Len(l)].addr,
           longer[Len(l)].size = l[Len(l)].size + e.size
    PROVE  NamedUpTo(o, s, f, longer, m)
<1> DEFINE n == Len(l)
           more == [i \in 0 .. n |-> IF i = n THEN m ELSE ends[i]]
<1>0. n \in Nat \ {0} /\ n = Len(l)
  OBVIOUS
<1>1. more \in [0 .. n -> 0 .. s]
  OBVIOUS
<1>2. more[n] = m /\ \A i \in 0 .. n - 1 : more[i] = ends[i]
  BY <1>0
<1> HIDE DEF more, n
<1>3. /\ ends[n - 1] < ends[n] /\ l[n].size = ends[n] - ends[n - 1]
      /\ Lie(o, f, ends[n - 1], ends[n], l[n].addr)
  BY <1>0 DEF Naming
<1>4. /\ ends[n - 1] \in Nat /\ ends[n] \in Nat /\ l[n].addr \in Nat /\ l[n].size \in Nat
      /\ e.addr \in Nat
  <2>1. n \in 1 .. Len(l) /\ n \in 0 .. Len(l) /\ n - 1 \in 0 .. Len(l)
    BY <1>0
  <2>2. ends[n - 1] \in 0 .. s /\ ends[n] \in 0 .. s
    BY <2>1, Zenon
  <2>3. l[n] \in List!Entries
    BY <2>1
  <2>4. l[n].addr \in Nat /\ l[n].size \in Nat
    BY <2>3, Zenon DEF List!Entries
  <2>5. e.addr \in Nat
    BY DEF List!Entries
  <2> QED
    BY <2>2, <2>4, <2>5
<1>5. ASSUME NEW k \in 1 .. n
      PROVE  /\ more[k - 1] < more[k]
             /\ longer[k].size = more[k] - more[k - 1]
             /\ Lie(o, f, more[k - 1], more[k], longer[k].addr)
  <2>1. CASE k = n
    <3>0. n - 1 \in 0 .. n - 1
      BY <1>0
    <3>1. more[k - 1] = ends[n - 1] /\ more[k] = m
      BY <1>2, <2>1, <3>0
    <3>2. e.addr = l[n].addr + (ends[n] - ends[n - 1])
      BY <1>0, <1>3
    <3>3. Lie(o, f, ends[n], m, e.addr)
      BY <1>0
    <3>4. Lie(o, f, ends[n - 1], m, l[n].addr)
      BY <1>3, <1>4, <3>2, <3>3, CountedOn, SMTT(20)
    <3> QED
      BY <1>0, <1>3, <1>4, <2>1, <3>1, <3>4
  <2>2. CASE k # n
    <3>1. k \in 1 .. n - 1 /\ k - 1 \in 0 .. n - 1 /\ k \in 0 .. n - 1
      BY <1>0, <2>2
    <3>2. more[k - 1] = ends[k - 1] /\ more[k] = ends[k] /\ longer[k] = l[k]
      BY <1>0, <1>2, <3>1
    <3> QED
      BY <1>0, <3>1, <3>2, Zenon DEF Naming
  <2> QED
    BY <2>1, <2>2
<1>6. more[0] = 0
  BY <1>0, <1>2 DEF Naming
<1>7. Naming(o, f, longer, more)
  BY <1>0, <1>5, <1>6 DEF Naming
<1> QED
  BY <1>0, <1>1, <1>2, <1>7, Zenon DEF NamedUpTo

\* Sequences are flattened by putting them together: the recursion has a
\* solution, and no other.
LEMMA Flattened ==
    ASSUME NEW n \in Nat \ {0}, NEW s, Len(s) = n, NEW g,
           g[1] = s[1], \A i \in 2 .. n : g[i] = g[i - 1] \o s[i]
    PROVE  List!FlattenSeq(s) = g[n]
<1> DEFINE Solves(h) == h = [i \in 1 .. Len(s) |-> IF i = 1 THEN s[i] ELSE h[i - 1] \o s[i]]
           f == CHOOSE h : Solves(h)
           h == [i \in 1 .. n |-> g[i]]
<1>0. n \in Nat /\ 1 \in Nat /\ n # 0
  OBVIOUS
<1>7. List!FlattenSeq(s) = f[n]
  BY DEF List!FlattenSeq
<1>1. Solves(h)
  <2>1. ASSUME NEW i \in 1 .. n PROVE h[i] = IF i = 1 THEN s[i] ELSE h[i - 1] \o s[i]
    <3>1. CASE i = 1
      BY <3>1
    <3>2. CASE i # 1
      <4>1. i \in 2 .. n /\ i - 1 \in 1 .. n
        BY <3>2
      <4>2. h[i] = g[i] /\ h[i - 1] = g[i - 1]
        BY <4>1
      <4> QED
        BY <3>2, <4>1, <4>2, Zenon
    <3> QED
      BY <3>1, <3>2
  <2> QED
    BY <2>1
<1>2. Solves(f)
  <2> HIDE DEF h, Solves
  <2>1. \E x : Solves(x)
    BY <1>1
  <2> QED
    BY <2>1
<1>3. \A i \in 1 .. n : f[i] = IF i = 1 THEN s[i] ELSE f[i - 1] \o s[i]
  <2> HIDE DEF f
  <2> QED
    BY <1>2, Zenon
<1> HIDE DEF f
<1> DEFINE Right == {i \in Nat : f[i] = g[i]}
<1>4. 1 \in Right
  BY <1>3
<1>5. ASSUME NEW i \in Nat, 1 <= i, i < n, i \in Right PROVE i + 1 \in Right
  <2>1. i + 1 \in 2 .. n /\ (i + 1) - 1 = i /\ i + 1 \in 1 .. n /\ i + 1 # 1
    BY <1>5
  <2>2. f[i + 1] = f[i] \o s[i + 1] /\ g[i + 1] = g[i] \o s[i + 1]
    BY <1>3, <2>1, Zenon
  <2>3. f[i] = g[i]
    BY <1>5
  <2>4. f[i + 1] = g[i + 1]
    BY <2>2, <2>3
  <2> QED
    BY <2>4
<1>6. n \in Right
  <2> HIDE DEF Right
  <2>1. \A i \in Nat : 1 <= i /\ i < n /\ i \in Right => i + 1 \in Right
    BY <1>5
  <2>2. \A i \in Nat : 1 <= i /\ i <= n => i \in Right
    BY <1>0, <1>4, <2>1, Upwards, Zenon
  <2> QED
    BY <2>2
<1> QED
  BY <1>6, <1>7

\* The bytes of a buffer.
BytesUpTo(o, f, s) == [j \in 1 .. s |-> At(o, f, j)]

\* A list that names the bytes of a buffer up to the last one names them all.
LEMMA NamesAll ==
    ASSUME NEW o, NEW f, NEW s \in Nat \ {0}, NEW l \in Seq(List!Entries),
           NEW ends \in [0 .. Len(l) -> 0 .. s], Naming(o, f, l, ends), ends[Len(l)] = s
    PROVE  List!ListBytes(l) = BytesUpTo(o, f, s)
<1> DEFINE n == Len(l)
           b == [k \in DOMAIN l |-> List!BytesOf(l[k])]
           g == [k \in 1 .. n |-> [j \in 1 .. ends[k] |-> At(o, f, j)]]
<1>0. n \in Nat \ {0} /\ n = Len(l) /\ DOMAIN l = 1 .. n
  BY DEF Naming
<1> HIDE DEF n
<1>1. ASSUME NEW k \in 1 .. n
      PROVE  /\ ends[k - 1] \in Nat /\ ends[k] \in Nat /\ ends[k - 1] < ends[k]
             /\ l[k].size = ends[k] - ends[k - 1] /\ l[k].addr \in Nat
             /\ Lie(o, f, ends[k - 1], ends[k], l[k].addr)
  <2>1. k \in 1 .. Len(l) /\ k \in 0 .. Len(l) /\ k - 1 \in 0 .. Len(l)
    BY <1>0
  <2>2. ends[k - 1] \in 0 .. s /\ ends[k] \in 0 .. s /\ l[k] \in List!Entries
    BY <2>1
  <2>3. l[k].addr \in Nat
    BY <2>2 DEF List!Entries
  <2> QED
    BY <2>1, <2>2, <2>3 DEF Naming
<1>2. ASSUME NEW k \in 1 .. n
      PROVE  /\ b[k] = [j \in 1 .. ends[k] - ends[k - 1] |-> l[k].addr + j - 1]
             /\ g[k] = [j \in 1 .. ends[k] |-> At(o, f, j)]
  BY <1>0, <1>1 DEF List!BytesOf
<1>3. ASSUME NEW k \in 1 .. n PROVE b[k] \in Seq(Int) /\ Len(b[k]) = ends[k] - ends[k - 1]
  <2>1. ends[k] - ends[k - 1] \in Nat /\ \A j \in 1 .. ends[k] - ends[k - 1] : l[k].addr + j - 1 \in Int
    BY <1>1
  <2>2. b[k] = [j \in 1 .. ends[k] - ends[k - 1] |-> l[k].addr + j - 1]
    BY <1>2, Zenon
  <2> HIDE DEF b
  <2> QED
    BY <2>1, <2>2
<1>4. ASSUME NEW k \in 1 .. n, NEW j \in 1 .. ends[k] PROVE At(o, f, j) \in Int
  <2> DEFINE Typed == {i \in Nat : i <= n /\ \A m \in 1 .. ends[i] : At(o, f, m) \in Int}
  <2>1. 0 \in Typed
    BY <1>0 DEF Naming
  <2>2. ASSUME NEW i \in Nat, 0 <= i, i < n, i \in Typed PROVE i + 1 \in Typed
    <3>1. i + 1 \in 1 .. n /\ (i + 1) - 1 = i
      BY <2>2, SMTT(20)
    <3>2. /\ ends[i] \in Nat /\ ends[i + 1] \in Nat
          /\ l[i + 1].addr \in Nat /\ Lie(o, f, ends[i], ends[i + 1], l[i + 1].addr)
      BY <1>1, <3>1
    <3>3. ASSUME NEW m \in 1 .. ends[i + 1] PROVE At(o, f, m) \in Int
      <4>1. CASE m <= ends[i]
        BY <2>2, <3>2, <4>1
      <4>2. CASE ~(m <= ends[i])
        <5>1. At(o, f, m) = l[i + 1].addr + m - ends[i] - 1
          BY <3>2, <4>2 DEF Lie
        <5> QED
          BY <3>2, <5>1
      <4> QED
        BY <4>1, <4>2
    <3> QED
      BY <3>1, <3>3
  <2> HIDE DEF Typed
  <2>3. \A i \in Nat : 0 <= i /\ i <= n => i \in Typed
    BY <1>0, <2>1, <2>2, Upwards, Zenon
  <2>4. k \in Typed
    BY <1>0, <2>3
  <2> QED
    BY <2>4 DEF Typed
<1>5. ASSUME NEW k \in 1 .. n PROVE g[k] \in Seq(Int) /\ Len(g[k]) = ends[k]
  <2>1. ends[k] \in Nat /\ \A j \in 1 .. ends[k] : At(o, f, j) \in Int
    BY <1>1, <1>4
  <2>2. g[k] = [j \in 1 .. ends[k] |-> At(o, f, j)]
    BY <1>2
  <2> HIDE DEF g
  <2> QED
    BY <2>1, <2>2, SMTT(20)
<1>6. b \in Seq(Seq(Int)) /\ Len(b) = n
  BY <1>0, <1>3
<1>7. g[1] = b[1]
  <2>1. 1 \in 1 .. n /\ ends[0] = 0
    BY <1>0 DEF Naming
  <2>2. ends[1 - 1] = 0 /\ ends[1] \in Nat
    BY <1>1, <2>1
  <2>3. \A j \in 1 .. ends[1] : At(o, f, j) = l[1].addr + j - 1
    <3>1. Lie(o, f, 0, ends[1], l[1].addr) /\ l[1].addr \in Nat
      BY <1>1, <2>1, <2>2
    <3> QED
      BY <2>2, <3>1 DEF Lie
  <2>4. b[1] = [j \in 1 .. ends[1] |-> l[1].addr + j - 1]
    <3>1. b[1] = [j \in 1 .. ends[1] - ends[1 - 1] |-> l[1].addr + j - 1]
      BY <1>2, <2>1, Zenon
    <3>2. ends[1] - ends[1 - 1] = ends[1]
      BY <2>2
    <3> HIDE DEF b
    <3> QED
      BY <3>1, <3>2
  <2>5. g[1] = [j \in 1 .. ends[1] |-> At(o, f, j)]
    BY <1>2, <2>1
  <2> QED
    BY <2>3, <2>4, <2>5, Zenon
<1>8. ASSUME NEW i \in 2 .. n PROVE g[i] = g[i - 1] \o b[i]
  <2>1. i \in 1 .. n /\ i - 1 \in 1 .. n
    BY <1>0
  <2>2. /\ g[i] \in Seq(Int) /\ Len(g[i]) = ends[i]
        /\ g[i - 1] \in Seq(Int) /\ Len(g[i - 1]) = ends[i - 1]
        /\ b[i] \in Seq(Int) /\ Len(b[i]) = ends[i] - ends[i - 1]
    BY <1>3, <1>5, <2>1, Zenon
  <2>3. /\ ends[i - 1] \in Nat /\ ends[i] \in Nat /\ ends[i - 1] < ends[i] /\ l[i].addr \in Nat
        /\ Lie(o, f, ends[i - 1], ends[i], l[i].addr)
    BY <1>1, <2>1, Zenon
  <2>4. /\ \A j \in 1 .. ends[i] : g[i][j] = At(o, f, j)
        /\ \A j \in 1 .. ends[i - 1] : g[i - 1][j] = At(o, f, j)
        /\ \A j \in 1 .. ends[i] - ends[i - 1] : b[i][j] = l[i].addr + j - 1
    <3>1. /\ g[i] = [j \in 1 .. ends[i] |-> At(o, f, j)]
          /\ g[i - 1] = [j \in 1 .. ends[i - 1] |-> At(o, f, j)]
          /\ b[i] = [j \in 1 .. ends[i] - ends[i - 1] |-> l[i].addr + j - 1]
      BY <1>2, <2>1, Zenon
    <3> HIDE DEF g, b
    <3> QED
      BY <3>1
  <2> HIDE DEF g, b
  <2>5. \A j \in 1 .. Len(g[i - 1]) : g[i][j] = g[i - 1][j]
    <3> SUFFICES ASSUME NEW j \in 1 .. ends[i - 1] PROVE g[i][j] = g[i - 1][j]
      BY <2>2
    <3>1. j \in 1 .. ends[i]
      BY <2>3
    <3> QED
      BY <2>4, <3>1
  <2>6. ASSUME NEW j \in 1 .. Len(b[i]) PROVE g[i][Len(g[i - 1]) + j] = b[i][j]
    <3>1. j \in 1 .. ends[i] - ends[i - 1]
      BY <2>2
    <3>2. ends[i - 1] + j \in 1 .. ends[i] /\ ends[i - 1] + j \in ends[i - 1] + 1 .. ends[i]
      BY <2>3, <3>1
    <3>3. At(o, f, ends[i - 1] + j) = l[i].addr + (ends[i - 1] + j) - ends[i - 1] - 1
      BY <2>3, <3>2, Zenon DEF Lie
    <3>4. l[i].addr + (ends[i - 1] + j) - ends[i - 1] - 1 = l[i].addr + j - 1
      BY <2>3, <3>1
    <3> QED
      BY <2>2, <2>4, <3>1, <3>2, <3>3, <3>4, Zenon
  <2>7. Len(g[i]) = Len(g[i - 1]) + Len(b[i])
    BY <2>2, <2>3
  <2> QED
    BY <2>2, <2>5, <2>6, <2>7, MadeUp, Zenon
<1>9. g[n] = [j \in 1 .. s |-> At(o, f, j)]
  BY <1>0, <1>2
<1>10. List!FlattenSeq(b) = g[n]
  <2>2. \A i \in 2 .. n : g[i] = g[i - 1] \o b[i]
    BY <1>8, Zenon
  <2>3. n \in Nat \ {0} /\ Len(b) = n
    BY <1>0, <1>6
  <2> HIDE DEF g, b
  <2> QED
    BY <1>7, <2>2, <2>3, Flattened
<1> QED
  BY <1>9, <1>10 DEF List!ListBytes, BytesUpTo

\* Multiples are in the order of their factors, and lie b apart.
LEMMA Multiples ==
    ASSUME NEW m \in Int, NEW n \in Int, NEW b \in Nat \ {0}
    PROVE  /\ m * b \in Int
           /\ m <= n => m * b <= n * b
           /\ m < n => m * b + b <= n * b
           /\ (m + 1) * b = m * b + b /\ (m - 1) * b = m * b - b
<1>1. m * b \in Int /\ n * b \in Int
  OBVIOUS
<1>2. (m + 1) * b = m * b + b /\ (m - 1) * b = m * b - b
  OBVIOUS
<1>3. ASSUME m <= n PROVE m * b <= n * b
  <2>1. PICK d \in Nat : n = m + d
    BY <1>3
  <2>2. n * b = m * b + d * b /\ d * b \in Nat
    BY <2>1
  <2> QED
    BY <1>1, <2>2
<1>4. ASSUME m < n PROVE m * b + b <= n * b
  <2>1. PICK d \in Nat : n = m + 1 + d
    BY <1>4
  <2>2. n * b = m * b + b + d * b /\ d * b \in Nat
    BY <2>1
  <2> QED
    BY <1>1, <2>2
<1> QED
  BY <1>1, <1>2, <1>3, <1>4

\* The quotient of a number between two multiples that follow each other.
LEMMA QuotientIs ==
    ASSUME NEW x \in Nat, NEW q \in Nat, NEW b \in Nat \ {0}, q * b <= x, x < q * b + b
    PROVE  x \div b = q /\ x % b = x - q * b
<1>1. PICK y \in Nat, r \in 0 .. b - 1 : y = x \div b /\ r = x % b /\ x = b * y + r
  BY Quotients
<1>2. b * y = y * b /\ y * b \in Int /\ q * b \in Int
  OBVIOUS
<1>3. ~(y < q)
  BY <1>1, <1>2, Multiples
<1>4. ~(q < y)
  BY <1>1, <1>2, Multiples
<1>5. y = q
  BY <1>3, <1>4
<1> QED
  BY <1>1, <1>2, <1>5

\* Bytes of a buffer of s bytes at offset o that are in its first n pages.
UpTo(o, s, n) == IF n = 0 THEN 0 ELSE IF s < n * PageSize - o THEN s ELSE n * PageSize - o

TouchedBy(o, s, n) == (n - 1) * PageSize < o + s /\ o + s <= n * PageSize

\* Each page has some bytes of the buffer, and the first byte is where the entry
\* of the page says.
LEMMA PageBytes ==
    ASSUME NEW o \in Nat, o < PageSize, NEW s \in Nat \ {0}, NEW f, NEW n \in Nat, TouchedBy(o, s, n),
           NEW i \in 1 .. n, f[i] \in Nat
    PROVE  /\ UpTo(o, s, i - 1) \in 0 .. s /\ UpTo(o, s, i) \in 0 .. s
           /\ UpTo(o, s, i - 1) < UpTo(o, s, i)
           /\ Lie(o, f, UpTo(o, s, i - 1), UpTo(o, s, i),
                  f[i] * PageSize + (IF i = 1 THEN o ELSE 0))
<1>0. PageSize \in Nat \ {0} /\ i \in Nat \ {0} /\ i <= n
  BY ListNumbers DEF ListAssumption
<1>1. /\ i * PageSize \in Int /\ (i - 1) * PageSize = i * PageSize - PageSize
      /\ (i - 1) * PageSize <= (n - 1) * PageSize /\ (n - 1) * PageSize \in Int
      /\ i * PageSize <= n * PageSize /\ n * PageSize \in Int
      /\ i # 1 => PageSize + PageSize <= i * PageSize
      /\ PageSize <= i * PageSize
  <2>1. (i - 1) * PageSize <= (n - 1) * PageSize /\ (n - 1) * PageSize \in Int
    BY <1>0, Multiples
  <2>2. i * PageSize <= n * PageSize /\ n * PageSize \in Int
    BY <1>0, Multiples
  <2>3. i * PageSize \in Int /\ (i - 1) * PageSize = i * PageSize - PageSize
    BY <1>0, Multiples
  <2>4. 1 <= i => 1 * PageSize <= i * PageSize
    BY <1>0, Multiples
  <2>5. 1 < i => 1 * PageSize + PageSize <= i * PageSize
    BY <1>0, Multiples
  <2>6. 1 * PageSize = PageSize
    BY <1>0
  <2> QED
    BY <1>0, <2>1, <2>2, <2>3, <2>4, <2>5, <2>6
<1>2. (n - 1) * PageSize < o + s /\ o + s <= n * PageSize
  BY DEF TouchedBy
<1>3. UpTo(o, s, i - 1) = IF i = 1 THEN 0 ELSE i * PageSize - PageSize - o
  BY <1>0, <1>1, <1>2 DEF UpTo
<1>4. UpTo(o, s, i) = IF s < i * PageSize - o THEN s ELSE i * PageSize - o
  BY <1>0 DEF UpTo
<1>5. /\ UpTo(o, s, i - 1) \in 0 .. s /\ UpTo(o, s, i) \in 0 .. s
      /\ UpTo(o, s, i - 1) < UpTo(o, s, i)
  BY <1>0, <1>1, <1>2, <1>3, <1>4
<1>6. ASSUME NEW j \in UpTo(o, s, i - 1) + 1 .. UpTo(o, s, i)
      PROVE  At(o, f, j) = f[i] * PageSize + (IF i = 1 THEN o ELSE 0) + j - UpTo(o, s, i - 1) - 1
  <2>1. j \in Nat \ {0} /\ o + j - 1 \in Nat
    BY <1>5
  <2>2. (i - 1) * PageSize <= o + j - 1 /\ o + j - 1 < (i - 1) * PageSize + PageSize
    BY <1>0, <1>1, <1>2, <1>3, <1>4, <1>5, <2>1
  <2>3. UpTo(o, s, i - 1) = IF i = 1 THEN 0 ELSE (i - 1) * PageSize - o
    BY <1>1, <1>3
  <2>4. PICK x \in Nat, q \in Nat, w \in Nat, c \in Nat :
           x = o + j - 1 /\ q = i - 1 /\ w = UpTo(o, s, i - 1) /\ c = f[i]
    <3>1. i - 1 \in Nat /\ UpTo(o, s, i - 1) \in Nat
      BY <1>0, <1>5
    <3> QED
      BY <2>1, <3>1, Zenon
  <2>5. PICK y \in Int, z \in Int : y = q * PageSize /\ z = c * PageSize
    BY <1>0
  <2>6. y <= x /\ x < y + PageSize /\ w = IF i = 1 THEN 0 ELSE y - o
    BY <2>2, <2>3, <2>4, <2>5
  <2>7. x \div PageSize = q /\ x % PageSize = x - y
    BY <1>0, <2>5, <2>6, QuotientIs, Zenon
  <2>8. At(o, f, j) = z + (x - y)
    BY <1>0, <2>4, <2>5, <2>7 DEF At
  <2>9. z + (x - y) = z + (IF i = 1 THEN o ELSE 0) + j - w - 1
    <3>1. CASE i = 1
      BY <1>0, <2>4, <2>5, <2>6, <3>1
    <3>2. CASE i # 1
      BY <2>4, <2>6, <3>2
    <3> QED
      BY <3>1, <3>2
  <2> QED
    BY <2>4, <2>5, <2>8, <2>9
<1> QED
  BY <1>5, <1>6 DEF Lie

\* The buffer is in its pages.
LEMMA PagesEnd ==
    ASSUME NEW o \in Nat, o < PageSize, NEW s \in Nat \ {0}, NEW n \in Nat, TouchedBy(o, s, n)
    PROVE  UpTo(o, s, n) = s
<1>0. PageSize \in Nat \ {0} /\ n * PageSize \in Int
  BY ListNumbers DEF ListAssumption
<1>1. n # 0
  <2>1. 0 * PageSize = 0
    BY <1>0
  <2> QED
    BY <2>1 DEF TouchedBy
<1> QED
  BY <1>0, <1>1 DEF UpTo, TouchedBy

\* Which pages pci_map_sg may begin entries with.
FirstsOf(m, n) ==
    {f \in [1 .. n + 1 -> 1 .. m + 1] :
        f[1] = 1 /\ f[n + 1] = m + 1 /\ \A k \in 1 .. n : f[k] < f[k + 1]}

\* Entry i begins where the one before ends.
Adjacent(l, i) == l[i].addr = l[i - 1].addr + l[i - 1].size

\* Entries of adjacent pages are one.
LEMMA RunOfEntries ==
    ASSUME NEW o, NEW f, NEW s \in Nat, NEW l \in Seq(List!Entries),
           NEW ends \in [0 .. Len(l) -> 0 .. s], Naming(o, f, l, ends),
           NEW a \in 1 .. Len(l), NEW b \in a .. Len(l),
           \A i \in a + 1 .. b : Adjacent(l, i)
    PROVE  /\ ends[a - 1] < ends[b]
           /\ l[b].addr + l[b].size = l[a].addr + (ends[b] - ends[a - 1])
           /\ Lie(o, f, ends[a - 1], ends[b], l[a].addr)
<1>1. ASSUME NEW k \in 1 .. Len(l)
      PROVE  /\ ends[k - 1] \in Nat /\ ends[k] \in Nat /\ ends[k - 1] < ends[k]
             /\ l[k].size = ends[k] - ends[k - 1] /\ l[k].addr \in Nat
             /\ Lie(o, f, ends[k - 1], ends[k], l[k].addr)
  <2>1. k \in 0 .. Len(l) /\ k - 1 \in 0 .. Len(l)
    OBVIOUS
  <2>2. ends[k - 1] \in 0 .. s /\ ends[k] \in 0 .. s /\ l[k] \in List!Entries
    BY <2>1
  <2>3. l[k].addr \in Nat
    BY <2>2, Zenon DEF List!Entries
  <2> QED
    BY <2>2, <2>3 DEF Naming
<1> DEFINE Run(i) == /\ ends[a - 1] < ends[i]
                     /\ l[i].addr + l[i].size = l[a].addr + (ends[i] - ends[a - 1])
                     /\ Lie(o, f, ends[a - 1], ends[i], l[a].addr)
           S == {i \in Nat : Run(i)}
<1>2. a \in S
  <2>1. /\ ends[a - 1] \in Nat /\ ends[a] \in Nat /\ ends[a - 1] < ends[a]
        /\ l[a].size = ends[a] - ends[a - 1] /\ l[a].addr \in Nat
        /\ Lie(o, f, ends[a - 1], ends[a], l[a].addr)
    BY <1>1
  <2>2. l[a].addr + l[a].size = l[a].addr + (ends[a] - ends[a - 1])
    BY <2>1
  <2>3. Run(a)
    BY <2>1, <2>2
  <2> QED
    BY <2>3
<1>3. ASSUME NEW i \in Nat, a <= i, i < b, i \in S PROVE i + 1 \in S
  <2>1. /\ i \in 1 .. Len(l) /\ i + 1 \in 1 .. Len(l) /\ (i + 1) - 1 = i /\ i + 1 \in a + 1 .. b
    BY <1>3
  <2>2. l[i + 1].addr = l[i].addr + l[i].size
    BY <2>1 DEF Adjacent
  <2>3. /\ ends[i] \in Nat /\ ends[i + 1] \in Nat /\ ends[i] < ends[i + 1]
        /\ l[i + 1].size = ends[i + 1] - ends[i] /\ l[i + 1].addr \in Nat
        /\ Lie(o, f, ends[i], ends[i + 1], l[i + 1].addr)
    BY <1>1, <2>1
  <2>4. ends[a - 1] \in Nat /\ l[a].addr \in Nat
    BY <1>1
  <2>5. Run(i)
    BY <1>3
  <2>6. l[i + 1].addr = l[a].addr + (ends[i] - ends[a - 1])
    BY <2>2, <2>5
  <2>7. Lie(o, f, ends[a - 1], ends[i + 1], l[a].addr)
    <3>1. /\ Lie(o, f, ends[a - 1], ends[i], l[a].addr)
          /\ Lie(o, f, ends[i], ends[i + 1], l[i + 1].addr)
      BY <2>3, <2>5
    <3>2. /\ l[i + 1].addr \in Int /\ l[a].addr \in Int /\ ends[i] \in Int
          /\ ends[a - 1] \in Int /\ ends[i + 1] \in Int
      BY <2>3, <2>4, SMTT(20)
    <3> QED
      BY <2>6, <3>1, <3>2, CountedOn
  <2>8. ends[a - 1] < ends[i + 1]
    BY <2>3, <2>4, <2>5
  <2>9. l[i + 1].addr + l[i + 1].size = l[a].addr + (ends[i + 1] - ends[a - 1])
    <3> DEFINE x == l[a].addr
               y == ends[i]
               z == ends[a - 1]
               u == ends[i + 1]
               v == l[i + 1].addr
               w == l[i + 1].size
    <3>1. v = x + (y - z) /\ w = u - y
      BY <2>3, <2>6
    <3>2. x \in Int /\ y \in Int /\ z \in Int /\ u \in Int
      BY <2>3, <2>4
    <3>3. v + w = x + (u - z)
      <4> HIDE DEF x, y, z, u, v, w
      <4> QED
        BY <3>1, <3>2
    <3> QED
      BY <3>3
  <2> QED
    BY <2>7, <2>8, <2>9
<1>4. b \in S
  <2> HIDE DEF S
  <2>1. a \in Nat /\ b \in Nat /\ a <= b
    OBVIOUS
  <2>2. \A i \in Nat : a <= i /\ i < b /\ i \in S => i + 1 \in S
    BY <1>3
  <2>3. \A i \in Nat : a <= i /\ i <= b => i \in S
    BY <1>2, <2>1, <2>2, Upwards, Zenon
  <2> QED
    BY <2>1, <2>3
<1> QED
  BY <1>4

\* Numbers that grow grow by one at least.
LEMMA Growing ==
    ASSUME NEW n \in Nat, NEW g, \A k \in 1 .. n + 1 : g[k] \in Int,
           \A k \in 1 .. n : g[k] < g[k + 1],
           NEW a \in 1 .. n + 1, NEW b \in a .. n + 1
    PROVE  g[a] + (b - a) <= g[b]
<1> DEFINE S == {i \in Nat : g[a] + (i - a) <= g[i]}
<1>1. a \in S
  OBVIOUS
<1>2. ASSUME NEW i \in Nat, a <= i, i < b, i \in S PROVE i + 1 \in S
  <2>1. i \in 1 .. n /\ i \in 1 .. n + 1 /\ i + 1 \in 1 .. n + 1
    BY <1>2
  <2>2. g[i] < g[i + 1] /\ g[i] \in Int /\ g[i + 1] \in Int /\ g[a] \in Int
    BY <2>1
  <2>3. g[a] + (i - a) <= g[i]
    BY <1>2
  <2>4. g[a] + ((i + 1) - a) <= g[i + 1]
    BY <2>2, <2>3
  <2> QED
    BY <2>4
<1>3. b \in S
  <2> HIDE DEF S
  <2>1. a \in Nat /\ b \in Nat /\ a <= b
    OBVIOUS
  <2>2. \A i \in Nat : a <= i /\ i < b /\ i \in S => i + 1 \in S
    BY <1>2
  <2>3. \A i \in Nat : a <= i /\ i <= b => i \in S
    BY <1>1, <2>1, <2>2, Upwards, Zenon
  <2> QED
    BY <2>1, <2>3
<1> QED
  BY <1>3

\* Entry k of m is made of the pages from first[k] on.
MadeOf(m, l, first, k) ==
    /\ m[k].addr = l[first[k]].addr
    /\ m[k].size = (l[first[k + 1] - 1].addr + l[first[k + 1] - 1].size) - l[first[k]].addr

\* The mapped list names what the list of the pages names.
LEMMA FusedNames ==
    ASSUME NEW o, NEW f, NEW s \in Nat, NEW l \in Seq(List!Entries),
           NEW ends \in [0 .. Len(l) -> 0 .. s], Naming(o, f, l, ends),
           NEW n \in 1 .. Len(l), NEW first \in FirstsOf(Len(l), n),
           \A k \in 1 .. n : \A i \in first[k] + 1 .. first[k + 1] - 1 : Adjacent(l, i),
           NEW m, Len(m) = n, \A k \in 1 .. n : MadeOf(m, l, first, k)
    PROVE  /\ NamedUpTo(o, s, f, m, ends[Len(l)])
           /\ \A k \in 1 .. n : m[k].addr \in Nat /\ m[k].size \in Nat
<1> DEFINE more == [k \in 0 .. n |-> ends[first[k + 1] - 1]]
<1>1. ASSUME NEW k \in 1 .. n + 1 PROVE first[k] \in 1 .. Len(l) + 1
  BY DEF FirstsOf
<1>2. first[1] = 1 /\ first[n + 1] = Len(l) + 1 /\ \A k \in 1 .. n : first[k] < first[k + 1]
  BY DEF FirstsOf
<1>3. n \in Nat \ {0} /\ Len(l) \in Nat
  OBVIOUS
<1>4. ASSUME NEW k \in 0 .. n
      PROVE  more[k] = ends[first[k + 1] - 1] /\ more[k] \in 0 .. s
  BY <1>1, <1>3
<1>5. more \in [0 .. n -> 0 .. s]
  BY <1>4
<1> HIDE DEF more
<1>6. more[0] = 0 /\ more[n] = ends[Len(l)]
  <2>1. 0 \in 0 .. n /\ n \in 0 .. n /\ 0 + 1 = 1 /\ 1 - 1 = 0 /\ (Len(l) + 1) - 1 = Len(l)
    BY <1>3
  <2>2. ends[0] = 0
    BY DEF Naming
  <2> QED
    BY <1>2, <1>4, <2>1, <2>2, Zenon
<1>7. ASSUME NEW k \in 1 .. n
      PROVE  /\ more[k - 1] < more[k]
             /\ m[k].size = more[k] - more[k - 1]
             /\ Lie(o, f, more[k - 1], more[k], m[k].addr)
             /\ m[k].addr \in Nat /\ m[k].size \in Nat
  <2>1. /\ k \in 0 .. n /\ k - 1 \in 0 .. n /\ (k - 1) + 1 = k
        /\ k \in 1 .. n + 1 /\ k + 1 \in 1 .. n + 1
    BY <1>3
  <2>2. more[k] = ends[first[k + 1] - 1] /\ more[k - 1] = ends[first[k] - 1]
    BY <1>4, <2>1
  <2>3. PICK a \in 1 .. Len(l), b \in 1 .. Len(l) :
           a = first[k] /\ b = first[k + 1] - 1 /\ a <= b
    <3>1. first[k] \in Int /\ first[k + 1] \in Int /\ 1 <= first[k] /\ first[k] < first[k + 1]
          /\ first[k + 1] <= Len(l) + 1
      BY <1>1, <1>2, <2>1
    <3>2. first[k] \in 1 .. Len(l) /\ first[k + 1] - 1 \in 1 .. Len(l) /\ first[k] <= first[k + 1] - 1
      BY <3>1
    <3> QED
      BY <3>2
  <2>4. \A i \in a + 1 .. b : Adjacent(l, i)
    BY <2>3
  <2>5. b \in a .. Len(l)
    BY <2>3
  <2>6. /\ ends[a - 1] < ends[b]
        /\ l[b].addr + l[b].size = l[a].addr + (ends[b] - ends[a - 1])
        /\ Lie(o, f, ends[a - 1], ends[b], l[a].addr)
    BY <2>4, <2>5, RunOfEntries, Zenon
  <2>7. m[k].addr = l[a].addr /\ m[k].size = (l[b].addr + l[b].size) - l[a].addr
    BY <2>3, Zenon DEF MadeOf
  <2>8. more[k] = ends[b] /\ more[k - 1] = ends[a - 1]
    BY <2>2, <2>3
  <2>9. m[k].size = ends[b] - ends[a - 1]
    <3>1. l[a] \in List!Entries /\ a - 1 \in 0 .. Len(l) /\ b \in 0 .. Len(l)
      OBVIOUS
    <3>2. l[a].addr \in Nat
      BY <3>1, Zenon DEF List!Entries
    <3>3. ends[a - 1] \in 0 .. s /\ ends[b] \in 0 .. s
      BY <3>1, Zenon
    <3>4. m[k].size = (l[a].addr + (ends[b] - ends[a - 1])) - l[a].addr
      BY <2>6, <2>7
    <3>5. PICK x \in Int, y \in Int, z \in Int :
             x = l[a].addr /\ y = ends[b] /\ z = ends[a - 1]
      BY <3>2, <3>3
    <3>6. m[k].size = (x + (y - z)) - x
      BY <3>4, <3>5, Zenon
    <3>7. (x + (y - z)) - x = y - z
      OBVIOUS
    <3> QED
      BY <3>5, <3>6, <3>7
  <2>10. m[k].addr \in Nat /\ m[k].size \in Nat
    <3>1. l[a] \in List!Entries /\ ends[b] \in 0 .. s /\ ends[a - 1] \in 0 .. s
      <4>1. a - 1 \in 0 .. Len(l) /\ b \in 0 .. Len(l)
        OBVIOUS
      <4> QED
        BY <4>1, SMTT(20)
    <3>2. l[a].addr \in Nat
      BY <3>1, Zenon DEF List!Entries
    <3> QED
      BY <2>6, <2>7, <2>9, <3>1, <3>2
  <2> QED
    BY <2>6, <2>7, <2>8, <2>9, <2>10
<1>8. Naming(o, f, m, more)
  BY <1>6, <1>7 DEF Naming
<1> QED
  BY <1>5, <1>6, <1>7, <1>8, Zenon DEF NamedUpTo

\* What the invariant says of the list while it grows, and of a mapped list, for
\* any buffer.
OfPages(o, f, l) ==
    \A k \in 1 .. Len(l) : l[k].addr = f[k] * PageSize + (IF k = 1 THEN o ELSE 0)

Filled(o, s, f, l, rest) ==
    /\ Len(l) <= Len(f) /\ OfPages(o, f, l)
    /\ rest = s - UpTo(o, s, Len(l))
    /\ Naming(o, f, l, [n \in 0 .. Len(l) |-> UpTo(o, s, n)])

NamedSoFar(o, s, f, l, m, i) ==
    \E ends \in [0 .. Len(l) -> 0 .. s] :
        /\ Naming(o, f, l, ends) /\ ends[Len(l)] = s
        /\ NamedUpTo(o, s, f, m, ends[i - 1])

NoTwoAreOne(l) == \A k \in 1 .. Len(l) - 1 : l[k + 1].addr # l[k].addr + l[k].size

LeastOf(a, b) == IF a < b THEN a ELSE b

\* A page has as many bytes as are left for it.
LEMMA PageHas ==
    ASSUME NEW o \in Nat, o < PageSize, NEW s \in Nat \ {0}, NEW n \in Nat, TouchedBy(o, s, n),
           NEW i \in 1 .. n
    PROVE  LeastOf(s - UpTo(o, s, i - 1), IF i = 1 THEN PageSize - o ELSE PageSize)
             = UpTo(o, s, i) - UpTo(o, s, i - 1)
<1>0. PageSize \in Nat \ {0} /\ i \in Nat \ {0} /\ i <= n
  BY ListNumbers DEF ListAssumption
<1>1. PICK x \in Int : x = i * PageSize /\ (i - 1) * PageSize = x - PageSize
  BY <1>0, Multiples
<1>2. i = 1 => x = PageSize
  BY <1>0, <1>1
<1>3. x - PageSize < o + s
  BY <1>0, <1>1, Multiples DEF TouchedBy
<1>4. UpTo(o, s, i) = IF s < x - o THEN s ELSE x - o
  BY <1>0, <1>1 DEF UpTo
<1>5. UpTo(o, s, i - 1) = IF i = 1 THEN 0 ELSE x - PageSize - o
  BY <1>0, <1>1, <1>3 DEF UpTo
<1>6. CASE i = 1
  BY <1>0, <1>2, <1>4, <1>5, <1>6 DEF LeastOf
<1>7. CASE i # 1
  BY <1>0, <1>3, <1>4, <1>5, <1>7 DEF LeastOf
<1> QED
  BY <1>6, <1>7

\* Page i has the bytes that follow those of the pages before it, as many as are
\* left or fit in it.
PageDone(o, s, f, i) ==
    /\ UpTo(o, s, i - 1) \in 0 .. s /\ UpTo(o, s, i) \in 0 .. s
    /\ UpTo(o, s, i - 1) < UpTo(o, s, i)
    /\ Lie(o, f, UpTo(o, s, i - 1), UpTo(o, s, i), f[i] * PageSize + (IF i = 1 THEN o ELSE 0))
    /\ LeastOf(s - UpTo(o, s, i - 1), IF i = 1 THEN PageSize - o ELSE PageSize)
         = UpTo(o, s, i) - UpTo(o, s, i - 1)

\* So it is with each page that the buffer touches.
LEMMA EachPage ==
    ASSUME NEW o \in Nat, o < PageSize, NEW s \in Nat \ {0}, NEW f \in Seq(Nat),
           TouchedBy(o, s, Len(f)), NEW i \in 1 .. Len(f)
    PROVE  PageDone(o, s, f, i)
<1>1. Len(f) \in Nat /\ f[i] \in Nat
  OBVIOUS
<1> QED
  BY <1>1, PageBytes, PageHas DEF PageDone

\* The entry of one more page.
LEMMA PageEntry ==
    ASSUME NEW o \in Nat, o < PageSize, NEW s \in Nat \ {0}, NEW f \in Seq(Nat),
           TouchedBy(o, s, Len(f)),
           NEW l \in Seq(List!Entries), Len(l) < Len(f), NEW rest, Filled(o, s, f, l, rest),
           NEW a, a = f[Len(l) + 1] * PageSize + (IF l = <<>> THEN o ELSE 0),
           NEW n, n = LeastOf(rest, IF l = <<>> THEN PageSize - o ELSE PageSize)
    PROVE  /\ List!Entry(a, n) \in List!Entries
           /\ n = UpTo(o, s, Len(l) + 1) - UpTo(o, s, Len(l))
<1> DEFINE i == Len(l) + 1
<1>0. /\ PageSize \in Nat \ {0} /\ Len(l) \in Nat /\ i \in 1 .. Len(f) /\ i - 1 = Len(l)
      /\ i = Len(l) + 1
      /\ i = 1 <=> l = <<>>
  BY ListNumbers, EmptySeq DEF ListAssumption
<1>1. f[i] \in Nat /\ f[i] * PageSize \in Nat
  <2>1. PICK x \in Nat : x = f[i]
    BY <1>0
  <2>2. x * PageSize \in Nat
    BY <1>0
  <2> QED
    BY <2>1, <2>2
<1>2. Len(l) <= Len(f) /\ OfPages(o, f, l) /\ rest = s - UpTo(o, s, i - 1)
  BY <1>0 DEF Filled
<1>3. /\ UpTo(o, s, i - 1) \in 0 .. s /\ UpTo(o, s, i) \in 0 .. s
      /\ UpTo(o, s, i - 1) < UpTo(o, s, i)
      /\ Lie(o, f, UpTo(o, s, i - 1), UpTo(o, s, i), f[i] * PageSize + (IF i = 1 THEN o ELSE 0))
  <2>1. PageDone(o, s, f, i)
    <3> HIDE DEF i
    <3> QED
      BY <1>0, EachPage
  <2> HIDE DEF i
  <2> QED
    BY <2>1 DEF PageDone
<1>4. n = LeastOf(s - UpTo(o, s, i - 1), IF i = 1 THEN PageSize - o ELSE PageSize)
  BY <1>0, <1>2
<1>5. n = UpTo(o, s, i) - UpTo(o, s, i - 1)
  <2>1. PageDone(o, s, f, i)
    <3> HIDE DEF i
    <3> QED
      BY <1>0, EachPage
  <2> HIDE DEF i
  <2> QED
    BY <1>4, <2>1 DEF PageDone
<1>6. a \in Nat /\ n \in Nat
  <2>1. n \in Nat
    BY <1>3, <1>5
  <2>2. PICK x \in Nat : x = f[i] * PageSize
    BY <1>1
  <2>3. a = x + (IF l = <<>> THEN o ELSE 0)
    BY <2>2
  <2> QED
    BY <2>1, <2>3
<1> QED
  BY <1>0, <1>5, <1>6 DEF List!Entry, List!Entries

\* The list with that entry.
LEMMA PageFilled ==
    ASSUME NEW o \in Nat, o < PageSize, NEW s \in Nat \ {0}, NEW f \in Seq(Nat),
           TouchedBy(o, s, Len(f)),
           NEW l \in Seq(List!Entries), Len(l) < Len(f), NEW rest, Filled(o, s, f, l, rest),
           NEW e \in List!Entries,
           e.addr = f[Len(l) + 1] * PageSize + (IF l = <<>> THEN o ELSE 0),
           e.size = UpTo(o, s, Len(l) + 1) - UpTo(o, s, Len(l))
    PROVE  /\ rest - e.size \in 0 .. s
           /\ Filled(o, s, f, Append(l, e), rest - e.size)
<1> DEFINE i == Len(l) + 1
           upto == [n \in 0 .. Len(l) |-> UpTo(o, s, n)]
<1>0. /\ PageSize \in Nat \ {0} /\ Len(l) \in Nat /\ i \in 1 .. Len(f) /\ i - 1 = Len(l)
      /\ i = Len(l) + 1
      /\ i = 1 <=> l = <<>>
  BY ListNumbers, EmptySeq DEF ListAssumption
<1>1. f[i] \in Nat /\ f[i] * PageSize \in Nat
  <2>1. PICK x \in Nat : x = f[i]
    BY <1>0
  <2>2. x * PageSize \in Nat
    BY <1>0
  <2> QED
    BY <2>1, <2>2
<1>2. Len(l) <= Len(f) /\ OfPages(o, f, l) /\ rest = s - UpTo(o, s, i - 1) /\ Naming(o, f, l, upto)
  BY <1>0 DEF Filled
<1>3. /\ UpTo(o, s, i - 1) \in 0 .. s /\ UpTo(o, s, i) \in 0 .. s
      /\ UpTo(o, s, i - 1) < UpTo(o, s, i)
      /\ Lie(o, f, UpTo(o, s, i - 1), UpTo(o, s, i), f[i] * PageSize + (IF i = 1 THEN o ELSE 0))
  <2>1. PageDone(o, s, f, i)
    <3> HIDE DEF i
    <3> QED
      BY <1>0, EachPage
  <2> HIDE DEF i
  <2> QED
    BY <2>1 DEF PageDone
<1>4. e.addr = f[i] * PageSize + (IF i = 1 THEN o ELSE 0)
  BY <1>0
<1>5. e.size = UpTo(o, s, i) - UpTo(o, s, i - 1)
  BY <1>0
<1>7. upto \in [0 .. Len(l) -> 0 .. s] /\ upto[Len(l)] = UpTo(o, s, i - 1)
  <2>1. ASSUME NEW n \in 0 .. Len(l) PROVE UpTo(o, s, n) \in 0 .. s
    <3>1. CASE n = 0
      BY <3>1 DEF UpTo
    <3>2. CASE n # 0
      <4>1. n \in 1 .. Len(f) /\ f[n] \in Nat /\ Len(f) \in Nat
        BY <1>0, <3>2, SMTT(20)
      <4> QED
        BY <4>1, PageBytes
    <3> QED
      BY <3>1, <3>2
  <2> QED
    BY <1>0, <2>1
<1> DEFINE more == WithEnd(l, upto, UpTo(o, s, i))
<1>8. Naming(o, f, Append(l, e), more)
  <2>1. upto[Len(l)] < UpTo(o, s, i) /\ e.size = UpTo(o, s, i) - upto[Len(l)]
    BY <1>3, <1>5, <1>7, Zenon
  <2>2. Lie(o, f, upto[Len(l)], UpTo(o, s, i), e.addr)
    BY <1>3, <1>4, <1>7
  <2>3. s \in Nat /\ UpTo(o, s, i) \in 0 .. s
    BY <1>3
  <2>4. Naming(o, f, l, upto) /\ upto \in [0 .. Len(l) -> 0 .. s]
    BY <1>2, <1>7
  <2> HIDE DEF i, upto
  <2> QED
    BY <2>1, <2>2, <2>3, <2>4, NamesMore, Zenon
<1>9. more = [n \in 0 .. i |-> UpTo(o, s, n)]
  <2>1. ASSUME NEW n \in 0 .. i
        PROVE  (IF n = i THEN UpTo(o, s, i) ELSE upto[n]) = UpTo(o, s, n)
    <3>1. CASE n = i
      BY <3>1
    <3>2. CASE n # i
      BY <1>0, <3>2
    <3> QED
      BY <3>1, <3>2
  <2>2. more = [n \in 0 .. i |-> IF n = i THEN UpTo(o, s, i) ELSE upto[n]]
    BY DEF WithEnd
  <2> HIDE DEF more, upto, i
  <2> QED
    BY <2>1, <2>2, Zenon
<1> HIDE DEF upto, more
<1>10. /\ Len(Append(l, e)) = i /\ Append(l, e)[i] = e
       /\ \A k \in 1 .. Len(l) : Append(l, e)[k] = l[k]
  BY AppendProperties
<1>11. OfPages(o, f, Append(l, e))
  <2> SUFFICES ASSUME NEW k \in 1 .. i
               PROVE  Append(l, e)[k].addr = f[k] * PageSize + (IF k = 1 THEN o ELSE 0)
    BY <1>10, Zenon DEF OfPages
  <2>1. CASE k = i
    BY <1>4, <1>10, <2>1
  <2>2. CASE k # i
    <3>1. k \in 1 .. Len(l)
      BY <1>0, <2>2
    <3> QED
      BY <1>2, <1>10, <3>1 DEF OfPages
  <2> QED
    BY <2>1, <2>2
<1>12. rest - e.size = s - UpTo(o, s, i)
  BY <1>2, <1>3, <1>5
<1>13. rest - e.size \in 0 .. s
  BY <1>3, <1>12
<1>14. Filled(o, s, f, Append(l, e), rest - e.size)
  <2> HIDE DEF i
  <2>1. i <= Len(f)
    BY <1>0
  <2> QED
    BY <1>8, <1>9, <1>10, <1>11, <1>12, <2>1 DEF Filled
<1> QED
  BY <1>13, <1>14

\* When every page begins an entry, the entries are those of the pages.
LEMMA InPlace ==
    ASSUME NEW n \in Nat \ {0}, NEW first \in FirstsOf(n, n), NEW k \in 1 .. n + 1
    PROVE  first[k] = k
<1>1. /\ \A i \in 1 .. n + 1 : first[i] \in Int
      /\ \A i \in 1 .. n : first[i] < first[i + 1]
      /\ first[1] = 1 /\ first[n + 1] = n + 1
  BY DEF FirstsOf
<1>2. n \in Nat /\ 1 \in 1 .. n + 1 /\ k \in 1 .. n + 1 /\ n + 1 \in k .. n + 1 /\ k \in Int
  OBVIOUS
<1>3. first[1] + (k - 1) <= first[k]
  BY <1>1, <1>2, Growing, Zenon
<1>4. first[k] + ((n + 1) - k) <= first[n + 1]
  BY <1>1, <1>2, Growing, Zenon
<1>5. first[k] \in Int
  BY <1>1
<1> QED
  BY <1>1, <1>2, <1>3, <1>4, <1>5

\* Nothing names the first bytes, of which there are none.
LEMMA NothingNamed ==
    ASSUME NEW o, NEW f, NEW s \in Nat
    PROVE  NamedUpTo(o, s, f, <<>>, 0)
<1> DEFINE ends == [i \in 0 .. 0 |-> 0]
<1>1. ends \in [0 .. Len(<<>>) -> 0 .. s] /\ ends[0] = 0 /\ Len(<<>>) = 0
  OBVIOUS
<1> HIDE DEF ends
<1>2. Naming(o, f, <<>>, ends)
  BY <1>1 DEF Naming
<1> QED
  BY <1>1, <1>2 DEF NamedUpTo

\* The list after pci_map_sg.
IsFused(m, l, n, first) ==
    m = [k \in 1 .. n |->
            [addr |-> l[first[k]].addr,
             size |-> (l[first[k + 1] - 1].addr + l[first[k + 1] - 1].size) - l[first[k]].addr]]

\* It names the buffer, and if nothing was merged it has the pages' addresses.
LEMMA FusedIsNamed ==
    ASSUME NEW o \in Nat, o < PageSize, NEW s \in Nat \ {0}, NEW f \in Seq(Nat),
           TouchedBy(o, s, Len(f)),
           NEW l \in Seq(List!Entries), NEW rest, Filled(o, s, f, l, rest), Len(l) = Len(f),
           NEW n \in 1 .. Len(l), NEW first \in FirstsOf(Len(l), n),
           \A k \in 1 .. n : \A i \in first[k] + 1 .. first[k + 1] - 1 : Adjacent(l, i),
           NEW m, IsFused(m, l, n, first)
    PROVE  /\ m \in Seq(List!Entries) /\ Len(m) = n
           /\ NamedSoFar(o, s, f, m, <<>>, 1)
           /\ Len(m) = Len(f) => OfPages(o, f, m)
<1> DEFINE ends == [i \in 0 .. Len(l) |-> UpTo(o, s, i)]
<1>0. s \in Nat /\ Len(l) \in Nat /\ n \in Nat
  OBVIOUS
<1>1. Naming(o, f, l, ends) /\ OfPages(o, f, l)
  BY DEF Filled
<1>2. ends \in [0 .. Len(l) -> 0 .. s]
  <2>1. ASSUME NEW i \in 0 .. Len(l) PROVE UpTo(o, s, i) \in 0 .. s
    <3>1. CASE i = 0
      BY <3>1 DEF UpTo
    <3>2. CASE i # 0
      <4>1. i \in 1 .. Len(f) /\ f[i] \in Nat /\ Len(f) \in Nat
        BY <3>2
      <4> QED
        BY <4>1, PageBytes
    <3> QED
      BY <3>1, <3>2
  <2> QED
    BY <2>1
<1>3. ends[Len(l)] = s
  <2>1. ends[Len(l)] = UpTo(o, s, Len(f))
    OBVIOUS
  <2>2. Len(f) \in Nat
    OBVIOUS
  <2> HIDE DEF ends
  <2> QED
    BY <2>1, <2>2, PagesEnd
<1> HIDE DEF ends
<1>4. /\ DOMAIN m = 1 .. n
      /\ \A k \in 1 .. n : MadeOf(m, l, first, k) /\ m[k] = [addr |-> m[k].addr, size |-> m[k].size]
  BY Zenon DEF IsFused, MadeOf
<1>5. Len(m) = n
  BY <1>0, <1>4 DEF IsFused
<1>6. /\ NamedUpTo(o, s, f, m, ends[Len(l)])
      /\ \A k \in 1 .. n : m[k].addr \in Nat /\ m[k].size \in Nat
  BY <1>0, <1>1, <1>2, <1>4, <1>5, FusedNames, Zenon
<1>7. m \in Seq(List!Entries)
  <2>1. \A k \in 1 .. n : m[k] \in List!Entries
    BY <1>4, <1>6, SMTT(20) DEF List!Entries
  <2>2. m = [k \in 1 .. n |-> m[k]]
    BY DEF IsFused
  <2>3. m \in [1 .. n -> List!Entries]
    BY <2>1, <2>2, Zenon
  <2> QED
    BY <1>0, <2>3, SeqDef
<1>8. NamedSoFar(o, s, f, m, <<>>, 1)
  <2>1. NamedUpTo(o, s, f, m, s)
    BY <1>3, <1>6
  <2>2. PICK e \in [0 .. Len(m) -> 0 .. s] : Naming(o, f, m, e) /\ e[Len(m)] = s
    BY <2>1, Zenon DEF NamedUpTo
  <2>3. e[1 - 1] = 0
    BY <2>2 DEF Naming
  <2>4. NamedUpTo(o, s, f, <<>>, e[1 - 1])
    BY <1>0, <2>3, NothingNamed
  <2> QED
    BY <2>2, <2>4, Zenon DEF NamedSoFar
<1>9. ASSUME n = Len(f) PROVE OfPages(o, f, m)
  <2>1. n \in Nat \ {0} /\ first \in FirstsOf(n, n)
    BY <1>9
  <2>2. ASSUME NEW k \in 1 .. n PROVE m[k].addr = f[k] * PageSize + (IF k = 1 THEN o ELSE 0)
    <3>1. k \in 1 .. n + 1
      BY <1>0
    <3>2. first[k] = k
      BY <2>1, <3>1, InPlace
    <3>3. m[k].addr = l[k].addr
      BY <1>4, <3>2, Zenon DEF MadeOf
    <3>4. k \in 1 .. Len(l)
      BY <1>9
    <3> QED
      BY <1>1, <3>3, <3>4 DEF OfPages
  <2> QED
    BY <1>5, <2>2 DEF OfPages
<1> QED
  BY <1>5, <1>7, <1>8, <1>9

\* A buffer has two pages more than there are whole pages in it at most.
LEMMA PagesFit ==
    ASSUME NEW o \in Nat, o < PageSize, NEW s \in Nat \ {0}, NEW n \in Nat, TouchedBy(o, s, n)
    PROVE  n <= s \div PageSize + 2
<1>0. PageSize \in Nat \ {0} /\ s \in Nat
  BY ListNumbers DEF ListAssumption
<1>1. PICK q \in Nat, r \in 0 .. PageSize - 1 :
         q = s \div PageSize /\ s = PageSize * q + r
  <2>1. /\ s \div PageSize \in Nat /\ s % PageSize \in 0 .. PageSize - 1
        /\ s = (PageSize * (s \div PageSize)) + (s % PageSize)
    BY <1>0, Quotients, Zenon
  <2> QED
    BY <2>1
<1>2. PICK x \in Int : x = q * PageSize /\ (q + 1) * PageSize = x + PageSize
                       /\ (q + 2) * PageSize = x + PageSize + PageSize
  BY <1>0, Multiples
<1>3. s = x + r
  BY <1>0, <1>1, <1>2
<1>4. (n - 1) * PageSize < x + PageSize + PageSize
  BY <1>0, <1>3 DEF TouchedBy
<1>5. ~(q + 2 <= n - 1)
  <2>1. PICK y \in Int, z \in Int : y = n - 1 /\ z = q + 2
    OBVIOUS
  <2>2. z <= y => z * PageSize <= y * PageSize
    BY <1>0, Multiples
  <2>3. PICK v \in Int : v = y * PageSize
    BY <1>0
  <2>4. z * PageSize = x + PageSize + PageSize /\ v < x + PageSize + PageSize
    BY <1>2, <1>4, <2>1, <2>3
  <2> QED
    BY <1>0, <2>1, <2>2, <2>3, <2>4
<1> QED
  BY <1>1, <1>5

\* One more entry of a list that names the bytes up to w.
LEMMA NamedMore ==
    ASSUME NEW o, NEW f, NEW s \in Nat, NEW l \in Seq(List!Entries), NEW w,
           NamedUpTo(o, s, f, l, w),
           NEW e \in List!Entries, NEW u \in 0 .. s, w < u, e.size = u - w, Lie(o, f, w, u, e.addr)
    PROVE  NamedUpTo(o, s, f, Append(l, e), u)
<1>1. PICK ends \in [0 .. Len(l) -> 0 .. s] : Naming(o, f, l, ends) /\ ends[Len(l)] = w
  BY DEF NamedUpTo
<1>2. /\ ends[Len(l)] < u /\ e.size = u - ends[Len(l)] /\ Lie(o, f, ends[Len(l)], u, e.addr)
      /\ Naming(o, f, l, ends)
  BY <1>1
<1>3. Naming(o, f, Append(l, e), WithEnd(l, ends, u))
  BY <1>1, <1>2, NamesMore
<1>4. Len(Append(l, e)) = Len(l) + 1 /\ Len(l) \in Nat
  BY AppendProperties
<1>5. WithEnd(l, ends, u) \in [0 .. Len(l) + 1 -> 0 .. s] /\ WithEnd(l, ends, u)[Len(l) + 1] = u
  BY <1>4 DEF WithEnd
<1> QED
  BY <1>3, <1>4, <1>5 DEF NamedUpTo

\* The last entry of m made longer by an entry.
Prolongs(longer, m, e) ==
    /\ Len(longer) = Len(m)
    /\ \A k \in 1 .. Len(m) - 1 : longer[k] = m[k]
    /\ longer[Len(m)].addr = m[Len(m)].addr
    /\ longer[Len(m)].size = m[Len(m)].size + e.size

\* An entry that is made longer by the bytes that follow names them too.
LEMMA NamedLonger ==
    ASSUME NEW o, NEW f, NEW s \in Nat, NEW l \in Seq(List!Entries), NEW w, l # <<>>,
           NamedUpTo(o, s, f, l, w),
           NEW e \in List!Entries, NEW u \in 0 .. s, w < u, e.size = u - w, Lie(o, f, w, u, e.addr),
           e.addr = l[Len(l)].addr + l[Len(l)].size,
           NEW longer \in Seq(List!Entries), Prolongs(longer, l, e)
    PROVE  NamedUpTo(o, s, f, longer, u)
<1>1. PICK ends \in [0 .. Len(l) -> 0 .. s] : Naming(o, f, l, ends) /\ ends[Len(l)] = w
  BY DEF NamedUpTo
<1>2. /\ ends[Len(l)] < u /\ e.size = u - ends[Len(l)] /\ Lie(o, f, ends[Len(l)], u, e.addr)
      /\ Naming(o, f, l, ends)
  BY <1>1
<1>3. /\ Len(longer) = Len(l) /\ \A k \in 1 .. Len(l) - 1 : longer[k] = l[k]
      /\ longer[Len(l)].addr = l[Len(l)].addr
      /\ longer[Len(l)].size = l[Len(l)].size + e.size
  BY DEF Prolongs
<1> QED
  BY <1>1, <1>2, <1>3, NamesLonger, Zenon

\* The bytes of the next entry to be copied are those after the ones copied.
LEMMA NextToCopy ==
    ASSUME NEW o, NEW f, NEW s \in Nat, NEW l \in Seq(List!Entries), NEW m \in Seq(List!Entries),
           NEW i \in 1 .. Len(l), NamedSoFar(o, s, f, l, m, i)
    PROVE  /\ l[i].size # 0
           /\ NamedSoFar(o, s, f, l, Append(m, l[i]), i + 1)
           /\ \A longer \in Seq(List!Entries) :
                 m # <<>> /\ l[i].addr = m[Len(m)].addr + m[Len(m)].size
                 /\ Prolongs(longer, m, l[i])
                 => NamedSoFar(o, s, f, l, longer, i + 1)
<1>1. PICK ends \in [0 .. Len(l) -> 0 .. s] :
         /\ Naming(o, f, l, ends) /\ ends[Len(l)] = s
         /\ NamedUpTo(o, s, f, m, ends[i - 1])
  BY Zenon DEF NamedSoFar
<1>2. /\ ends[i - 1] < ends[i] /\ l[i].size = ends[i] - ends[i - 1]
      /\ Lie(o, f, ends[i - 1], ends[i], l[i].addr)
  BY <1>1 DEF Naming
<1>3. l[i] \in List!Entries /\ ends[i] \in 0 .. s /\ ends[i - 1] \in 0 .. s /\ (i + 1) - 1 = i
  OBVIOUS
<1>4. PICK w \in 0 .. s, u \in 0 .. s, e \in List!Entries : w = ends[i - 1] /\ u = ends[i] /\ e = l[i]
  BY <1>3, Zenon
<1>5. w < u /\ e.size = u - w /\ Lie(o, f, w, u, e.addr) /\ NamedUpTo(o, s, f, m, w)
  BY <1>1, <1>2, <1>4
<1>6. l[i].size # 0
  BY <1>4, <1>5
<1>7. ASSUME NEW t, NamedUpTo(o, s, f, t, u) PROVE NamedSoFar(o, s, f, l, t, i + 1)
  BY <1>1, <1>3, <1>4, <1>7, Zenon DEF NamedSoFar
<1>8. NamedSoFar(o, s, f, l, Append(m, l[i]), i + 1)
  BY <1>4, <1>5, <1>7, NamedMore, Zenon
<1>9. ASSUME NEW longer \in Seq(List!Entries), m # <<>>,
             l[i].addr = m[Len(m)].addr + m[Len(m)].size, Prolongs(longer, m, l[i])
      PROVE  NamedSoFar(o, s, f, l, longer, i + 1)
  BY <1>4, <1>5, <1>7, <1>9, NamedLonger, Zenon
<1> QED
  BY <1>6, <1>8, <1>9

\* The whole list at once.
LEMMA AllCopied ==
    ASSUME NEW o, NEW f, NEW s \in Nat, NEW l \in Seq(List!Entries), Len(l) > 0,
           NEW m, NEW i, NamedSoFar(o, s, f, l, m, i)
    PROVE  l[Len(l)].size # 0 /\ NamedSoFar(o, s, f, l, l, Len(l) + 1)
<1>1. PICK ends \in [0 .. Len(l) -> 0 .. s] : Naming(o, f, l, ends) /\ ends[Len(l)] = s
  BY DEF NamedSoFar
<1>2. Len(l) \in Nat /\ Len(l) \in 1 .. Len(l) /\ (Len(l) + 1) - 1 = Len(l)
      /\ Len(l) \in 0 .. Len(l) /\ Len(l) - 1 \in 0 .. Len(l)
  OBVIOUS
<1>3. ends[Len(l) - 1] < ends[Len(l)] /\ l[Len(l)].size = ends[Len(l)] - ends[Len(l) - 1]
  BY <1>1, <1>2 DEF Naming
<1>4. ends[Len(l)] \in 0 .. s /\ ends[Len(l) - 1] \in 0 .. s
  BY <1>1, <1>2
<1>5. NamedUpTo(o, s, f, l, ends[(Len(l) + 1) - 1])
  BY <1>1, <1>2 DEF NamedUpTo
<1> QED
  BY <1>1, <1>3, <1>4, <1>5 DEF NamedSoFar

\* An entry that does not follow the last one, or that makes it longer, leaves
\* no two that could be one.
LEMMA ApartMore ==
    ASSUME NEW m \in Seq(List!Entries), NEW e \in List!Entries, NoTwoAreOne(m),
           m = <<>> \/ e.addr # m[Len(m)].addr + m[Len(m)].size
    PROVE  NoTwoAreOne(Append(m, e))
<1>1. /\ Len(Append(m, e)) = Len(m) + 1 /\ Len(m) \in Nat /\ Append(m, e)[Len(m) + 1] = e
      /\ \A k \in 1 .. Len(m) : Append(m, e)[k] = m[k]
  BY AppendProperties
<1> SUFFICES ASSUME NEW k \in 1 .. Len(m)
             PROVE  Append(m, e)[k + 1].addr # Append(m, e)[k].addr + Append(m, e)[k].size
  BY <1>1 DEF NoTwoAreOne
<1>2. CASE k = Len(m)
  <2>1. m # <<>>
    BY <1>2
  <2> QED
    BY <1>1, <1>2, <2>1
<1>3. CASE k # Len(m)
  BY <1>1, <1>3 DEF NoTwoAreOne
<1> QED
  BY <1>2, <1>3

\* Entries that do not touch still do not when the last one is made longer.
LEMMA ApartLonger ==
    ASSUME NEW m \in Seq(List!Entries), NEW e, NEW longer, NoTwoAreOne(m), Prolongs(longer, m, e)
    PROVE  NoTwoAreOne(longer)
<1> SUFFICES ASSUME NEW k \in 1 .. Len(m) - 1
             PROVE  longer[k + 1].addr # longer[k].addr + longer[k].size
  BY DEF NoTwoAreOne, Prolongs
<1>1. longer[k] = m[k]
  BY DEF Prolongs
<1>2. longer[k + 1].addr = m[k + 1].addr
  <2>1. CASE k + 1 = Len(m)
    BY <2>1 DEF Prolongs
  <2>2. CASE k + 1 # Len(m)
    BY <2>2 DEF Prolongs
  <2> QED
    BY <2>1, <2>2
<1>3. m[k + 1].addr # m[k].addr + m[k].size
  BY DEF NoTwoAreOne
<1> QED
  BY <1>1, <1>2, <1>3

\* The invariant, for any buffer.
Listed(o, s, f, mg, p, l, c, t, i, b) ==
    /\ o \in 0 .. PageSize - 1 /\ s \in 1 .. MaxSize
    /\ f \in Seq(Frames) /\ Len(f) > 0 /\ mg \in BOOLEAN
    /\ p \in {"pages", "mapped", "copy", "done"}
    /\ l \in Seq(List!Entries) /\ c \in 0 .. MaxSize
    /\ t \in Seq(List!Entries) /\ i \in 1 .. Len(f) + 1 /\ b \in Seq(Nat)
    /\ TouchedBy(o, s, Len(f))
    /\ b # <<>> => p = "done" /\ ~mg /\ o = 0 /\ (s % PageSize) = 0
    /\ Len(l) = Len(f) => \A k \in DOMAIN b : b[k] = f[k] * PageSize
    /\ p = "pages" => Filled(o, s, f, l, c) /\ t = <<>> /\ i = 1
    /\ p # "pages" =>
          /\ 0 < Len(l) /\ Len(l) <= Len(f) /\ i <= Len(l) + 1
          /\ NamedSoFar(o, s, f, l, t, i)
          /\ Len(l) = Len(f) => OfPages(o, f, l)
          /\ i > 1 /\ ~mg => t = l
          /\ mg => NoTwoAreOne(t)
          /\ p = "mapped" => i = 1
          /\ p = "done" => i = Len(l) + 1

\* What ListAssumption says of the numbers.
LEMMA ListConstants ==
    /\ PageSize \in Nat \ {0} /\ Frames \subseteq Nat /\ MaxSize \in Nat
    /\ Spare \in Nat /\ Spare >= 2
  BY ListNumbers DEF ListAssumption

\* It is what the module says.
LEMMA ListForm ==
    List!IInv <=> Listed(v1, v2, v3, v4, v5, v6, v7, v8, v9, v10)
<1>1. \A l, ends : List!Lays(l, ends) <=> Naming(v1, v3, l, ends)
  BY DEF List!Lays, List!ByteAt, Naming, Lie, At
<1>2. \A l, n : List!Laid(l, n) <=> NamedUpTo(v1, v2, v3, l, n)
  BY <1>1 DEF List!Laid, List!Ends, NamedUpTo
<1>3. /\ List!Touched <=> TouchedBy(v1, v2, Len(v3))
      /\ List!PageEntries <=> OfPages(v1, v3, v6)
      /\ \A n : List!Before(n) = UpTo(v1, v2, n)
  BY DEF List!Touched, TouchedBy, List!PageEntries, OfPages, List!Before, List!Least, UpTo
<1>4. List!PagesSoFar <=> Filled(v1, v2, v3, v6, v7) /\ v8 = <<>> /\ v9 = 1
  BY <1>1, <1>3 DEF List!PagesSoFar, Filled
<1>5. (\E ends \in List!Ends(v6) :
          List!Lays(v6, ends) /\ ends[Len(v6)] = v2 /\ List!Laid(v8, ends[v9 - 1]))
        <=> NamedSoFar(v1, v2, v3, v6, v8, v9)
  BY <1>1, <1>2 DEF NamedSoFar, List!Ends
<1>6. (\A k \in 1 .. Len(v8) - 1 : v8[k + 1].addr # List!End(v8[k])) <=> NoTwoAreOne(v8)
  BY DEF NoTwoAreOne, List!End
<1>7. List!CopiedSoFar <=>
          /\ 0 < Len(v6) /\ Len(v6) <= Len(v3) /\ v9 <= Len(v6) + 1
          /\ NamedSoFar(v1, v2, v3, v6, v8, v9)
          /\ Len(v6) = Len(v3) => OfPages(v1, v3, v6)
          /\ v9 > 1 /\ ~v4 => v8 = v6
          /\ v4 => NoTwoAreOne(v8)
          /\ v5 = "mapped" => v9 = 1
          /\ v5 = "done" => v9 = Len(v6) + 1
  BY <1>3, <1>5, <1>6 DEF List!CopiedSoFar
<1> QED
  BY <1>3, <1>4, <1>7, Zenon
  DEF List!IInv, Listed, List!TypeOK, List!Linking, List!LinksOwnPages, List!Fits

\* Also in the next state.
LEMMA ListFormNext ==
    List!IInv' <=> Listed(v1', v2', v3', v4', v5', v6', v7', v8', v9', v10')
<1>1. \A l, ends : List!Lays(l, ends)' <=> Naming(v1', v3', l, ends)
  BY DEF List!Lays, List!ByteAt, Naming, Lie, At
<1>2. \A l, n : List!Laid(l, n)' <=> NamedUpTo(v1', v2', v3', l, n)
  BY <1>1 DEF List!Laid, List!Ends, NamedUpTo
<1>3. /\ List!Touched' <=> TouchedBy(v1', v2', Len(v3'))
      /\ List!PageEntries' <=> OfPages(v1', v3', v6')
      /\ \A n : List!Before(n)' = UpTo(v1', v2', n)
  BY DEF List!Touched, TouchedBy, List!PageEntries, OfPages, List!Before, List!Least, UpTo
<1>4. List!PagesSoFar' <=> Filled(v1', v2', v3', v6', v7') /\ v8' = <<>> /\ v9' = 1
  BY <1>1, <1>3 DEF List!PagesSoFar, Filled
<1>5. (\E ends \in List!Ends(v6) :
          List!Lays(v6, ends) /\ ends[Len(v6)] = v2 /\ List!Laid(v8, ends[v9 - 1]))'
        <=> NamedSoFar(v1', v2', v3', v6', v8', v9')
  BY <1>1, <1>2 DEF NamedSoFar, List!Ends
<1>6. (\A k \in 1 .. Len(v8) - 1 : v8[k + 1].addr # List!End(v8[k]))' <=> NoTwoAreOne(v8')
  BY DEF NoTwoAreOne, List!End
<1>7. List!CopiedSoFar' <=>
          /\ 0 < Len(v6') /\ Len(v6') <= Len(v3') /\ v9' <= Len(v6') + 1
          /\ NamedSoFar(v1', v2', v3', v6', v8', v9')
          /\ Len(v6') = Len(v3') => OfPages(v1', v3', v6')
          /\ v9' > 1 /\ ~v4' => v8' = v6'
          /\ v4' => NoTwoAreOne(v8')
          /\ v5' = "mapped" => v9' = 1
          /\ v5' = "done" => v9' = Len(v6') + 1
  BY <1>3, <1>5, <1>6 DEF List!CopiedSoFar
<1> QED
  BY <1>3, <1>4, <1>7, Zenon
  DEF List!IInv, Listed, List!TypeOK, List!Linking, List!LinksOwnPages, List!Fits

\* A buffer of whole pages has as many pages.
LEMMA WholePages ==
    ASSUME NEW s \in Nat \ {0}, NEW n \in Nat, TouchedBy(0, s, n), (s % PageSize) = 0
    PROVE  n = s \div PageSize
<1>0. PageSize \in Nat \ {0} /\ s \in Nat
  BY ListConstants
<1>1. PICK q \in Nat : q = s \div PageSize /\ s = PageSize * q
  <2>1. /\ s \div PageSize \in Nat
        /\ s = (PageSize * (s \div PageSize)) + (s % PageSize)
    BY <1>0, Quotients
  <2> QED
    BY <1>0, <2>1
<1>2. PICK x \in Int, y \in Int, z \in Int, d \in Int :
         /\ x = q * PageSize /\ y = n * PageSize /\ d = n - 1 /\ z = d * PageSize
         /\ s = x /\ z = y - PageSize
  BY <1>0, <1>1, Multiples
<1>3. z < x /\ x <= y
  BY <1>2 DEF TouchedBy
<1>4. q < n => x + PageSize <= y
  BY <1>0, <1>2, Multiples
<1>5. n < q => y + PageSize <= x
  BY <1>0, <1>2, Multiples
<1> QED
  BY <1>0, <1>1, <1>2, <1>3, <1>4, <1>5

\* The pages of a buffer.
LEMMA PagesTouched ==
    ASSUME NEW o \in Nat, o < PageSize, NEW s \in Nat \ {0}
    PROVE  /\ (o + s + PageSize - 1) \div PageSize \in Nat \ {0}
           /\ TouchedBy(o, s, (o + s + PageSize - 1) \div PageSize)
<1>0. PageSize \in Nat \ {0}
  BY ListConstants
<1>1. PICK x \in Nat : x = o + s + PageSize - 1
  BY <1>0
<1>2. PICK q \in Nat, r \in 0 .. PageSize - 1 : q = x \div PageSize /\ x = PageSize * q + r
  BY <1>0, Quotients
<1>3. PICK y \in Int : y = q * PageSize /\ (q - 1) * PageSize = y - PageSize /\ x = y + r
  BY <1>0, <1>2, Multiples
<1>4. y - PageSize < o + s /\ o + s <= y
  BY <1>0, <1>1, <1>2, <1>3
<1>5. q # 0
  <2>1. 0 * PageSize = 0
    BY <1>0
  <2> QED
    BY <1>3, <1>4, <2>1
<1> QED
  BY <1>1, <1>2, <1>3, <1>4, <1>5 DEF TouchedBy

\* The pages of the buffer are chosen.
LEMMA ListedFirst ==
    ASSUME NEW o \in 0 .. PageSize - 1, NEW s \in 1 .. MaxSize,
           NEW f \in [1 .. (o + s + PageSize - 1) \div PageSize -> Frames], NEW mg \in BOOLEAN
    PROVE  Listed(o, s, f, mg, "pages", <<>>, s, <<>>, 1, <<>>)
<1>0. /\ PageSize \in Nat \ {0} /\ Frames \subseteq Nat /\ MaxSize \in Nat
      /\ o \in Nat /\ o < PageSize /\ s \in Nat \ {0}
  BY ListConstants
<1>1. PICK n \in Nat \ {0} : n = (o + s + PageSize - 1) \div PageSize /\ TouchedBy(o, s, n)
  BY <1>0, PagesTouched
<1>2. f \in [1 .. n -> Frames]
  BY <1>1
<1>3. f \in Seq(Frames) /\ Len(f) = n
  BY <1>2
<1>4. Filled(o, s, f, <<>>, s)
  BY <1>0, <1>3 DEF UpTo, Naming, Filled, OfPages
<1>5. <<>> \in Seq(List!Entries) /\ <<>> \in Seq(Nat) /\ DOMAIN <<>> = {}
  OBVIOUS
<1> QED
  BY <1>0, <1>1, <1>3, <1>4, <1>5 DEF Listed

\* What holds in every state of a buffer.
LEMMA ListedMeans ==
    ASSUME NEW o, NEW s, NEW f, NEW mg, NEW p, NEW l, NEW c, NEW t, NEW i, NEW b,
           Listed(o, s, f, mg, p, l, c, t, i, b)
    PROVE  /\ o \in Nat /\ o < PageSize /\ s \in Nat \ {0} /\ s <= MaxSize
           /\ f \in Seq(Nat) /\ f \in Seq(Frames) /\ Len(f) \in Nat \ {0} /\ mg \in BOOLEAN
           /\ l \in Seq(List!Entries) /\ Len(l) \in Nat /\ c \in 0 .. MaxSize
           /\ t \in Seq(List!Entries) /\ Len(t) \in Nat
           /\ i \in 1 .. Len(f) + 1 /\ b \in Seq(Nat) /\ Len(b) \in Nat
           /\ TouchedBy(o, s, Len(f))
<1>1. /\ PageSize \in Nat \ {0} /\ Frames \subseteq Nat /\ MaxSize \in Nat
  BY ListConstants
<1>2. /\ o \in 0 .. PageSize - 1 /\ s \in 1 .. MaxSize
      /\ f \in Seq(Frames) /\ Len(f) > 0 /\ mg \in BOOLEAN
      /\ l \in Seq(List!Entries) /\ c \in 0 .. MaxSize
      /\ t \in Seq(List!Entries) /\ i \in 1 .. Len(f) + 1 /\ b \in Seq(Nat)
      /\ TouchedBy(o, s, Len(f))
  BY DEF Listed
<1>3. f \in Seq(Nat) /\ Len(f) \in Nat
  <2>1. f \in Seq(Frames) /\ Frames \subseteq Nat
    BY <1>1, <1>2
  <2>2. /\ Len(f) \in Nat /\ DOMAIN f = 1 .. Len(f) /\ f = [k \in 1 .. Len(f) |-> f[k]]
        /\ \A k \in 1 .. Len(f) : f[k] \in Nat
    BY <2>1
  <2>3. f \in [1 .. Len(f) -> Nat]
    BY <2>2, Zenon
  <2> QED
    BY <2>2, <2>3, SeqDef
<1> QED
  BY <1>1, <1>2, <1>3

\* The entry of a page is made.
LEMMA PageListed ==
    ASSUME NEW o, NEW s, NEW f, NEW mg, NEW l, NEW c, NEW t, NEW i, NEW b,
           Listed(o, s, f, mg, "pages", l, c, t, i, b), Len(l) < Len(f),
           NEW a, a = f[Len(l) + 1] * PageSize + (IF l = <<>> THEN o ELSE 0),
           NEW n, n = LeastOf(c, IF l = <<>> THEN PageSize - o ELSE PageSize)
    PROVE  Listed(o, s, f, mg, "pages", Append(l, List!Entry(a, n)), c - n, t, i, b)
<1>0. /\ o \in Nat /\ o < PageSize /\ s \in Nat \ {0} /\ s <= MaxSize
      /\ f \in Seq(Nat) /\ l \in Seq(List!Entries) /\ TouchedBy(o, s, Len(f))
      /\ MaxSize \in Nat
  BY ListedMeans, ListConstants
<1>1. Filled(o, s, f, l, c) /\ b = <<>> /\ t = <<>> /\ i = 1
  BY DEF Listed
<1>2. PICK e : e = List!Entry(a, n)
  OBVIOUS
<1>3. e \in List!Entries /\ n = UpTo(o, s, Len(l) + 1) - UpTo(o, s, Len(l))
  BY <1>0, <1>1, <1>2, PageEntry
<1>4. e.addr = a /\ e.size = n
  BY <1>2 DEF List!Entry
<1>5. /\ e.addr = f[Len(l) + 1] * PageSize + (IF l = <<>> THEN o ELSE 0)
      /\ e.size = UpTo(o, s, Len(l) + 1) - UpTo(o, s, Len(l))
  BY <1>3, <1>4
<1>6. c - n \in 0 .. s /\ Filled(o, s, f, Append(l, e), c - n)
  BY <1>0, <1>1, <1>3, <1>4, <1>5, PageFilled
<1>7. Append(l, e) \in Seq(List!Entries) /\ c - n \in 0 .. MaxSize /\ DOMAIN <<>> = {}
  BY <1>0, <1>3, <1>6
<1> QED
  BY <1>1, <1>2, <1>6, <1>7 DEF Listed

\* The list is mapped.
LEMMA MapListed ==
    ASSUME NEW o, NEW s, NEW f, NEW mg, NEW l, NEW c, NEW t, NEW i, NEW b,
           Listed(o, s, f, mg, "pages", l, c, t, i, b), Len(l) = Len(f),
           NEW n \in 1 .. Len(l), NEW first \in FirstsOf(Len(l), n),
           \A k \in 1 .. n : \A j \in first[k] + 1 .. first[k + 1] - 1 : Adjacent(l, j),
           NEW m, IsFused(m, l, n, first)
    PROVE  Listed(o, s, f, mg, "mapped", m, c, t, i, b)
<1>0. /\ o \in Nat /\ o < PageSize /\ s \in Nat \ {0}
      /\ f \in Seq(Nat) /\ l \in Seq(List!Entries) /\ TouchedBy(o, s, Len(f))
  BY ListedMeans
<1>1. Filled(o, s, f, l, c) /\ b = <<>> /\ t = <<>> /\ i = 1
  BY DEF Listed
<1>2. /\ m \in Seq(List!Entries) /\ Len(m) = n
      /\ NamedSoFar(o, s, f, m, <<>>, 1)
      /\ Len(m) = Len(f) => OfPages(o, f, m)
  BY <1>0, <1>1, FusedIsNamed, Zenon
<1>3. NoTwoAreOne(<<>>) /\ DOMAIN <<>> = {}
  BY DEF NoTwoAreOne
<1> QED
  BY <1>1, <1>2, <1>3 DEF Listed

\* There is room for the list.
LEMMA RoomListed ==
    ASSUME NEW o, NEW s, NEW f, NEW mg, NEW l, NEW c, NEW t, NEW i, NEW b,
           Listed(o, s, f, mg, "mapped", l, c, t, i, b)
    PROVE  /\ ~((s \div PageSize) + Spare < Len(l))
           /\ Listed(o, s, f, mg, "copy", l, c, t, i, b)
<1>0. /\ o \in Nat /\ o < PageSize /\ s \in Nat \ {0} /\ Len(f) \in Nat /\ Len(l) \in Nat
      /\ TouchedBy(o, s, Len(f)) /\ Spare \in Nat /\ Spare >= 2 /\ PageSize \in Nat \ {0}
  BY ListedMeans, ListConstants
<1>1. Len(l) <= Len(f)
  BY DEF Listed
<1>2. Len(f) <= s \div PageSize + 2
  BY <1>0, PagesFit
<1>3. s \div PageSize \in Int
  BY <1>0
<1>4. ~((s \div PageSize) + Spare < Len(l))
  BY <1>0, <1>1, <1>2, <1>3
<1>5. Listed(o, s, f, mg, "copy", l, c, t, i, b)
  BY DEF Listed
<1> QED
  BY <1>4, <1>5

\* An entry is copied to the end of the list, or to its last entry.
LEMMA MergeListed ==
    ASSUME NEW o, NEW s, NEW f, NEW mg, NEW l, NEW c, NEW t, NEW i, NEW b,
           Listed(o, s, f, mg, "copy", l, c, t, i, b), mg, i <= Len(l)
    PROVE  /\ l[i].size # 0
           /\ t = <<>> \/ l[i].addr # t[Len(t)].addr + t[Len(t)].size
              => Listed(o, s, f, mg, "copy", l, c, Append(t, l[i]), i + 1, b)
           /\ \A longer \in Seq(List!Entries) :
                 t # <<>> /\ l[i].addr = t[Len(t)].addr + t[Len(t)].size
                 /\ Prolongs(longer, t, l[i])
                 => Listed(o, s, f, mg, "copy", l, c, longer, i + 1, b)
<1>0. /\ s \in Nat /\ f \in Seq(Nat) /\ l \in Seq(List!Entries) /\ t \in Seq(List!Entries)
      /\ Len(f) \in Nat /\ Len(l) \in Nat /\ i \in 1 .. Len(f) + 1 /\ i \in 1 .. Len(l)
  <2>1. /\ s \in Nat /\ f \in Seq(Nat) /\ l \in Seq(List!Entries) /\ t \in Seq(List!Entries)
        /\ Len(f) \in Nat /\ Len(l) \in Nat /\ i \in 1 .. Len(f) + 1
    BY ListedMeans, Zenon
  <2>2. i \in 1 .. Len(l)
    BY <2>1
  <2> QED
    BY <2>1, <2>2
<1>1. NamedSoFar(o, s, f, l, t, i) /\ NoTwoAreOne(t) /\ Len(l) <= Len(f)
  BY DEF Listed
<1>2. /\ l[i].size # 0
      /\ NamedSoFar(o, s, f, l, Append(t, l[i]), i + 1)
      /\ \A longer \in Seq(List!Entries) :
            t # <<>> /\ l[i].addr = t[Len(t)].addr + t[Len(t)].size
            /\ Prolongs(longer, t, l[i])
            => NamedSoFar(o, s, f, l, longer, i + 1)
  BY <1>0, <1>1, NextToCopy
<1>3. l[i] \in List!Entries /\ i + 1 \in 1 .. Len(f) + 1 /\ i + 1 <= Len(l) + 1
  BY <1>0, <1>1
<1>4. ASSUME NEW new \in Seq(List!Entries), NamedSoFar(o, s, f, l, new, i + 1), NoTwoAreOne(new)
      PROVE  Listed(o, s, f, mg, "copy", l, c, new, i + 1, b)
  BY <1>3, <1>4 DEF Listed
<1>5. ASSUME t = <<>> \/ l[i].addr # t[Len(t)].addr + t[Len(t)].size
      PROVE  Listed(o, s, f, mg, "copy", l, c, Append(t, l[i]), i + 1, b)
  <2>1. NoTwoAreOne(Append(t, l[i]))
    BY <1>0, <1>1, <1>3, <1>5, ApartMore, Zenon
  <2>2. Append(t, l[i]) \in Seq(List!Entries)
    BY <1>0, <1>3
  <2> QED
    BY <1>2, <1>4, <2>1, <2>2, Zenon
<1>6. ASSUME NEW longer \in Seq(List!Entries), t # <<>>,
             l[i].addr = t[Len(t)].addr + t[Len(t)].size, Prolongs(longer, t, l[i])
      PROVE  Listed(o, s, f, mg, "copy", l, c, longer, i + 1, b)
  <2>1. NoTwoAreOne(longer)
    BY <1>0, <1>1, <1>6, ApartLonger
  <2> QED
    BY <1>2, <1>4, <1>6, <2>1, Zenon
<1> QED
  BY <1>2, <1>5, <1>6, Zenon

\* The list is copied as it is.
LEMMA PlainListed ==
    ASSUME NEW o, NEW s, NEW f, NEW mg, NEW l, NEW c, NEW t, NEW i, NEW b,
           Listed(o, s, f, mg, "copy", l, c, t, i, b), ~mg
    PROVE  l[Len(l)].size # 0 /\ Listed(o, s, f, mg, "copy", l, c, l, Len(l) + 1, b)
<1>0. /\ s \in Nat /\ l \in Seq(List!Entries) /\ Len(f) \in Nat /\ Len(l) \in Nat
  BY ListedMeans
<1>1. NamedSoFar(o, s, f, l, t, i) /\ Len(l) <= Len(f) /\ Len(l) > 0
  BY <1>0 DEF Listed
<1>2. l[Len(l)].size # 0 /\ NamedSoFar(o, s, f, l, l, Len(l) + 1)
  BY <1>0, <1>1, AllCopied
<1>3. Len(l) + 1 \in 1 .. Len(f) + 1 /\ Len(l) + 1 <= Len(l) + 1
  BY <1>0, <1>1
<1> QED
  BY <1>0, <1>2, <1>3 DEF Listed

\* The copy is complete.
LEMMA AllListed ==
    ASSUME NEW o, NEW s, NEW f, NEW mg, NEW l, NEW c, NEW t, NEW i, NEW b,
           Listed(o, s, f, mg, "copy", l, c, t, i, b), i > Len(l)
    PROVE  Listed(o, s, f, mg, "done", l, c, t, i, b)
<1>1. i \in Int /\ Len(l) \in Nat
  BY ListedMeans
<1>2. i <= Len(l) + 1
  BY DEF Listed
<1>3. i = Len(l) + 1
  BY <1>1, <1>2
<1> QED
  BY <1>3 DEF Listed

\* A page of descriptors is linked.
LEMMA LinkListed ==
    ASSUME NEW o, NEW s, NEW f, NEW mg, NEW l, NEW c, NEW t, NEW i, NEW b,
           Listed(o, s, f, mg, "done", l, c, t, i, b), ~mg, o = 0, (s % PageSize) = 0,
           Len(b) < s \div PageSize,
           NEW a, Len(b) < Len(t) => a = t[Len(b) + 1].addr,
           ~(Len(b) < Len(t)) => \E g \in Frames : a = g * PageSize
    PROVE  Listed(o, s, f, mg, "done", l, c, t, i, Append(b, a))
<1>0. /\ o \in Nat /\ o < PageSize /\ s \in Nat \ {0} /\ Len(f) \in Nat /\ Len(l) \in Nat
      /\ f \in Seq(Nat) /\ b \in Seq(Nat) /\ Len(b) \in Nat /\ t \in Seq(List!Entries)
      /\ TouchedBy(0, s, Len(f)) /\ PageSize \in Nat \ {0} /\ Frames \subseteq Nat
  BY ListedMeans, ListConstants
<1>1. t = l
  BY <1>0 DEF Listed
<1>2. Len(f) = s \div PageSize
  BY <1>0, WholePages, Zenon
<1>3. a \in Nat
  <2>1. CASE Len(b) < Len(t)
    <3>1. t[Len(b) + 1] \in List!Entries
      BY <1>0, <2>1
    <3> QED
      BY <2>1, <3>1 DEF List!Entries
  <2>2. CASE ~(Len(b) < Len(t))
    <3>1. PICK g \in Nat : a = g * PageSize
      BY <1>0, <2>2, Zenon
    <3> QED
      BY <1>0, <3>1
  <2> QED
    BY <2>1, <2>2
<1>4. /\ Append(b, a) \in Seq(Nat) /\ Len(Append(b, a)) = Len(b) + 1
      /\ Append(b, a)[Len(b) + 1] = a /\ DOMAIN Append(b, a) = 1 .. Len(b) + 1
      /\ \A k \in 1 .. Len(b) : Append(b, a)[k] = b[k]
  BY <1>0, <1>3, AppendProperties
<1>5. ASSUME Len(l) = Len(f), NEW k \in DOMAIN Append(b, a)
      PROVE  Append(b, a)[k] = f[k] * PageSize
  <2>1. CASE k = Len(b) + 1
    <3>1. k \in 1 .. Len(l) /\ Len(b) < Len(t)
      BY <1>0, <1>1, <1>2, <1>5, <2>1
    <3>2. l[k].addr = f[k] * PageSize + (IF k = 1 THEN o ELSE 0)
      BY <1>5, <3>1 DEF Listed, OfPages
    <3>3. f[k] * PageSize \in Int
      <4>1. PICK x \in Nat : x = f[k]
        BY <1>0, <1>5, <3>1
      <4>2. x * PageSize \in Int
        BY <1>0
      <4> QED
        BY <4>1, <4>2
    <3>4. a = f[k] * PageSize
      BY <1>1, <2>1, <3>1, <3>2, <3>3
    <3> QED
      BY <1>4, <2>1, <3>4
  <2>2. CASE k # Len(b) + 1
    <3>1. k \in 1 .. Len(b) /\ DOMAIN b = 1 .. Len(b)
      BY <1>0, <1>4, <2>2
    <3>2. b[k] = f[k] * PageSize
      BY <1>5, <3>1 DEF Listed
    <3> QED
      BY <1>4, <3>1, <3>2
  <2> QED
    BY <2>1, <2>2
<1> QED
  BY <1>4, <1>5, Zenon DEF Listed

\* The finished list.
LEMMA ListedAll ==
    ASSUME NEW o, NEW s, NEW f, NEW mg, NEW l, NEW c, NEW t, NEW i, NEW b,
           Listed(o, s, f, mg, "done", l, c, t, i, b)
    PROVE  /\ List!ListBytes(t) = BytesUpTo(o, f, s)
           /\ mg => NoTwoAreOne(t)
<1>0. /\ s \in Nat \ {0} /\ t \in Seq(List!Entries) /\ l \in Seq(List!Entries) /\ Len(l) \in Nat
  BY ListedMeans
<1>1. NamedSoFar(o, s, f, l, t, i) /\ i = Len(l) + 1 /\ (mg => NoTwoAreOne(t))
  BY DEF Listed
<1>2. PICK ends \in [0 .. Len(l) -> 0 .. s] :
         ends[Len(l)] = s /\ NamedUpTo(o, s, f, t, ends[i - 1])
  BY <1>1 DEF NamedSoFar
<1>3. i - 1 = Len(l)
  BY <1>0, <1>1
<1>4. NamedUpTo(o, s, f, t, s)
  BY <1>2, <1>3
<1>5. PICK e \in [0 .. Len(t) -> 0 .. s] : Naming(o, f, t, e) /\ e[Len(t)] = s
  BY <1>4 DEF NamedUpTo
<1>6. List!ListBytes(t) = BytesUpTo(o, f, s)
  BY <1>0, <1>5, NamesAll
<1> QED
  BY <1>1, <1>6

\* The pages of the buffer have been chosen.
LEMMA ListStart ==
    ASSUME List!Init
    PROVE  List!IInv
<1>1. /\ v1 \in 0 .. PageSize - 1 /\ v2 \in 1 .. MaxSize
      /\ v3 \in [1 .. (v1 + v2 + PageSize - 1) \div PageSize -> Frames]
      /\ v4 \in BOOLEAN
      /\ v5 = "pages" /\ v6 = <<>> /\ v7 = v2 /\ v8 = <<>> /\ v9 = 1 /\ v10 = <<>>
  BY DEF List!Init, List!Pages
<1>2. Listed(v1, v2, v3, v4, "pages", <<>>, v2, <<>>, 1, <<>>)
  BY <1>1, ListedFirst
<1> QED
  BY <1>1, <1>2, ListForm

\* Each page, the mapping, each copy and each link.
LEMMA ListStep ==
    ASSUME List!IInv, [List!Next]_List!vars
    PROVE  List!IInv'
<1>0. Listed(v1, v2, v3, v4, v5, v6, v7, v8, v9, v10)
  BY ListForm
<1> SUFFICES Listed(v1', v2', v3', v4', v5', v6', v7', v8', v9', v10')
  BY ListFormNext
<1>1. ASSUME List!AddPage PROVE Listed(v1', v2', v3', v4', v5', v6', v7', v8', v9', v10')
  <2>1. /\ v5 = "pages" /\ Len(v6) < Len(v3)
        /\ v1' = v1 /\ v2' = v2 /\ v3' = v3 /\ v4' = v4 /\ v5' = v5
        /\ v8' = v8 /\ v9' = v9 /\ v10' = v10
    BY <1>1 DEF List!AddPage, List!buffer
  <2>2. PICK start, bytes :
           /\ start = v3[Len(v6) + 1] * PageSize + (IF v6 = <<>> THEN v1 ELSE 0)
           /\ bytes = LeastOf(v7, IF v6 = <<>> THEN PageSize - v1 ELSE PageSize)
           /\ v6' = Append(v6, List!Entry(start, bytes)) /\ v7' = v7 - bytes
    BY <1>1 DEF List!AddPage, List!PageLength, List!Least, LeastOf
  <2>3. Listed(v1, v2, v3, v4, "pages", v6, v7, v8, v9, v10)
    BY <1>0, <2>1
  <2>4. Listed(v1, v2, v3, v4, "pages", Append(v6, List!Entry(start, bytes)), v7 - bytes,
               v8, v9, v10)
    BY <2>1, <2>2, <2>3, PageListed
  <2> QED
    BY <2>1, <2>2, <2>4
<1>2. ASSUME List!MapSg PROVE Listed(v1', v2', v3', v4', v5', v6', v7', v8', v9', v10')
  <2>1. /\ v5 = "pages" /\ Len(v6) = Len(v3) /\ v5' = "mapped"
        /\ v1' = v1 /\ v2' = v2 /\ v3' = v3 /\ v4' = v4
        /\ v7' = v7 /\ v8' = v8 /\ v9' = v9 /\ v10' = v10
    BY <1>2 DEF List!MapSg, List!buffer
  <2>0. PICK n \in 1 .. Len(v6) : \E first \in FirstsOf(Len(v6), n) :
           /\ \A k \in 1 .. n : \A j \in first[k] + 1 .. first[k + 1] - 1 : Adjacent(v6, j)
           /\ IsFused(v6', v6, n, first)
    BY <1>2, Zenon DEF List!MapSg, List!Firsts, FirstsOf, List!Fused, List!Entry, List!End,
                Adjacent, IsFused
  <2>2. PICK first \in FirstsOf(Len(v6), n) :
           /\ \A k \in 1 .. n : \A j \in first[k] + 1 .. first[k + 1] - 1 : Adjacent(v6, j)
           /\ IsFused(v6', v6, n, first)
    BY <2>0
  <2>3. Listed(v1, v2, v3, v4, "pages", v6, v7, v8, v9, v10)
    BY <1>0, <2>1
  <2>4. Listed(v1, v2, v3, v4, "mapped", v6', v7, v8, v9, v10)
    BY <2>1, <2>2, <2>3, MapListed
  <2> QED
    BY <2>1, <2>4
<1>3. ASSUME List!SgGet PROVE Listed(v1', v2', v3', v4', v5', v6', v7', v8', v9', v10')
  BY <1>0, <1>3, RoomListed DEF List!SgGet, List!Capacity, List!buffer
<1>4. ASSUME List!CopyMerged PROVE Listed(v1', v2', v3', v4', v5', v6', v7', v8', v9', v10')
  <2>1. /\ v5 = "copy" /\ v4 /\ v9 <= Len(v6) /\ v9' = v9 + 1
        /\ v1' = v1 /\ v2' = v2 /\ v3' = v3 /\ v4' = v4 /\ v5' = v5 /\ v6' = v6
        /\ v7' = v7 /\ v10' = v10
    BY <1>4 DEF List!CopyMerged, List!buffer
  <2>2. Listed(v1, v2, v3, v4, "copy", v6, v7, v8, v9, v10)
    BY <1>0, <2>1, Zenon
  <2>3. /\ v6[v9].size # 0
        /\ v8 = <<>> \/ v6[v9].addr # v8[Len(v8)].addr + v8[Len(v8)].size
           => Listed(v1, v2, v3, v4, "copy", v6, v7, Append(v8, v6[v9]), v9 + 1, v10)
        /\ \A longer \in Seq(List!Entries) :
              v8 # <<>> /\ v6[v9].addr = v8[Len(v8)].addr + v8[Len(v8)].size
              /\ Prolongs(longer, v8, v6[v9])
              => Listed(v1, v2, v3, v4, "copy", v6, v7, longer, v9 + 1, v10)
    BY <2>1, <2>2, MergeListed, Zenon
  <2>4. /\ v8 \in Seq(List!Entries) /\ Len(v8) \in Nat
        /\ v6 \in Seq(List!Entries) /\ v9 \in 1 .. Len(v6)
    <3>1. /\ v8 \in Seq(List!Entries) /\ Len(v8) \in Nat /\ v6 \in Seq(List!Entries)
          /\ Len(v6) \in Nat /\ v9 \in 1 .. Len(v3) + 1 /\ Len(v3) \in Nat
      BY <2>2, ListedMeans
    <3>2. v9 \in Int /\ 1 <= v9
      BY <3>1
    <3> QED
      BY <2>1, <3>1, <3>2
  <2>5. List!Follows(v6[v9]) <=>
            v8 # <<>> /\ v6[v9].addr = v8[Len(v8)].addr + v8[Len(v8)].size
    BY DEF List!Follows, List!End, List!Last
  <2>6. CASE List!Follows(v6[v9])
    <3>1. v8' = [v8 EXCEPT ![Len(v8)].size = @ + v6[v9].size]
      BY <1>4, <2>6 DEF List!CopyMerged, List!Lengthened
    <3>2. v8 # <<>> /\ Len(v8) \in 1 .. Len(v8)
      BY <2>4, <2>5, <2>6
    <3>3. v6[v9].size \in Nat /\ v8[Len(v8)] \in [addr : Nat, size : Nat]
      <4>1. v6[v9] \in List!Entries /\ v8[Len(v8)] \in List!Entries
        BY <2>4, <3>2
      <4> QED
        BY <4>1 DEF List!Entries
    <3>4. [v8[Len(v8)] EXCEPT !.size = @ + v6[v9].size] \in List!Entries
      BY <3>3 DEF List!Entries
    <3>5. /\ v8' = [v8 EXCEPT ![Len(v8)] = [v8[Len(v8)] EXCEPT !.size = @ + v6[v9].size]]
      BY <3>1, <3>2, <2>4
    <3>6. v8' \in Seq(List!Entries) /\ Len(v8') = Len(v8)
      BY <2>4, <3>2, <3>4, <3>5
    <3>7. Prolongs(v8', v8, v6[v9])
      BY <2>4, <3>2, <3>3, <3>5, <3>6 DEF Prolongs
    <3>8. Listed(v1, v2, v3, v4, "copy", v6, v7, v8', v9 + 1, v10)
      BY <2>3, <2>5, <2>6, <3>6, <3>7
    <3> QED
      BY <2>1, <3>8, Zenon
  <2>7. CASE ~List!Follows(v6[v9])
    BY <1>4, <2>1, <2>3, <2>5, <2>7, Zenon DEF List!CopyMerged
  <2> QED
    BY <2>6, <2>7
<1>5. ASSUME List!CopyPlain PROVE Listed(v1', v2', v3', v4', v5', v6', v7', v8', v9', v10')
  BY <1>0, <1>5, PlainListed DEF List!CopyPlain, List!buffer, List!Last, List!Front
<1>6. ASSUME List!Copied PROVE Listed(v1', v2', v3', v4', v5', v6', v7', v8', v9', v10')
  BY <1>0, <1>6, AllListed DEF List!Copied, List!buffer
<1>7. ASSUME List!Link PROVE Listed(v1', v2', v3', v4', v5', v6', v7', v8', v9', v10')
  <2>1. /\ v5 = "done" /\ ~v4 /\ v1 = 0 /\ (v2 % PageSize) = 0
        /\ Len(v10) < v2 \div PageSize
        /\ v1' = v1 /\ v2' = v2 /\ v3' = v3 /\ v4' = v4 /\ v5' = v5 /\ v6' = v6
        /\ v7' = v7 /\ v8' = v8 /\ v9' = v9
    BY <1>7 DEF List!Link, List!buffer
  <2>2. PICK a : /\ v10' = Append(v10, a)
                 /\ Len(v10) < Len(v8) => a = v8[Len(v10) + 1].addr
                 /\ ~(Len(v10) < Len(v8)) => \E g \in Frames : a = g * PageSize
    BY <1>7 DEF List!Link
  <2>3. Listed(v1, v2, v3, v4, "done", v6, v7, v8, v9, v10)
    BY <1>0, <2>1
  <2>4. Listed(v1, v2, v3, v4, "done", v6, v7, v8, v9, Append(v10, a))
    BY <2>1, <2>2, <2>3, LinkListed
  <2> QED
    BY <2>1, <2>2, <2>4
<1>8. ASSUME UNCHANGED List!vars
      PROVE  Listed(v1', v2', v3', v4', v5', v6', v7', v8', v9', v10')
  BY <1>0, <1>8 DEF List!vars, List!buffer
<1> QED
  BY <1>1, <1>2, <1>3, <1>4, <1>5, <1>6, <1>7, <1>8 DEF List!Next

\* What the invariant says of the list the program is given.
LEMMA ListRight ==
    ASSUME List!IInv
    PROVE  List!Covers /\ List!MergedMaximal /\ List!Fits /\ List!LinksOwnPages
<1>1. Listed(v1, v2, v3, v4, v5, v6, v7, v8, v9, v10)
  BY ListForm
<1>2. v5 = "done" => List!ListBytes(v8) = BytesUpTo(v1, v3, v2) /\ (v4 => NoTwoAreOne(v8))
  BY <1>1, ListedAll
<1>3. List!BufferBytes = BytesUpTo(v1, v3, v2)
  BY DEF List!BufferBytes, BytesUpTo, List!ByteAt, At
<1>4. List!Covers
  BY <1>2, <1>3 DEF List!Covers
<1>5. List!MergedMaximal
  BY <1>2 DEF List!MergedMaximal, NoTwoAreOne, List!End
<1> QED
  BY <1>4, <1>5 DEF List!IInv, List!Linking

-----------------------------------------------------------------------------
\* The behaviours of Parts.

\* The inductive invariant: the component that was chosen keeps its own.
IInv ==
    /\ part = "boards" => Board!IInv
    /\ part = "main" => Main!IInv
    /\ part = "buffers" => Buffers!IInv
    /\ part = "timer" => Timer!IInv
    /\ part = "bitstream" => Bitstream!IInv
    /\ part = "space" => Pci!IInv
    /\ part = "handles" => Handles!IInv
    /\ part = "registry" => Registry!IInv
    /\ part = "creotech" => Creotech!IInv
    /\ part = "tests" => Tests!IInv
    /\ part = "list" => List!IInv

\* Whichever component is chosen starts where its module says.
LEMMA Start == Init => IInv
<1> SUFFICES ASSUME Init PROVE IInv
  OBVIOUS
<1>1. part = "boards" => Board!IInv
  BY BoardStart DEF Init
<1>2. part = "main" => Main!IInv
  BY MainStart DEF Init
<1>3. part = "buffers" => Buffers!IInv
  BY BuffersStart DEF Init
<1>4. part = "timer" => Timer!IInv
  BY TimerStart DEF Init
<1>5. part = "bitstream" => Bitstream!IInv
  BY BitstreamStart DEF Init
<1>6. part = "space" => Pci!IInv
  BY PciStart DEF Init
<1>7. part = "handles" => Handles!IInv
  BY HandlesStart DEF Init
<1>8. part = "registry" => Registry!IInv
  BY RegistryStart DEF Init
<1>9. part = "creotech" => Creotech!IInv
  BY CreotechStart DEF Init
<1>10. part = "tests" => Tests!IInv
  BY TestsStart DEF Init
<1>11. part = "list" => List!IInv
  BY ListStart DEF Init
<1> QED
  BY <1>1, <1>2, <1>3, <1>4, <1>5, <1>6, <1>7, <1>8, <1>9, <1>10, <1>11 DEF IInv

\* The chosen component takes a step of its own, or changes nothing.
Stepping ==
    /\ part = "boards" => [Board!Next]_Board!vars
    /\ part = "main" => [Main!Next]_Main!vars
    /\ part = "buffers" => [Buffers!Next]_Buffers!vars
    /\ part = "timer" => [Timer!Next]_Timer!vars
    /\ part = "bitstream" => [Bitstream!Next]_Bitstream!vars
    /\ part = "space" => [Pci!Next]_Pci!vars
    /\ part = "handles" => [Handles!Next]_Handles!vars
    /\ part = "registry" => [Registry!Next]_Registry!vars
    /\ part = "creotech" => [Creotech!Next]_Creotech!cvars
    /\ part = "tests" => [Tests!Next]_Tests!vars
    /\ part = "list" => [List!Next]_List!vars

\* Every step is one of the chosen component.
LEMMA AnyStep ==
    ASSUME [Next]_vars
    PROVE  Stepping
<1>1. CASE Next
  BY <1>1
  DEF Next, Stepping, BoardIOStep, MainFpgaStep, DmaBuffersStep, CpuTimerStep, ConfigFileStep,
      ConfigSpaceStep, DeviceHandlesStep, CompatRegistryStep, CreotechLifecycleStep,
      TestProgramsStep, SgListStep
<1>2. CASE UNCHANGED vars
  BY <1>2
  DEF vars, Stepping, Board!object, Board!loggers, Board!data, Board!vars, Main!vars,
      Buffers!object,
      Buffers!allocation, Buffers!words, Buffers!vars, Timer!learned, Timer!calibration,
      Timer!measure, Timer!vars, Bitstream!vars, Pci!space, Pci!answer, Pci!vars,
      Handles!objects, Handles!memory, Handles!vars, Registry!library, Registry!objects,
      Registry!buffers, Registry!vars, Creotech!boards, Creotech!files, Creotech!cvars,
      Tests!place, Tests!script, Tests!memory, Tests!irq, Tests!vars, List!buffer,
      List!vars
<1> QED
  BY <1>1, <1>2

\* What the chosen component keeps in its steps is kept.
LEMMA Steps ==
    ASSUME IInv, [Next]_vars
    PROVE  IInv'
<1>1. part' = part
  BY DEF Next, vars, BoardIOStep, MainFpgaStep, DmaBuffersStep, CpuTimerStep, ConfigFileStep,
     ConfigSpaceStep, DeviceHandlesStep, CompatRegistryStep, CreotechLifecycleStep,
     TestProgramsStep, SgListStep
<1>2. Stepping
  BY AnyStep
<1>3. part = "boards" => Board!IInv'
  BY <1>2, BoardStep DEF IInv, Stepping
<1>4. part = "main" => Main!IInv'
  BY <1>2, MainStep DEF IInv, Stepping
<1>5. part = "buffers" => Buffers!IInv'
  BY <1>2, BuffersStep DEF IInv, Stepping
<1>6. part = "timer" => Timer!IInv'
  BY <1>2, TimerStep DEF IInv, Stepping
<1>7. part = "bitstream" => Bitstream!IInv'
  BY <1>2, BitstreamStep DEF IInv, Stepping
<1>8. part = "space" => Pci!IInv'
  BY <1>2, PciStep DEF IInv, Stepping
<1>9. part = "handles" => Handles!IInv'
  BY <1>2, HandlesStep DEF IInv, Stepping
<1>10. part = "registry" => Registry!IInv'
  BY <1>2, RegistryStep DEF IInv, Stepping
<1>11. part = "creotech" => Creotech!IInv'
  BY <1>2, CreotechStep DEF IInv, Stepping
<1>12. part = "tests" => Tests!IInv'
  BY <1>2, TestsStep DEF IInv, Stepping
<1>13. part = "list" => List!IInv'
  BY <1>2, ListStep DEF IInv, Stepping
<1> QED
  BY <1>1, <1>3, <1>4, <1>5, <1>6, <1>7, <1>8, <1>9, <1>10, <1>11, <1>12, <1>13 DEF IInv

\* Each component keeps its invariant in every behaviour of Parts.
THEOREM Invariance == Spec => []IInv
<1>1. Init => IInv
  BY Start
<1>2. IInv /\ [Next]_vars => IInv'
  BY Steps
<1> QED
  BY <1>1, <1>2, PTL DEF Spec

\* The variables of every component have the values its module says they have.
THEOREM TypeCorrect == Spec => []TypeOK
<1>1. IInv => TypeOK
  BY DEF IInv, TypeOK, Board!IInv, Main!IInv, Buffers!IInv, Timer!IInv, Bitstream!IInv,
         Pci!IInv, Handles!IInv, Registry!IInv, Creotech!IInv, Tests!IInv, List!IInv
<1> QED
  BY <1>1, Invariance, PTL

\* The list of a user buffer names its bytes in order, in as few entries as the
\* pages allow, fits in the room for it, and each page of descriptors has its own
\* address, for pages and buffers of any size, wherever they begin and whichever
\* pages the mapping fuses (umem.c, UserMemory.cpp, pciDriver_Capi.c,
\* DMADescriptorListWG.cpp).
THEOREM ListNamesBuffer == Spec => []ListCorrect
<1>1. IInv => ListCorrect
  BY ListRight DEF IInv, ListCorrect
<1> QED
  BY <1>1, Invariance, PTL

\* Aligned accesses to a configuration space of any size, through whichever
\* interface, write the bytes they name and no others and are answered with
\* these bytes; one that is not aligned writes none (ioctl.c:94-133,
\* PciDevice.cpp:346-431, pciDriver_Capi.c:436-528).
THEOREM SpaceTrue == Spec => []ConfigTrue
<1>1. IInv => ConfigTrue
  BY DEF IInv, ConfigTrue, Pci!IInv
<1> QED
  BY <1>1, Invariance, PTL

\* Of the older interface, the numbers in the registry are those of the objects
\* and their devices; of the newer, descriptors, entries and handles agree and
\* no lock stays behind a call that failed, for any set of threads and objects.
THEOREM LibraryKept == Spec => []LibraryExact
<1>1. IInv => LibraryExact
  BY HandlesAgree DEF IInv, LibraryExact, Registry!IInv
<1> QED
  BY <1>1, Invariance, PTL

\* What the main FPGA sends is what it was told to send last, for any number of
\* threads that do not run into each other.
THEOREM AnnouncedRead == Spec => []ReadsAnnounced
<1>1. ASSUME Main!IInv PROVE Main!ReadsAnnounced
  <2>1. SUFFICES ASSUME ~v7
                 PROVE  /\ \A t \in Threads :
                              v3[t] = "load" /\ (v4[t] > 0 \/ v2[t].op \in {"dma", "dmaNoWait"})
                                  => Main!Told(v2[t])
                        /\ v5 # Main!Idle => Main!Told(v5)
    BY DEF Main!ReadsAnnounced
  <2>2. Main!Apart
    BY <1>1, <2>1 DEF Main!IInv
  <2>3. v5 # Main!Idle => Main!Told(v5)
    BY <2>2 DEF Main!Apart
  <2>4. ASSUME NEW t \in Threads, v3[t] = "load" PROVE Main!Told(v2[t])
    BY <2>2, <2>4 DEF Main!Apart, Main!ToldSoFar, Main!Told
  <2>5. QED
    BY <2>3, <2>4
<1>2. IInv => ReadsAnnounced
  BY <1>1 DEF IInv, ReadsAnnounced
<1> QED
  BY <1>2, Invariance, PTL

\* One process at a time has the file of the creotech driver, a file is served
\* by a board that is whole, and a board that is gone leaves behind only what
\* the error paths forget, for any set of boards and processes.
THEOREM CreotechStaysWhole == Spec => []CreotechWhole
<1>1. IInv => CreotechWhole
  BY CreotechServes DEF IInv, CreotechWhole
<1> QED
  BY <1>1, Invariance, PTL

\* Until a block is taken for one beyond the memory, words and blocks reach the
\* words they name and no others; no block ever reaches a register.  Windows and
\* the address space have every size, blocks every length.
THEOREM WordsReach == Spec => []WordsLand
<1>1. IInv => WordsLand
  BY DEF IInv, WordsLand, Board!IInv
<1> QED
  BY <1>1, Invariance, PTL

\* The words of a DMA buffer are those stored there or brought by a transfer,
\* for buffers of any number of words.
THEOREM BufferWordsKept == Spec => []WordsKept
<1>1. IInv => WordsKept
  BY BuffersKeep DEF IInv, WordsKept
<1> QED
  BY <1>1, Invariance, PTL

\* Boards and buffers that are gone hold nothing, and every allocation is in
\* the statistics once, however often it was tried.
THEOREM NothingHeld == Spec => []Released
<1>1. IInv => Released
  BY BuffersKeep DEF IInv, Released, Board!IInv
<1> QED
  BY <1>1, Invariance, PTL

\* A calibrated timer knows the rate of the counter, whatever seconds, sleeps
\* and rate are, and no wait is over early.
THEOREM TimerTrue == Spec => []TimesTrue
<1>1. IInv => TimesTrue
  BY DEF IInv, TimesTrue, Timer!IInv
<1> QED
  BY <1>1, Invariance, PTL

\* The test programs give back what they take, on each device whose tests meet
\* no failure, and show what they wrote and had moved, for any number of devices
\* (testPCIeBoard.cpp, testDMA.cpp, testDMA_c.c).
THEOREM TestsGiveBack == Spec => []TestsHonest
<1>1. IInv => TestsHonest
  BY TestsTrue DEF IInv, TestsHonest
<1> QED
  BY <1>1, Invariance, PTL

\* An ASCII bitstream of any length is read byte for byte, within its buffer.
THEOREM FileExact == Spec => []BitstreamExact
<1>1. IInv => BitstreamExact
  BY BitstreamRead DEF IInv, BitstreamExact
<1> QED
  BY <1>1, Invariance, PTL
=============================================================================

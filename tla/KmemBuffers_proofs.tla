------------------------- MODULE KmemBuffers_proofs -------------------------
(***************************************************************************)
(* Proofs about KmemBuffers, for any number of threads, processes,         *)
(* addresses and BARs.                                                     *)
(*                                                                         *)
(* Types and the mutexes are in order always, the rest until crossed is    *)
(* set: each thread then owns the entry its position asks for (InPlace),   *)
(* the entries owned have addresses of their own (Apart), and the list     *)
(* holds those that were linked (Listed).                                  *)
(***************************************************************************)
EXTENDS KmemBuffers, FiniteSetTheorems, SequenceTheorems, TLAPS

\* TypeOK, with the shape of the mutexes in place of their cardinality.
Typing ==
    /\ kmemCount \in 0 .. MaxIds
    /\ kmemList \in Seq(Ids)
    /\ address \in [Ids -> Addresses \cup {NoId}]
    /\ entry \in [Ids -> {"none", "live", "dmafreed", "freed"}]
    /\ sysfs \subseteq Ids
    /\ mode \in {"PCI", "KMEM"}
    /\ area \in Bars \cup {FirstBar}
    /\ mutex \in [Processes -> SUBSET Threads]
    /\ \A p \in Processes : mutex[p] = {} \/ \E t \in Threads : mutex[p] = {t}
    /\ pc \in [Threads -> Positions]
    /\ handle \in [Threads -> Ids \cup {NoId}]
    /\ cur \in [Threads -> Ids \cup {NoId}]
    /\ DOMAIN mapped = Threads
    /\ bar \in [Threads -> Bars \cup {FirstBar}]
    /\ fault \in BOOLEAN
    /\ crossed \in BOOLEAN

BarPositions == {"idle", "lock", "setmode", "setarea", "mmap", "use", "unlock", "unlockerr", "have"}
Locked == {"setmode", "setarea", "mmap", "use", "unlock", "unlockerr"}

\* Mutual exclusion, and the positions each kind of thread has.
Excluded(t) ==
    /\ pc[t] \in Locked => mutex[Proc[t]] = {t}
    /\ t \in BarThreads => pc[t] \in BarPositions
    /\ t \in BufThreads => pc[t] # "setarea"
    /\ pc[t] = "link" => handle[t] \in Ids

\* The entry of a thread with a buffer: live until its memory is given back, its
\* own look-ups find it, it is the last one until it is mapped, and it is what
\* was mapped.
Owns(t) ==
    /\ handle[t] \in Ids /\ handle[t] < kmemCount
    /\ entry[handle[t]] = (IF pc[t] = "unlink" THEN "dmafreed" ELSE "live")
    /\ pc[t] \in {"use", "sync", "dmafree", "unlink"} => cur[t] = handle[t]
    /\ pc[t] \in {"lock", "setmode", "mmap"} => kmemList # <<>> /\ Last(kmemList) = handle[t]
    /\ pc[t] \in {"unlock", "have", "sync"} => mapped[t] = <<"kmem", handle[t]>>
    /\ pc[t] = "mmap" => mode = "KMEM"

\* A thread that maps BARs: mode and area are as it set them.
Aims(t) ==
    /\ pc[t] # "use"
    /\ pc[t] = "setarea" => mode = "PCI"
    /\ pc[t] = "mmap" => mode = "PCI" /\ area = bar[t]
    /\ pc[t] \in {"unlock", "have"} => mapped[t] = <<"bar", bar[t]>>

InPlace(t) ==
    /\ t \in BufThreads => IF pc[t] = "idle" THEN handle[t] = NoId ELSE Owns(t)
    /\ t \in BarThreads => Aims(t)

\* No two threads own one entry or one address.
Apart ==
    \A t, u \in BufThreads : t # u /\ pc[t] # "idle" /\ pc[u] # "idle" =>
        handle[t] # handle[u] /\ address[handle[t]] # address[handle[u]]

\* The list holds each entry that was linked, once.
Listed ==
    /\ \A i \in ToSet(kmemList) : \E t \in BufThreads : pc[t] \notin {"idle", "link"} /\ handle[t] = i
    /\ \A t \in BufThreads : pc[t] \notin {"idle", "link"} => handle[t] \in ToSet(kmemList)
    /\ IsInjective(kmemList)

Core ==
    /\ \A t \in Threads : InPlace(t)
    /\ Apart
    /\ Listed
    /\ ~fault

IInv ==
    /\ Typing
    /\ \A t \in Threads : Excluded(t)
    /\ ~crossed => Core

-----------------------------------------------------------------------------
\* Linking an entry.
LEMMA Linking ==
    ASSUME NEW s \in Seq(Ids), NEW i \in Ids
    PROVE  /\ Append(s, i) \in Seq(Ids) /\ Append(s, i) # <<>> /\ Last(Append(s, i)) = i
           /\ ToSet(Append(s, i)) = ToSet(s) \cup {i}
           /\ IsInjective(s) /\ i \notin ToSet(s) => IsInjective(Append(s, i))
<1>1. /\ Append(s, i) \in Seq(Ids) /\ Append(s, i) # <<>>
      /\ DOMAIN Append(s, i) = 1 .. Len(s) + 1 /\ Len(Append(s, i)) = Len(s) + 1
      /\ \A k \in 1 .. Len(s) : Append(s, i)[k] = s[k]
      /\ Append(s, i)[Len(s) + 1] = i /\ DOMAIN s = 1 .. Len(s) /\ Len(s) \in Nat
  BY AppendProperties, LenProperties
<1>. QED
  BY <1>1 DEF Last, ToSet, IsInjective

\* Unlinking one: the others stay, in order.
LEMMA Unlinking ==
    ASSUME NEW s \in Seq(Ids), NEW n \in DOMAIN s
    PROVE  /\ RemoveAt(s, n) \in Seq(Ids)
           /\ IsInjective(s) => /\ ToSet(RemoveAt(s, n)) = ToSet(s) \ {s[n]}
                                /\ IsInjective(RemoveAt(s, n))
           /\ Last(s) # s[n] => RemoveAt(s, n) # <<>> /\ Last(RemoveAt(s, n)) = Last(s)
<1>. DEFINE r == RemoveAt(s, n)
<1>1. Len(s) \in Nat /\ DOMAIN s = 1 .. Len(s) /\ n \in 1 .. Len(s) /\ \A k \in 1 .. Len(s) : s[k] \in Ids
  BY LenProperties, ElementOfSeq
<1>a. 1 \in Int /\ n - 1 \in Int /\ n + 1 \in Int /\ Len(s) \in Int
  BY <1>1
<1>2. /\ SubSeq(s, 1, n - 1) \in Seq(Ids) /\ Len(SubSeq(s, 1, n - 1)) = n - 1
      /\ \A k \in 1 .. n - 1 : SubSeq(s, 1, n - 1)[k] = s[k]
  <2>1. \A k \in 1 .. n - 1 : s[k] \in Ids
    BY <1>1
  <2>. QED
    BY <1>1, <1>a, <2>1, SubSeqProperties
<1>3. /\ SubSeq(s, n + 1, Len(s)) \in Seq(Ids) /\ Len(SubSeq(s, n + 1, Len(s))) = Len(s) - n
      /\ \A k \in 1 .. Len(s) - n : SubSeq(s, n + 1, Len(s))[k] = s[n + k]
  <2>1. \A k \in n + 1 .. Len(s) : s[k] \in Ids
    BY <1>1
  <2>2. /\ SubSeq(s, n + 1, Len(s)) \in Seq(Ids)
        /\ Len(SubSeq(s, n + 1, Len(s))) = IF n + 1 <= Len(s) THEN Len(s) - (n + 1) + 1 ELSE 0
        /\ \A k \in 1 .. Len(s) - (n + 1) + 1 : SubSeq(s, n + 1, Len(s))[k] = s[(n + 1) + k - 1]
    BY <1>a, <2>1, SubSeqProperties
  <2>. QED
    BY <1>1, <2>2
<1>4. /\ r \in Seq(Ids) /\ Len(r) = Len(s) - 1
      /\ \A k \in 1 .. Len(s) - 1 : r[k] = IF k < n THEN s[k] ELSE s[k + 1]
  <2>. DEFINE a == SubSeq(s, 1, n - 1)
              b == SubSeq(s, n + 1, Len(s))
  <2>1. a \in Seq(Ids) /\ Len(a) = n - 1 /\ \A k \in 1 .. n - 1 : a[k] = s[k]
    BY <1>2
  <2>2. b \in Seq(Ids) /\ Len(b) = Len(s) - n /\ \A k \in 1 .. Len(s) - n : b[k] = s[n + k]
    BY <1>3
  <2>3. r = a \o b
    BY DEF RemoveAt
  <2>. HIDE DEF a, b, r
  <2>4. /\ r \in Seq(Ids) /\ Len(r) = Len(a) + Len(b)
        /\ \A k \in 1 .. Len(a) + Len(b) : r[k] = IF k <= Len(a) THEN a[k] ELSE b[k - Len(a)]
    BY <2>1, <2>2, <2>3, ConcatProperties
  <2>5. Len(a) + Len(b) = Len(s) - 1
    BY <1>1, <2>1, <2>2
  <2>6. ASSUME NEW k \in 1 .. Len(s) - 1 PROVE r[k] = IF k < n THEN s[k] ELSE s[k + 1]
    <3>1. CASE k < n
      BY <1>1, <2>1, <2>4, <2>5, <3>1
    <3>2. CASE ~(k < n)
      <4>1. /\ k - (n - 1) \in 1 .. Len(s) - n /\ n + (k - (n - 1)) = k + 1
            /\ ~(k <= Len(a)) /\ k - Len(a) = k - (n - 1)
        BY <1>1, <2>1, <3>2
      <4>2. r[k] = b[k - (n - 1)]
        BY <2>4, <2>5, <4>1
      <4>3. b[k - (n - 1)] = s[n + (k - (n - 1))]
        BY <2>2, <4>1
      <4>. QED
        BY <3>2, <4>1, <4>2, <4>3
    <3>. QED
      BY <3>1, <3>2
  <2>. QED
    BY <2>4, <2>5, <2>6
<1>5. DOMAIN r = 1 .. Len(s) - 1
  BY <1>4, LenProperties
<1>6. IsInjective(s) => IsInjective(r)
  BY SMTT(30), <1>1, <1>4, <1>5 DEF IsInjective
<1>7. IsInjective(s) => ToSet(r) \subseteq ToSet(s) \ {s[n]}
  BY <1>1, <1>4, <1>5 DEF IsInjective, ToSet
<1>8. ASSUME NEW x \in ToSet(s) \ {s[n]} PROVE x \in ToSet(r)
  <2>1. PICK k \in 1 .. Len(s) : s[k] = x /\ k # n
    BY <1>1 DEF ToSet
  <2>2. CASE k < n
    BY <1>1, <1>4, <1>5, <2>1, <2>2 DEF ToSet
  <2>3. CASE k > n
    <3>1. k - 1 \in 1 .. Len(s) - 1 /\ r[k - 1] = x
      BY <1>1, <1>4, <2>1, <2>3
    <3>. QED
      BY <1>5, <3>1 DEF ToSet
  <2>. QED
    BY <1>1, <2>1, <2>2, <2>3
<1>9. Last(s) # s[n] => r # <<>> /\ Last(r) = Last(s)
  <2>. SUFFICES ASSUME Last(s) # s[n] PROVE r # <<>> /\ Last(r) = Last(s)
    OBVIOUS
  <2>1. n < Len(s) /\ Len(s) - 1 \in 1 .. Len(s) - 1 /\ ~(Len(s) - 1 < n)
    BY <1>1 DEF Last
  <2>2. r[Len(s) - 1] = s[Len(s)]
    BY <1>1, <1>4, <2>1
  <2>. QED
    BY <1>1, <1>4, <2>1, <2>2 DEF Last
<1>. QED
  BY <1>4, <1>6, <1>7, <1>8, <1>9

\* A look-up by address finds the entry of the thread and no other.
LEMMA LookUp ==
    ASSUME Typing, Core, NEW t \in BufThreads, pc[t] \notin {"idle", "link"}
    PROVE  /\ FirstMatch(t) # {}
           /\ \A n \in FirstMatch(t) : n \in DOMAIN kmemList /\ kmemList[n] = handle[t]
<1>1. PICK k \in DOMAIN kmemList : kmemList[k] = handle[t]
  BY DEF Core, Listed, ToSet
<1>2. ASSUME NEW n \in DOMAIN kmemList, address[kmemList[n]] = address[handle[t]]
      PROVE  n = k
  <2>1. PICK u \in BufThreads : pc[u] # "idle" /\ handle[u] = kmemList[n]
    BY DEF Core, Listed, ToSet
  <2>2. u = t
    BY <1>2, <2>1 DEF Core, Apart
  <2>. QED
    BY <1>1, <2>1, <2>2 DEF Core, Listed, IsInjective
<1>3. k \in Nat /\ DOMAIN kmemList \subseteq Nat
  BY LenProperties DEF Typing
<1>4. FirstMatch(t) = {k}
  BY <1>1, <1>2, <1>3 DEF FirstMatch
<1>. QED
  BY <1>1, <1>4

\* Types; the mutex of a process is taken by one thread, or by none.
LEMMA TypingStep ==
    ASSUME Typing, \A t \in Threads : Excluded(t), NEW u \in Threads, Call(u) \/ Step(u)
    PROVE  Typing'
<1>. USE ThreadsAssumption, ProcAssumption, MaxIdsAssumption DEF lists, modes, locals, vars, Set, Goto, Threads, Ids, NoId, Typing, Positions, Excluded, Unmapped
<1>1. CASE Alloc(u)
  <2>1. kmemCount \in Ids /\ kmemCount' \in 0 .. MaxIds /\ sysfs' \subseteq Ids
    BY <1>1 DEF Alloc
  <2>2. entry' \in [Ids -> {"none", "live", "dmafreed", "freed"}]
    BY <1>1, <2>1 DEF Alloc
  <2>3. address' \in [Ids -> Addresses \cup {NoId}]
    BY <1>1, <2>1 DEF Alloc, FreeAddresses
  <2>4. handle' \in [Threads -> Ids \cup {NoId}] /\ pc' \in [Threads -> Positions]
    BY <1>1, <2>1 DEF Alloc
  <2>5. crossed' \in BOOLEAN
    <3>1. crossed' = crossed \/ \E a \in FreeAddresses : crossed' = (crossed \/ GivenOutEarly(a))
      BY <1>1 DEF Alloc
    <3>. QED
      BY <3>1
  <2>. QED
    BY <1>1, <2>1, <2>2, <2>3, <2>4, <2>5 DEF Alloc
<1>2. CASE AllocLink(u)
  <2>1. kmemList' \in Seq(Ids)
    BY <1>2, Linking DEF AllocLink
  <2>. QED
    BY <1>2, <2>1 DEF AllocLink
<1>3. CASE MapBar(u)
  BY <1>3 DEF MapBar
<1>4. CASE Lock(u)
  BY <1>4 DEF Lock
<1>5. CASE SetMode(u)
  BY <1>5 DEF SetMode
<1>6. CASE SetArea(u)
  BY <1>6 DEF SetArea
<1>7. CASE MmapBar(u)
  <2>1. DOMAIN mapped' = Threads
    BY <1>7 DEF MmapBar
  <2>2. pc' = [pc EXCEPT ![u] = "unlock"] \/ pc' = [pc EXCEPT ![u] = "unlockerr"]
    BY <1>7 DEF MmapBar
  <2>3. pc' \in [Threads -> Positions]
    BY <2>2
  <2>. QED
    BY <1>7, <2>1, <2>3 DEF MmapBar
<1>8. CASE MmapPick(u)
  <2>1. Len(kmemList) \in Nat \ {0} /\ Last(kmemList) \in Ids
    BY <1>8, EmptySeq, ElementOfSeq DEF MmapPick, Last
  <2>. QED
    BY <1>8, <2>1 DEF MmapPick
<1>9. CASE MmapEmpty(u)
  BY <1>9 DEF MmapEmpty
<1>10. CASE MmapUse(u)
  <2>1. DOMAIN mapped' = Threads
    BY <1>10 DEF MmapUse
  <2>5. pc' = [pc EXCEPT ![u] = "unlock"] \/ pc' = [pc EXCEPT ![u] = "unlockerr"]
    BY <1>10 DEF MmapUse
  <2>2. pc' \in [Threads -> Positions]
    BY <2>5
  <2>3. fault' = (fault \/ entry[cur[u]] = "freed") /\ cur' \in [Threads -> Ids \cup {NoId}]
    BY <1>10 DEF MmapUse
  <2>4. fault' \in BOOLEAN
    BY <2>3
  <2>. QED
    BY SMTT(30), <1>10, <2>1, <2>2, <2>3, <2>4 DEF MmapUse
<1>11. CASE Unlock(u)
  BY <1>11 DEF Unlock
<1>12. CASE Sync(u)
  <2>1. \A n \in DOMAIN kmemList : kmemList[n] \in Ids
    BY LenProperties, ElementOfSeq
  <2>2. cur' \in [Threads -> Ids \cup {NoId}]
    BY <1>12, <2>1 DEF Sync, FirstMatch
  <2>. QED
    BY <1>12, <2>2 DEF Sync
<1>13. CASE SyncUse(u)
  BY <1>13 DEF SyncUse
<1>14. CASE UnmapBar(u)
  <2>1. DOMAIN mapped' = Threads
    BY <1>14 DEF UnmapBar
  <2>2. pc' \in [Threads -> Positions]
    BY <1>14 DEF UnmapBar
  <2>. QED
    BY <1>14, <2>1, <2>2 DEF UnmapBar
<1>15. CASE Delete(u)
  <2>1. DOMAIN mapped' = Threads
    BY <1>15 DEF Delete
  <2>2. pc' \in [Threads -> Positions]
    BY <1>15 DEF Delete
  <2>. QED
    BY <1>15, <2>1, <2>2 DEF Delete
<1>16. CASE Find(u)
  <2>1. \A n \in DOMAIN kmemList : kmemList[n] \in Ids
    BY LenProperties, ElementOfSeq
  <2>2. cur' \in [Threads -> Ids \cup {NoId}]
    BY <1>16, <2>1 DEF Find, FirstMatch
  <2>3. handle' \in [Threads -> Ids \cup {NoId}]
    BY <1>16 DEF Find
  <2>5. pc' = [pc EXCEPT ![u] = "dmafree"] \/ pc' = [pc EXCEPT ![u] = "idle"]
    BY <1>16 DEF Find
  <2>4. pc' \in [Threads -> Positions]
    BY <2>5
  <2>. QED
    BY SMTT(30), <1>16, <2>2, <2>3, <2>4 DEF Find
<1>17. CASE FreeDma(u)
  BY <1>17 DEF FreeDma
<1>18. CASE FreeUnlink(u)
  <2>1. kmemList' \in Seq(Ids)
    BY <1>18, Unlinking DEF FreeUnlink, Places
  <2>2. entry' \in [Ids -> {"none", "live", "dmafreed", "freed"}]
    BY <1>18 DEF FreeUnlink
  <2>3. fault' = (fault \/ entry[cur[u]] = "freed")
    BY <1>18 DEF FreeUnlink
  <2>4. fault' \in BOOLEAN
    BY <2>3
  <2>5. pc' \in [Threads -> Positions]
    BY <1>18 DEF FreeUnlink
  <2>. QED
    BY <1>18, <2>1, <2>2, <2>4, <2>5 DEF FreeUnlink
<1>. QED
  BY <1>1, <1>2, <1>3, <1>4, <1>5, <1>6, <1>7, <1>8, <1>9, <1>10, <1>11, <1>12, <1>13, <1>14, <1>15, <1>16, <1>17, <1>18 DEF Call, Step

\* A thread takes a mutex that is free and gives back its own.
LEMMA ExcludedStep ==
    ASSUME Typing, \A t \in Threads : Excluded(t), NEW t \in Threads, NEW u \in Threads, Call(u) \/ Step(u)
    PROVE  Excluded(t)'
<1>. USE ThreadsAssumption, ProcAssumption, MaxIdsAssumption DEF lists, modes, locals, vars, Set, Goto, Threads, Ids, NoId, Typing, Excluded, BarPositions, Locked
<1>1. CASE Alloc(u)
  <2>1. kmemCount \in Ids /\ mutex' = mutex /\ u \in BufThreads
    BY <1>1 DEF Alloc
  <2>2. CASE t = u
    BY <1>1, <2>1, <2>2 DEF Alloc
  <2>3. CASE t # u
    <3>1. pc'[t] = pc[t] /\ handle'[t] = handle[t]
      BY <1>1, <2>3 DEF Alloc
    <3>. QED
      BY <2>1, <3>1
  <2>. QED
    BY <2>2, <2>3
<1>2. CASE AllocLink(u)
  BY <1>2 DEF AllocLink
<1>3. CASE MapBar(u)
  BY <1>3 DEF MapBar
<1>4. CASE Lock(u)
  BY <1>4 DEF Lock
<1>5. CASE SetMode(u)
  BY <1>5 DEF SetMode
<1>6. CASE SetArea(u)
  BY <1>6 DEF SetArea
<1>7. CASE MmapBar(u)
  BY <1>7 DEF MmapBar
<1>8. CASE MmapPick(u)
  BY <1>8 DEF MmapPick
<1>9. CASE MmapEmpty(u)
  BY <1>9 DEF MmapEmpty
<1>10. CASE MmapUse(u)
  BY <1>10 DEF MmapUse
<1>11. CASE Unlock(u)
  <2>1. pc[u] \in Locked /\ mutex[Proc[u]] = {u} /\ mutex' = [mutex EXCEPT ![Proc[u]] = {}]
    BY <1>11 DEF Unlock
  <2>2. CASE t = u
    BY <1>11, <2>1, <2>2 DEF Unlock
  <2>3. CASE t # u
    <3>1. pc'[t] = pc[t] /\ handle'[t] = handle[t]
      BY <1>11, <2>3 DEF Unlock
    <3>2. pc[t] \in Locked => Proc[t] # Proc[u]
      BY <2>1, <2>3
    <3>. QED
      BY <2>1, <3>1, <3>2
  <2>. QED
    BY <2>2, <2>3
<1>12. CASE Sync(u)
  BY <1>12 DEF Sync
<1>13. CASE SyncUse(u)
  BY <1>13 DEF SyncUse
<1>14. CASE UnmapBar(u)
  BY <1>14 DEF UnmapBar
<1>15. CASE Delete(u)
  BY <1>15 DEF Delete
<1>16. CASE Find(u)
  BY <1>16 DEF Find
<1>17. CASE FreeDma(u)
  BY <1>17 DEF FreeDma
<1>18. CASE FreeUnlink(u)
  BY <1>18 DEF FreeUnlink
<1>. QED
  BY <1>1, <1>2, <1>3, <1>4, <1>5, <1>6, <1>7, <1>8, <1>9, <1>10, <1>11, <1>12, <1>13, <1>14, <1>15, <1>16, <1>17, <1>18 DEF Call, Step

\* A new entry gets a new id, and an address that nobody has.
LEMMA ApartStep ==
    ASSUME Typing, \A t \in Threads : Excluded(t), Core, ~crossed', NEW u \in Threads, Call(u) \/ Step(u)
    PROVE  Apart'
<1>. USE ThreadsAssumption, ProcAssumption, MaxIdsAssumption DEF lists, modes, locals, vars, Set, Goto, Threads, Ids, NoId, Typing, Core, Apart
<1>1. CASE Alloc(u)
  <2>1. u \in BufThreads /\ pc[u] = "idle" /\ kmemCount \in Ids /\ ~crossed
    BY <1>1 DEF Alloc
  <2>2. CASE UNCHANGED <<address, handle, pc>>
    BY <2>2
  <2>3. ASSUME NEW a \in FreeAddresses, address' = Set(address, kmemCount, a),
               crossed' = (crossed \/ GivenOutEarly(a)),
               handle' = Set(handle, u, kmemCount), pc' = Set(pc, u, "link")
        PROVE  Apart'
    <3>1. ASSUME NEW t \in BufThreads, t # u, pc[t] # "idle"
          PROVE  /\ pc'[t] = pc[t] /\ handle'[t] = handle[t] /\ handle[t] # kmemCount
                 /\ address'[handle[t]] = address[handle[t]] /\ address[handle[t]] # a
      <4>1. Owns(t)
        BY <3>1 DEF InPlace
      <4>2. handle[t] \in Ids /\ handle[t] # kmemCount
        BY <2>1, <4>1 DEF Owns
      <4>3. CASE pc[t] = "unlink"
        <5>1. handle[t] \in ToSet(kmemList)
          BY <4>3, <3>1 DEF Listed
        <5>. QED
          BY <2>3, <3>1, <4>2, <5>1 DEF GivenOutEarly
      <4>4. CASE pc[t] # "unlink"
        <5>1. entry[handle[t]] = "live"
          BY <4>1, <4>4 DEF Owns
        <5>. QED
          BY <2>3, <3>1, <4>2, <5>1 DEF FreeAddresses
      <4>. QED
        BY <4>3, <4>4
    <3>2. handle'[u] = kmemCount /\ address'[kmemCount] = a
      BY <2>1, <2>3
    <3>3. ASSUME NEW t \in BufThreads, pc'[t] # "idle", t # u PROVE pc[t] # "idle"
      BY <2>3, <3>3
    <3>. SUFFICES ASSUME NEW t \in BufThreads, NEW v \in BufThreads, t # v,
                         pc'[t] # "idle", pc'[v] # "idle"
                  PROVE  handle'[t] # handle'[v] /\ address'[handle'[t]] # address'[handle'[v]]
      OBVIOUS
    <3>4. CASE t = u
      BY <3>1, <3>2, <3>3, <3>4
    <3>5. CASE v = u
      BY <3>1, <3>2, <3>3, <3>5
    <3>6. CASE t # u /\ v # u
      BY <3>1, <3>3, <3>6
    <3>. QED
      BY <3>4, <3>5, <3>6
  <2>. QED
    BY <1>1, <2>2, <2>3 DEF Alloc
<1>2. CASE AllocLink(u)
  BY <1>2 DEF AllocLink
<1>3. CASE MapBar(u)
  BY <1>3 DEF MapBar
<1>4. CASE Lock(u)
  BY <1>4 DEF Lock
<1>5. CASE SetMode(u)
  BY <1>5 DEF SetMode
<1>6. CASE SetArea(u)
  BY <1>6 DEF SetArea
<1>7. CASE MmapBar(u)
  <2>1. address' = address /\ \A t \in Threads : t # u => pc'[t] = pc[t] /\ handle'[t] = handle[t]
    BY <1>7 DEF MmapBar
  <2>2. u \in Threads /\ pc'[u] # "idle" => pc[u] # "idle" /\ handle'[u] = handle[u]
    BY <1>7 DEF MmapBar
  <2>3. \A t \in BufThreads : pc'[t] # "idle" => pc[t] # "idle" /\ handle'[t] = handle[t]
    BY <2>1, <2>2
  <2>. QED
    BY <2>1, <2>3
<1>8. CASE MmapPick(u)
  BY <1>8 DEF MmapPick
<1>9. CASE MmapEmpty(u)
  BY <1>9 DEF MmapEmpty
<1>10. CASE MmapUse(u)
  BY <1>10 DEF MmapUse
<1>11. CASE Unlock(u)
  BY <1>11 DEF Unlock
<1>12. CASE Sync(u)
  BY <1>12 DEF Sync
<1>13. CASE SyncUse(u)
  BY <1>13 DEF SyncUse
<1>14. CASE UnmapBar(u)
  BY <1>14 DEF UnmapBar
<1>15. CASE Delete(u)
  BY <1>15 DEF Delete
<1>16. CASE Find(u)
  <2>1. address' = address /\ \A t \in Threads : t # u => pc'[t] = pc[t] /\ handle'[t] = handle[t]
    BY <1>16 DEF Find
  <2>2. u \in Threads /\ pc'[u] # "idle" => pc[u] # "idle" /\ handle'[u] = handle[u]
    BY <1>16 DEF Find
  <2>3. \A t \in BufThreads : pc'[t] # "idle" => pc[t] # "idle" /\ handle'[t] = handle[t]
    BY <2>1, <2>2
  <2>. QED
    BY <2>1, <2>3
<1>17. CASE FreeDma(u)
  BY <1>17 DEF FreeDma
<1>18. CASE FreeUnlink(u)
  BY <1>18 DEF FreeUnlink
<1>. QED
  BY <1>1, <1>2, <1>3, <1>4, <1>5, <1>6, <1>7, <1>8, <1>9, <1>10, <1>11, <1>12, <1>13, <1>14, <1>15, <1>16, <1>17, <1>18 DEF Call, Step

\* Linking and unlinking.
LEMMA ListedStep ==
    ASSUME Typing, \A t \in Threads : Excluded(t), Core, ~crossed', NEW u \in Threads, Call(u) \/ Step(u)
    PROVE  Listed'
<1>. USE ThreadsAssumption, ProcAssumption, MaxIdsAssumption DEF lists, modes, locals, vars, Set, Goto, Threads, Ids, NoId, Typing, Core, Listed
<1>1. CASE Alloc(u)
  BY <1>1 DEF Alloc
<1>2. CASE AllocLink(u)
  <2>1. /\ kmemList' = Append(kmemList, handle[u]) /\ handle[u] \in Ids /\ pc[u] = "link"
        /\ handle' = handle /\ pc' = [pc EXCEPT ![u] = "lock"] /\ ~crossed
    BY <1>2 DEF AllocLink, Excluded
  <2>2. u \in BufThreads
    BY <2>1 DEF Excluded, BarPositions
  <2>3. handle[u] \notin ToSet(kmemList)
    <3>. SUFFICES ASSUME handle[u] \in ToSet(kmemList) PROVE FALSE
      OBVIOUS
    <3>1. PICK t \in BufThreads : pc[t] \notin {"idle", "link"} /\ handle[t] = handle[u]
      OBVIOUS
    <3>. QED
      BY <2>1, <2>2, <3>1 DEF Apart
  <2>4. ToSet(kmemList') = ToSet(kmemList) \cup {handle[u]} /\ IsInjective(kmemList')
    BY <2>1, <2>3, Linking
  <2>5. \A t \in BufThreads : t # u => pc'[t] = pc[t]
    BY <2>1
  <2>6. pc'[u] = "lock"
    BY <2>1
  <2>7. ASSUME NEW i \in ToSet(kmemList') PROVE \E t \in BufThreads : pc'[t] \notin {"idle", "link"} /\ handle'[t] = i
    <3>1. CASE i = handle[u]
      BY <2>1, <2>2, <2>6, <3>1
    <3>2. CASE i \in ToSet(kmemList)
      <4>1. PICK t \in BufThreads : pc[t] \notin {"idle", "link"} /\ handle[t] = i
        BY <3>2
      <4>. QED
        BY <2>1, <2>5, <4>1
    <3>. QED
      BY <2>4, <3>1, <3>2
  <2>8. ASSUME NEW t \in BufThreads, pc'[t] \notin {"idle", "link"} PROVE handle'[t] \in ToSet(kmemList')
    BY <2>1, <2>4, <2>5, <2>8
  <2>9. ToSet(kmemList)' = ToSet(kmemList')
    BY DEF ToSet
  <2>. QED
    BY <2>4, <2>7, <2>8, <2>9 DEF IsInjective
<1>3. CASE MapBar(u)
  BY <1>3 DEF MapBar
<1>4. CASE Lock(u)
  BY <1>4 DEF Lock
<1>5. CASE SetMode(u)
  BY <1>5 DEF SetMode
<1>6. CASE SetArea(u)
  BY <1>6 DEF SetArea
<1>7. CASE MmapBar(u)
  <2>1. /\ kmemList' = kmemList
        /\ \A t \in BufThreads : t # u => pc'[t] = pc[t] /\ handle'[t] = handle[t]
    BY <1>7 DEF MmapBar
  <2>2. u \in BufThreads => /\ pc[u] \notin {"idle", "link"} /\ pc'[u] \notin {"idle", "link"}
                            /\ handle'[u] = handle[u]
    BY <1>7, LookUp DEF MmapBar
  <2>3. \A t \in BufThreads : /\ pc'[t] \in {"idle", "link"} <=> pc[t] \in {"idle", "link"}
                              /\ pc[t] \notin {"idle", "link"} => handle'[t] = handle[t]
    BY <2>1, <2>2
  <2>. QED
    BY <2>1, <2>3
<1>8. CASE MmapPick(u)
  BY <1>8 DEF MmapPick
<1>9. CASE MmapEmpty(u)
  BY <1>9 DEF MmapEmpty
<1>10. CASE MmapUse(u)
  <2>1. /\ kmemList' = kmemList
        /\ \A t \in BufThreads : t # u => pc'[t] = pc[t] /\ handle'[t] = handle[t]
    BY <1>10 DEF MmapUse
  <2>2. u \in BufThreads => /\ pc[u] \notin {"idle", "link"} /\ pc'[u] \notin {"idle", "link"}
                            /\ handle'[u] = handle[u]
    BY <1>10, LookUp DEF MmapUse
  <2>3. \A t \in BufThreads : /\ pc'[t] \in {"idle", "link"} <=> pc[t] \in {"idle", "link"}
                              /\ pc[t] \notin {"idle", "link"} => handle'[t] = handle[t]
    BY <2>1, <2>2
  <2>. QED
    BY <2>1, <2>3
<1>11. CASE Unlock(u)
  <2>1. /\ kmemList' = kmemList
        /\ \A t \in BufThreads : t # u => pc'[t] = pc[t] /\ handle'[t] = handle[t]
    BY <1>11 DEF Unlock
  <2>2. u \in BufThreads => /\ pc[u] \notin {"idle", "link"} /\ pc'[u] \notin {"idle", "link"}
                            /\ handle'[u] = handle[u]
    BY <1>11, LookUp DEF Unlock
  <2>3. \A t \in BufThreads : /\ pc'[t] \in {"idle", "link"} <=> pc[t] \in {"idle", "link"}
                              /\ pc[t] \notin {"idle", "link"} => handle'[t] = handle[t]
    BY <2>1, <2>2
  <2>. QED
    BY <2>1, <2>3
<1>12. CASE Sync(u)
  BY <1>12 DEF Sync
<1>13. CASE SyncUse(u)
  BY <1>13 DEF SyncUse
<1>14. CASE UnmapBar(u)
  BY <1>14 DEF UnmapBar
<1>15. CASE Delete(u)
  BY <1>15 DEF Delete
<1>16. CASE Find(u)
  <2>1. /\ kmemList' = kmemList
        /\ \A t \in BufThreads : t # u => pc'[t] = pc[t] /\ handle'[t] = handle[t]
    BY <1>16 DEF Find
  <2>2. u \in BufThreads => /\ pc[u] \notin {"idle", "link"} /\ pc'[u] \notin {"idle", "link"}
                            /\ handle'[u] = handle[u]
    BY <1>16, LookUp DEF Find
  <2>3. \A t \in BufThreads : /\ pc'[t] \in {"idle", "link"} <=> pc[t] \in {"idle", "link"}
                              /\ pc[t] \notin {"idle", "link"} => handle'[t] = handle[t]
    BY <2>1, <2>2
  <2>. QED
    BY <2>1, <2>3
<1>17. CASE FreeDma(u)
  BY <1>17 DEF FreeDma
<1>18. CASE FreeUnlink(u)
  <2>1. pc[u] = "unlink" /\ u \in BufThreads /\ cur[u] = handle[u] /\ ~crossed /\ handle[u] \in ToSet(kmemList)
    BY <1>18 DEF FreeUnlink, Excluded, BarPositions, InPlace, Owns
  <2>2. handle' = [handle EXCEPT ![u] = NoId] /\ pc' = [pc EXCEPT ![u] = "idle"]
    BY <1>18 DEF FreeUnlink
  <2>3. PICK n \in DOMAIN kmemList : kmemList[n] = handle[u] /\ kmemList' = RemoveAt(kmemList, n)
    BY <1>18, <2>1 DEF FreeUnlink, Places, ToSet
  <2>4. ToSet(kmemList') = ToSet(kmemList) \ {handle[u]} /\ IsInjective(kmemList')
    BY <2>3, Unlinking
  <2>5. \A t \in BufThreads : t # u => pc'[t] = pc[t] /\ handle'[t] = handle[t]
    BY <2>2
  <2>6. pc'[u] = "idle"
    BY <2>2
  <2>7. ASSUME NEW i \in ToSet(kmemList') PROVE \E t \in BufThreads : pc'[t] \notin {"idle", "link"} /\ handle'[t] = i
    <3>1. PICK t \in BufThreads : pc[t] \notin {"idle", "link"} /\ handle[t] = i
      BY <2>4, <2>7
    <3>. QED
      BY <2>4, <2>5, <2>7, <3>1
  <2>8. ASSUME NEW t \in BufThreads, pc'[t] \notin {"idle", "link"} PROVE handle'[t] \in ToSet(kmemList')
    <3>1. t # u /\ pc[t] # "idle" /\ handle'[t] = handle[t] /\ handle[t] \in ToSet(kmemList)
      BY <2>5, <2>6, <2>8
    <3>2. handle[t] # handle[u]
      BY <2>1, <3>1 DEF Apart
    <3>. QED
      BY <2>4, <3>1, <3>2
  <2>9. ToSet(kmemList)' = ToSet(kmemList')
    BY DEF ToSet
  <2>. QED
    BY <2>4, <2>7, <2>8, <2>9 DEF IsInjective
<1>. QED
  BY <1>1, <1>2, <1>3, <1>4, <1>5, <1>6, <1>7, <1>8, <1>9, <1>10, <1>11, <1>12, <1>13, <1>14, <1>15, <1>16, <1>17, <1>18 DEF Call, Step

\* What others do does not touch the entry, the place in the list, the mode or the
\* area of a thread.
LEMMA InPlaceStep ==
    ASSUME Typing, \A t \in Threads : Excluded(t), Core, ~crossed', NEW t \in Threads, NEW u \in Threads, Call(u) \/ Step(u)
    PROVE  InPlace(t)'
<1>. USE ThreadsAssumption, ProcAssumption, MaxIdsAssumption DEF lists, modes, locals, vars, Set, Goto, Threads, Ids, NoId, Typing, Core, InPlace, Owns, Aims, Excluded
<1>1. CASE Alloc(u)
  <2>1. u \in BufThreads /\ pc[u] = "idle" /\ kmemCount \in Ids /\ kmemCount' = kmemCount + 1 /\ ~crossed
    BY <1>1 DEF Alloc
  <2>2. UNCHANGED <<kmemList, modes, cur, mapped, bar>>
    BY <1>1 DEF Alloc
  <2>3. /\ \A i \in Ids : i # kmemCount => entry'[i] = entry[i]
        /\ \A v \in Threads : v # u => pc'[v] = pc[v] /\ handle'[v] = handle[v]
    BY <1>1, <2>1 DEF Alloc
  <2>4. \/ pc'[u] = "idle" /\ handle'[u] = handle[u]
        \/ pc'[u] = "link" /\ handle'[u] = kmemCount /\ entry'[kmemCount] = "live"
    BY <1>1, <2>1 DEF Alloc
  <2>5. CASE t = u
    BY <2>1, <2>2, <2>4, <2>5
  <2>6. CASE t # u /\ t \in BufThreads /\ pc[t] # "idle"
    <3>1. handle[t] \in Ids /\ handle[t] # kmemCount
      BY <2>1, <2>6
    <3>. QED
      BY <2>1, <2>2, <2>3, <2>6, <3>1
  <2>7. CASE t # u /\ (t \notin BufThreads \/ pc[t] = "idle")
    BY <2>1, <2>2, <2>3, <2>7
  <2>. QED
    BY <2>5, <2>6, <2>7
<1>2. CASE AllocLink(u)
  <2>1. /\ kmemList' = Append(kmemList, handle[u]) /\ handle[u] \in Ids /\ pc[u] = "link"
        /\ pc' = [pc EXCEPT ![u] = "lock"] /\ ~crossed /\ ~Overtakes(u)
        /\ UNCHANGED <<kmemCount, address, entry, modes, locals>>
    BY <1>2 DEF AllocLink
  <2>2. u \in BufThreads
    BY <2>1 DEF BarPositions
  <2>3. kmemList' # <<>> /\ Last(kmemList') = handle[u]
    BY <2>1, Linking
  <2>4. CASE t = u
    BY <2>1, <2>2, <2>3, <2>4 DEF Last
  <2>5. CASE t # u /\ t \in BufThreads
    <3>1. pc[t] \notin {"lock", "setmode", "mmap"} /\ pc'[t] = pc[t]
      BY <2>1, <2>5 DEF Overtakes
    <3>. QED
      BY <2>1, <2>5, <3>1
  <2>6. CASE t \in BarThreads
    BY <2>1, <2>2, <2>6
  <2>. QED
    BY <2>4, <2>5, <2>6
<1>3. CASE MapBar(u)
  BY <1>3 DEF MapBar
<1>4. CASE Lock(u)
  BY <1>4 DEF Lock
<1>5. CASE SetMode(u)
  <2>1. ~crossed /\ ~Resets(u) /\ pc[u] \in Locked
    BY <1>5 DEF SetMode, Locked
  <2>2. CASE t = u
    BY <1>5, <2>1, <2>2 DEF SetMode
  <2>3. CASE t # u
    <3>1. pc[t] \notin {"setarea", "mmap"}
      <4>1. CASE Proc[t] = Proc[u]
        <5>1. mutex[Proc[u]] = {u} /\ (pc[t] \in Locked => mutex[Proc[t]] = {t})
          BY <2>1
        <5>2. pc[t] \notin Locked
          BY <2>3, <4>1, <5>1
        <5>. QED
          BY <5>2 DEF Locked
      <4>2. CASE Proc[t] # Proc[u]
        BY <2>1, <4>2 DEF Resets
      <4>. QED
        BY <4>1, <4>2
    <3>2. pc'[t] = pc[t] /\ UNCHANGED <<lists, locals>>
      BY <1>5, <2>3 DEF SetMode
    <3>. QED
      BY <3>1, <3>2
  <2>. QED
    BY <2>2, <2>3
<1>6. CASE SetArea(u)
  <2>1. ~crossed /\ ~Resets(u) /\ pc[u] \in Locked
    BY <1>6 DEF SetArea, Locked
  <2>2. CASE t = u
    BY <1>6, <2>1, <2>2 DEF SetArea
  <2>3. CASE t # u
    <3>1. pc[t] \notin {"setarea", "mmap"}
      <4>1. CASE Proc[t] = Proc[u]
        <5>1. mutex[Proc[u]] = {u} /\ (pc[t] \in Locked => mutex[Proc[t]] = {t})
          BY <2>1
        <5>2. pc[t] \notin Locked
          BY <2>3, <4>1, <5>1
        <5>. QED
          BY <5>2 DEF Locked
      <4>2. CASE Proc[t] # Proc[u]
        BY <2>1, <4>2 DEF Resets
      <4>. QED
        BY <4>1, <4>2
    <3>2. pc'[t] = pc[t] /\ UNCHANGED <<lists, locals>>
      BY <1>6, <2>3 DEF SetArea
    <3>. QED
      BY <3>1, <3>2
  <2>. QED
    BY <2>2, <2>3
<1>7. CASE MmapBar(u)
  BY <1>7 DEF MmapBar
<1>8. CASE MmapPick(u)
  BY <1>8 DEF MmapPick
<1>9. CASE MmapEmpty(u)
  BY <1>9 DEF MmapEmpty
<1>10. CASE MmapUse(u)
  BY <1>10 DEF MmapUse
<1>11. CASE Unlock(u)
  BY <1>11 DEF Unlock
<1>12. CASE Sync(u)
  <2>1. /\ u \in BufThreads /\ pc[u] = "have" /\ pc' = [pc EXCEPT ![u] = "sync"] /\ ~crossed
        /\ UNCHANGED <<lists, modes, handle, mapped, bar>>
    BY <1>12 DEF Sync
  <2>2. cur' = [cur EXCEPT ![u] = handle[u]]
    BY <1>12, <2>1, LookUp DEF Sync
  <2>. QED
    BY <2>1, <2>2
<1>13. CASE SyncUse(u)
  <2>1. /\ pc[u] = "sync" /\ pc' = [pc EXCEPT ![u] = "have"] /\ ~crossed
        /\ UNCHANGED <<lists, modes, handle, mapped, bar>> /\ cur' = [cur EXCEPT ![u] = NoId]
    BY <1>13 DEF SyncUse
  <2>2. u \in BufThreads
    BY <2>1 DEF BarPositions
  <2>. QED
    BY <2>1, <2>2
<1>14. CASE UnmapBar(u)
  BY <1>14 DEF UnmapBar
<1>15. CASE Delete(u)
  BY <1>15 DEF Delete
<1>16. CASE Find(u)
  <2>1. pc[u] = "find" /\ ~crossed /\ UNCHANGED <<lists, modes, mapped, bar>>
    BY <1>16 DEF Find
  <2>2. u \in BufThreads
    BY <2>1 DEF BarPositions
  <2>3. /\ cur' = [cur EXCEPT ![u] = handle[u]] /\ pc' = [pc EXCEPT ![u] = "dmafree"]
        /\ handle' = handle
    BY <1>16, <2>1, <2>2, LookUp DEF Find
  <2>. QED
    BY <2>1, <2>2, <2>3
<1>17. CASE FreeDma(u)
  <2>1. pc[u] = "dmafree" /\ ~crossed
    BY <1>17 DEF FreeDma
  <2>2. u \in BufThreads
    BY <2>1 DEF BarPositions
  <2>3. Owns(u) /\ cur[u] = handle[u]
    BY <2>1, <2>2 DEF Owns
  <2>4. /\ entry' = [entry EXCEPT ![handle[u]] = "dmafreed"] /\ pc' = [pc EXCEPT ![u] = "unlink"]
        /\ UNCHANGED <<kmemCount, kmemList, address, modes, locals>>
    BY <1>17, <2>1, <2>3 DEF FreeDma
  <2>5. CASE t = u
    BY <2>1, <2>2, <2>3, <2>4, <2>5
  <2>6. CASE t # u
    <3>1. pc'[t] = pc[t] /\ (t \in BufThreads /\ pc[t] # "idle" => handle[t] # handle[u])
      BY <2>1, <2>2, <2>4, <2>6 DEF Apart
    <3>. QED
      BY <2>4, <3>1
  <2>. QED
    BY <2>5, <2>6
<1>18. CASE FreeUnlink(u)
  <2>1. pc[u] = "unlink" /\ ~crossed
    BY <1>18 DEF FreeUnlink
  <2>2. u \in BufThreads
    BY <2>1 DEF BarPositions
  <2>3. Owns(u) /\ cur[u] = handle[u] /\ handle[u] \in ToSet(kmemList)
    BY <2>1, <2>2 DEF Owns, Listed
  <2>4. PICK n \in DOMAIN kmemList : kmemList[n] = handle[u] /\ kmemList' = RemoveAt(kmemList, n)
    BY <1>18, <2>3 DEF FreeUnlink, Places, ToSet
  <2>5. /\ entry' = [entry EXCEPT ![handle[u]] = "freed"] /\ pc' = [pc EXCEPT ![u] = "idle"]
        /\ handle' = [handle EXCEPT ![u] = NoId] /\ cur' = [cur EXCEPT ![u] = NoId]
        /\ UNCHANGED <<kmemCount, address, modes, mapped, bar>>
    BY <1>18, <2>3 DEF FreeUnlink
  <2>6. CASE t = u
    BY <2>2, <2>5, <2>6
  <2>7. CASE t # u /\ t \in BufThreads
    <3>1. pc'[t] = pc[t] /\ handle'[t] = handle[t] /\ cur'[t] = cur[t]
      BY <2>5, <2>7
    <3>2. pc[t] # "idle" => handle[t] # handle[u]
      BY <2>1, <2>2, <2>7 DEF Apart
    <3>3. pc[t] \in {"lock", "setmode", "mmap"} => kmemList' # <<>> /\ Last(kmemList') = handle[t]
      BY <2>4, <2>7, <3>2, Unlinking
    <3>4. Last(kmemList)' = Last(kmemList')
      BY DEF Last
    <3>. QED
      BY <2>5, <2>7, <3>1, <3>2, <3>3, <3>4
  <2>8. CASE t \in BarThreads
    BY <2>2, <2>5, <2>8
  <2>. QED
    BY <2>6, <2>7, <2>8
<1>. QED
  BY <1>1, <1>2, <1>3, <1>4, <1>5, <1>6, <1>7, <1>8, <1>9, <1>10, <1>11, <1>12, <1>13, <1>14, <1>15, <1>16, <1>17, <1>18 DEF Call, Step

\* Every entry that is used is live.
LEMMA FaultStep ==
    ASSUME Typing, \A t \in Threads : Excluded(t), Core, ~crossed', NEW u \in Threads, Call(u) \/ Step(u)
    PROVE  (~fault)'
<1>. USE ThreadsAssumption, ProcAssumption, MaxIdsAssumption DEF lists, modes, locals, vars, Set, Goto, Threads, Ids, NoId, Typing, Core
<1>1. CASE Alloc(u)
  BY <1>1 DEF Alloc
<1>2. CASE AllocLink(u)
  BY <1>2 DEF AllocLink
<1>3. CASE MapBar(u)
  BY <1>3 DEF MapBar
<1>4. CASE Lock(u)
  BY <1>4 DEF Lock
<1>5. CASE SetMode(u)
  BY <1>5 DEF SetMode
<1>6. CASE SetArea(u)
  BY <1>6 DEF SetArea
<1>7. CASE MmapBar(u)
  BY <1>7 DEF MmapBar
<1>8. CASE MmapPick(u)
  BY <1>8 DEF MmapPick
<1>9. CASE MmapEmpty(u)
  BY <1>9 DEF MmapEmpty
<1>10. CASE MmapUse(u)
  BY <1>10 DEF MmapUse, InPlace, Owns, Aims
<1>11. CASE Unlock(u)
  BY <1>11 DEF Unlock
<1>12. CASE Sync(u)
  BY <1>12 DEF Sync
<1>13. CASE SyncUse(u)
  BY <1>13 DEF SyncUse, InPlace, Owns, Excluded, BarPositions
<1>14. CASE UnmapBar(u)
  BY <1>14 DEF UnmapBar
<1>15. CASE Delete(u)
  BY <1>15 DEF Delete
<1>16. CASE Find(u)
  BY <1>16 DEF Find
<1>17. CASE FreeDma(u)
  BY <1>17 DEF FreeDma, InPlace, Owns, Excluded, BarPositions
<1>18. CASE FreeUnlink(u)
  BY <1>18 DEF FreeUnlink, InPlace, Owns, Excluded, BarPositions
<1>. QED
  BY <1>1, <1>2, <1>3, <1>4, <1>5, <1>6, <1>7, <1>8, <1>9, <1>10, <1>11, <1>12, <1>13, <1>14, <1>15, <1>16, <1>17, <1>18 DEF Call, Step

-----------------------------------------------------------------------------
\* crossed is never taken back.
LEMMA CrossedStays ==
    ASSUME crossed, NEW u \in Threads, Call(u) \/ Step(u)
    PROVE  crossed'
BY DEF Call, Step, Alloc, AllocLink, MapBar, Lock, SetMode, SetArea, MmapBar, MmapPick, MmapEmpty,
       MmapUse, Unlock, Sync, SyncUse, UnmapBar, Delete, Find, FreeDma, FreeUnlink

\* IInv holds in every state.
THEOREM Invariance == Spec => []IInv
<1>1. Init => IInv
  <2>. SUFFICES ASSUME Init PROVE IInv
    OBVIOUS
  <2>1. /\ kmemCount \in 0 .. MaxIds /\ kmemList = <<>> /\ kmemList \in Seq(Ids)
        /\ ToSet(kmemList) = {} /\ IsInjective(kmemList)
    BY MaxIdsAssumption, EmptySeq DEF Init, ToSet, IsInjective
  <2>2. address \in [Ids -> Addresses \cup {NoId}]
    BY DEF Init
  <2>3. entry \in [Ids -> {"none", "live", "dmafreed", "freed"}] /\ sysfs \subseteq Ids
    BY DEF Init
  <2>4. mutex \in [Processes -> SUBSET Threads] /\ \A p \in Processes : mutex[p] = {}
    BY DEF Init
  <2>5. /\ pc \in [Threads -> Positions] /\ handle \in [Threads -> Ids \cup {NoId}]
        /\ cur \in [Threads -> Ids \cup {NoId}]
    BY DEF Init, Positions
  <2>6. /\ DOMAIN mapped = Threads /\ bar \in [Threads -> Bars \cup {FirstBar}]
        /\ mode \in {"PCI", "KMEM"} /\ area \in Bars \cup {FirstBar}
        /\ fault \in BOOLEAN /\ crossed \in BOOLEAN
    BY DEF Init
  <2>7. Typing
    BY <2>1, <2>2, <2>3, <2>4, <2>5, <2>6 DEF Typing
  <2>8. \A t \in Threads : Excluded(t) /\ InPlace(t)
    BY DEF Init, Excluded, Locked, BarPositions, InPlace, Aims, Threads
  <2>9. Apart /\ Listed /\ ~fault
    BY <2>1 DEF Init, Apart, Listed, Threads
  <2>. QED
    BY <2>7, <2>8, <2>9 DEF IInv, Core
<1>2. IInv /\ [Next]_vars => IInv'
  <2>1. ASSUME IInv, NEW u \in Threads, Call(u) \/ Step(u) PROVE IInv'
    <3>1. Typing /\ \A t \in Threads : Excluded(t)
      BY <2>1 DEF IInv
    <3>2. Typing' /\ \A t \in Threads : Excluded(t)'
      BY <2>1, <3>1, TypingStep, ExcludedStep
    <3>3. CASE crossed'
      BY <3>2, <3>3 DEF IInv
    <3>4. CASE ~crossed'
      <4>1. ~crossed
        BY <2>1, <3>4, CrossedStays
      <4>2. Core
        BY <2>1, <4>1 DEF IInv
      <4>3. Core'
        BY <2>1, <3>1, <3>4, <4>2, ApartStep, ListedStep, InPlaceStep, FaultStep DEF Core
      <4>. QED
        BY <3>2, <4>3 DEF IInv
    <3>. QED
      BY <3>3, <3>4
  <2>2. ASSUME IInv, UNCHANGED vars PROVE IInv'
    <3>1. UNCHANGED <<kmemCount, kmemList, address, entry, sysfs, mode, area, handle, cur, mapped,
                      bar, mutex, pc, fault, crossed>>
      BY <2>2 DEF vars, lists, modes, locals
    <3>2. Typing' /\ \A t \in Threads : Excluded(t)'
      BY <2>2, <3>1 DEF IInv, Typing, Excluded
    <3>3. Core => Core'
      BY <3>1 DEF Core, InPlace, Owns, Aims, Apart, Listed, ToSet, IsInjective, Last
    <3>. QED
      BY <2>2, <3>1, <3>2, <3>3 DEF IInv
  <2>. QED
    BY <2>1, <2>2 DEF Next
<1>. QED
  BY <1>1, <1>2, PTL DEF Spec

\* Type correctness; a mutex has one holder at most.
THEOREM TypeCorrect == Spec => []TypeOK
<1>1. IInv => TypeOK
  <2>. SUFFICES ASSUME IInv PROVE TypeOK
    OBVIOUS
  <2>1. ASSUME NEW p \in Processes PROVE Cardinality(mutex[p]) <= 1
    <3>1. mutex[p] = {} \/ \E t \in Threads : mutex[p] = {t}
      BY DEF IInv, Typing
    <3>2. Cardinality({}) = 0 /\ \A t : Cardinality({t}) = 1
      BY FS_EmptySet, FS_Singleton
    <3>. QED
      BY <3>1, <3>2
  <2>. QED
    BY <2>1 DEF IInv, Typing, TypeOK
<1>. QED
  BY <1>1, Invariance, PTL

\* Every finished mapping is the one its thread asked for, however many threads
\* map, until the list, mode or area are changed between its steps
\* (PciDevice.cpp:288-298, KernelMemory.cpp:55-70, base.c:589-597).
THEOREM MapsRight == Spec => []MapsAsAsked
<1>1. IInv => MapsAsAsked
  <2>. SUFFICES ASSUME IInv, ~crossed PROVE
         /\ \A t \in BarThreads : pc[t] = "have" => mapped[t] = <<"bar", bar[t]>>
         /\ \A t \in BufThreads : pc[t] = "have" => mapped[t] = <<"kmem", handle[t]>>
    BY DEF MapsAsAsked, MapsOwnBuffer
  <2>. QED
    BY DEF IInv, Core, InPlace, Aims, Owns, Threads
<1>. QED
  BY <1>1, Invariance, PTL

\* Nothing is used after it was freed by threads that free what they allocated,
\* up to the same condition (kmem.c:126-171).
THEOREM NothingUsedFreed == Spec => []NoUseAfterFree
<1>1. IInv => NoUseAfterFree
  BY DEF IInv, Core, NoUseAfterFree
<1>. QED
  BY <1>1, Invariance, PTL

\* Between calls the list is that of the buffers there are (kmem.c:75-77,
\* 163-166).
THEOREM ListKept == Spec => []NothingLost
<1>1. IInv => NothingLost
  <2>. SUFFICES ASSUME IInv, ~crossed, \A t \in Threads : pc[t] \in {"idle", "have"}
                PROVE  ToSet(kmemList) = {handle[t] : t \in BufThreads} \ {NoId} /\ IsInjective(kmemList)
    BY DEF NothingLost
  <2>1. Listed /\ Typing /\ \A t \in BufThreads : pc[t] = "idle" => handle[t] = NoId
    BY DEF IInv, Core, InPlace, Threads
  <2>2. \A i \in ToSet(kmemList) : i \in Ids
    BY <2>1, LenProperties, ElementOfSeq DEF Typing, ToSet
  <2>3. \A i \in Ids : i # NoId
    BY MaxIdsAssumption DEF Ids, NoId
  <2>4. ASSUME NEW i \in ToSet(kmemList) PROVE i \in {handle[t] : t \in BufThreads} \ {NoId}
    BY <2>1, <2>2, <2>3 DEF Listed
  <2>5. ASSUME NEW t \in BufThreads, handle[t] # NoId PROVE handle[t] \in ToSet(kmemList)
    BY <2>1, <2>5 DEF Listed, Threads
  <2>. QED
    BY <2>1, <2>4, <2>5 DEF Listed
<1>. QED
  BY <1>1, Invariance, PTL
=============================================================================

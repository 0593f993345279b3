-------------------------- MODULE UserMemory_proofs --------------------------
(***************************************************************************)
(* Proofs about UserMemory, for any number of threads that map buffers     *)
(* which may overlap, any number of writers of umem_unmap and any bound on *)
(* the entries.                                                            *)
(*                                                                         *)
(* Up to a use of freed memory the entries, the list and the positions of  *)
(* the threads determine each other (Placed, Entered, Owned); references   *)
(* are then counted, and locks follow from whose buffer a page lies in.    *)
(***************************************************************************)
EXTENDS UserMemory, FiniteSetTheorems, TLAPS

\* TypeOK but for the sign of the references, which is a matter of counting.
Typing ==
    /\ locked \subseteq Pages
    /\ refs \in [Pages -> Int]
    /\ umemCount \in 0 .. MaxIds
    /\ umemList \subseteq Ids
    /\ entry \in [Ids -> {"none", "live", "released", "freed"}]
    /\ pages \in [Ids -> SUBSET Pages]
    /\ files \subseteq Ids
    /\ pc \in [Threads -> Positions]
    /\ handle \in [Threads -> Ids \cup {NoId}]
    /\ cur \in [Threads -> Ids \cup {NoId}]
    /\ got \in [Threads -> SUBSET Pages]
    /\ fault \in BOOLEAN

\* Positions of a thread that owns an entry, from the one that links it to the
\* one that gives back its pages.
Owning == {"link", "sgget", "copy", "have", "sync", "find", "release"}

\* What a thread holds at its position.
Placed(t) ==
    /\ t \in Cleaners => pc[t] \in {"idle", "find", "release", "unlink"}
    /\ pc[t] \notin {"got", "locked", "undo"} => got[t] = {}
    /\ t \in Mappers => got[t] \subseteq Buf[t]
    /\ pc[t] = "link" => handle[t] \in Ids /\ entry[handle[t]] = "live"
    /\ pc[t] = "release" => cur[t] \in Ids /\ (cur[t] \in umemList \/ entry[cur[t]] = "freed")
    /\ pc[t] = "unlink" => cur[t] \in Ids /\ entry[cur[t]] \in {"released", "freed"}

\* A mapper's handle, while it owns it.
Owned(t) ==
    t \in Mappers /\ pc[t] \in Owning =>
        /\ handle[t] \in Ids /\ handle[t] < umemCount
        /\ pages[handle[t]] \subseteq Buf[t]
        /\ pc[t] = "release" => cur[t] = handle[t]

\* Handles differ, and a live entry is the handle of some mapper.
Entered ==
    /\ \A i \in Ids : i >= umemCount => entry[i] = "none"
    /\ \A t, u \in Mappers : pc[t] \in Owning /\ pc[u] \in Owning /\ handle[t] = handle[u] => t = u
    /\ \A i \in Live : \E t \in Mappers : pc[t] \in Owning /\ handle[t] = i

\* The list, said of each entry.
InList(i) ==
    i \in umemList <=> /\ entry[i] \in {"live", "released"}
                       /\ \A t \in Threads : pc[t] = "link" => handle[t] # i

Listing ==
    /\ \A i \in Ids : InList(i)
    /\ files = Live
    /\ \A i \in Ids : entry[i] = "released" => \E t \in Threads : pc[t] = "unlink" /\ cur[t] = i

\* Locks that nobody shares.
LockedAhead == \A t \in Mappers : pc[t] = "locked" => got[t] \ SharedPages \subseteq locked

Core ==
    /\ \A t \in Threads : Placed(t) /\ Owned(t)
    /\ Entered
    /\ Listing

IInv ==
    /\ Typing
    /\ ~fault => Core
    /\ PinsExact
    /\ LockedUnlessShared
    /\ ~fault => LockedAhead

-----------------------------------------------------------------------------

\* Types.
LEMMA TypingStep ==
    ASSUME Typing, ~fault => Core, NEW u \in Threads, Call(u) \/ Step(u)
    PROVE  Typing'
<1>. USE ThreadsAssumption, BoundAssumption, BufAssumption DEF memory, lists, vars, Set, Goto, Threads, Ids, NoId, Typing, Positions, Get, Put, Listed
<1>1. CASE GetPages(u)
  BY <1>1 DEF GetPages
<1>2. CASE LockPages(u)
  BY <1>2 DEF LockPages
<1>3. CASE AddEntry(u)
  <2>1. umemCount \in Ids /\ umemCount + 1 \in 0 .. MaxIds
    BY <1>3 DEF AddEntry
  <2>2. pc[u] = "locked" /\ UNCHANGED <<locked, refs, umemList, cur, fault>>
    BY <1>3 DEF AddEntry
  <2>3. \/ pc' = [pc EXCEPT ![u] = "link"]
        \/ pc' = [pc EXCEPT ![u] = "undo"]
    BY <1>3 DEF AddEntry
  <2>4. pc' \in [Threads -> Positions]
    BY <2>3
  <2>5. CASE pc' = [pc EXCEPT ![u] = "link"]
    <3>1. pc'[u] = "link"
      BY <2>5
    <3>2. /\ umemCount' = umemCount + 1
          /\ entry' = [entry EXCEPT ![umemCount] = "live"]
          /\ pages' = [pages EXCEPT ![umemCount] = got[u]]
          /\ files' = files \cup {umemCount}
          /\ handle' = [handle EXCEPT ![u] = umemCount]
          /\ got' = [got EXCEPT ![u] = {}]
      BY <1>3, <3>1 DEF AddEntry
    <3>3. entry' \in [Ids -> {"none", "live", "released", "freed"}]
      BY <2>1, <3>2
    <3>4. pages' \in [Ids -> SUBSET Pages]
      BY <2>1, <3>2
    <3>5. handle' \in [Threads -> Ids \cup {NoId}]
      BY <2>1, <3>2
    <3>6. got' \in [Threads -> SUBSET Pages]
      BY <3>2
    <3>7. umemCount' \in 0 .. MaxIds /\ files' \subseteq Ids
      BY <2>1, <3>2
    <3>. QED
      BY <2>2, <2>4, <3>3, <3>4, <3>5, <3>6, <3>7
  <2>6. CASE pc' = [pc EXCEPT ![u] = "undo"]
    <3>1. pc'[u] = "undo"
      BY <2>6
    <3>2. /\ umemCount' \in {umemCount, umemCount + 1}
          /\ UNCHANGED <<entry, pages, files, handle, got>>
      BY <1>3, <3>1 DEF AddEntry
    <3>3. umemCount' \in 0 .. MaxIds
      BY <2>1, <3>2
    <3>. QED
      BY <2>2, <2>4, <3>2, <3>3
  <2>. QED
    BY <2>3, <2>5, <2>6
<1>4. CASE Link(u)
  BY <1>4 DEF Link, Core, Placed
<1>5. CASE Undo(u)
  BY <1>5 DEF Undo
<1>6. CASE SgGet(u)
  BY <1>6 DEF SgGet
<1>7. CASE SgCopy(u)
  BY SMTT(30), <1>7 DEF SgCopy
<1>8. CASE Sync(u)
  BY <1>8 DEF Sync
<1>9. CASE SyncUse(u)
  BY <1>9 DEF SyncUse
<1>10. CASE Delete(u)
  BY <1>10 DEF Delete
<1>11. CASE SysfsUnmap(u)
  BY <1>11 DEF SysfsUnmap
<1>12. CASE Find(u)
  BY <1>12 DEF Find
<1>13. CASE Release(u)
  <2>1. ~fault /\ pc[u] = "release" /\ cur[u] \in Ids
    BY <1>13 DEF Release, Core, Placed
  <2>2. locked' \subseteq Pages /\ files' \subseteq Ids
    BY <1>13 DEF Release
  <2>6. refs' \in [Pages -> Int]
    <3>1. refs' = [p \in Pages |-> IF p \in pages[cur[u]] THEN refs[p] - 1 ELSE refs[p]]
      BY <1>13 DEF Release
    <3>. QED
      BY <3>1
  <2>3. entry' \in [Ids -> {"none", "live", "released", "freed"}]
    BY <1>13, <2>1 DEF Release
  <2>4. fault' \in BOOLEAN
    <3>1. fault' = (fault \/ entry[cur[u]] # "live")
      BY <1>13 DEF Release
    <3>. QED
      BY <2>1, <3>1
  <2>5. pc' \in [Threads -> Positions]
    BY <1>13 DEF Release
  <2>. QED
    BY <1>13, <2>2, <2>3, <2>4, <2>5, <2>6 DEF Release
<1>14. CASE Unlink(u)
  BY <1>14 DEF Unlink
<1>. QED
  BY <1>1, <1>2, <1>3, <1>4, <1>5, <1>6, <1>7, <1>8, <1>9, <1>10, <1>11, <1>12, <1>13, <1>14 DEF Call, Step

\* What each thread holds at its position.
LEMMA PlacedStep ==
    ASSUME Typing, Core, NEW t \in Threads, ~fault', NEW u \in Threads, Call(u) \/ Step(u)
    PROVE  Placed(t)'
<1>. USE ThreadsAssumption, BoundAssumption, BufAssumption DEF memory, lists, vars, Set, Goto, Threads, Ids, NoId, Typing, Core, Listed, Positions, Placed
<1>1. CASE GetPages(u)
  BY <1>1 DEF GetPages
<1>2. CASE LockPages(u)
  BY <1>2 DEF LockPages
<1>3. CASE AddEntry(u)
  BY <1>3 DEF AddEntry, Entered, Listing, InList, Live
<1>4. CASE Link(u)
  BY <1>4 DEF Link, Listing, InList, Owned, Owning, Entered, Live
<1>5. CASE Undo(u)
  BY <1>5 DEF Undo
<1>6. CASE SgGet(u)
  <2>1. /\ entry' = entry /\ umemList' = umemList /\ got' = got
        /\ \A v \in Threads \ {u} : pc'[v] = pc[v] /\ handle'[v] = handle[v] /\ cur'[v] = cur[v]
    BY <1>6 DEF SgGet
  <2>2. CASE t # u
    BY <2>1, <2>2
  <2>3. CASE t = u
    BY SMTT(30), <1>6, <2>1, <2>3 DEF SgGet
  <2>. QED
    BY <2>2, <2>3
<1>7. CASE SgCopy(u)
  BY SMTT(30), <1>7 DEF SgCopy
<1>8. CASE Sync(u)
  BY <1>8 DEF Sync
<1>9. CASE SyncUse(u)
  BY <1>9 DEF SyncUse
<1>10. CASE Delete(u)
  BY <1>10 DEF Delete
<1>11. CASE SysfsUnmap(u)
  BY <1>11 DEF SysfsUnmap
<1>12. CASE Find(u)
  <2>1. /\ entry' = entry /\ umemList' = umemList /\ got' = got
        /\ \A v \in Threads \ {u} : pc'[v] = pc[v] /\ handle'[v] = handle[v] /\ cur'[v] = cur[v]
    BY <1>12 DEF Find
  <2>2. CASE t # u
    BY <2>1, <2>2
  <2>3. CASE t = u
    <3>1. pc[t] = "find" /\ pc'[t] \in {"release", "idle"}
      BY <1>12, <2>3 DEF Find
    <3>2. got'[t] = {}
      BY <2>1, <3>1
    <3>3. pc'[t] = "release" => cur'[t] \in umemList /\ cur'[t] \in Ids
      BY <1>12, <2>3 DEF Find
    <3>. QED
      BY <2>1, <3>1, <3>2, <3>3
  <2>. QED
    BY <2>2, <2>3
<1>13. CASE Release(u)
  BY <1>13 DEF Release, Owned, Owning, Listing, InList
<1>14. CASE Unlink(u)
  BY <1>14 DEF Unlink, Listing, InList, Live
<1>. QED
  BY <1>1, <1>2, <1>3, <1>4, <1>5, <1>6, <1>7, <1>8, <1>9, <1>10, <1>11, <1>12, <1>13, <1>14 DEF Call, Step

\* Owners keep their handles.
LEMMA OwnedStep ==
    ASSUME Typing, Core, NEW t \in Threads, ~fault', NEW u \in Threads, Call(u) \/ Step(u)
    PROVE  Owned(t)'
<1>. USE ThreadsAssumption, BoundAssumption, BufAssumption DEF memory, lists, vars, Set, Goto, Threads, Ids, NoId, Typing, Core, Listed, Placed, Owned, Owning
<1>1. CASE GetPages(u)
  BY <1>1 DEF GetPages
<1>2. CASE LockPages(u)
  BY <1>2 DEF LockPages
<1>3. CASE AddEntry(u)
  BY <1>3 DEF AddEntry
<1>4. CASE Link(u)
  BY <1>4 DEF Link
<1>5. CASE Undo(u)
  BY <1>5 DEF Undo
<1>6. CASE SgGet(u)
  BY <1>6 DEF SgGet
<1>7. CASE SgCopy(u)
  BY SMTT(30), <1>7 DEF SgCopy
<1>8. CASE Sync(u)
  BY <1>8 DEF Sync
<1>9. CASE SyncUse(u)
  BY <1>9 DEF SyncUse
<1>10. CASE Delete(u)
  BY <1>10 DEF Delete
<1>11. CASE SysfsUnmap(u)
  BY <1>11 DEF SysfsUnmap
<1>12. CASE Find(u)
  BY <1>12 DEF Find, Listing, InList
<1>13. CASE Release(u)
  BY <1>13 DEF Release
<1>14. CASE Unlink(u)
  BY <1>14 DEF Unlink
<1>. QED
  BY <1>1, <1>2, <1>3, <1>4, <1>5, <1>6, <1>7, <1>8, <1>9, <1>10, <1>11, <1>12, <1>13, <1>14 DEF Call, Step

\* A new entry gets an id nobody has; an owner leaves when its entry is not live.
LEMMA EnteredStep ==
    ASSUME Typing, Core, ~fault', NEW u \in Threads, Call(u) \/ Step(u)
    PROVE  Entered'
<1>. USE ThreadsAssumption, BoundAssumption, BufAssumption DEF memory, lists, vars, Set, Goto, Threads, Ids, NoId, Typing, Core, Listed, Owning, Entered, Live
<1>1. CASE GetPages(u)
  <2>1. /\ entry' = entry /\ umemCount' = umemCount
        /\ \A t \in Mappers : /\ pc'[t] \in Owning <=> pc[t] \in Owning
                             /\ handle'[t] = handle[t]
    BY <1>1 DEF GetPages
  <2>2. \A i \in Ids : i >= umemCount' => entry'[i] = "none"
    BY <2>1
  <2>3. ASSUME NEW i \in Live' PROVE \E t \in Mappers : pc'[t] \in Owning /\ handle'[t] = i
    <3>1. PICK t \in Mappers : pc[t] \in Owning /\ handle[t] = i
      BY <2>1
    <3>. QED
      BY <2>1, <3>1
  <2>4. ASSUME NEW t \in Mappers, NEW v \in Mappers, pc'[t] \in Owning, pc'[v] \in Owning,
               handle'[t] = handle'[v]
        PROVE  t = v
    BY <2>1, <2>4
  <2>. QED
    BY <2>2, <2>3, <2>4
<1>2. CASE LockPages(u)
  <2>1. /\ entry' = entry /\ umemCount' = umemCount
        /\ \A t \in Mappers : /\ pc'[t] \in Owning <=> pc[t] \in Owning
                             /\ handle'[t] = handle[t]
    BY <1>2 DEF LockPages
  <2>2. \A i \in Ids : i >= umemCount' => entry'[i] = "none"
    BY <2>1
  <2>3. ASSUME NEW i \in Live' PROVE \E t \in Mappers : pc'[t] \in Owning /\ handle'[t] = i
    <3>1. PICK t \in Mappers : pc[t] \in Owning /\ handle[t] = i
      BY <2>1
    <3>. QED
      BY <2>1, <3>1
  <2>4. ASSUME NEW t \in Mappers, NEW v \in Mappers, pc'[t] \in Owning, pc'[v] \in Owning,
               handle'[t] = handle'[v]
        PROVE  t = v
    BY <2>1, <2>4
  <2>. QED
    BY <2>2, <2>3, <2>4
<1>3. CASE AddEntry(u)
  <2>1. umemCount \in Ids /\ u \in Mappers /\ pc[u] = "locked"
    BY <1>3 DEF AddEntry, Placed
  <2>2. CASE pc'[u] = "undo"
    <3>1. /\ entry' = entry /\ handle' = handle /\ pc' = [pc EXCEPT ![u] = "undo"]
          /\ umemCount' >= umemCount /\ umemCount' \in Nat
      BY SMTT(30), <1>3, <2>1, <2>2 DEF AddEntry
    <3>2. \A t \in Mappers : pc'[t] \in Owning <=> pc[t] \in Owning
      BY <2>1, <3>1
    <3>. QED
      BY <2>1, <3>1, <3>2
  <2>3. CASE pc'[u] = "link"
    <3>1. /\ entry' = [entry EXCEPT ![umemCount] = "live"] /\ umemCount' = umemCount + 1
          /\ handle' = [handle EXCEPT ![u] = umemCount] /\ pc' = [pc EXCEPT ![u] = "link"]
      BY <1>3, <2>1, <2>3 DEF AddEntry
    <3>2. \A t \in Mappers : pc[t] \in Owning => t # u /\ handle[t] # umemCount
      BY <2>1 DEF Owned
    <3>3. \A i \in Ids : i >= umemCount' => entry'[i] = "none"
      BY <2>1, <3>1
    <3>4. \A i \in Live' : i # umemCount => i \in Live
      BY <2>1, <3>1
    <3>5. ASSUME NEW i \in Live' PROVE \E t \in Mappers : pc'[t] \in Owning /\ handle'[t] = i
      <4>1. CASE i = umemCount
        BY <2>1, <3>1, <4>1
      <4>2. CASE i # umemCount
        BY <2>1, <3>1, <3>2, <3>4, <4>2, <3>5
      <4>. QED
        BY <4>1, <4>2
    <3>6. ASSUME NEW t \in Mappers, NEW v \in Mappers, pc'[t] \in Owning, pc'[v] \in Owning,
                 handle'[t] = handle'[v]
          PROVE  t = v
      BY <2>1, <3>1, <3>2, <3>6
    <3>. QED
      BY <3>3, <3>5, <3>6
  <2>. QED
    BY <1>3, <2>1, <2>2, <2>3 DEF AddEntry
<1>4. CASE Link(u)
  BY <1>4 DEF Link
<1>5. CASE Undo(u)
  <2>1. /\ entry' = entry /\ umemCount' = umemCount
        /\ \A t \in Mappers : /\ pc'[t] \in Owning <=> pc[t] \in Owning
                             /\ handle'[t] = handle[t]
    BY <1>5 DEF Undo
  <2>2. \A i \in Ids : i >= umemCount' => entry'[i] = "none"
    BY <2>1
  <2>3. ASSUME NEW i \in Live' PROVE \E t \in Mappers : pc'[t] \in Owning /\ handle'[t] = i
    <3>1. PICK t \in Mappers : pc[t] \in Owning /\ handle[t] = i
      BY <2>1
    <3>. QED
      BY <2>1, <3>1
  <2>4. ASSUME NEW t \in Mappers, NEW v \in Mappers, pc'[t] \in Owning, pc'[v] \in Owning,
               handle'[t] = handle'[v]
        PROVE  t = v
    BY <2>1, <2>4
  <2>. QED
    BY <2>2, <2>3, <2>4
<1>6. CASE SgGet(u)
  <2>1. /\ entry' = entry /\ umemCount' = umemCount
        /\ \A t \in Mappers : /\ pc'[t] \in Owning <=> pc[t] \in Owning
                             /\ handle'[t] = handle[t]
    BY <1>6 DEF SgGet
  <2>2. \A i \in Ids : i >= umemCount' => entry'[i] = "none"
    BY <2>1
  <2>3. ASSUME NEW i \in Live' PROVE \E t \in Mappers : pc'[t] \in Owning /\ handle'[t] = i
    <3>1. PICK t \in Mappers : pc[t] \in Owning /\ handle[t] = i
      BY <2>1
    <3>. QED
      BY <2>1, <3>1
  <2>4. ASSUME NEW t \in Mappers, NEW v \in Mappers, pc'[t] \in Owning, pc'[v] \in Owning,
               handle'[t] = handle'[v]
        PROVE  t = v
    BY <2>1, <2>4
  <2>. QED
    BY <2>2, <2>3, <2>4
<1>7. CASE SgCopy(u)
  <2>1. /\ entry' = entry /\ umemCount' = umemCount
        /\ \A t \in Mappers : /\ pc'[t] \in Owning <=> pc[t] \in Owning
                             /\ handle'[t] = handle[t]
    BY SMTT(30), <1>7 DEF SgCopy
  <2>2. \A i \in Ids : i >= umemCount' => entry'[i] = "none"
    BY <2>1
  <2>3. ASSUME NEW i \in Live' PROVE \E t \in Mappers : pc'[t] \in Owning /\ handle'[t] = i
    <3>1. PICK t \in Mappers : pc[t] \in Owning /\ handle[t] = i
      BY <2>1
    <3>. QED
      BY <2>1, <3>1
  <2>4. ASSUME NEW t \in Mappers, NEW v \in Mappers, pc'[t] \in Owning, pc'[v] \in Owning,
               handle'[t] = handle'[v]
        PROVE  t = v
    BY <2>1, <2>4
  <2>. QED
    BY <2>2, <2>3, <2>4
<1>8. CASE Sync(u)
  <2>1. /\ entry' = entry /\ umemCount' = umemCount
        /\ \A t \in Mappers : /\ pc'[t] \in Owning <=> pc[t] \in Owning
                             /\ handle'[t] = handle[t]
    BY <1>8 DEF Sync
  <2>2. \A i \in Ids : i >= umemCount' => entry'[i] = "none"
    BY <2>1
  <2>3. ASSUME NEW i \in Live' PROVE \E t \in Mappers : pc'[t] \in Owning /\ handle'[t] = i
    <3>1. PICK t \in Mappers : pc[t] \in Owning /\ handle[t] = i
      BY <2>1
    <3>. QED
      BY <2>1, <3>1
  <2>4. ASSUME NEW t \in Mappers, NEW v \in Mappers, pc'[t] \in Owning, pc'[v] \in Owning,
               handle'[t] = handle'[v]
        PROVE  t = v
    BY <2>1, <2>4
  <2>. QED
    BY <2>2, <2>3, <2>4
<1>9. CASE SyncUse(u)
  <2>1. /\ entry' = entry /\ umemCount' = umemCount
        /\ \A t \in Mappers : /\ pc'[t] \in Owning <=> pc[t] \in Owning
                             /\ handle'[t] = handle[t]
    BY <1>9 DEF SyncUse
  <2>2. \A i \in Ids : i >= umemCount' => entry'[i] = "none"
    BY <2>1
  <2>3. ASSUME NEW i \in Live' PROVE \E t \in Mappers : pc'[t] \in Owning /\ handle'[t] = i
    <3>1. PICK t \in Mappers : pc[t] \in Owning /\ handle[t] = i
      BY <2>1
    <3>. QED
      BY <2>1, <3>1
  <2>4. ASSUME NEW t \in Mappers, NEW v \in Mappers, pc'[t] \in Owning, pc'[v] \in Owning,
               handle'[t] = handle'[v]
        PROVE  t = v
    BY <2>1, <2>4
  <2>. QED
    BY <2>2, <2>3, <2>4
<1>10. CASE Delete(u)
  <2>1. /\ entry' = entry /\ umemCount' = umemCount
        /\ \A t \in Mappers : /\ pc'[t] \in Owning <=> pc[t] \in Owning
                             /\ handle'[t] = handle[t]
    BY <1>10 DEF Delete
  <2>2. \A i \in Ids : i >= umemCount' => entry'[i] = "none"
    BY <2>1
  <2>3. ASSUME NEW i \in Live' PROVE \E t \in Mappers : pc'[t] \in Owning /\ handle'[t] = i
    <3>1. PICK t \in Mappers : pc[t] \in Owning /\ handle[t] = i
      BY <2>1
    <3>. QED
      BY <2>1, <3>1
  <2>4. ASSUME NEW t \in Mappers, NEW v \in Mappers, pc'[t] \in Owning, pc'[v] \in Owning,
               handle'[t] = handle'[v]
        PROVE  t = v
    BY <2>1, <2>4
  <2>. QED
    BY <2>2, <2>3, <2>4
<1>11. CASE SysfsUnmap(u)
  BY <1>11 DEF SysfsUnmap
<1>12. CASE Find(u)
  <2>1. /\ entry' = entry /\ umemCount' = umemCount
        /\ \A t \in Mappers : pc'[t] \in Owning => pc[t] \in Owning /\ handle'[t] = handle[t]
        /\ \A t \in Mappers \ {u} : pc[t] \in Owning => pc'[t] \in Owning /\ handle'[t] = handle[t]
    BY <1>12 DEF Find
  <2>2. ASSUME NEW i \in Live PROVE \E t \in Mappers : pc'[t] \in Owning /\ handle'[t] = i
    <3>1. PICK t \in Mappers : pc[t] \in Owning /\ handle[t] = i
      BY <2>2
    <3>2. CASE t # u
      BY <2>1, <3>1, <3>2
    <3>3. CASE t = u /\ Listed(handle[u])
      BY <1>12, <3>1, <3>3 DEF Find
    <3>4. CASE t = u /\ ~Listed(handle[u])
      <4>1. PICK v \in Threads : pc[v] = "link" /\ handle[v] = i
        BY <3>1, <3>4 DEF Listing, InList
      <4>2. v \in Mappers
        BY <4>1 DEF Placed
      <4>3. v = u
        BY <3>1, <3>4, <4>1, <4>2
      <4>. QED
        BY <1>12, <4>1, <4>3 DEF Find
    <3>. QED
      BY <3>2, <3>3, <3>4
  <2>3. \A i \in Live' : \E t \in Mappers : pc'[t] \in Owning /\ handle'[t] = i
    BY <2>1, <2>2
  <2>. QED
    BY <2>1, <2>3
<1>13. CASE Release(u)
  BY <1>13 DEF Release, Placed, Owned
<1>14. CASE Unlink(u)
  BY <1>14 DEF Unlink, Placed, Owned
<1>. QED
  BY <1>1, <1>2, <1>3, <1>4, <1>5, <1>6, <1>7, <1>8, <1>9, <1>10, <1>11, <1>12, <1>13, <1>14 DEF Call, Step

\* The list, the files and the threads that unlink.
LEMMA ListingStep ==
    ASSUME Typing, Core, ~fault', NEW u \in Threads, Call(u) \/ Step(u)
    PROVE  Listing'
<1>. USE ThreadsAssumption, BoundAssumption, BufAssumption DEF memory, lists, vars, Set, Goto, Threads, Ids, NoId, Typing, Core, Listed, Listing, InList, Live
<1>1. CASE GetPages(u)
  BY <1>1 DEF GetPages
<1>2. CASE LockPages(u)
  BY <1>2 DEF LockPages
<1>3. CASE AddEntry(u)
  <2>1. umemCount \in Ids /\ u \in Mappers /\ pc[u] = "locked" /\ entry[umemCount] = "none"
    <3>1. umemCount \in Ids /\ pc[u] = "locked"
      BY <1>3 DEF AddEntry
    <3>2. u \in Mappers
      BY <3>1 DEF Placed
    <3>3. entry[umemCount] = "none"
      BY <3>1 DEF Entered
    <3>. QED
      BY <3>1, <3>2, <3>3
  <2>2. CASE pc'[u] = "undo"
    BY SMTT(30), <1>3, <2>1, <2>2 DEF AddEntry
  <2>3. CASE pc'[u] = "link"
    <3>1. /\ entry' = [entry EXCEPT ![umemCount] = "live"] /\ files' = files \cup {umemCount}
          /\ handle' = [handle EXCEPT ![u] = umemCount] /\ pc' = [pc EXCEPT ![u] = "link"]
          /\ umemList' = umemList /\ cur' = cur
      BY <1>3, <2>1, <2>3 DEF AddEntry
    <3>2. \A t \in Threads : pc[t] = "link" => t # u /\ handle[t] # umemCount
      BY <2>1 DEF Placed
    <3>3. ASSUME NEW i \in Ids PROVE InList(i)'
      <4>1. CASE i = umemCount
        BY <2>1, <3>1, <4>1
      <4>2. CASE i # umemCount
        BY <2>1, <3>1, <3>2, <4>2
      <4>. QED
        BY <4>1, <4>2
    <3>4. files' = Live'
      BY <2>1, <3>1
    <3>5. ASSUME NEW i \in Ids, entry'[i] = "released" PROVE \E t \in Threads : pc'[t] = "unlink" /\ cur'[t] = i
      BY <2>1, <3>1, <3>5
    <3>. QED
      BY <3>3, <3>4, <3>5
  <2>. QED
    BY <1>3, <2>1, <2>2, <2>3 DEF AddEntry
<1>4. CASE Link(u)
  BY <1>4 DEF Link, Placed, Owned, Owning, Entered
<1>5. CASE Undo(u)
  BY <1>5 DEF Undo
<1>6. CASE SgGet(u)
  <2>1. /\ entry' = entry /\ umemList' = umemList /\ files' = files
        /\ \A t \in Threads : /\ pc'[t] = "link" <=> pc[t] = "link"
                              /\ pc[t] = "link" => handle'[t] = handle[t]
                              /\ pc[t] = "unlink" => pc'[t] = "unlink" /\ cur'[t] = cur[t]
    BY <1>6 DEF SgGet
  <2>2. \A i \in Ids : InList(i)'
    BY <2>1
  <2>3. files' = Live'
    BY <2>1
  <2>4. ASSUME NEW i \in Ids, entry'[i] = "released"
        PROVE  \E t \in Threads : pc'[t] = "unlink" /\ cur'[t] = i
    BY <2>1, <2>4
  <2>. QED
    BY <2>2, <2>3, <2>4
<1>7. CASE SgCopy(u)
  BY SMTT(30), <1>7 DEF SgCopy
<1>8. CASE Sync(u)
  BY <1>8 DEF Sync
<1>9. CASE SyncUse(u)
  BY <1>9 DEF SyncUse
<1>10. CASE Delete(u)
  BY <1>10 DEF Delete
<1>11. CASE SysfsUnmap(u)
  BY <1>11 DEF SysfsUnmap
<1>12. CASE Find(u)
  <2>1. /\ entry' = entry /\ umemList' = umemList /\ files' = files
        /\ \A t \in Threads : /\ pc'[t] = "link" <=> pc[t] = "link"
                              /\ pc[t] = "link" => handle'[t] = handle[t]
                              /\ pc[t] = "unlink" => pc'[t] = "unlink" /\ cur'[t] = cur[t]
    BY <1>12 DEF Find
  <2>2. \A i \in Ids : InList(i)'
    BY <2>1
  <2>3. files' = Live'
    BY <2>1
  <2>4. ASSUME NEW i \in Ids, entry'[i] = "released"
        PROVE  \E t \in Threads : pc'[t] = "unlink" /\ cur'[t] = i
    BY <2>1, <2>4
  <2>. QED
    BY <2>2, <2>3, <2>4
<1>13. CASE Release(u)
  BY <1>13 DEF Release, Placed, Owned, Owning, Entered
<1>14. CASE Unlink(u)
  BY <1>14 DEF Unlink, Placed
<1>. QED
  BY <1>1, <1>2, <1>3, <1>4, <1>5, <1>6, <1>7, <1>8, <1>9, <1>10, <1>11, <1>12, <1>13, <1>14 DEF Call, Step

-----------------------------------------------------------------------------
\* The two sets that PinsExact counts.
Mapped(p) == {i \in Live : p \in pages[i]}
Taking(p) == {t \in Threads : p \in got[t]}

\* Both are finite.
LEMMA CountsFinite ==
    ASSUME NEW p
    PROVE  /\ IsFiniteSet(Mapped(p)) /\ Cardinality(Mapped(p)) \in Nat
           /\ IsFiniteSet(Taking(p)) /\ Cardinality(Taking(p)) \in Nat
<1>1. IsFiniteSet(0 .. MaxIds - 1)
  BY BoundAssumption, FS_Interval
<1>2. IsFiniteSet(Threads)
  BY ThreadsAssumption, FS_Union DEF Threads
<1>3. Mapped(p) \subseteq 0 .. MaxIds - 1 /\ Taking(p) \subseteq Threads
  BY DEF Mapped, Live, Ids, Taking
<1>. QED
  BY <1>1, <1>2, <1>3, FS_Subset, FS_CardinalityType

\* One more, one less.
LEMMA CountsMove ==
    ASSUME NEW S, IsFiniteSet(S), Cardinality(S) \in Nat, NEW x
    PROVE  /\ x \notin S => Cardinality(S \cup {x}) = Cardinality(S) + 1
           /\ x \in S => Cardinality(S \ {x}) = Cardinality(S) - 1
BY FS_AddElement, FS_RemoveElement

\* Each step that takes or gives back a reference adds a page to a mapping or
\* takes it from one.
LEMMA PinsStep ==
    ASSUME Typing, Core, PinsExact, ~fault, ~fault', NEW u \in Threads, Call(u) \/ Step(u)
    PROVE  PinsExact'
<1>. SUFFICES ASSUME NEW p \in Pages
              PROVE  refs'[p] = Cardinality(Mapped(p)') + Cardinality(Taking(p)')
  BY DEF PinsExact, Mapped, Taking
<1>0. refs[p] = Cardinality(Mapped(p)) + Cardinality(Taking(p)) /\ refs[p] \in Int
  BY DEF PinsExact, Mapped, Taking, Typing
<1>u. Placed(u)
  BY DEF Core
<1>f. /\ IsFiniteSet(Mapped(p)) /\ Cardinality(Mapped(p)) \in Nat
      /\ IsFiniteSet(Taking(p)) /\ Cardinality(Taking(p)) \in Nat
  BY CountsFinite
<1>1. CASE UNCHANGED <<refs, entry, pages, got>>
  <2>1. Mapped(p)' = Mapped(p) /\ Taking(p)' = Taking(p)
    BY <1>1 DEF Mapped, Taking, Live
  <2>. QED
    BY <1>0, <1>1, <2>1
<1>2. CASE GetPages(u)
  <2>. PICK ps \in SUBSET Buf[u] : got' = Set(got, u, ps) /\ refs' = Get(ps)
    BY <1>2 DEF GetPages
  <2>1. Mapped(p)' = Mapped(p) /\ u \notin Taking(p)
    BY <1>2, <1>u DEF GetPages, Mapped, Taking, Live, Placed, lists, Goto
  <2>2. CASE p \in ps
    <3>1. Taking(p)' = Taking(p) \cup {u} /\ refs'[p] = refs[p] + 1
      BY <2>2 DEF Taking, Typing, Set, Get
    <3>. QED
      BY <1>0, <1>f, <2>1, <3>1, CountsMove
  <2>3. CASE p \notin ps
    <3>1. Taking(p)' = Taking(p) /\ refs'[p] = refs[p]
      BY <2>1, <2>3 DEF Taking, Typing, Set, Get
    <3>. QED
      BY <1>0, <2>1, <3>1
  <2>. QED
    BY <2>2, <2>3
<1>3. CASE AddEntry(u)
  <2>1. umemCount \in Ids /\ refs' = refs
    BY <1>3, BoundAssumption DEF AddEntry, Typing, Ids, memory
  <2>2. entry[umemCount] = "none"
    BY <2>1 DEF Core, Entered, Typing
  <2>3. CASE UNCHANGED <<entry, pages, got>>
    BY <1>1, <2>1, <2>3
  <2>4. CASE /\ entry' = Set(entry, umemCount, "live")
             /\ pages' = Set(pages, umemCount, got[u])
             /\ got' = Set(got, u, {})
    <3>1. umemCount \notin Mapped(p)
      BY <2>2 DEF Mapped, Live
    <3>2. CASE p \in got[u]
      <4>1. Taking(p)' = Taking(p) \ {u} /\ u \in Taking(p)
        BY <2>4, <3>2 DEF Taking, Typing, Set
      <4>2. Mapped(p)' = Mapped(p) \cup {umemCount}
        BY <2>1, <2>2, <2>4, <3>2 DEF Mapped, Live, Typing, Set
      <4>3. Cardinality(Taking(p)') = Cardinality(Taking(p)) - 1
        BY <1>f, <4>1, CountsMove
      <4>4. Cardinality(Mapped(p)') = Cardinality(Mapped(p)) + 1
        BY <1>f, <3>1, <4>2, CountsMove
      <4>. QED
        BY <1>0, <1>f, <2>1, <4>3, <4>4
    <3>3. CASE p \notin got[u]
      <4>1. Taking(p)' = Taking(p)
        BY <2>4, <3>3 DEF Taking, Typing, Set
      <4>2. Mapped(p)' = Mapped(p)
        BY <2>1, <2>2, <2>4, <3>3 DEF Mapped, Live, Typing, Set
      <4>. QED
        BY <1>0, <2>1, <4>1, <4>2
    <3>. QED
      BY <3>2, <3>3
  <2>. QED
    BY <1>3, <2>3, <2>4 DEF AddEntry
<1>4. CASE Undo(u)
  <2>1. /\ Mapped(p)' = Mapped(p)
        /\ got' = [got EXCEPT ![u] = {}]
        /\ refs' = [q \in Pages |-> IF q \in got[u] THEN refs[q] - 1 ELSE refs[q]]
    BY <1>4 DEF Undo, Mapped, Live, lists, Set, Put
  <2>2. CASE p \in got[u]
    <3>1. Taking(p)' = Taking(p) \ {u} /\ u \in Taking(p) /\ refs'[p] = refs[p] - 1
      BY <2>1, <2>2 DEF Taking, Typing
    <3>. QED
      BY <1>0, <1>f, <2>1, <3>1, CountsMove
  <2>3. CASE p \notin got[u]
    <3>1. Taking(p)' = Taking(p) /\ refs'[p] = refs[p]
      BY <2>1, <2>3 DEF Taking, Typing
    <3>. QED
      BY <1>0, <2>1, <3>1
  <2>. QED
    BY <2>2, <2>3
<1>5. CASE Release(u)
  <2>0. cur[u] \in Ids
    BY <1>5, <1>u DEF Release, Placed, Goto
  <2>1. /\ entry[cur[u]] = "live" /\ pages' = pages
        /\ entry' = [entry EXCEPT ![cur[u]] = "released"]
        /\ refs' = [q \in Pages |-> IF q \in pages[cur[u]] THEN refs[q] - 1 ELSE refs[q]]
        /\ got' = got
    BY <1>5 DEF Release, Set, Put
  <2>2. Taking(p)' = Taking(p)
    BY <2>1 DEF Taking
  <2>3. CASE p \in pages[cur[u]]
    <3>1. Mapped(p)' = Mapped(p) \ {cur[u]} /\ cur[u] \in Mapped(p) /\ refs'[p] = refs[p] - 1
      BY <2>0, <2>1, <2>3 DEF Mapped, Live, Typing
    <3>. QED
      BY <1>0, <1>f, <2>2, <3>1, CountsMove
  <2>4. CASE p \notin pages[cur[u]]
    <3>1. Mapped(p)' = Mapped(p) /\ refs'[p] = refs[p]
      BY <2>0, <2>1, <2>4 DEF Mapped, Live, Typing
    <3>. QED
      BY <1>0, <2>2, <3>1
  <2>. QED
    BY <2>3, <2>4
<1>6. CASE Unlink(u)
  <2>1. cur[u] \in Ids /\ entry[cur[u]] # "live"
    BY <1>6, <1>u DEF Unlink, Placed, Goto
  <2>2. Mapped(p)' = Mapped(p) /\ Taking(p)' = Taking(p) /\ refs' = refs
    BY <1>6, <2>1 DEF Unlink, Mapped, Taking, Live, Typing, Set, memory
  <2>. QED
    BY <1>0, <2>2
<1>. QED
  BY <1>1, <1>2, <1>3, <1>4, <1>5, <1>6
  DEF Call, Step, LockPages, Link, SgGet, SgCopy, Sync, SyncUse, Delete, SysfsUnmap, Find,
      memory, lists

\* A page that is unlocked belongs to the mapping that goes, and to another only
\* if the buffers overlap.
LEMMA LocksStep ==
    ASSUME Typing, Core, LockedUnlessShared, LockedAhead, ~fault, ~fault',
           NEW u \in Threads, Call(u) \/ Step(u)
    PROVE  LockedUnlessShared' /\ LockedAhead'
<1>. USE DEF Typing, Set, Goto
<1>o. \A i \in Live : \E t \in Mappers : /\ pc[t] \in Owning /\ handle[t] = i
                                        /\ pages[i] \subseteq Buf[t]
  BY DEF Core, Entered, Owned, Threads
<1>s. \A t, v \in Mappers : t # v => \A p \in Pages : p \in Buf[t] /\ p \in Buf[v] => p \in SharedPages
  BY DEF SharedPages
<1>u. Placed(u) /\ Owned(u)
  BY DEF Core
<1>1. CASE /\ UNCHANGED <<locked, pages>> /\ Live' \subseteq Live
           /\ \A t \in Mappers : pc'[t] = "locked" => pc[t] = "locked" /\ got'[t] = got[t]
  BY <1>1 DEF LockedUnlessShared, LockedAhead, SharedPages
<1>2. CASE LockPages(u)
  BY <1>2 DEF LockPages, LockedUnlessShared, LockedAhead, SharedPages, Live, lists, Threads
<1>3. CASE AddEntry(u)
  <2>1. umemCount \in Ids /\ u \in Mappers /\ pc[u] = "locked"
    BY <1>3, <1>u, BoundAssumption DEF AddEntry, Placed, Ids, Threads
  <2>2. CASE UNCHANGED <<entry, pages, got>>
    BY <1>1, <1>3, <2>2 DEF AddEntry, Live, memory, Threads
  <2>3. CASE /\ entry' = Set(entry, umemCount, "live")
             /\ pages' = Set(pages, umemCount, got[u])
             /\ got' = Set(got, u, {})
    <3>1. locked' = locked /\ \A i \in Live' : i # umemCount => i \in Live /\ pages'[i] = pages[i]
      BY <1>3, <2>1, <2>3 DEF AddEntry, Live, memory
    <3>2. pages'[umemCount] \ SharedPages \subseteq locked
      BY <2>1, <2>3 DEF LockedAhead
    <3>3. \A t \in Mappers : pc'[t] = "locked" => t # u /\ pc[t] = "locked" /\ got'[t] = got[t]
      BY <1>3, <2>1, <2>3 DEF AddEntry, Threads
    <3>. QED
      BY <3>1, <3>2, <3>3 DEF LockedUnlessShared, LockedAhead, SharedPages
  <2>. QED
    BY <1>3, <2>2, <2>3 DEF AddEntry
<1>4. CASE Undo(u)
  <2>1. u \in Mappers /\ got[u] \subseteq Buf[u] /\ got[u] \subseteq Pages /\ pc[u] = "undo"
    BY <1>4, <1>u DEF Undo, Placed, Threads
  <2>2. /\ locked' = locked \ got[u] /\ entry' = entry /\ pages' = pages
        /\ pc' = [pc EXCEPT ![u] = "idle"] /\ got' = [got EXCEPT ![u] = {}]
    BY <1>4 DEF Undo, lists
  <2>3. ASSUME NEW i \in Live PROVE pages[i] \ SharedPages \subseteq locked'
    <3>1. PICK t \in Mappers : pc[t] \in Owning /\ pages[i] \subseteq Buf[t]
      BY <1>o
    <3>2. t # u
      BY <2>1, <3>1 DEF Owning
    <3>. QED
      BY <1>s, <2>1, <2>2, <3>1, <3>2 DEF LockedUnlessShared
  <2>4. ASSUME NEW t \in Mappers, pc'[t] = "locked" PROVE got'[t] \ SharedPages \subseteq locked'
    <3>1. t # u /\ pc[t] = "locked" /\ got'[t] = got[t] /\ got[t] \subseteq Buf[t]
      BY <2>1, <2>2, <2>4 DEF Core, Placed, Threads
    <3>. QED
      BY <1>s, <2>1, <2>2, <3>1 DEF LockedAhead
  <2>. QED
    BY <2>2, <2>3, <2>4 DEF LockedUnlessShared, LockedAhead, SharedPages, Live
<1>5. CASE Release(u)
  <2>0. cur[u] \in Ids
    BY <1>5, <1>u DEF Release, Placed
  <2>1. /\ cur[u] \in Live /\ locked' = locked \ pages[cur[u]] /\ pages' = pages
        /\ entry' = [entry EXCEPT ![cur[u]] = "released"]
        /\ pc' = [pc EXCEPT ![u] = "unlink"] /\ got' = got
    BY <1>5, <2>0 DEF Release, Live
  <2>2. PICK v \in Mappers : pc[v] \in Owning /\ handle[v] = cur[u] /\ pages[cur[u]] \subseteq Buf[v]
    BY <1>o, <2>1
  <2>3. ASSUME NEW i \in Live' PROVE pages[i] \ SharedPages \subseteq locked'
    <3>1. i \in Live /\ i # cur[u]
      BY <2>0, <2>1 DEF Live
    <3>2. PICK t \in Mappers : pc[t] \in Owning /\ handle[t] = i /\ pages[i] \subseteq Buf[t]
      BY <1>o, <3>1
    <3>3. t # v
      BY <2>2, <3>1, <3>2
    <3>. QED
      BY <1>s, <2>1, <2>2, <3>1, <3>2, <3>3 DEF LockedUnlessShared
  <2>4. ASSUME NEW t \in Mappers, pc'[t] = "locked" PROVE got'[t] \ SharedPages \subseteq locked'
    <3>1. pc[t] = "locked" /\ got'[t] = got[t] /\ got[t] \subseteq Buf[t] /\ got[t] \subseteq Pages
      BY <2>1, <2>4 DEF Core, Placed, Threads
    <3>2. t # v
      BY <2>2, <3>1 DEF Owning
    <3>. QED
      BY <1>s, <2>1, <2>2, <3>1, <3>2 DEF LockedAhead
  <2>. QED
    BY <2>1, <2>3, <2>4 DEF LockedUnlessShared, LockedAhead, SharedPages
<1>6. CASE Unlink(u)
  BY <1>1, <1>6 DEF Unlink, Live, memory, Threads
<1>7. CASE GetPages(u)
  BY <1>1, <1>7 DEF GetPages, Live, lists, Threads
<1>. QED
  BY <1>1, <1>2, <1>3, <1>4, <1>5, <1>6, <1>7
  DEF Call, Step, Link, SgGet, SgCopy, Sync, SyncUse, Delete, SysfsUnmap, Find,
      memory, lists, Live, Threads

-----------------------------------------------------------------------------
\* IInv holds in every state.
THEOREM Invariance == Spec => []IInv
<1>1. Init => IInv
  <2>. SUFFICES ASSUME Init PROVE IInv
    OBVIOUS
  <2>1. Typing
    <3>1. locked \subseteq Pages /\ fault \in BOOLEAN /\ umemList \subseteq Ids /\ files \subseteq Ids
      BY DEF Init
    <3>5. refs \in [Pages -> Int]
      BY DEF Init
    <3>4. umemCount \in 0 .. MaxIds
      BY BoundAssumption DEF Init
    <3>2. /\ entry \in [Ids -> {"none", "live", "released", "freed"}]
          /\ pages \in [Ids -> SUBSET Pages]
          /\ got \in [Threads -> SUBSET Pages]
      BY DEF Init
    <3>3. pc \in [Threads -> Positions] /\ handle \in [Threads -> Ids \cup {NoId}]
          /\ cur \in [Threads -> Ids \cup {NoId}]
      BY DEF Init, Positions
    <3>. QED
      BY <3>1, <3>2, <3>3, <3>4, <3>5 DEF Typing
  <2>2. Live = {} /\ LockedUnlessShared /\ LockedAhead
    BY DEF Init, Live, LockedUnlessShared, LockedAhead, Threads
  <2>3. Core
    BY <2>2, BufAssumption
    DEF Init, Core, Placed, Owned, Owning, Entered, Listing, InList, Threads
  <2>4. ASSUME NEW p \in Pages PROVE refs[p] = Cardinality(Mapped(p)) + Cardinality(Taking(p))
    <3>1. Mapped(p) = {} /\ Taking(p) = {} /\ refs[p] = 0
      BY <2>2 DEF Init, Mapped, Taking
    <3>. QED
      BY <3>1, FS_EmptySet
  <2>. QED
    BY <2>1, <2>2, <2>3, <2>4 DEF IInv, PinsExact, Mapped, Taking
<1>2. IInv /\ [Next]_vars => IInv'
  <2>1. ASSUME IInv, NEW u \in Threads, Call(u) \/ Step(u) PROVE IInv'
    <3>1. ~fault
      BY <2>1
      DEF Call, Step, Goto, GetPages, LockPages, AddEntry, Link, Undo, SgGet, SgCopy, Sync,
          SyncUse, Delete, SysfsUnmap, Find, Release, Unlink
    <3>2. Typing /\ Core /\ PinsExact /\ LockedUnlessShared /\ LockedAhead
      BY <2>1, <3>1 DEF IInv
    <3>3. Typing'
      BY <2>1, <3>2, TypingStep
    <3>4. CASE fault'
      BY <3>3, <3>4 DEF IInv, PinsExact, LockedUnlessShared
    <3>5. CASE ~fault'
      <4>1. Core'
        BY <2>1, <3>2, <3>5, PlacedStep, OwnedStep, EnteredStep, ListingStep DEF Core
      <4>. QED
        BY <2>1, <3>1, <3>2, <3>3, <3>5, <4>1, PinsStep, LocksStep DEF IInv
    <3>. QED
      BY <3>4, <3>5
  <2>2. ASSUME IInv, UNCHANGED vars PROVE IInv'
    BY <2>2
    DEF IInv, vars, memory, lists, Typing, Core, Placed, Owned, Entered, Listing, InList, Live,
        PinsExact, LockedUnlessShared, LockedAhead
  <2>. QED
    BY <2>1, <2>2 DEF Next
<1>. QED
  BY <1>1, <1>2, PTL DEF Spec

\* Type correctness; references are not negative because they are counted.
THEOREM TypeCorrect == Spec => []TypeOK
<1>1. IInv => TypeOK
  <2>. SUFFICES ASSUME IInv PROVE TypeOK
    OBVIOUS
  <2>1. ASSUME ~fault, NEW p \in Pages PROVE refs[p] >= 0
    <3>1. refs[p] = Cardinality(Mapped(p)) + Cardinality(Taking(p))
      BY <2>1 DEF IInv, PinsExact, Mapped, Taking
    <3>. QED
      BY <3>1, CountsFinite
  <2>. QED
    BY <2>1 DEF IInv, Typing, TypeOK
<1>. QED
  BY <1>1, Invariance, PTL

\* Whatever fails and whoever unmaps, each page has one reference for each
\* mapping of it, and the list and the files are those of the mappings there
\* are, up to a use of freed memory (umem.c:85-222).
THEOREM MappingsCounted == Spec => []MappingsExact
<1>1. IInv => MappingsExact
  <2>. SUFFICES ASSUME IInv, ~fault PROVE ListExact
    BY DEF IInv, MappingsExact, ListExact
  <2>1. umemList \subseteq Ids /\ Listing
    BY DEF IInv, Typing, Core
  <2>. QED
    BY <2>1 DEF ListExact, Listing, InList
<1>. QED
  BY <1>1, Invariance, PTL

\* Pages that lie in no other buffer stay locked while their mapping lives
\* (umem.c:111-123, 202-205).
THEOREM LocksKept == Spec => []LockedUnlessShared
<1>1. IInv => LockedUnlessShared
  BY DEF IInv
<1>. QED
  BY <1>1, Invariance, PTL
=============================================================================

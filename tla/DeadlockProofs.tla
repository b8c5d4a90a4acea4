--------------------------- MODULE DeadlockProofs ---------------------------
(***************************************************************************)
(* Every mutex that is locked will be unlocked by its owner, and no set of *)
(* goroutines waits in a circle, for every number of handles, of requests  *)
(* and of cycles, if handles come and go between two transfers.            *)
(***************************************************************************)
EXTENDS HandleProofs, WellFoundedInduction

USE ThreadsAssumption, HandlesAssumption, OpsAssumption, NilAssumption

-----------------------------------------------------------------------------
(* No mutex is left locked.                                                *)

\* No mutex is locked at the start.
LEMMA LeaksInit == Init => NoLockLeaks
BY DEF Init, NoLockLeaks

\* The unlock of a request's own handle leaves every other mutex to its owner.
LEMMA OwnUnlockLeaks ==
    ASSUME TypeOK, LockInv, NoLockLeaks, NEW u \in Users, NEW step, at' = at, fhmap' = fhmap,
           HoldsOwn(u), pc[u] \notin DownloadSteps, req[u].h # Nil,
           ReleaseOwn(u, step), \A w \in Users : w # u => req'[w] = req[w]
    PROVE  NoLockLeaks'
<1>1. /\ mutex' = [mutex EXCEPT ![req[u].h] = Nil]
      /\ pc' = [pc EXCEPT ![u] = step]
    BY OwnUnlock DEF Goto
<1>2. pc[u] \in {"io", "stat", "getsize"}
    BY DEF HoldsOwn
<1> SUFFICES ASSUME NEW h \in Handles, mutex'[h] # Nil, pc'[mutex'[h]] # "dead"
             PROVE  OwnerLeft(h)'
    BY DEF NoLockLeaks
<1>3. h # req[u].h /\ mutex'[h] = mutex[h] /\ pc[mutex[h]] # "dead"
    BY <1>1, <1>2 DEF TypeOK
<1>4. CASE \E w \in Users : mutex[h] = w /\ HoldsOwn(w) /\ req[w].h = h
    BY <1>1, <1>3, <1>4 DEF HoldsOwn, OwnerLeft, TypeOK, Threads
<1>5. CASE \E t \in Threads, k \in DOMAIN fhmap :
                mutex[h] = t /\ HoldsAt(t, k) /\ fhmap[k] = h
    BY <1>1, <1>2, <1>3, <1>5 DEF HoldsAt, OwnerLeft, TypeOK, TransferSteps, SenderSteps
<1> QED
    BY <1>3, <1>4, <1>5 DEF NoLockLeaks, OwnerLeft

\* Every step keeps an owner for each mutex that is locked.
LEMMA LeaksStepStable ==
    TypeOK /\ IsInjective(fhmap) /\ LockInv /\ NoLockLeaks /\ [NextStable]_vars =>
        NoLockLeaks'
<1> SUFFICES ASSUME TypeOK, IsInjective(fhmap), LockInv, NoLockLeaks, [NextStable]_vars
             PROVE  NoLockLeaks'
    OBVIOUS
<1> USE DEF TypeOK, HoldsOwn, HoldsAt, TransferSteps, SenderSteps,
       DownloadSteps, LockedOps, table, bucket, disk, loop, Goto, Threads
<1>1. CASE UNCHANGED vars
    BY <1>1 DEF NoLockLeaks, OwnerLeft, vars
<1>2. ASSUME NEW u \in Users, GetEntry(u)
      PROVE  NoLockLeaks'
    BY <1>2 DEF NoLockLeaks, OwnerLeft, GetEntry, AfterDownload
<1>3. ASSUME NEW u \in Users, FetchCopy(u)
      PROVE  NoLockLeaks'
    BY <1>3 DEF NoLockLeaks, OwnerLeft, FetchCopy
<1>4. ASSUME NEW u \in Users, FetchDelete(u)
      PROVE  NoLockLeaks'
    BY <1>4 DEF NoLockLeaks, OwnerLeft, FetchDelete
<1>5. ASSUME NEW u \in Users, FetchKeep(u)
      PROVE  NoLockLeaks'
    BY <1>5 DEF NoLockLeaks, OwnerLeft, FetchKeep
<1>6. ASSUME NEW u \in Users, FetchExit(u)
      PROVE  NoLockLeaks'
    BY <1>6 DEF NoLockLeaks, OwnerLeft, FetchExit
<1>7. ASSUME NEW u \in Users, FetchError(u)
      PROVE  NoLockLeaks'
    BY <1>7 DEF NoLockLeaks, OwnerLeft, FetchError
<1>8. ASSUME NEW u \in Users, ClearServer(u)
      PROVE  NoLockLeaks'
    BY <1>8 DEF NoLockLeaks, OwnerLeft, ClearServer
<1>9. ASSUME NEW u \in Users, SetLocal(u)
      PROVE  NoLockLeaks'
    BY <1>9 DEF NoLockLeaks, OwnerLeft, SetLocal
<1>10. ASSUME NEW u \in Users, Start(u)
      PROVE  NoLockLeaks'
    BY <1>10 DEF NoLockLeaks, OwnerLeft, Start, NoRequest, LockInv, RequestShape, SenderShape,
       LoopShape, LoopSteps, UserSteps, PathOps
<1>11. ASSUME NEW u \in Users, Acquire(u)
      PROVE  NoLockLeaks'
    BY <1>11 DEF NoLockLeaks, OwnerLeft, Acquire, LockInv, RequestShape, SenderShape, LoopShape,
       LoopSteps, UserSteps, PathOps
<1>12. ASSUME NEW u \in Users, PrepareRead(u)
      PROVE  NoLockLeaks'
  <2>1. HoldsOwn(u) /\ pc[u] \notin DownloadSteps /\ req[u].h # Nil
    BY <1>12 DEF PrepareRead, LockInv, RequestShape, PathOps
  <2>2. /\ at' = at /\ fhmap' = fhmap /\ ReleaseOwn(u, "pread")
        /\ \A w \in Users : w # u => req'[w] = req[w]
    BY <1>12 DEF PrepareRead, Forget
  <2> QED
    BY <2>1, <2>2, OwnUnlockLeaks
<1>13. ASSUME NEW u \in Users, Pread(u)
      PROVE  NoLockLeaks'
    BY <1>13 DEF NoLockLeaks, OwnerLeft, Pread, Forget, NoRequest, LockInv, RequestShape, SenderShape,
       LoopShape, LoopSteps, UserSteps, PathOps
<1>14. ASSUME NEW u \in Users, Pwrite(u)
      PROVE  NoLockLeaks'
  <2>1. HoldsOwn(u) /\ pc[u] \notin DownloadSteps /\ req[u].h # Nil
    BY <1>14 DEF Pwrite, LockInv, RequestShape, PathOps
  <2>2. /\ at' = at /\ fhmap' = fhmap /\ ReleaseOwn(u, "idle")
        /\ \A w \in Users : w # u => req'[w] = req[w]
    BY <1>14 DEF Pwrite, Forget
  <2> QED
    BY <2>1, <2>2, OwnUnlockLeaks
<1>15. ASSUME NEW u \in Users, Flush(u)
      PROVE  NoLockLeaks'
  <2>1. HoldsOwn(u) /\ pc[u] \notin DownloadSteps /\ req[u].h # Nil
    BY <1>15 DEF Flush, LockInv, RequestShape, PathOps
  <2>2. /\ at' = at /\ fhmap' = fhmap /\ ReleaseOwn(u, "idle")
        /\ \A w \in Users : w # u => req'[w] = req[w]
    BY <1>15 DEF Flush, Forget
  <2> QED
    BY <2>1, <2>2, OwnUnlockLeaks
<1>16. ASSUME NEW u \in Users, Ftruncate(u)
      PROVE  NoLockLeaks'
  <2>1. HoldsOwn(u) /\ pc[u] \notin DownloadSteps /\ req[u].h # Nil
    BY <1>16 DEF Ftruncate, LockInv, RequestShape, PathOps
  <2>2. /\ at' = at /\ fhmap' = fhmap /\ ReleaseOwn(u, "acquire")
        /\ \A w \in Users : w # u => req'[w] = req[w]
    BY <1>16 DEF Ftruncate, Forget
  <2> QED
    BY <2>1, <2>2, OwnUnlockLeaks
<1>17. ASSUME NEW u \in Users, Truncate(u)
      PROVE  NoLockLeaks'
    BY <1>17 DEF NoLockLeaks, OwnerLeft, Truncate, Forget, NoRequest, LockInv, RequestShape,
       SenderShape, LoopShape, LoopSteps, UserSteps, PathOps
<1>18. ASSUME NEW u \in Users, CopyRange(u)
      PROVE  NoLockLeaks'
    BY <1>18 DEF NoLockLeaks, OwnerLeft, CopyRange, Forget, NoRequest, LockInv, RequestShape,
       SenderShape, LoopShape, LoopSteps, UserSteps, PathOps
<1>19. ASSUME NEW u \in Users, StatLocal(u)
      PROVE  NoLockLeaks'
    BY <1>19 DEF NoLockLeaks, OwnerLeft, StatLocal, LockInv, RequestShape, SenderShape, LoopShape,
       LoopSteps, UserSteps, PathOps
<1>20. ASSUME NEW u \in Users, GetSize(u)
      PROVE  NoLockLeaks'
  <2>1. CASE req[u].h = Nil
    BY <1>20, <2>1 DEF NoLockLeaks, OwnerLeft, GetSize, Forget, LockInv, RequestShape, PathOps
  <2>2. CASE req[u].h # Nil
    <3>1. HoldsOwn(u) /\ pc[u] \notin DownloadSteps
      BY <1>20, <2>2 DEF GetSize, LockInv, RequestShape, PathOps
    <3>2. /\ at' = at /\ fhmap' = fhmap /\ ReleaseOwn(u, "idle")
          /\ \A w \in Users : w # u => req'[w] = req[w]
      BY <1>20, <2>2 DEF GetSize, Forget
    <3> QED
      BY <2>2, <3>1, <3>2, OwnUnlockLeaks
  <2> QED
    BY <2>1, <2>2
<1>21. ASSUME NEW s \in Senders, Cycle(s)
      PROVE  NoLockLeaks'
    BY <1>21 DEF NoLockLeaks, OwnerLeft, Cycle
<1>22. ASSUME NEW s \in Senders, Stat(s)
      PROVE  NoLockLeaks'
    BY <1>22 DEF NoLockLeaks, OwnerLeft, Stat
<1>23. ASSUME NEW s \in Senders, SendCopy(s)
      PROVE  NoLockLeaks'
    BY <1>23 DEF NoLockLeaks, OwnerLeft, SendCopy
<1>24. ASSUME NEW s \in Senders, SendExit(s)
      PROVE  NoLockLeaks'
    BY <1>24 DEF NoLockLeaks, OwnerLeft, SendExit
<1>25. ASSUME NEW s \in Senders, SendError(s)
      PROVE  NoLockLeaks'
    BY <1>25 DEF NoLockLeaks, OwnerLeft, SendError
<1>26. ASSUME NEW s \in Senders, SetServer(s)
      PROVE  NoLockLeaks'
    BY <1>26 DEF NoLockLeaks, OwnerLeft, SetServer
<1>27. ASSUME NEW s \in Senders, SetRemote(s)
      PROVE  NoLockLeaks'
    BY <1>27 DEF NoLockLeaks, OwnerLeft, SetRemote
<1>28. ASSUME NEW s \in Senders, SetSize(s)
      PROVE  NoLockLeaks'
    BY <1>28 DEF NoLockLeaks, OwnerLeft, SetSize
<1>29. ASSUME NEW s \in Senders, Hollow(s)
      PROVE  NoLockLeaks'
    BY <1>29 DEF NoLockLeaks, OwnerLeft, Hollow
<1>30. ASSUME NEW t \in Threads, RangeFHs(t)
      PROVE  NoLockLeaks'
    BY <1>30 DEF NoLockLeaks, OwnerLeft, RangeFHs, LockInv, RequestShape, SenderShape, LoopShape,
       LoopSteps, UserSteps, PathOps
<1>31. ASSUME NEW t \in Threads, LockFH(t)
      PROVE  NoLockLeaks'
    BY <1>31 DEF NoLockLeaks, OwnerLeft, LockFH, LockInv, RequestShape, SenderShape, LoopShape,
       LoopSteps, UserSteps, PathOps
<1>32. ASSUME NEW t \in Threads, LockedAll(t)
      PROVE  NoLockLeaks'
    BY <1>32 DEF NoLockLeaks, OwnerLeft, LockedAll, EndLoop, LockInv, RequestShape, SenderShape,
       LoopShape, LoopSteps, UserSteps, PathOps
<1>33. ASSUME NEW t \in Threads, UnlockFH(t)
      PROVE  NoLockLeaks'
    BY <1>33, UnlockOwned
       DEF NoLockLeaks, OwnerLeft, UnlockFH, LockInv, RequestShape, SenderShape, LoopShape, LoopSteps,
       UserSteps, PathOps
<1>34. ASSUME NEW t \in Threads, UnlockFatal(t)
      PROVE  NoLockLeaks'
    BY <1>34, UnlockOwned
       DEF NoLockLeaks, OwnerLeft, UnlockFatal, LockInv, RequestShape, SenderShape, LoopShape,
       LoopSteps, UserSteps, PathOps
<1>35. ASSUME NEW t \in Threads, UnlockedAll(t)
      PROVE  NoLockLeaks'
    BY <1>35 DEF NoLockLeaks, OwnerLeft, UnlockedAll, AfterDownload, EndLoop, Forget, NoRequest,
       LockInv, RequestShape, SenderShape, LoopShape, LoopSteps, UserSteps,
       PathOps
<1>36. ASSUME NEW t \in Threads, UpdateFails(t)
      PROVE  NoLockLeaks'
    BY <1>36 DEF NoLockLeaks, OwnerLeft, UpdateFails, LockInv, RequestShape, SenderShape, LoopShape,
       LoopSteps, UserSteps, PathOps
<1>37. CASE Crash
    BY <1>37 DEF NoLockLeaks, OwnerLeft, Crash
<1> QED
    BY <1>1, <1>2, <1>3, <1>4, <1>5, <1>6, <1>7, <1>8, <1>9, <1>10, <1>11,
       <1>12, <1>13, <1>14, <1>15, <1>16, <1>17, <1>18, <1>19, <1>20, <1>21,
       <1>22, <1>23, <1>24, <1>25, <1>26, <1>27, <1>28, <1>29, <1>30, <1>31,
       <1>32, <1>33, <1>34, <1>35, <1>36, <1>37
       DEF NextStable, UserStep, SenderStep, LoopNext, DownloadNext,
              RequestNext, SendNext

\* Between two transfers only requests hold mutexes, and they hold them still when a
\* handle comes or goes.
LEMMA LeaksStepHandles ==
    TypeOK /\ NoLockLeaks /\ Quiet /\ HandleNext => NoLockLeaks'
<1> SUFFICES ASSUME TypeOK, NoLockLeaks, Quiet, NEW h \in Handles,
                    Open(h) \/ Release(h) \/ ReleasePanic(h),
                    NEW g \in Handles, mutex'[g] # Nil, pc'[mutex'[g]] # "dead"
             PROVE  OwnerLeft(g)'
  BY DEF HandleNext, NoLockLeaks
<1>1. mutex[g] \in Threads /\ UNCHANGED mutex
  BY DEF Open, Release, ReleasePanic, TypeOK
<1>2. ~ReleasePanic(h)
  BY <1>1 DEF ReleasePanic, Die
<1>3. UNCHANGED <<mutex, pc, req>>
  BY <1>2 DEF Open, Release
<1>4. \A t \in Threads : \A k : ~HoldsAt(t, k)
  BY DEF Quiet, HoldsAt
<1>5. PICK u \in Users : mutex[g] = u /\ HoldsOwn(u) /\ req[u].h = g
  BY <1>3, <1>4 DEF NoLockLeaks, OwnerLeft
<1> QED
  BY <1>3, <1>5 DEF HoldsOwn, OwnerLeft

LEMMA LeaksStep ==
    TypeOK /\ IsInjective(fhmap) /\ LockInv /\ NoLockLeaks /\ [NextQuiet]_vars =>
        NoLockLeaks'
BY LeaksStepStable, LeaksStepHandles DEF NextQuiet

-----------------------------------------------------------------------------
(* No circle.                                                              *)

\* Of the numbers with a property that a natural number has, one is the smallest.
LEMMA SmallestNumber ==
    ASSUME NEW T \in SUBSET Nat, T # {}
    PROVE  \E n \in T : \A m \in T : ~(m < n)
<1> DEFINE R == OpToRel(<, Nat)
<1>1. IsWellFoundedOn(R, Nat)
    BY NatLessThanWellFounded
<1>2. PICK n \in T : \A m \in T : ~(<<m, n>> \in R)
    BY <1>1, WFMin
<1> QED
    BY <1>2 DEF OpToRel

\* Whatever a goroutine waits for is the mutex of a handle.
LEMMA WantedHandle ==
    ASSUME TypeOK, LockInv, NEW t \in Threads, Wanted(t) # Nil
    PROVE  Wanted(t) \in Handles
<1>1. CASE pc[t] = "acquire"
  <2>1. t \in Users
    BY <1>1 DEF Threads, LockInv, SenderShape, LoopSteps, SenderSteps
  <2> QED
    BY <1>1, <2>1 DEF Wanted, TypeOK, Requests
<1>2. CASE pc[t] = "lock" /\ at[t] <= Len(fhs[t])
    BY <1>2 DEF Wanted, LockInv, LoopShape, TypeOK
<1> QED
    BY <1>1, <1>2 DEF Wanted

\* A goroutine that waits, waits for one that does not wait, or for one that already
\* locked the mutex that it waits for and waits for a later one.
LEMMA WaitsForward ==
    ASSUME TypeOK, IsInjective(fhmap), LockInv, NoLockLeaks, "ftruncate" \notin Ops,
           NEW t \in Threads, NEW o \in Threads, WaitsFor(t, o), Wanted(o) # Nil
    PROVE  /\ pc[o] = "lock" /\ at[o] \in DOMAIN fhmap
           /\ pc[t] = "lock" => at[t] \in DOMAIN fhmap /\ at[t] < at[o]
<1>1. pc[o] = "acquire" \/ (pc[o] = "lock" /\ at[o] \in DOMAIN fhmap)
  <2>1. pc[o] = "acquire" \/ (pc[o] = "lock" /\ at[o] <= Len(fhs[o]))
    BY DEF Wanted
  <2> QED
    BY <2>1 DEF LockInv, LoopShape, TypeOK
<1>2. \/ pc[t] = "acquire" /\ Wanted(t) = req[t].h
      \/ pc[t] = "lock" /\ at[t] \in DOMAIN fhmap /\ Wanted(t) = fhmap[at[t]]
    BY DEF WaitsFor, Wanted, LockInv, LoopShape, TypeOK
<1>3. Wanted(t) \in Handles /\ mutex[Wanted(t)] = o /\ o # Nil /\ pc[o] # "dead"
    BY <1>1, WantedHandle DEF WaitsFor, Threads
<1>4. ~(o \in Users /\ HoldsOwn(o))
    BY <1>1 DEF HoldsOwn, LockInv, RequestShape, DownloadSteps
<1>5. PICK k \in DOMAIN fhmap : HoldsAt(o, k) /\ fhmap[k] = Wanted(t)
    BY <1>3, <1>4 DEF NoLockLeaks, OwnerLeft
<1>6. pc[o] = "lock" /\ k < at[o]
    BY <1>1, <1>5 DEF HoldsAt, TransferSteps, SenderSteps
<1>7. ASSUME pc[t] = "lock" PROVE k = at[t]
    BY <1>2, <1>5, <1>7 DEF IsInjective
<1> QED
    BY <1>1, <1>2, <1>6, <1>7

\* With an owner for each mutex and one order of locking, nobody waits in a circle.
LEMMA NoCircle ==
    TypeOK /\ IsInjective(fhmap) /\ LockInv /\ NoLockLeaks /\ "ftruncate" \notin Ops =>
        NoDeadlock
<1> SUFFICES ASSUME TypeOK, IsInjective(fhmap), LockInv, NoLockLeaks, "ftruncate" \notin Ops,
                    NEW set \in (SUBSET Threads) \ {{}},
                    \A t \in set : \E o \in set : WaitsFor(t, o)
             PROVE  FALSE
    BY DEF NoDeadlock
<1>1. \A t \in set : \E o \in set :
            /\ pc[o] = "lock" /\ at[o] \in DOMAIN fhmap
            /\ pc[t] = "lock" => at[t] \in DOMAIN fhmap /\ at[t] < at[o]
  <2> SUFFICES ASSUME NEW t \in set
               PROVE  \E o \in set :
                        /\ pc[o] = "lock" /\ at[o] \in DOMAIN fhmap
                        /\ pc[t] = "lock" => at[t] \in DOMAIN fhmap /\ at[t] < at[o]
    OBVIOUS
  <2>1. PICK o \in set : WaitsFor(t, o)
    OBVIOUS
  <2>2. Wanted(o) # Nil
    BY DEF WaitsFor
  <2> QED
    BY <2>1, <2>2, WaitsForward
<1>2. /\ Len(fhmap) \in Nat /\ DOMAIN fhmap = 1..Len(fhmap)
    BY DEF TypeOK
<1> DEFINE Left ==
        {n \in Nat : \E t \in set : pc[t] = "lock" /\ at[t] + n = Len(fhmap)}
<1>3. \A t \in set : pc[t] = "lock" /\ at[t] \in DOMAIN fhmap =>
            Len(fhmap) - at[t] \in Left
  <2> SUFFICES ASSUME NEW t \in set, pc[t] = "lock", at[t] \in DOMAIN fhmap
               PROVE  Len(fhmap) - at[t] \in Left
    OBVIOUS
  <2>1. /\ Len(fhmap) - at[t] \in Nat
        /\ at[t] + (Len(fhmap) - at[t]) = Len(fhmap)
    BY <1>2
  <2> QED
    BY <2>1
<1>4. Left # {}
  <2> HIDE DEF Left
  <2>1. PICK t \in set : TRUE
    OBVIOUS
  <2>2. PICK o \in set : pc[o] = "lock" /\ at[o] \in DOMAIN fhmap
    BY <1>1, <2>1
  <2> QED
    BY <1>3, <2>2
<1>5. PICK n \in Left : \A m \in Left : ~(m < n)
  <2> HIDE DEF Left
  <2>1. Left \in SUBSET Nat
    BY DEF Left
  <2> QED
    BY <1>4, <2>1, SmallestNumber
<1>6. PICK t \in set : pc[t] = "lock" /\ at[t] + n = Len(fhmap)
    OBVIOUS
<1>7. PICK o \in set : /\ pc[o] = "lock" /\ at[o] \in DOMAIN fhmap
                       /\ at[t] \in DOMAIN fhmap /\ at[t] < at[o]
    BY <1>1, <1>6
<1>8. Len(fhmap) - at[o] \in Left
    BY <1>3, <1>7
<1>9. Len(fhmap) - at[o] < n
    BY <1>2, <1>6, <1>7
<1> QED
    BY <1>5, <1>8, <1>9

\* Requests and cycles that are under way, in a process that runs.
Busy == {t \in Threads : pc[t] \notin {"idle", "dead"}}

\* While some request or cycle is under way, a goroutine is under way that does not
\* wait, or waits for a mutex that nobody holds.
SomeoneMoves ==
    Alive /\ Busy # {} => \E t \in Busy : Wanted(t) # Nil => mutex[Wanted(t)] = Nil

\* Whoever holds a mutex is under way: a set without a circle has one that moves.
LEMMA NoCircleMoves ==
    TypeOK /\ LockInv /\ NoLockLeaks /\ NoDeadlock => SomeoneMoves
<1> SUFFICES ASSUME TypeOK, LockInv, NoLockLeaks, NoDeadlock, Alive, Busy # {}
             PROVE  \E t \in Busy : Wanted(t) # Nil => mutex[Wanted(t)] = Nil
    BY DEF SomeoneMoves
<1>1. PICK t \in Busy : \A o \in Busy : ~WaitsFor(t, o)
    BY DEF NoDeadlock, Busy
<1>2. t \in Threads
    BY DEF Busy
<1> SUFFICES ASSUME Wanted(t) # Nil, mutex[Wanted(t)] # Nil PROVE FALSE
    BY <1>1
<1>3. Wanted(t) \in Handles
    BY <1>2, WantedHandle
<1>4. mutex[Wanted(t)] \in Threads /\ pc[mutex[Wanted(t)]] # "dead"
    BY <1>3 DEF TypeOK, Alive
<1>5. mutex[Wanted(t)] \in Busy
  <2>1. CASE \E u \in Users : mutex[Wanted(t)] = u /\ HoldsOwn(u)
    BY <1>4, <2>1 DEF HoldsOwn, DownloadSteps, Busy
  <2>2. CASE \E o \in Threads, k \in DOMAIN fhmap :
                mutex[Wanted(t)] = o /\ HoldsAt(o, k)
    BY <1>4, <2>2 DEF HoldsAt, TransferSteps, SenderSteps, Busy
  <2> QED
    BY <1>3, <1>4, <2>1, <2>2 DEF NoLockLeaks, OwnerLeft
<1> QED
    BY <1>1, <1>5 DEF WaitsFor

-----------------------------------------------------------------------------
(* Theorems.                                                               *)

\* While no handle is opened or released in the middle of a transfer, whoever locked a
\* mutex is on the way to its unlock, whatever fails: no error path of Download,
\* SendRemote or a handler of s3file.go leaves with a mutex locked.
THEOREM LocksGivenBack == SpecQuiet => []NoLockLeaks
<1> DEFINE Inv == TypeOK /\ RegisteredOpen /\ LockInv
<1>1. Init => NoLockLeaks
    BY LeaksInit
<1>2. Inv /\ NoLockLeaks /\ [NextQuiet]_vars => NoLockLeaks'
    BY LeaksStep DEF RegisteredOpen
<1> QED
    BY <1>1, <1>2, LockInvariant, PTL DEF SpecQuiet

\* Under the same hypothesis, if no request truncates a handle, no goroutines wait in a
\* circle: lockFHs (fs.go) takes the mutexes in the order of fhmap in every goroutine,
\* and a handler that holds the mutex of its handle does not wait for another one.
THEOREM DeadlockFree ==
    ASSUME "ftruncate" \notin Ops
    PROVE  SpecQuiet => []NoDeadlock
<1>1. TypeOK /\ RegisteredOpen /\ LockInv /\ NoLockLeaks => NoDeadlock
    BY NoCircle DEF RegisteredOpen
<1> QED
    BY <1>1, LockInvariant, LocksGivenBack, PTL

\* Under the same hypotheses somebody moves as long as there is something to do: the
\* daemon never stands still with a request, or a cycle, under way.
THEOREM AlwaysMoves ==
    ASSUME "ftruncate" \notin Ops
    PROVE  SpecQuiet => []SomeoneMoves
BY LockInvariant, LocksGivenBack, DeadlockFree, NoCircleMoves, PTL
=============================================================================

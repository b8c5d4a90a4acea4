------------------------- MODULE FileTransferProofs -------------------------
(***************************************************************************)
(* Proofs about FileTransfer, for every set of threads, handles, requests  *)
(* and failures.                                                           *)
(***************************************************************************)
EXTENDS FileTransfer, TLAPS, FiniteSetTheorems, SequenceTheorems

USE ThreadsAssumption, HandlesAssumption, OpsAssumption, NilAssumption

-----------------------------------------------------------------------------
(* Types.                                                                  *)

\* The size of a content is a natural number: there are finitely many blocks.
LEMMA SizeType ==
    ASSUME NEW c \in Contents
    PROVE  Size(c) \in Nat
BY BlocksAssumption, FS_Subset, FS_CardinalityType DEF Contents, Size

\* Where a request goes after Download is one of three steps.
LEMMA AfterDownloadStep ==
    ASSUME NEW u
    PROVE  AfterDownload(u) \in {"io", "idle", "acquire"}
BY DEF AfterDownload

\* A request stays one when a field changes.
LEMMA RequestType ==
    /\ NoRequest \in Requests
    /\ \A op \in HandleOps \cup PathOps, h \in Handles \cup {Nil} :
            [NoRequest EXCEPT !.op = op, !.h = h] \in Requests
    /\ \A r \in Requests :
            /\ [r EXCEPT !.err = TRUE] \in Requests
            /\ [r EXCEPT !.op = "getattr"] \in Requests
            /\ \A b \in BOOLEAN : [r EXCEPT !.server = b] \in Requests
BY DEF Requests, NoRequest, HandleOps, PathOps

\* A function on an initial segment of the naturals is a sequence.
LEMMA FunctionIsSeq ==
    ASSUME NEW S, NEW n \in Nat, NEW f \in [1..n -> S]
    PROVE  f \in Seq(S)
<1>1. f \in UNION {[1..m -> S] : m \in Nat}
    OBVIOUS
<1> QED
    BY <1>1, SeqDef, Zenon

\* Ending a loop keeps the types of its variables.
LEMMA EmptyLoop ==
    ASSUME NEW t \in Threads, EndLoop(t),
           fhs \in [Threads -> Seq(Handles)], at \in [Threads -> Nat]
    PROVE  fhs' \in [Threads -> Seq(Handles)] /\ at' \in [Threads -> Nat]
<1>1. << >> \in Seq(Handles)
    OBVIOUS
<1> QED
    BY <1>1 DEF EndLoop

\* The initial state is well typed.
LEMMA InitType == Init => TypeOK
<1> SUFFICES ASSUME Init PROVE TypeOK
    OBVIOUS
<1>1. fhmap \in Seq(Handles)
    BY DEF Init
<1>2. hstate \in [Handles -> {"new", "open", "closed"}]
    BY DEF Init, InitHandles
<1>3. mutex \in [Handles -> Threads \cup {Nil}]
    BY DEF Init
<1>4. /\ row \in [local : BOOLEAN, server : BOOLEAN, size : Nat]
      /\ local \in Contents /\ stored \in BOOLEAN /\ object \in Contents
      /\ crashes \in Nat
    BY DEF Init, Contents
<1>5. pc \in [Threads -> Steps]
    BY DEF Init, Steps
<1>6. req \in [Users -> Requests]
    BY RequestType DEF Init
<1>7. fhs \in [Threads -> Seq(Handles)]
    BY DEF Init
<1>8. at \in [Threads -> Nat] /\ info \in [Threads -> Nat]
    BY DEF Init
<1> QED
    BY <1>1, <1>2, <1>3, <1>4, <1>5, <1>6, <1>7, <1>8 DEF TypeOK

\* Every step keeps the types.
LEMMA TypeStep == TypeOK /\ [Next]_vars => TypeOK'
<1> SUFFICES ASSUME TypeOK, [Next]_vars PROVE TypeOK'
    OBVIOUS
<1> USE DEF TypeOK, table, bucket, disk, loop, Goto, Steps, LoopSteps, UserSteps,
        SenderSteps
<1>1. CASE UNCHANGED vars
    BY <1>1 DEF vars
<1>2. ASSUME NEW u \in Users, Start(u)
      PROVE  TypeOK'
  <2>1. PICK op \in Ops, h \in OpenHandles \cup {Nil} :
            /\ req' = [req EXCEPT ![u] = [NoRequest EXCEPT !.op = op, !.h = h]]
            /\ Goto(u, CASE op \in {"getattr", "ftruncate", "flush"} -> "acquire"
                         [] op = "lstat" -> "stat"
                         [] OTHER -> "getentry")
    BY <1>2 DEF Start
  <2>2. req' \in [Users -> Requests]
    BY <2>1, RequestType DEF OpenHandles
  <2>3. pc' \in [Threads -> Steps]
    BY <2>1
  <2> QED
    BY <1>2, <2>2, <2>3 DEF Start
<1>3. ASSUME NEW u \in Users, GetEntry(u)
      PROVE  TypeOK'
    BY <1>3, AfterDownloadStep, RequestType DEF GetEntry, Threads
<1>4. ASSUME NEW u \in Users, FetchCopy(u)
      PROVE  TypeOK'
    BY <1>4, AfterDownloadStep, RequestType DEF FetchCopy, Threads
<1>5. ASSUME NEW u \in Users, FetchDelete(u)
      PROVE  TypeOK'
    BY <1>5, AfterDownloadStep, RequestType DEF FetchDelete, Threads, Contents
<1>6. ASSUME NEW u \in Users, FetchKeep(u)
      PROVE  TypeOK'
    BY <1>6, AfterDownloadStep, RequestType DEF FetchKeep, Threads
<1>7. ASSUME NEW u \in Users, FetchExit(u)
      PROVE  TypeOK'
    BY <1>7, AfterDownloadStep, RequestType DEF FetchExit, Threads
<1>8. ASSUME NEW u \in Users, FetchError(u)
      PROVE  TypeOK'
    BY <1>8, AfterDownloadStep, RequestType DEF FetchError, Threads
<1>9. ASSUME NEW u \in Users, ClearServer(u)
      PROVE  TypeOK'
    BY <1>9, AfterDownloadStep, RequestType DEF ClearServer, Threads
<1>10. ASSUME NEW u \in Users, SetLocal(u)
      PROVE  TypeOK'
    BY <1>10, AfterDownloadStep, RequestType DEF SetLocal, Threads
<1>11. ASSUME NEW u \in Users, Acquire(u)
      PROVE  TypeOK'
    BY <1>11, SizeType, RequestType
       DEF Acquire, ReleaseOwn, Forget, Die, Threads, Contents
<1>12. ASSUME NEW u \in Users, PrepareRead(u)
      PROVE  TypeOK'
    BY <1>12, SizeType, RequestType
       DEF PrepareRead, ReleaseOwn, Forget, Die, Threads, Contents
<1>13. ASSUME NEW u \in Users, Pread(u)
      PROVE  TypeOK'
    BY <1>13, SizeType, RequestType
       DEF Pread, ReleaseOwn, Forget, Die, Threads, Contents
<1>14. ASSUME NEW u \in Users, Pwrite(u)
      PROVE  TypeOK'
    BY <1>14, SizeType, RequestType
       DEF Pwrite, ReleaseOwn, Forget, Die, Threads, Contents
<1>15. ASSUME NEW u \in Users, Flush(u)
      PROVE  TypeOK'
    BY <1>15, SizeType, RequestType
       DEF Flush, ReleaseOwn, Forget, Die, Threads, Contents
<1>16. ASSUME NEW u \in Users, Ftruncate(u)
      PROVE  TypeOK'
    BY <1>16, SizeType, RequestType
       DEF Ftruncate, ReleaseOwn, Forget, Die, Threads, Contents
<1>17. ASSUME NEW u \in Users, Truncate(u)
      PROVE  TypeOK'
    BY <1>17, SizeType, RequestType
       DEF Truncate, ReleaseOwn, Forget, Die, Threads, Contents
<1>18. ASSUME NEW u \in Users, CopyRange(u)
      PROVE  TypeOK'
    BY <1>18, SizeType, RequestType
       DEF CopyRange, ReleaseOwn, Forget, Die, Threads, Contents
<1>19. ASSUME NEW u \in Users, StatLocal(u)
      PROVE  TypeOK'
    BY <1>19, SizeType, RequestType
       DEF StatLocal, ReleaseOwn, Forget, Die, Threads, Contents
<1>20. ASSUME NEW u \in Users, GetSize(u)
      PROVE  TypeOK'
    BY <1>20, SizeType, RequestType
       DEF GetSize, ReleaseOwn, Forget, Die, Threads, Contents
<1>21. ASSUME NEW s \in Senders, Cycle(s)
      PROVE  TypeOK'
    BY <1>21, SizeType, RequestType DEF Cycle, Threads, Contents
<1>22. ASSUME NEW s \in Senders, Stat(s)
      PROVE  TypeOK'
    BY <1>22, SizeType, RequestType DEF Stat, Threads, Contents
<1>23. ASSUME NEW s \in Senders, SendCopy(s)
      PROVE  TypeOK'
    BY <1>23, SizeType, RequestType DEF SendCopy, Threads, Contents
<1>24. ASSUME NEW s \in Senders, SendExit(s)
      PROVE  TypeOK'
    BY <1>24, SizeType, RequestType DEF SendExit, Threads, Contents
<1>25. ASSUME NEW s \in Senders, SendError(s)
      PROVE  TypeOK'
    BY <1>25, SizeType, RequestType DEF SendError, Threads, Contents
<1>26. ASSUME NEW s \in Senders, SetServer(s)
      PROVE  TypeOK'
    BY <1>26, SizeType, RequestType DEF SetServer, Threads, Contents
<1>27. ASSUME NEW s \in Senders, SetRemote(s)
      PROVE  TypeOK'
    BY <1>27, SizeType, RequestType DEF SetRemote, Threads, Contents
<1>28. ASSUME NEW s \in Senders, SetSize(s)
      PROVE  TypeOK'
    BY <1>28, SizeType, RequestType DEF SetSize, Threads, Contents
<1>29. ASSUME NEW s \in Senders, Hollow(s)
      PROVE  TypeOK'
    BY <1>29, SizeType, RequestType DEF Hollow, Threads, Contents
<1>30. ASSUME NEW t \in Threads, RangeFHs(t)
      PROVE  TypeOK'
    BY <1>30, AfterDownloadStep, RequestType DEF RangeFHs, EndLoop, Die, Forget
<1>31. ASSUME NEW t \in Threads, LockFH(t)
      PROVE  TypeOK'
  <2>1. mutex' \in [Handles -> Threads \cup {Nil}]
    BY <1>31 DEF LockFH
  <2>2. at' \in [Threads -> Nat]
    BY <1>31 DEF LockFH
  <2> QED
    BY <1>31, <2>1, <2>2 DEF LockFH
<1>32. ASSUME NEW t \in Threads, LockedAll(t)
      PROVE  TypeOK'
    BY <1>32, EmptyLoop DEF LockedAll
<1>33. ASSUME NEW t \in Threads, UnlockFH(t)
      PROVE  TypeOK'
  <2>1. mutex' \in [Handles -> Threads \cup {Nil}]
    BY <1>33 DEF UnlockFH
  <2>2. at' \in [Threads -> Nat]
    BY <1>33 DEF UnlockFH
  <2> QED
    BY <1>33, <2>1, <2>2 DEF UnlockFH
<1>34. ASSUME NEW t \in Threads, UnlockFatal(t)
      PROVE  TypeOK'
    BY <1>34, AfterDownloadStep, RequestType DEF UnlockFatal, EndLoop, Die, Forget
<1>35. ASSUME NEW t \in Threads, UnlockedAll(t)
      PROVE  TypeOK'
  <2>1. fhs' \in [Threads -> Seq(Handles)] /\ at' \in [Threads -> Nat]
    BY <1>35, EmptyLoop DEF UnlockedAll
  <2>2. pc' \in [Threads -> Steps]
    BY <1>35, AfterDownloadStep DEF UnlockedAll
  <2>3. req' \in [Users -> Requests]
    BY <1>35, RequestType DEF UnlockedAll, Forget
  <2>4. info' \in [Threads -> Nat]
    BY <1>35 DEF UnlockedAll
  <2> QED
    BY <1>35, <2>1, <2>2, <2>3, <2>4 DEF UnlockedAll
<1>36. ASSUME NEW t \in Threads, UpdateFails(t)
      PROVE  TypeOK'
    BY <1>36, AfterDownloadStep, RequestType DEF UpdateFails, EndLoop, Die, Forget
<1>37. ASSUME NEW h \in Handles, Open(h)
      PROVE  TypeOK'
  <2>1. fhs' \in [Threads -> Seq(Handles)]
    <3>1. ASSUME NEW t \in Threads
          PROVE  [fhs[t] EXCEPT ![Len(fhmap) + 1] = h] \in Seq(Handles)
      <4>1. DOMAIN fhs[t] = 1..Len(fhs[t]) /\ Len(fhs[t]) \in Nat
        OBVIOUS
      <4>2. fhs[t] \in [1..Len(fhs[t]) -> Handles]
        OBVIOUS
      <4>3. [fhs[t] EXCEPT ![Len(fhmap) + 1] = h] \in [1..Len(fhs[t]) -> Handles]
        BY <4>2
      <4> QED
        BY <4>1, <4>3, FunctionIsSeq
    <3>2. ASSUME NEW f \in LoopsAfterAppend(h)
          PROVE  f \in [Threads -> Seq(Handles)]
      <4>1. PICK shared \in SUBSET Threads :
                f = [t \in Threads |->
                       IF t \in shared THEN [fhs[t] EXCEPT ![Len(fhmap) + 1] = h]
                                       ELSE fhs[t]]
        BY DEF LoopsAfterAppend
      <4> QED
        BY <3>1, <4>1
    <3> QED
      BY <1>37, <3>2 DEF Open
  <2> QED
    BY <1>37, <2>1 DEF Open
<1>38. ASSUME NEW h \in Handles, Release(h)
      PROVE  TypeOK'
  <2>1. fhmap' \in Seq(Handles)
    <3>1. ASSUME NEW i \in 1..(Len(fhmap) - 1)
          PROVE  DeleteTwo(fhmap, i) \in Seq(Handles)
      BY <3>1 DEF DeleteTwo
    <3>2. \/ fhmap' = fhmap
          \/ fhmap' = << >>
          \/ \E i \in 1..(Len(fhmap) - 1) : fhmap' = DeleteTwo(fhmap, i)
      BY <1>38 DEF Release
    <3> QED
      <4>1. CASE fhmap' = fhmap
        BY <4>1
      <4>2. CASE fhmap' = << >>
        BY <4>2, EmptySeq
      <4>3. CASE \E i \in 1..(Len(fhmap) - 1) : fhmap' = DeleteTwo(fhmap, i)
        BY <3>1, <4>3
      <4> QED
        BY <3>2, <4>1, <4>2, <4>3
  <2>2. fhs' \in [Threads -> Seq(Handles)]
    <3>1. ASSUME NEW i \in Nat, NEW t \in Threads
          PROVE  ShiftCells(fhs[t], i, fhmap) \in Seq(Handles)
      <4>1. DOMAIN fhs[t] = 1..Len(fhs[t]) /\ Len(fhs[t]) \in Nat
        OBVIOUS
      <4>2. ShiftCells(fhs[t], i, fhmap) \in [1..Len(fhs[t]) -> Handles]
        BY <3>1, <4>1 DEF ShiftCells
      <4> HIDE DEF ShiftCells
      <4> QED
        BY <4>1, <4>2, FunctionIsSeq
    <3>2. ASSUME NEW i \in Nat, NEW f \in LoopsAfterDelete(i)
          PROVE  f \in [Threads -> Seq(Handles)]
      <4>1. PICK shared \in SUBSET Threads :
                f = [t \in Threads |-> IF t \in shared
                                      THEN ShiftCells(fhs[t], i, fhmap) ELSE fhs[t]]
        BY DEF LoopsAfterDelete
      <4> QED
        BY <3>1, <4>1
    <3> QED
      BY <1>38, <3>2 DEF Release
  <2>3. hstate' \in [Handles -> {"new", "open", "closed"}]
    BY <1>38 DEF Release
  <2> QED
    BY <1>38, <2>1, <2>2, <2>3 DEF Release
<1>39. ASSUME NEW h \in Handles, ReleasePanic(h)
      PROVE  TypeOK'
    BY <1>39 DEF ReleasePanic, Die, DeleteTwo, LoopsAfterDelete, ShiftCells,
       LastOfSeveral, Releasable
<1>40. CASE Crash
  <2>1. hstate' \in [Handles -> {"new", "open", "closed"}]
    BY <1>40 DEF Crash, InitHandles
  <2>2. fhs' \in [Threads -> Seq(Handles)]
    BY <1>40, EmptySeq DEF Crash
  <2>3. req' \in [Users -> Requests]
    BY <1>40, RequestType DEF Crash
  <2> QED
    BY <1>40, <2>1, <2>2, <2>3 DEF Crash
<1> QED
    BY <1>1, <1>2, <1>3, <1>4, <1>5, <1>6, <1>7, <1>8, <1>9, <1>10, <1>11, <1>12,
       <1>13, <1>14, <1>15, <1>16, <1>17, <1>18, <1>19, <1>20, <1>21, <1>22, <1>23,
       <1>24, <1>25, <1>26, <1>27, <1>28, <1>29, <1>30, <1>31, <1>32, <1>33, <1>34,
       <1>35, <1>36, <1>37, <1>38, <1>39, <1>40
       DEF Next, HandleNext, NextStable, UserStep, SenderStep, LoopNext, DownloadNext,
           RequestNext, SendNext, Threads

-----------------------------------------------------------------------------
(* Locks.                                                                  *)

\* A handle of the table is a handle.
LEMMA ListedHandle ==
    ASSUME TypeOK, NEW h \in Range(fhmap)
    PROVE  h \in Handles /\ h # Nil /\ \E k \in DOMAIN fhmap : fhmap[k] = h
BY DEF Range, TypeOK

\* A handle of the start is a handle.
LEMMA RegisteredHandle ==
    ASSUME NEW h \in Range(InitReg)
    PROVE  h \in Handles /\ h # Nil /\ \E k \in DOMAIN InitReg : InitReg[k] = h
BY DEF Range

\* The deferred unlock of a request's own handle finds the mutex locked by this
\* request, and nobody else counts on it.
LEMMA OwnUnlock ==
    ASSUME TypeOK, LockInv, NEW u \in Users, HoldsOwn(u), pc[u] \notin DownloadSteps,
           req[u].h # Nil
    PROVE  /\ \A step : ReleaseOwn(u, step) =>
                /\ mutex' = [mutex EXCEPT ![req[u].h] = Nil]
                /\ Goto(u, step)
           /\ \A t \in Threads, k \in DOMAIN fhmap :
                t # u /\ HoldsAt(t, k) => fhmap[k] # req[u].h
           /\ \A w \in Users : w # u /\ HoldsOwn(w) => req[w].h # req[u].h
           /\ req[u].h \in Handles
<1>1. mutex[req[u].h] = u
    BY DEF LockInv, OwnLocksHeld
<1>2. u # Nil
    BY DEF Threads
<1>3. req[u].h \in Handles
    BY DEF TypeOK, Requests
<1> QED
    BY <1>1, <1>2, <1>3 DEF LockInv, OwnLocksHeld, LoopLocksHeld, ReleaseOwn

\* A request that holds its handle goes on after the deferred unlock.
LEMMA GoesOn ==
    ASSUME TypeOK, LockInv, NEW u \in Users, NEW step, ReleaseOwn(u, step),
           pc[u] \in {"io", "stat", "getsize"}, req[u].op \in LockedOps
    PROVE  pc' = [pc EXCEPT ![u] = step]
<1>1. HoldsOwn(u) /\ pc[u] \notin DownloadSteps
    BY DEF HoldsOwn, DownloadSteps
<1>2. req[u].h # Nil
    BY DEF LockInv, RequestShape, LockedOps, PathOps
<1> QED
    BY <1>1, <1>2, OwnUnlock DEF Goto

\* A loop of unlockFHs finds each mutex locked by its own thread, and once.
LEMMA UnlockOwned ==
    ASSUME TypeOK, LockInv, IsInjective(fhmap),
           NEW t \in Threads, pc[t] = "unlock", at[t] <= Len(fhs[t])
    PROVE  /\ fhs[t] = fhmap /\ at[t] \in DOMAIN fhmap
           /\ mutex[fhmap[at[t]]] = t /\ t # Nil
           /\ \A k \in DOMAIN fhmap :
                k # at[t] => fhmap[k] # fhmap[at[t]]
           /\ \A o \in Threads, k \in DOMAIN fhmap :
                o # t /\ HoldsAt(o, k) => fhmap[k] # fhmap[at[t]]
           /\ fhmap[at[t]] \in Handles
<1>1. fhs[t] = fhmap /\ at[t] \in DOMAIN fhmap
    BY DEF TypeOK, LockInv, LoopShape
<1>2. mutex[fhmap[at[t]]] = t
    BY <1>1 DEF LockInv, LoopLocksHeld, HoldsAt, TypeOK
<1>3. t # Nil
    BY DEF Threads
<1>4. fhmap[at[t]] \in Handles
    BY <1>1 DEF TypeOK
<1> QED
    BY <1>1, <1>2, <1>3, <1>4 DEF IsInjective, LockInv, LoopLocksHeld

\* A step that neither opens nor releases a handle keeps the lock invariant.
LEMMA LockStepStable ==
    TypeOK /\ IsInjective(fhmap) /\ LockInv /\ [NextStable]_vars => LockInv'
<1> SUFFICES ASSUME TypeOK, IsInjective(fhmap), LockInv, [NextStable]_vars PROVE LockInv'
    OBVIOUS
<1> USE DEF TypeOK, LockInv, RequestShape, TruncateOutside,
       SenderShape, LoopShape,
       LoopLocksHeld, OwnLocksHeld, HoldsOwn, HoldsAt, table, bucket, disk, loop, Goto, Steps,
       LoopSteps, UserSteps, SenderSteps, TransferSteps, DownloadSteps, LockedOps, DownloadOps,
       PathOps, HandleOps, Requests
<1>1. CASE UNCHANGED vars
    BY <1>1 DEF vars
<1>2. ASSUME NEW u \in Users, GetEntry(u)
      PROVE  LockInv'
  <2>1. RequestShape' /\ SenderShape'
    BY <1>2 DEF GetEntry, Threads, AfterDownload
  <2>2. LoopShape' /\ LoopLocksHeld'
    BY <1>2 DEF GetEntry, Threads, AfterDownload
  <2>3. OwnLocksHeld'
    <3> SUFFICES ASSUME NEW w \in Users, HoldsOwn(w)'
                 PROVE  mutex'[req'[w].h] = w
      OBVIOUS
    <3>1. CASE w = u
      <4>1. /\ pc[u] = "getentry" /\ mutex' = mutex
            /\ req'[u].op = req[u].op /\ req'[u].h = req[u].h
            /\ pc'[u] = IF row.local THEN AfterDownload(u) ELSE "lockFHs"
        BY <1>2 DEF GetEntry, Threads
      <4>2. req[u].op = "ftruncate"
        BY <3>1, <4>1 DEF AfterDownload
      <4>3. mutex[req[u].h] = u
        BY <4>1, <4>2
      <4> QED
        BY <3>1, <4>1, <4>3
    <3>2. CASE w # u
      BY <1>2, <3>2 DEF GetEntry, Threads
    <3> QED
      BY <3>1, <3>2
  <2>4. TruncateOutside'
    BY <1>2 DEF GetEntry, Threads, AfterDownload
  <2> QED
    BY <2>1, <2>2, <2>3, <2>4
<1>3. ASSUME NEW u \in Users, FetchCopy(u)
      PROVE  LockInv'
    BY <1>3 DEF FetchCopy, Threads
<1>4. ASSUME NEW u \in Users, FetchDelete(u)
      PROVE  LockInv'
    BY <1>4 DEF FetchDelete, Threads
<1>5. ASSUME NEW u \in Users, FetchKeep(u)
      PROVE  LockInv'
    BY <1>5 DEF FetchKeep, Threads
<1>6. ASSUME NEW u \in Users, FetchExit(u)
      PROVE  LockInv'
    BY <1>6 DEF FetchExit, Threads
<1>7. ASSUME NEW u \in Users, FetchError(u)
      PROVE  LockInv'
  <2>1. RequestShape' /\ TruncateOutside'
    BY <1>7 DEF FetchError, Threads
  <2>2. OwnLocksHeld'
    BY <1>7 DEF FetchError, Threads
  <2>3. LoopLocksHeld'
    BY <1>7 DEF FetchError, Threads
  <2> QED
    BY <1>7, <2>1, <2>2, <2>3 DEF FetchError, Threads
<1>8. ASSUME NEW u \in Users, ClearServer(u)
      PROVE  LockInv'
    BY <1>8 DEF ClearServer, Threads
<1>9. ASSUME NEW u \in Users, SetLocal(u)
      PROVE  LockInv'
    BY <1>9 DEF SetLocal, Threads
<1>10. ASSUME NEW u \in Users, Start(u)
      PROVE  LockInv'
    BY <1>10 DEF Start, Threads, NoRequest, OpenHandles, InitHandles
<1>11. ASSUME NEW u \in Users, Acquire(u)
      PROVE  LockInv'
    BY <1>11 DEF Acquire, Threads
<1>12. ASSUME NEW u \in Users, PrepareRead(u)
      PROVE  LockInv'
  <2>1. /\ HoldsOwn(u) /\ pc[u] \notin DownloadSteps /\ req[u].h # Nil
        /\ ReleaseOwn(u, "pread")
    BY <1>12 DEF PrepareRead
  <2>2. /\ mutex' = [mutex EXCEPT ![req[u].h] = Nil]
        /\ Goto(u, "pread")
    BY <2>1, OwnUnlock
  <2>3. LoopLocksHeld'
    <3> SUFFICES ASSUME NEW t \in Threads, NEW k \in DOMAIN fhmap, HoldsAt(t, k)'
                 PROVE  mutex'[fhmap[k]] = t
      BY <1>12 DEF PrepareRead
    <3>1. t # u /\ HoldsAt(t, k)
      BY <1>12, <2>2 DEF PrepareRead, Threads
    <3> QED
      BY <2>1, <2>2, <3>1, OwnUnlock
  <2>4. OwnLocksHeld'
    <3> SUFFICES ASSUME NEW w \in Users, HoldsOwn(w)'
                 PROVE  mutex'[req'[w].h] = w
      OBVIOUS
    <3>1. w # u /\ HoldsOwn(w) /\ req'[w] = req[w]
      BY <1>12, <2>2 DEF PrepareRead, Threads
    <3> QED
      BY <2>1, <2>2, <3>1, OwnUnlock
  <2> QED
    BY <1>12, <2>2, <2>3, <2>4 DEF PrepareRead, Threads
<1>13. ASSUME NEW u \in Users, Pread(u)
      PROVE  LockInv'
    BY <1>13 DEF Pread, Threads, Forget, NoRequest
<1>14. ASSUME NEW u \in Users, Pwrite(u)
      PROVE  LockInv'
  <2>1. /\ HoldsOwn(u) /\ pc[u] \notin DownloadSteps /\ req[u].h # Nil
        /\ ReleaseOwn(u, "idle")
    BY <1>14 DEF Pwrite
  <2>2. /\ mutex' = [mutex EXCEPT ![req[u].h] = Nil]
        /\ Goto(u, "idle")
    BY <2>1, OwnUnlock
  <2>3. LoopLocksHeld'
    <3> SUFFICES ASSUME NEW t \in Threads, NEW k \in DOMAIN fhmap, HoldsAt(t, k)'
                 PROVE  mutex'[fhmap[k]] = t
      BY <1>14 DEF Pwrite
    <3>1. t # u /\ HoldsAt(t, k)
      BY <1>14, <2>2 DEF Pwrite, Threads
    <3> QED
      BY <2>1, <2>2, <3>1, OwnUnlock
  <2>4. OwnLocksHeld'
    <3> SUFFICES ASSUME NEW w \in Users, HoldsOwn(w)'
                 PROVE  mutex'[req'[w].h] = w
      OBVIOUS
    <3>1. w # u /\ HoldsOwn(w) /\ req'[w] = req[w]
      BY <1>14, <2>2 DEF Pwrite, Threads, Forget, NoRequest
    <3> QED
      BY <2>1, <2>2, <3>1, OwnUnlock
  <2> QED
    BY <1>14, <2>2, <2>3, <2>4 DEF Pwrite, Threads, Forget, NoRequest
<1>15. ASSUME NEW u \in Users, Flush(u)
      PROVE  LockInv'
  <2>1. /\ HoldsOwn(u) /\ pc[u] \notin DownloadSteps /\ req[u].h # Nil
        /\ ReleaseOwn(u, "idle")
    BY <1>15 DEF Flush
  <2>2. /\ mutex' = [mutex EXCEPT ![req[u].h] = Nil]
        /\ Goto(u, "idle")
    BY <2>1, OwnUnlock
  <2>3. LoopLocksHeld'
    <3> SUFFICES ASSUME NEW t \in Threads, NEW k \in DOMAIN fhmap, HoldsAt(t, k)'
                 PROVE  mutex'[fhmap[k]] = t
      BY <1>15 DEF Flush
    <3>1. t # u /\ HoldsAt(t, k)
      BY <1>15, <2>2 DEF Flush, Threads
    <3> QED
      BY <2>1, <2>2, <3>1, OwnUnlock
  <2>4. OwnLocksHeld'
    <3> SUFFICES ASSUME NEW w \in Users, HoldsOwn(w)'
                 PROVE  mutex'[req'[w].h] = w
      OBVIOUS
    <3>1. w # u /\ HoldsOwn(w) /\ req'[w] = req[w]
      BY <1>15, <2>2 DEF Flush, Threads, Forget, NoRequest
    <3> QED
      BY <2>1, <2>2, <3>1, OwnUnlock
  <2> QED
    BY <1>15, <2>2, <2>3, <2>4 DEF Flush, Threads, Forget, NoRequest
<1>16. ASSUME NEW u \in Users, Ftruncate(u)
      PROVE  LockInv'
  <2>1. /\ HoldsOwn(u) /\ pc[u] \notin DownloadSteps /\ req[u].h # Nil
        /\ ReleaseOwn(u, "acquire")
    BY <1>16 DEF Ftruncate
  <2>2. /\ mutex' = [mutex EXCEPT ![req[u].h] = Nil]
        /\ Goto(u, "acquire")
    BY <2>1, OwnUnlock
  <2>3. LoopLocksHeld'
    <3> SUFFICES ASSUME NEW t \in Threads, NEW k \in DOMAIN fhmap, HoldsAt(t, k)'
                 PROVE  mutex'[fhmap[k]] = t
      BY <1>16 DEF Ftruncate
    <3>1. t # u /\ HoldsAt(t, k)
      BY <1>16, <2>2 DEF Ftruncate, Threads
    <3> QED
      BY <2>1, <2>2, <3>1, OwnUnlock
  <2>4. OwnLocksHeld'
    <3> SUFFICES ASSUME NEW w \in Users, HoldsOwn(w)'
                 PROVE  mutex'[req'[w].h] = w
      OBVIOUS
    <3>1. w # u /\ HoldsOwn(w) /\ req'[w] = req[w]
      BY <1>16, <2>2 DEF Ftruncate, Threads
    <3> QED
      BY <2>1, <2>2, <3>1, OwnUnlock
  <2> QED
    BY <1>16, <2>2, <2>3, <2>4 DEF Ftruncate, Threads
<1>17. ASSUME NEW u \in Users, Truncate(u)
      PROVE  LockInv'
    BY <1>17 DEF Truncate, Threads, Forget, NoRequest
<1>18. ASSUME NEW u \in Users, CopyRange(u)
      PROVE  LockInv'
    BY <1>18 DEF CopyRange, Threads, Forget, NoRequest
<1>19. ASSUME NEW u \in Users, StatLocal(u)
      PROVE  LockInv'
    BY <1>19 DEF StatLocal, Threads
<1>20. ASSUME NEW u \in Users, GetSize(u)
      PROVE  LockInv'
  <2>1. CASE req[u].h = Nil
    <3>1. ~HoldsOwn(u) /\ Goto(u, "idle") /\ mutex' = mutex
      BY <1>20, <2>1 DEF GetSize
    <3>2. OwnLocksHeld' /\ LoopLocksHeld'
      BY <1>20, <3>1 DEF GetSize, Threads, Forget, NoRequest
    <3> QED
      BY <1>20, <3>1, <3>2 DEF GetSize, Threads, Forget, NoRequest
  <2>2. CASE req[u].h # Nil
    <3>1. /\ HoldsOwn(u) /\ pc[u] \notin DownloadSteps /\ req[u].h # Nil
          /\ ReleaseOwn(u, "idle")
      BY <1>20, <2>2 DEF GetSize
    <3>2. /\ mutex' = [mutex EXCEPT ![req[u].h] = Nil]
          /\ Goto(u, "idle")
      BY <3>1, OwnUnlock
    <3>3. LoopLocksHeld'
      <4> SUFFICES ASSUME NEW t \in Threads, NEW k \in DOMAIN fhmap, HoldsAt(t, k)'
                   PROVE  mutex'[fhmap[k]] = t
        BY <1>20 DEF GetSize
      <4>1. t # u /\ HoldsAt(t, k)
        BY <1>20, <3>2 DEF GetSize, Threads
      <4> QED
        BY <3>1, <3>2, <4>1, OwnUnlock
    <3>4. OwnLocksHeld'
      <4> SUFFICES ASSUME NEW w \in Users, HoldsOwn(w)'
                   PROVE  mutex'[req'[w].h] = w
        OBVIOUS
      <4>1. w # u /\ HoldsOwn(w) /\ req'[w] = req[w]
        BY <1>20, <3>2 DEF GetSize, Threads, Forget, NoRequest
      <4> QED
        BY <3>1, <3>2, <4>1, OwnUnlock
    <3> QED
      BY <1>20, <3>2, <3>3, <3>4 DEF GetSize, Threads, Forget, NoRequest
  <2> QED
    BY <2>1, <2>2
<1>21. ASSUME NEW s \in Senders, Cycle(s)
      PROVE  LockInv'
    BY <1>21 DEF Cycle, Threads
<1>22. ASSUME NEW s \in Senders, Stat(s)
      PROVE  LockInv'
    BY <1>22 DEF Stat, Threads
<1>23. ASSUME NEW s \in Senders, SendCopy(s)
      PROVE  LockInv'
    BY <1>23 DEF SendCopy, Threads
<1>24. ASSUME NEW s \in Senders, SendExit(s)
      PROVE  LockInv'
    BY <1>24 DEF SendExit, Threads
<1>25. ASSUME NEW s \in Senders, SendError(s)
      PROVE  LockInv'
    BY <1>25 DEF SendError, Threads
<1>26. ASSUME NEW s \in Senders, SetServer(s)
      PROVE  LockInv'
    BY <1>26 DEF SetServer, Threads
<1>27. ASSUME NEW s \in Senders, SetRemote(s)
      PROVE  LockInv'
    BY <1>27 DEF SetRemote, Threads
<1>28. ASSUME NEW s \in Senders, SetSize(s)
      PROVE  LockInv'
    BY <1>28 DEF SetSize, Threads
<1>29. ASSUME NEW s \in Senders, Hollow(s)
      PROVE  LockInv'
    BY <1>29 DEF Hollow, Threads
<1>30. ASSUME NEW t \in Threads, RangeFHs(t)
      PROVE  LockInv'
    BY <1>30 DEF RangeFHs, Threads
<1>31. ASSUME NEW t \in Threads, LockFH(t)
      PROVE  LockInv'
    BY <1>31 DEF LockFH, Threads
<1>32. ASSUME NEW t \in Threads, LockedAll(t)
      PROVE  LockInv'
  <2>1. \A k \in DOMAIN fhmap : k < at[t]
    BY <1>32 DEF LockedAll
  <2>2. t \in Users /\ req[t].op = "ftruncate" => req[t].h \notin Range(fhmap)
    BY <1>32, <2>1, ListedHandle DEF LockedAll
  <2>3. LoopLocksHeld'
    BY <1>32, <2>1 DEF LockedAll, EndLoop
  <2>4. OwnLocksHeld' /\ TruncateOutside'
    BY <1>32, <2>2 DEF LockedAll, EndLoop, Threads
  <2>5. RequestShape' /\ SenderShape' /\ LoopShape'
    BY <1>32 DEF LockedAll, EndLoop, Threads
  <2> QED
    BY <1>32, <2>3, <2>4, <2>5 DEF LockedAll
<1>33. ASSUME NEW t \in Threads, UnlockFH(t)
      PROVE  LockInv'
  <2>1. /\ mutex' = [mutex EXCEPT ![fhmap[at[t]]] = Nil]
        /\ pc[t] = "unlock" /\ pc' = pc /\ req' = req
        /\ at' = [at EXCEPT ![t] = @ + 1]
    BY <1>33, UnlockOwned DEF UnlockFH
  <2>2. LoopLocksHeld'
    <3> SUFFICES ASSUME NEW o \in Threads, NEW k \in DOMAIN fhmap, HoldsAt(o, k)'
                 PROVE  mutex'[fhmap[k]] = o
      BY <1>33 DEF UnlockFH
    <3>1. HoldsAt(o, k) /\ (o = t => k # at[t])
      BY <2>1
    <3>2. fhmap[k] # fhmap[at[t]]
      BY <1>33, <3>1, UnlockOwned DEF UnlockFH
    <3>3. mutex[fhmap[k]] = o
      BY <3>1
    <3> QED
      BY <2>1, <3>2, <3>3, UnlockOwned
  <2>3. OwnLocksHeld'
    <3> SUFFICES ASSUME NEW u \in Users, HoldsOwn(u)'
                 PROVE  mutex'[req[u].h] = u
      BY <2>1
    <3>1. HoldsOwn(u) /\ mutex[req[u].h] = u
      BY <2>1
    <3>2. fhmap[at[t]] # req[u].h
      <4>1. CASE u = t
        <5>1. req[u].h \notin Range(fhmap)
          BY <2>1, <3>1, <4>1
        <5> QED
          BY <1>33, <5>1, UnlockOwned DEF UnlockFH, Range
      <4>2. CASE u # t
        BY <1>33, <3>1, <4>2, UnlockOwned DEF UnlockFH
      <4> QED
        BY <4>1, <4>2
    <3> QED
      BY <2>1, <3>1, <3>2
  <2>4. TruncateOutside'
    BY <1>33, <2>1 DEF UnlockFH, Threads
  <2> QED
    BY <1>33, <2>1, <2>2, <2>3, <2>4 DEF UnlockFH
<1>34. ASSUME NEW t \in Threads, UnlockFatal(t)
      PROVE  LockInv'
    BY <1>34, UnlockOwned DEF UnlockFatal
<1>35. ASSUME NEW t \in Threads, UnlockedAll(t)
      PROVE  LockInv'
    BY <1>35 DEF UnlockedAll, Threads, AfterDownload, EndLoop, Forget, NoRequest
<1>36. ASSUME NEW t \in Threads, UpdateFails(t)
      PROVE  LockInv'
  <2>1. LoopLocksHeld'
    BY <1>36 DEF UpdateFails, Threads
  <2>2. t \in Users /\ req[t].op = "ftruncate" => req[t].h \notin Range(fhmap)
    BY <1>36 DEF UpdateFails
  <2>3. TruncateOutside'
    BY <1>36, <2>2 DEF UpdateFails, Threads
  <2>4. OwnLocksHeld'
    BY <1>36, <2>2 DEF UpdateFails, Threads
  <2>5. RequestShape' /\ SenderShape'
    BY <1>36 DEF UpdateFails, Threads
  <2> QED
    BY <1>36, <2>1, <2>3, <2>4, <2>5 DEF UpdateFails
<1>37. CASE Crash
    BY <1>37 DEF Crash, InitHandles, NoRequest, Threads
<1> QED
    BY <1>1, <1>2, <1>3, <1>4, <1>5, <1>6, <1>7, <1>8, <1>9, <1>10, <1>11, <1>12,
       <1>13, <1>14, <1>15, <1>16, <1>17, <1>18, <1>19, <1>20, <1>21, <1>22, <1>23,
       <1>24, <1>25, <1>26, <1>27, <1>28, <1>29, <1>30, <1>31, <1>32, <1>33, <1>34,
       <1>35, <1>36, <1>37
       DEF NextStable, UserStep, SenderStep, LoopNext, DownloadNext, RequestNext,
           SendNext, Threads

\* A handle that is opened, or released, between two transfers: no loop runs and no
\* thread holds the mutexes of the table.
LEMMA LockStepHandles ==
    TypeOK /\ LockInv /\ Quiet /\ HandleNext => LockInv'
<1> SUFFICES ASSUME TypeOK, LockInv, Quiet, NEW h \in Handles,
                    Open(h) \/ Release(h) \/ ReleasePanic(h)
             PROVE  LockInv'
  BY DEF HandleNext
<1> USE DEF LockInv, RequestShape, SenderShape, TruncateOutside, LoopShape,
        LoopLocksHeld, OwnLocksHeld
<1>1. \A t \in Threads : \A k : ~HoldsAt(t, k)
  BY DEF Quiet, HoldsAt
<1>2. CASE Open(h) \/ Release(h)
  <2>1. UNCHANGED <<mutex, pc, req>>
    BY <1>2 DEF Open, Release
  <2>2. RequestShape' /\ SenderShape'
    BY <2>1
  <2>3. Quiet'
    BY <2>1 DEF Quiet
  <2>4. \A t \in Threads : \A k : ~HoldsAt(t, k)'
    BY <2>3 DEF Quiet, HoldsAt
  <2>5. LoopLocksHeld' /\ LoopShape'
    BY <2>3, <2>4 DEF Quiet
  <2>6. \A u \in Users : HoldsOwn(u)' <=> HoldsOwn(u)
    BY <2>1 DEF HoldsOwn
  <2>7. OwnLocksHeld'
    BY <2>1, <2>6
  <2>8. \A u \in Users : pc'[u] \in DownloadSteps => pc'[u] \in {"getentry", "lockFHs"}
    BY <2>3 DEF Quiet, DownloadSteps, TransferSteps, Threads
  <2>9. TruncateOutside'
    BY <2>8
  <2> QED
    BY <2>2, <2>5, <2>7, <2>9
<1>3. CASE ReleasePanic(h)
  <2>1. /\ pc' = [t \in Threads |-> "dead"]
        /\ UNCHANGED <<req, mutex, fhs, at, fhmap>>
    BY <1>3 DEF ReleasePanic, Die, table, loop
  <2>2. RequestShape' /\ SenderShape'
    BY <2>1 DEF Threads, DownloadSteps
  <2>3. LoopLocksHeld' /\ LoopShape'
    BY <2>1 DEF HoldsAt, TransferSteps, SenderSteps
  <2>4. OwnLocksHeld' /\ TruncateOutside'
    BY <2>1 DEF HoldsOwn, DownloadSteps, Threads
  <2> QED
    BY <2>2, <2>3, <2>4
<1> QED
  BY <1>2, <1>3

\* Every step keeps the lock invariant, if handles come and go between two transfers.
LEMMA LockStep ==
    TypeOK /\ IsInjective(fhmap) /\ LockInv /\ [NextQuiet]_vars => LockInv'
BY LockStepStable, LockStepHandles DEF NextQuiet

\* At most one transfer is under way, and no request uses a handle meanwhile: both
\* would hold the mutex of the same handle.
LEMMA Exclusion == TypeOK /\ LockInv => TransfersExclusive
<1> SUFFICES ASSUME TypeOK, LockInv, NEW t \in Threads, NEW other \in Threads,
                    t # other, pc[t] \in TransferSteps, fhmap # << >>
             PROVE  pc[other] \notin TransferSteps /\ ~InCritical(other)
    BY DEF TransfersExclusive
<1>1. \A k \in DOMAIN fhmap : mutex[fhmap[k]] = t
    BY DEF LockInv, LoopLocksHeld, HoldsAt
<1>2. 1 \in DOMAIN fhmap
    BY EmptySeq DEF TypeOK
<1>3. pc[other] \notin TransferSteps
    BY <1>1, <1>2 DEF LockInv, LoopLocksHeld, HoldsAt
<1>4. ~InCritical(other)
  <2> SUFFICES ASSUME InCritical(other) PROVE FALSE
    OBVIOUS
  <2>1. other \in Users /\ req[other].h \in Range(fhmap)
    BY DEF InCritical
  <2>2. HoldsOwn(other)
    BY <2>1, ListedHandle DEF InCritical, LockInv, RequestShape, HoldsOwn,
        LockedOps, DownloadOps, PathOps
  <2>3. mutex[req[other].h] = other
    BY <2>1, <2>2 DEF LockInv, OwnLocksHeld
  <2> QED
    BY <1>1, <2>1, <2>3, ListedHandle
<1> QED
    BY <1>3, <1>4

\* unlockFHs gives back what lockFHs took.
LEMMA Ownership == TypeOK /\ IsInjective(fhmap) /\ LockInv => UnlocksOwn
BY UnlockOwned DEF UnlocksOwn

\* The lock invariant holds at the start.
LEMMA LockInit == Init => LockInv
BY DEF Init, LockInv, RequestShape, TruncateOutside, SenderShape, LoopShape,
    LoopLocksHeld, OwnLocksHeld, HoldsOwn, HoldsAt, NoRequest, Threads, DownloadSteps,
    TransferSteps, SenderSteps

-----------------------------------------------------------------------------
(* The handles of the start.                                               *)

\* A truncation through a handle waits for the mutex that it holds.
LEMMA TruncatesWait ==
    TypeOK /\ LockInv /\ TableStable /\ RequestsListed => TruncateWaits
BY DEF LockInv, RequestShape, TruncateOutside, TableStable, RequestsListed, TruncateWaits,
   PathOps, DownloadSteps

LEMMA StableInit == TypeOK /\ Init => StableInv
<1> SUFFICES ASSUME TypeOK, Init PROVE StableInv
  OBVIOUS
<1>1. TableStable /\ Alive /\ RequestsListed
  BY DEF Init, TableStable, Alive, RequestsListed, NoRequest
<1> QED
  BY <1>1, LockInit, TruncatesWait DEF StableInv

\* While no handle comes or goes, every step keeps the stronger invariant.
LEMMA StableStep == TypeOK /\ StableInv /\ [NextStable]_vars => StableInv'
<1> SUFFICES ASSUME TypeOK, StableInv, [NextStable]_vars PROVE StableInv'
  OBVIOUS
<1>1. IsInjective(fhmap) /\ LockInv
  BY DEF StableInv, TableStable
<1>2. LockInv' /\ TypeOK'
  BY <1>1, LockStepStable, TypeStep DEF Next
<1>3. TableStable'
  BY DEF StableInv, TableStable, NextStable, UserStep, SenderStep, LoopNext,
     DownloadNext, RequestNext, SendNext, vars, table, Start, GetEntry, FetchCopy,
     FetchDelete, FetchKeep, FetchExit, FetchError, ClearServer, SetLocal, Acquire,
     PrepareRead, Pread, Pwrite, Flush, Ftruncate, Truncate, CopyRange, StatLocal,
     GetSize, Cycle, Stat, SendCopy, SendExit, SendError, SetServer, SetRemote,
     SetSize, Hollow, UpdateFails, RangeFHs, LockFH, LockedAll, UnlockFH,
     UnlockFatal, UnlockedAll, Crash
<1>4. Alive'
  <2> SUFFICES ASSUME NEW t \in Threads, pc'[t] = "dead" PROVE FALSE
    BY DEF Alive
  <2>1. \A o \in Threads : ~UnlockFatal(o)
    BY <1>1, UnlockOwned DEF UnlockFatal
  <2>2. ASSUME NEW u \in Users, PrepareRead(u) \/ Pwrite(u) \/ Flush(u) \/ Ftruncate(u)
        PROVE  FALSE
    <3>1. req[u].op \in LockedOps
      BY <2>2 DEF PrepareRead, Pwrite, Flush, Ftruncate, LockedOps
    <3>2. PICK step \in {"pread", "idle", "acquire"} : ReleaseOwn(u, step) /\ pc[u] = "io"
      BY <2>2 DEF PrepareRead, Pwrite, Flush, Ftruncate
    <3> QED
      BY <1>1, <3>1, <3>2, GoesOn DEF StableInv, Alive, TypeOK
  <2>3. ASSUME NEW u \in Users, GetSize(u)
        PROVE  FALSE
    <3>1. CASE req[u].h = Nil
      BY <2>3, <3>1 DEF GetSize, Goto, StableInv, Alive, TypeOK
    <3>2. CASE req[u].h # Nil
      <4>1. req[u].op \in LockedOps /\ ReleaseOwn(u, "idle") /\ pc[u] = "getsize"
        BY <1>1, <2>3, <3>2 DEF GetSize, LockInv, RequestShape, LockedOps, PathOps
      <4> QED
        BY <1>1, <4>1, GoesOn DEF StableInv, Alive, TypeOK
    <3> QED
      BY <3>1, <3>2
  <2> USE DEF StableInv, Alive, TypeOK, Goto
  <2>4. ASSUME NEW u \in Users, Start(u) \/ DownloadNext(u)
        PROVE  FALSE
    BY <2>4, AfterDownloadStep
       DEF DownloadNext, Start, GetEntry, FetchCopy, FetchDelete, FetchKeep, FetchExit,
           FetchError, ClearServer, SetLocal
  <2>5. ASSUME NEW u \in Users,
               Acquire(u) \/ Pread(u) \/ Truncate(u) \/ CopyRange(u) \/ StatLocal(u)
        PROVE  FALSE
    BY <2>5 DEF Acquire, Pread, Truncate, CopyRange, StatLocal
  <2>6. ASSUME NEW s \in Senders, Cycle(s) \/ SendNext(s)
        PROVE  FALSE
    BY <2>6 DEF SendNext, Cycle, Stat, SendCopy, SendExit, SendError, SetServer,
       SetRemote, SetSize, Hollow
  <2>7. ASSUME NEW o \in Threads, LoopNext(o) \/ UpdateFails(o)
        PROVE  FALSE
    BY <2>1, <2>7, AfterDownloadStep
       DEF LoopNext, RangeFHs, LockFH, LockedAll, UnlockFH, UnlockedAll, UpdateFails
  <2>8. CASE Crash \/ UNCHANGED vars
    BY <2>8 DEF Crash, vars
  <2> QED
    BY <2>2, <2>3, <2>4, <2>5, <2>6, <2>7, <2>8
       DEF NextStable, UserStep, SenderStep, RequestNext, Threads
<1>5. RequestsListed'
  <2> USE DEF StableInv, RequestsListed, TypeOK, Requests
  <2>1. ASSUME NEW u \in Users, Start(u)
        PROVE  RequestsListed'
    <3>1. OpenHandles \subseteq Range(InitReg)
      BY DEF OpenHandles, TableStable, InitHandles
    <3> QED
      BY <2>1, <3>1 DEF Start, NoRequest, Goto
  <2>2. ASSUME NEW u \in Users, GetEntry(u)
        PROVE  RequestsListed'
    BY <2>2 DEF GetEntry, Goto
  <2>3. ASSUME NEW u \in Users, DownloadNext(u), ~GetEntry(u)
        PROVE  RequestsListed'
    <3>1. CASE FetchError(u)
      BY <3>1 DEF FetchError, Goto, Threads
    <3>2. CASE ~FetchError(u)
      <4>1. req' = req /\ ~req[u].err
        BY <2>3, <3>2
           DEF DownloadNext, FetchCopy, FetchDelete, FetchKeep, FetchExit,
               ClearServer, SetLocal
      <4>2. \A w \in Users : w # u => pc'[w] = pc[w]
        BY <2>3, <3>2
           DEF DownloadNext, FetchCopy, FetchDelete, FetchKeep, FetchExit,
               ClearServer, SetLocal, Goto, Threads
      <4> QED
        BY <4>1, <4>2
    <3> QED
      BY <3>1, <3>2
  <2>4. ASSUME NEW u \in Users, RequestNext(u)
        PROVE  RequestsListed'
    <3>1. ~req[u].err
      BY <2>4 DEF RequestNext, Acquire, PrepareRead, Pread, Pwrite, Flush, Ftruncate,
         Truncate, CopyRange, StatLocal, GetSize
    <3>2. \A w \in Users : w # u => req'[w] = req[w] /\ pc'[w] = pc[w]
      <4>1. \A w \in Users : w # u => req'[w] = req[w]
        BY <2>4 DEF RequestNext, Acquire, PrepareRead, Pread, Pwrite, Flush, Ftruncate,
           Truncate, CopyRange, StatLocal, GetSize, Forget
      <4>2. \A w \in Users : w # u => pc'[w] = pc[w]
        BY <1>4, <2>4 DEF RequestNext, Acquire, PrepareRead, Pread, Pwrite, Flush, Ftruncate,
           Truncate, CopyRange, StatLocal, GetSize, ReleaseOwn, Die, Goto, Alive, Threads
      <4> QED
        BY <4>1, <4>2
    <3>3. \/ req'[u] = req[u]
          \/ req'[u] = NoRequest
          \/ req'[u] = [req[u] EXCEPT !.op = "getattr"]
      BY <2>4 DEF RequestNext, Acquire, PrepareRead, Pread, Pwrite, Flush, Ftruncate,
         Truncate, CopyRange, StatLocal, GetSize, Forget
    <3>4. ~req'[u].err /\ (req'[u].h # Nil => req'[u].h = req[u].h)
      <4>1. req[u] \in Requests
        OBVIOUS
      <4>2. CASE req'[u] = [req[u] EXCEPT !.op = "getattr"]
        <5>1. req'[u].err = req[u].err /\ req'[u].h = req[u].h
          BY <4>1, <4>2 DEF Requests
        <5> QED
          BY <3>1, <5>1
      <4>3. CASE req'[u] = NoRequest
        BY <4>3 DEF NoRequest
      <4>4. CASE req'[u] = req[u]
        BY <3>1, <4>4
      <4> QED
        BY <3>3, <4>2, <4>3, <4>4
    <3> QED
      BY <3>2, <3>4
  <2>5. ASSUME NEW s \in Senders, Cycle(s) \/ SendNext(s)
        PROVE  RequestsListed'
    BY <2>5 DEF SendNext, Cycle, Stat, SendCopy, SendExit, SendError, SetServer,
       SetRemote, SetSize, Hollow, Goto, Threads
  <2>6. ASSUME NEW t \in Threads, RangeFHs(t) \/ LockFH(t) \/ LockedAll(t) \/ UnlockFH(t)
        PROVE  RequestsListed'
    <3>1. req' = req /\ \A o \in Threads : o # t => pc'[o] = pc[o]
      BY <2>6 DEF RangeFHs, LockFH, LockedAll, UnlockFH, Goto
    <3>2. pc[t] = "unlockFHs" => pc'[t] = "unlock"
      BY <2>6 DEF RangeFHs, LockFH, LockedAll, UnlockFH, Goto
    <3>3. pc[t] = "unlock" => pc'[t] = "unlock"
      BY <2>6 DEF RangeFHs, LockFH, LockedAll, UnlockFH, Goto
    <3> QED
      BY <3>1, <3>2, <3>3 DEF Threads
  <2>7. ASSUME NEW t \in Threads, UnlockedAll(t)
        PROVE  RequestsListed'
    <3>1. t \in Users /\ req[t].err => AfterDownload(t) = "idle"
      <4>1. t \in Users => req[t].op # "ftruncate"
        BY <2>7 DEF UnlockedAll, TruncateWaits, DownloadSteps
      <4> QED
        BY <4>1 DEF AfterDownload
    <3> QED
      BY <2>7, <3>1 DEF UnlockedAll, Forget, NoRequest, Goto
  <2>8. ASSUME NEW t \in Threads, UpdateFails(t) \/ UnlockFatal(t)
        PROVE  RequestsListed'
    <3>1. ~UnlockFatal(t)
      BY <1>1, UnlockOwned DEF UnlockFatal
    <3>2. req' = req /\ pc[t] \notin {"unlockFHs", "unlock"}
      BY <2>8, <3>1 DEF UpdateFails
    <3>3. \A o \in Threads : o # t => pc'[o] = pc[o]
      BY <2>8, <3>1 DEF UpdateFails, Goto
    <3> QED
      BY <3>2, <3>3 DEF Threads
  <2>9. CASE Crash \/ UNCHANGED vars
    BY <2>9 DEF Crash, vars, NoRequest
  <2> QED
    BY <2>1, <2>2, <2>3, <2>4, <2>5, <2>6, <2>7, <2>8, <2>9
       DEF NextStable, UserStep, SenderStep, LoopNext, Threads
<1>6. TruncateWaits'
  BY <1>2, <1>3, <1>5, TruncatesWait, PTL
<1> QED
  BY <1>2, <1>3, <1>4, <1>5, <1>6 DEF StableInv

-----------------------------------------------------------------------------
(* Who is alone with the file.                                             *)

\* Requests that lock their handle, and failures that Download and SendRemote notice.
Guarded ==
    /\ Ops \cap {"copy", "truncate"} = {}
    /\ Failures \cap {"exit", "update"} = {}

\* A request that transfers the file, or is about to change it, excludes a cycle that
\* transfers it.
LEMMA SenderExcluded ==
    ASSUME TypeOK, StableInv, Guarded, NEW u \in Users, NEW s \in Senders,
           \/ pc[u] \in {"fetch", "delete", "clear", "relocal"}
           \/ pc[u] = "io"
    PROVE  pc[s] \notin TransferSteps
<1>1. req[u].op \in LockedOps /\ req[u].op # "copy"
    BY DEF StableInv, LockInv, RequestShape, RequestsListed, Guarded, DownloadSteps, DownloadOps, LockedOps
<1>2. req[u].h \in Range(InitReg)
    BY <1>1 DEF StableInv, LockInv, RequestShape, RequestsListed, LockedOps, PathOps
<1>3. fhmap # << >>
    BY <1>2, RegisteredHandle, EmptySeq DEF StableInv, TableStable
<1>4. u # s /\ u \in Threads /\ s \in Threads
    BY DEF Threads
<1>5. pc[u] \in TransferSteps \/ InCritical(u)
    BY <1>1, <1>2 DEF InCritical, TransferSteps, StableInv, TableStable
<1> QED
    BY <1>3, <1>4, <1>5, Exclusion DEF TransfersExclusive, StableInv

\* A request that brings the file is alone with it.
LEMMA DownloadAlone ==
    ASSUME TypeOK, StableInv, Guarded, NEW u \in Users,
           pc[u] \in {"fetch", "delete", "clear", "relocal"}
    PROVE  \A t \in Threads : t # u => pc[t] \notin TransferSteps /\ pc[t] # "io"
<1>1. req[u].h \in Range(InitReg)
    BY DEF StableInv, LockInv, RequestShape, RequestsListed, Guarded, DownloadSteps, DownloadOps, PathOps
<1>2. fhmap # << >> /\ TransfersExclusive
    BY <1>1, RegisteredHandle, EmptySeq, Exclusion DEF StableInv, TableStable
<1>3. \A t \in Threads : t # u => pc[t] \notin TransferSteps /\ ~InCritical(t)
    BY <1>2 DEF TransfersExclusive, TransferSteps, Threads
<1>4. ASSUME NEW t \in Users, pc[t] = "io"
      PROVE  InCritical(t)
    BY <1>4 DEF InCritical, StableInv, TableStable, LockInv, RequestShape, RequestsListed, Guarded, DownloadOps,
       PathOps
<1>5. \A s \in Senders : pc[s] # "io"
    BY DEF StableInv, LockInv, Alive, SenderShape, LoopSteps, SenderSteps
<1> QED
    BY <1>3, <1>4, <1>5 DEF Threads

-----------------------------------------------------------------------------
(* Theorems.                                                               *)

\* The types hold in every behaviour, with handles that come and go.
THEOREM TypeCorrect == Spec => []TypeOK
<1>1. Init => TypeOK
    BY InitType
<1>2. TypeOK /\ [Next]_vars => TypeOK'
    BY TypeStep
<1> QED
    BY <1>1, <1>2, PTL DEF Spec

\* The invariant of the locks and of the requests, while no handle comes or goes.
THEOREM StableInvariant == SpecStable => [](TypeOK /\ StableInv)
<1>1. Init => TypeOK /\ StableInv
    BY InitType, StableInit
<1>2. TypeOK /\ StableInv /\ [NextStable]_vars => TypeOK' /\ StableInv'
    BY TypeStep, StableStep DEF Next
<1> QED
    BY <1>1, <1>2, PTL DEF SpecStable
=============================================================================

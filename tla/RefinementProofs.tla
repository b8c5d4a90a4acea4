-------------------------- MODULE RefinementProofs --------------------------
(***************************************************************************)
(* FileTransfer implements TieredFile, for every set of handles, blocks    *)
(* and crashes, under the hypotheses named below: each of them is needed   *)
(* (the README names the run that shows it).                               *)
(***************************************************************************)
EXTENDS FileTransferProofs

USE ThreadsAssumption, HandlesAssumption, OpsAssumption, NilAssumption

\* One request and one cycle at a time.
Serial ==
    /\ \A u, v \in Users : u = v
    /\ \A s, r \in Senders : s = r
    /\ Guarded

\* No request that truncates a handle is in a transfer.
LEMMA NoTruncateInTransfer ==
    ASSUME TypeOK, StableInv, NEW u \in Users, pc[u] \in DownloadSteps,
           pc[u] \notin {"getentry", "lockFHs", "lock"}
    PROVE  req[u].op # "ftruncate"
BY DEF StableInv, LockInv, RequestsListed, Alive, TruncateWaits

-----------------------------------------------------------------------------
(* Where the bytes are.                                                    *)

\* The data invariant holds at the start.
LEMMA DataInit == Init => DataInv
BY DEF Init, DataInv, Downloaded, Threads

\* Every step keeps the data invariant.
LEMMA DataStep == Serial /\ TypeOK /\ StableInv /\ DataInv /\ [NextStable]_vars => DataInv'
<1> SUFFICES ASSUME Serial, TypeOK, StableInv, DataInv, [NextStable]_vars PROVE DataInv'
    OBVIOUS
<1> USE DEF TypeOK, DataInv, Downloaded, Serial, Guarded, table, bucket, disk, loop,
       Goto, Threads
<1>1. CASE UNCHANGED vars
    BY <1>1 DEF vars
<1>2. ASSUME NEW u \in Users, GetEntry(u)
      PROVE  DataInv'
    BY <1>2 DEF GetEntry, AfterDownload
<1>3. ASSUME NEW u \in Users, FetchCopy(u)
      PROVE  DataInv'
    BY <1>3, SenderExcluded DEF FetchCopy, TransferSteps, SenderSteps
<1>4. ASSUME NEW u \in Users, FetchDelete(u)
      PROVE  DataInv'
    BY <1>4, SenderExcluded DEF FetchDelete, TransferSteps, SenderSteps
<1>5. ASSUME NEW u \in Users, FetchKeep(u)
      PROVE  DataInv'
    BY <1>5 DEF FetchKeep
<1>6. ASSUME NEW u \in Users, FetchExit(u)
      PROVE  DataInv'
    BY <1>6 DEF FetchExit
<1>7. ASSUME NEW u \in Users, FetchError(u)
      PROVE  DataInv'
    BY <1>7 DEF FetchError
<1>8. ASSUME NEW u \in Users, ClearServer(u)
      PROVE  DataInv'
    BY <1>8, SenderExcluded DEF ClearServer, TransferSteps, SenderSteps
<1>9. ASSUME NEW u \in Users, SetLocal(u)
      PROVE  DataInv'
    BY <1>9, SenderExcluded DEF SetLocal, TransferSteps, SenderSteps
<1>10. ASSUME NEW u \in Users, Start(u)
      PROVE  DataInv'
    BY <1>10 DEF Start, Forget, NoRequest
<1>11. ASSUME NEW u \in Users, Acquire(u)
      PROVE  DataInv'
  <2>1. /\ req' = req /\ row' = row /\ local' = local
        /\ stored' = stored /\ object' = object
        /\ pc[u] = "acquire" /\ req[u].op \in LockedOps /\ ~req[u].err
    BY <1>11 DEF Acquire, StableInv, LockInv, RequestsListed, Alive, RequestShape
  <2>2. CASE req[u].op = "getattr"
    <3>1. pc' = [pc EXCEPT ![u] = "stat"]
      BY <1>11, <2>2 DEF Acquire
    <3> QED
      BY <2>1, <3>1
  <2>3. CASE req[u].op = "ftruncate"
    <3>1. pc' = [pc EXCEPT ![u] = "getentry"]
      BY <1>11, <2>3 DEF Acquire
    <3> QED
      BY <2>1, <3>1
  <2>4. CASE req[u].op \notin {"getattr", "ftruncate"}
    <3>1. pc' = [pc EXCEPT ![u] = "io"]
      BY <1>11, <2>4 DEF Acquire
    <3>2. req[u].op = "flush" \/ Downloaded(u)
      BY <2>1, <2>4 DEF LockedOps
    <3> QED
      BY <2>1, <3>1, <3>2
  <2> QED
    BY <2>2, <2>3, <2>4
<1>12. ASSUME NEW u \in Users, PrepareRead(u)
      PROVE  DataInv'
    BY <1>12 DEF PrepareRead, ReleaseOwn, Die
<1>13. ASSUME NEW u \in Users, Pread(u)
      PROVE  DataInv'
    BY <1>13 DEF Pread, Forget, NoRequest
<1>14. ASSUME NEW u \in Users, Pwrite(u)
      PROVE  DataInv'
  <2>1. pc' = [pc EXCEPT ![u] = "idle"]
    BY <1>14, GoesOn DEF StableInv, Pwrite, LockedOps
  <2> QED
    BY <1>14, <2>1, SenderExcluded
       DEF Pwrite, TransferSteps, SenderSteps, Forget, NoRequest
<1>15. ASSUME NEW u \in Users, Flush(u)
      PROVE  DataInv'
  <2>1. pc' = [pc EXCEPT ![u] = "idle"]
    BY <1>15, GoesOn DEF StableInv, Flush, LockedOps
  <2> QED
    BY <1>15, <2>1 DEF Flush, Forget, NoRequest
<1>16. ASSUME NEW u \in Users, Ftruncate(u)
      PROVE  DataInv'
    BY <1>16, SenderExcluded
       DEF Ftruncate, TransferSteps, SenderSteps, ReleaseOwn, Die
<1>17. ASSUME NEW u \in Users, Truncate(u)
      PROVE  DataInv'
    BY <1>17 DEF Truncate, StableInv, LockInv, RequestsListed, Alive, RequestShape
<1>18. ASSUME NEW u \in Users, CopyRange(u)
      PROVE  DataInv'
    BY <1>18 DEF CopyRange, StableInv, LockInv, RequestsListed, Alive, RequestShape
<1>19. ASSUME NEW u \in Users, StatLocal(u)
      PROVE  DataInv'
    BY <1>19 DEF StatLocal
<1>20. ASSUME NEW u \in Users, GetSize(u)
      PROVE  DataInv'
  <2>1. pc' = [pc EXCEPT ![u] = "idle"]
    <3>1. CASE req[u].h = Nil
      BY <1>20, <3>1 DEF GetSize
    <3>2. CASE req[u].h # Nil
      <4>1. ReleaseOwn(u, "idle") /\ pc[u] = "getsize"
        BY <1>20, <3>2 DEF GetSize
      <4>2. req[u].op \in LockedOps
        BY <3>2, <4>1
           DEF StableInv, LockInv, RequestsListed, Alive, RequestShape,
           LockedOps, PathOps
      <4> QED
        BY <4>1, <4>2, GoesOn DEF StableInv
    <3> QED
      BY <3>1, <3>2
  <2> QED
    BY <1>20, <2>1 DEF GetSize, Forget, NoRequest
<1>21. ASSUME NEW s \in Senders, Cycle(s)
      PROVE  DataInv'
    BY <1>21 DEF Cycle
<1>22. ASSUME NEW s \in Senders, Stat(s)
      PROVE  DataInv'
    BY <1>22 DEF Stat
<1>23. ASSUME NEW s \in Senders, SendCopy(s)
      PROVE  DataInv'
    BY <1>23, SenderExcluded DEF SendCopy, TransferSteps, SenderSteps
<1>24. ASSUME NEW s \in Senders, SendExit(s)
      PROVE  DataInv'
    BY <1>24 DEF SendExit
<1>25. ASSUME NEW s \in Senders, SendError(s)
      PROVE  DataInv'
    BY <1>25 DEF SendError
<1>26. ASSUME NEW s \in Senders, SetServer(s)
      PROVE  DataInv'
    BY <1>26 DEF SetServer
<1>27. ASSUME NEW s \in Senders, SetRemote(s)
      PROVE  DataInv'
    BY <1>27, SenderExcluded DEF SetRemote, TransferSteps, SenderSteps
<1>28. ASSUME NEW s \in Senders, SetSize(s)
      PROVE  DataInv'
    BY <1>28 DEF SetSize
<1>29. ASSUME NEW s \in Senders, Hollow(s)
      PROVE  DataInv'
    BY <1>29, SenderExcluded DEF Hollow, TransferSteps, SenderSteps
<1>30. ASSUME NEW t \in Threads, RangeFHs(t)
      PROVE  DataInv'
    BY <1>30 DEF RangeFHs, EndLoop, StableInv, LockInv, RequestsListed, Alive,
       SenderShape, RequestShape,
       LoopSteps, SenderSteps, UserSteps
<1>31. ASSUME NEW t \in Threads, LockFH(t)
      PROVE  DataInv'
    BY <1>31 DEF LockFH, EndLoop, StableInv, LockInv, RequestsListed, Alive,
       SenderShape, RequestShape,
       LoopSteps, SenderSteps, UserSteps
<1>32. ASSUME NEW t \in Threads, LockedAll(t)
      PROVE  DataInv'
    BY <1>32 DEF LockedAll, EndLoop, StableInv, LockInv, RequestsListed, Alive,
       SenderShape, RequestShape,
       LoopSteps, SenderSteps, UserSteps
<1>33. ASSUME NEW t \in Threads, UnlockFH(t)
      PROVE  DataInv'
    BY <1>33 DEF UnlockFH, EndLoop, StableInv, LockInv, RequestsListed, Alive,
       SenderShape, RequestShape,
       LoopSteps, SenderSteps, UserSteps
<1>34. ASSUME NEW t \in Threads, UnlockFatal(t)
      PROVE  DataInv'
    BY <1>34, UnlockOwned DEF UnlockFatal, StableInv, TableStable
<1>35. ASSUME NEW t \in Threads, UnlockedAll(t)
      PROVE  DataInv'
    BY <1>35, NoTruncateInTransfer
       DEF UnlockedAll, Forget, NoRequest, AfterDownload, DownloadSteps
<1>36. ASSUME NEW t \in Threads, UpdateFails(t)
      PROVE  DataInv'
    BY <1>36 DEF UpdateFails
<1>37. CASE Crash
    BY <1>37 DEF Crash
<1> QED
    BY <1>1, <1>2, <1>3, <1>4, <1>5, <1>6, <1>7, <1>8, <1>9, <1>10, <1>11,
       <1>12, <1>13, <1>14, <1>15, <1>16, <1>17, <1>18, <1>19, <1>20, <1>21,
       <1>22, <1>23, <1>24, <1>25, <1>26, <1>27, <1>28, <1>29, <1>30, <1>31,
       <1>32, <1>33, <1>34, <1>35, <1>36, <1>37
       DEF NextStable, UserStep, SenderStep, LoopNext, DownloadNext, RequestNext,
           SendNext

-----------------------------------------------------------------------------
(* Every step is a step of TieredFile, or invisible.                       *)

\* The step is invisible.
Still == Content' = Content /\ Tier' = Tier /\ Changing' = Changing

\* A file whose row and bytes do not change looks the same.
LEMMA SameBytes ==
    ASSUME UNCHANGED <<row, local, bucket>>
    PROVE  Content' = Content /\ Tier' = Tier
BY DEF Content, Tier, bucket

\* Every step maps to a step of TieredFile or to a stutter.
LEMMA RefinementStep ==
    Serial /\ TypeOK /\ StableInv /\ DataInv /\ [NextStable]_vars =>
        [Tiered!Next]_(Tiered!vars)
<1> SUFFICES ASSUME Serial, TypeOK, StableInv, DataInv, [NextStable]_vars
             PROVE  [Tiered!Next]_(Tiered!vars)
    OBVIOUS
<1> USE DEF TypeOK, DataInv, Downloaded, Serial, Guarded, table, bucket, disk, loop,
       Goto, Threads
<1>1. CASE UNCHANGED vars
    BY <1>1 DEF vars, Tiered!vars, Content, Tier, Changing
<1>2. ASSUME NEW u \in Users, FetchCopy(u)
      PROVE  Still
    BY <1>2 DEF FetchCopy, Still, Content, Tier, Changing
<1>3. ASSUME NEW u \in Users, FetchDelete(u)
      PROVE  Still
    BY <1>3 DEF FetchDelete, Still, Content, Tier, Changing
<1>4. ASSUME NEW u \in Users, FetchKeep(u)
      PROVE  Still
    BY <1>4 DEF FetchKeep, Still, Content, Tier, Changing
<1>5. ASSUME NEW u \in Users, FetchExit(u)
      PROVE  Still
    BY <1>5 DEF FetchExit, Still, Content, Tier, Changing
<1>6. ASSUME NEW u \in Users, FetchError(u)
      PROVE  Still
    BY <1>6 DEF FetchError, Still, Content, Tier, Changing
<1>7. ASSUME NEW u \in Users, ClearServer(u)
      PROVE  Still
    BY <1>7 DEF ClearServer, Still, Content, Tier, Changing
<1>8. ASSUME NEW u \in Users, Start(u)
      PROVE  Still
    BY <1>8 DEF Start, Still, Content, Tier, Changing
<1>9. ASSUME NEW u \in Users, Pread(u)
      PROVE  Still
    BY <1>9 DEF Pread, Still, Content, Tier, Changing, Forget, NoRequest
<1>10. ASSUME NEW u \in Users, StatLocal(u)
      PROVE  Still
    BY <1>10 DEF StatLocal, Still, Content, Tier, Changing
<1>11. ASSUME NEW u \in Users, Truncate(u)
      PROVE  Still
    BY <1>11 DEF Truncate, Still, Content, Tier, Changing, StableInv, LockInv,
       RequestsListed, Alive, RequestShape
<1>12. ASSUME NEW u \in Users, CopyRange(u)
      PROVE  Still
    BY <1>12 DEF CopyRange, Still, Content, Tier, Changing, StableInv, LockInv,
       RequestsListed, Alive, RequestShape
<1>13. ASSUME NEW s \in Senders, Cycle(s)
      PROVE  Still
    BY <1>13 DEF Cycle, Still, Content, Tier, Changing
<1>14. ASSUME NEW s \in Senders, Stat(s)
      PROVE  Still
    BY <1>14 DEF Stat, Still, Content, Tier, Changing
<1>15. ASSUME NEW s \in Senders, SendCopy(s)
      PROVE  Still
    BY <1>15 DEF SendCopy, Still, Content, Tier, Changing
<1>16. ASSUME NEW s \in Senders, SendExit(s)
      PROVE  Still
    BY <1>16 DEF SendExit, Still, Content, Tier, Changing
<1>17. ASSUME NEW s \in Senders, SendError(s)
      PROVE  Still
    BY <1>17 DEF SendError, Still, Content, Tier, Changing
<1>18. ASSUME NEW s \in Senders, SetServer(s)
      PROVE  Still
    BY <1>18 DEF SetServer, Still, Content, Tier, Changing
<1>19. ASSUME NEW s \in Senders, SetSize(s)
      PROVE  Still
    BY <1>19 DEF SetSize, Still, Content, Tier, Changing
<1>20. ASSUME NEW s \in Senders, Hollow(s)
      PROVE  Still
    BY <1>20 DEF Hollow, Still, Content, Tier, Changing
<1>21. ASSUME NEW t \in Threads, RangeFHs(t)
      PROVE  Still
    BY <1>21 DEF RangeFHs, Still, Content, Tier, Changing
<1>22. ASSUME NEW t \in Threads, LockFH(t)
      PROVE  Still
    BY <1>22 DEF LockFH, Still, Content, Tier, Changing
<1>23. ASSUME NEW t \in Threads, LockedAll(t)
      PROVE  Still
    BY <1>23 DEF LockedAll, Still, Content, Tier, Changing
<1>24. ASSUME NEW t \in Threads, UnlockFH(t)
      PROVE  Still
    BY <1>24 DEF UnlockFH, Still, Content, Tier, Changing
<1>25. ASSUME NEW t \in Threads, UnlockFatal(t)
      PROVE  Still
    BY <1>25, UnlockOwned DEF UnlockFatal, StableInv, TableStable
<1>26. ASSUME NEW t \in Threads, UnlockedAll(t)
      PROVE  Still
  <2>1. pc[t] = "unlock" /\ UNCHANGED <<row, local, bucket>>
    BY <1>26 DEF UnlockedAll
  <2>2. CASE t \in Users
    <3>1. req[t].op \in {"read", "write"}
      <4>1. req[t].op \in DownloadOps /\ req[t].op \in Ops \cup {"getattr"}
        BY <2>1, <2>2
           DEF StableInv, LockInv, RequestsListed, Alive, RequestShape,
           DownloadSteps
      <4>2. req[t].op # "ftruncate"
        BY <2>1, <2>2, NoTruncateInTransfer DEF DownloadSteps
      <4> QED
        BY <4>1, <4>2 DEF DownloadOps
    <3>2. AfterDownload(t) \in {"idle", "acquire"}
      BY <3>1 DEF AfterDownload
    <3>3. pc' = [pc EXCEPT ![t] = AfterDownload(t)]
      BY <1>26, <2>2 DEF UnlockedAll
    <3>4. \A w \in Users : w # t => req'[w] = req[w]
      BY <1>26, <2>2 DEF UnlockedAll, Forget
    <3>5. Changing' = Changing
      BY <2>1, <2>2, <3>2, <3>3, <3>4 DEF Changing
    <3> QED
      BY <2>1, <3>5, SameBytes DEF Still
  <2>3. CASE t \notin Users
    <3>1. Changing' = Changing
      BY <1>26, <2>3 DEF UnlockedAll, Changing
    <3> QED
      BY <2>1, <3>1, SameBytes DEF Still
  <2> QED
    BY <2>2, <2>3
<1>27. ASSUME NEW t \in Threads, UpdateFails(t)
      PROVE  Still
    BY <1>27 DEF UpdateFails, Still, Content, Tier, Changing
<1>28. ASSUME NEW u \in Users, PrepareRead(u)
      PROVE  Still
  <2>1. pc' = [pc EXCEPT ![u] = "pread"]
    BY <1>28, GoesOn DEF StableInv, PrepareRead, LockedOps
  <2> QED
    BY <1>28, <2>1
       DEF PrepareRead, Still, Content, Tier, Changing, Forget, NoRequest
<1>29. ASSUME NEW u \in Users, Flush(u)
      PROVE  Still
  <2>1. pc' = [pc EXCEPT ![u] = "idle"]
    BY <1>29, GoesOn DEF StableInv, Flush, LockedOps
  <2> QED
    BY <1>29, <2>1 DEF Flush, Still, Content, Tier, Changing, Forget, NoRequest
<1>30. ASSUME NEW u \in Users, GetSize(u)
      PROVE  Still
  <2>1. pc[u] = "getsize" /\ (pc' = [pc EXCEPT ![u] = "idle"])
    <3>1. CASE req[u].h = Nil
      BY <1>30, <3>1 DEF GetSize
    <3>2. CASE req[u].h # Nil
      <4>1. ReleaseOwn(u, "idle") /\ pc[u] = "getsize"
        BY <1>30, <3>2 DEF GetSize
      <4>2. req[u].op \in LockedOps
        BY <3>2, <4>1
           DEF StableInv, LockInv, RequestsListed, Alive, RequestShape,
           LockedOps, PathOps
      <4> QED
        BY <4>1, <4>2, GoesOn DEF StableInv
    <3> QED
      BY <3>1, <3>2
  <2> QED
    BY <1>30, <2>1 DEF GetSize, Still, Content, Tier, Changing, Forget, NoRequest
<1>31. ASSUME NEW u \in Users, SetLocal(u)
      PROVE  Tiered!Restore
    BY <1>31 DEF SetLocal, Tiered!Restore, Content, Tier, Changing
<1>32. ASSUME NEW s \in Senders, SetRemote(s)
      PROVE  Tiered!Archive
    BY <1>32 DEF SetRemote, Tiered!Archive, Content, Tier, Changing
<1>33. ASSUME NEW u \in Users, GetEntry(u)
      PROVE  Still \/ Tiered!Begin(u)
  <2>1. /\ pc[u] = "getentry" /\ ~req[u].err /\ req'[u].op = req[u].op
        /\ ~req'[u].err
        /\ req[u].op \in {"read", "write", "ftruncate"}
    <3>1. pc[u] = "getentry" /\ req' = [req EXCEPT ![u].server = row.server]
      BY <1>33 DEF GetEntry
    <3>2. ~req[u].err /\ req[u].op \in DownloadOps /\ req[u].op \in Ops \cup {"getattr"}
      BY <3>1 DEF StableInv, LockInv, RequestsListed, Alive, RequestShape,
         DownloadSteps
    <3>3. req'[u].op = req[u].op /\ req'[u].err = req[u].err
      BY <3>1 DEF Requests
    <3> QED
      BY <3>1, <3>2, <3>3 DEF DownloadOps
  <2>2. Content' = Content /\ Tier' = Tier /\ u \notin Changing
    BY <1>33 DEF GetEntry, Content, Tier, Changing
  <2>3. CASE row.local /\ req[u].op = "ftruncate"
    <3>1. Changing' = Changing \cup {u}
      BY <1>33, <2>1, <2>3 DEF GetEntry, AfterDownload, Changing
    <3> QED
      BY <2>2, <3>1 DEF Tiered!Begin
  <2>4. CASE ~row.local \/ req[u].op # "ftruncate"
    <3>1. Changing' = Changing
      BY <1>33, <2>1, <2>4 DEF GetEntry, AfterDownload, Changing
    <3> QED
      BY <2>2, <3>1 DEF Still
  <2> QED
    BY <2>3, <2>4
<1>34. ASSUME NEW u \in Users, Acquire(u)
      PROVE  Still \/ Tiered!Begin(u)
  <2>1. /\ req' = req /\ pc[u] = "acquire" /\ req[u].op \in LockedOps
        /\ ~req[u].err
    BY <1>34 DEF Acquire, StableInv, LockInv, RequestsListed, Alive, RequestShape
  <2>2. Content' = Content /\ Tier' = Tier /\ u \notin Changing
    BY <1>34, <2>1 DEF Acquire, Content, Tier, Changing
  <2>3. CASE req[u].op = "write"
    <3>1. pc' = [pc EXCEPT ![u] = "io"]
      BY <1>34, <2>3 DEF Acquire
    <3>2. Changing' = Changing \cup {u}
      BY <2>1, <2>3, <3>1 DEF Changing
    <3> QED
      BY <2>2, <3>2 DEF Tiered!Begin
  <2>4. CASE req[u].op # "write"
    <3>1. Changing' = Changing
      <4>1. CASE req[u].op = "getattr"
        <5>1. pc' = [pc EXCEPT ![u] = "stat"]
          BY <1>34, <4>1 DEF Acquire
        <5> QED
          BY <2>1, <5>1 DEF Changing
      <4>2. CASE req[u].op = "ftruncate"
        <5>1. pc' = [pc EXCEPT ![u] = "getentry"]
          BY <1>34, <4>2 DEF Acquire
        <5> QED
          BY <2>1, <5>1 DEF Changing
      <4>3. CASE req[u].op \in {"read", "flush"}
        <5>1. pc' = [pc EXCEPT ![u] = "io"]
          BY <1>34, <4>3 DEF Acquire
        <5> QED
          BY <2>1, <4>3, <5>1 DEF Changing
      <4> QED
        BY <2>1, <2>4, <4>1, <4>2, <4>3 DEF LockedOps
    <3> QED
      BY <2>2, <3>1 DEF Still
  <2> QED
    BY <2>3, <2>4
<1>35. ASSUME NEW u \in Users, Pwrite(u)
      PROVE  Tiered!Write(u) \/ Tiered!Miss(u)
  <2>1. pc[u] = "io" /\ pc' = [pc EXCEPT ![u] = "idle"]
    BY <1>35, GoesOn DEF StableInv, Pwrite, LockedOps
  <2>2. ~req[u].err
    BY <2>1 DEF StableInv, LockInv, RequestsListed, Alive, RequestShape
  <2>3. u \in Changing /\ Changing' = Changing \ {u}
    BY <1>35, <2>1, <2>2 DEF Pwrite, Forget, NoRequest, Changing
  <2>4. row.local \/ stored
    BY <1>35 DEF Pwrite
  <2>5. CASE row.local
    BY <1>35, <2>2, <2>3, <2>5 DEF Pwrite, Tiered!Write, Content, Tier
  <2>6. CASE ~row.local
    BY <1>35, <2>3, <2>4, <2>6 DEF Pwrite, Tiered!Miss, Content, Tier
  <2> QED
    BY <2>5, <2>6
<1>36. ASSUME NEW u \in Users, Ftruncate(u)
      PROVE  Tiered!Truncate(u) \/ Tiered!Miss(u)
  <2>1. pc[u] = "io" /\ pc' = [pc EXCEPT ![u] = "acquire"]
    BY <1>36, GoesOn DEF StableInv, Ftruncate, LockedOps
  <2>2. ~req[u].err
    BY <2>1 DEF StableInv, LockInv, RequestsListed, Alive, RequestShape
  <2>3. u \in Changing /\ Changing' = Changing \ {u}
    BY <1>36, <2>1, <2>2 DEF Ftruncate, Forget, NoRequest, Changing
  <2>4. row.local \/ stored
    BY <1>36 DEF Ftruncate
  <2>5. CASE row.local
    BY <1>36, <2>2, <2>3, <2>5 DEF Ftruncate, Tiered!Truncate, Content, Tier
  <2>6. CASE ~row.local
    BY <1>36, <2>3, <2>4, <2>6 DEF Ftruncate, Tiered!Miss, Content, Tier
  <2> QED
    BY <2>5, <2>6
<1>37. CASE Crash
    BY <1>37 DEF Crash, Tiered!Restart, Tiered!vars, Tiered!Next, Content,
       Tier, Changing
<1>38. Still => [Tiered!Next]_(Tiered!vars)
    BY DEF Still, Tiered!vars
<1> QED
    BY <1>1, <1>2, <1>3, <1>4, <1>5, <1>6, <1>7, <1>8, <1>9, <1>10, <1>11,
       <1>12, <1>13, <1>14, <1>15, <1>16, <1>17, <1>18, <1>19, <1>20, <1>21,
       <1>22, <1>23, <1>24, <1>25, <1>26, <1>27, <1>28, <1>29, <1>30, <1>31,
       <1>32, <1>33, <1>34, <1>35, <1>36, <1>37, <1>38
       DEF NextStable, UserStep, SenderStep, LoopNext, DownloadNext, RequestNext,
           SendNext, Tiered!Next

\* An initial state maps to an initial state.
LEMMA RefinementInit == Init => Tiered!Init
BY DEF Init, Tiered!Init, Content, Tier, Changing, Threads

-----------------------------------------------------------------------------
(* The theorems.                                                           *)

\* At every step of a transfer, the bytes are where DataInv says: a crash there
\* leaves the content in one place at least.
THEOREM DataInvariant == ASSUME Serial PROVE SpecStable => []DataInv
<1>1. Init => DataInv
    BY DataInit
<1>2. TypeOK /\ StableInv /\ DataInv /\ [NextStable]_vars => DataInv'
    BY DataStep
<1> QED
    BY <1>1, <1>2, StableInvariant, PTL DEF SpecStable

\* The transfers of a file, crashes between their steps included, are invisible:
\* the file is a TieredFile.
THEOREM Refinement == ASSUME Serial PROVE SpecStable => Refines
<1>1. Init => Tiered!Init
    BY RefinementInit
<1>2. TypeOK /\ StableInv /\ DataInv /\ [NextStable]_vars => [Tiered!Next]_(Tiered!vars)
    BY RefinementStep
<1> QED
    BY <1>1, <1>2, StableInvariant, DataInvariant, PTL
       DEF SpecStable, Refines, Tiered!Spec
=============================================================================

----------------------------- MODULE SendProofs -----------------------------
(***************************************************************************)
(* What SendRemote and Download leave behind, for every number of cycles   *)
(* at a time and every set of handles and blocks: a copy is whole before   *)
(* the other one goes, and Getattr tells the size of the content wherever  *)
(* it is.                                                                  *)
(***************************************************************************)
EXTENDS FileTransferProofs

USE ThreadsAssumption, HandlesAssumption, OpsAssumption, NilAssumption

-----------------------------------------------------------------------------
(* The upload.                                                             *)

\* The object is whole at each step of SendRemote after the upload; what is left of
\* the file on the disk is part of it.
Sent ==
    \A s \in Senders :
        /\ pc[s] \in {"setserver", "setremote"} /\ row.local => object = local
        /\ pc[s] \in {"setserver", "setremote", "setsize", "hollow"} =>
                stored /\ local \subseteq object
        /\ pc[s] \in {"setremote", "setsize", "hollow"} => row.server
        /\ pc[s] \in {"setsize", "hollow"} => ~row.local

\* Nothing is sent at the start.
LEMMA SentInit == Init => Sent
BY DEF Init, Sent, Threads

\* Every step keeps the upload whole, or is none of SendRemote's.
LEMMA SentStep ==
    Guarded /\ TypeOK /\ StableInv /\ Sent /\ [NextStable]_vars => Sent'
<1> SUFFICES ASSUME Guarded, TypeOK, StableInv, Sent, [NextStable]_vars PROVE Sent'
    OBVIOUS
<1> USE DEF TypeOK, Sent, Guarded, table, bucket, disk, loop, Goto, Threads
<1>1. CASE UNCHANGED vars
    BY <1>1 DEF vars
<1>2. ASSUME NEW u \in Users, GetEntry(u)
      PROVE  Sent'
    BY <1>2 DEF GetEntry, AfterDownload
<1>3. ASSUME NEW u \in Users, FetchCopy(u)
      PROVE  Sent'
    BY <1>3, SenderExcluded DEF FetchCopy, TransferSteps, SenderSteps
<1>4. ASSUME NEW u \in Users, FetchDelete(u)
      PROVE  Sent'
    BY <1>4, SenderExcluded DEF FetchDelete, TransferSteps, SenderSteps
<1>5. ASSUME NEW u \in Users, FetchKeep(u)
      PROVE  Sent'
    BY <1>5 DEF FetchKeep
<1>6. ASSUME NEW u \in Users, FetchExit(u)
      PROVE  Sent'
    BY <1>6 DEF FetchExit
<1>7. ASSUME NEW u \in Users, FetchError(u)
      PROVE  Sent'
    BY <1>7 DEF FetchError
<1>8. ASSUME NEW u \in Users, ClearServer(u)
      PROVE  Sent'
    BY <1>8, SenderExcluded DEF ClearServer, TransferSteps, SenderSteps
<1>9. ASSUME NEW u \in Users, SetLocal(u)
      PROVE  Sent'
    BY <1>9, SenderExcluded DEF SetLocal, TransferSteps, SenderSteps
<1>10. ASSUME NEW u \in Users, Start(u)
      PROVE  Sent'
    BY <1>10 DEF Start
<1>11. ASSUME NEW u \in Users, Acquire(u)
      PROVE  Sent'
    BY <1>11 DEF Acquire
<1>12. ASSUME NEW u \in Users, PrepareRead(u)
      PROVE  Sent'
    BY <1>12 DEF PrepareRead, ReleaseOwn, Die
<1>13. ASSUME NEW u \in Users, Pread(u)
      PROVE  Sent'
    BY <1>13 DEF Pread
<1>14. ASSUME NEW u \in Users, Pwrite(u)
      PROVE  Sent'
    BY <1>14, SenderExcluded DEF Pwrite, TransferSteps, SenderSteps, ReleaseOwn, Die
<1>15. ASSUME NEW u \in Users, Flush(u)
      PROVE  Sent'
    BY <1>15 DEF Flush, ReleaseOwn, Die
<1>16. ASSUME NEW u \in Users, Ftruncate(u)
      PROVE  Sent'
    BY <1>16, SenderExcluded
       DEF Ftruncate, TransferSteps, SenderSteps, ReleaseOwn, Die
<1>17. ASSUME NEW u \in Users, Truncate(u)
      PROVE  Sent'
    BY <1>17 DEF Truncate, StableInv, LockInv, RequestsListed, Alive, RequestShape
<1>18. ASSUME NEW u \in Users, CopyRange(u)
      PROVE  Sent'
    BY <1>18 DEF CopyRange, StableInv, LockInv, RequestsListed, Alive, RequestShape
<1>19. ASSUME NEW u \in Users, StatLocal(u)
      PROVE  Sent'
    BY <1>19 DEF StatLocal
<1>20. ASSUME NEW u \in Users, GetSize(u)
      PROVE  Sent'
    BY <1>20 DEF GetSize, ReleaseOwn, Die
<1>21. ASSUME NEW s \in Senders, Cycle(s)
      PROVE  Sent'
    BY <1>21 DEF Cycle
<1>22. ASSUME NEW s \in Senders, Stat(s)
      PROVE  Sent'
    BY <1>22 DEF Stat
<1>23. ASSUME NEW s \in Senders, SendCopy(s)
      PROVE  Sent'
    BY <1>23 DEF SendCopy
<1>24. ASSUME NEW s \in Senders, SendExit(s)
      PROVE  Sent'
    BY <1>24 DEF SendExit
<1>25. ASSUME NEW s \in Senders, SendError(s)
      PROVE  Sent'
    BY <1>25 DEF SendError
<1>26. ASSUME NEW s \in Senders, SetServer(s)
      PROVE  Sent'
    BY <1>26 DEF SetServer
<1>27. ASSUME NEW s \in Senders, SetRemote(s)
      PROVE  Sent'
    BY <1>27 DEF SetRemote
<1>28. ASSUME NEW s \in Senders, SetSize(s)
      PROVE  Sent'
    BY <1>28 DEF SetSize
<1>29. ASSUME NEW s \in Senders, Hollow(s)
      PROVE  Sent'
    BY <1>29 DEF Hollow
<1>30. ASSUME NEW t \in Threads, RangeFHs(t)
      PROVE  Sent'
    BY <1>30 DEF RangeFHs, EndLoop, StableInv, LockInv, RequestsListed, Alive,
       SenderShape, RequestShape,
       LoopSteps, SenderSteps, UserSteps
<1>31. ASSUME NEW t \in Threads, LockFH(t)
      PROVE  Sent'
    BY <1>31 DEF LockFH, EndLoop, StableInv, LockInv, RequestsListed, Alive,
       SenderShape, RequestShape,
       LoopSteps, SenderSteps, UserSteps
<1>32. ASSUME NEW t \in Threads, LockedAll(t)
      PROVE  Sent'
    BY <1>32 DEF LockedAll, EndLoop, StableInv, LockInv, RequestsListed, Alive,
       SenderShape, RequestShape,
       LoopSteps, SenderSteps, UserSteps
<1>33. ASSUME NEW t \in Threads, UnlockFH(t)
      PROVE  Sent'
    BY <1>33 DEF UnlockFH, EndLoop, StableInv, LockInv, RequestsListed, Alive,
       SenderShape, RequestShape,
       LoopSteps, SenderSteps, UserSteps
<1>34. ASSUME NEW t \in Threads, UnlockFatal(t)
      PROVE  Sent'
    BY <1>34, UnlockOwned DEF UnlockFatal, StableInv, TableStable
<1>35. ASSUME NEW t \in Threads, UnlockedAll(t)
      PROVE  Sent'
    BY <1>35 DEF UnlockedAll, AfterDownload, EndLoop
<1>36. ASSUME NEW t \in Threads, UpdateFails(t)
      PROVE  Sent'
    BY <1>36 DEF UpdateFails
<1>37. CASE Crash
    BY <1>37 DEF Crash
<1> QED
    BY <1>1, <1>2, <1>3, <1>4, <1>5, <1>6, <1>7, <1>8, <1>9, <1>10, <1>11,
       <1>12, <1>13, <1>14, <1>15, <1>16, <1>17, <1>18, <1>19, <1>20, <1>21,
       <1>22, <1>23, <1>24, <1>25, <1>26, <1>27, <1>28, <1>29, <1>30, <1>31,
       <1>32, <1>33, <1>34, <1>35, <1>36, <1>37
       DEF NextStable, UserStep, SenderStep, LoopNext, DownloadNext,
              RequestNext, SendNext

\* The one step that makes the row remote comes after the upload.
LEMMA TurnsStep ==
    Guarded /\ TypeOK /\ StableInv /\ Sent /\ [NextStable]_vars =>
        (row.local /\ ~row'.local => row'.server /\ stored' /\ object' = local')
<1> SUFFICES ASSUME Guarded, TypeOK, StableInv, Sent, [NextStable]_vars,
                    row.local, ~row'.local
             PROVE  row'.server /\ stored' /\ object' = local'
    OBVIOUS
<1>1. ASSUME NEW s \in Senders, SetRemote(s)
      PROVE  row'.server /\ stored' /\ object' = local'
    BY <1>1 DEF SetRemote, Sent, TypeOK, bucket
<1>2. ASSUME \A s \in Senders : ~SetRemote(s)
      PROVE  FALSE
    BY <1>2 DEF NextStable, UserStep, SenderStep, LoopNext, DownloadNext,
       RequestNext,
       SendNext, TypeOK, vars, table, bucket, disk, loop, Start, Cycle, GetEntry,
       FetchCopy, FetchDelete, FetchKeep, FetchExit, FetchError, ClearServer, SetLocal,
       Acquire, PrepareRead, Pread, Pwrite, Flush, Ftruncate, Truncate, CopyRange,
       StatLocal, GetSize, Stat, SendCopy, SendExit, SendError, SetServer, SetSize,
       Hollow, RangeFHs, LockFH, LockedAll, UnlockFH, UnlockFatal, UnlockedAll,
       UpdateFails, Crash
<1> QED
    BY <1>1, <1>2
-----------------------------------------------------------------------------
(* The download.                                                           *)

\* moveto is about to delete what it copied.
Fetched == \A u \in Users : pc[u] = "delete" => object \subseteq local

\* Nothing is fetched at the start.
LEMMA FetchedInit == Init => Fetched
BY DEF Init, Fetched, Threads

\* Every step keeps the copy that a download made, or is taken when there is none.
LEMMA FetchedStep ==
    Guarded /\ TypeOK /\ StableInv /\ Fetched /\ [NextStable]_vars => Fetched'
<1> SUFFICES ASSUME Guarded, TypeOK, StableInv, Fetched, [NextStable]_vars PROVE Fetched'
    OBVIOUS
<1> USE DEF TypeOK, Fetched, Guarded, table, bucket, disk, loop, Goto, Threads
<1>1. CASE UNCHANGED vars
    BY <1>1 DEF vars
<1>2. ASSUME NEW u \in Users, GetEntry(u)
      PROVE  Fetched'
    BY <1>2 DEF GetEntry, AfterDownload
<1>3. ASSUME NEW u \in Users, FetchCopy(u)
      PROVE  Fetched'
    BY <1>3, DownloadAlone DEF FetchCopy, TransferSteps, SenderSteps
<1>4. ASSUME NEW u \in Users, FetchDelete(u)
      PROVE  Fetched'
    BY <1>4, DownloadAlone DEF FetchDelete, TransferSteps, SenderSteps
<1>5. ASSUME NEW u \in Users, FetchKeep(u)
      PROVE  Fetched'
    BY <1>5 DEF FetchKeep
<1>6. ASSUME NEW u \in Users, FetchExit(u)
      PROVE  Fetched'
    BY <1>6 DEF FetchExit
<1>7. ASSUME NEW u \in Users, FetchError(u)
      PROVE  Fetched'
    BY <1>7 DEF FetchError
<1>8. ASSUME NEW u \in Users, ClearServer(u)
      PROVE  Fetched'
    BY <1>8 DEF ClearServer
<1>9. ASSUME NEW u \in Users, SetLocal(u)
      PROVE  Fetched'
    BY <1>9 DEF SetLocal
<1>10. ASSUME NEW u \in Users, Start(u)
      PROVE  Fetched'
    BY <1>10 DEF Start
<1>11. ASSUME NEW u \in Users, Acquire(u)
      PROVE  Fetched'
    BY <1>11 DEF Acquire
<1>12. ASSUME NEW u \in Users, PrepareRead(u)
      PROVE  Fetched'
    BY <1>12 DEF PrepareRead, ReleaseOwn, Die
<1>13. ASSUME NEW u \in Users, Pread(u)
      PROVE  Fetched'
    BY <1>13 DEF Pread
<1>14. ASSUME NEW u \in Users, Pwrite(u)
      PROVE  Fetched'
    BY <1>14, DownloadAlone DEF Pwrite, TransferSteps, SenderSteps, ReleaseOwn, Die
<1>15. ASSUME NEW u \in Users, Flush(u)
      PROVE  Fetched'
    BY <1>15 DEF Flush, ReleaseOwn, Die
<1>16. ASSUME NEW u \in Users, Ftruncate(u)
      PROVE  Fetched'
    BY <1>16, DownloadAlone
       DEF Ftruncate, TransferSteps, SenderSteps, ReleaseOwn, Die
<1>17. ASSUME NEW u \in Users, Truncate(u)
      PROVE  Fetched'
    BY <1>17 DEF Truncate, StableInv, LockInv, RequestsListed, Alive, RequestShape
<1>18. ASSUME NEW u \in Users, CopyRange(u)
      PROVE  Fetched'
    BY <1>18 DEF CopyRange, StableInv, LockInv, RequestsListed, Alive, RequestShape
<1>19. ASSUME NEW u \in Users, StatLocal(u)
      PROVE  Fetched'
    BY <1>19 DEF StatLocal
<1>20. ASSUME NEW u \in Users, GetSize(u)
      PROVE  Fetched'
    BY <1>20 DEF GetSize, ReleaseOwn, Die
<1>21. ASSUME NEW s \in Senders, Cycle(s)
      PROVE  Fetched'
    BY <1>21 DEF Cycle
<1>22. ASSUME NEW s \in Senders, Stat(s)
      PROVE  Fetched'
    BY <1>22 DEF Stat
<1>23. ASSUME NEW s \in Senders, SendCopy(s)
      PROVE  Fetched'
    BY <1>23, DownloadAlone DEF SendCopy, TransferSteps, SenderSteps
<1>24. ASSUME NEW s \in Senders, SendExit(s)
      PROVE  Fetched'
    BY <1>24 DEF SendExit
<1>25. ASSUME NEW s \in Senders, SendError(s)
      PROVE  Fetched'
    BY <1>25 DEF SendError
<1>26. ASSUME NEW s \in Senders, SetServer(s)
      PROVE  Fetched'
    BY <1>26 DEF SetServer
<1>27. ASSUME NEW s \in Senders, SetRemote(s)
      PROVE  Fetched'
    BY <1>27 DEF SetRemote
<1>28. ASSUME NEW s \in Senders, SetSize(s)
      PROVE  Fetched'
    BY <1>28 DEF SetSize
<1>29. ASSUME NEW s \in Senders, Hollow(s)
      PROVE  Fetched'
    BY <1>29, DownloadAlone DEF Hollow, TransferSteps, SenderSteps
<1>30. ASSUME NEW t \in Threads, RangeFHs(t)
      PROVE  Fetched'
    BY <1>30 DEF RangeFHs, EndLoop
<1>31. ASSUME NEW t \in Threads, LockFH(t)
      PROVE  Fetched'
    BY <1>31 DEF LockFH, EndLoop
<1>32. ASSUME NEW t \in Threads, LockedAll(t)
      PROVE  Fetched'
    BY <1>32 DEF LockedAll, EndLoop
<1>33. ASSUME NEW t \in Threads, UnlockFH(t)
      PROVE  Fetched'
    BY <1>33 DEF UnlockFH, EndLoop
<1>34. ASSUME NEW t \in Threads, UnlockFatal(t)
      PROVE  Fetched'
    BY <1>34, UnlockOwned DEF UnlockFatal, StableInv, TableStable
<1>35. ASSUME NEW t \in Threads, UnlockedAll(t)
      PROVE  Fetched'
    BY <1>35 DEF UnlockedAll, AfterDownload, EndLoop
<1>36. ASSUME NEW t \in Threads, UpdateFails(t)
      PROVE  Fetched'
    BY <1>36 DEF UpdateFails
<1>37. CASE Crash
    BY <1>37 DEF Crash
<1> QED
    BY <1>1, <1>2, <1>3, <1>4, <1>5, <1>6, <1>7, <1>8, <1>9, <1>10, <1>11,
       <1>12, <1>13, <1>14, <1>15, <1>16, <1>17, <1>18, <1>19, <1>20, <1>21,
       <1>22, <1>23, <1>24, <1>25, <1>26, <1>27, <1>28, <1>29, <1>30, <1>31,
       <1>32, <1>33, <1>34, <1>35, <1>36, <1>37
       DEF NextStable, UserStep, SenderStep, LoopNext, DownloadNext,
              RequestNext, SendNext

\* The one step that takes an object out of the bucket comes after the copy.
LEMMA DeletesStep ==
    TypeOK /\ Fetched /\ [NextStable]_vars =>
        (stored /\ ~stored' => object \subseteq local')
<1> SUFFICES ASSUME TypeOK, Fetched, [NextStable]_vars, stored, ~stored'
             PROVE  object \subseteq local'
    OBVIOUS
<1>1. ASSUME NEW u \in Users, FetchDelete(u)
      PROVE  object \subseteq local'
    BY <1>1 DEF FetchDelete, Fetched
<1>2. ASSUME \A u \in Users : ~FetchDelete(u)
      PROVE  FALSE
    BY <1>2 DEF NextStable, UserStep, SenderStep, LoopNext, DownloadNext,
       RequestNext,
       SendNext, TypeOK, vars, table, bucket, disk, loop, Start, Cycle, GetEntry,
       FetchCopy, FetchKeep, FetchExit, FetchError, ClearServer, SetLocal,
       Acquire, PrepareRead, Pread, Pwrite, Flush, Ftruncate, Truncate, CopyRange,
       StatLocal, GetSize, Stat, SendCopy, SendExit, SendError, SetServer, SetRemote,
       SetSize, Hollow, RangeFHs, LockFH, LockedAll, UnlockFH, UnlockFatal, UnlockedAll,
       UpdateFails, Crash
<1> QED
    BY <1>1, <1>2

-----------------------------------------------------------------------------
(* The size.                                                               *)

\* One request at a time.
SoleUser ==
    /\ \A u, v \in Users : u = v
    /\ Guarded

\* SendRemote measured the bytes that are on the disk.
Measured ==
    \A s \in Senders :
        pc[s] \in {"send", "setserver", "setremote", "setsize"} => info[s] = Size(local)

\* SendRemote uploaded the bytes that are on the disk, and marks the row in three steps.
Uploaded ==
    \A s \in Senders :
        /\ pc[s] \in {"setserver", "setremote", "setsize"} => stored /\ object = local
        /\ pc[s] = "setremote" => row.server
        /\ pc[s] = "setsize" => row.server /\ ~row.local

\* Download brings a remote file, from the server that its row named.
Brings ==
    \A u \in Users :
        /\ pc[u] \in {"lockFHs", "lock", "fetch", "delete", "clear", "relocal"} =>
                ~row.local
        /\ pc[u] \in {"lockFHs", "lock", "fetch"} => req[u].server
        /\ pc[u] = "delete" => object = local

\* The row of a remote file tells where its object is and how long, but in the middle of
\* a transfer.
Marking == {"setserver", "setremote", "setsize", "clear", "relocal"}

RemoteRow ==
    /\ ~row.local => row.server \/ \E u \in Users : pc[u] = "relocal"
    /\ ~row.local /\ (\A t \in Threads : pc[t] \notin Marking) =>
            stored /\ row.size = Size(object)

\* Getattr measured the bytes that are on the disk.
Statted ==
    \A u \in Users : pc[u] = "getsize" /\ req[u].h # Nil => info[u] = Size(local)

SizeParts == Measured /\ Uploaded /\ Brings /\ RemoteRow /\ Statted

\* Where the size of the file is recorded, until a crash cuts SendToServer short.
SizeInv == crashes = 0 /\ InitReg # << >> => SizeParts

\* A transfer of an open file excludes any other, and any request that is about to
\* change the file or measures it under the lock of its handle.
LEMMA TransferAlone ==
    ASSUME TypeOK, StableInv, SoleUser, InitReg # << >>,
           NEW t \in Threads, pc[t] \in TransferSteps
    PROVE  /\ \A o \in Threads : o # t => pc[o] \notin TransferSteps
           /\ \A u \in Users : pc[u] # "io"
           /\ \A u \in Users : pc[u] \in {"stat", "getsize"} => req[u].h = Nil
<1>1. fhmap # << >> /\ TransfersExclusive
    BY Exclusion DEF StableInv, LockInv, RequestsListed, Alive, TableStable
<1>2. \A u \in Users : u \in Threads /\ (u = t => pc[u] \in TransferSteps)
    BY DEF Threads
<1>3. \A o \in Threads : o # t => pc[o] \notin TransferSteps /\ ~InCritical(o)
    BY <1>1 DEF TransfersExclusive
<1>4. ASSUME NEW u \in Users, pc[u] = "io"
      PROVE  FALSE
  <2>1. req[u].op \in LockedOps /\ req[u].op # "copy"
    BY <1>4 DEF StableInv, LockInv, RequestsListed, Alive, RequestShape,
       SoleUser, Guarded, DownloadOps, LockedOps
  <2>2. req[u].h \in Range(fhmap)
    BY <1>4, <2>1
       DEF StableInv, LockInv, RequestsListed, Alive, RequestShape, LockedOps,
       PathOps, TableStable
  <2>3. u # t
    BY <1>4 DEF TransferSteps, SenderSteps
  <2> QED
    BY <1>2, <1>3, <1>4, <2>1, <2>2, <2>3 DEF InCritical
<1>5. ASSUME NEW u \in Users, pc[u] \in {"stat", "getsize"}, req[u].h # Nil
      PROVE  FALSE
  <2>1. req[u].op # "copy" /\ req[u].h \in Range(fhmap)
    BY <1>5 DEF StableInv, LockInv, RequestsListed, Alive, RequestShape, TableStable
  <2>2. u # t
    BY <1>5 DEF TransferSteps, SenderSteps
  <2> QED
    BY <1>2, <1>3, <1>5, <2>1, <2>2 DEF InCritical
<1> QED
    BY <1>3, <1>4, <1>5

-----------------------------------------------------------------------------
(* The invariant.                                                          *)

\* The size of the file is right at the start.
LEMMA SizeInit == Init => SizeInv
<1>1. Size({}) = 0
    BY FS_EmptySet DEF Size
<1> QED
    BY <1>1 DEF Init, SizeInv, SizeParts, Measured, Uploaded, Brings, RemoteRow,
       Statted, Threads

\* Until the first crash, every step keeps the size of the file.
LEMMA SizeStep ==
    SoleUser /\ TypeOK /\ StableInv /\ SizeInv /\ [NextStable]_vars => SizeInv'
<1> SUFFICES ASSUME SoleUser, TypeOK, StableInv, SizeInv, [NextStable]_vars,
                    crashes' = 0, InitReg # << >>
             PROVE  SizeParts'
    BY DEF SizeInv
<1> USE DEF TypeOK, SizeInv, SizeParts, Measured, Uploaded, Brings, RemoteRow,
       Statted, Marking,
       SoleUser, Guarded, table, bucket, disk, loop, Goto, Threads, SenderSteps
<1>1. CASE UNCHANGED vars
    BY <1>1 DEF vars
<1>2. ASSUME NEW u \in Users, GetEntry(u)
      PROVE  SizeParts'
    BY <1>2, TransferAlone, SizeType DEF GetEntry, TransferSteps, AfterDownload
<1>3. ASSUME NEW u \in Users, FetchCopy(u)
      PROVE  SizeParts'
  <2>1. \A s \in Senders : pc[s] \notin SenderSteps /\ pc'[s] = pc[s]
    BY <1>3, TransferAlone DEF FetchCopy, TransferSteps
  <2>2. \A w \in Users : w = u /\ pc'[w] = "delete"
    BY <1>3 DEF FetchCopy
  <2>3. /\ ~row.local /\ row' = row /\ local' = object
        /\ stored' = stored /\ object' = object
    BY <1>3 DEF FetchCopy
  <2>4. RemoteRow'
    BY <1>3, <2>1, <2>2, <2>3 DEF FetchCopy
  <2> QED
    BY <2>1, <2>2, <2>3, <2>4
<1>4. ASSUME NEW u \in Users, FetchDelete(u)
      PROVE  SizeParts'
    BY <1>4, TransferAlone, SizeType DEF FetchDelete, TransferSteps
<1>5. ASSUME NEW u \in Users, FetchKeep(u)
      PROVE  SizeParts'
    BY <1>5, TransferAlone, SizeType DEF FetchKeep, TransferSteps
<1>6. ASSUME NEW u \in Users, FetchExit(u)
      PROVE  SizeParts'
    BY <1>6, TransferAlone, SizeType DEF FetchExit, TransferSteps
<1>7. ASSUME NEW u \in Users, FetchError(u)
      PROVE  SizeParts'
    BY <1>7, TransferAlone, SizeType DEF FetchError, TransferSteps
<1>8. ASSUME NEW u \in Users, ClearServer(u)
      PROVE  SizeParts'
    BY <1>8, TransferAlone, SizeType DEF ClearServer, TransferSteps
<1>9. ASSUME NEW u \in Users, SetLocal(u)
      PROVE  SizeParts'
    BY <1>9, TransferAlone, SizeType DEF SetLocal, TransferSteps
<1>10. ASSUME NEW u \in Users, Start(u)
      PROVE  SizeParts'
    BY <1>10, TransferAlone, SizeType DEF Start, TransferSteps, NoRequest
<1>11. ASSUME NEW u \in Users, Acquire(u)
      PROVE  SizeParts'
    BY <1>11, TransferAlone, SizeType
       DEF Acquire, TransferSteps, StableInv, LockInv, RequestsListed, Alive,
              RequestShape
<1>12. ASSUME NEW u \in Users, PrepareRead(u)
      PROVE  SizeParts'
  <2>1. pc' = [pc EXCEPT ![u] = "pread"]
    BY <1>12, GoesOn DEF StableInv, PrepareRead, LockedOps
  <2> QED
    BY <1>12, <2>1, TransferAlone, SizeType
       DEF PrepareRead, TransferSteps, Forget, NoRequest
<1>13. ASSUME NEW u \in Users, Pread(u)
      PROVE  SizeParts'
    BY <1>13, TransferAlone, SizeType DEF Pread, TransferSteps
<1>14. ASSUME NEW u \in Users, Pwrite(u)
      PROVE  SizeParts'
  <2>1. pc' = [pc EXCEPT ![u] = "idle"]
    BY <1>14, GoesOn DEF StableInv, Pwrite, LockedOps
  <2> QED
    BY <1>14, <2>1, TransferAlone, SizeType
       DEF Pwrite, TransferSteps, Forget, NoRequest
<1>15. ASSUME NEW u \in Users, Flush(u)
      PROVE  SizeParts'
  <2>1. pc' = [pc EXCEPT ![u] = "idle"]
    BY <1>15, GoesOn DEF StableInv, Flush, LockedOps
  <2> QED
    BY <1>15, <2>1, TransferAlone, SizeType
       DEF Flush, TransferSteps, Forget, NoRequest
<1>16. ASSUME NEW u \in Users, Ftruncate(u)
      PROVE  SizeParts'
  <2>1. pc' = [pc EXCEPT ![u] = "acquire"]
    BY <1>16, GoesOn DEF StableInv, Ftruncate, LockedOps
  <2> QED
    BY <1>16, <2>1, TransferAlone, SizeType
       DEF Ftruncate, TransferSteps, Forget, NoRequest
<1>17. ASSUME NEW u \in Users, Truncate(u)
      PROVE  SizeParts'
    BY <1>17, TransferAlone, SizeType
       DEF Truncate, TransferSteps, StableInv, LockInv, RequestsListed, Alive,
              RequestShape
<1>18. ASSUME NEW u \in Users, CopyRange(u)
      PROVE  SizeParts'
    BY <1>18, TransferAlone, SizeType
       DEF CopyRange, TransferSteps, StableInv, LockInv, RequestsListed, Alive,
              RequestShape
<1>19. ASSUME NEW u \in Users, StatLocal(u)
      PROVE  SizeParts'
    BY <1>19, TransferAlone, SizeType DEF StatLocal, TransferSteps
<1>20. ASSUME NEW u \in Users, GetSize(u)
      PROVE  SizeParts'
  <2>1. pc' = [pc EXCEPT ![u] = "idle"]
    <3>1. CASE req[u].h = Nil
      BY <1>20, <3>1 DEF GetSize
    <3>2. CASE req[u].h # Nil
      <4>1. ReleaseOwn(u, "idle") /\ pc[u] = "getsize"
        BY <1>20, <3>2 DEF GetSize
      <4>2. req[u].op \in LockedOps
        BY <3>2, <4>1
           DEF StableInv, LockInv, RequestsListed, Alive, RequestShape,
           LockedOps, PathOps
      <4> QED
        BY <4>1, <4>2, GoesOn DEF StableInv
    <3> QED
      BY <3>1, <3>2
  <2> QED
    BY <1>20, <2>1 DEF GetSize, Forget, NoRequest
<1>21. ASSUME NEW s \in Senders, Cycle(s)
      PROVE  SizeParts'
    BY <1>21, TransferAlone, SizeType DEF Cycle, TransferSteps
<1>22. ASSUME NEW s \in Senders, Stat(s)
      PROVE  SizeParts'
    BY <1>22, TransferAlone, SizeType DEF Stat, TransferSteps
<1>23. ASSUME NEW s \in Senders, SendCopy(s)
      PROVE  SizeParts'
    BY <1>23, TransferAlone, SizeType DEF SendCopy, TransferSteps
<1>24. ASSUME NEW s \in Senders, SendExit(s)
      PROVE  SizeParts'
    BY <1>24, TransferAlone, SizeType DEF SendExit, TransferSteps
<1>25. ASSUME NEW s \in Senders, SendError(s)
      PROVE  SizeParts'
    BY <1>25, TransferAlone, SizeType DEF SendError, TransferSteps
<1>26. ASSUME NEW s \in Senders, SetServer(s)
      PROVE  SizeParts'
    BY <1>26, TransferAlone, SizeType DEF SetServer, TransferSteps
<1>27. ASSUME NEW s \in Senders, SetRemote(s)
      PROVE  SizeParts'
    BY <1>27, TransferAlone, SizeType DEF SetRemote, TransferSteps
<1>28. ASSUME NEW s \in Senders, SetSize(s)
      PROVE  SizeParts'
    BY <1>28, TransferAlone, SizeType DEF SetSize, TransferSteps
<1>29. ASSUME NEW s \in Senders, Hollow(s)
      PROVE  SizeParts'
  <2>1. \A r \in Senders : r # s => pc[r] \notin SenderSteps /\ pc'[r] = pc[r]
    BY <1>29, TransferAlone DEF Hollow, TransferSteps
  <2>2. pc'[s] = "unlockFHs"
    BY <1>29 DEF Hollow
  <2>3. \A u \in Users :
            /\ pc'[u] = pc[u] /\ req'[u] = req[u] /\ info'[u] = info[u]
            /\ pc[u] \notin TransferSteps
            /\ pc[u] = "getsize" => req[u].h = Nil
    BY <1>29, TransferAlone DEF Hollow, TransferSteps
  <2>4. row' = row /\ stored' = stored /\ object' = object /\ crashes = 0
    BY <1>29 DEF Hollow
  <2>5. RemoteRow'
    BY <1>29, <2>1, <2>2, <2>3, <2>4 DEF Hollow
  <2>6. Measured' /\ Uploaded'
    BY <2>1, <2>2, <2>4
  <2>7. Brings' /\ Statted'
    BY <2>3, <2>4 DEF TransferSteps
  <2> QED
    BY <2>5, <2>6, <2>7
<1>30. ASSUME NEW t \in Threads, RangeFHs(t)
      PROVE  SizeParts'
    BY <1>30, TransferAlone, SizeType
       DEF RangeFHs, TransferSteps, EndLoop, StableInv, LockInv,
              RequestsListed, Alive, SenderShape,
       RequestShape, LoopSteps, UserSteps
<1>31. ASSUME NEW t \in Threads, LockFH(t)
      PROVE  SizeParts'
    BY <1>31, TransferAlone, SizeType
       DEF LockFH, TransferSteps, EndLoop, StableInv, LockInv, RequestsListed,
              Alive, SenderShape, RequestShape,
       LoopSteps, UserSteps
<1>32. ASSUME NEW t \in Threads, LockedAll(t)
      PROVE  SizeParts'
    BY <1>32, TransferAlone, SizeType
       DEF LockedAll, TransferSteps, EndLoop, StableInv, LockInv,
              RequestsListed, Alive, SenderShape,
       RequestShape, LoopSteps, UserSteps
<1>33. ASSUME NEW t \in Threads, UnlockFH(t)
      PROVE  SizeParts'
    BY <1>33, TransferAlone, SizeType
       DEF UnlockFH, TransferSteps, EndLoop, StableInv, LockInv,
              RequestsListed, Alive, SenderShape,
       RequestShape, LoopSteps, UserSteps
<1>34. ASSUME NEW t \in Threads, UnlockFatal(t)
      PROVE  SizeParts'
    BY <1>34, UnlockOwned DEF UnlockFatal, StableInv, TableStable
<1>35. ASSUME NEW t \in Threads, UnlockedAll(t)
      PROVE  SizeParts'
  <2>1. PICK step \in {"io", "idle", "acquire"} : pc' = [pc EXCEPT ![t] = step]
    BY <1>35, AfterDownloadStep DEF UnlockedAll
  <2>2. /\ row' = row /\ local' = local /\ stored' = stored /\ object' = object
        /\ pc[t] = "unlock" /\ info' = [info EXCEPT ![t] = 0] /\ crashes = 0
        /\ \A u \in Users : u # t => req'[u] = req[u]
    BY <1>35 DEF UnlockedAll, Forget
  <2> QED
    BY <2>1, <2>2
<1>36. ASSUME NEW t \in Threads, UpdateFails(t)
      PROVE  SizeParts'
    BY <1>36, TransferAlone, SizeType
       DEF UpdateFails, TransferSteps, StableInv, LockInv, RequestsListed,
              Alive, RequestShape
<1>37. CASE Crash
    BY <1>37 DEF Crash
<1> QED
    BY <1>1, <1>2, <1>3, <1>4, <1>5, <1>6, <1>7, <1>8, <1>9, <1>10, <1>11,
       <1>12, <1>13, <1>14, <1>15, <1>16, <1>17, <1>18, <1>19, <1>20, <1>21,
       <1>22, <1>23, <1>24, <1>25, <1>26, <1>27, <1>28, <1>29, <1>30, <1>31,
       <1>32, <1>33, <1>34, <1>35, <1>36, <1>37
       DEF NextStable, UserStep, SenderStep, LoopNext, DownloadNext,
              RequestNext, SendNext

-----------------------------------------------------------------------------
(* What Getattr tells.                                                     *)
\* A handle's Getattr reads the row and the bytes of a file that nobody transfers.
LEMMA Honest == SoleUser /\ TypeOK /\ StableInv /\ SizeInv => GetattrHonest
<1> SUFFICES ASSUME SoleUser, TypeOK, StableInv, SizeInv, NEW u \in Users,
                    pc[u] = "getsize", req[u].h # Nil, crashes = 0
             PROVE  ReportedSize(u) = Size(Content)
    BY DEF GetattrHonest
<1>1. InitReg # << >>
    BY DEF StableInv, LockInv, RequestsListed, Alive, RequestShape, Range
<1>2. \A t \in Threads : pc[t] \notin TransferSteps
    BY <1>1, TransferAlone
<1>3. SizeParts
    BY <1>1 DEF SizeInv
<1>4. ~row.local => stored /\ row.size = Size(object)
    BY <1>2, <1>3 DEF SizeParts, RemoteRow, Marking, TransferSteps, SenderSteps
<1>5. info[u] = Size(local)
    BY <1>3 DEF SizeParts, Statted
<1> QED
    BY <1>4, <1>5 DEF ReportedSize, Content

-----------------------------------------------------------------------------
(* Theorems.                                                               *)

\* While the set of open handles does not change, the copy is whole in every state that
\* SendRemote goes through after the upload, and Download before the deletion.
THEOREM CopyInvariant ==
    ASSUME Guarded
    PROVE  SpecStable => [](TypeOK /\ StableInv /\ Sent /\ Fetched)
<1>1. Init => TypeOK /\ StableInv /\ Sent /\ Fetched
    BY InitType, StableInit, SentInit, FetchedInit
<1>2. TypeOK /\ StableInv /\ Sent /\ Fetched /\ [NextStable]_vars =>
        TypeOK' /\ StableInv' /\ Sent' /\ Fetched'
    BY TypeStep, StableStep, SentStep, FetchedStep DEF Next
<1> QED
    BY <1>1, <1>2, PTL DEF SpecStable

\* SendRemote (sender.go) truncates the local file only once its row is remote and the
\* bucket holds all that is on the disk: with any number of requests and of cycles at a
\* time, no crash in between loses a byte that was on the disk.
THEOREM EmptiesOnlySent ==
    ASSUME Guarded
    PROVE  SpecStable => []SentBeforeEmptied
<1>1. Sent => SentBeforeEmptied
    BY DEF Sent, SentBeforeEmptied
<1> QED
    BY <1>1, CopyInvariant, PTL

\* A row turns remote only over an object that is the whole file, and with a server to
\* bring it back from, for any number of requests and of cycles at a time.
THEOREM TurnsOnlyWhole ==
    ASSUME Guarded
    PROVE  SpecStable => TurnsRemoteWhole
<1>1. TypeOK /\ StableInv /\ Sent /\ [NextStable]_vars =>
        [row.local /\ ~row'.local => row'.server /\ stored' /\ object' = local']_vars
    BY TurnsStep
<1> QED
    BY <1>1, CopyInvariant, PTL DEF SpecStable, TurnsRemoteWhole

\* Download (rclone.go, moveto) takes an object out of the bucket only once all its bytes
\* are on the disk, and nobody took them away again, for any number of requests and of
\* cycles at a time.
THEOREM DeletesOnlyFetched ==
    ASSUME Guarded
    PROVE  SpecStable => DeletesFetched
<1>1. TypeOK /\ StableInv /\ Sent /\ Fetched /\ [NextStable]_vars =>
        [stored /\ ~stored' => object \subseteq local']_vars
    BY DeletesStep
<1> QED
    BY <1>1, CopyInvariant, PTL DEF SpecStable, DeletesFetched

\* While the set of open handles does not change, and until the first crash, Getattr on
\* a handle (s3node.go, GetSize) tells the size of the content wherever it is, for any
\* number of cycles at a time: the size that SendRemote measured before the upload is
\* the size of what it uploaded.  Each conjunct of SoleUser is needed.
THEOREM GetattrAlwaysHonest ==
    ASSUME SoleUser
    PROVE  SpecStable => []GetattrHonest
<1>1. Init => TypeOK /\ StableInv /\ SizeInv
    BY InitType, StableInit, SizeInit
<1>2. TypeOK /\ StableInv /\ SizeInv /\ [NextStable]_vars =>
            TypeOK' /\ StableInv' /\ SizeInv'
    BY TypeStep, StableStep, SizeStep DEF Next
<1>3. TypeOK /\ StableInv /\ SizeInv => GetattrHonest
    BY Honest
<1> QED
    BY <1>1, <1>2, <1>3, PTL DEF SpecStable
=============================================================================

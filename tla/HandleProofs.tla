---------------------------- MODULE HandleProofs ----------------------------
(***************************************************************************)
(* Proofs about the table of open handles of FileTransfer while handles    *)
(* come and go, for every set of threads, handles, requests and failures.  *)
(***************************************************************************)
EXTENDS FileTransferProofs

USE ThreadsAssumption, HandlesAssumption, NilAssumption

-----------------------------------------------------------------------------
(* Sequences of handles.                                                   *)

\* The cells of a sequence without two neighbours.
LEMMA DeleteTwoCells ==
    ASSUME NEW s \in Seq(Handles), NEW i \in 1..(Len(s) - 1)
    PROVE  /\ DOMAIN DeleteTwo(s, i) = 1..(Len(s) - 2)
           /\ \A k \in 1..(Len(s) - 2) :
                DeleteTwo(s, i)[k] = IF k < i THEN s[k] ELSE s[k + 2]
<1> DEFINE front == SubSeq(s, 1, i - 1)
           back == SubSeq(s, i + 2, Len(s))
<1>1. Len(s) \in Nat /\ i \in Nat /\ 1 <= i /\ i <= Len(s) - 1
  OBVIOUS
<1>2. \A k \in 1..Len(s) : s[k] \in Handles
  OBVIOUS
<1>3. /\ front \in Seq(Handles) /\ Len(front) = i - 1
      /\ \A k \in 1..(i - 1) : front[k] = s[k]
  <2>1. \A k \in 1..(i - 1) : s[k] \in Handles
    BY <1>1, <1>2
  <2> QED
    BY <1>1, <2>1, SubSeqProperties
<1>4. /\ back \in Seq(Handles) /\ Len(back) = Len(s) - i - 1
      /\ \A k \in 1..(Len(s) - i - 1) : back[k] = s[k + i + 1]
  <2>1. \A k \in (i + 2)..Len(s) : s[k] \in Handles
    BY <1>1, <1>2
  <2> QED
    BY <1>1, <2>1, SubSeqProperties
<1> HIDE DEF front, back
<1>5. /\ front \o back \in Seq(Handles) /\ Len(front \o back) = Len(s) - 2
      /\ \A k \in 1..(Len(s) - 2) :
            (front \o back)[k] = IF k <= i - 1 THEN front[k] ELSE back[k - (i - 1)]
  <2>1. /\ front \o back \in Seq(Handles)
        /\ Len(front \o back) = Len(front) + Len(back)
        /\ \A k \in 1..Len(front) + Len(back) : (front \o back)[k] =
                IF k <= Len(front) THEN front[k] ELSE back[k - Len(front)]
    BY <1>3, <1>4, ConcatProperties
  <2>2. Len(front) + Len(back) = Len(s) - 2
    BY <1>1, <1>3, <1>4
  <2> QED
    BY <1>3, <2>1, <2>2
<1>6. DeleteTwo(s, i) = front \o back
  BY DEF DeleteTwo, front, back
<1>7. DOMAIN (front \o back) = 1..(Len(s) - 2)
  BY <1>5
<1>8. ASSUME NEW k \in 1..(Len(s) - 2)
      PROVE  (front \o back)[k] = IF k < i THEN s[k] ELSE s[k + 2]
  <2>1. CASE k < i
    BY <1>1, <1>3, <1>5, <2>1
  <2>2. CASE ~(k < i)
    <3>1. k - (i - 1) \in 1..(Len(s) - i - 1)
      BY <1>1, <2>2
    <3>2. (k - (i - 1)) + i + 1 = k + 2
      BY <1>1
    <3>3. (front \o back)[k] = back[k - (i - 1)]
      BY <1>1, <1>5, <2>2
    <3> QED
      BY <1>4, <2>2, <3>1, <3>2, <3>3
  <2> QED
    BY <2>1, <2>2
<1> QED
  BY <1>6, <1>7, <1>8

\* Deleting two neighbours of a sequence without duplicates leaves one without
\* duplicates, in which the first of the two is no more.
LEMMA DeleteTwoInjective ==
    ASSUME NEW s \in Seq(Handles), IsInjective(s), NEW i \in 1..(Len(s) - 1)
    PROVE  /\ IsInjective(DeleteTwo(s, i))
           /\ Range(DeleteTwo(s, i)) \subseteq Range(s) \ {s[i]}
<1> DEFINE d == DeleteTwo(s, i)
           Place(k) == IF k < i THEN k ELSE k + 2
<1>1. DOMAIN s = 1..Len(s) /\ Len(s) \in Nat
  OBVIOUS
<1>2. /\ DOMAIN d = 1..(Len(s) - 2)
      /\ \A k \in DOMAIN d : d[k] = s[Place(k)]
  BY DeleteTwoCells
<1> HIDE DEF d
<1>3. \A k \in DOMAIN d : Place(k) \in DOMAIN s /\ Place(k) # i
  BY <1>1, <1>2
<1>4. \A k, m \in DOMAIN d : Place(k) = Place(m) => k = m
  BY <1>1, <1>2
<1> HIDE DEF Place
<1>5. IsInjective(d)
  BY <1>2, <1>3, <1>4 DEF IsInjective
<1>6. Range(d) \subseteq Range(s) \ {s[i]}
  BY <1>1, <1>2, <1>3 DEF IsInjective, Range
<1> QED
  BY <1>5, <1>6 DEF d

\* A new handle at the end of a sequence without duplicates.
LEMMA AppendInjectiveSeq ==
    ASSUME NEW s \in Seq(Handles), IsInjective(s), NEW h \in Handles, h \notin Range(s)
    PROVE  /\ IsInjective(Append(s, h))
           /\ Range(Append(s, h)) \subseteq Range(s) \cup {h}
<1> DEFINE a == Append(s, h)
<1>1. DOMAIN s = 1..Len(s) /\ Len(s) \in Nat /\ DOMAIN a = 1..(Len(s) + 1)
  BY AppendProperties
<1>2. /\ \A k \in DOMAIN s : a[k] = s[k] /\ s[k] # h
      /\ a[Len(s) + 1] = h
  BY <1>1, AppendProperties DEF Range
<1>3. \A k \in DOMAIN a : k \in DOMAIN s \/ k = Len(s) + 1
  BY <1>1
<1> HIDE DEF a
<1>4. IsInjective(a)
  BY <1>2, <1>3 DEF IsInjective
<1>5. Range(a) \subseteq Range(s) \cup {h}
  BY <1>2, <1>3 DEF Range
<1> QED
  BY <1>4, <1>5 DEF a

-----------------------------------------------------------------------------
(* The table.                                                              *)

\* Only opening, releasing and a crash touch the table.
LEMMA TableKept ==
    ASSUME [Next]_vars, ~Crash, \A h \in Handles : ~Open(h) /\ ~Release(h)
    PROVE  UNCHANGED table
BY DEF Next, HandleNext, NextStable, UserStep, SenderStep, LoopNext, DownloadNext, RequestNext,
       SendNext, vars, table, Start, GetEntry, FetchCopy, FetchDelete, FetchKeep,
       FetchExit, FetchError, ClearServer, SetLocal, Acquire, PrepareRead, Pread,
       Pwrite, Flush, Ftruncate, Truncate, CopyRange, StatLocal, GetSize, Cycle,
       Stat, SendCopy, SendExit, SendError, SetServer, SetRemote, SetSize, Hollow,
       UpdateFails, RangeFHs, LockFH, LockedAll, UnlockFH, UnlockFatal, UnlockedAll,
       ReleasePanic

\* The handles of the start are open.
LEMMA InitOpen == Range(InitReg) \subseteq {h \in Handles : InitHandles[h] = "open"}
<1>1. Range(InitReg) \subseteq Handles
  BY DEF Range
<1> QED
  BY <1>1 DEF InitHandles

\* Every step keeps the table.
LEMMA RegisteredStep == TypeOK /\ RegisteredOpen /\ [Next]_vars => RegisteredOpen'
<1> SUFFICES ASSUME TypeOK, RegisteredOpen, [Next]_vars PROVE RegisteredOpen'
  OBVIOUS
<1> USE DEF TypeOK
<1>1. ASSUME NEW h \in Handles, Open(h)
      PROVE  RegisteredOpen'
  <2>1. h \notin Range(fhmap)
    BY <1>1 DEF Open, RegisteredOpen, OpenHandles
  <2>2. /\ IsInjective(fhmap')
        /\ Range(fhmap') \subseteq Range(fhmap) \cup {h}
    BY <1>1, <2>1, AppendInjectiveSeq DEF Open, RegisteredOpen
  <2>3. OpenHandles \cup {h} \subseteq OpenHandles'
    BY <1>1 DEF Open, OpenHandles
  <2> QED
    BY <2>2, <2>3 DEF RegisteredOpen
<1>2. ASSUME NEW h \in Handles, Release(h)
      PROVE  RegisteredOpen'
  <2>1. OpenHandles \ {h} \subseteq OpenHandles'
    BY <1>2 DEF Release, OpenHandles
  <2>2. IsInjective(fhmap') /\ Range(fhmap') \subseteq Range(fhmap) \ {h}
    <3>1. CASE h \notin Range(fhmap) /\ fhmap' = fhmap
      BY <3>1 DEF RegisteredOpen
    <3>2. CASE fhmap' = << >>
      BY <3>2, EmptySeq DEF IsInjective, Range
    <3>3. CASE \E i \in 1..(Len(fhmap) - 1) :
                 fhmap[i] = h /\ fhmap' = DeleteTwo(fhmap, i)
      BY <3>3, DeleteTwoInjective DEF RegisteredOpen
    <3> QED
      BY <1>2, <3>1, <3>2, <3>3 DEF Release
  <2> QED
    BY <2>1, <2>2 DEF RegisteredOpen
<1>3. CASE Crash
  <2>1. fhmap' = InitReg /\ hstate' = InitHandles
    BY <1>3 DEF Crash
  <2> QED
    BY <2>1, InitOpen DEF RegisteredOpen, OpenHandles
<1>4. CASE UNCHANGED table
  BY <1>4 DEF RegisteredOpen, OpenHandles, table
<1> QED
  BY <1>1, <1>2, <1>3, <1>4, TableKept

-----------------------------------------------------------------------------
(* The theorems.                                                           *)

\* UnregisterFH takes a neighbour out of the table with the handle that is closed, but
\* what is left of it lists open handles only, and none of them twice.
THEOREM AlwaysRegisteredOpen == Spec => []RegisteredOpen
<1>1. Init => RegisteredOpen
  BY InitOpen DEF Init, RegisteredOpen, OpenHandles
<1>2. TypeOK /\ RegisteredOpen /\ [Next]_vars => RegisteredOpen'
  BY RegisteredStep
<1> QED
  BY <1>1, <1>2, TypeCorrect, PTL DEF Spec

\* The invariant of the locks, if handles come and go between two transfers.
THEOREM LockInvariant == SpecQuiet => [](TypeOK /\ RegisteredOpen /\ LockInv)
<1> DEFINE Inv == TypeOK /\ RegisteredOpen /\ LockInv
<1>1. Init => Inv
  BY InitType, InitOpen, LockInit DEF Init, RegisteredOpen, OpenHandles
<1>2. Inv /\ [NextQuiet]_vars => Inv'
  <2> SUFFICES ASSUME Inv, [NextQuiet]_vars PROVE Inv'
    OBVIOUS
  <2>1. [Next]_vars
    BY DEF NextQuiet, Next
  <2> QED
    BY <2>1, TypeStep, RegisteredStep, LockStep DEF RegisteredOpen
<1> QED
  BY <1>1, <1>2, PTL DEF SpecQuiet

\* A transfer that no handle is opened or released in is the only one to use the file
\* (fs.go:189), whatever the number of requests and of cycles at a time, whatever fails,
\* and whichever handles the table lost before.
THEOREM Exclusive == SpecQuiet => []TransfersExclusive
BY LockInvariant, Exclusion, PTL

\* While no handle is opened or released in the middle of a transfer, unlockFHs unlocks
\* only mutexes that its own thread locked, each once: the process ends with the fatal
\* error of Unlock, and a goroutine is robbed of its lock, only if one is.
THEOREM UnlockSafe == SpecQuiet => []UnlocksOwn
<1>1. TypeOK /\ RegisteredOpen /\ LockInv => UnlocksOwn
  BY Ownership DEF RegisteredOpen
<1> QED
  BY <1>1, LockInvariant, PTL
=============================================================================

--------------------------- MODULE TrackingProofs ---------------------------
(***************************************************************************)
(* Proofs about Tracking, for every set of users, cycles, paths and        *)
(* contents: requests and cycles may overlap as they like.                 *)
(***************************************************************************)
EXTENDS Tracking, TLAPS

USE ContentsAssumption, PathsAssumption, OpsAssumption

-----------------------------------------------------------------------------
(* The inductive invariants.                                               *)

SendSteps == {"upload", "mark", "truncate"}
Names(u) == {req[u].path, req[u].dest}

\* A request that has begun has its paths, and no two have one in common but for those
\* that fetch a file to read it.
RequestsApart ==
    /\ \A u \in Users :
          /\ req[u].step = "idle" => req[u] = Idle
          /\ req[u].step # "idle" => req[u].path \in Paths
          /\ req[u].step \in RenameSteps =>
                req[u].dest \in Paths /\ req[u].dest # req[u].path
    /\ \A u, v \in Users :
          u # v /\ req[u].step # "fetch" /\ req[v].step # "fetch" =>
              Names(u) \cap Names(v) \subseteq {Nil}

\* A cycle has a file exactly while it sends it.
SendsOne == \A s \in Senders : cycle[s].step \in SendSteps <=> cycle[s].file # Nil

\* Nothing in memory survives the process.
MemoryGone ==
    ~up => /\ batch = NoBatch /\ handler = "waiting"
           /\ \A s \in Senders : cycle[s] = NoCycle
           /\ \A u \in Users : req[u] = Idle

Shape == RequestsApart /\ SendsOne /\ MemoryGone

\* A file that is being sent is there, one cycle sends it, and no request is about to
\* take it away.
SendsAlone ==
    \A s \in Senders : cycle[s].file # Nil =>
        /\ disk[cycle[s].file] # Nil /\ ~Renamed(cycle[s].file)
        /\ \A r \in Senders : r # s => cycle[r].file # cycle[s].file

\* The files that a cycle has found or sends have rows.
SendsRows ==
    \A s \in Senders, p \in Paths :
        p \in cycle[s].todo \/ p = cycle[s].file => row[p] # Nil

\* A file is marked when it is local and its object holds its content, and emptied when
\* it is marked.
SendsLocal ==
    \A s \in Senders : At(s, "upload") \/ At(s, "mark") => Local(cycle[s].file)
MarksSent ==
    \A s \in Senders : At(s, "mark") => object[cycle[s].file] = disk[cycle[s].file]
TruncatesMarked ==
    \A s \in Senders : At(s, "truncate") =>
        ~Local(cycle[s].file) /\ object[cycle[s].file] # Nil

\* What is left on the disk of a file in the bucket is nothing, or the same.
RemoteTwin ==
    \A p \in Paths :
        ~Local(p) /\ object[p] # Nil => disk[p] \in {Empty, object[p]}

\* What a request is about to fetch is still in the bucket, or was fetched by another
\* one; a cycle may have sent it once more and not said so yet.
FetchesRemote ==
    \A u \in Users : req[u].step \in FetchSteps =>
        LET p == req[u].path
        IN  \/ object[p] = Nil \/ ~Local(p)
            \/ \E s \in Senders : At(s, "mark") /\ cycle[s].file = p

\* A file is removed when its object is gone; one that is renamed without its row is
\* local, unless its folder is renamed.
NamesLocal ==
    \A u \in Users :
        /\ req[u].step # "moved"
        /\ req[u].step = "unlink" => Local(req[u].path) \/ object[req[u].path] = Nil
        /\ req[u].step = "move" /\ disk[req[u].dest] # Nil => Local(req[u].path)

ContentParts ==
    /\ SendsAlone /\ SendsRows /\ SendsLocal /\ MarksSent /\ TruncatesMarked
    /\ RemoteTwin /\ FetchesRemote /\ NamesLocal /\ ContentSafe

ContentInv == mishaps \subseteq {"entry"} => ContentParts

\* Once the batch was stored, its paths have rows.
BatchStored ==
    Storing \/ handler = "saved" => \A p \in Paths : batch[p] > 0 => row[p] # Nil

\* Every row is one that a cycle looks at.
RowsOurs == \A p \in Paths : row[p] # Nil => row[p].ours

\* The file that is going to be renamed or written is there, and the one that is fetched
\* has a row.
RequestsFind ==
    \A u \in Users :
        /\ req[u].step # "moved"
        /\ req[u].step \in {"move", "load", "pwrite"} => disk[req[u].path] # Nil
        /\ req[u].step \in FetchSteps => row[req[u].path] # Nil

AllTracked == \A p \in Paths : disk[p] # Nil => Tracked(p)

TrackParts == BatchStored /\ RowsOurs /\ RequestsFind /\ AllTracked

TrackInv == mishaps \subseteq {"content"} => TrackParts

-----------------------------------------------------------------------------
(* Types.                                                                  *)

\* What the variables in memory hold at the start is of their types.
LEMMA Memory ==
    NoBatch \in [Paths -> 0..2] /\ Idle \in Requests /\ NoCycle \in Cycles /\ NewRow \in Rows
BY DEF NoBatch, Idle, NoCycle, NewRow, Rows, Requests, UserSteps, Cycles, CycleSteps

\* A row stays one when its file changes tiers.
LEMMA RowChanged ==
    \A r \in Rows, b \in BOOLEAN, c \in BOOLEAN :
        [r EXCEPT !.local = b] \in Rows /\ [r EXCEPT !.local = b, !.sized = c] \in Rows
BY DEF Rows

\* A row stays one when its file becomes local again.
LEMMA RowLocalType ==
    ASSUME TypeOK, NEW p \in Paths, RowLocal(p)
    PROVE  row' \in [Paths -> Rows \cup {Nil}]
BY RowChanged DEF TypeOK, RowLocal, Local

\* A cycle that goes on to its next step is one.
LEMMA CycleType ==
    ASSUME TypeOK, NEW s \in Senders, NEW step \in CycleSteps, CycleTo(s, step)
    PROVE  cycle' \in [Senders -> Cycles]
<1>1. cycle[s] \in Cycles
  BY DEF TypeOK
<1>2. [cycle[s] EXCEPT !.step = step] \in Cycles
  BY <1>1 DEF Cycles
<1> QED
  BY <1>2 DEF TypeOK, CycleTo

\* A request that has fetched its file is one, or is over.
LEMMA FetchedType ==
    ASSUME TypeOK, NEW u \in Users, Fetched(u)
    PROVE  req' \in [Users -> Requests]
<1>1. req[u] \in Requests
  BY DEF TypeOK
<1>2. [req[u] EXCEPT !.step = "pwrite"] \in Requests
  BY <1>1 DEF Requests, UserSteps
<1> QED
  BY <1>2, Memory DEF TypeOK, Fetched

\* The initial state is well typed.
LEMMA InitType == Init => TypeOK
<1> SUFFICES ASSUME Init PROVE TypeOK
  OBVIOUS
<1>1. /\ disk \in [Paths -> Contents \cup {Nil}]
      /\ object \in [Paths -> Contents \cup {Nil}]
      /\ wanted \in [Paths -> Contents \cup {Nil, GivenUp}]
      /\ row \in [Paths -> Rows \cup {Nil}]
  BY DEF Init
<1>2. up \in BOOLEAN /\ handler \in {"waiting", "saved"} /\ mishaps \subseteq Kinds
  BY DEF Init
<1> QED
  BY <1>1, <1>2, Memory DEF Init, TypeOK

\* Every step keeps the types.
LEMMA TypeStep == TypeOK /\ Shape /\ [Next]_vars => TypeOK'
<1> SUFFICES ASSUME TypeOK, Shape, [Next]_vars PROVE TypeOK'
  OBVIOUS
<1> USE DEF TypeOK, stored, Cycles, CycleSteps, Requests, UserSteps, RenameSteps,
        UnlinkSteps, FetchSteps, Happens, If, Kinds
<1>1. CASE UNCHANGED vars
  BY <1>1 DEF vars
<1>2. ASSUME Boot
      PROVE  TypeOK'
  BY <1>2 DEF Boot
<1>3. ASSUME Crash
      PROVE  TypeOK'
  BY <1>3, Memory DEF Crash, Down
<1>4. ASSUME SaveBatch
      PROVE  TypeOK'
  BY <1>4, Memory DEF SaveBatch, Insert
<1>5. ASSUME Stop
      PROVE  TypeOK'
  BY <1>5, Memory DEF Stop, Down
<1>6. ASSUME NEW lost \in BOOLEAN, NEW silent \in SUBSET Paths,
             Rebuild(lost, silent)
      PROVE  TypeOK'
  <2> DEFINE old == IF lost THEN [p \in Paths |-> Nil] ELSE row
  <2>1. old \in [Paths -> Rows \cup {Nil}]
    OBVIOUS
  <2>2. \A p \in Paths :
           /\ FoundRow(p, old) \in Rows
           /\ [FoundRow(p, old) EXCEPT !.local = FALSE, !.sized = TRUE] \in Rows
    BY <2>1 DEF FoundRow, Rows
  <2> HIDE DEF old
  <2>3. row' \in [Paths -> Rows \cup {Nil}]
    BY <1>6, <2>1, <2>2 DEF Rebuild, old
  <2> QED
    BY <1>6, <2>3 DEF Rebuild
<1>7. ASSUME NEW u \in Users, NEW p \in Paths, Create(u, p)
      PROVE  TypeOK'
  BY <1>7, Memory DEF Create, Goes, Starts, Idle
<1>8. ASSUME NEW u \in Users, NEW p \in Paths, Unlink(u, p)
      PROVE  TypeOK'
  BY <1>8, Memory DEF Unlink, Goes, Starts, Idle
<1>9. ASSUME NEW u \in Users, NEW p \in Paths, NEW q \in Paths, NEW f \in BOOLEAN,
             Rename(u, p, q, f)
      PROVE  TypeOK'
  BY <1>9, Memory DEF Rename, Goes, Starts, Idle
<1>10. ASSUME NEW u \in Users, ReadBatch(u)
       PROVE  TypeOK'
  BY <1>10, Memory DEF ReadBatch, Goes, Starts, Idle
<1>11. ASSUME NEW u \in Users, AppendEntry(u)
       PROVE  TypeOK'
  <2>1. batch' \in [Paths -> 0..2]
    <3>1. seen[u] \in [Paths -> 0..2] /\ req[u].path \in Paths
      BY <1>11 DEF AppendEntry, Shape, RequestsApart
    <3>2. (IF seen[u][req[u].path] = 0 THEN 1 ELSE 2) \in 0..2
      OBVIOUS
    <3> QED
      BY <1>11, <3>1, <3>2 DEF AppendEntry
  <2> QED
    BY <1>11, <2>1, Memory DEF AppendEntry
<1>12. ASSUME NEW u \in Users, RenameRow(u)
       PROVE  TypeOK'
  <2>1. req[u].path \in Paths /\ req[u].dest \in Paths
    BY <1>12 DEF RenameRow, Shape, RequestsApart
  <2> QED
    BY <1>12, <2>1 DEF RenameRow, Goes
<1>13. ASSUME NEW u \in Users, RenameFile(u)
       PROVE  TypeOK'
  <2>1. req[u].path \in Paths /\ req[u].dest \in Paths
    BY <1>13 DEF RenameFile, Shape, RequestsApart
  <2> QED
    BY <1>13, <2>1, Memory DEF RenameFile
<1>14. ASSUME NEW u \in Users, Exchange(u)
       PROVE  TypeOK'
  <2>1. req[u].path \in Paths /\ req[u].dest \in Paths
    BY <1>14 DEF Exchange, Shape, RequestsApart
  <2> QED
    BY <1>14, <2>1, Memory DEF Exchange
<1>15. ASSUME NEW u \in Users, RenameFails(u)
       PROVE  TypeOK'
  BY <1>15, Memory DEF RenameFails
<1>16. ASSUME NEW u \in Users, UnlinkObject(u)
       PROVE  TypeOK'
  BY <1>16, Memory DEF UnlinkObject, Goes, Starts, Idle
<1>17. ASSUME NEW u \in Users, UnlinkObjectFails(u)
       PROVE  TypeOK'
  BY <1>17, Memory DEF UnlinkObjectFails, Goes, Starts, Idle
<1>18. ASSUME NEW u \in Users, UnlinkFile(u)
       PROVE  TypeOK'
  BY <1>18, Memory DEF UnlinkFile
<1>19. ASSUME NEW u \in Users, NEW p \in Paths, NEW op \in {"read", "write"},
              Download(u, op, p)
       PROVE  TypeOK'
  BY <1>19, Memory DEF Download, Goes, Starts, Idle
<1>20. ASSUME NEW u \in Users, Fetch(u)
       PROVE  TypeOK'
  <2>1. req[u].path \in Paths
    BY <1>20 DEF Fetch, Shape, RequestsApart
  <2>2. req' \in [Users -> Requests] /\ row' \in [Paths -> Rows \cup {Nil}]
    BY <1>20, <2>1, FetchedType, RowLocalType DEF Fetch
  <2> QED
    BY <1>20, <2>1, <2>2 DEF Fetch
<1>21. ASSUME NEW u \in Users, FetchExit(u)
       PROVE  TypeOK'
  <2>1. req[u].path \in Paths
    BY <1>21 DEF FetchExit, Shape, RequestsApart
  <2>2. req' \in [Users -> Requests] /\ row' \in [Paths -> Rows \cup {Nil}]
    BY <1>21, <2>1, FetchedType, RowLocalType DEF FetchExit
  <2> QED
    BY <1>21, <2>2 DEF FetchExit
<1>22. ASSUME NEW u \in Users, FetchError(u)
       PROVE  TypeOK'
  BY <1>22, Memory DEF FetchError
<1>23. ASSUME NEW u \in Users, NEW c \in Contents, Pwrite(u, c)
       PROVE  TypeOK'
  BY <1>23, Memory DEF Pwrite
<1>24. ASSUME NEW s \in Senders, CycleStart(s)
       PROVE  TypeOK'
  <2>1. cycle' \in [Senders -> Cycles]
    BY <1>24, CycleType DEF CycleStart
  <2> QED
    BY <1>24, <2>1, Memory DEF CycleStart
<1>25. ASSUME NEW s \in Senders, StoreBatch(s)
       PROVE  TypeOK'
  <2>1. cycle' \in [Senders -> Cycles]
    BY <1>25, CycleType DEF StoreBatch
  <2> QED
    BY <1>25, <2>1, Memory DEF StoreBatch, Insert
<1>26. ASSUME NEW s \in Senders, ResetBatch(s)
       PROVE  TypeOK'
  <2>1. cycle' \in [Senders -> Cycles]
    BY <1>26, CycleType DEF ResetBatch
  <2> QED
    BY <1>26, <2>1, Memory DEF ResetBatch
<1>27. ASSUME NEW s \in Senders, Select(s)
       PROVE  TypeOK'
  <2>1. cycle[s] \in Cycles
    OBVIOUS
  <2>2. cycle' \in [Senders -> Cycles]
    BY <1>27, <2>1 DEF Select
  <2> QED
    BY <1>27, <2>2 DEF Select
<1>28. ASSUME NEW s \in Senders, NEW p \in Paths, Send(s, p)
       PROVE  TypeOK'
  BY <1>28, Memory DEF Send
<1>29. ASSUME NEW s \in Senders, Upload(s)
       PROVE  TypeOK'
  <2>1. cycle' \in [Senders -> Cycles]
    BY <1>29, CycleType DEF Upload
  <2> QED
    BY <1>29, <2>1, Memory DEF Upload
<1>30. ASSUME NEW s \in Senders, UploadExit(s)
       PROVE  TypeOK'
  <2>1. cycle' \in [Senders -> Cycles]
    BY <1>30, CycleType DEF UploadExit
  <2> QED
    BY <1>30, <2>1, Memory DEF UploadExit
<1>31. ASSUME NEW s \in Senders, UploadError(s)
       PROVE  TypeOK'
  BY <1>31, Memory DEF UploadError, NextFile, NoCycle
<1>32. ASSUME NEW s \in Senders, Mark(s)
       PROVE  TypeOK'
  <2> DEFINE p == cycle[s].file
  <2>1. p \in Paths /\ cycle[s].sized \in BOOLEAN
    BY <1>32 DEF Mark, Shape, SendsOne, SendSteps, At
  <2>2. row' \in [Paths -> Rows \cup {Nil}]
    <3>1. CASE row[p] = Nil
      BY <1>32, <3>1 DEF Mark
    <3>2. CASE row[p] # Nil
      <4>1. [row[p] EXCEPT !.local = FALSE, !.sized = cycle[s].sized] \in Rows
        BY <2>1, <3>2, RowChanged
      <4> QED
        BY <1>32, <2>1, <3>2, <4>1 DEF Mark
    <3> QED
      BY <3>1, <3>2
  <2>3. cycle' \in [Senders -> Cycles]
    BY <1>32, CycleType DEF Mark
  <2> QED
    BY <1>32, <2>2, <2>3 DEF Mark
<1>33. ASSUME NEW s \in Senders, Truncate(s)
       PROVE  TypeOK'
  BY <1>33, Memory DEF Truncate, NextFile, NoCycle
<1>34. ASSUME NEW s \in Senders, CycleEnd(s)
       PROVE  TypeOK'
  BY <1>34, Memory DEF CycleEnd
<1> QED
  BY <1>1, <1>2, <1>3, <1>4, <1>5, <1>6, <1>7, <1>8, <1>9, <1>10, <1>11, <1>12,
     <1>13, <1>14, <1>15, <1>16, <1>17, <1>18, <1>19, <1>20, <1>21, <1>22,
     <1>23, <1>24, <1>25, <1>26, <1>27, <1>28, <1>29, <1>30, <1>31, <1>32,
     <1>33, <1>34
     DEF Next, DaemonNext, NamesNext, BytesNext, CycleNext

-----------------------------------------------------------------------------
(* The paths of the requests and what the process remembers.               *)

\* A request that takes only paths that nobody holds stays apart from the others.
LEMMA RequestChanged ==
    ASSUME TypeOK, RequestsApart, NEW u \in Users, NEW r \in Requests,
           req' = [req EXCEPT ![u] = r],
           r.step # "idle", r.path \in Paths,
           r.step \in RenameSteps => r.dest \in Paths /\ r.dest # r.path,
           r.step = "fetch" \/ \A x \in {r.path, r.dest} :
               x = Nil \/ ~Held(x) \/ (x \in Names(u) /\ req[u].step # "fetch")
    PROVE  RequestsApart'
<1>1. req'[u] = r /\ \A v \in Users : v # u => req'[v] = req[v]
  BY DEF TypeOK
<1>2. \A v \in Users :
         /\ req'[v].step = "idle" => req'[v] = Idle
         /\ req'[v].step # "idle" => req'[v].path \in Paths
         /\ req'[v].step \in RenameSteps =>
               req'[v].dest \in Paths /\ req'[v].dest # req'[v].path
  BY <1>1 DEF RequestsApart
<1>3. ASSUME NEW v \in Users, v # u, NEW x \in {r.path, r.dest} \cap Names(v),
             r.step # "fetch", req[v].step # "fetch"
      PROVE  x = Nil
  <2>1. CASE x \in Names(u) /\ req[u].step # "fetch"
    BY <1>3, <2>1 DEF RequestsApart
  <2>2. CASE ~Held(x)
    BY <1>3, <2>2 DEF Held, Names
  <2> QED
    BY <1>3, <2>1, <2>2
<1>4. \A v, w \in Users :
         v # w /\ req'[v].step # "fetch" /\ req'[w].step # "fetch" =>
             Names(v)' \cap Names(w)' \subseteq {Nil}
  BY <1>1, <1>3 DEF Names, RequestsApart
<1> QED
  BY <1>2, <1>4 DEF RequestsApart

\* A request that is over leaves the others apart.
LEMMA RequestEnds ==
    ASSUME TypeOK, RequestsApart, NEW u \in Users, req' = [req EXCEPT ![u] = Idle]
    PROVE  RequestsApart'
<1>1. req'[u] = Idle /\ \A v \in Users : v # u => req'[v] = req[v]
  BY DEF TypeOK
<1>2. Idle.step = "idle" /\ Idle.step \notin RenameSteps /\ Idle.path = Nil /\ Idle.dest = Nil
  BY DEF Idle, RenameSteps
<1> QED
  BY <1>1, <1>2 DEF RequestsApart, Names

\* At the start there is no request, no transfer and no process.
LEMMA InitShape == Init => Shape
BY DEF Init, Shape, RequestsApart, SendsOne, SendSteps, MemoryGone, Names, Idle, NoCycle,
       RenameSteps

\* Every step keeps the requests apart and a sender at one file.
LEMMA ShapeStep == TypeOK /\ TypeOK' /\ Shape /\ [Next]_vars => Shape'
<1> SUFFICES ASSUME TypeOK, TypeOK', Shape, [Next]_vars PROVE Shape'
  OBVIOUS
<1>1. CASE UNCHANGED vars
  BY <1>1 DEF vars, Shape, RequestsApart, SendsOne, MemoryGone, Names
<1>2. ASSUME Boot
      PROVE  Shape'
  BY <1>2 DEF Boot, stored, Shape, RequestsApart, SendsOne, Names, MemoryGone
<1>3. ASSUME Crash
      PROVE  Shape'
  <2>1. RequestsApart'
    BY <1>3 DEF Crash, Down, RequestsApart, Names, Idle, RenameSteps
  <2>2. SendsOne' /\ MemoryGone'
    BY <1>3 DEF Crash, Down, SendsOne, SendSteps, NoCycle, MemoryGone
  <2> QED
    BY <2>1, <2>2 DEF Shape
<1>4. ASSUME SaveBatch
      PROVE  Shape'
  BY <1>4 DEF SaveBatch, stored, Shape, RequestsApart, SendsOne, Names, MemoryGone
<1>5. ASSUME Stop
      PROVE  Shape'
  <2>1. RequestsApart'
    BY <1>5 DEF Stop, Down, RequestsApart, Names, Idle, RenameSteps
  <2>2. SendsOne' /\ MemoryGone'
    BY <1>5 DEF Stop, Down, SendsOne, SendSteps, NoCycle, MemoryGone
  <2> QED
    BY <2>1, <2>2 DEF Shape
<1>6. ASSUME NEW lost \in BOOLEAN, NEW silent \in SUBSET Paths,
             Rebuild(lost, silent)
      PROVE  Shape'
  BY <1>6 DEF Rebuild, stored, Shape, RequestsApart, SendsOne, Names, MemoryGone
<1>7. ASSUME NEW u \in Users, NEW p \in Paths, Create(u, p)
      PROVE  Shape'
  <2> DEFINE r == [step |-> "read", path |-> p, dest |-> Nil]
  <2>1. req' = [req EXCEPT ![u] = r]
    BY <1>7 DEF Create, Goes
  <2>2. RequestsApart'
    <3>1. /\ r \in Requests /\ r.step # "idle" /\ r.path \in Paths
          /\ r.step \in RenameSteps => r.dest \in Paths /\ r.dest # r.path
      BY <1>7
         DEF Create, Shape, RequestsApart, TypeOK, Requests, UserSteps,
             RenameSteps, UnlinkSteps, FetchSteps
    <3>2. \A x \in {r.path, r.dest} :
             x = Nil \/ ~Held(x) \/ (x \in Names(u) /\ req[u].step # "fetch")
      BY <1>7 DEF Create, Names
    <3> HIDE DEF r
    <3> QED
      BY <2>1, <3>1, <3>2, RequestChanged DEF Shape
  <2>3. SendsOne' /\ MemoryGone'
    BY <1>7 DEF Create, stored, Starts, Shape, SendsOne, MemoryGone, Idle
  <2> QED
    BY <2>2, <2>3 DEF Shape
<1>8. ASSUME NEW u \in Users, NEW p \in Paths, Unlink(u, p)
      PROVE  Shape'
  <2> DEFINE r == [step |-> IF Local(p) THEN "unlink" ELSE "content",
                   path |-> p, dest |-> Nil]
  <2>1. req' = [req EXCEPT ![u] = r]
    BY <1>8 DEF Unlink, Goes
  <2>2. RequestsApart'
    <3>1. /\ r \in Requests /\ r.step # "idle" /\ r.path \in Paths
          /\ r.step \in RenameSteps => r.dest \in Paths /\ r.dest # r.path
      BY <1>8
         DEF Unlink, Shape, RequestsApart, TypeOK, Requests, UserSteps,
             RenameSteps, UnlinkSteps, FetchSteps
    <3>2. \A x \in {r.path, r.dest} :
             x = Nil \/ ~Held(x) \/ (x \in Names(u) /\ req[u].step # "fetch")
      BY <1>8 DEF Unlink, Names
    <3> HIDE DEF r
    <3> QED
      BY <2>1, <3>1, <3>2, RequestChanged DEF Shape
  <2>3. SendsOne' /\ MemoryGone'
    BY <1>8 DEF Unlink, stored, Starts, Shape, SendsOne, MemoryGone, Idle
  <2> QED
    BY <2>2, <2>3 DEF Shape
<1>9. ASSUME NEW u \in Users, NEW p \in Paths, NEW q \in Paths, NEW f \in BOOLEAN,
             Rename(u, p, q, f)
      PROVE  Shape'
  <2> DEFINE r == [step |-> IF f \/ Local(p) THEN "move" ELSE "row",
                   path |-> p, dest |-> q]
  <2>1. req' = [req EXCEPT ![u] = r]
    BY <1>9 DEF Rename, Goes
  <2>2. RequestsApart'
    <3>1. /\ r \in Requests /\ r.step # "idle" /\ r.path \in Paths
          /\ r.step \in RenameSteps => r.dest \in Paths /\ r.dest # r.path
      BY <1>9
         DEF Rename, Shape, RequestsApart, TypeOK, Requests, UserSteps,
             RenameSteps, UnlinkSteps, FetchSteps
    <3>2. \A x \in {r.path, r.dest} :
             x = Nil \/ ~Held(x) \/ (x \in Names(u) /\ req[u].step # "fetch")
      BY <1>9 DEF Rename, Names
    <3> HIDE DEF r
    <3> QED
      BY <2>1, <3>1, <3>2, RequestChanged DEF Shape
  <2>3. SendsOne' /\ MemoryGone'
    BY <1>9 DEF Rename, stored, Starts, Shape, SendsOne, MemoryGone, Idle
  <2> QED
    BY <2>2, <2>3 DEF Shape
<1>10. ASSUME NEW u \in Users, ReadBatch(u)
       PROVE  Shape'
  <2> DEFINE r == [step |-> "append", path |-> req[u].path, dest |-> Nil]
  <2>1. req' = [req EXCEPT ![u] = r]
    BY <1>10 DEF ReadBatch, Goes
  <2>2. RequestsApart'
    <3>1. /\ r \in Requests /\ r.step # "idle" /\ r.path \in Paths
          /\ r.step \in RenameSteps => r.dest \in Paths /\ r.dest # r.path
      BY <1>10
         DEF ReadBatch, Shape, RequestsApart, TypeOK, Requests, UserSteps,
             RenameSteps, UnlinkSteps, FetchSteps
    <3>2. \A x \in {r.path, r.dest} :
             x = Nil \/ ~Held(x) \/ (x \in Names(u) /\ req[u].step # "fetch")
      BY <1>10 DEF ReadBatch, Names
    <3> HIDE DEF r
    <3> QED
      BY <2>1, <3>1, <3>2, RequestChanged DEF Shape
  <2>3. SendsOne' /\ MemoryGone'
    BY <1>10 DEF ReadBatch, stored, Starts, Shape, SendsOne, MemoryGone, Idle
  <2> QED
    BY <2>2, <2>3 DEF Shape
<1>11. ASSUME NEW u \in Users, AppendEntry(u)
       PROVE  Shape'
  <2>1. req' = [req EXCEPT ![u] = Idle]
    BY <1>11 DEF AppendEntry
  <2>2. RequestsApart'
    BY <2>1, RequestEnds DEF Shape
  <2>3. SendsOne' /\ MemoryGone'
    BY <1>11 DEF AppendEntry, stored, Starts, Shape, SendsOne, MemoryGone, Idle
  <2> QED
    BY <2>2, <2>3 DEF Shape
<1>12. ASSUME NEW u \in Users, RenameRow(u)
       PROVE  Shape'
  <2> DEFINE r == [step |-> "moved", path |-> req[u].path, dest |-> req[u].dest]
  <2>1. req' = [req EXCEPT ![u] = r]
    BY <1>12 DEF RenameRow, Goes
  <2>2. RequestsApart'
    <3>1. /\ r \in Requests /\ r.step # "idle" /\ r.path \in Paths
          /\ r.step \in RenameSteps => r.dest \in Paths /\ r.dest # r.path
      BY <1>12
         DEF RenameRow, Shape, RequestsApart, TypeOK, Requests, UserSteps,
             RenameSteps, UnlinkSteps, FetchSteps
    <3>2. \A x \in {r.path, r.dest} :
             x = Nil \/ ~Held(x) \/ (x \in Names(u) /\ req[u].step # "fetch")
      BY <1>12 DEF RenameRow, Names
    <3> HIDE DEF r
    <3> QED
      BY <2>1, <3>1, <3>2, RequestChanged DEF Shape
  <2>3. SendsOne' /\ MemoryGone'
    BY <1>12 DEF RenameRow, stored, Starts, Shape, SendsOne, MemoryGone, Idle
  <2> QED
    BY <2>2, <2>3 DEF Shape
<1>13. ASSUME NEW u \in Users, RenameFile(u)
       PROVE  Shape'
  <2>1. req' = [req EXCEPT ![u] = Idle]
    BY <1>13 DEF RenameFile
  <2>2. RequestsApart'
    BY <2>1, RequestEnds DEF Shape
  <2>3. SendsOne' /\ MemoryGone'
    BY <1>13 DEF RenameFile, stored, Starts, Shape, SendsOne, MemoryGone, Idle
  <2> QED
    BY <2>2, <2>3 DEF Shape
<1>14. ASSUME NEW u \in Users, Exchange(u)
       PROVE  Shape'
  <2>1. req' = [req EXCEPT ![u] = Idle]
    BY <1>14 DEF Exchange
  <2>2. RequestsApart'
    BY <2>1, RequestEnds DEF Shape
  <2>3. SendsOne' /\ MemoryGone'
    BY <1>14 DEF Exchange, stored, Starts, Shape, SendsOne, MemoryGone, Idle
  <2> QED
    BY <2>2, <2>3 DEF Shape
<1>15. ASSUME NEW u \in Users, RenameFails(u)
       PROVE  Shape'
  <2>1. req' = [req EXCEPT ![u] = Idle]
    BY <1>15 DEF RenameFails
  <2>2. RequestsApart'
    BY <2>1, RequestEnds DEF Shape
  <2>3. SendsOne' /\ MemoryGone'
    BY <1>15 DEF RenameFails, stored, Starts, Shape, SendsOne, MemoryGone, Idle
  <2> QED
    BY <2>2, <2>3 DEF Shape
<1>16. ASSUME NEW u \in Users, UnlinkObject(u)
       PROVE  Shape'
  <2> DEFINE r == [step |-> "unlink", path |-> req[u].path, dest |-> Nil]
  <2>1. req' = [req EXCEPT ![u] = r]
    BY <1>16 DEF UnlinkObject, Goes
  <2>2. RequestsApart'
    <3>1. /\ r \in Requests /\ r.step # "idle" /\ r.path \in Paths
          /\ r.step \in RenameSteps => r.dest \in Paths /\ r.dest # r.path
      BY <1>16
         DEF UnlinkObject, Shape, RequestsApart, TypeOK, Requests,
             UserSteps, RenameSteps, UnlinkSteps, FetchSteps
    <3>2. \A x \in {r.path, r.dest} :
             x = Nil \/ ~Held(x) \/ (x \in Names(u) /\ req[u].step # "fetch")
      BY <1>16 DEF UnlinkObject, Names
    <3> HIDE DEF r
    <3> QED
      BY <2>1, <3>1, <3>2, RequestChanged DEF Shape
  <2>3. SendsOne' /\ MemoryGone'
    BY <1>16 DEF UnlinkObject, stored, Starts, Shape, SendsOne, MemoryGone, Idle
  <2> QED
    BY <2>2, <2>3 DEF Shape
<1>17. ASSUME NEW u \in Users, UnlinkObjectFails(u)
       PROVE  Shape'
  <2> DEFINE r == [step |-> "unlink", path |-> req[u].path, dest |-> Nil]
  <2>1. req' = [req EXCEPT ![u] = r]
    BY <1>17 DEF UnlinkObjectFails, Goes
  <2>2. RequestsApart'
    <3>1. /\ r \in Requests /\ r.step # "idle" /\ r.path \in Paths
          /\ r.step \in RenameSteps => r.dest \in Paths /\ r.dest # r.path
      BY <1>17
         DEF UnlinkObjectFails, Shape, RequestsApart, TypeOK, Requests,
             UserSteps, RenameSteps, UnlinkSteps, FetchSteps
    <3>2. \A x \in {r.path, r.dest} :
             x = Nil \/ ~Held(x) \/ (x \in Names(u) /\ req[u].step # "fetch")
      BY <1>17 DEF UnlinkObjectFails, Names
    <3> HIDE DEF r
    <3> QED
      BY <2>1, <3>1, <3>2, RequestChanged DEF Shape
  <2>3. SendsOne' /\ MemoryGone'
    BY <1>17
       DEF UnlinkObjectFails, stored, Starts, Shape, SendsOne, MemoryGone,
           Idle
  <2> QED
    BY <2>2, <2>3 DEF Shape
<1>18. ASSUME NEW u \in Users, UnlinkFile(u)
       PROVE  Shape'
  <2>1. req' = [req EXCEPT ![u] = Idle]
    BY <1>18 DEF UnlinkFile
  <2>2. RequestsApart'
    BY <2>1, RequestEnds DEF Shape
  <2>3. SendsOne' /\ MemoryGone'
    BY <1>18 DEF UnlinkFile, stored, Starts, Shape, SendsOne, MemoryGone, Idle
  <2> QED
    BY <2>2, <2>3 DEF Shape
<1>19. ASSUME NEW u \in Users, NEW p \in Paths, NEW op \in {"read", "write"},
              Download(u, op, p)
       PROVE  Shape'
  <2>1. PICK step \in {"fetch", "load", "pwrite"} :
            /\ req' = [req EXCEPT ![u] = [step |-> step, path |-> p, dest |-> Nil]]
            /\ step = "fetch" \/ ~Held(p)
    BY <1>19 DEF Download, Goes
  <2> DEFINE r == [step |-> step, path |-> p, dest |-> Nil]
  <2>2. r \in Requests /\ r.step = step /\ r.path = p /\ r.dest = Nil
    BY DEF Requests, UserSteps, FetchSteps
  <2>3. req' = [req EXCEPT ![u] = r]
    BY <2>1
  <2> HIDE DEF r
  <2>4. RequestsApart'
    BY <2>1, <2>2, <2>3, RequestChanged DEF Shape, RenameSteps
  <2>5. SendsOne' /\ MemoryGone'
    BY <1>19 DEF Download, stored, Starts, Shape, SendsOne, MemoryGone
  <2> QED
    BY <2>4, <2>5 DEF Shape
<1>20. ASSUME NEW u \in Users, Fetch(u)
       PROVE  Shape'
  <2>1. RequestsApart'
    <3>1. CASE req[u].step = "load"
      <4> DEFINE r == [req[u] EXCEPT !.step = "pwrite"]
      <4>1. req[u] \in Requests /\ req' = [req EXCEPT ![u] = r]
        BY <1>20, <3>1 DEF Fetch, Fetched, TypeOK
      <4>2. /\ r \in Requests /\ r.step = "pwrite"
            /\ r.path = req[u].path /\ r.dest = req[u].dest /\ r.path \in Paths
        BY <4>1, <3>1 DEF Requests, UserSteps, Shape, RequestsApart
      <4> HIDE DEF r
      <4> QED
        BY <3>1, <4>1, <4>2, RequestChanged DEF Shape, Names, RenameSteps
    <3>2. CASE req[u].step # "load"
      BY <1>20, <3>2, RequestEnds DEF Fetch, Fetched, Shape
    <3> QED
      BY <3>1, <3>2
  <2>2. SendsOne' /\ MemoryGone'
    <3>1. up /\ UNCHANGED <<up, cycle>>
      BY <1>20 DEF Fetch, FetchSteps, Shape, MemoryGone, Idle
    <3> QED
      BY <3>1 DEF Shape, SendsOne, MemoryGone
  <2> QED
    BY <2>1, <2>2 DEF Shape
<1>21. ASSUME NEW u \in Users, FetchExit(u)
       PROVE  Shape'
  <2>1. RequestsApart'
    <3>1. CASE req[u].step = "load"
      <4> DEFINE r == [req[u] EXCEPT !.step = "pwrite"]
      <4>1. req[u] \in Requests /\ req' = [req EXCEPT ![u] = r]
        BY <1>21, <3>1 DEF FetchExit, Fetched, TypeOK
      <4>2. /\ r \in Requests /\ r.step = "pwrite"
            /\ r.path = req[u].path /\ r.dest = req[u].dest /\ r.path \in Paths
        BY <4>1, <3>1 DEF Requests, UserSteps, Shape, RequestsApart
      <4> HIDE DEF r
      <4> QED
        BY <3>1, <4>1, <4>2, RequestChanged DEF Shape, Names, RenameSteps
    <3>2. CASE req[u].step # "load"
      BY <1>21, <3>2, RequestEnds DEF FetchExit, Fetched, Shape
    <3> QED
      BY <3>1, <3>2
  <2>2. SendsOne' /\ MemoryGone'
    <3>1. up /\ UNCHANGED <<up, cycle>>
      BY <1>21 DEF FetchExit, FetchSteps, Shape, MemoryGone, Idle
    <3> QED
      BY <3>1 DEF Shape, SendsOne, MemoryGone
  <2> QED
    BY <2>1, <2>2 DEF Shape
<1>22. ASSUME NEW u \in Users, FetchError(u)
       PROVE  Shape'
  <2>1. req' = [req EXCEPT ![u] = Idle]
    BY <1>22 DEF FetchError
  <2>2. RequestsApart'
    BY <2>1, RequestEnds DEF Shape
  <2>3. SendsOne' /\ MemoryGone'
    BY <1>22 DEF FetchError, stored, Starts, Shape, SendsOne, MemoryGone, Idle
  <2> QED
    BY <2>2, <2>3 DEF Shape
<1>23. ASSUME NEW u \in Users, NEW c \in Contents, Pwrite(u, c)
       PROVE  Shape'
  <2>1. req' = [req EXCEPT ![u] = Idle]
    BY <1>23 DEF Pwrite
  <2>2. RequestsApart'
    BY <2>1, RequestEnds DEF Shape
  <2>3. SendsOne' /\ MemoryGone'
    BY <1>23 DEF Pwrite, stored, Starts, Shape, SendsOne, MemoryGone, Idle
  <2> QED
    BY <2>2, <2>3 DEF Shape
<1>24. ASSUME NEW s \in Senders, CycleStart(s)
       PROVE  Shape'
  <2>1. /\ cycle'[s].step = IF batch = NoBatch THEN "select" ELSE "store"
        /\ cycle'[s].file = cycle[s].file
        /\ cycle'[s].todo = cycle[s].todo
        /\ \A r \in Senders : r # s => cycle'[r] = cycle[r]
    BY <1>24 DEF CycleStart, TypeOK, CycleTo, Cycles
  <2> QED
    BY <1>24, <2>1
       DEF CycleStart, stored, At, NoCycle, Shape, RequestsApart, Names,
           SendsOne, SendSteps, MemoryGone
<1>25. ASSUME NEW s \in Senders, StoreBatch(s)
       PROVE  Shape'
  <2>1. /\ cycle'[s].step = "reset"
        /\ cycle'[s].file = cycle[s].file
        /\ cycle'[s].todo = cycle[s].todo
        /\ \A r \in Senders : r # s => cycle'[r] = cycle[r]
    BY <1>25 DEF StoreBatch, TypeOK, CycleTo, Cycles
  <2> QED
    BY <1>25, <2>1
       DEF StoreBatch, stored, At, NoCycle, Shape, RequestsApart, Names,
           SendsOne, SendSteps, MemoryGone
<1>26. ASSUME NEW s \in Senders, ResetBatch(s)
       PROVE  Shape'
  <2>1. /\ cycle'[s].step = "select"
        /\ cycle'[s].file = cycle[s].file
        /\ cycle'[s].todo = cycle[s].todo
        /\ \A r \in Senders : r # s => cycle'[r] = cycle[r]
    BY <1>26 DEF ResetBatch, TypeOK, CycleTo, Cycles
  <2> QED
    BY <1>26, <2>1
       DEF ResetBatch, stored, At, NoCycle, Shape, RequestsApart, Names,
           SendsOne, SendSteps, MemoryGone
<1>27. ASSUME NEW s \in Senders, Select(s)
       PROVE  Shape'
  <2>1. /\ cycle'[s].step = "next"
        /\ cycle'[s].file = cycle[s].file
        /\ cycle'[s].todo = {p \in Paths : row[p] # Nil /\ row[p].local /\ row[p].ours}
        /\ \A r \in Senders : r # s => cycle'[r] = cycle[r]
    BY <1>27 DEF Select, TypeOK, Cycles
  <2>2. SendsOne'
    BY <1>27, <2>1 DEF Select, At, Shape, SendsOne, SendSteps
  <2>3. RequestsApart' /\ MemoryGone'
    BY <1>27
       DEF Select, stored, At, NoCycle, Shape, RequestsApart, Names,
           MemoryGone
  <2> QED
    BY <2>2, <2>3 DEF Shape
<1>28. ASSUME NEW s \in Senders, NEW p \in Paths, Send(s, p)
       PROVE  Shape'
  <2>1. /\ cycle'[s].step = "upload"
        /\ cycle'[s].file = p
        /\ cycle'[s].todo = cycle[s].todo \ {p}
        /\ \A r \in Senders : r # s => cycle'[r] = cycle[r]
    BY <1>28 DEF Send, TypeOK, Cycles
  <2> QED
    BY <1>28, <2>1
       DEF Send, stored, At, NoCycle, Shape, RequestsApart, Names, SendsOne,
           SendSteps, MemoryGone
<1>29. ASSUME NEW s \in Senders, Upload(s)
       PROVE  Shape'
  <2>1. /\ cycle'[s].step = "mark"
        /\ cycle'[s].file = cycle[s].file
        /\ cycle'[s].todo = cycle[s].todo
        /\ \A r \in Senders : r # s => cycle'[r] = cycle[r]
    BY <1>29 DEF Upload, TypeOK, CycleTo, Cycles
  <2> QED
    BY <1>29, <2>1
       DEF Upload, stored, At, NoCycle, Shape, RequestsApart, Names,
           SendsOne, SendSteps, MemoryGone
<1>30. ASSUME NEW s \in Senders, UploadExit(s)
       PROVE  Shape'
  <2>1. /\ cycle'[s].step = "mark"
        /\ cycle'[s].file = cycle[s].file
        /\ cycle'[s].todo = cycle[s].todo
        /\ \A r \in Senders : r # s => cycle'[r] = cycle[r]
    BY <1>30 DEF UploadExit, TypeOK, CycleTo, Cycles
  <2> QED
    BY <1>30, <2>1
       DEF UploadExit, stored, At, NoCycle, Shape, RequestsApart, Names,
           SendsOne, SendSteps, MemoryGone
<1>31. ASSUME NEW s \in Senders, UploadError(s)
       PROVE  Shape'
  <2>1. /\ cycle'[s].step = "next"
        /\ cycle'[s].file = Nil
        /\ cycle'[s].todo = cycle[s].todo
        /\ \A r \in Senders : r # s => cycle'[r] = cycle[r]
    BY <1>31 DEF UploadError, TypeOK, NextFile, NoCycle, Cycles
  <2> QED
    BY <1>31, <2>1
       DEF UploadError, stored, At, NoCycle, Shape, RequestsApart, Names,
           SendsOne, SendSteps, MemoryGone
<1>32. ASSUME NEW s \in Senders, Mark(s)
       PROVE  Shape'
  <2>1. /\ cycle'[s].step = "truncate"
        /\ cycle'[s].file = cycle[s].file
        /\ cycle'[s].todo = cycle[s].todo
        /\ \A r \in Senders : r # s => cycle'[r] = cycle[r]
    BY <1>32 DEF Mark, TypeOK, CycleTo, Cycles
  <2> QED
    BY <1>32, <2>1
       DEF Mark, stored, At, NoCycle, Shape, RequestsApart, Names, SendsOne,
           SendSteps, MemoryGone
<1>33. ASSUME NEW s \in Senders, Truncate(s)
       PROVE  Shape'
  <2>1. /\ cycle'[s].step = "next"
        /\ cycle'[s].file = Nil
        /\ cycle'[s].todo = cycle[s].todo
        /\ \A r \in Senders : r # s => cycle'[r] = cycle[r]
    BY <1>33 DEF Truncate, TypeOK, NextFile, NoCycle, Cycles
  <2> QED
    BY <1>33, <2>1
       DEF Truncate, stored, At, NoCycle, Shape, RequestsApart, Names,
           SendsOne, SendSteps, MemoryGone
<1>34. ASSUME NEW s \in Senders, CycleEnd(s)
       PROVE  Shape'
  <2>1. /\ cycle'[s] = NoCycle
        /\ \A r \in Senders : r # s => cycle'[r] = cycle[r]
    BY <1>34 DEF CycleEnd, TypeOK, Cycles
  <2> QED
    BY <1>34, <2>1
       DEF CycleEnd, stored, At, NoCycle, Shape, RequestsApart, Names,
           SendsOne, SendSteps, MemoryGone
<1> QED
  BY <1>1, <1>2, <1>3, <1>4, <1>5, <1>6, <1>7, <1>8, <1>9, <1>10, <1>11, <1>12,
     <1>13, <1>14, <1>15, <1>16, <1>17, <1>18, <1>19, <1>20, <1>21, <1>22,
     <1>23, <1>24, <1>25, <1>26, <1>27, <1>28, <1>29, <1>30, <1>31, <1>32,
     <1>33, <1>34
     DEF Next, DaemonNext, NamesNext, BytesNext, CycleNext

\* Two requests hold no path in common, unless one of them only reads, and a cycle
\* sends one file at a time.
THEOREM ShapeInvariant == Spec => [](TypeOK /\ Shape)
<1>1. Init => TypeOK /\ Shape
  BY InitType, InitShape
<1>2. TypeOK /\ Shape /\ [Next]_vars => (TypeOK /\ Shape)'
  BY TypeStep, ShapeStep
<1> QED
  BY <1>1, <1>2, PTL DEF Spec

\* The variables stay in their types, whatever the users do, whichever mishaps happen
\* and however often the process ends.
THEOREM TypeCorrect == Spec => []TypeOK
BY ShapeInvariant, PTL

-----------------------------------------------------------------------------
(* The contents.                                                           *)

\* A mishap is never forgotten.
LEMMA MishapsGrow == [Next]_vars => mishaps \subseteq mishaps'
BY DEF vars, Next, DaemonNext, NamesNext, BytesNext, CycleNext, Happens, Boot,
   Crash, SaveBatch, Stop, Rebuild, Create, ReadBatch, AppendEntry, Rename,
   RenameRow, RenameFile, Exchange, RenameFails, Unlink, UnlinkObject,
   UnlinkObjectFails, UnlinkFile, Download, Fetch, FetchExit, FetchError, Pwrite,
   CycleStart, StoreBatch, ResetBatch, Select, Send, Upload, UploadExit, UploadError,
   Mark, Truncate, CycleEnd, Insert

\* At the start there is no file.
LEMMA InitContent == Init => ContentInv
BY DEF Init, ContentInv, ContentParts, SendsAlone, SendsRows, SendsLocal, MarksSent,
       TruncatesMarked, RemoteTwin, FetchesRemote, FetchSteps, NamesLocal, ContentSafe,
       At, Local, Visible, Idle, NoCycle

\* A sender has a path of the folder, and no request holds it.
LEMMA SenderFile ==
    ASSUME TypeOK, Shape, ContentParts, NEW s \in Senders, cycle[s].file # Nil
    PROVE  /\ cycle[s].file \in Paths /\ disk[cycle[s].file] # Nil
           /\ \A u \in Users : req[u].step \in RenameSteps \cup UnlinkSteps =>
                 cycle[s].file \notin Names(u)
BY DEF TypeOK, Cycles, ContentParts, SendsAlone, Renamed, Names

\* Two requests that change names or bytes have no path in common.
LEMMA NamesApart ==
    ASSUME Shape, NEW u \in Users, NEW v \in Users, u # v,
           req[u].step # "fetch", req[v].step # "fetch",
           NEW x \in Names(u), x \in Names(v)
    PROVE  x = Nil
BY DEF Shape, RequestsApart

\* An INSERT of the batch leaves the rows that are there, and makes local ones; it
\* stores every entry, or some entry is lost.
LEMMA InsertKeeps ==
    ASSUME TypeOK, Insert, NEW p \in Paths
    PROVE  /\ row[p] # Nil => row'[p] = row[p]
           /\ row'[p] # Nil => row'[p] = row[p] \/ row'[p].ours
           /\ Local(p)' <=> Local(p)
           /\ batch[p] > 0 => row'[p] # Nil \/ "entry" \in mishaps'
<1>1. NewRow.local /\ NewRow.ours /\ NewRow # Nil
  BY Memory, RowsAssumption DEF NewRow
<1>2. batch[p] \in 0..2
  BY DEF TypeOK
<1>3. CASE Conflict
  BY <1>1, <1>2, <1>3 DEF TypeOK, Insert, Local, Happens, If, Unstored
<1>4. CASE ~Conflict
  <2>1. row' = [x \in Paths |-> IF batch[x] = 1 THEN NewRow ELSE row[x]]
    BY <1>4 DEF Insert
  <2>2. ~(batch[p] > 1) /\ ~(batch[p] = 1 /\ row[p] # Nil)
    BY <1>4 DEF Conflict
  <2> QED
    BY <1>1, <1>2, <2>1, <2>2 DEF Local
<1> QED
  BY <1>3, <1>4

\* A row that changes tiers is still one of its rule.
LEMMA RowFields ==
    ASSUME NEW r \in Rows, NEW b \in BOOLEAN, NEW c \in BOOLEAN
    PROVE  /\ LET n == [r EXCEPT !.local = b]
              IN  n # Nil /\ n.local = b /\ n.ours = r.ours
           /\ LET n == [r EXCEPT !.local = b, !.sized = c]
              IN  n # Nil /\ n.local = b /\ n.ours = r.ours
<1>1. [r EXCEPT !.local = b] # Nil /\ [r EXCEPT !.local = b, !.sized = c] # Nil
  BY RowChanged, RowsAssumption
<1> QED
  BY <1>1 DEF Rows

\* A download makes the row of its file local, and changes no other.
LEMMA FetchRow ==
    ASSUME TypeOK, NEW p \in Paths, RowLocal(p)
    PROVE  \A x \in Paths :
              /\ x = p => Local(x)'
              /\ x # p => row'[x] = row[x] /\ (Local(x)' <=> Local(x))
              /\ row'[x] # Nil <=> row[x] # Nil
              /\ row[x] # Nil => row'[x].ours = row[x].ours
<1>1. CASE Local(p)
  BY <1>1 DEF RowLocal, Local
<1>2. CASE ~Local(p)
  <2>1. row[p] # Nil /\ row[p] \in Rows
    BY <1>2 DEF Local, TypeOK
  <2>2. LET n == [row[p] EXCEPT !.local = TRUE]
        IN  row' = [row EXCEPT ![p] = n] /\ n # Nil /\ n.local = TRUE /\ n.ours = row[p].ours
    BY <1>2, <2>1, RowFields DEF RowLocal
  <2> QED
    BY <2>1, <2>2 DEF TypeOK, Local
<1> QED
  BY <1>1, <1>2

\* A file that was sent is marked in its row, and no other.
LEMMA MarkRow ==
    ASSUME TypeOK, NEW s \in Senders, Mark(s), NEW p \in Paths, p = cycle[s].file
    PROVE  \A x \in Paths :
              /\ x = p /\ row[p] # Nil => ~Local(x)'
              /\ x # p => row'[x] = row[x] /\ (Local(x)' <=> Local(x))
              /\ row'[x] # Nil <=> row[x] # Nil
              /\ row[x] # Nil => row'[x].ours = row[x].ours
<1>1. CASE row[p] = Nil
  BY <1>1 DEF Mark, Local
<1>2. CASE row[p] # Nil
  <2>1. row[p] \in Rows /\ cycle[s].sized \in BOOLEAN
    BY <1>2 DEF TypeOK, Cycles
  <2>2. LET n == [row[p] EXCEPT !.local = FALSE, !.sized = cycle[s].sized]
        IN  row' = [row EXCEPT ![p] = n] /\ n # Nil /\ n.local = FALSE /\ n.ours = row[p].ours
    BY <1>2, <2>1, RowFields DEF Mark
  <2> QED
    BY <1>2, <2>1, <2>2 DEF TypeOK, Local
<1> QED
  BY <1>1, <1>2

\* Every step keeps the contents, as long as the mishaps are of the kind "entry".
LEMMA ContentStep ==
    TypeOK /\ TypeOK' /\ Shape /\ Shape' /\ ContentInv /\ [Next]_vars => ContentInv'
<1> SUFFICES ASSUME TypeOK, TypeOK', Shape, Shape', ContentInv, [Next]_vars,
                    mishaps' \subseteq {"entry"}
             PROVE  ContentParts'
  BY DEF ContentInv
<1> USE DEF TypeOK, Happens, If
<1>1. ContentParts
  BY MishapsGrow DEF ContentInv
<1>2. CASE UNCHANGED vars
  BY <1>1, <1>2 DEF vars, ContentParts, SendsAlone, SendsRows, SendsLocal, MarksSent,
     TruncatesMarked, RemoteTwin, FetchesRemote, NamesLocal, ContentSafe, At, Local,
     Visible, Renamed
<1>3. ASSUME Boot
      PROVE  ContentParts'
  BY <1>1, <1>3
     DEF Boot, stored, ContentParts, SendsAlone, Renamed, RenameSteps,
         UnlinkSteps, Idle, NoCycle, SendsRows, SendsLocal, At, Local,
         MarksSent, TruncatesMarked, RemoteTwin, FetchesRemote, FetchSteps,
         NamesLocal, ContentSafe, Visible
<1>4. ASSUME Crash
      PROVE  ContentParts'
  <2>k. UNCHANGED <<disk, object, row, wanted>>
    BY <1>4 DEF Crash, stored, Down
  <2>r. \A u \in Users : req'[u] = Idle
    BY <1>4 DEF Crash, Down
  <2>c. \A s \in Senders : cycle'[s] = NoCycle
    BY <1>4 DEF Crash, Cycles, Down
  <2>d. row' = row
    BY <1>4 DEF Crash, Down, stored
  <2>1. /\ SendsAlone' /\ SendsRows' /\ SendsLocal' /\ MarksSent'
        /\ TruncatesMarked' /\ FetchesRemote' /\ NamesLocal'
    BY <1>4, <1>1, <2>k, <2>r, <2>c
       DEF ContentParts, SendsAlone, Renamed, RenameSteps, UnlinkSteps, Idle,
           NoCycle, SendsRows, SendsLocal, At, Local, MarksSent,
           TruncatesMarked, FetchesRemote, FetchSteps, NamesLocal, Crash
  <2>2. RemoteTwin' /\ ContentSafe'
    BY <1>1, <2>k DEF ContentParts, RemoteTwin, Local, ContentSafe, Visible
  <2> QED
    BY <2>1, <2>2 DEF ContentParts
<1>5. ASSUME SaveBatch
      PROVE  ContentParts'
  <2>k. UNCHANGED <<disk, object, batch, cycle, req, wanted>>
    BY <1>5 DEF SaveBatch, stored
  <2>i. \A p \in Paths : /\ row[p] # Nil => row'[p] = row[p]
                         /\ Local(p)' <=> Local(p)
    BY <1>5, InsertKeeps DEF SaveBatch
  <2>p. \A o \in Senders : At(o, "upload") \/ At(o, "mark") \/ At(o, "truncate") =>
           cycle[o].file \in Paths
    BY DEF Shape, SendsOne, SendSteps, At, Cycles
  <2>u. \A u \in Users : req[u].step # "idle" => req[u].path \in Paths
    BY DEF Shape, RequestsApart
  <2>1. /\ SendsRows' /\ SendsLocal' /\ TruncatesMarked' /\ RemoteTwin'
        /\ FetchesRemote' /\ NamesLocal' /\ ContentSafe'
    BY <1>5, <1>1, <2>k, <2>i, <2>p, <2>u
       DEF ContentParts, SendsRows, SendsLocal, At, Local, TruncatesMarked,
           RemoteTwin, FetchesRemote, FetchSteps, NamesLocal, ContentSafe,
           Visible, SaveBatch
  <2>2. SendsAlone' /\ MarksSent'
    BY <1>1, <2>k
       DEF ContentParts, SendsAlone, Renamed, RenameSteps, UnlinkSteps,
           MarksSent, At
  <2> QED
    BY <2>1, <2>2 DEF ContentParts
<1>6. ASSUME Stop
      PROVE  ContentParts'
  <2>k. UNCHANGED <<disk, object, row, wanted>>
    BY <1>6 DEF Stop, stored, Down
  <2>r. \A u \in Users : req'[u] = Idle
    BY <1>6 DEF Stop, Down
  <2>c. \A s \in Senders : cycle'[s] = NoCycle
    BY <1>6 DEF Stop, Cycles, Down
  <2>1. /\ SendsAlone' /\ SendsRows' /\ SendsLocal' /\ MarksSent'
        /\ TruncatesMarked' /\ FetchesRemote' /\ NamesLocal'
    BY <1>6, <1>1, <2>k, <2>r, <2>c
       DEF ContentParts, SendsAlone, Renamed, RenameSteps, UnlinkSteps, Idle,
           NoCycle, SendsRows, SendsLocal, At, Local, MarksSent,
           TruncatesMarked, FetchesRemote, FetchSteps, NamesLocal, Stop
  <2>2. RemoteTwin' /\ ContentSafe'
    BY <1>1, <2>k DEF ContentParts, RemoteTwin, Local, ContentSafe, Visible
  <2> QED
    BY <2>1, <2>2 DEF ContentParts
<1>7. ASSUME NEW lost \in BOOLEAN, NEW silent \in SUBSET Paths,
             Rebuild(lost, silent)
      PROVE  ContentParts'
  <2> DEFINE old == IF lost THEN [p \in Paths |-> Nil] ELSE row
             Finds(p) == Answers(p, old) /\ p \notin silent
  <2>k. UNCHANGED <<disk, object, cycle, req, wanted>>
    BY <1>7 DEF Rebuild
  <2>g. /\ \A s \in Senders : cycle[s] = NoCycle
        /\ \A u \in Users : req[u] = Idle
    BY <1>7 DEF Rebuild, Shape, MemoryGone
  <2>s. silent = {} /\ \A p \in Paths : Finds(p) => ~Local(p)
    BY <1>7 DEF Rebuild
  <2>r. \A p \in Paths :
           row'[p] = IF disk[p] = Nil THEN old[p]
                     ELSE IF Finds(p)
                     THEN [FoundRow(p, old) EXCEPT !.local = FALSE, !.sized = TRUE]
                     ELSE FoundRow(p, old)
    BY <1>7 DEF Rebuild
  <2>o. \A p \in Paths : old[p] \in Rows \cup {Nil} /\ (old[p] = row[p] \/ old[p] = Nil)
    OBVIOUS
  <2>f. \A p \in Paths : FoundRow(p, old) \in Rows
    BY <2>o DEF FoundRow, Rows
  <2>n. ASSUME NEW p \in Paths, disk[p] # Nil, Finds(p) PROVE ~Local(p)'
    <3>1. PICK r \in Rows : row'[p] = [r EXCEPT !.local = FALSE, !.sized = TRUE]
      BY <2>r, <2>f, <2>n
    <3>2. row'[p] # Nil /\ row'[p].local = FALSE
      BY <3>1, RowFields
    <3> QED
      BY <3>2 DEF Local
  <2>h. ASSUME NEW p \in Paths, disk[p] # Nil, ~Finds(p), old[p] = Nil PROVE Local(p)'
    <3>1. row'[p] = [local |-> TRUE, ours |-> FALSE, sized |-> disk[p] # Empty]
      BY <2>r, <2>h DEF FoundRow
    <3> QED
      BY <3>1 DEF Local
  <2>i. \A p \in Paths : ~Finds(p) /\ old[p] # Nil => row'[p] = row[p]
    BY <2>r, <2>o DEF FoundRow
  <2>e. \A p \in Paths : disk[p] = Nil /\ old[p] = Nil => Local(p)'
    BY <2>r DEF Local
  <2>q. \A p \in Paths : disk[p] = Nil => ~Finds(p)
    BY DEF Answers, Asked
  <2>t. \A p \in Paths :
           ~Local(p) /\ ~Finds(p) /\ old[p] = Nil /\ disk[p] # Nil /\ object[p] # Nil =>
               object[p] = disk[p]
    BY <1>1, <2>s DEF ContentParts, RemoteTwin, Answers, Asked, FoundRow
  <2> HIDE DEF old, Finds
  <2>1. \A p \in Paths : Local(p) => Local(p)'
    BY <2>s, <2>h, <2>i, <2>e DEF Local
  <2>2. \A p \in Paths : ~Local(p) /\ Local(p)' => disk[p] = Nil \/ object[p] \in {Nil, disk[p]}
    BY <2>n, <2>i, <2>t, <2>q DEF Local
  <2>3. RemoteTwin' /\ ContentSafe'
    BY <1>1, <2>1, <2>2, <2>k DEF ContentParts, RemoteTwin, ContentSafe, Visible
  <2>4. /\ SendsAlone' /\ SendsRows' /\ SendsLocal' /\ MarksSent' /\ TruncatesMarked'
        /\ FetchesRemote' /\ NamesLocal'
    BY <2>g, <2>k
       DEF SendsAlone, SendsRows, SendsLocal, MarksSent, TruncatesMarked, FetchesRemote,
           FetchSteps, NamesLocal, At, Idle, NoCycle
  <2> QED
    BY <2>3, <2>4 DEF ContentParts
<1>8. ASSUME NEW u \in Users, NEW p \in Paths, Create(u, p)
      PROVE  ContentParts'
  <2>k. UNCHANGED <<object, row, batch, handler, cycle>>
    BY <1>8 DEF Create, stored
  <2>r. /\ req'[u] = [step |-> "read", path |-> p, dest |-> Nil]
        /\ \A v \in Users : v # u => req'[v] = req[v]
    BY <1>8 DEF Create, Goes
  <2>f. \A s \in Senders : cycle[s].file # Nil => cycle[s].file \in Paths /\ cycle[s].file # p
    BY <1>1, <1>8, SenderFile DEF Create
  <2>s. \A s \in Senders : At(s, "mark") => cycle[s].file # Nil
    BY DEF Shape, SendsOne, SendSteps, At
  <2>v. \A v \in Users : req[v].step = "move" => req[v].dest \in Paths /\ req[v].dest # p
    BY <1>8 DEF Create, Held, Shape, RequestsApart, RenameSteps
  <2>o. ~Local(p) => object[p] = Nil
    BY <1>1, <1>8 DEF Create, ContentParts, RemoteTwin
  <2>d. disk'[p] = Empty /\ \A x \in Paths : x # p => disk'[x] = disk[x]
    BY <1>8 DEF Create
  <2>1. SendsAlone'
    BY <1>8, <1>1, <2>k, <2>r, <2>f, <2>s
       DEF ContentParts, SendsAlone, Renamed, RenameSteps, UnlinkSteps,
           Create
  <2>2. MarksSent'
    BY <1>1, <2>k, <2>f, <2>s, <2>d DEF ContentParts, MarksSent, At
  <2>3. RemoteTwin'
    BY <1>8, <1>1, <2>k, <2>r, <2>f, <2>s
       DEF ContentParts, RemoteTwin, Local, Create
  <2>4. FetchesRemote'
    BY <1>8, <1>1, <2>k, <2>r, <2>f, <2>s
       DEF ContentParts, FetchesRemote, FetchSteps, At, Local, Create
  <2>5. NamesLocal'
    BY <1>1, <2>k, <2>r, <2>v, <2>d DEF ContentParts, NamesLocal, Local
  <2>6. ContentSafe'
    BY <1>1, <1>8, <2>k, <2>o, <2>d
       DEF ContentParts, ContentSafe, Visible, Local, Create
  <2>7. SendsRows' /\ SendsLocal' /\ TruncatesMarked'
    BY <1>1, <2>k
       DEF ContentParts, SendsRows, SendsLocal, At, Local, TruncatesMarked
  <2> QED
    BY <2>1, <2>2, <2>3, <2>4, <2>5, <2>6, <2>7 DEF ContentParts
<1>9. ASSUME NEW u \in Users, NEW p \in Paths, Unlink(u, p)
      PROVE  ContentParts'
  <2>k. UNCHANGED <<disk, object, row, batch, handler, cycle, wanted>>
    BY <1>9 DEF Unlink, stored
  <2>r. /\ req'[u] = [step |-> IF Local(p) THEN "unlink" ELSE "content", path |-> p, dest |-> Nil]
        /\ \A v \in Users : v # u => req'[v] = req[v]
    BY <1>9 DEF Unlink, Goes
  <2>1. SendsAlone'
    BY <1>9, <1>1, <2>k, <2>r
       DEF ContentParts, SendsAlone, Renamed, RenameSteps, UnlinkSteps,
           Unlink, Sending
  <2>2. FetchesRemote'
    BY <1>9, <1>1, <2>k, <2>r
       DEF ContentParts, FetchesRemote, FetchSteps, At, Local, Unlink,
           Sending
  <2>3. NamesLocal'
    BY <1>9, <1>1, <2>k, <2>r DEF ContentParts, NamesLocal, Local, Unlink, Sending
  <2>4. /\ SendsRows' /\ SendsLocal' /\ MarksSent' /\ TruncatesMarked'
        /\ RemoteTwin' /\ ContentSafe'
    BY <1>1, <2>k
       DEF ContentParts, SendsRows, SendsLocal, At, Local, MarksSent,
           TruncatesMarked, RemoteTwin, ContentSafe, Visible
  <2> QED
    BY <2>1, <2>2, <2>3, <2>4 DEF ContentParts
<1>10. ASSUME NEW u \in Users, NEW p \in Paths, NEW q \in Paths, NEW f \in BOOLEAN,
              Rename(u, p, q, f)
       PROVE  ContentParts'
  <2>k. UNCHANGED <<disk, object, row, batch, handler, cycle, wanted>>
    BY <1>10 DEF Rename, stored
  <2>r. /\ req'[u] = [step |-> IF f \/ Local(p) THEN "move" ELSE "row", path |-> p, dest |-> q]
        /\ \A v \in Users : v # u => req'[v] = req[v]
    BY <1>10 DEF Rename, Goes
  <2>n. /\ \A s \in Senders : cycle[s].file \notin {p, q}
        /\ \A x \in Paths : Renamed(x)' => Renamed(x) \/ x \in {p, q}
    BY <2>r, <1>10 DEF Rename, Sending, Renamed
  <2>1. SendsAlone'
    BY <1>1, <2>k, <2>n DEF ContentParts, SendsAlone, Cycles
  <2>2. FetchesRemote'
    BY <1>10, <1>1, <2>k, <2>r
       DEF ContentParts, FetchesRemote, FetchSteps, At, Local, Rename,
           Sending
  <2>3. NamesLocal'
    BY <1>10, <1>1, <2>k, <2>r DEF ContentParts, NamesLocal, Local, Rename, Sending
  <2>4. /\ SendsRows' /\ SendsLocal' /\ MarksSent' /\ TruncatesMarked'
        /\ RemoteTwin' /\ ContentSafe'
    BY <1>1, <2>k
       DEF ContentParts, SendsRows, SendsLocal, At, Local, MarksSent,
           TruncatesMarked, RemoteTwin, ContentSafe, Visible
  <2> QED
    BY <2>1, <2>2, <2>3, <2>4 DEF ContentParts
<1>11. ASSUME NEW u \in Users, ReadBatch(u)
       PROVE  ContentParts'
  <2>k. UNCHANGED <<disk, object, row, batch, handler, cycle, wanted>>
    BY <1>11 DEF ReadBatch, stored
  <2>r. /\ req'[u] = [step |-> "append", path |-> req[u].path, dest |-> Nil]
        /\ \A v \in Users : v # u => req'[v] = req[v]
    BY <1>11 DEF ReadBatch, Goes
  <2>n. \A x \in Paths : Renamed(x)' => Renamed(x)
    BY <2>r, <1>11 DEF ReadBatch, Renamed, RenameSteps, UnlinkSteps
  <2>1. SendsAlone'
    BY <1>1, <2>k, <2>n DEF ContentParts, SendsAlone, Cycles
  <2>2. FetchesRemote'
    BY <1>11, <1>1, <2>k, <2>r, <2>n
       DEF ContentParts, FetchesRemote, FetchSteps, At, Local, ReadBatch
  <2>3. NamesLocal'
    BY <1>11, <1>1, <2>k, <2>r, <2>n DEF ContentParts, NamesLocal, Local, ReadBatch
  <2>4. /\ SendsRows' /\ SendsLocal' /\ MarksSent' /\ TruncatesMarked'
        /\ RemoteTwin' /\ ContentSafe'
    BY <1>1, <2>k
       DEF ContentParts, SendsRows, SendsLocal, At, Local, MarksSent,
           TruncatesMarked, RemoteTwin, ContentSafe, Visible
  <2> QED
    BY <2>1, <2>2, <2>3, <2>4 DEF ContentParts
<1>12. ASSUME NEW u \in Users, AppendEntry(u)
       PROVE  ContentParts'
  <2>k. UNCHANGED <<disk, object, row, handler, cycle, wanted>>
    BY <1>12 DEF AppendEntry, stored
  <2>r. /\ req'[u] = Idle
        /\ \A v \in Users : v # u => req'[v] = req[v]
    BY <1>12 DEF AppendEntry
  <2>1. SendsAlone' /\ FetchesRemote' /\ NamesLocal'
    BY <1>12, <1>1, <2>k, <2>r
       DEF ContentParts, SendsAlone, Renamed, RenameSteps, UnlinkSteps, Idle,
           FetchesRemote, FetchSteps, At, Local, NamesLocal, AppendEntry
  <2>2. /\ SendsRows' /\ SendsLocal' /\ MarksSent' /\ TruncatesMarked'
        /\ RemoteTwin' /\ ContentSafe'
    BY <1>1, <2>k
       DEF ContentParts, SendsRows, SendsLocal, At, Local, MarksSent,
           TruncatesMarked, RemoteTwin, ContentSafe, Visible
  <2> QED
    BY <2>1, <2>2 DEF ContentParts
<1>13. ASSUME NEW u \in Users, RenameRow(u)
       PROVE  ContentParts'
  BY <1>1, <1>13
     DEF RenameRow, Goes, stored, ContentParts, SendsAlone, Renamed,
         RenameSteps, UnlinkSteps, Idle, NoCycle, SendsRows, SendsLocal, At,
         Local, MarksSent, TruncatesMarked, RemoteTwin, FetchesRemote,
         FetchSteps, NamesLocal, ContentSafe, Visible
<1>14. ASSUME NEW u \in Users, RenameFile(u)
       PROVE  ContentParts'
  <2>k. UNCHANGED <<object, row, batch, handler, cycle>>
    BY <1>14 DEF RenameFile, stored
  <2>r. /\ req'[u] = Idle
        /\ \A v \in Users : v # u => req'[v] = req[v]
    BY <1>14 DEF RenameFile
  <2>f. \A s \in Senders : cycle[s].file # Nil =>
           cycle[s].file \in Paths /\ cycle[s].file # req[u].path /\ cycle[s].file # req[u].dest
    BY <1>1, <1>14, SenderFile DEF RenameFile, Names, RenameSteps, UnlinkSteps
  <2>s. \A s \in Senders : At(s, "mark") \/ At(s, "truncate") => cycle[s].file # Nil
    BY DEF Shape, SendsOne, SendSteps, At
  <2>p. req[u].path \in Paths
    BY <1>14 DEF RenameFile, Shape, RequestsApart
  <2>d. req[u].dest \in Paths /\ req[u].dest # req[u].path
    BY <1>14 DEF RenameFile, Shape, RequestsApart, RenameSteps
  <2>m. req[u].step = "move" /\ Local(req[u].path) /\ Local(req[u].dest)
    BY <1>1, <1>14 DEF RenameFile, ContentParts, NamesLocal
  <2>v. \A v \in Users : v # u /\ req[v].step = "move" =>
           req[v].dest \in Paths /\ req[v].dest \notin Names(u)
    <3>1. \A v \in Users : req[v].step = "move" => req[v].dest \in Paths
      BY DEF Shape, RequestsApart, RenameSteps
    <3>2. \A v \in Users : req[v].dest \in Names(v)
      BY DEF Names
    <3>3. ASSUME NEW v \in Users, v # u, req[v].step = "move", req[v].dest \in Names(u)
          PROVE  FALSE
      BY <2>m, <3>1, <3>2, <3>3, NamesApart
    <3> QED
      BY <3>1, <3>3
  <2>1. SendsAlone'
    BY <1>14, <1>1, <2>k, <2>r, <2>f, <2>s, <2>p, <2>d, <2>m
       DEF ContentParts, SendsAlone, Renamed, RenameSteps, UnlinkSteps, Idle,
           RenameFile
  <2>2. MarksSent'
    BY <1>14, <1>1, <2>k, <2>r, <2>f, <2>s, <2>p, <2>d, <2>m
       DEF ContentParts, MarksSent, At, RenameFile
  <2>3. RemoteTwin'
    BY <1>14, <1>1, <2>k, <2>r, <2>f, <2>s, <2>p, <2>d, <2>m
       DEF ContentParts, RemoteTwin, Local, RenameFile
  <2>4. FetchesRemote'
    BY <1>14, <1>1, <2>k, <2>r, <2>f, <2>s, <2>p, <2>d, <2>m
       DEF ContentParts, FetchesRemote, FetchSteps, At, Local, Idle,
           RenameFile
  <2>5. NamesLocal'
    BY <1>14, <1>1, <2>k, <2>r, <2>p, <2>d, <2>m, <2>v
       DEF ContentParts, NamesLocal, Local, Idle, RenameFile, Names
  <2>6. ContentSafe'
    BY <1>14, <1>1, <2>k, <2>r, <2>f, <2>s, <2>p, <2>d, <2>m
       DEF ContentParts, ContentSafe, Visible, Local, RenameFile
  <2>7. SendsRows' /\ SendsLocal' /\ TruncatesMarked'
    BY <1>1, <2>k
       DEF ContentParts, SendsRows, SendsLocal, At, Local, TruncatesMarked
  <2> QED
    BY <2>1, <2>2, <2>3, <2>4, <2>5, <2>6, <2>7 DEF ContentParts
<1>15. ASSUME NEW u \in Users, Exchange(u)
       PROVE  ContentParts'
  <2>k. UNCHANGED <<object, row, batch, handler, cycle>>
    BY <1>15 DEF Exchange, stored
  <2>r. /\ req'[u] = Idle
        /\ \A v \in Users : v # u => req'[v] = req[v]
    BY <1>15 DEF Exchange
  <2>f. \A s \in Senders : cycle[s].file # Nil =>
           cycle[s].file \in Paths /\ cycle[s].file # req[u].path /\ cycle[s].file # req[u].dest
    BY <1>1, <1>15, SenderFile DEF Exchange, Names, RenameSteps, UnlinkSteps
  <2>s. \A s \in Senders : At(s, "mark") \/ At(s, "truncate") => cycle[s].file # Nil
    BY DEF Shape, SendsOne, SendSteps, At
  <2>p. req[u].path \in Paths
    BY <1>15 DEF Exchange, Shape, RequestsApart
  <2>d. req[u].dest \in Paths /\ req[u].dest # req[u].path
    BY <1>15 DEF Exchange, Shape, RequestsApart, RenameSteps
  <2>m. req[u].step = "move" /\ Local(req[u].path) /\ Local(req[u].dest)
    BY <1>1, <1>15 DEF Exchange, ContentParts, NamesLocal
  <2>v. \A v \in Users : v # u /\ req[v].step = "move" =>
           req[v].dest \in Paths /\ req[v].dest \notin Names(u)
    <3>1. \A v \in Users : req[v].step = "move" => req[v].dest \in Paths
      BY DEF Shape, RequestsApart, RenameSteps
    <3>2. \A v \in Users : req[v].dest \in Names(v)
      BY DEF Names
    <3>3. ASSUME NEW v \in Users, v # u, req[v].step = "move", req[v].dest \in Names(u)
          PROVE  FALSE
      BY <2>m, <3>1, <3>2, <3>3, NamesApart
    <3> QED
      BY <3>1, <3>3
  <2>1. SendsAlone'
    BY <1>15, <1>1, <2>k, <2>r, <2>f, <2>s, <2>p, <2>d, <2>m
       DEF ContentParts, SendsAlone, Renamed, RenameSteps, UnlinkSteps, Idle,
           Exchange
  <2>2. MarksSent'
    BY <1>15, <1>1, <2>k, <2>r, <2>f, <2>s, <2>p, <2>d, <2>m
       DEF ContentParts, MarksSent, At, Exchange
  <2>3. RemoteTwin'
    BY <1>15, <1>1, <2>k, <2>r, <2>f, <2>s, <2>p, <2>d, <2>m
       DEF ContentParts, RemoteTwin, Local, Exchange
  <2>4. FetchesRemote'
    BY <1>15, <1>1, <2>k, <2>r, <2>f, <2>s, <2>p, <2>d, <2>m
       DEF ContentParts, FetchesRemote, FetchSteps, At, Local, Idle, Exchange
  <2>5. NamesLocal'
    BY <1>15, <1>1, <2>k, <2>r, <2>p, <2>d, <2>m, <2>v
       DEF ContentParts, NamesLocal, Local, Idle, Exchange, Names
  <2>6. ContentSafe'
    BY <1>15, <1>1, <2>k, <2>r, <2>f, <2>s, <2>p, <2>d, <2>m
       DEF ContentParts, ContentSafe, Visible, Local, Exchange
  <2>7. SendsRows' /\ SendsLocal' /\ TruncatesMarked'
    BY <1>1, <2>k
       DEF ContentParts, SendsRows, SendsLocal, At, Local, TruncatesMarked
  <2> QED
    BY <2>1, <2>2, <2>3, <2>4, <2>5, <2>6, <2>7 DEF ContentParts
<1>16. ASSUME NEW u \in Users, RenameFails(u)
       PROVE  ContentParts'
  BY <1>1, <1>16
     DEF RenameFails, stored, ContentParts, SendsAlone, Renamed, RenameSteps,
         UnlinkSteps, Idle, NoCycle, SendsRows, SendsLocal, At, Local,
         MarksSent, TruncatesMarked, RemoteTwin, FetchesRemote, FetchSteps,
         NamesLocal, ContentSafe, Visible
<1>17. ASSUME NEW u \in Users, UnlinkObject(u)
       PROVE  ContentParts'
  <2>k. UNCHANGED <<disk, row, batch, handler, cycle>>
    BY <1>17 DEF UnlinkObject, stored
  <2>r. /\ req'[u] = [step |-> "unlink", path |-> req[u].path, dest |-> Nil]
        /\ \A v \in Users : v # u => req'[v] = req[v]
    BY <1>17 DEF UnlinkObject, Goes
  <2>f. \A s \in Senders : cycle[s].file # Nil =>
           cycle[s].file \in Paths /\ cycle[s].file # req[u].path /\ cycle[s].file # req[u].dest
    BY <1>1, <1>17, SenderFile DEF UnlinkObject, Names, RenameSteps, UnlinkSteps
  <2>s. \A s \in Senders : At(s, "mark") \/ At(s, "truncate") => cycle[s].file # Nil
    BY DEF Shape, SendsOne, SendSteps, At
  <2>p. req[u].path \in Paths
    BY <1>17 DEF UnlinkObject, Shape, RequestsApart
  <2>1. SendsAlone'
    BY <1>17, <1>1, <2>k, <2>r, <2>f, <2>s, <2>p
       DEF ContentParts, SendsAlone, Renamed, RenameSteps, UnlinkSteps,
           UnlinkObject
  <2>2. MarksSent'
    BY <1>17, <1>1, <2>k, <2>r, <2>f, <2>s, <2>p
       DEF ContentParts, MarksSent, At, UnlinkObject
  <2>3. TruncatesMarked'
    BY <1>17, <1>1, <2>k, <2>r, <2>f, <2>s, <2>p
       DEF ContentParts, TruncatesMarked, At, Local, UnlinkObject
  <2>4. RemoteTwin'
    BY <1>17, <1>1, <2>k, <2>r, <2>f, <2>s, <2>p
       DEF ContentParts, RemoteTwin, Local, UnlinkObject
  <2>5. FetchesRemote'
    BY <1>17, <1>1, <2>k, <2>r, <2>f, <2>s, <2>p
       DEF ContentParts, FetchesRemote, FetchSteps, At, Local, UnlinkObject
  <2>6. NamesLocal'
    BY <1>17, <1>1, <2>k, <2>r, <2>f, <2>s, <2>p
       DEF ContentParts, NamesLocal, Local, UnlinkObject
  <2>7. ContentSafe'
    BY <1>17, <1>1, <2>k, <2>r, <2>f, <2>s, <2>p
       DEF ContentParts, ContentSafe, Visible, Local, UnlinkObject
  <2>8. SendsRows' /\ SendsLocal'
    BY <1>1, <2>k DEF ContentParts, SendsRows, SendsLocal, At, Local
  <2> QED
    BY <2>1, <2>2, <2>3, <2>4, <2>5, <2>6, <2>7, <2>8 DEF ContentParts
<1>18. ASSUME NEW u \in Users, UnlinkObjectFails(u)
       PROVE  ContentParts'
  BY <1>1, <1>18
     DEF UnlinkObjectFails, Goes, stored, ContentParts, SendsAlone, Renamed,
         RenameSteps, UnlinkSteps, Idle, NoCycle, SendsRows, SendsLocal, At,
         Local, MarksSent, TruncatesMarked, RemoteTwin, FetchesRemote,
         FetchSteps, NamesLocal, ContentSafe, Visible
<1>19. ASSUME NEW u \in Users, UnlinkFile(u)
       PROVE  ContentParts'
  <2>k. UNCHANGED <<object, row, batch, handler, cycle>>
    BY <1>19 DEF UnlinkFile, stored
  <2>r. /\ req'[u] = Idle
        /\ \A v \in Users : v # u => req'[v] = req[v]
    BY <1>19 DEF UnlinkFile
  <2>f. \A s \in Senders : cycle[s].file # Nil =>
           cycle[s].file \in Paths /\ cycle[s].file # req[u].path /\ cycle[s].file # req[u].dest
    BY <1>1, <1>19, SenderFile DEF UnlinkFile, Names, RenameSteps, UnlinkSteps
  <2>s. \A s \in Senders : At(s, "mark") \/ At(s, "truncate") => cycle[s].file # Nil
    BY DEF Shape, SendsOne, SendSteps, At
  <2>p. req[u].path \in Paths
    BY <1>19 DEF UnlinkFile, Shape, RequestsApart
  <2>1. RemoteTwin'
    BY <1>19, <1>1, <2>k, <2>p
       DEF ContentParts, RemoteTwin, NamesLocal, Local, UnlinkFile
  <2>2. SendsAlone' /\ MarksSent' /\ FetchesRemote' /\ NamesLocal' /\ ContentSafe'
    BY <1>19, <1>1, <2>k, <2>r, <2>f, <2>s, <2>p
       DEF ContentParts, SendsAlone, Renamed, RenameSteps, UnlinkSteps, Idle,
           MarksSent, At, FetchesRemote, FetchSteps, Local, NamesLocal,
           ContentSafe, Visible, UnlinkFile
  <2>3. SendsRows' /\ SendsLocal' /\ TruncatesMarked'
    BY <1>1, <2>k
       DEF ContentParts, SendsRows, SendsLocal, At, Local, TruncatesMarked
  <2> QED
    BY <2>1, <2>2, <2>3 DEF ContentParts
<1>20. ASSUME NEW u \in Users, NEW p \in Paths, NEW op \in {"read", "write"},
              Download(u, op, p)
       PROVE  ContentParts'
  <2>k. UNCHANGED <<disk, object, row, batch, handler, cycle, wanted>>
    BY <1>20 DEF Download, stored
  <2>r. /\ req'[u].path = p
        /\ req'[u].dest = Nil
        /\ req'[u].step \in {"fetch", "load"} => ~Local(p)
        /\ req'[u].step \in {"fetch", "load", "pwrite"}
        /\ \A v \in Users : v # u => req'[v] = req[v]
    BY <1>20 DEF Download, Goes, Starts, Idle, Requests
  <2>1. SendsAlone'
    BY <1>20, <1>1, <2>k, <2>r
       DEF ContentParts, SendsAlone, Renamed, RenameSteps, UnlinkSteps,
           Download
  <2>2. FetchesRemote'
    BY <1>20, <1>1, <2>k, <2>r
       DEF ContentParts, FetchesRemote, FetchSteps, At, Local, Download
  <2>3. NamesLocal'
    BY <1>20, <1>1, <2>k, <2>r DEF ContentParts, NamesLocal, Local, Download
  <2>4. /\ SendsRows' /\ SendsLocal' /\ MarksSent' /\ TruncatesMarked'
        /\ RemoteTwin' /\ ContentSafe'
    BY <1>1, <2>k
       DEF ContentParts, SendsRows, SendsLocal, At, Local, MarksSent,
           TruncatesMarked, RemoteTwin, ContentSafe, Visible
  <2> QED
    BY <2>1, <2>2, <2>3, <2>4 DEF ContentParts
<1>21. ASSUME NEW u \in Users, Fetch(u)
       PROVE  ContentParts'
  <2>k. UNCHANGED <<batch, handler, cycle, wanted>>
    BY <1>21 DEF Fetch, stored
  <2>r. /\ \/ req'[u] = Idle
           \/ /\ req[u].step = "load"
              /\ req'[u] = [step |-> "pwrite", path |-> req[u].path, dest |-> req[u].dest]
        /\ \A v \in Users : v # u => req'[v] = req[v]
    BY <1>21 DEF Fetch, Fetched, Requests
  <2>p. req[u].path \in Paths /\ \A s \in Senders : cycle[s].file # req[u].path
    BY <1>21 DEF Fetch, Shape, RequestsApart, Sending
  <2>l. \A x \in Paths : row'[x] # Nil <=> row[x] # Nil
    BY <1>21, <2>p, FetchRow DEF Fetch
  <2>h. \A x \in Paths : x = req[u].path => Local(x)'
    BY <1>21, <2>p, FetchRow DEF Fetch
  <2>n. \A x \in Paths : Renamed(x)' => Renamed(x)
    BY <2>r, <1>21 DEF Fetch, FetchSteps, Renamed, RenameSteps, UnlinkSteps, Idle
  <2>a. \A x \in Paths : x # req[u].path => (Local(x)' <=> Local(x))
    BY <1>21, <2>p, FetchRow DEF Fetch
  <2>f. object[req[u].path] = Nil \/ ~Local(req[u].path)
    BY <1>1, <1>21, <2>p DEF Fetch, ContentParts, FetchesRemote
  <2>d. /\ \A x \in Paths : x # req[u].path => disk'[x] = disk[x] /\ object'[x] = object[x]
        /\ object'[req[u].path] = Nil /\ disk'[req[u].path] = Visible(req[u].path)
        /\ disk'[req[u].path] = Nil <=> disk[req[u].path] = Nil
    BY <1>1, <1>21, <2>p, <2>f DEF Fetch, ContentParts, RemoteTwin, Visible
  <2>s. \A o \in Senders : At(o, "upload") \/ At(o, "mark") \/ At(o, "truncate") =>
           cycle[o].file \in Paths
    BY DEF Shape, SendsOne, SendSteps, At, Cycles
  <2>u. \A v \in Users :
           /\ req[v].step # "idle" => req[v].path \in Paths
           /\ req[v].step = "move" => req[v].dest \in Paths
    BY DEF Shape, RequestsApart, RenameSteps
  <2>1. SendsAlone'
    BY <1>1, <2>k, <2>p, <2>d, <2>n DEF ContentParts, SendsAlone, Cycles
  <2>2. SendsRows'
    BY <1>1, <2>k, <2>l DEF ContentParts, SendsRows
  <2>3. SendsLocal'
    BY <1>1, <2>k, <2>p, <2>a, <2>s DEF ContentParts, SendsLocal, At
  <2>4. MarksSent'
    BY <1>1, <2>k, <2>p, <2>d, <2>s DEF ContentParts, MarksSent, At
  <2>5. TruncatesMarked'
    BY <1>1, <2>k, <2>p, <2>a, <2>d, <2>s DEF ContentParts, TruncatesMarked, At
  <2>6. RemoteTwin'
    BY <1>1, <2>h, <2>a, <2>d DEF ContentParts, RemoteTwin
  <2>7. FetchesRemote'
    <3>1. ASSUME NEW v \in Users, req'[v].step \in FetchSteps
          PROVE  v # u /\ req'[v] = req[v] /\ req[v].path \in Paths
      BY <2>r, <2>u, <3>1 DEF FetchSteps, Idle
    <3> QED
      BY <1>1, <2>k, <2>a, <2>d, <3>1 DEF ContentParts, FetchesRemote, At
  <2>8. NamesLocal'
    <3>1. ASSUME NEW v \in Users, req'[v].step \in {"moved", "unlink", "move"}
          PROVE  v # u /\ req'[v] = req[v]
      BY <2>r, <3>1 DEF Idle
    <3>2. \A x \in Paths : disk'[x] = Nil <=> disk[x] = Nil
      BY <2>d, <2>p
    <3> QED
      BY <1>1, <2>a, <2>h, <2>d, <2>u, <3>1, <3>2 DEF ContentParts, NamesLocal
  <2>9. ContentSafe'
    BY <1>1, <2>k, <2>h, <2>a, <2>d, <2>p DEF ContentParts, ContentSafe, Visible
  <2> QED
    BY <2>1, <2>2, <2>3, <2>4, <2>5, <2>6, <2>7, <2>8, <2>9 DEF ContentParts
<1>22. ASSUME NEW u \in Users, FetchExit(u)
       PROVE  ContentParts'
  BY <1>1, <1>22
     DEF FetchExit, Fetched, stored, ContentParts, SendsAlone, Renamed,
         RenameSteps, UnlinkSteps, Idle, NoCycle, SendsRows, SendsLocal, At,
         Local, MarksSent, TruncatesMarked, RemoteTwin, FetchesRemote,
         FetchSteps, NamesLocal, ContentSafe, Visible
<1>23. ASSUME NEW u \in Users, FetchError(u)
       PROVE  ContentParts'
  BY <1>1, <1>23
     DEF FetchError, stored, ContentParts, SendsAlone, Renamed, RenameSteps,
         UnlinkSteps, Idle, NoCycle, SendsRows, SendsLocal, At, Local,
         MarksSent, TruncatesMarked, RemoteTwin, FetchesRemote, FetchSteps,
         NamesLocal, ContentSafe, Visible
<1>24. ASSUME NEW u \in Users, NEW c \in Contents, Pwrite(u, c)
       PROVE  ContentParts'
  <2>k. UNCHANGED <<object, row, batch, handler, cycle>>
    BY <1>24 DEF Pwrite, stored
  <2>r. /\ req'[u] = Idle
        /\ \A v \in Users : v # u => req'[v] = req[v]
    BY <1>24 DEF Pwrite
  <2>p. req[u].path \in Paths /\ \A s \in Senders : cycle[s].file # req[u].path
    BY <1>24 DEF Pwrite, Shape, RequestsApart, Sending
  <2>v. \A v \in Users : v # u /\ req[v].step = "move" =>
           req[v].dest \in Paths /\ req[v].dest # req[u].path
    BY <1>24, <2>p, NamesApart DEF Pwrite, Shape, RequestsApart, RenameSteps, Names
  <2>1. NamesLocal'
    BY <1>1, <1>24, <2>k, <2>r, <2>p, <2>v
       DEF ContentParts, NamesLocal, Local, Idle, Pwrite
  <2>2. SendsAlone' /\ MarksSent' /\ RemoteTwin' /\ FetchesRemote' /\ ContentSafe'
    BY <1>24, <1>1, <2>k, <2>r, <2>p
       DEF ContentParts, SendsAlone, Renamed, RenameSteps, UnlinkSteps, Idle,
           MarksSent, At, RemoteTwin, Local, FetchesRemote, FetchSteps,
           ContentSafe, Visible, Pwrite, Sending
  <2>3. SendsRows' /\ SendsLocal' /\ TruncatesMarked'
    BY <1>1, <2>k
       DEF ContentParts, SendsRows, SendsLocal, At, Local, TruncatesMarked
  <2> QED
    BY <2>1, <2>2, <2>3 DEF ContentParts
<1>25. ASSUME NEW s \in Senders, CycleStart(s)
       PROVE  ContentParts'
  <2>k. UNCHANGED <<disk, object, row, batch, handler, req, wanted>>
    BY <1>25 DEF CycleStart, stored
  <2>c. /\ cycle'[s].step = IF batch = NoBatch THEN "select" ELSE "store"
        /\ cycle'[s].file = cycle[s].file
        /\ cycle'[s].todo = cycle[s].todo
        /\ \A r \in Senders : r # s => cycle'[r] = cycle[r]
    BY <1>25 DEF CycleStart, Cycles, CycleTo
  <2>w. \A o \in Senders :
           At(o, "mark") => At(o, "mark")' /\ cycle'[o].file = cycle[o].file
    BY <2>c, <1>25 DEF CycleStart, At
  <2>1. SendsAlone'
    BY <1>25, <1>1, <2>k, <2>c, <2>w
       DEF ContentParts, SendsAlone, Renamed, RenameSteps, UnlinkSteps,
           CycleStart
  <2>2. SendsRows'
    BY <1>25, <1>1, <2>k, <2>c, <2>w DEF ContentParts, SendsRows, CycleStart
  <2>3. SendsLocal'
    BY <1>25, <1>1, <2>k, <2>c, <2>w
       DEF ContentParts, SendsLocal, At, Local, CycleStart
  <2>4. MarksSent'
    BY <1>25, <1>1, <2>k, <2>c, <2>w DEF ContentParts, MarksSent, At, CycleStart
  <2>5. TruncatesMarked'
    BY <1>25, <1>1, <2>k, <2>c, <2>w
       DEF ContentParts, TruncatesMarked, At, Local, CycleStart
  <2>6. FetchesRemote'
    BY <1>25, <1>1, <2>k, <2>c, <2>w
       DEF ContentParts, FetchesRemote, FetchSteps, At, Local, CycleStart
  <2>7. RemoteTwin' /\ NamesLocal' /\ ContentSafe'
    BY <1>1, <2>k
       DEF ContentParts, RemoteTwin, Local, NamesLocal, ContentSafe, Visible
  <2> QED
    BY <2>1, <2>2, <2>3, <2>4, <2>5, <2>6, <2>7 DEF ContentParts
<1>26. ASSUME NEW s \in Senders, StoreBatch(s)
       PROVE  ContentParts'
  <2>k. UNCHANGED <<disk, object, batch, handler, req, wanted>>
    BY <1>26 DEF StoreBatch, stored
  <2>c. /\ cycle'[s].step = "reset"
        /\ cycle'[s].file = cycle[s].file
        /\ cycle'[s].todo = cycle[s].todo
        /\ \A r \in Senders : r # s => cycle'[r] = cycle[r]
    BY <1>26 DEF StoreBatch, Cycles, CycleTo
  <2>i. \A p \in Paths : /\ row[p] # Nil => row'[p] = row[p]
                         /\ Local(p)' <=> Local(p)
    BY <1>26, InsertKeeps DEF StoreBatch
  <2>p. \A o \in Senders : At(o, "upload") \/ At(o, "mark") \/ At(o, "truncate") =>
           cycle[o].file \in Paths
    BY DEF Shape, SendsOne, SendSteps, At, Cycles
  <2>u. \A u \in Users : req[u].step # "idle" => req[u].path \in Paths
    BY DEF Shape, RequestsApart
  <2>1. SendsAlone'
    BY <1>26, <1>1, <2>k, <2>c, <2>i, <2>p, <2>u
       DEF ContentParts, SendsAlone, Renamed, RenameSteps, UnlinkSteps,
           StoreBatch
  <2>2. SendsRows'
    BY <1>26, <1>1, <2>k, <2>c, <2>i, <2>p, <2>u
       DEF ContentParts, SendsRows, StoreBatch
  <2>3. SendsLocal'
    BY <1>26, <1>1, <2>k, <2>c, <2>i, <2>p, <2>u
       DEF ContentParts, SendsLocal, At, Local, StoreBatch
  <2>4. MarksSent'
    BY <1>26, <1>1, <2>k, <2>c, <2>i, <2>p, <2>u
       DEF ContentParts, MarksSent, At, StoreBatch
  <2>5. TruncatesMarked'
    BY <1>26, <1>1, <2>k, <2>c, <2>i, <2>p, <2>u
       DEF ContentParts, TruncatesMarked, At, Local, StoreBatch
  <2>6. RemoteTwin'
    BY <1>26, <1>1, <2>k, <2>c, <2>i, <2>p, <2>u
       DEF ContentParts, RemoteTwin, Local, StoreBatch
  <2>7. FetchesRemote'
    BY <1>26, <1>1, <2>k, <2>c, <2>i, <2>p, <2>u
       DEF ContentParts, FetchesRemote, FetchSteps, At, Local, StoreBatch
  <2>8. NamesLocal'
    BY <1>26, <1>1, <2>k, <2>c, <2>i, <2>p, <2>u
       DEF ContentParts, NamesLocal, Local, StoreBatch
  <2>9. ContentSafe'
    BY <1>26, <1>1, <2>k, <2>c, <2>i, <2>p, <2>u
       DEF ContentParts, ContentSafe, Visible, Local, StoreBatch
  <2> QED
    BY <2>1, <2>2, <2>3, <2>4, <2>5, <2>6, <2>7, <2>8, <2>9 DEF ContentParts
<1>27. ASSUME NEW s \in Senders, ResetBatch(s)
       PROVE  ContentParts'
  <2>k. UNCHANGED <<disk, object, row, handler, req, wanted>>
    BY <1>27 DEF ResetBatch, stored
  <2>c. /\ cycle'[s].step = "select"
        /\ cycle'[s].file = cycle[s].file
        /\ cycle'[s].todo = cycle[s].todo
        /\ \A r \in Senders : r # s => cycle'[r] = cycle[r]
    BY <1>27 DEF ResetBatch, Cycles, CycleTo
  <2>w. \A o \in Senders :
           At(o, "mark") => At(o, "mark")' /\ cycle'[o].file = cycle[o].file
    BY <2>c, <1>27 DEF ResetBatch, At
  <2>1. SendsAlone'
    BY <1>27, <1>1, <2>k, <2>c, <2>w
       DEF ContentParts, SendsAlone, Renamed, RenameSteps, UnlinkSteps,
           ResetBatch
  <2>2. SendsRows'
    BY <1>27, <1>1, <2>k, <2>c, <2>w DEF ContentParts, SendsRows, ResetBatch
  <2>3. SendsLocal'
    BY <1>27, <1>1, <2>k, <2>c, <2>w
       DEF ContentParts, SendsLocal, At, Local, ResetBatch
  <2>4. MarksSent'
    BY <1>27, <1>1, <2>k, <2>c, <2>w DEF ContentParts, MarksSent, At, ResetBatch
  <2>5. TruncatesMarked'
    BY <1>27, <1>1, <2>k, <2>c, <2>w
       DEF ContentParts, TruncatesMarked, At, Local, ResetBatch
  <2>6. FetchesRemote'
    BY <1>27, <1>1, <2>k, <2>c, <2>w
       DEF ContentParts, FetchesRemote, FetchSteps, At, Local, ResetBatch
  <2>7. RemoteTwin' /\ NamesLocal' /\ ContentSafe'
    BY <1>1, <2>k
       DEF ContentParts, RemoteTwin, Local, NamesLocal, ContentSafe, Visible
  <2> QED
    BY <2>1, <2>2, <2>3, <2>4, <2>5, <2>6, <2>7 DEF ContentParts
<1>28. ASSUME NEW s \in Senders, Select(s)
       PROVE  ContentParts'
  <2>k. UNCHANGED <<disk, object, row, batch, handler, req, wanted>>
    BY <1>28 DEF Select, stored
  <2>c. /\ cycle'[s].step = "next"
        /\ cycle'[s].file = cycle[s].file
        /\ cycle'[s].todo = {p \in Paths : row[p] # Nil /\ row[p].local /\ row[p].ours}
        /\ \A r \in Senders : r # s => cycle'[r] = cycle[r]
    BY <1>28 DEF Select, Cycles
  <2>1. SendsAlone'
    BY <1>28, <1>1, <2>k, <2>c
       DEF ContentParts, SendsAlone, Renamed, RenameSteps, UnlinkSteps,
           Select
  <2>2. SendsRows'
    BY <1>28, <1>1, <2>k, <2>c DEF ContentParts, SendsRows, Select
  <2>3. SendsLocal'
    BY <1>28, <1>1, <2>k, <2>c DEF ContentParts, SendsLocal, At, Local, Select
  <2>4. MarksSent'
    BY <1>28, <1>1, <2>k, <2>c DEF ContentParts, MarksSent, At, Select
  <2>5. TruncatesMarked'
    BY <1>28, <1>1, <2>k, <2>c DEF ContentParts, TruncatesMarked, At, Local, Select
  <2>6. FetchesRemote'
    BY <1>28, <1>1, <2>k, <2>c
       DEF ContentParts, FetchesRemote, FetchSteps, At, Local, Select
  <2>7. RemoteTwin' /\ NamesLocal' /\ ContentSafe'
    BY <1>1, <2>k
       DEF ContentParts, RemoteTwin, Local, NamesLocal, ContentSafe, Visible
  <2> QED
    BY <2>1, <2>2, <2>3, <2>4, <2>5, <2>6, <2>7 DEF ContentParts
<1>29. ASSUME NEW s \in Senders, NEW p \in Paths, Send(s, p)
       PROVE  ContentParts'
  <2>k. UNCHANGED <<disk, object, row, batch, handler, req, wanted>>
    BY <1>29 DEF Send, stored
  <2>c. /\ cycle'[s].step = "upload"
        /\ cycle'[s].file = p
        /\ cycle'[s].todo = cycle[s].todo \ {p}
        /\ \A r \in Senders : r # s => cycle'[r] = cycle[r]
    BY <1>29 DEF Send, Cycles
  <2>1. /\ SendsAlone' /\ SendsRows' /\ SendsLocal' /\ MarksSent'
        /\ TruncatesMarked' /\ FetchesRemote'
    BY <1>29, <1>1, <2>k, <2>c
       DEF ContentParts, SendsAlone, Renamed, RenameSteps, UnlinkSteps,
           SendsRows, SendsLocal, At, Local, MarksSent, TruncatesMarked,
           FetchesRemote, FetchSteps, Send, Sending
  <2>2. RemoteTwin' /\ NamesLocal' /\ ContentSafe'
    BY <1>1, <2>k
       DEF ContentParts, RemoteTwin, Local, NamesLocal, ContentSafe, Visible
  <2> QED
    BY <2>1, <2>2 DEF ContentParts
<1>30. ASSUME NEW s \in Senders, Upload(s)
       PROVE  ContentParts'
  <2>k. UNCHANGED <<disk, row, batch, handler, req, wanted>>
    BY <1>30 DEF Upload, stored
  <2>c. /\ cycle'[s].step = "mark"
        /\ cycle'[s].file = cycle[s].file
        /\ cycle'[s].todo = cycle[s].todo
        /\ \A r \in Senders : r # s => cycle'[r] = cycle[r]
    BY <1>30 DEF Upload, Cycles, CycleTo
  <2>f. cycle[s].file \in Paths /\ cycle[s].file # Nil
    BY <1>30 DEF Upload, Shape, SendsOne, SendSteps, At, Cycles
  <2>o. \A o \in Senders : o # s => cycle[o].file # cycle[s].file
    BY <1>1, <2>f DEF ContentParts, SendsAlone
  <2>v. \A v \in Users : req[v].step = "unlink" \/ req[v].step = "move" =>
           req[v].path # cycle[s].file /\ req[v].dest # cycle[s].file
    BY <1>1, <2>f, SenderFile DEF Names, RenameSteps, UnlinkSteps
  <2>u. \A v \in Users :
           /\ req[v].step # "idle" => req[v].path \in Paths
           /\ req[v].step = "move" => req[v].dest \in Paths
    BY DEF Shape, RequestsApart, RenameSteps
  <2>d. \A x \in Paths : x # cycle[s].file => object'[x] = object[x]
    BY <1>30, <2>f DEF Upload
  <2>e. object'[cycle[s].file] = disk[cycle[s].file] /\ Local(cycle[s].file)
    BY <1>1, <1>30, <2>f DEF Upload, ContentParts, SendsAlone, SendsLocal
  <2>s. \A o \in Senders : At(o, "upload") \/ At(o, "mark") \/ At(o, "truncate") =>
           cycle[o].file \in Paths
    BY DEF Shape, SendsOne, SendSteps, At, Cycles
  <2>1. SendsAlone'
    BY <1>30, <1>1, <2>k, <2>c
       DEF ContentParts, SendsAlone, Renamed, RenameSteps, UnlinkSteps,
           Upload
  <2>2. SendsRows'
    BY <1>30, <1>1, <2>k, <2>c DEF ContentParts, SendsRows, Upload
  <2>3. SendsLocal'
    BY <1>30, <1>1, <2>k, <2>c DEF ContentParts, SendsLocal, At, Local, Upload
  <2>4. MarksSent'
    BY <1>1, <2>k, <2>c, <2>f, <2>o, <2>d, <2>e, <2>s
       DEF ContentParts, MarksSent, At
  <2>5. TruncatesMarked'
    BY <1>1, <2>k, <2>c, <2>f, <2>o, <2>d, <2>s
       DEF ContentParts, TruncatesMarked, At, Local
  <2>6. RemoteTwin'
    BY <1>1, <2>k, <2>c, <2>d, <2>e DEF ContentParts, RemoteTwin, Local
  <2>7. FetchesRemote'
    <3> SUFFICES ASSUME NEW v \in Users, req[v].step \in FetchSteps,
                        object'[req[v].path] # Nil, Local(req[v].path)'
                 PROVE  \E o \in Senders : At(o, "mark")' /\ cycle'[o].file = req[v].path
      BY <2>k DEF FetchesRemote
    <3>1. CASE req[v].path = cycle[s].file
      BY <2>c, <3>1 DEF At
    <3>2. CASE req[v].path # cycle[s].file
      <4>1. object[req[v].path] # Nil /\ Local(req[v].path)
        BY <2>k, <2>d, <2>u, <3>2 DEF FetchSteps, Local
      <4>2. PICK o \in Senders : At(o, "mark") /\ cycle[o].file = req[v].path
        BY <1>1, <4>1 DEF ContentParts, FetchesRemote
      <4> QED
        BY <2>c, <3>2, <4>2 DEF At
    <3> QED
      BY <3>1, <3>2
  <2>8. NamesLocal'
    BY <1>1, <2>k, <2>c, <2>f, <2>d, <2>v, <2>u DEF ContentParts, NamesLocal, Local
  <2>9. ContentSafe'
    BY <1>1, <2>k, <2>c, <2>f, <2>d, <2>e
       DEF ContentParts, ContentSafe, Visible, Local
  <2> QED
    BY <2>1, <2>2, <2>3, <2>4, <2>5, <2>6, <2>7, <2>8, <2>9 DEF ContentParts
<1>31. ASSUME NEW s \in Senders, UploadExit(s)
       PROVE  ContentParts'
  BY <1>1, <1>31
     DEF UploadExit, CycleTo, stored, ContentParts, SendsAlone, Renamed,
         RenameSteps, UnlinkSteps, Idle, NoCycle, SendsRows, SendsLocal, At,
         Local, MarksSent, TruncatesMarked, RemoteTwin, FetchesRemote,
         FetchSteps, NamesLocal, ContentSafe, Visible
<1>32. ASSUME NEW s \in Senders, UploadError(s)
       PROVE  ContentParts'
  <2>k. UNCHANGED <<disk, object, row, batch, handler, req, wanted>>
    BY <1>32 DEF UploadError, stored
  <2>c. /\ cycle'[s].step = "next"
        /\ cycle'[s].file = Nil
        /\ cycle'[s].todo = cycle[s].todo
        /\ \A r \in Senders : r # s => cycle'[r] = cycle[r]
    BY <1>32 DEF UploadError, Cycles, NextFile, NoCycle
  <2>w. \A o \in Senders :
           At(o, "mark") => At(o, "mark")' /\ cycle'[o].file = cycle[o].file
    BY <2>c, <1>32 DEF UploadError, At
  <2>1. SendsAlone'
    <3>1. ASSUME NEW o \in Senders, cycle'[o].file # Nil
          PROVE  o # s /\ cycle'[o].file = cycle[o].file /\ cycle[o].file \in Paths
      BY <2>c, <3>1 DEF Cycles
    <3> QED
      BY <1>1, <2>k, <3>1 DEF ContentParts, SendsAlone, Renamed
  <2>2. SendsRows'
    BY <1>32, <1>1, <2>k, <2>c, <2>w DEF ContentParts, SendsRows, UploadError
  <2>3. SendsLocal'
    BY <1>32, <1>1, <2>k, <2>c, <2>w
       DEF ContentParts, SendsLocal, At, Local, UploadError
  <2>4. MarksSent'
    BY <1>32, <1>1, <2>k, <2>c, <2>w DEF ContentParts, MarksSent, At, UploadError
  <2>5. TruncatesMarked'
    BY <1>32, <1>1, <2>k, <2>c, <2>w
       DEF ContentParts, TruncatesMarked, At, Local, UploadError
  <2>6. FetchesRemote'
    BY <1>32, <1>1, <2>k, <2>c, <2>w
       DEF ContentParts, FetchesRemote, FetchSteps, At, Local, UploadError
  <2>7. RemoteTwin' /\ NamesLocal' /\ ContentSafe'
    BY <1>1, <2>k
       DEF ContentParts, RemoteTwin, Local, NamesLocal, ContentSafe, Visible
  <2> QED
    BY <2>1, <2>2, <2>3, <2>4, <2>5, <2>6, <2>7 DEF ContentParts
<1>33. ASSUME NEW s \in Senders, Mark(s)
       PROVE  ContentParts'
  <2>k. UNCHANGED <<disk, object, batch, handler, req, wanted>>
    BY <1>33 DEF Mark, stored
  <2>c. /\ cycle'[s].step = "truncate"
        /\ cycle'[s].file = cycle[s].file
        /\ cycle'[s].todo = cycle[s].todo
        /\ \A r \in Senders : r # s => cycle'[r] = cycle[r]
    BY <1>33 DEF Mark, Cycles, CycleTo
  <2>f. cycle[s].file \in Paths /\ cycle[s].file # Nil
    BY <1>33 DEF Mark, Shape, SendsOne, SendSteps, At, Cycles
  <2>o. \A o \in Senders : o # s => cycle[o].file # cycle[s].file
    BY <1>1, <2>f DEF ContentParts, SendsAlone
  <2>v. \A v \in Users : req[v].step = "unlink" \/ req[v].step = "move" =>
           req[v].path # cycle[s].file /\ req[v].dest # cycle[s].file
    BY <1>1, <2>f, SenderFile DEF Names, RenameSteps, UnlinkSteps
  <2>u. \A v \in Users :
           /\ req[v].step # "idle" => req[v].path \in Paths
           /\ req[v].step = "move" => req[v].dest \in Paths
    BY DEF Shape, RequestsApart, RenameSteps
  <2>x. row[cycle[s].file] # Nil
    BY <1>1, <2>f DEF ContentParts, SendsRows
  <2>m. \A x \in Paths : row'[x] # Nil <=> row[x] # Nil
    BY <1>33, <2>f, MarkRow
  <2>h. \A x \in Paths : x = cycle[s].file => ~Local(x)'
    BY <1>33, <2>f, <2>x, MarkRow
  <2>l. \A x \in Paths : x # cycle[s].file => (Local(x)' <=> Local(x))
    BY <1>33, <2>f, MarkRow
  <2>s. \A o \in Senders : At(o, "upload") \/ At(o, "mark") \/ At(o, "truncate") =>
           cycle[o].file \in Paths
    BY DEF Shape, SendsOne, SendSteps, At, Cycles
  <2>1. SendsAlone'
    BY <1>1, <2>k, <2>c DEF ContentParts, SendsAlone, Renamed, Cycles
  <2>2. SendsRows'
    BY <1>1, <2>k, <2>c, <2>m DEF ContentParts, SendsRows
  <2>3. SendsLocal'
    BY <1>1, <2>k, <2>c, <2>f, <2>o, <2>l, <2>s DEF ContentParts, SendsLocal, At
  <2>4. MarksSent'
    BY <1>1, <2>k, <2>c DEF ContentParts, MarksSent, At
  <2>5. TruncatesMarked'
    <3>1. object[cycle[s].file] # Nil
      BY <1>1, <1>33 DEF Mark, ContentParts, MarksSent, SendsAlone, Shape, SendsOne, SendSteps, At
    <3> QED
      BY <1>1, <2>k, <2>c, <2>f, <2>o, <2>l, <2>h, <2>s, <3>1
         DEF ContentParts, TruncatesMarked, At
  <2>6. RemoteTwin'
    <3>1. object[cycle[s].file] = disk[cycle[s].file]
      BY <1>1, <1>33 DEF Mark, ContentParts, MarksSent
    <3> QED
      BY <1>1, <2>k, <2>f, <2>l, <2>h, <3>1 DEF ContentParts, RemoteTwin
  <2>7. FetchesRemote'
    <3> SUFFICES ASSUME NEW v \in Users, req[v].step \in FetchSteps,
                        object[req[v].path] # Nil, Local(req[v].path)',
                        req[v].path # cycle[s].file
                 PROVE  \E o \in Senders : At(o, "mark")' /\ cycle'[o].file = req[v].path
      BY <2>k, <2>h, <2>f DEF FetchesRemote
    <3>1. req[v].path \in Paths
      BY <2>u DEF FetchSteps
    <3>2. PICK o \in Senders : At(o, "mark") /\ cycle[o].file = req[v].path
      BY <1>1, <2>k, <2>l, <3>1 DEF ContentParts, FetchesRemote
    <3> QED
      BY <2>c, <3>2 DEF At
  <2>8. NamesLocal'
    BY <1>1, <2>k, <2>c, <2>f, <2>l, <2>v, <2>u DEF ContentParts, NamesLocal
  <2>9. ContentSafe'
    <3>1. object[cycle[s].file] = disk[cycle[s].file] /\ Local(cycle[s].file)
      BY <1>1, <1>33 DEF Mark, ContentParts, MarksSent, SendsLocal
    <3> QED
      BY <1>1, <2>k, <2>f, <2>l, <2>h, <3>1 DEF ContentParts, ContentSafe, Visible
  <2> QED
    BY <2>1, <2>2, <2>3, <2>4, <2>5, <2>6, <2>7, <2>8, <2>9 DEF ContentParts
<1>34. ASSUME NEW s \in Senders, Truncate(s)
       PROVE  ContentParts'
  <2>k. UNCHANGED <<object, row, batch, handler, req, wanted>>
    BY <1>34 DEF Truncate, stored
  <2>c. /\ cycle'[s].step = "next"
        /\ cycle'[s].file = Nil
        /\ cycle'[s].todo = cycle[s].todo
        /\ \A r \in Senders : r # s => cycle'[r] = cycle[r]
    BY <1>34 DEF Truncate, Cycles, NextFile, NoCycle
  <2>f. cycle[s].file \in Paths /\ cycle[s].file # Nil
    BY <1>34 DEF Truncate, Shape, SendsOne, SendSteps, At, Cycles
  <2>o. \A o \in Senders : o # s => cycle[o].file # cycle[s].file
    BY <1>1, <2>f DEF ContentParts, SendsAlone
  <2>v. \A v \in Users : req[v].step = "unlink" \/ req[v].step = "move" =>
           req[v].path # cycle[s].file /\ req[v].dest # cycle[s].file
    BY <1>1, <2>f, SenderFile DEF Names, RenameSteps, UnlinkSteps
  <2>u. \A v \in Users :
           /\ req[v].step # "idle" => req[v].path \in Paths
           /\ req[v].step = "move" => req[v].dest \in Paths
    BY DEF Shape, RequestsApart, RenameSteps
  <2>d. \A x \in Paths :
           /\ x # cycle[s].file => disk'[x] = disk[x]
           /\ disk'[x] = Nil <=> disk[x] = Nil
    BY <1>34, <2>f DEF Truncate
  <2>e. /\ disk'[cycle[s].file] = Empty /\ disk[cycle[s].file] # Nil
        /\ ~Local(cycle[s].file) /\ object[cycle[s].file] # Nil
    BY <1>1, <1>34, <2>f DEF Truncate, ContentParts, SendsAlone, TruncatesMarked
  <2>s. \A o \in Senders : At(o, "upload") \/ At(o, "mark") \/ At(o, "truncate") =>
           cycle[o].file \in Paths
    BY DEF Shape, SendsOne, SendSteps, At, Cycles
  <2>1. SendsAlone'
    <3>1. ASSUME NEW o \in Senders, cycle'[o].file # Nil
          PROVE  o # s /\ cycle'[o].file = cycle[o].file /\ cycle[o].file \in Paths
      BY <2>c, <3>1 DEF Cycles
    <3> QED
      BY <1>1, <2>k, <2>d, <3>1 DEF ContentParts, SendsAlone, Renamed
  <2>2. SendsRows'
    BY <1>34, <1>1, <2>k, <2>c DEF ContentParts, SendsRows, Truncate
  <2>3. SendsLocal'
    BY <1>34, <1>1, <2>k, <2>c DEF ContentParts, SendsLocal, At, Local, Truncate
  <2>4. MarksSent'
    BY <1>1, <2>k, <2>c, <2>f, <2>o, <2>d, <2>s DEF ContentParts, MarksSent, At
  <2>5. TruncatesMarked'
    BY <1>34, <1>1, <2>k, <2>c
       DEF ContentParts, TruncatesMarked, At, Local, Truncate
  <2>6. RemoteTwin'
    BY <1>1, <2>k, <2>c, <2>d, <2>e DEF ContentParts, RemoteTwin, Local
  <2>7. FetchesRemote'
    BY <1>34, <1>1, <2>k, <2>c
       DEF ContentParts, FetchesRemote, FetchSteps, At, Local, Truncate
  <2>8. NamesLocal'
    BY <1>1, <2>k, <2>c, <2>d, <2>u DEF ContentParts, NamesLocal, Local
  <2>9. ContentSafe'
    BY <1>1, <2>k, <2>c, <2>d, <2>e DEF ContentParts, ContentSafe, Visible, Local
  <2> QED
    BY <2>1, <2>2, <2>3, <2>4, <2>5, <2>6, <2>7, <2>8, <2>9 DEF ContentParts
<1>35. ASSUME NEW s \in Senders, CycleEnd(s)
       PROVE  ContentParts'
  <2>k. UNCHANGED <<disk, object, row, batch, handler, req, wanted>>
    BY <1>35 DEF CycleEnd, stored
  <2>c. /\ cycle'[s] = NoCycle
        /\ \A r \in Senders : r # s => cycle'[r] = cycle[r]
    BY <1>35 DEF CycleEnd, Cycles
  <2>1. /\ SendsAlone' /\ SendsRows' /\ SendsLocal' /\ MarksSent'
        /\ TruncatesMarked' /\ FetchesRemote'
    BY <1>35, <1>1, <2>k, <2>c
       DEF ContentParts, SendsAlone, Renamed, RenameSteps, UnlinkSteps,
           NoCycle, SendsRows, SendsLocal, At, Local, MarksSent,
           TruncatesMarked, FetchesRemote, FetchSteps, CycleEnd
  <2>2. RemoteTwin' /\ NamesLocal' /\ ContentSafe'
    BY <1>1, <2>k
       DEF ContentParts, RemoteTwin, Local, NamesLocal, ContentSafe, Visible
  <2> QED
    BY <2>1, <2>2 DEF ContentParts
<1> QED
  BY <1>2, <1>3, <1>4, <1>5, <1>6, <1>7, <1>8, <1>9, <1>10, <1>11, <1>12,
     <1>13, <1>14, <1>15, <1>16, <1>17, <1>18, <1>19, <1>20, <1>21, <1>22,
     <1>23, <1>24, <1>25, <1>26, <1>27, <1>28, <1>29, <1>30, <1>31, <1>32,
     <1>33, <1>34, <1>35
     DEF Next, DaemonNext, NamesNext, BytesNext, CycleNext

-----------------------------------------------------------------------------
(* The rows and the batch.                                                 *)

\* At the start there is no file and no batch.
LEMMA InitTrack == Init => TrackInv
BY DEF Init, TrackInv, TrackParts, BatchStored, RowsOurs, RequestsFind, FetchSteps,
       AllTracked, Storing, At, Idle, NoCycle

\* Every step keeps the files tracked, as long as the mishaps are of the kind "content".
LEMMA TrackStep ==
    TypeOK /\ TypeOK' /\ Shape /\ TrackInv /\ [Next]_vars => TrackInv'
<1> SUFFICES ASSUME TypeOK, TypeOK', Shape, TrackInv, [Next]_vars,
                    mishaps' \subseteq {"content"}
             PROVE  TrackParts'
  BY DEF TrackInv
<1> USE DEF TypeOK, Happens, If
<1>1. TrackParts
  BY MishapsGrow DEF TrackInv
<1>2. CASE UNCHANGED vars
  BY <1>1, <1>2 DEF vars, TrackParts, BatchStored, RowsOurs, RequestsFind, AllTracked,
     Storing, At, Tracked
<1>3. ASSUME Boot
      PROVE  TrackParts'
  BY <1>1, <1>3
     DEF Boot, stored, TrackParts, BatchStored, Storing, At, Idle, NoCycle,
         RowsOurs, RequestsFind, FetchSteps, AllTracked, Tracked
<1>4. ASSUME Crash
      PROVE  TrackParts'
  <2>k. UNCHANGED <<disk, object, row, wanted>>
    BY <1>4 DEF Crash, stored, Down
  <2>r. \A u \in Users : req'[u] = Idle
    BY <1>4 DEF Crash, Down
  <2>c. \A s \in Senders : cycle'[s] = NoCycle
    BY <1>4 DEF Crash, Cycles, Down
  <2>d. row' = row /\ ~Storing' /\ handler' = "waiting" /\ \A x \in Paths : batch'[x] = 0
    BY <2>c, <1>4 DEF Crash, Down, stored, Storing, At, NoCycle, NoBatch
  <2>e. ~Creating /\ \A x \in Paths : batch[x] > 0 => row[x] # Nil
    BY <1>4 DEF Crash, Unstored
  <2>1. BatchStored'
    BY <2>d DEF BatchStored
  <2>2. RequestsFind'
    BY <1>4, <1>1, <2>k, <2>r, <2>c
       DEF TrackParts, RequestsFind, FetchSteps, Idle, Crash
  <2>3. AllTracked'
    BY <1>1, <2>k, <2>d, <2>e
       DEF TrackParts, AllTracked, RowsOurs, Tracked, Creating
  <2>4. RowsOurs'
    BY <1>1, <2>k DEF TrackParts, RowsOurs
  <2> QED
    BY <2>1, <2>2, <2>3, <2>4 DEF TrackParts
<1>5. ASSUME SaveBatch
      PROVE  TrackParts'
  <2>k. UNCHANGED <<disk, object, batch, cycle, req, wanted>>
    BY <1>5 DEF SaveBatch, stored
  <2>i. \A x \in Paths :
           /\ row[x] # Nil \/ batch[x] > 0 => row'[x] # Nil
           /\ row'[x] # Nil => row'[x] = row[x] \/ row'[x].ours
           /\ row[x] # Nil => row'[x] = row[x]
    BY <1>5, InsertKeeps DEF SaveBatch
  <2>u. \A v \in Users : req[v].step # "idle" => req[v].path \in Paths
    BY DEF Shape, RequestsApart
  <2>1. BatchStored'
    BY <2>i, <2>k DEF BatchStored
  <2>2. RowsOurs'
    BY <1>1, <2>i DEF TrackParts, RowsOurs
  <2>3. RequestsFind'
    BY <1>1, <2>i, <2>k, <2>u DEF TrackParts, RequestsFind, FetchSteps
  <2>4. AllTracked'
    BY <1>1, <2>i, <2>k DEF TrackParts, AllTracked, Tracked
  <2> QED
    BY <2>1, <2>2, <2>3, <2>4 DEF TrackParts
<1>6. ASSUME Stop
      PROVE  TrackParts'
  <2>k. UNCHANGED <<disk, object, row, wanted>>
    BY <1>6 DEF Stop, stored, Down
  <2>r. \A u \in Users : req'[u] = Idle
    BY <1>6 DEF Stop, Down
  <2>c. \A s \in Senders : cycle'[s] = NoCycle
    BY <1>6 DEF Stop, Cycles, Down
  <2>d. row' = row /\ ~Storing' /\ handler' = "waiting" /\ \A x \in Paths : batch'[x] = 0
    BY <2>c, <1>6 DEF Stop, Down, stored, Storing, At, NoCycle, NoBatch
  <2>e. ~Creating /\ \A x \in Paths : batch[x] > 0 => row[x] # Nil
    BY <1>1, <1>6 DEF Stop, TrackParts, BatchStored
  <2>1. BatchStored'
    BY <2>d DEF BatchStored
  <2>2. RequestsFind'
    BY <1>6, <1>1, <2>k, <2>r, <2>c
       DEF TrackParts, RequestsFind, FetchSteps, Idle, Stop
  <2>3. AllTracked'
    BY <1>1, <2>k, <2>d, <2>e
       DEF TrackParts, AllTracked, RowsOurs, Tracked, Creating
  <2>4. RowsOurs'
    BY <1>1, <2>k DEF TrackParts, RowsOurs
  <2> QED
    BY <2>1, <2>2, <2>3, <2>4 DEF TrackParts
<1>7. ASSUME NEW lost \in BOOLEAN, NEW silent \in SUBSET Paths,
             Rebuild(lost, silent)
      PROVE  TrackParts'
  <2> DEFINE old == IF lost THEN [p \in Paths |-> Nil] ELSE row
             Finds(p) == Answers(p, old) /\ p \notin silent
  <2>k. UNCHANGED <<disk, batch, handler, cycle, req>>
    BY <1>7 DEF Rebuild
  <2>g. /\ handler = "waiting" /\ \A s \in Senders : cycle[s] = NoCycle
        /\ \A u \in Users : req[u] = Idle
    BY <1>7 DEF Rebuild, Shape, MemoryGone
  <2>e. \A p \in Paths : disk[p] # Nil => old[p] # Nil
    BY <1>7 DEF Rebuild
  <2>o. \A p \in Paths : old[p] # Nil => old[p] = row[p] /\ row[p] \in Rows
    OBVIOUS
  <2>r. \A p \in Paths :
           row'[p] = IF disk[p] = Nil THEN old[p]
                     ELSE IF Finds(p)
                     THEN [FoundRow(p, old) EXCEPT !.local = FALSE, !.sized = TRUE]
                     ELSE FoundRow(p, old)
    BY <1>7 DEF Rebuild
  <2>f. \A p \in Paths : old[p] # Nil => FoundRow(p, old) = row[p]
    BY <2>o DEF FoundRow
  <2> HIDE DEF old, Finds
  <2>1. ASSUME NEW p \in Paths, old[p] # Nil
        PROVE  row'[p] # Nil /\ row'[p].ours = row[p].ours
    <3>1. row'[p] = row[p] \/ row'[p] = [row[p] EXCEPT !.local = FALSE, !.sized = TRUE]
      BY <2>o, <2>r, <2>f, <2>1
    <3> QED
      BY <2>o, <2>1, <3>1, RowFields
  <2>2. RowsOurs'
    BY <1>1, <2>1, <2>r, <2>e, <2>o DEF TrackParts, RowsOurs
  <2>3. AllTracked'
    BY <2>1, <2>2, <2>e, <2>k DEF AllTracked, Tracked, RowsOurs
  <2>4. BatchStored' /\ RequestsFind'
    BY <2>g, <2>k DEF BatchStored, RequestsFind, FetchSteps, Storing, At, Idle, NoCycle
  <2> QED
    BY <2>2, <2>3, <2>4 DEF TrackParts
<1>8. ASSUME NEW u \in Users, NEW p \in Paths, Create(u, p)
      PROVE  TrackParts'
  <2>k. UNCHANGED <<object, row, batch, handler, cycle>>
    BY <1>8 DEF Create, stored
  <2>r. /\ req'[u] = [step |-> "read", path |-> p, dest |-> Nil]
        /\ \A v \in Users : v # u => req'[v] = req[v]
    BY <1>8 DEF Create, Goes
  <2>j. req[u].step \notin {"read", "append"}
    BY <1>8 DEF Create, Starts, Idle, FetchSteps
  <2>t. \A x \in Paths : Tracked(x) => Tracked(x)'
    BY <2>k, <2>r, <2>j DEF Tracked
  <2>1. RequestsFind'
    BY <1>8, <1>1, <2>k, <2>r DEF TrackParts, RequestsFind, FetchSteps, Create
  <2>2. AllTracked'
    BY <1>1, <1>8, <2>r, <2>t DEF TrackParts, AllTracked, Tracked, Create
  <2>3. BatchStored' /\ RowsOurs'
    BY <1>1, <2>k DEF TrackParts, BatchStored, Storing, At, RowsOurs
  <2> QED
    BY <2>1, <2>2, <2>3 DEF TrackParts
<1>9. ASSUME NEW u \in Users, NEW p \in Paths, Unlink(u, p)
      PROVE  TrackParts'
  <2>k. UNCHANGED <<disk, object, row, batch, handler, cycle, wanted>>
    BY <1>9 DEF Unlink, stored
  <2>r. /\ req'[u] = [step |-> IF Local(p) THEN "unlink" ELSE "content", path |-> p, dest |-> Nil]
        /\ \A v \in Users : v # u => req'[v] = req[v]
    BY <1>9 DEF Unlink, Goes
  <2>j. req[u].step \notin {"read", "append"}
    BY <1>9 DEF Unlink, Starts, Idle, FetchSteps
  <2>t. \A x \in Paths : Tracked(x) => Tracked(x)'
    BY <2>k, <2>r, <2>j DEF Tracked
  <2>1. RequestsFind'
    BY <1>9, <1>1, <2>k, <2>r
       DEF TrackParts, RequestsFind, FetchSteps, Unlink, Sending
  <2>2. AllTracked'
    BY <1>1, <1>9, <2>k, <2>t DEF TrackParts, AllTracked, Unlink
  <2>3. BatchStored' /\ RowsOurs'
    BY <1>1, <2>k DEF TrackParts, BatchStored, Storing, At, RowsOurs
  <2> QED
    BY <2>1, <2>2, <2>3 DEF TrackParts
<1>10. ASSUME NEW u \in Users, NEW p \in Paths, NEW q \in Paths, NEW f \in BOOLEAN,
              Rename(u, p, q, f)
       PROVE  TrackParts'
  <2>k. UNCHANGED <<disk, object, row, batch, handler, cycle, wanted>>
    BY <1>10 DEF Rename, stored
  <2>r. /\ req'[u] = [step |-> IF f \/ Local(p) THEN "move" ELSE "row", path |-> p, dest |-> q]
        /\ \A v \in Users : v # u => req'[v] = req[v]
    BY <1>10 DEF Rename, Goes
  <2>j. req[u].step \notin {"read", "append"}
    BY <1>10 DEF Rename, Starts, Idle, FetchSteps
  <2>t. \A x \in Paths : Tracked(x) => Tracked(x)'
    BY <2>k, <2>r, <2>j DEF Tracked
  <2>1. RequestsFind'
    BY <1>10, <1>1, <2>k, <2>r
       DEF TrackParts, RequestsFind, FetchSteps, Rename, Sending
  <2>2. AllTracked'
    BY <1>1, <1>10, <2>k, <2>t DEF TrackParts, AllTracked, Rename
  <2>3. BatchStored' /\ RowsOurs'
    BY <1>1, <2>k DEF TrackParts, BatchStored, Storing, At, RowsOurs
  <2> QED
    BY <2>1, <2>2, <2>3 DEF TrackParts
<1>11. ASSUME NEW u \in Users, ReadBatch(u)
       PROVE  TrackParts'
  <2>k. UNCHANGED <<disk, object, row, batch, handler, cycle, wanted>>
    BY <1>11 DEF ReadBatch, stored
  <2>r. /\ req'[u] = [step |-> "append", path |-> req[u].path, dest |-> Nil]
        /\ \A v \in Users : v # u => req'[v] = req[v]
    BY <1>11 DEF ReadBatch, Goes
  <2>t. \A x \in Paths : Tracked(x) => Tracked(x)'
    BY <1>11, <2>k, <2>r DEF ReadBatch, Tracked
  <2>1. RequestsFind'
    BY <1>11, <1>1, <2>k, <2>r DEF TrackParts, RequestsFind, FetchSteps, ReadBatch
  <2>2. AllTracked'
    BY <1>1, <2>k, <2>t DEF TrackParts, AllTracked
  <2>3. BatchStored' /\ RowsOurs'
    BY <1>1, <2>k DEF TrackParts, BatchStored, Storing, At, RowsOurs
  <2> QED
    BY <2>1, <2>2, <2>3 DEF TrackParts
<1>12. ASSUME NEW u \in Users, AppendEntry(u)
       PROVE  TrackParts'
  <2>k. UNCHANGED <<disk, object, row, handler, cycle, wanted>>
    BY <1>12 DEF AppendEntry, stored
  <2>r. /\ req'[u] = Idle
        /\ \A v \in Users : v # u => req'[v] = req[v]
    BY <1>12 DEF AppendEntry
  <2>1. BatchStored' /\ RequestsFind' /\ AllTracked'
    BY <1>12, <1>1, <2>k, <2>r
       DEF TrackParts, BatchStored, Storing, At, RequestsFind, FetchSteps,
           Idle, AllTracked, Tracked, AppendEntry
  <2>2. RowsOurs'
    BY <1>1, <2>k DEF TrackParts, RowsOurs
  <2> QED
    BY <2>1, <2>2 DEF TrackParts
<1>13. ASSUME NEW u \in Users, RenameRow(u)
       PROVE  TrackParts'
  BY <1>1, <1>13
     DEF RenameRow, Goes, stored, TrackParts, BatchStored, Storing, At, Idle,
         NoCycle, RowsOurs, RequestsFind, FetchSteps, AllTracked, Tracked
<1>14. ASSUME NEW u \in Users, RenameFile(u)
       PROVE  TrackParts'
  <2>k. UNCHANGED <<object, row, batch, handler, cycle>>
    BY <1>14 DEF RenameFile, stored
  <2>r. /\ req'[u] = Idle
        /\ \A v \in Users : v # u => req'[v] = req[v]
    BY <1>14 DEF RenameFile
  <2>j. req[u].step \notin {"read", "append"}
    BY <1>14 DEF RenameFile, Starts, Idle, FetchSteps
  <2>t. \A x \in Paths : Tracked(x) => Tracked(x)'
    BY <2>k, <2>r, <2>j DEF Tracked
  <2>m. req[u].step = "move"
    BY <1>1, <1>14 DEF RenameFile, TrackParts, RequestsFind
  <2>p. req[u].path \in Paths /\ req[u].dest \in Paths /\ req[u].dest # req[u].path
    BY <2>m DEF Shape, RequestsApart, RenameSteps
  <2>a. \A v \in Users : v # u /\ req[v].step \in {"move", "load", "pwrite"} =>
           req[v].path \in Paths /\ req[v].path \notin Names(u)
    <3>1. \A v \in Users : req[v].step \in {"move", "load", "pwrite"} => req[v].path \in Paths
      BY DEF Shape, RequestsApart
    <3>2. \A v \in Users : req[v].path \in Names(v)
      BY DEF Names
    <3>3. ASSUME NEW v \in Users, v # u, req[v].step \in {"move", "load", "pwrite"},
                 req[v].path \in Names(u)
          PROVE  FALSE
      BY <2>m, <3>1, <3>2, <3>3, NamesApart
    <3> QED
      BY <3>1, <3>3
  <2>1. RequestsFind'
    BY <1>1, <1>14, <2>k, <2>r, <2>p, <2>a
       DEF TrackParts, RequestsFind, FetchSteps, Idle, Names, RenameFile
  <2>2. AllTracked'
    <3>1. row[req[u].dest] # Nil
      BY <2>m, <1>14 DEF RenameFile, Local
    <3> QED
      BY <1>1, <1>14, <2>k, <2>p, <2>t, <3>1
         DEF TrackParts, AllTracked, RowsOurs, Tracked, RenameFile
  <2>3. BatchStored' /\ RowsOurs'
    BY <1>1, <2>k DEF TrackParts, BatchStored, Storing, At, RowsOurs
  <2> QED
    BY <2>1, <2>2, <2>3 DEF TrackParts
<1>15. ASSUME NEW u \in Users, Exchange(u)
       PROVE  TrackParts'
  <2>k. UNCHANGED <<object, row, batch, handler, cycle>>
    BY <1>15 DEF Exchange, stored
  <2>r. /\ req'[u] = Idle
        /\ \A v \in Users : v # u => req'[v] = req[v]
    BY <1>15 DEF Exchange
  <2>j. req[u].step \notin {"read", "append"}
    BY <1>15 DEF Exchange, Starts, Idle, FetchSteps
  <2>t. \A x \in Paths : Tracked(x) => Tracked(x)'
    BY <2>k, <2>r, <2>j DEF Tracked
  <2>m. req[u].step = "move"
    BY <1>1, <1>15 DEF Exchange, TrackParts, RequestsFind
  <2>p. req[u].path \in Paths /\ req[u].dest \in Paths /\ req[u].dest # req[u].path
    BY <2>m DEF Shape, RequestsApart, RenameSteps
  <2>a. \A v \in Users : v # u /\ req[v].step \in {"move", "load", "pwrite"} =>
           req[v].path \in Paths /\ req[v].path \notin Names(u)
    <3>1. \A v \in Users : req[v].step \in {"move", "load", "pwrite"} => req[v].path \in Paths
      BY DEF Shape, RequestsApart
    <3>2. \A v \in Users : req[v].path \in Names(v)
      BY DEF Names
    <3>3. ASSUME NEW v \in Users, v # u, req[v].step \in {"move", "load", "pwrite"},
                 req[v].path \in Names(u)
          PROVE  FALSE
      BY <2>m, <3>1, <3>2, <3>3, NamesApart
    <3> QED
      BY <3>1, <3>3
  <2>1. RequestsFind'
    BY <1>1, <1>15, <2>k, <2>r, <2>p, <2>a
       DEF TrackParts, RequestsFind, FetchSteps, Idle, Names, Exchange
  <2>2. AllTracked'
    <3>1. disk[req[u].path] # Nil
      BY <1>1, <2>m DEF TrackParts, RequestsFind
    <3> QED
      BY <1>1, <1>15, <2>p, <2>t, <3>1 DEF TrackParts, AllTracked, Exchange
  <2>3. BatchStored' /\ RowsOurs'
    BY <1>1, <2>k DEF TrackParts, BatchStored, Storing, At, RowsOurs
  <2> QED
    BY <2>1, <2>2, <2>3 DEF TrackParts
<1>16. ASSUME NEW u \in Users, RenameFails(u)
       PROVE  TrackParts'
  BY <1>1, <1>16
     DEF RenameFails, stored, TrackParts, BatchStored, Storing, At, Idle,
         NoCycle, RowsOurs, RequestsFind, FetchSteps, AllTracked, Tracked
<1>17. ASSUME NEW u \in Users, UnlinkObject(u)
       PROVE  TrackParts'
  BY <1>1, <1>17
     DEF UnlinkObject, Goes, stored, TrackParts, BatchStored, Storing, At,
         Idle, NoCycle, RowsOurs, RequestsFind, FetchSteps, AllTracked, Tracked
<1>18. ASSUME NEW u \in Users, UnlinkObjectFails(u)
       PROVE  TrackParts'
  BY <1>1, <1>18
     DEF UnlinkObjectFails, Goes, stored, TrackParts, BatchStored, Storing, At,
         Idle, NoCycle, RowsOurs, RequestsFind, FetchSteps, AllTracked, Tracked
<1>19. ASSUME NEW u \in Users, UnlinkFile(u)
       PROVE  TrackParts'
  <2>k. UNCHANGED <<object, row, batch, handler, cycle>>
    BY <1>19 DEF UnlinkFile, stored
  <2>r. /\ req'[u] = Idle
        /\ \A v \in Users : v # u => req'[v] = req[v]
    BY <1>19 DEF UnlinkFile
  <2>p. req[u].path \in Paths
    BY <1>19 DEF UnlinkFile, Shape, RequestsApart
  <2>a. \A v \in Users : v # u /\ req[v].step \in {"move", "load", "pwrite"} =>
           req[v].path \in Paths /\ req[v].path # req[u].path
    BY <1>19, NamesApart DEF UnlinkFile, Shape, RequestsApart, Names
  <2>1. RequestsFind'
    BY <1>1, <1>19, <2>k, <2>r, <2>p, <2>a
       DEF TrackParts, RequestsFind, FetchSteps, Idle, UnlinkFile
  <2>2. AllTracked'
    BY <1>19, <1>1, <2>k, <2>r DEF TrackParts, AllTracked, Tracked, Idle, UnlinkFile
  <2>3. BatchStored' /\ RowsOurs'
    BY <1>1, <2>k DEF TrackParts, BatchStored, Storing, At, RowsOurs
  <2> QED
    BY <2>1, <2>2, <2>3 DEF TrackParts
<1>20. ASSUME NEW u \in Users, NEW p \in Paths, NEW op \in {"read", "write"},
              Download(u, op, p)
       PROVE  TrackParts'
  <2>k. UNCHANGED <<disk, object, row, batch, handler, cycle, wanted>>
    BY <1>20 DEF Download, stored
  <2>r. /\ req'[u].path = p
        /\ req'[u].dest = Nil
        /\ req'[u].step \in {"fetch", "load"} => ~Local(p)
        /\ req'[u].step \in {"fetch", "load", "pwrite"}
        /\ \A v \in Users : v # u => req'[v] = req[v]
    BY <1>20 DEF Download, Goes, Starts, Idle, Requests
  <2>j. req[u].step \notin {"read", "append"}
    BY <1>20 DEF Download, Starts, Idle, FetchSteps
  <2>t. \A x \in Paths : Tracked(x) => Tracked(x)'
    BY <2>k, <2>r, <2>j DEF Tracked
  <2>1. RequestsFind'
    <3>1. /\ row[p] = Nil => Local(p)
          /\ disk[p] # Nil
      BY <1>20 DEF Download, Local
    <3> QED
      BY <1>1, <2>k, <2>r, <3>1 DEF TrackParts, RequestsFind, FetchSteps
  <2>2. AllTracked'
    BY <1>1, <1>20, <2>k, <2>t DEF TrackParts, AllTracked, Download
  <2>3. BatchStored' /\ RowsOurs'
    BY <1>1, <2>k DEF TrackParts, BatchStored, Storing, At, RowsOurs
  <2> QED
    BY <2>1, <2>2, <2>3 DEF TrackParts
<1>21. ASSUME NEW u \in Users, Fetch(u)
       PROVE  TrackParts'
  <2>k. UNCHANGED <<batch, handler, cycle, wanted>>
    BY <1>21 DEF Fetch, stored
  <2>r. /\ \/ req'[u] = Idle
           \/ /\ req[u].step = "load"
              /\ req'[u] = [step |-> "pwrite", path |-> req[u].path, dest |-> req[u].dest]
        /\ \A v \in Users : v # u => req'[v] = req[v]
    BY <1>21 DEF Fetch, Fetched, Requests
  <2>p. req[u].path \in Paths /\ row[req[u].path] # Nil
    BY <1>1, <1>21 DEF Fetch, TrackParts, RequestsFind, Shape, RequestsApart, FetchSteps
  <2>l. \A x \in Paths : /\ row'[x] # Nil <=> row[x] # Nil
                         /\ row[x] # Nil => row'[x].ours = row[x].ours
    BY <1>21, <2>p, FetchRow DEF Fetch
  <2>u. \A v \in Users : req[v].step # "idle" => req[v].path \in Paths
    BY DEF Shape, RequestsApart
  <2>d. \A x \in Paths : disk[x] # Nil => disk'[x] # Nil
    BY <1>21 DEF Fetch
  <2>t. \A x \in Paths : Tracked(x) => Tracked(x)'
    BY <1>21, <2>k, <2>r, <2>l DEF Fetch, FetchSteps, Tracked
  <2>1. BatchStored'
    BY <1>1, <2>k, <2>l DEF TrackParts, BatchStored, Storing, At
  <2>2. RowsOurs'
    BY <1>1, <2>l DEF TrackParts, RowsOurs
  <2>3. RequestsFind'
    <3>1. \A v \in Users :
             /\ req'[v].step \in {"move", "load", "pwrite"} =>
                   /\ req[v].step \in {"move", "load", "pwrite"}
                   /\ req'[v].path = req[v].path /\ req[v].path \in Paths
             /\ req'[v].step \in FetchSteps => req'[v] = req[v] /\ req[v].path \in Paths
             /\ req'[v].step = "moved" => req[v].step = "moved"
      BY <2>r, <2>u DEF FetchSteps, Idle
    <3> QED
      BY <1>1, <2>k, <2>l, <3>1, <2>d DEF TrackParts, RequestsFind
  <2>4. AllTracked'
    <3>1. \A x \in Paths : disk'[x] # Nil => disk[x] # Nil \/ x = req[u].path
      BY <1>21 DEF Fetch
    <3>2. Tracked(req[u].path)
      BY <1>1, <2>p DEF TrackParts, RowsOurs, Tracked
    <3> QED
      BY <1>1, <2>t, <3>1, <3>2 DEF TrackParts, AllTracked
  <2> QED
    BY <2>1, <2>2, <2>3, <2>4 DEF TrackParts
<1>22. ASSUME NEW u \in Users, FetchExit(u)
       PROVE  TrackParts'
  <2>k. UNCHANGED <<disk, object, batch, handler, cycle, wanted>>
    BY <1>22 DEF FetchExit, stored
  <2>r. /\ \/ req'[u] = Idle
           \/ /\ req[u].step = "load"
              /\ req'[u] = [step |-> "pwrite", path |-> req[u].path, dest |-> req[u].dest]
        /\ \A v \in Users : v # u => req'[v] = req[v]
    BY <1>22 DEF FetchExit, Fetched, Requests
  <2>p. req[u].path \in Paths /\ row[req[u].path] # Nil
    BY <1>1, <1>22 DEF FetchExit, TrackParts, RequestsFind, Shape, RequestsApart, FetchSteps
  <2>l. \A x \in Paths : /\ row'[x] # Nil <=> row[x] # Nil
                         /\ row[x] # Nil => row'[x].ours = row[x].ours
    BY <1>22, <2>p, FetchRow DEF FetchExit
  <2>u. \A v \in Users : req[v].step # "idle" => req[v].path \in Paths
    BY DEF Shape, RequestsApart
  <2>t. \A x \in Paths : Tracked(x) => Tracked(x)'
    BY <1>22, <2>k, <2>r, <2>l DEF FetchExit, FetchSteps, Tracked
  <2>1. BatchStored'
    BY <1>1, <2>k, <2>l DEF TrackParts, BatchStored, Storing, At
  <2>2. RowsOurs'
    BY <1>1, <2>l DEF TrackParts, RowsOurs
  <2>3. RequestsFind'
    <3>1. \A v \in Users :
             /\ req'[v].step \in {"move", "load", "pwrite"} =>
                   /\ req[v].step \in {"move", "load", "pwrite"}
                   /\ req'[v].path = req[v].path /\ req[v].path \in Paths
             /\ req'[v].step \in FetchSteps => req'[v] = req[v] /\ req[v].path \in Paths
             /\ req'[v].step = "moved" => req[v].step = "moved"
      BY <2>r, <2>u DEF FetchSteps, Idle
    <3> QED
      BY <1>1, <2>k, <2>l, <3>1 DEF TrackParts, RequestsFind
  <2>4. AllTracked'
    BY <1>1, <2>k, <2>t DEF TrackParts, AllTracked
  <2> QED
    BY <2>1, <2>2, <2>3, <2>4 DEF TrackParts
<1>23. ASSUME NEW u \in Users, FetchError(u)
       PROVE  TrackParts'
  BY <1>1, <1>23
     DEF FetchError, stored, TrackParts, BatchStored, Storing, At, Idle,
         NoCycle, RowsOurs, RequestsFind, FetchSteps, AllTracked, Tracked
<1>24. ASSUME NEW u \in Users, NEW c \in Contents, Pwrite(u, c)
       PROVE  TrackParts'
  <2>k. UNCHANGED <<object, row, batch, handler, cycle>>
    BY <1>24 DEF Pwrite, stored
  <2>r. /\ req'[u] = Idle
        /\ \A v \in Users : v # u => req'[v] = req[v]
    BY <1>24 DEF Pwrite
  <2>j. req[u].step \notin {"read", "append"}
    BY <1>24 DEF Pwrite, Starts, Idle, FetchSteps
  <2>t. \A x \in Paths : Tracked(x) => Tracked(x)'
    BY <2>k, <2>r, <2>j DEF Tracked
  <2>1. RequestsFind'
    BY <1>24, <1>1, <2>k, <2>r
       DEF TrackParts, RequestsFind, FetchSteps, Idle, Pwrite, Sending
  <2>2. AllTracked'
    <3>1. req[u].path \in Paths /\ disk[req[u].path] # Nil
      BY <1>1, <1>24 DEF Pwrite, TrackParts, RequestsFind, Shape, RequestsApart
    <3> QED
      BY <1>1, <1>24, <2>t, <3>1 DEF TrackParts, AllTracked, Pwrite
  <2>3. BatchStored' /\ RowsOurs'
    BY <1>1, <2>k DEF TrackParts, BatchStored, Storing, At, RowsOurs
  <2> QED
    BY <2>1, <2>2, <2>3 DEF TrackParts
<1>25. ASSUME NEW s \in Senders, CycleStart(s)
       PROVE  TrackParts'
  BY <1>1, <1>25
     DEF CycleStart, CycleTo, stored, TrackParts, BatchStored, Storing, At,
         Idle, NoCycle, RowsOurs, RequestsFind, FetchSteps, AllTracked, Tracked
<1>26. ASSUME NEW s \in Senders, StoreBatch(s)
       PROVE  TrackParts'
  <2>k. UNCHANGED <<disk, object, batch, handler, req, wanted>>
    BY <1>26 DEF StoreBatch, stored
  <2>c. /\ cycle'[s].step = "reset"
        /\ cycle'[s].file = cycle[s].file
        /\ cycle'[s].todo = cycle[s].todo
        /\ \A r \in Senders : r # s => cycle'[r] = cycle[r]
    BY <1>26 DEF StoreBatch, Cycles, CycleTo
  <2>i. \A x \in Paths :
           /\ row[x] # Nil \/ batch[x] > 0 => row'[x] # Nil
           /\ row'[x] # Nil => row'[x] = row[x] \/ row'[x].ours
           /\ row[x] # Nil => row'[x] = row[x]
    BY <1>26, InsertKeeps DEF StoreBatch
  <2>u. \A v \in Users : req[v].step # "idle" => req[v].path \in Paths
    BY DEF Shape, RequestsApart
  <2>1. BatchStored'
    BY <2>i, <2>k DEF BatchStored
  <2>2. RowsOurs'
    BY <1>1, <2>i DEF TrackParts, RowsOurs
  <2>3. RequestsFind'
    BY <1>1, <2>i, <2>k, <2>u DEF TrackParts, RequestsFind, FetchSteps
  <2>4. AllTracked'
    BY <1>1, <2>i, <2>k DEF TrackParts, AllTracked, Tracked
  <2> QED
    BY <2>1, <2>2, <2>3, <2>4 DEF TrackParts
<1>27. ASSUME NEW s \in Senders, ResetBatch(s)
       PROVE  TrackParts'
  <2>k. UNCHANGED <<disk, object, row, handler, req, wanted>>
    BY <1>27 DEF ResetBatch, stored
  <2>c. /\ cycle'[s].step = "select"
        /\ cycle'[s].file = cycle[s].file
        /\ cycle'[s].todo = cycle[s].todo
        /\ \A r \in Senders : r # s => cycle'[r] = cycle[r]
    BY <1>27 DEF ResetBatch, Cycles, CycleTo
  <2>n. \A x \in Paths : batch'[x] = 0
    BY <1>27 DEF ResetBatch, NoBatch
  <2>e. \A x \in Paths : batch[x] > 0 => row[x] # Nil
    BY <1>1, <1>27 DEF ResetBatch, TrackParts, BatchStored, Storing
  <2>1. BatchStored'
    BY <2>n DEF BatchStored
  <2>2. AllTracked'
    BY <1>1, <2>k, <2>e DEF TrackParts, AllTracked, RowsOurs, Tracked
  <2>3. RowsOurs' /\ RequestsFind'
    BY <1>1, <2>k DEF TrackParts, RowsOurs, RequestsFind, FetchSteps
  <2> QED
    BY <2>1, <2>2, <2>3 DEF TrackParts
<1>28. ASSUME NEW s \in Senders, Select(s)
       PROVE  TrackParts'
  BY <1>1, <1>28
     DEF Select, stored, TrackParts, BatchStored, Storing, At, Idle, NoCycle,
         RowsOurs, RequestsFind, FetchSteps, AllTracked, Tracked
<1>29. ASSUME NEW s \in Senders, NEW p \in Paths, Send(s, p)
       PROVE  TrackParts'
  BY <1>1, <1>29
     DEF Send, stored, TrackParts, BatchStored, Storing, At, Idle, NoCycle,
         RowsOurs, RequestsFind, FetchSteps, AllTracked, Tracked
<1>30. ASSUME NEW s \in Senders, Upload(s)
       PROVE  TrackParts'
  BY <1>1, <1>30
     DEF Upload, CycleTo, stored, TrackParts, BatchStored, Storing, At, Idle,
         NoCycle, RowsOurs, RequestsFind, FetchSteps, AllTracked, Tracked
<1>31. ASSUME NEW s \in Senders, UploadExit(s)
       PROVE  TrackParts'
  BY <1>1, <1>31
     DEF UploadExit, CycleTo, stored, TrackParts, BatchStored, Storing, At,
         Idle, NoCycle, RowsOurs, RequestsFind, FetchSteps, AllTracked, Tracked
<1>32. ASSUME NEW s \in Senders, UploadError(s)
       PROVE  TrackParts'
  BY <1>1, <1>32
     DEF UploadError, NextFile, NoCycle, stored, TrackParts, BatchStored,
         Storing, At, Idle, RowsOurs, RequestsFind, FetchSteps, AllTracked,
         Tracked
<1>33. ASSUME NEW s \in Senders, Mark(s)
       PROVE  TrackParts'
  <2>k. UNCHANGED <<disk, object, batch, handler, req, wanted>>
    BY <1>33 DEF Mark, stored
  <2>c. /\ cycle'[s].step = "truncate"
        /\ cycle'[s].file = cycle[s].file
        /\ cycle'[s].todo = cycle[s].todo
        /\ \A r \in Senders : r # s => cycle'[r] = cycle[r]
    BY <1>33 DEF Mark, Cycles, CycleTo
  <2>f. cycle[s].file \in Paths
    BY <1>33 DEF Mark, Shape, SendsOne, SendSteps, At, Cycles
  <2>l. \A x \in Paths : /\ row'[x] # Nil <=> row[x] # Nil
                         /\ row[x] # Nil => row'[x].ours = row[x].ours
    BY <1>33, <2>f, MarkRow
  <2>u. \A v \in Users : req[v].step # "idle" => req[v].path \in Paths
    BY DEF Shape, RequestsApart
  <2>1. BatchStored'
    BY <1>1, <1>33, <2>k, <2>c, <2>l DEF TrackParts, BatchStored, Storing, At
  <2>2. RowsOurs'
    BY <1>1, <2>l DEF TrackParts, RowsOurs
  <2>3. RequestsFind'
    BY <1>1, <2>k, <2>l, <2>u DEF TrackParts, RequestsFind, FetchSteps
  <2>4. AllTracked'
    BY <1>1, <2>k, <2>l DEF TrackParts, AllTracked, Tracked
  <2> QED
    BY <2>1, <2>2, <2>3, <2>4 DEF TrackParts
<1>34. ASSUME NEW s \in Senders, Truncate(s)
       PROVE  TrackParts'
  BY <1>1, <1>34
     DEF Truncate, NextFile, NoCycle, stored, TrackParts, BatchStored, Storing,
         At, Idle, RowsOurs, RequestsFind, FetchSteps, AllTracked, Tracked
<1>35. ASSUME NEW s \in Senders, CycleEnd(s)
       PROVE  TrackParts'
  BY <1>1, <1>35
     DEF CycleEnd, stored, TrackParts, BatchStored, Storing, At, Idle, NoCycle,
         RowsOurs, RequestsFind, FetchSteps, AllTracked, Tracked
<1> QED
  BY <1>2, <1>3, <1>4, <1>5, <1>6, <1>7, <1>8, <1>9, <1>10, <1>11, <1>12,
     <1>13, <1>14, <1>15, <1>16, <1>17, <1>18, <1>19, <1>20, <1>21, <1>22,
     <1>23, <1>24, <1>25, <1>26, <1>27, <1>28, <1>29, <1>30, <1>31, <1>32,
     <1>33, <1>34, <1>35
     DEF Next, DaemonNext, NamesNext, BytesNext, CycleNext

\* Whoever reads a file gets what was last put into it, whatever the number of users, of
\* files and of cycles that overlap, as long as the only mishaps are those of the kind
\* "entry".
THEOREM ContentAlwaysKept == Spec => []ContentKept
<1>1. Init => TypeOK /\ Shape /\ ContentInv
  BY InitType, InitShape, InitContent
<1>2. TypeOK /\ Shape /\ ContentInv /\ [Next]_vars => (TypeOK /\ Shape /\ ContentInv)'
  BY TypeStep, ShapeStep, ContentStep
<1>3. ContentInv => ContentKept
  BY DEF ContentInv, ContentParts, ContentKept
<1> QED
  BY <1>1, <1>2, <1>3, PTL DEF Spec

\* Every file of the mount has a row that a cycle looks at, or an entry that waits,
\* whatever the number of users, of files and of cycles that overlap, as long as the only
\* mishaps are those of the kind "content".
THEOREM FilesAlwaysTracked == Spec => []FilesTracked
<1>1. Init => TypeOK /\ Shape /\ TrackInv
  BY InitType, InitShape, InitTrack
<1>2. TypeOK /\ Shape /\ TrackInv /\ [Next]_vars => (TypeOK /\ Shape /\ TrackInv)'
  BY TypeStep, ShapeStep, TrackStep
<1>3. TrackInv => FilesTracked
  BY DEF TrackInv, TrackParts, AllTracked, FilesTracked
<1> QED
  BY <1>1, <1>2, <1>3, PTL DEF Spec
=============================================================================

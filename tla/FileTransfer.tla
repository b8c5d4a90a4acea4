---------------------------- MODULE FileTransfer ----------------------------
(***************************************************************************)
(* How the agent moves one tracked file between the local disk and the S3  *)
(* bucket, while FUSE requests on the file and cron cycles run at the same *)
(* time.                                                                   *)
(*                                                                         *)
(* A user thread is a goroutine of the FUSE server that handles one        *)
(* request at a time; a sender thread is a goroutine of the cron that runs *)
(* Cycle.  They share the table of open handles (fs.fhmap) with the mutex  *)
(* of each handle, the row of the file in the database, the bytes on the   *)
(* local disk and the object in the bucket.                                *)
(*                                                                         *)
(* Every action is one step between two points where another goroutine may *)
(* run: a mutex operation, a statement of the database, a system call, or  *)
(* one half of an rclone command.                                          *)
(***************************************************************************)
EXTENDS Naturals, FiniteSets, Sequences, Functions

CONSTANTS
    Users,       \* the goroutines that serve FUSE requests
    Senders,     \* the goroutines that run a cycle of the cron
    Handles,     \* the S3File objects, in use or not yet
    InitReg,     \* the handles open when the agent (re)starts, in fhmap's order
    Blocks,      \* the blocks a user may write
    Ops,         \* the requests that users make
    Failures,    \* the failures that may happen
    MaxCrashes,  \* bound on the number of crashes
    Nil          \* no thread, no handle

Threads == Users \cup Senders

\* The requests on a handle, and those on the path of the file.
HandleOps == {"read", "write", "getattr", "flush", "ftruncate", "copy"}
PathOps == {"lstat", "truncate"}

\* "exit": an rclone command ends with a non-zero exit code.
\* "noexec": an rclone command could not be run at all.
\* "truncate": the system call that empties a file sent fails.
\* "update": an UPDATE statement of the database fails.
FailureKinds == {"exit", "noexec", "truncate", "update"}

ASSUME ThreadsAssumption == Users \cap Senders = {}
ASSUME HandlesAssumption == InitReg \in Seq(Handles) /\ IsInjective(InitReg)
ASSUME BlocksAssumption == IsFiniteSet(Blocks)
ASSUME OpsAssumption == Ops \subseteq HandleOps \cup PathOps
ASSUME FailuresAssumption == Failures \subseteq FailureKinds
ASSUME CrashesAssumption == MaxCrashes \in Nat
ASSUME NilAssumption == Nil \notin Threads \cup Handles

VARIABLES
    fhmap,    \* the registered handles of the file
    hstate,   \* of each handle: "new", "open" or "closed"
    mutex,    \* of each handle: the thread that locked its mutex, or Nil
    row,      \* the row of the file: Local, Server (is it set?) and Size
    local,    \* the blocks of the file on the local disk
    stored,   \* is there an object for the file in the bucket?
    object,   \* the blocks of that object
    pc,       \* of each thread: its next step
    req,      \* of each user: the request, its handle, whether it failed, and
              \* whether Server is set in the row that Download read
    fhs, at,  \* of each thread: the slice lockFHs or unlockFHs runs over, and where
    info,     \* of each thread: the size the last os.Stat returned
    crashes   \* how often the agent crashed

table == <<fhmap, hstate>>
bucket == <<stored, object>>
disk == <<row, local, bucket>>
loop == <<fhs, at>>
vars == <<fhmap, hstate, mutex, row, local, stored, object, pc, req, fhs,
          at, info, crashes>>

\* A content is the set of the blocks that hold data; its size is their number.
Contents == SUBSET Blocks
Size(c) == Cardinality(c)

UserSteps == {"getentry", "acquire", "fetch", "delete", "clear", "relocal",
              "io", "pread", "stat", "getsize"}
SenderSteps == {"osstat", "send", "setserver", "setremote", "setsize", "hollow"}
LoopSteps == {"lockFHs", "lock", "unlockFHs", "unlock"}

Requests == [op : HandleOps \cup PathOps, h : Handles \cup {Nil},
             err : BOOLEAN, server : BOOLEAN]

NoRequest == [op |-> "read", h |-> Nil, err |-> FALSE, server |-> FALSE]

InitHandles ==
    [h \in Handles |-> IF h \in Range(InitReg) THEN "open" ELSE "new"]

\* A file just created: Create opened it and registered the handle, and its row
\* is in the database.
Init ==
    /\ fhmap = InitReg
    /\ hstate = InitHandles
    /\ mutex = [h \in Handles |-> Nil]
    /\ row = [local |-> TRUE, server |-> FALSE, size |-> 0]
    /\ local = {}
    /\ stored = FALSE
    /\ object = {}
    /\ pc = [t \in Threads |-> "idle"]
    /\ req = [u \in Users |-> NoRequest]
    /\ fhs = [t \in Threads |-> << >>]
    /\ at = [t \in Threads |-> 1]
    /\ info = [t \in Threads |-> 0]
    /\ crashes = 0

Goto(t, step) == pc' = [pc EXCEPT ![t] = step]

\* A fatal error of the Go runtime, or a panic that no handler recovers, ends the
\* process: no thread takes another step.
Die == pc' = [t \in Threads |-> "dead"]

-----------------------------------------------------------------------------
(* The mutexes of the handles.                                             *)

\* Mutant: Read forgets the lock of its handle.
AcquireButRead(u) ==
    /\ pc[u] = "acquire"
    /\ mutex[req[u].h] = Nil
    /\ mutex' = IF req[u].op = "read" THEN mutex ELSE [mutex EXCEPT ![req[u].h] = u]
    /\ Goto(u, CASE req[u].op = "getattr" -> "stat"
                 [] req[u].op = "ftruncate" -> "getentry"
                 [] OTHER -> "io")
    /\ UNCHANGED <<table, disk, req, loop, info, crashes>>

\* The lock that a request takes on its own handle (f.Mutex.Lock).
Acquire(u) ==
    /\ pc[u] = "acquire"
    /\ mutex[req[u].h] = Nil
    /\ mutex' = [mutex EXCEPT ![req[u].h] = u]
    /\ Goto(u, CASE req[u].op = "getattr" -> "stat"
                 [] req[u].op = "ftruncate" -> "getentry"
                 [] OTHER -> "io")
    /\ UNCHANGED <<table, disk, req, loop, info, crashes>>

\* The deferred unlock of a request's own handle.  Unlock gives back a mutex
\* whoever locked it; for a mutex that nobody locked it is a "fatal error: sync:
\* unlock of unlocked mutex".
ReleaseOwn(u, step) ==
    IF mutex[req[u].h] = Nil
    THEN Die /\ UNCHANGED mutex
    ELSE mutex' = [mutex EXCEPT ![req[u].h] = Nil] /\ Goto(u, step)

\* The request is answered.
Forget(u) == req' = [req EXCEPT ![u] = NoRequest]

\* Mutant: the handles are locked from the last to the first by Download, and from
\* the first to the last by SendRemote.
RangeFHsBackward(t) ==
    /\ pc[t] \in {"lockFHs", "unlockFHs"}
    /\ fhs' = [fhs EXCEPT ![t] =
                IF t \in Users THEN [k \in DOMAIN fhmap |-> fhmap[Len(fhmap) + 1 - k]]
                               ELSE fhmap]
    /\ at' = [at EXCEPT ![t] = 1]
    /\ Goto(t, IF pc[t] = "lockFHs" THEN "lock" ELSE "unlock")
    /\ UNCHANGED <<table, mutex, disk, req, info, crashes>>

\* lockFHs and unlockFHs evaluate fs.fhmap[path] once, without fs.mutex, when
\* their loop starts.
RangeFHs(t) ==
    /\ pc[t] \in {"lockFHs", "unlockFHs"}
    /\ fhs' = [fhs EXCEPT ![t] = fhmap]
    /\ at' = [at EXCEPT ![t] = 1]
    /\ Goto(t, IF pc[t] = "lockFHs" THEN "lock" ELSE "unlock")
    /\ UNCHANGED <<table, mutex, disk, req, info, crashes>>

\* Mutant: lockFHs does not wait (TryLock with its result dropped).
TryLockFH(t) ==
    /\ pc[t] = "lock"
    /\ at[t] <= Len(fhs[t])
    /\ mutex' = [mutex EXCEPT ![fhs[t][at[t]]] = IF @ = Nil THEN t ELSE @]
    /\ at' = [at EXCEPT ![t] = @ + 1]
    /\ UNCHANGED <<table, disk, pc, req, fhs, info, crashes>>

LockFH(t) ==
    /\ pc[t] = "lock"
    /\ at[t] <= Len(fhs[t])
    /\ mutex[fhs[t][at[t]]] = Nil
    /\ mutex' = [mutex EXCEPT ![fhs[t][at[t]]] = t]
    /\ at' = [at EXCEPT ![t] = @ + 1]
    /\ UNCHANGED <<table, disk, pc, req, fhs, info, crashes>>

\* A loop is over, and its variables are dead.
EndLoop(t) ==
    /\ fhs' = [fhs EXCEPT ![t] = << >>]
    /\ at' = [at EXCEPT ![t] = 1]

\* The transfer starts once every handle of the slice is locked.
LockedAll(t) ==
    /\ pc[t] = "lock"
    /\ at[t] > Len(fhs[t])
    /\ EndLoop(t)
    /\ Goto(t, IF t \in Users THEN "fetch" ELSE "osstat")
    /\ UNCHANGED <<table, mutex, disk, req, info, crashes>>

UnlockFH(t) ==
    /\ pc[t] = "unlock"
    /\ at[t] <= Len(fhs[t])
    /\ mutex[fhs[t][at[t]]] # Nil
    /\ mutex' = [mutex EXCEPT ![fhs[t][at[t]]] = Nil]
    /\ at' = [at EXCEPT ![t] = @ + 1]
    /\ UNCHANGED <<table, disk, pc, req, fhs, info, crashes>>

UnlockFatal(t) ==
    /\ pc[t] = "unlock"
    /\ at[t] <= Len(fhs[t])
    /\ mutex[fhs[t][at[t]]] = Nil
    /\ Die
    /\ UNCHANGED <<table, mutex, disk, req, loop, info, crashes>>

\* Mutant: Read and Write look again after Download, whatever it found.
DownloadAgain(u) ==
    CASE req[u].op = "ftruncate" -> "io"
      [] req[u].op # "ftruncate" /\ req[u].err -> "idle"
      [] req[u].op \in {"read", "write"} /\ ~req[u].err -> "getentry"
      [] OTHER -> "io"

\* Where a request goes on when Download returned: setAttr still has to unlock its
\* handle, any other request ends with the error.
AfterDownload(u) ==
    CASE req[u].op = "ftruncate" -> "io"
      [] req[u].op # "ftruncate" /\ req[u].err -> "idle"
      [] req[u].op \in {"read", "write"} /\ ~req[u].err -> "acquire"
      [] OTHER -> "io"

\* Download, or SendRemote and with it the cycle, returns.
UnlockedAll(t) ==
    /\ pc[t] = "unlock"
    /\ at[t] > Len(fhs[t])
    /\ EndLoop(t)
    /\ info' = [info EXCEPT ![t] = 0]
    /\ Goto(t, IF t \in Users THEN AfterDownload(t) ELSE "idle")
    /\ IF t \in Users /\ AfterDownload(t) = "idle" THEN Forget(t) ELSE UNCHANGED req
    /\ UNCHANGED <<table, mutex, disk, crashes>>

-----------------------------------------------------------------------------
(* Download, run by the thread of a user.                                  *)

\* GetEntry: a local file needs no transfer.  Otherwise the row read here is
\* used after the thread waited for the mutexes.
GetEntry(u) ==
    /\ pc[u] = "getentry"
    /\ req' = [req EXCEPT ![u].server = row.server]
    /\ Goto(u, IF row.local THEN AfterDownload(u) ELSE "lockFHs")
    /\ UNCHANGED <<table, mutex, disk, loop, info, crashes>>

\* Mutant: moveto leaves the emptied file as it is, and deletes the object.
FetchCopySkips(u) ==
    /\ pc[u] = "fetch"
    /\ req[u].server
    /\ stored
    /\ Goto(u, "delete")
    /\ UNCHANGED <<table, mutex, disk, req, loop, info, crashes>>

\* "rclone moveto" copies the object over the local file, then deletes it.
FetchCopy(u) ==
    /\ pc[u] = "fetch"
    /\ req[u].server
    /\ stored
    /\ local' = object
    /\ Goto(u, "delete")
    /\ UNCHANGED <<table, mutex, row, bucket, req, loop, info, crashes>>

FetchDelete(u) ==
    /\ pc[u] = "delete"
    /\ stored' = FALSE
    /\ object' = {}
    /\ Goto(u, "clear")
    /\ UNCHANGED <<table, mutex, row, local, req, loop, info, crashes>>

\* The object is copied but not deleted, which nobody notices either.
FetchKeep(u) ==
    /\ pc[u] = "delete"
    /\ "exit" \in Failures
    /\ Goto(u, "clear")
    /\ UNCHANGED <<table, mutex, disk, req, loop, info, crashes>>

\* rclone ends with a non-zero exit code: always when the row names no server or
\* the object is missing.  Download returns the error of running the command,
\* which is nil, and the caller goes on as after a transfer.
FetchExit(u) ==
    /\ pc[u] = "fetch"
    /\ ~req[u].server \/ ~stored \/ "exit" \in Failures
    /\ Goto(u, "clear")
    /\ UNCHANGED <<table, mutex, disk, req, loop, info, crashes>>

FetchError(u) ==
    /\ pc[u] = "fetch"
    /\ "noexec" \in Failures
    /\ req' = [req EXCEPT ![u].err = TRUE]
    /\ Goto(u, "unlockFHs")
    /\ UNCHANGED <<table, mutex, disk, loop, info, crashes>>

\* RetriveFromServer: two statements, Server first.
ClearServer(u) ==
    /\ pc[u] = "clear"
    /\ row' = [row EXCEPT !.server = FALSE]
    /\ Goto(u, "relocal")
    /\ UNCHANGED <<table, mutex, local, bucket, req, loop, info, crashes>>

SetLocal(u) ==
    /\ pc[u] = "relocal"
    /\ row' = [row EXCEPT !.local = TRUE]
    /\ Goto(u, "unlockFHs")
    /\ UNCHANGED <<table, mutex, local, bucket, req, loop, info, crashes>>

-----------------------------------------------------------------------------
(* The requests of the users.                                              *)

OpenHandles == {h \in Handles : hstate[h] = "open"}

\* A request arrives.  Getattr, setAttr and Flush start with the lock of their
\* handle, a Getattr without a handle with a stat, the others with Download.
Start(u) ==
    /\ pc[u] = "idle"
    /\ \E op \in Ops, h \in OpenHandles \cup {Nil} :
        /\ h = Nil <=> op \in PathOps
        /\ req' = [req EXCEPT ![u] = [NoRequest EXCEPT !.op = op, !.h = h]]
        /\ Goto(u, CASE op \in {"getattr", "ftruncate", "flush"} -> "acquire"
                     [] op = "lstat" -> "stat"
                     [] OTHER -> "getentry")
    /\ UNCHANGED <<table, mutex, disk, loop, info, crashes>>

\* Mutant: Read returns without the unlock of its handle.
PrepareReadLeaks(u) ==
    /\ pc[u] = "io" /\ req[u].op = "read"
    /\ Goto(u, "pread")
    /\ UNCHANGED <<table, mutex, disk, req, loop, info, crashes>>

\* Read only names the descriptor and the range while it holds the lock: the FUSE
\* server reads the bytes when it sends the reply.
PrepareRead(u) ==
    /\ pc[u] = "io" /\ req[u].op = "read"
    /\ ReleaseOwn(u, "pread")
    /\ UNCHANGED <<table, disk, req, loop, info, crashes>>

Pread(u) ==
    /\ pc[u] = "pread"
    /\ Forget(u)
    /\ Goto(u, "idle")
    /\ UNCHANGED <<table, mutex, disk, loop, info, crashes>>

\* Write and Allocate.
Pwrite(u) ==
    /\ pc[u] = "io" /\ req[u].op = "write"
    /\ \E b \in Blocks : local' = local \cup {b}
    /\ ReleaseOwn(u, "idle")
    /\ Forget(u)
    /\ UNCHANGED <<table, row, bucket, loop, info, crashes>>

\* Flush and Fsync change nothing that is modelled here.
Flush(u) ==
    /\ pc[u] = "io" /\ req[u].op = "flush"
    /\ ReleaseOwn(u, "idle")
    /\ Forget(u)
    /\ UNCHANGED <<table, disk, loop, info, crashes>>

\* setAttr truncates, unless Download failed, and unlocks; the reply is then made
\* by Getattr, in both cases.
Ftruncate(u) ==
    /\ pc[u] = "io" /\ req[u].op = "ftruncate"
    /\ IF req[u].err THEN UNCHANGED local ELSE local' \in SUBSET local
    /\ ReleaseOwn(u, "acquire")
    /\ req' = [req EXCEPT ![u].op = "getattr"]
    /\ UNCHANGED <<table, row, bucket, loop, info, crashes>>

\* Setattr without a handle truncates the path, and no mutex is involved.
Truncate(u) ==
    /\ pc[u] = "io" /\ req[u].op = "truncate"
    /\ local' \in SUBSET local
    /\ Forget(u)
    /\ Goto(u, "idle")
    /\ UNCHANGED <<table, mutex, row, bucket, loop, info, crashes>>

\* CopyFileRange into the file writes without the lock of the handle.
CopyRange(u) ==
    /\ pc[u] = "io" /\ req[u].op = "copy"
    /\ \E b \in Blocks : local' = local \cup {b}
    /\ Forget(u)
    /\ Goto(u, "idle")
    /\ UNCHANGED <<table, mutex, row, bucket, loop, info, crashes>>

\* Mutant: an off-by-one in the size of the local file.
StatLocalShort(u) ==
    /\ pc[u] = "stat"
    /\ info' = [info EXCEPT ![u] = Size(local) - 1]
    /\ Goto(u, "getsize")
    /\ UNCHANGED <<table, mutex, disk, req, loop, crashes>>

\* GetSize: os.Stat, then the row; the size recorded in the row stands for the
\* size of a file that is remote.
StatLocal(u) ==
    /\ pc[u] = "stat"
    /\ info' = [info EXCEPT ![u] = Size(local)]
    /\ Goto(u, "getsize")
    /\ UNCHANGED <<table, mutex, disk, req, loop, crashes>>

ReportedSize(u) == IF row.local THEN info[u] ELSE row.size

GetSize(u) ==
    /\ pc[u] = "getsize"
    /\ IF req[u].h = Nil
       THEN Goto(u, "idle") /\ UNCHANGED mutex
       ELSE ReleaseOwn(u, "idle")
    /\ Forget(u)
    /\ info' = [info EXCEPT ![u] = 0]
    /\ UNCHANGED <<table, disk, loop, crashes>>

-----------------------------------------------------------------------------
(* SendRemote, run by a cycle of the cron.                                 *)

\* Mutant: SendRemote does not call lockFHs.
CycleUnlocked(s) ==
    /\ pc[s] = "idle"
    /\ row.local
    /\ Goto(s, "osstat")
    /\ UNCHANGED <<table, mutex, disk, req, loop, info, crashes>>

\* Cycle finds the row among the local ones and the rule says that the file must
\* be remote.  The row it found is never read again.
Cycle(s) ==
    /\ pc[s] = "idle"
    /\ row.local
    /\ Goto(s, "lockFHs")
    /\ UNCHANGED <<table, mutex, disk, req, loop, info, crashes>>

Stat(s) ==
    /\ pc[s] = "osstat"
    /\ info' = [info EXCEPT ![s] = Size(local)]
    /\ Goto(s, "send")
    /\ UNCHANGED <<table, mutex, disk, req, loop, crashes>>

\* "rclone copyto".
SendCopy(s) ==
    /\ pc[s] = "send"
    /\ stored' = TRUE
    /\ object' = local
    /\ Goto(s, "setserver")
    /\ UNCHANGED <<table, mutex, row, local, req, loop, info, crashes>>

\* CopyTo returns a nil error for a non-zero exit code, like Download.
SendExit(s) ==
    /\ pc[s] = "send"
    /\ "exit" \in Failures
    /\ Goto(s, "setserver")
    /\ UNCHANGED <<table, mutex, disk, req, loop, info, crashes>>

\* Mutant: the error of CopyTo is ignored.
SendErrorIgnored(s) ==
    /\ pc[s] = "send"
    /\ "noexec" \in Failures
    /\ Goto(s, "setserver")
    /\ UNCHANGED <<table, mutex, disk, req, loop, info, crashes>>

SendError(s) ==
    /\ pc[s] = "send"
    /\ "noexec" \in Failures
    /\ Goto(s, "unlockFHs")
    /\ UNCHANGED <<table, mutex, disk, req, loop, info, crashes>>

\* Mutant: Local is cleared before Server is set.
SetRemoteFirst(s) ==
    /\ pc[s] = "setserver"
    /\ row' = [row EXCEPT !.local = FALSE]
    /\ Goto(s, "setremote")
    /\ UNCHANGED <<table, mutex, local, bucket, req, loop, info, crashes>>

\* SendToServer: three statements.
SetServer(s) ==
    /\ pc[s] = "setserver"
    /\ row' = [row EXCEPT !.server = TRUE]
    /\ Goto(s, "setremote")
    /\ UNCHANGED <<table, mutex, local, bucket, req, loop, info, crashes>>

\* Mutant: gorm leaves the zero value of Local out of the update.
SetRemoteSkipsZero(s) ==
    /\ pc[s] = "setremote"
    /\ Goto(s, "setsize")
    /\ UNCHANGED <<table, mutex, disk, req, loop, info, crashes>>

SetRemote(s) ==
    /\ pc[s] = "setremote"
    /\ row' = [row EXCEPT !.local = FALSE]
    /\ Goto(s, "setsize")
    /\ UNCHANGED <<table, mutex, local, bucket, req, loop, info, crashes>>

\* Mutant: the size of the file sent is not recorded.
SetSizeForgotten(s) ==
    /\ pc[s] = "setsize"
    /\ Goto(s, "hollow")
    /\ UNCHANGED <<table, mutex, disk, req, loop, info, crashes>>

SetSize(s) ==
    /\ pc[s] = "setsize"
    /\ row' = [row EXCEPT !.size = info[s]]
    /\ Goto(s, "hollow")
    /\ UNCHANGED <<table, mutex, local, bucket, req, loop, info, crashes>>

\* The file sent is emptied, or its truncation fails.
Hollow(s) ==
    /\ pc[s] = "hollow"
    /\ \/ local' = {}
       \/ "truncate" \in Failures /\ UNCHANGED local
    /\ Goto(s, "unlockFHs")
    /\ UNCHANGED <<table, mutex, row, bucket, req, loop, info, crashes>>

\* A failed statement ends the chain it is part of.  SendToServer and
\* RetriveFromServer drop the error.
UpdateFails(t) ==
    /\ pc[t] \in {"setserver", "setremote", "setsize", "clear", "relocal"}
    /\ "update" \in Failures
    /\ Goto(t, IF t \in Users THEN "unlockFHs" ELSE "hollow")
    /\ UNCHANGED <<table, mutex, disk, req, loop, info, crashes>>

-----------------------------------------------------------------------------
(* Handles come and go, and the agent may crash.                           *)

\* append writes behind the last cell, in place if there is room: a loop over a longer
\* slice, from before a deletion, comes to the new handle.
LoopsAfterAppend(h) ==
    {[t \in Threads |-> IF t \in shared THEN [fhs[t] EXCEPT ![Len(fhmap) + 1] = h]
                                        ELSE fhs[t]] :
        shared \in SUBSET {t \in Threads : /\ pc[t] \in {"lock", "unlock"}
                                          /\ Len(fhs[t]) > Len(fhmap)}}

\* Open and RegisterFH.
Open(h) ==
    /\ hstate[h] = "new"
    /\ \E t \in Threads : pc[t] # "dead"
    /\ hstate' = [hstate EXCEPT ![h] = "open"]
    /\ fhmap' = Append(fhmap, h)
    /\ fhs' \in LoopsAfterAppend(h)
    /\ UNCHANGED <<mutex, disk, pc, req, at, info, crashes>>

\* Mutant: the range of the deletion is shifted by one.
DeleteNext(handles, i) ==
    SubSeq(handles, 1, i) \o SubSeq(handles, i + 2, Len(handles))

\* slices.Delete(handles, i, i+2): the cells from i+2 move to i, in place.
DeleteTwo(handles, i) ==
    SubSeq(handles, 1, i - 1) \o SubSeq(handles, i + 2, Len(handles))

\* The same cells as a loop sees them that still ranges over the old slice.
ShiftCells(seq, i, handles) ==
    [k \in DOMAIN seq |-> IF k >= i /\ k + 2 <= Len(handles)
                          THEN handles[k + 2] ELSE seq[k]]

\* A loop over the slice runs on over the cells that UnregisterFH moves, unless
\* the slice was reallocated since the loop started.
LoopsAfterDelete(i) ==
    {[t \in Threads |-> IF t \in shared THEN ShiftCells(fhs[t], i, fhmap)
                                        ELSE fhs[t]] :
        shared \in SUBSET {t \in Threads : pc[t] \in {"lock", "unlock"}}}

\* The kernel releases a handle once no request uses it, and Release waits for its
\* mutex.
Releasable(h) ==
    /\ hstate[h] = "open"
    /\ \A u \in Users : req[u].h # h
    /\ \E t \in Threads : pc[t] # "dead"
    /\ mutex[h] = Nil

\* The last handle of several has no neighbour to delete with it.
LastOfSeveral(h) == Len(fhmap) > 1 /\ h = fhmap[Len(fhmap)]

\* Release and UnregisterFH, which takes two handles out of a slice of several.
Release(h) ==
    /\ Releasable(h)
    /\ ~LastOfSeveral(h)
    /\ hstate' = [hstate EXCEPT ![h] = "closed"]
    /\ \/ h \notin Range(fhmap) /\ UNCHANGED <<fhmap, fhs>>
       \/ fhmap = <<h>> /\ fhmap' = << >> /\ UNCHANGED fhs
       \/ \E i \in 1..(Len(fhmap) - 1) :
            /\ fhmap[i] = h
            /\ fhmap' = DeleteTwo(fhmap, i)
            /\ fhs' \in LoopsAfterDelete(i)
    /\ UNCHANGED <<mutex, disk, pc, req, at, info, crashes>>

\* slices.Delete panics.
ReleasePanic(h) ==
    /\ Releasable(h)
    /\ LastOfSeveral(h)
    /\ Die
    /\ UNCHANGED <<table, mutex, disk, req, loop, info, crashes>>

\* The process ends between any two steps and is started again: the database,
\* the disk and the bucket stay, and the users open the file again.
Crash ==
    /\ crashes < MaxCrashes
    /\ crashes' = crashes + 1
    /\ fhmap' = InitReg
    /\ hstate' = InitHandles
    /\ mutex' = [h \in Handles |-> Nil]
    /\ pc' = [t \in Threads |-> "idle"]
    /\ req' = [u \in Users |-> NoRequest]
    /\ fhs' = [t \in Threads |-> << >>]
    /\ at' = [t \in Threads |-> 1]
    /\ info' = [t \in Threads |-> 0]
    /\ UNCHANGED disk

-----------------------------------------------------------------------------

LoopNext(t) ==
    \/ RangeFHs(t) \/ LockFH(t) \/ LockedAll(t)
    \/ UnlockFH(t) \/ UnlockFatal(t) \/ UnlockedAll(t)

DownloadNext(u) ==
    \/ GetEntry(u) \/ FetchCopy(u) \/ FetchDelete(u) \/ FetchKeep(u)
    \/ FetchExit(u) \/ FetchError(u) \/ ClearServer(u) \/ SetLocal(u)

RequestNext(u) ==
    \/ Acquire(u) \/ PrepareRead(u) \/ Pread(u) \/ Pwrite(u) \/ Flush(u)
    \/ Ftruncate(u) \/ Truncate(u) \/ CopyRange(u) \/ StatLocal(u) \/ GetSize(u)

SendNext(s) ==
    \/ Stat(s) \/ SendCopy(s) \/ SendExit(s) \/ SendError(s)
    \/ SetServer(s) \/ SetRemote(s) \/ SetSize(s) \/ Hollow(s)

\* What a thread does once a request, or a cycle, is under way.
UserStep(u) == DownloadNext(u) \/ RequestNext(u) \/ LoopNext(u) \/ UpdateFails(u)
SenderStep(s) == SendNext(s) \/ LoopNext(s) \/ UpdateFails(s)

\* The file is opened and closed only while the agent starts.
NextStable ==
    \/ \E u \in Users : Start(u) \/ UserStep(u)
    \/ \E s \in Senders : Cycle(s) \/ SenderStep(s)
    \/ Crash

HandleNext == \E h \in Handles : Open(h) \/ Release(h) \/ ReleasePanic(h)

Next == NextStable \/ HandleNext

\* The steps of a transfer that need the file for themselves, between the last
\* Lock of lockFHs and the first Unlock of unlockFHs.
TransferSteps == {"fetch", "delete", "clear", "relocal"} \cup SenderSteps

\* No thread runs over the handles, or is between lockFHs and unlockFHs.
Quiet ==
    \A t \in Threads : pc[t] \notin TransferSteps \cup {"lock", "unlockFHs", "unlock"}

\* Handles come and go, but not in the middle of a transfer.
NextQuiet == NextStable \/ (Quiet /\ HandleNext)

SpecStable == Init /\ [][NextStable]_vars

SpecQuiet == Init /\ [][NextQuiet]_vars

Spec == Init /\ [][Next]_vars

\* A goroutine runs on unless it waits, rclone and the database answer, and the
\* cron fires again.  A goroutine that waits for a mutex of Go gets it in the end:
\* one that waited for a millisecond is served first.  An upload that is tried
\* again and again succeeds at last.
Fairness ==
    /\ \A u \in Users : WF_vars(UserStep(u)) /\ SF_vars(Acquire(u) \/ LockFH(u))
    /\ \A s \in Senders : /\ WF_vars(Cycle(s)) /\ WF_vars(SenderStep(s))
                          /\ SF_vars(LockFH(s)) /\ SF_vars(SendCopy(s))

SpecLive == SpecStable /\ Fairness

-----------------------------------------------------------------------------
(* Properties.                                                             *)

Steps == {"idle", "dead"} \cup LoopSteps \cup UserSteps \cup SenderSteps

\* The variables stay in their types (the structs S3FS, S3File and S3NodeTable).
TypeOK ==
    /\ fhmap \in Seq(Handles)
    /\ hstate \in [Handles -> {"new", "open", "closed"}]
    /\ mutex \in [Handles -> Threads \cup {Nil}]
    /\ row \in [local : BOOLEAN, server : BOOLEAN, size : Nat]
    /\ local \in Contents
    /\ stored \in BOOLEAN
    /\ object \in Contents
    /\ pc \in [Threads -> Steps]
    /\ req \in [Users -> Requests]
    /\ fhs \in [Threads -> Seq(Handles)]
    /\ at \in [Threads -> Nat]
    /\ info \in [Threads -> Nat]
    /\ crashes \in Nat

\* The steps at which a request uses its handle under the handle's mutex.
InCritical(t) ==
    /\ t \in Users
    /\ pc[t] \in {"io", "stat", "getsize"}
    /\ req[t].h \in Range(fhmap)
    /\ req[t].op # "copy"

\* fs.go:189, "Lock them all to be the only one to use the file": while a transfer
\* moves the bytes of a file with an open handle, no other transfer moves them
\* and no request uses one of its handles under the lock.
TransfersExclusive ==
    \A t, other \in Threads :
        t # other /\ pc[t] \in TransferSteps /\ fhmap # << >> =>
            pc[other] \notin TransferSteps /\ ~InCritical(other)

\* unlockFHs gives back only mutexes that the same call of Download or SendRemote
\* locked: otherwise it opens the critical section of another goroutine, or ends
\* the process.  Handles may come and go before the transfer and after it, also with a
\* neighbour that UnregisterFH drops; one that is opened or released in the middle of
\* the transfer breaks this (SpecQuiet), and nothing in the code keeps it from there.
UnlocksOwn ==
    \A t \in Threads :
        pc[t] = "unlock" /\ at[t] <= Len(fhs[t]) => mutex[fhs[t][at[t]]] = t

\* The row says where the content of the file is.
Content == IF row.local \/ ~stored THEN local ELSE object
Tier == IF row.local THEN "local" ELSE "remote"

\* The users whose next step changes the local file.
Changing ==
    {u \in Users : /\ pc[u] = "io"
                   /\ req[u].op \in {"write", "ftruncate", "copy", "truncate"}
                   /\ ~req[u].err}

Tiered == INSTANCE TieredFile
            WITH content <- Content, tier <- Tier, changing <- Changing

\* Downloads, uploads, crashes between any two of their steps, commands that could
\* not be run and truncations that fail leave the content, as the row finds it, alone:
\* the file is a TieredFile.
Refines == Tiered!Spec

\* What Getattr on a handle tells is the size of the content, wherever it is,
\* unless a crash kept Size from being recorded.
GetattrHonest ==
    \A u \in Users :
        pc[u] = "getsize" /\ req[u].h # Nil /\ crashes = 0 =>
            ReportedSize(u) = Size(Content)

\* A file turns remote only when the bucket holds all of it, and the row names a server
\* to bring it back from (sender.go, SendRemote: copy, then SendToServer).
TurnsRemoteWhole ==
    [][row.local /\ ~row'.local => row'.server /\ stored' /\ object' = local']_vars

\* An object leaves the bucket only when the disk holds all its bytes (rclone.go,
\* Download: moveto deletes what it copied, and nobody took the copy away meanwhile).
DeletesFetched == [][stored /\ ~stored' => object \subseteq local']_vars

\* SendRemote is about to truncate the file only when its row says that it is remote and
\* the bucket holds all its bytes, however many requests and cycles are under way.
SentBeforeEmptied ==
    \A s \in Senders :
        pc[s] = "hollow" => ~row.local /\ row.server /\ stored /\ local \subseteq object

\* UnregisterFH takes two handles out of the table and moves the others, but fhmap never
\* lists a handle twice, and none that was closed.  It may lack one that is open, the
\* neighbour of a handle that was released; and a loop whose slice is moved meanwhile
\* may come to a handle twice, since the cells are moved and not the slice.
RegisteredOpen ==
    /\ IsInjective(fhmap)
    /\ Range(fhmap) \subseteq OpenHandles

\* Every request is answered in the end, if no request truncates a handle.
RequestsComplete == \A u \in Users : pc[u] # "idle" ~> pc[u] = "idle"

\* A file that is local, and that the rule wants in the bucket, gets there.
Drained == row.local ~> ~row.local

\* s3file.go:76, "we need to download the file or verify the cache": when Write
\* gets to the local file, the local file holds the data.
WritesReachData ==
    \A u \in Users : pc[u] = "io" /\ req[u].op = "write" => row.local

\* sender.go:110, "the file is already remote": such a file is not sent again.
SendsLocalFile ==
    \A s \in Senders : pc[s] = "send" => row.local

\* fs.go:264, "lock twice the same mutex [...] deadlock": nobody waits for a mutex
\* that it holds.
NoSelfDeadlock ==
    \A t \in Threads :
        pc[t] = "lock" /\ at[t] <= Len(fhs[t]) => mutex[fhs[t][at[t]]] # t

\* The handle whose mutex the goroutine is about to lock, or Nil.
Wanted(t) ==
    CASE pc[t] = "acquire" -> req[t].h
      [] pc[t] = "lock" /\ at[t] <= Len(fhs[t]) -> fhs[t][at[t]]
      [] OTHER -> Nil

WaitsFor(t, other) == Wanted(t) # Nil /\ mutex[Wanted(t)] = other

\* Goroutines that lock all the handles of the file, and requests that lock one, never
\* wait for each other in a circle (fs.go:264 names the deadlock it is afraid of): in
\* every set of goroutines one waits for none of the set.
NoDeadlock ==
    \A set \in (SUBSET Threads) \ {{}} :
        \E t \in set : \A other \in set : ~WaitsFor(t, other)

-----------------------------------------------------------------------------
(* The inductive invariants behind the properties of the locks and the bytes. *)

LockedOps == {"read", "write", "getattr", "flush", "ftruncate"}
DownloadOps == {"read", "write", "ftruncate", "copy", "truncate"}
DownloadSteps == {"getentry", "lockFHs", "lock", "fetch", "delete", "clear",
                  "relocal", "unlockFHs", "unlock"}

\* The request is between the Lock and the Unlock of its own handle.
HoldsOwn(u) ==
    \/ pc[u] \in {"io", "stat", "getsize"} /\ req[u].op \in LockedOps
    \/ pc[u] \in DownloadSteps /\ req[u].op = "ftruncate"

\* lockFHs locked the handle at k, and unlockFHs has not unlocked it yet.
HoldsAt(t, k) ==
    \/ pc[t] \in TransferSteps \cup {"unlockFHs"}
    \/ pc[t] = "lock" /\ k < at[t]
    \/ pc[t] = "unlock" /\ k >= at[t]

\* Which steps a request takes, and with a handle or without.
RequestShape ==
    \A u \in Users :
        /\ pc[u] \in {"idle", "dead"} \cup LoopSteps \cup UserSteps
        /\ pc[u] \notin {"idle", "dead"} => /\ req[u].h = Nil <=> req[u].op \in PathOps
                                            /\ req[u].op \in Ops \cup {"getattr"}
        /\ pc[u] \in DownloadSteps => req[u].op \in DownloadOps
        /\ pc[u] = "acquire" => req[u].op \in LockedOps
        /\ pc[u] = "io" => req[u].op \in {"flush"} \cup DownloadOps
        /\ pc[u] \in {"stat", "getsize"} => req[u].op \in {"getattr", "lstat"}
        /\ pc[u] = "pread" => req[u].op = "read"

SenderShape ==
    \A s \in Senders : pc[s] \in {"idle", "dead"} \cup LoopSteps \cup SenderSteps

\* A request that truncates a handle gets past lockFHs only if the table lacks that
\* handle: the mutex is locked already.
TruncateOutside ==
    \A u \in Users :
        pc[u] \in DownloadSteps /\ req[u].op = "ftruncate" =>
            /\ pc[u] = "lock" =>
                \A k \in DOMAIN fhmap : k < at[u] => fhmap[k] # req[u].h
            /\ pc[u] \notin {"getentry", "lockFHs", "lock"} =>
                req[u].h \notin Range(fhmap)

\* A loop runs over all the handles of the table.
LoopShape ==
    \A t \in Threads :
        pc[t] \in {"lock", "unlock"} => fhs[t] = fhmap /\ at[t] >= 1

LoopLocksHeld ==
    \A t \in Threads, k \in DOMAIN fhmap : HoldsAt(t, k) => mutex[fhmap[k]] = t

OwnLocksHeld ==
    \A u \in Users : HoldsOwn(u) => mutex[req[u].h] = u

\* Each thread holds the mutexes that its step says, of the handles in the table, as
\* long as these change only between two transfers.
LockInv ==
    /\ RequestShape
    /\ SenderShape
    /\ TruncateOutside
    /\ LoopShape
    /\ LoopLocksHeld
    /\ OwnLocksHeld

\* What is true besides while no handle comes or goes: every request has a handle of the
\* table, no process dies, and a truncation through a handle waits for ever.
TableStable == fhmap = InitReg /\ hstate = InitHandles

Alive == \A t \in Threads : pc[t] # "dead"

RequestsListed ==
    \A u \in Users :
        /\ req[u].h # Nil => req[u].h \in Range(InitReg)
        /\ req[u].err => pc[u] \in {"unlockFHs", "unlock"}

TruncateWaits ==
    \A u \in Users :
        pc[u] \in DownloadSteps /\ req[u].op = "ftruncate" =>
            pc[u] \in {"getentry", "lockFHs", "lock"}

StableInv ==
    /\ LockInv
    /\ TableStable
    /\ Alive
    /\ RequestsListed
    /\ TruncateWaits

\* Who locked the mutex is still on the way to its unlock.
OwnerLeft(h) ==
    \/ \E u \in Users : mutex[h] = u /\ HoldsOwn(u) /\ req[u].h = h
    \/ \E t \in Threads, k \in DOMAIN fhmap :
            mutex[h] = t /\ HoldsAt(t, k) /\ fhmap[k] = h

\* No mutex is left locked: whatever ends a request, a download or a cycle, who locked
\* a mutex gets to the deferred unlock of s3file.go, or to the unlockFHs of fs.go,
\* unless the process died.
NoLockLeaks ==
    \A h \in Handles : mutex[h] # Nil => pc[mutex[h]] = "dead" \/ OwnerLeft(h)

\* The request got what it wanted from Download, and has not used it yet.
Downloaded(u) ==
    \/ pc[u] = "io" /\ req[u].op # "flush"
    \/ pc[u] = "acquire" /\ req[u].op \in {"read", "write"}
    \/ pc[u] \in {"unlockFHs", "unlock"} /\ ~req[u].err

\* The places of the bytes at each step of a transfer, for one request and one
\* cycle at a time.
DataInv ==
    /\ ~row.local /\ ~row.server => ~stored
    /\ \A s \in Senders :
        /\ pc[s] \in {"lockFHs", "lock", "osstat", "send", "setserver",
                       "setremote"} => row.local
        /\ pc[s] \in {"setserver", "setremote"} => stored /\ object = local
        /\ pc[s] = "setremote" => row.server
        /\ pc[s] \in {"setsize", "hollow"} => ~row.local /\ stored
    /\ \A u \in Users :
        /\ pc[u] \in {"lockFHs", "lock", "fetch"} =>
                ~row.local /\ req[u].server = row.server
        /\ pc[u] = "delete" => ~row.local /\ stored /\ object = local
        /\ pc[u] \in {"clear", "relocal"} => ~row.local /\ ~stored
        /\ Downloaded(u) => row.local \/ stored
=============================================================================

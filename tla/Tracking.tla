------------------------------ MODULE Tracking ------------------------------
(***************************************************************************)
(* How the agent keeps track of the files of the mount: the batch of new   *)
(* entries, the rows, and what creating, renaming and removing a file does *)
(* to them while the cron runs and the daemon stops and starts.            *)
(*                                                                         *)
(* FileTransfer has the handles and their mutexes.  Here no mutex is       *)
(* there: any request, transfer or cycle may run in the middle of another  *)
(* one, as it may if the handle was opened after the transfer began.       *)
(* Requests and cycles are taken apart, one step for each statement,       *)
(* command or system call; the end of a download, moveto with the row that *)
(* follows it, is one step.                                                *)
(***************************************************************************)
EXTENDS Naturals

CONSTANTS
    Users,       \* the goroutines that serve requests
    Senders,     \* the goroutines that run a cycle of the cron
    Paths,       \* the paths of the loopback folder
    Contents,    \* what a file may hold
    Empty,       \* the content of a new file, and of the file that a transfer leaves
    Nil,         \* no file, no object, no row
    GivenUp,     \* what the user wants of a file that is being removed: anything will do
    Ops          \* the requests that the users make

AllOps == {"create", "write", "read", "rename", "unlink", "rebuild"}

\* Some steps are mishaps, and the properties say what holds without them.
\* "content": a failed command counts as done; the object of a removed file is still
\* there; a file takes the path of one in the bucket, or changes places with it; a
\* file is renamed, replaced, removed, fetched or written while a cycle sends it, or
\* written after it left for the bucket; a cycle sends a file that another one sends
\* or sent; a rebuild takes a local file for a remote one.
\* "moved": a file in the bucket is renamed, or only its row is.
\* "entry": the process ends before the batch is stored; a file is created after the
\* signal handler stored it; the batch changes while somebody else works on it; the
\* INSERT of a batch fails; a local file is renamed, and its row is not; a rebuild
\* makes a row that no cycle will look at.
Kinds == {"content", "moved", "entry"}

ASSUME ContentsAssumption == /\ Empty \in Contents
                             /\ Nil \notin Contents
                             /\ GivenUp \notin Contents \cup {Nil}
ASSUME PathsAssumption == Nil \notin Paths
ASSUME OpsAssumption == Ops \subseteq AllOps

VARIABLES
    disk,     \* the content of each path in the loopback folder, or Nil
    object,   \* the content of the object of each path, or Nil
    row,      \* the row of each path, or Nil
    up,       \* is the daemon running?
    batch,    \* orm.batch: how often each path is in it; 2 stands for more, too
    handler,  \* the goroutine that waits for a signal
    cycle,    \* each cycle of the cron: its step, the rows it has still to look at,
              \* the file that it sends and whether that held anything
    req,      \* what each user does: the step, the path, the new path
    seen,     \* the batch that each user read and is going to append to
    wanted,   \* history: what the user has put into each path, Nil if there is no
              \* file, GivenUp if it is being removed
    mishaps   \* history: the kinds of mishaps so far

stored == <<disk, object, row>>
vars == <<disk, object, row, up, batch, handler, cycle, req, seen, wanted, mishaps>>

\* local: is the file here?  ours: has the row the path of the rule (S3RuleTablePath)?
\* sized: is its Size not zero?
Rows == [local : BOOLEAN, ours : BOOLEAN, sized : BOOLEAN]
NewRow == [local |-> TRUE, ours |-> TRUE, sized |-> FALSE]

ASSUME RowsAssumption == Nil \notin Rows

NoBatch == [p \in Paths |-> 0]
Idle == [step |-> "idle", path |-> Nil, dest |-> Nil]
NoCycle == [step |-> "idle", todo |-> {}, file |-> Nil, sized |-> FALSE]

CycleSteps == {"idle", "store", "reset", "select", "next", "upload", "mark",
               "truncate"}
Cycles == [step : CycleSteps, todo : SUBSET Paths, file : Paths \cup {Nil},
           sized : BOOLEAN]
\* A user creates a file (read, append), renames one whose row has to follow (row,
\* moved) or not (move), removes one from the bucket and the disk (content, unlink),
\* reads one (fetch) or writes one (load, pwrite).
RenameSteps == {"row", "moved", "move"}
UnlinkSteps == {"content", "unlink"}
FetchSteps == {"fetch", "load"}
UserSteps == {"idle", "read", "append", "pwrite"}
                 \cup RenameSteps \cup UnlinkSteps \cup FetchSteps
Requests == [step : UserSteps, path : Paths \cup {Nil}, dest : Paths \cup {Nil}]

Init ==
    /\ disk = [p \in Paths |-> Nil]
    /\ object = [p \in Paths |-> Nil]
    /\ row = [p \in Paths |-> Nil]
    /\ up = FALSE
    /\ batch = NoBatch
    /\ handler = "waiting"
    /\ cycle = [s \in Senders |-> NoCycle]
    /\ req = [u \in Users |-> Idle]
    /\ seen = [u \in Users |-> NoBatch]
    /\ wanted = [p \in Paths |-> Nil]
    /\ mishaps = {}

Happens(kinds) == mishaps' = mishaps \cup kinds

If(happened, kind) == IF happened THEN {kind} ELSE {}

\* IsEntryLocal
Local(p) == row[p] = Nil \/ row[p].local

\* What Download leaves at a path: an object that is not there leaves the disk alone,
\* and rclone's exit code is dropped.
Visible(p) ==
    IF disk[p] # Nil /\ ~Local(p) /\ object[p] # Nil THEN object[p] ELSE disk[p]

\* The kernel locks the folders of a request that changes names, and the files that are
\* renamed, removed or written; it does not lock a file that is read.
Held(p) == \E u \in Users : req[u].step # "fetch" /\ p \in {req[u].path, req[u].dest}

Sending(p) == \E s \in Senders : cycle[s].file = p

At(s, step) == cycle[s].step = step
Storing == \E s \in Senders : At(s, "reset")

Renamed(p) == \E u \in Users : /\ req[u].step \in RenameSteps \cup UnlinkSteps
                               /\ p \in {req[u].path, req[u].dest}

-----------------------------------------------------------------------------
(* The daemon.                                                             *)

Boot ==
    /\ ~up
    /\ up' = TRUE
    /\ UNCHANGED <<stored, batch, handler, cycle, req, seen, wanted, mishaps>>

\* The process ends, and its variables with it.
Down ==
    /\ up' = FALSE
    /\ batch' = NoBatch
    /\ handler' = "waiting"
    /\ cycle' = [s \in Senders |-> NoCycle]
    /\ req' = [u \in Users |-> Idle]
    /\ seen' = [u \in Users |-> NoBatch]
    /\ UNCHANGED <<stored, wanted>>

Creating == \E u \in Users : req[u].step \in {"read", "append"}

\* The batch has an entry whose path has no row.
Unstored == \E p \in Paths : batch[p] > 0 /\ row[p] = Nil

Crash ==
    /\ up
    /\ Happens(If(Unstored \/ Creating, "entry"))
    /\ Down

\* One INSERT for the whole batch: a path that is in it twice, or has a row, makes
\* it fail.
Conflict == \E p \in Paths : batch[p] > 1 \/ (batch[p] = 1 /\ row[p] # Nil)

Insert ==
    /\ row' = IF Conflict THEN row
              ELSE [p \in Paths |-> IF batch[p] = 1 THEN NewRow ELSE row[p]]
    /\ Happens(If(Conflict /\ Unstored, "entry"))

\* Mutant: the handler does not store the batch.
SaveNothing ==
    /\ handler = "waiting"
    /\ up
    /\ handler' = "saved"
    /\ UNCHANGED <<stored, up, batch, cycle, req, seen, wanted, mishaps>>

\* catchSignals stores the batch and does not reset it.
SaveBatch ==
    /\ handler = "waiting"
    /\ up
    /\ Insert
    /\ handler' = "saved"
    /\ UNCHANGED <<disk, object, up, batch, cycle, req, seen, wanted>>

\* Stop unmounts, WaitStop returns, and the process ends, also in the middle of a
\* cycle: cron.Stop does not wait for it.
Stop ==
    /\ handler = "saved"
    /\ Happens(If(Creating, "entry"))
    /\ Down

\* The row of a file that the rebuild passes: the one of an old database, or a new one,
\* which carries the UUID of the rule where others carry its path.
FoundRow(p, old) ==
    IF old[p] # Nil THEN old[p]
    ELSE [local |-> TRUE, ours |-> FALSE, sized |-> disk[p] # Empty]

\* The bucket is asked about the rows of size 0.
Asked(p, old) == disk[p] # Nil /\ ~FoundRow(p, old).sized
Answers(p, old) == Asked(p, old) /\ object[p] \notin {Nil, Empty}

\* Mutant: the rows of size 0 are not compared with the bucket.
RebuildBlindly(lost, silent) ==
    LET old == IF lost THEN [p \in Paths |-> Nil] ELSE row
    IN  /\ "rebuild" \in Ops
        /\ ~up
        /\ row' = [p \in Paths |-> IF disk[p] = Nil THEN old[p] ELSE FoundRow(p, old)]
        /\ Happens(If(\E p \in Paths : disk[p] # Nil /\ old[p] = Nil, "entry"))
        /\ UNCHANGED <<disk, object, up, batch, handler, cycle, req, seen, wanted>>

\* The command rebuild, over the old database or over a new one: an empty file, or one
\* that was empty when its row was made, is in the bucket if the bucket has more.
\* "rclone size" fails for the silent ones, and its exit code is dropped.
Rebuild(lost, silent) ==
    LET old == IF lost THEN [p \in Paths |-> Nil] ELSE row
        Finds(p) == Answers(p, old) /\ p \notin silent
    IN  /\ "rebuild" \in Ops
        /\ ~up
        /\ silent \subseteq {p \in Paths : Answers(p, old)}
        /\ row' = [p \in Paths |->
                     IF disk[p] = Nil THEN old[p]
                     ELSE IF Finds(p)
                     THEN [FoundRow(p, old) EXCEPT !.local = FALSE, !.sized = TRUE]
                     ELSE FoundRow(p, old)]
        /\ Happens(If(silent # {} \/ \E p \in Paths : Finds(p) /\ Local(p), "content")
                      \cup If(\E p \in Paths : disk[p] # Nil /\ old[p] = Nil, "entry"))
        /\ UNCHANGED <<disk, object, up, batch, handler, cycle, req, seen, wanted>>

-----------------------------------------------------------------------------
(* Requests on names.                                                      *)

Starts(u, op) == op \in Ops /\ up /\ req[u] = Idle

Goes(u, step, p, q) ==
    req' = [req EXCEPT ![u] = [step |-> step, path |-> p, dest |-> q]]

Create(u, p) ==
    /\ Starts(u, "create")
    /\ ~Held(p)
    /\ disk[p] = Nil
    /\ disk' = [disk EXCEPT ![p] = Empty]
    /\ wanted' = [wanted EXCEPT ![p] = Empty]
    /\ Goes(u, "read", p, Nil)
    /\ UNCHANGED <<object, row, up, batch, handler, cycle, seen, mishaps>>

\* orm.batch = append(orm.batch, entry) reads the batch, then replaces it.
ReadBatch(u) ==
    /\ req[u].step = "read"
    /\ seen' = [seen EXCEPT ![u] = batch]
    /\ Goes(u, "append", req[u].path, Nil)
    /\ UNCHANGED <<stored, up, batch, handler, cycle, wanted, mishaps>>

\* Mutant: the entry is appended twice.
AppendTwice(u) ==
    /\ req[u].step = "append"
    /\ batch' = [seen[u] EXCEPT ![req[u].path] = @ + 2]
    /\ seen' = [seen EXCEPT ![u] = NoBatch]
    /\ req' = [req EXCEPT ![u] = Idle]
    /\ Happens(If(batch # seen[u] \/ Storing \/ handler = "saved", "entry"))
    /\ UNCHANGED <<stored, up, handler, cycle, wanted>>

AppendEntry(u) ==
    /\ req[u].step = "append"
    /\ batch' = [seen[u] EXCEPT ![req[u].path] = IF @ = 0 THEN 1 ELSE 2]
    /\ seen' = [seen EXCEPT ![u] = NoBatch]
    /\ req' = [req EXCEPT ![u] = Idle]
    /\ Happens(If(batch # seen[u] \/ Storing \/ handler = "saved", "entry"))
    /\ UNCHANGED <<stored, up, handler, cycle, wanted>>

\* S3FS.Rename looks whether the row has to follow the file; it never looks at the
\* files of a folder that is renamed.
Rename(u, p, q, inFolder) ==
    /\ Starts(u, "rename")
    /\ p # q /\ ~Held(p) /\ ~Held(q)
    /\ disk[p] # Nil
    /\ inFolder => disk[q] = Nil
    /\ Goes(u, IF inFolder \/ Local(p) THEN "move" ELSE "row", p, q)
    /\ Happens(If(Sending(p) \/ Sending(q), "content"))
    /\ UNCHANGED <<stored, up, batch, handler, cycle, seen, wanted>>

\* The object keeps the name of the old path.  A path has one row: the UPDATE fails
\* if the new path has one.
RenameRow(u) ==
    LET p == req[u].path
        q == req[u].dest
    IN  /\ req[u].step = "row"
        /\ row' = IF row[p] = Nil \/ row[q] # Nil THEN row
                  ELSE [row EXCEPT ![q] = row[p], ![p] = Nil]
        /\ Goes(u, "moved", p, q)
        /\ Happens({"moved"})
        /\ UNCHANGED <<disk, object, up, batch, handler, cycle, seen, wanted>>

RenameFile(u) ==
    LET p == req[u].path
        q == req[u].dest
    IN  /\ req[u].step \in {"move", "moved"}
        /\ disk' = [disk EXCEPT ![q] = disk[p], ![p] = Nil]
        /\ wanted' = [wanted EXCEPT ![q] = wanted[p], ![p] = Nil]
        /\ req' = [req EXCEPT ![u] = Idle]
        /\ Happens(If(req[u].step = "move",
                      IF ~Local(p) THEN "moved"
                      ELSE IF ~Local(q) THEN "content" ELSE "entry"))
        /\ UNCHANGED <<object, row, up, batch, handler, cycle, seen>>

\* renameExchange calls the same S3FS.Rename.
Exchange(u) ==
    LET p == req[u].path
        q == req[u].dest
    IN  /\ req[u].step \in {"move", "moved"}
        /\ disk[q] # Nil
        /\ disk' = [disk EXCEPT ![q] = disk[p], ![p] = disk[q]]
        /\ wanted' = [wanted EXCEPT ![q] = wanted[p], ![p] = wanted[q]]
        /\ req' = [req EXCEPT ![u] = Idle]
        /\ Happens(If(req[u].step = "move" /\ ~Local(q), "content"))
        /\ UNCHANGED <<object, row, up, batch, handler, cycle, seen>>

\* syscall.Rename fails; the row stays where it is now.
RenameFails(u) ==
    /\ req[u].step \in {"move", "moved"}
    /\ req' = [req EXCEPT ![u] = Idle]
    /\ UNCHANGED <<stored, up, batch, handler, cycle, seen, wanted, mishaps>>

\* S3FS.Unlink looks whether there is an object to delete.
Unlink(u, p) ==
    /\ Starts(u, "unlink")
    /\ ~Held(p)
    /\ disk[p] # Nil
    /\ Goes(u, IF Local(p) THEN "unlink" ELSE "content", p, Nil)
    /\ Happens(If(Sending(p), "content"))
    /\ UNCHANGED <<stored, up, batch, handler, cycle, seen, wanted>>

\* DeleteEntry, which follows, hands gorm a string and deletes no row.
UnlinkObject(u) ==
    LET p == req[u].path
    IN  /\ req[u].step = "content"
        /\ object' = [object EXCEPT ![p] = Nil]
        /\ wanted' = [wanted EXCEPT ![p] = GivenUp]
        /\ Goes(u, "unlink", p, Nil)
        /\ UNCHANGED <<disk, row, up, batch, handler, cycle, seen, mishaps>>

\* Neither the exit code nor the error of rclone keeps the file from being removed.
UnlinkObjectFails(u) ==
    /\ req[u].step = "content"
    /\ Goes(u, "unlink", req[u].path, Nil)
    /\ Happens({"content"})
    /\ UNCHANGED <<stored, up, batch, handler, cycle, seen, wanted>>

UnlinkFile(u) ==
    LET p == req[u].path
    IN  /\ req[u].step = "unlink"
        /\ disk' = [disk EXCEPT ![p] = Nil]
        /\ wanted' = [wanted EXCEPT ![p] = Nil]
        /\ req' = [req EXCEPT ![u] = Idle]
        /\ UNCHANGED <<object, row, up, batch, handler, cycle, seen, mishaps>>

-----------------------------------------------------------------------------
(* Requests on bytes: Download, and the write that follows it.             *)

RowLocal(p) == row' = IF Local(p) THEN row ELSE [row EXCEPT ![p].local = TRUE]

\* Download looks at the row.  A read of a local file changes nothing.
Download(u, op, p) ==
    /\ Starts(u, op)
    /\ disk[p] # Nil
    /\ \/ op = "read" /\ ~Local(p) /\ Goes(u, "fetch", p, Nil)
       \/ op = "write" /\ ~Held(p) /\ Goes(u, IF Local(p) THEN "pwrite" ELSE "load", p, Nil)
    /\ UNCHANGED <<stored, up, batch, handler, cycle, seen, wanted, mishaps>>

\* A read is over when its file is here, a write goes on.
Fetched(u) ==
    req' = [req EXCEPT ![u] = IF @.step = "load" THEN [@ EXCEPT !.step = "pwrite"]
                                                 ELSE Idle]

\* moveto, and the row: an object that is not there leaves the disk alone.
Fetch(u) ==
    LET p == req[u].path
    IN  /\ req[u].step \in FetchSteps
        /\ disk' = IF object[p] = Nil THEN disk ELSE [disk EXCEPT ![p] = object[p]]
        /\ object' = [object EXCEPT ![p] = Nil]
        /\ RowLocal(p)
        /\ Fetched(u)
        /\ Happens(If(Sending(p), "content"))
        /\ UNCHANGED <<up, batch, handler, cycle, seen, wanted>>

\* The exit code of moveto is dropped.
FetchExit(u) ==
    /\ req[u].step \in FetchSteps
    /\ RowLocal(req[u].path)
    /\ Fetched(u)
    /\ Happens({"content"})
    /\ UNCHANGED <<disk, object, up, batch, handler, cycle, seen, wanted>>

\* rclone cannot be run, and the request ends with an error.
FetchError(u) ==
    /\ req[u].step \in FetchSteps
    /\ req' = [req EXCEPT ![u] = Idle]
    /\ UNCHANGED <<stored, up, batch, handler, cycle, seen, wanted, mishaps>>

Pwrite(u, c) ==
    LET p == req[u].path
    IN  /\ req[u].step = "pwrite"
        /\ disk' = [disk EXCEPT ![p] = c]
        /\ wanted' = [wanted EXCEPT ![p] = c]
        /\ req' = [req EXCEPT ![u] = Idle]
        /\ Happens(If(Sending(p) \/ ~Local(p), "content"))
        /\ UNCHANGED <<object, row, up, batch, handler, cycle, seen>>

-----------------------------------------------------------------------------
(* The cycles of the sender.                                               *)

CycleTo(s, step) == cycle' = [cycle EXCEPT ![s].step = step]

\* SendRemote returns.
NextFile(s) == cycle' = [cycle EXCEPT ![s] = [NoCycle EXCEPT !.step = "next", !.todo = cycle[s].todo]]

\* The cron fires, also when the last cycle has not ended.
CycleStart(s) ==
    /\ up
    /\ At(s, "idle")
    /\ CycleTo(s, IF batch = NoBatch THEN "select" ELSE "store")
    /\ UNCHANGED <<stored, up, batch, handler, req, seen, wanted, mishaps>>

StoreBatch(s) ==
    /\ At(s, "store")
    /\ Insert
    /\ CycleTo(s, "reset")
    /\ UNCHANGED <<disk, object, up, batch, handler, req, seen, wanted>>

\* The batch is dropped whether it was stored or not.
ResetBatch(s) ==
    /\ At(s, "reset")
    /\ batch' = NoBatch
    /\ CycleTo(s, "select")
    /\ UNCHANGED <<stored, up, handler, req, seen, wanted, mishaps>>

\* The rows of local files; those of another rule are left out.
Select(s) ==
    /\ At(s, "select")
    /\ cycle' = [cycle EXCEPT
                   ![s].step = "next",
                   ![s].todo = {p \in Paths : row[p] # Nil /\ row[p].local /\ row[p].ours}]
    /\ UNCHANGED <<stored, up, batch, handler, req, seen, wanted, mishaps>>

\* SendRemote tests the row that the cycle read, and measures the file.
Send(s, p) ==
    /\ At(s, "next")
    /\ p \in cycle[s].todo
    /\ disk[p] # Nil
    /\ cycle' = [cycle EXCEPT ![s] = [step |-> "upload", todo |-> cycle[s].todo \ {p},
                                      file |-> p, sized |-> disk[p] # Empty]]
    /\ Happens(If(Renamed(p) \/ Sending(p) \/ ~Local(p), "content"))
    /\ UNCHANGED <<stored, up, batch, handler, req, seen, wanted>>

\* copyto of a file that has gone ends with an exit code, which counts as success.
Upload(s) ==
    LET p == cycle[s].file
    IN  /\ At(s, "upload")
        /\ object' = IF disk[p] = Nil THEN object ELSE [object EXCEPT ![p] = disk[p]]
        /\ CycleTo(s, "mark")
        /\ UNCHANGED <<disk, row, up, batch, handler, req, seen, wanted, mishaps>>

UploadExit(s) ==
    /\ At(s, "upload")
    /\ CycleTo(s, "mark")
    /\ Happens({"content"})
    /\ UNCHANGED <<stored, up, batch, handler, req, seen, wanted>>

\* rclone cannot be run.
UploadError(s) ==
    /\ At(s, "upload")
    /\ NextFile(s)
    /\ UNCHANGED <<stored, up, batch, handler, req, seen, wanted, mishaps>>

Mark(s) ==
    LET p == cycle[s].file
    IN  /\ At(s, "mark")
        /\ row' = IF row[p] = Nil THEN row
                  ELSE [row EXCEPT ![p] = [@ EXCEPT !.local = FALSE,
                                                    !.sized = cycle[s].sized]]
        /\ CycleTo(s, "truncate")
        /\ UNCHANGED <<disk, object, up, batch, handler, req, seen, wanted, mishaps>>

Truncate(s) ==
    LET p == cycle[s].file
    IN  /\ At(s, "truncate")
        /\ disk' = IF disk[p] = Nil THEN disk ELSE [disk EXCEPT ![p] = Empty]
        /\ NextFile(s)
        /\ UNCHANGED <<object, row, up, batch, handler, req, seen, wanted, mishaps>>

\* The other rows are skipped: a pattern excludes the path, the rule does not want
\* the file, or it is not there.
CycleEnd(s) ==
    /\ At(s, "next")
    /\ cycle' = [cycle EXCEPT ![s] = NoCycle]
    /\ UNCHANGED <<stored, up, batch, handler, req, seen, wanted, mishaps>>

-----------------------------------------------------------------------------

DaemonNext ==
    \/ Boot \/ Crash \/ SaveBatch \/ Stop
    \/ \E lost \in BOOLEAN, silent \in SUBSET Paths : Rebuild(lost, silent)

NamesNext ==
    \E u \in Users :
        \/ \E p \in Paths : Create(u, p) \/ Unlink(u, p)
        \/ \E p, q \in Paths, inFolder \in BOOLEAN : Rename(u, p, q, inFolder)
        \/ ReadBatch(u) \/ AppendEntry(u)
        \/ RenameRow(u) \/ RenameFile(u) \/ Exchange(u) \/ RenameFails(u)
        \/ UnlinkObject(u) \/ UnlinkObjectFails(u) \/ UnlinkFile(u)

BytesNext ==
    \E u \in Users :
        \/ \E p \in Paths, op \in {"read", "write"} : Download(u, op, p)
        \/ Fetch(u) \/ FetchExit(u) \/ FetchError(u)
        \/ \E c \in Contents : Pwrite(u, c)

CycleNext ==
    \E s \in Senders :
        \/ CycleStart(s) \/ StoreBatch(s) \/ ResetBatch(s) \/ Select(s)
        \/ \E p \in Paths : Send(s, p)
        \/ Upload(s) \/ UploadExit(s) \/ UploadError(s) \/ Mark(s) \/ Truncate(s)
        \/ CycleEnd(s)

Next == DaemonNext \/ NamesNext \/ BytesNext \/ CycleNext

Spec == Init /\ [][Next]_vars

-----------------------------------------------------------------------------
(* Properties.                                                             *)

\* The variables stay in their types: the columns of S3NodeTable, orm.batch and the
\* local variables of the handlers.
TypeOK ==
    /\ disk \in [Paths -> Contents \cup {Nil}]
    /\ object \in [Paths -> Contents \cup {Nil}]
    /\ row \in [Paths -> Rows \cup {Nil}]
    /\ up \in BOOLEAN
    /\ batch \in [Paths -> 0..2]
    /\ handler \in {"waiting", "saved"}
    /\ cycle \in [Senders -> Cycles]
    /\ req \in [Users -> Requests]
    /\ seen \in [Users -> [Paths -> 0..2]]
    /\ wanted \in [Paths -> Contents \cup {Nil, GivenUp}]
    /\ mishaps \subseteq Kinds

ContentSafe == \A p \in Paths : wanted[p] \in {GivenUp, Visible(p)}

\* Whoever reads a file gets what was last put into it: rows that outlive their
\* files, paths that are used again, batches that fail, cycles that overlap, crashes in
\* the middle of a cycle, of a removal or of an upload and a rebuild over the old or a
\* new database make no difference.  Nothing but the steps that Kinds lists under
\* "content" and "moved" spoils a content, the lost write and the second upload of
\* FileTransfer among them.
ContentKept == mishaps \subseteq {"entry"} => ContentSafe

\* A cycle will find the file: it has a row with the path of the rule, or an entry
\* waits, or is about to.
Tracked(p) ==
    \/ row[p] # Nil /\ row[p].ours
    \/ batch[p] > 0
    \/ \E u \in Users : req[u].step \in {"read", "append"} /\ req[u].path = p

\* Every file of the mount has a row that a cycle looks at, or an entry that waits in
\* the batch, as Create, Cycle and catchSignals are to see to: only the steps that Kinds
\* lists under "entry" and "moved" leave a file behind that no cycle will send.
FilesTracked ==
    mishaps \subseteq {"content"} =>
        \A p \in Paths : disk[p] # Nil => Tracked(p)

\* s3file.go:63, "The user asked the real data": after a file was renamed, in whatever
\* tier it was, its bytes are still what the user put there.
RenameKeepsContent ==
    mishaps \subseteq {"moved"} /\ (\A p \in Paths : ~Held(p)) => ContentSafe
=============================================================================

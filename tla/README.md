# A verification project for the s3-wizard agent

The agent (`src/s3-agent`, Go) mounts a FUSE filesystem over a local folder. A
cron sends the files that a rule selects to an S3 bucket and empties the local
copy; a request that needs the bytes brings the file back. This directory holds
TLA+ models of the agent, the TLC configurations that check them on small
instances, and proofs that TLAPS checks.

## 1. Inventory

| Component | Source | State it keeps | Operations |
|---|---|---|---|
| File transfer | `fs.go`, `s3file.go`, `sender.go` | the row of a file, its bytes on disk and in the bucket | `Download`, `SendRemote`, `GetSize`, the handlers of `S3File` |
| Table of open handles | `fs.go` | `fhmap`, a slice of handles for each path; a mutex in each handle | `RegisterFH`, `UnregisterFH`, `lockFHs`, `unlockFHs` |
| Sender | `sender.go` | none; each cycle runs in a goroutine of its own | `Cycle`, `SendRemote`, `DryRunCycle` |
| Database | `sqlite.go` | the rows of the files and of the rule, and `batch`, the entries of new files not stored yet | `GetEntry`, `CreateEntry`, `SendToServer`, `RetriveFromServer`, `RenameEntry`, `DeleteEntry`, rules |
| rclone wrapper | `rclone.go` | the objects of the bucket (external) | `copyto`, `moveto`, `delete`, `size` |
| FUSE nodes | `s3node.go`, `s3node_linux.go` | none | `Create`, `Open`, `Rename`, `Unlink`, `Getattr`, `Setattr`, `CopyFileRange`, pass-through handlers |
| Importer | `importer.go` | the folder to import, the loopback folder | `importFS` at the start of `sync` |
| Rebuild | `main.go` | writes the rows from the loopback folder | `rebuild` |
| Dry run | `main.go`, `sender.go` | objects of a rule of its own | `dry-run` |
| Rules, configuration | `config_model.go`, `config_path.go` | read once | `MustBeRemote`, `IsValid` |
| Start, signals, stop | `main.go`, `fs.go` | `fs.server`, `done` | `Run`, `catchSignals`, `Stop`, `WaitStop` |

**How they interact.** The FUSE server runs each request in a goroutine and the
cron runs each cycle in another one, also when the previous cycle has not ended.
They share the database (each statement is atomic, nothing is a transaction), the
local disk, the bucket, `fhmap` and `orm.batch`. The only mutual exclusion is the
mutex of each open handle: a request locks its own one, a transfer locks all the
registered ones of the path. `fs.mutex` protects only the registration itself.

**What is hard.** Transfers, requests, opens and closes interleave at every mutex,
statement and system call; rows are read before a wait and used after it; rclone
fails and its exit code is lost; `UPDATE` statements fail and nobody looks; the
process ends between any two steps. The list of hazards, each with its line, is
in `PROJECT.json`.

**What makes it correct.**

- Transfer: the content of a file changes only by a request of a user, wherever
  the bytes are; a transfer is alone with the file; `stat` tells the size of the
  content; the bucket holds the whole file before its row turns remote and before
  it is emptied; nobody waits in a circle and no mutex stays locked; a request ends;
  a file the rule selects gets to the bucket.
- Handle table: it lists each open handle once and no closed one.
- Database and tracking: each file of the mount has a row that the cycles look at, or
  an entry that waits to become one; whoever reads a path gets what was last put there,
  also where a row outlived an older file of that name (`DeleteEntry` deletes none).
- Importer: each file ends in the loopback folder with a row, also after a crash.
- Daemon: a signal always ends in an unmounted filesystem and a stored batch.

## 2. Plan

1. `TieredFile`: the abstract promise about one file. *Done.*
2. `FileTransfer`: transfers, requests, handles, crashes. *Done*, with
   `FileTransferProofs`, `HandleProofs` and `RefinementProofs`.
3. `Tracking`: `Create`, the batch, the flush of a cycle, `Rename`, `Unlink`, the
   rule filter, signals, `rebuild`; runs over two paths. *Done*, with `TrackingProofs`.
4. `Importer`: the import with crashes between its steps. *Done*, with
   `ImporterProofs`.
5. What is left of the daemon: the dry run, a signal before `fs.server` is set, the
   mount point that stays behind.
6. Further proofs. *Done*: the upload and the recorded size (`SendProofs`), the
   deadlocks (`DeadlockProofs`), the handles that come and go (`HandleProofs`), the
   import (`ImporterProofs`). *Left*: the modules of point 5 once they are there.

`Tracking` decides which path a row has, `FileTransfer` what happens to the bytes of
one row. `FileTransfer` has the mutexes of the handles and every step between them;
`Tracking` has no mutex, lets requests, transfers and cycles run in the middle of each
other, and says which of these meetings spoil a content. `Importer` runs before the
filesystem is mounted and meets the others only in what it leaves behind.

## 3. The modules

### `TieredFile`

A file has a content (a set of blocks that hold data), a tier (`local` or
`remote`) and the set of requests that are about to change the content. `Archive`
and `Restore` change the tier and nothing else. `Miss` is the one weakness of the
agent that the specification admits: the file may leave for the bucket between
the moment a request found it local and the moment it changes it, and then the
change is lost (see the run `lost_write`). It never alters older data. What a read
returns is not part of it: the content is what one finds who looks where the tier says.

### `FileTransfer`

One tracked file, any number of requests, cycles and handles.

| In the model | In the code |
|---|---|
| `fhmap`, `hstate`, `mutex` | `S3FS.fhmap[path]`, which `S3File` objects exist, their `Mutex` |
| `row` | the `S3NodeTable` row: `Local`, `Server` (empty or not), `Size` |
| `local`, `stored`, `object` | the bytes on disk; is there an object; its bytes |
| `pc`, `req`, `fhs`, `at`, `info` | each goroutine: where it is and its local variables |
| `Start` ... `GetSize` | the FUSE handlers; one action per step between two points where another goroutine may run |
| `GetEntry` ... `SetLocal` | `S3FS.Download`, `RClone.Download`, `SQlite.RetriveFromServer` |
| `Cycle` ... `Hollow` | `S3Sender.Cycle` and `SendRemote`, `RClone.CopyTo`, `SQlite.SendToServer` |
| `RangeFHs` ... `UnlockedAll` | `lockFHs` and `unlockFHs`; the slice is read once, when the loop starts |
| `Open`, `Release`, `ReleasePanic` | `Open` with `RegisterFH`, `Release` with `UnregisterFH` |
| `UpdateFails`, `FetchExit`, `FetchError`, `SendExit`, `SendError` | the failures named by `Failures` |
| `Crash` | the process ends and is started again |

Details that matter and are kept: a chained `Update` of gorm is one statement per
call, and an error ends the chain; the error of the whole chain is dropped;
`moveto` copies and then deletes; a non-zero exit code is reported as success;
`Unlock` gives back a mutex whoever holds it and ends the process if nobody does;
`UnregisterFH` deletes two cells, in place, under the feet of a running loop;
a handler that panics ends the process; `Read` only names the bytes to read and
the server reads them after the unlock.

What is abstracted: a content is a set of blocks and its size their number;
offsets, modes, owners and times are left out; the rule always selects the file
(whether it does depends on the clock); a file is neither renamed nor removed
(see `Tracking`). `local`, `row` and the bucket survive a crash.

`Spec` is the specification: handles come and go at any moment, also under a loop of
`lockFHs`, where `append` may write into a cell that a loop over a longer slice still
comes to, and `slices.Delete` moves the cells. In `SpecQuiet` they come and go only
while nobody runs over them or is between `lockFHs` and `unlockFHs`: nothing in the code
keeps an open or a release out of a transfer, and the properties of the locks need it
(see `open_in_transfer`). In `SpecStable` no handle is opened or closed, and `SpecLive`
adds fairness to it.

### `MCTransfer`

Names the handles for TLC, the two initial tables, and the symmetry of threads
(handles are ordered in `fhmap`, so they are not symmetric).

### `Importer` and `MCImporter`

What `sync` does before it mounts the filesystem: `importFS` with the functions it
calls. One process, one action per system call, database statement or rclone command.

| In the model | In the code |
|---|---|
| `src`, `srcDirs`, `mount` | what is at the mount point (`rule.Src`): files and links, folders, the mount point itself |
| `dst`, `dstDirs` | the same in the loopback folder |
| `object`, `row` | the bucket; the rows, each under the path of the file in the loopback folder |
| `pc`, `dirs`, `todo`, `node`, `info` | where the process is, and its local variables |
| `MakeDir`, `MakeDirFails` | `createDirectories` |
| `Visit`, `Link`, `LinkFails` | `customWalkFile` and the function that `importFS` hands it |
| `CreateEntry` ... `Truncate` | `importFile`, `RClone.Send`, `SQlite.SendToServer` |
| `Create` ... `Remove` | `moveFile` |
| `RemoveDir`, `RemoveMount`, `RemoveFails` | `deleteDirectories`, `os.Remove(rule.Src)` |
| `Crash`, `Start` | the process ends and is started again |

`failed` and `found` are history: which kinds of failures happened, and what the user
had left at the mount point. `NothingLost` and `RowsFindData` speak of the runs
whose failures the code notices; with the two it drops (`exit`, `statement`), both
are violated, because the file is truncated all the same. The rule selects a file
or not at each visit, since its age changes. A folder holds files and links, no
other folder. The model takes from gorm that `FirstOrCreate` with `Preload` fills in
`S3RuleTable`, also for a row that it creates: the UUID in it is a part of the path
in the bucket, and the upload and the later download must agree on it.

### `Tracking` and `MCTracking`

The files of the mount, with their names: what is created, renamed, exchanged and
removed while the cron runs, signals come, and the daemon stops and starts.

| In the model | In the code |
|---|---|
| `disk`, `object` | the bytes under each path in the loopback folder and in the bucket |
| `row` | the `S3NodeTable` row of each path: `Local`, whether `S3RuleTablePath` is the path of the rule, and whether `Size` is 0 |
| `batch` | `orm.batch`: how often each path is in it, where 2 stands for more, too |
| `handler` | the goroutine of `catchSignals` |
| `cycle` | for each cycle that runs: where `Cycle` is, the rows it has still to look at, the file it sends and whether `os.Stat` found it empty |
| `req`, `seen` | where each request is, with its paths; the batch that its `append` read |
| `Boot`, `SaveBatch`, `Stop`, `Crash` | `Run`, `catchSignals`, `Stop` with `WaitStop`, the end of the process |
| `Rebuild` | the command `rebuild`, over the old database (`FirstOrCreate` keeps its rows) or a new one: the walk, `GetSize` for the rows of size 0, which may fail, `SendToServer` |
| `Create`, `ReadBatch`, `AppendEntry` | `S3Node.Create`, `S3FS.Create`: the system call, and the two halves of `append` |
| `Rename`, `RenameRow`, `RenameFile`, `Exchange`, `RenameFails` | `S3FS.Rename` (the look at the row), `RenameEntry`, the system calls; a folder is renamed without a look at its files |
| `Unlink`, `UnlinkObject`, `UnlinkObjectFails`, `UnlinkFile` | `S3FS.Unlink` (the look at the row), `RClone.Remove`, the system call |
| `Download`, `Fetch`, `FetchExit`, `FetchError`, `Pwrite` | `S3FS.Download`: the look at the row; `moveto` and the row, its failures; the write that follows |
| `CycleStart` ... `CycleEnd` | `Cycle` and `SendRemote`, one action per statement, command and system call |

`DeleteEntry` hands gorm a string, which is an error and deletes nothing: rows
outlive their files, and the model keeps them. An `INSERT` of the batch is one
statement and fails as a whole when a path has a row or is in it twice; `append` is a read and a
write, so two goroutines lose entries. A request that
changes names holds its folders in the kernel, and one that writes holds its file
(`Held`), but a read holds nothing and a cycle asks nobody. The cron starts each cycle
in a goroutine of its own, so that cycles overlap, with one batch between them.
`Local` takes a missing row for a local file, as `IsEntryLocal` does.

`wanted` and `mishaps` are history: what the user put into each path, and which
kinds of steps happened after which the code breaks a promise. `Kinds` lists them;
the action that takes such a step records it. A behaviour may have any number of
mishaps of one kind. `ContentKept` says that without "content" and "moved" nobody
reads anything but what was last put there; `FilesTracked` says that without "entry"
and "moved" each file has a row that a cycle looks at, or an entry that waits. The lost
write and the second upload of `FileTransfer` are mishaps of the kind "content" here,
and so are a rename, a removal or a download in the middle of a send and a rebuild that
takes a local file for a remote one; a row that `rebuild` makes, which carries the UUID
of the rule where `Cycle` looks for its path, is one of the kind "entry". No step is a
mishap without need: for each place where an action records one TLC finds a
counterexample to `ContentKept` or `FilesTracked` when the place stops recording it.

A handle opened in the middle of a transfer is not locked by it, so `Tracking` lets any
request, transfer and cycle run in the middle of any other, and takes them apart at each
statement and command; the two exceptions are `moveto` with the `UPDATE` that follows
it, and the three `UPDATE` statements of `SendToServer`, which are one step each
(`FileTransfer` has their insides). Left out are the sizes but for 0, the handles, the
value of `Server` (a download whose row names no server yet is `FetchExit`), a folder
renamed while a file in it is written, and the torn slice header that the data race on
`orm.batch` may produce.

## 4. The runs

| Run | Instance | What it shows |
|---|---|---|
| `transfer_serial` | 1 request, 1 cycle, 2 handles, 2 blocks, 2 crashes, failures `noexec` and `truncate`; all requests except `copy` and the truncation of a path | `Refines` (the file is a `TieredFile`), `GetattrHonest`, `DataInv`, `TypeOK` |
| `transfer_locks` | 2 requests, 2 cycles, 3 handles, two of them open at the start; `read`, `ftruncate` and `truncate`; `SpecQuiet` | `TransfersExclusive`, `UnlocksOwn`, `LockInv`, `NoLockLeaks` while handles are opened and released between the transfers |
| `transfer_handles` | 3 handles that open and close at any moment, 1 request (`getattr`, `flush`, `copy`), 1 cycle, failures `exit` and `update`, 1 crash | `RegisteredOpen` |
| `transfer_live` | 2 writers, 1 cycle, 2 handles, failure `noexec` | `RequestsComplete`, `Drained`, `NoDeadlock`, `TurnsRemoteWhole`, `SentBeforeEmptied`, `DeletesFetched`, and that no state is without a next one |
| `import_crash` | 2 files, 1 link, 1 folder, each there or not; all failures, any number of crashes | `NothingLost`, `RowsFindData`, `TypeOK`, no deadlock |
| `tracking` | 2 paths, 2 users, 2 cycles, 2 contents, all requests, within the constraint `Focus`; crashes, restarts and rebuilds without bound | `ContentKept`, `FilesTracked`, `TypeOK`, no deadlock |
| `lost_write` | violation of `WritesReachData` | a write after `Download` meets an emptied file |
| `open_in_transfer` | violation of `TransfersExclusive` under `Spec` | a handle opened during a transfer is not locked |
| `truncate_deadlock` | violation of `NoSelfDeadlock` | truncating an open remote file waits for itself |
| `cycles_overlap` | violation of `SendsLocalFile` | a second cycle uploads the emptied file over its data |
| `import_link` | violation of `SourceEmptied` | a link stays at the mount point, and the daemon does not start |
| `rename_remote` | violation of `RenameKeepsContent` | after a rename of a file in the bucket, or of its folder, the user finds it empty |

**Bounds.** Two blocks are enough to tell empty, partial and full contents; two
handles to make a loop of `lockFHs` stop half way; three for `UnregisterFH` to
delete a neighbour and leave one. Two threads of a kind give every pairwise race.
`MaxCrashes` bounds the restarts: two let a crash hit the recovery from a crash.
Nothing else is bounded; the sets of states are finite as they are. In `import_crash`
two files are enough for an import to stop with either of them moved first.
In `tracking` two paths give a rename its source and its destination, and every file
meets the row that another one left behind. Two contents tell data from an emptied
file. Users, cycles and paths are symmetric. All of it at once is too much for TLC: the
constraint `Focus` explores the union of three parts. `OnePath`: one path is in use, with
two requests and two cycles on it, stops, crashes and rebuilds, and mishaps of one of
the kinds "entry" and "content". `OneEach`: both paths, one request and one cycle at a
time, no stop and no rebuilt row, and mishaps of the kind "entry" only. `Creations`: two
files are created at the same time while two cycles store the batch. A behaviour that
leaves the union is cut there. The proofs cut none.
`CHECK_DEADLOCK FALSE` stands where the system really may stop: a fatal error or a
panic ends the process, a file that is remote leaves the sender without work when
no request is made, and `ftruncate` blocks for ever. `transfer_live`,
`import_crash` and `tracking` check deadlock.

**Where `Refines` stops.** Each restriction of `transfer_serial` is needed; TLC
finds a counterexample when it is lifted. `exit`: a failed `moveto` counts as a
success, and the empty file becomes the content. `update`: the row stays local and
the file is emptied. Two cycles: the second uploads the emptied file. `copy` and
`truncate`: they change the file in the middle of a transfer. Two requests: the
second one may use a row that named no server yet, its `moveto` fails unseen, and
the empty file becomes the content. An open or a release during a transfer: its
handle is not locked, and `unlockFHs` unlocks it all the same.

**Where `NoDeadlock` stops.** With `ftruncate` a goroutine waits for the mutex that it
holds itself (`truncate_deadlock`). With handles that are opened and closed (`Spec`,
three handles) TLC finds another circle of one: a cycle has read the slice of three
handles, the first is released, `slices.Delete` moves the third one into its place
and leaves it in the last, and the loop locks it twice.

**Fairness.** A goroutine that can run does (weak fairness of its steps). A
goroutine that waits for a `sync.Mutex` gets it even if others keep taking it:
after a millisecond it is handed the lock directly (strong fairness of `Acquire`
and `LockFH`). The cron fires again and again (weak fairness of `Cycle`). An
upload that is tried for ever succeeds at last (strong fairness of `SendCopy`):
without it a server that never answers keeps the file local, which the code
cannot prevent. `ftruncate` is left out of `transfer_live`: it deadlocks.

**Findings.** The six violations are disagreements between the code and its own
comments; `PROJECT.json` quotes them.

## 5. The proofs

`FileTransferProofs` proves, for every set of threads, handles and blocks, every
set of failures and every number of crashes:

- `TypeCorrect`: `Spec => []TypeOK`, with handles that come and go.
- `StableInvariant`: `SpecStable => [](TypeOK /\ StableInv)`, on which `SendProofs` and
  `RefinementProofs` rest: `LockInv`, and what is true besides while no handle is opened
  or closed: the table stays, no process dies, and a truncation of a remote file never
  gets past its own mutex (`TruncateWaits`), which keeps `setAttr` from unlocking twice.

`HandleProofs` proves about handles that come and go:

- `AlwaysRegisteredOpen`: `Spec => []RegisteredOpen`. It is inductive with `TypeOK`; the
  work is in the lemmas on sequences: which cells are left after `DeleteTwo`
  (`DeleteTwoCells`), that none is there twice and that the released handle is gone
  (`DeleteTwoInjective`), and the same for `Append` (`AppendInjectiveSeq`). It speaks of
  the table: it does not say that every open handle is there (`slices.Delete` drops the
  neighbour of a released one), nor that a running loop never meets a handle twice.
- `LockInvariant`: `SpecQuiet => [](TypeOK /\ RegisteredOpen /\ LockInv)`, for handles
  that come and go between the transfers. `LockInv` says which mutexes a thread holds at
  each step of its loops (`LoopLocksHeld`) and of its request (`OwnLocksHeld`), that a
  loop ranges over the whole table (`LoopShape`), which steps each request takes
  (`RequestShape`), and that a truncation gets past the loop only if the table lacks its
  handle (`TruncateOutside`).
- `Exclusive` and `UnlockSafe`: mutual exclusion of transfers and the ownership of every
  mutex that `unlockFHs` gives back, under `SpecQuiet`. Neither is inductive; both follow
  from `LockInv`. Under `Spec` both fail: a handle registered in the middle of a transfer
  is in the slice that `unlockFHs` ranges over and not in the one of `lockFHs`, and if
  nobody holds it the runtime ends the process.

`DeadlockProofs` proves, for the same values and `SpecQuiet`:

- `LocksGivenBack`: `NoLockLeaks`. `LockInv` says which mutexes a thread holds;
  `NoLockLeaks` is the converse, that every mutex which is locked has an owner whose
  next unlock is still to come, unless the process died, and is inductive on top of it. No
  early return, error or failed statement leaves a mutex behind.
- `DeadlockFree`: `NoDeadlock`, if no request truncates a handle. A thread at its own
  handle (`acquire`) holds nothing; a thread in `lockFHs` holds the handles before its
  position. So whoever waits, waits for a thread that runs or for one that is further
  in the same slice (`WaitsForward`), and the one of a set that is furthest waits for
  nobody of it (`SmallestNumber`, by the well-foundedness of the numbers).
- `AlwaysMoves`: with both, as long as there is something to do, some thread under way
  waits for nothing that is held. This is the safety half of `RequestsComplete`.

`SendProofs` proves, for any number of requests and of cycles at a time and of crashes,
under the hypothesis `Guarded` (no `copy` and no truncation of a path, no `exit` and no
`update`):

- `CopyInvariant`, with the inductive `Sent` and `Fetched`. `Sent`: after the upload `object` is the file
  as long as the row is local, and what is left on the disk is a part of it afterwards;
  the row names a server before it turns remote. The case of two cycles over a file
  without open handles, which nothing excludes, is the reason for `local \subseteq
  object` in place of an equality. `Fetched`: between the copy and the deletion of
  `moveto`, the file has all the bytes of the object.
- `EmptiesOnlySent` and `TurnsOnlyWhole`: `SentBeforeEmptied` and the action property
  `TurnsRemoteWhole`. So overlapping cycles and requests never lose data by the order of
  the steps of `SendRemote`. They do lose it in other ways: a second cycle sends the
  emptied file (`cycles_overlap`), a write comes after the file left (`lost_write`), a
  second download works with a row that is no longer right ("Where `Refines` stops").
- `DeletesOnlyFetched`: the action property `DeletesFetched`. A download takes an object
  out of the bucket only once all its bytes are on the disk.
- `GetattrAlwaysHonest`: `GetattrHonest`, for one request at a time (`SoleUser`) and any
  number of cycles. The inductive `SizeInv` holds until the first crash, because a crash
  after `Local` and before `Size` is stored leaves the old size in the row; and for a
  file with an open handle, since only its mutex keeps a cycle away from `Getattr`.
  It ties the size that `SendRemote` measured (`Measured`) to the bytes it uploads
  (`Uploaded`), and the size in the row to the object outside the steps between which
  both change (`RemoteRow`, `Marking`).

Each restriction in `Guarded` and `SoleUser` is needed: on the instance of
`transfer_serial` TLC finds a counterexample to `GetattrHonest` without any of them. Of
the other two, `exit` and `copy` break `TurnsRemoteWhole`, `update` breaks
`SentBeforeEmptied`, and a truncation of the path makes the object longer than the file and breaks
`DeletesFetched`.

`RefinementProofs` proves, under the hypothesis `Serial` (`Guarded`, at most one request
and one cycle):

- `DataInvariant`: where the bytes are at each step, on top of `StableInv`, which
  keeps a cycle out while a request transfers or changes the file.
- `Refinement`: every step of `SpecStable` is a step of `TieredFile` or a stutter.

The hypotheses are those of `transfer_serial`; section 4 says what happens without
each of them.

`TrackingProofs` proves, for every set of users, cycles, paths and contents:

- `ShapeInvariant` and `TypeCorrect`: a request that has begun has its paths and no
  other request has them but to read (`RequestsApart`, from what the kernel holds), a
  cycle has a file exactly while it sends it (`SendsOne`), and nothing in memory survives
  the process (`MemoryGone`). `TypeOK` is not inductive without it: a rename of no path
  at all would leave the types.
- `ContentAlwaysKept`: `ContentKept`, by the inductive `ContentInv`. The file that is
  being sent is there, one cycle sends it, and no request is about to take it away
  (`SendsAlone`); it has its row (`SendsRows`) and is local (`SendsLocal`); it is marked
  when its object holds its content and emptied when it is marked (`MarksSent`,
  `TruncatesMarked`); what is left on the disk of a file in the bucket is nothing or the
  same bytes (`RemoteTwin`), which is what the crash between the mark and the truncation,
  the removal and the rebuild rely on. What a request is about to fetch is still in the
  bucket, or another one fetched it, or a cycle has sent it again and not marked it yet
  (`FetchesRemote`); a file is removed when its object is gone, and renamed without its
  row when it is local (`NamesLocal`).
- `FilesAlwaysTracked`: `FilesTracked`, by the inductive `TrackInv`: once the batch was
  stored, its paths have rows, until the reset (`BatchStored`), which cycles that overlap
  on the batch need; every row is one that a cycle looks at (`RowsOurs`); a request that
  renames, writes or fetches finds its file and its row (`RequestsFind`).

Both are stronger than the run: the numbers of users, cycles and files are any, and the
constraint `Focus` plays no part.

`ImporterProofs` proves, for every set of files, links and folders, all failures and any
number of crashes:

- `ImportInvariant`: `TypeOK`, `Shape` and `DataInv` are inductive together. `Shape`:
  the walk visits nodes that are there (`VisitsFound`), a file that is sent has its row
  (`SendsRow`), and the filesystem is mounted over an empty mount point (`MountsOver`).
  `DataInv` speaks of the imports whose failures the code noticed (`Noticed`, which the
  properties name too): a remote row is right whichever process wrote it (`RemoteSent`),
  a file that is empty at the mount point was sent before (`EmptiedSent`), one that left
  it has its row and its data (`MovedWhole`), the marks follow the upload
  (`MarksSent`) and the removal follows the copy (`RemovesCopied`). A crash at any step
  meets these and nothing weaker, which is why the next import may start from them.
- `TypeCorrect`, `NothingEverLost` and `RowsAlwaysFindData`: the properties of the run
  `import_crash`, none of which is inductive.
- `MountsComplete`: once the filesystem is mounted, every file that the user had has
  a row, and its data is where the row says.

Checked by TLC only: `RequestsComplete` and `Drained`, because liveness is out of the
prover's reach. `TransfersExclusive`, `UnlocksOwn`, `NoDeadlock` and the properties of the
bytes are not theorems of `Spec`, where handles come and go in the middle of a transfer:
`open_in_transfer` and the circle in section 4 show that they do not hold there.

## 6. Not modelled

- `doSelfUpdate` (a library call before anything runs) and the macOS variants.
- The dry run (planned), the evaluation of the rule (it depends on the clock: a choice
  in every model) and the parsing of the configuration.
- A signal before `fs.server` is set, and the mount point that stays behind after a
  failed `Unmount` (planned).
- The paths in the bucket and in the targets of links; hard links and `mknod`, whose
  files have no entry; a handle that is open across a rename and keeps the old path.
- Extended attributes, folders and special files: system calls passed through.

------------------------------ MODULE Importer ------------------------------
(***************************************************************************)
(* How the daemon, before it mounts the filesystem, moves the files that   *)
(* it finds at the mount point into its loopback folder, sending on the    *)
(* way those that the rule selects.  The process may end between any two   *)
(* steps and be started again.                                             *)
(*                                                                         *)
(* One action is one system call, one statement of the database, or one    *)
(* rclone command.  Nobody else changes the two folders meanwhile.         *)
(***************************************************************************)
EXTENDS Integers

CONSTANTS
    Files,     \* the regular files at the mount point
    Links,     \* the symbolic links
    Folders,   \* the folders that may be there
    Home,      \* the folder of each node, or Nil
    Nil

Nodes == Files \cup Links

ASSUME HomeAssumption == Home \in [Nodes -> Folders \cup {Nil}]
ASSUME NodesAssumption == Files \cap Links = {} /\ Nil \notin Nodes \cup Folders

VARIABLES
    src,      \* the bytes of each node at the mount point
    dst,      \* the bytes of each node in the loopback folder
    object,   \* the bytes of each file in the bucket
    row,      \* the row of each file, under its path in the loopback folder, or Nil
    srcDirs,  \* the folders at the mount point
    dstDirs,  \* the folders in the loopback folder
    mount,    \* does the mount point exist as a plain folder?
    pc,       \* the next step of the process, "off" when none runs
    dirs,     \* the folders that this process has not made yet
    todo,     \* the nodes that the walk has not visited
    node,     \* the node it visits
    info,     \* the size of that node when its folder was read
    failed,   \* history: the kinds of failures that happened so far
    found     \* history: the nodes that were there when the daemon first started

folders == <<srcDirs, dstDirs, mount>>
bytes == <<src, dst, object>>
local == <<dirs, todo, node, info>>
vars == <<src, dst, object, row, srcDirs, dstDirs, mount, pc, dirs, todo, node,
          info, failed, found>>

\* A file is absent, has its data, has been emptied, or has a part of its data.
Bytes == {"none", "data", "empty", "part"}
Size(b) == IF b = "data" THEN 1 ELSE 0

\* "exit": rclone ends with a non-zero exit code.  "error": rclone cannot be run, or
\* a system call fails.  "statement": a statement of the database fails.
Kinds == {"exit", "error", "statement"}

Steps == {"off", "mkdir", "walk", "link", "entry", "rule", "send", "server",
          "remote", "size", "truncate", "create", "copy", "remove", "rmdir",
          "mounted"}

Rows == [local : BOOLEAN, server : BOOLEAN, size : Nat] \cup {Nil}

ASSUME RowsAssumption == Nil \notin [local : BOOLEAN, server : BOOLEAN, size : Nat]

Init ==
    /\ srcDirs \in SUBSET Folders
    /\ found \in SUBSET {n \in Nodes : Home[n] \in srcDirs \cup {Nil}}
    /\ dstDirs = {}
    /\ mount = TRUE
    /\ src = [n \in Nodes |-> IF n \in found THEN "data" ELSE "none"]
    /\ dst = [n \in Nodes |-> "none"]
    /\ object = [f \in Files |-> "none"]
    /\ row = [f \in Files |-> Nil]
    /\ pc = "off"
    /\ dirs = {}
    /\ todo = {}
    /\ node = Nil
    /\ info = 0
    /\ failed = {}

\* The process is gone, and its variables with it.
Exit ==
    /\ pc' = "off"
    /\ dirs' = {}
    /\ todo' = {}
    /\ node' = Nil
    /\ info' = 0

Happens(kind) == failed' = failed \cup {kind}

\* importFS returns an error, and the daemon ends with it.
Fails ==
    /\ Exit
    /\ Happens("error")
    /\ UNCHANGED <<bytes, row, folders>>

Goto(step) == pc' = step /\ UNCHANGED <<local, failed>>

-----------------------------------------------------------------------------
(* importFS.                                                               *)

\* The daemon starts; without a folder at the mount point it mounts at once.
Start ==
    /\ pc = "off"
    /\ pc' = IF mount THEN "mkdir" ELSE "mounted"
    /\ dirs' = srcDirs
    /\ UNCHANGED <<bytes, row, folders, todo, node, info, failed>>

\* createDirectories: a folder that exists already is an error.
MakeDir(d) ==
    /\ pc = "mkdir"
    /\ d \in dirs
    /\ d \notin dstDirs
    /\ dstDirs' = dstDirs \cup {d}
    /\ dirs' = dirs \ {d}
    /\ UNCHANGED <<bytes, row, srcDirs, mount, pc, todo, node, info, failed>>

MakeDirFails == pc = "mkdir" /\ dirs \cap dstDirs # {} /\ Fails

\* customWalkFile visits every node that is there.
StartWalk ==
    /\ pc = "mkdir"
    /\ dirs = {}
    /\ todo' = {n \in Nodes : src[n] # "none"}
    /\ pc' = "walk"
    /\ UNCHANGED <<bytes, row, folders, dirs, node, info, failed>>

Visit(n) ==
    /\ pc = "walk"
    /\ n \in todo
    /\ todo' = todo \ {n}
    /\ node' = n
    /\ info' = Size(src[n])
    /\ pc' = IF n \in Links THEN "link" ELSE "entry"
    /\ UNCHANGED <<bytes, row, folders, dirs, failed>>

\* A link is made anew in the loopback folder, and the old one stays.
Link ==
    /\ pc = "link"
    /\ dst[node] = "none"
    /\ dst' = [dst EXCEPT ![node] = "data"]
    /\ Goto("walk")
    /\ UNCHANGED <<src, object, row, folders>>

LinkFails == pc = "link" /\ dst[node] # "none" /\ Fails

EndWalk ==
    /\ pc = "walk"
    /\ todo = {}
    /\ Goto("rmdir")
    /\ UNCHANGED <<bytes, row, folders>>

\* deleteDirectories
RemoveDir(d) ==
    /\ pc = "rmdir"
    /\ d \in srcDirs
    /\ \A n \in Nodes : Home[n] = d => src[n] = "none"
    /\ srcDirs' = srcDirs \ {d}
    /\ Goto("rmdir")
    /\ UNCHANGED <<bytes, row, dstDirs, mount>>

\* os.Remove(rule.Src), and the filesystem is mounted.
RemoveMount ==
    /\ pc = "rmdir"
    /\ srcDirs = {}
    /\ \A n \in Nodes : src[n] = "none"
    /\ mount' = FALSE
    /\ Goto("mounted")
    /\ UNCHANGED <<bytes, row, srcDirs, dstDirs>>

RemoveFails == pc = "rmdir" /\ (\E n \in Nodes : src[n] # "none") /\ Fails

-----------------------------------------------------------------------------
(* importFile.  The rows are under paths of the loopback folder: the query *)
(* by the old path finds none, and the file is entered under its new one.  *)

\* CreateEntry is FirstOrCreate: a row left by an earlier process stays.  Its Preload
\* fills in the rule, whose UUID is a part of the path in the bucket.
CreateEntry ==
    /\ pc = "entry"
    /\ row' = IF row[node] # Nil THEN row
              ELSE [row EXCEPT ![node] =
                        [local |-> TRUE, server |-> FALSE, size |-> info]]
    /\ Goto("rule")
    /\ UNCHANGED <<bytes, folders>>

\* CreateEntry returns nil and the error is gone: a file that the rule keeps is
\* moved without a row, and Send follows the nil and ends the process.
CreateEntryFails ==
    /\ pc = "entry"
    /\ Happens("statement")
    /\ \/ pc' = "create" /\ UNCHANGED local
       \/ Exit
    /\ UNCHANGED <<bytes, row, folders>>

\* MustBeRemote depends on the clock.
Select(remote) ==
    /\ pc = "rule"
    /\ Goto(IF remote THEN "send" ELSE "create")
    /\ UNCHANGED <<bytes, row, folders>>

\* Send does not upload a file whose row says that it is remote.
Send ==
    /\ pc = "send"
    /\ object' = IF row[node].local THEN [object EXCEPT ![node] = src[node]]
                 ELSE object
    /\ Goto("server")
    /\ UNCHANGED <<src, dst, row, folders>>

\* CopyTo reports a non-zero exit code as success.
SendExit ==
    /\ pc = "send"
    /\ row[node].local
    /\ Happens("exit")
    /\ pc' = "server"
    /\ UNCHANGED <<bytes, row, folders, local>>

\* rclone cannot be run.
SendFails == pc = "send" /\ row[node].local /\ Fails

\* SendToServer: three statements.
SetServer ==
    /\ pc = "server"
    /\ row' = [row EXCEPT ![node].server = TRUE]
    /\ Goto("remote")
    /\ UNCHANGED <<bytes, folders>>

\* Mutant: the zero value of Local is left out of the update.
SetRemoteSkipsZero ==
    /\ pc = "remote"
    /\ Goto("size")
    /\ UNCHANGED <<bytes, row, folders>>

SetRemote ==
    /\ pc = "remote"
    /\ row' = [row EXCEPT ![node].local = FALSE]
    /\ Goto("size")
    /\ UNCHANGED <<bytes, folders>>

\* Mutant: the size is off by one.
SetSizeShort ==
    /\ pc = "size"
    /\ row' = [row EXCEPT ![node].size = info - 1]
    /\ Goto("truncate")
    /\ UNCHANGED <<bytes, folders>>

SetSize ==
    /\ pc = "size"
    /\ row' = [row EXCEPT ![node].size = info]
    /\ Goto("truncate")
    /\ UNCHANGED <<bytes, folders>>

\* A failed statement ends the chain and its error is dropped.
StatementFails ==
    /\ pc \in {"server", "remote", "size"}
    /\ Happens("statement")
    /\ pc' = "truncate"
    /\ UNCHANGED <<bytes, row, folders, local>>

Truncate ==
    /\ pc = "truncate"
    /\ src' = [src EXCEPT ![node] = "empty"]
    /\ Goto("create")
    /\ UNCHANGED <<dst, object, row, folders>>

-----------------------------------------------------------------------------
(* moveFile.                                                               *)

\* os.Create empties a file that an earlier process left.
Create ==
    /\ pc = "create"
    /\ dst' = [dst EXCEPT ![node] = "empty"]
    /\ Goto("copy")
    /\ UNCHANGED <<src, object, row, folders>>

\* Mutant: the error of io.Copy is not looked at.
CopyPartIgnored ==
    /\ pc = "copy"
    /\ src[node] = "data"
    /\ dst' = [dst EXCEPT ![node] = "part"]
    /\ Goto("remove")
    /\ UNCHANGED <<src, object, row, folders>>

Copy ==
    /\ pc = "copy"
    /\ dst' = [dst EXCEPT ![node] = src[node]]
    /\ Goto("remove")
    /\ UNCHANGED <<src, object, row, folders>>

\* io.Copy writes a part of the file, and an error or the end of the process stops it.
CopyPart ==
    /\ pc = "copy"
    /\ src[node] = "data"
    /\ dst' = [dst EXCEPT ![node] = "part"]
    /\ Exit
    /\ Happens("error")
    /\ UNCHANGED <<src, object, row, folders>>

Remove ==
    /\ pc = "remove"
    /\ src' = [src EXCEPT ![node] = "none"]
    /\ Goto("walk")
    /\ UNCHANGED <<dst, object, row, folders>>

\* A system call on the file fails.
CallFails == pc \in {"truncate", "create", "remove"} /\ Fails

\* The process ends.
Crash ==
    /\ pc # "off"
    /\ Exit
    /\ UNCHANGED <<bytes, row, folders, failed>>

-----------------------------------------------------------------------------

FoldersNext ==
    \/ Start \/ MakeDirFails \/ StartWalk \/ EndWalk
    \/ \E d \in Folders : MakeDir(d) \/ RemoveDir(d)
    \/ RemoveMount \/ RemoveFails

NodeNext ==
    \/ \E n \in Nodes : Visit(n)
    \/ Link \/ LinkFails
    \/ CreateEntry \/ CreateEntryFails
    \/ \E remote \in BOOLEAN : Select(remote)
    \/ Send \/ SendExit \/ SendFails
    \/ SetServer \/ SetRemote \/ SetSize \/ StatementFails
    \/ Truncate \/ Create \/ Copy \/ CopyPart \/ Remove \/ CallFails

Next == (FoldersNext \/ NodeNext \/ Crash) /\ UNCHANGED found

Spec == Init /\ [][Next]_vars

-----------------------------------------------------------------------------
(* Properties.                                                             *)

\* The variables stay in their types (the local variables of importFS and
\* importFile, and the columns of S3NodeTable).
TypeOK ==
    /\ src \in [Nodes -> Bytes]
    /\ dst \in [Nodes -> Bytes]
    /\ object \in [Files -> Bytes]
    /\ row \in [Files -> Rows]
    /\ srcDirs \subseteq Folders /\ dstDirs \subseteq Folders
    /\ mount \in BOOLEAN
    /\ pc \in Steps
    /\ dirs \subseteq Folders
    /\ todo \subseteq Nodes
    /\ node \in Nodes \cup {Nil}
    /\ info \in Nat
    /\ failed \subseteq Kinds
    /\ found \subseteq Nodes

\* Every failure so far was noticed: rclone's exit codes and the errors of the
\* database are dropped.
Noticed == failed \subseteq {"error"}

\* Wherever the import stops, and however often it starts again, the data of each
\* file is at the mount point, in the loopback folder or in the bucket: importFile
\* truncates and removes the one copy that the user had.
NothingLost ==
    Noticed => \A f \in Files \cap found : "data" \in {src[f], dst[f], object[f]}

\* The row of a file that left the mount point says where its data is, whichever
\* process entered it: the mounted filesystem finds the data.
RowsFindData ==
    Noticed =>
        \A f \in Files \cap found : src[f] = "none" =>
            /\ row[f] # Nil
            /\ IF row[f].local THEN dst[f] = "data"
                               ELSE row[f].server /\ object[f] = "data"

\* importer.go:42, "Must return a rule.Src path empty": when the walk over the mount
\* point ends without an error, nothing is left there.
SourceEmptied == pc = "rmdir" => \A n \in Nodes : src[n] = "none"
=============================================================================

--------------------------- MODULE ImporterProofs ---------------------------
(***************************************************************************)
(* Proofs about Importer, for every set of files, links and folders, for   *)
(* all failures and for every number of crashes.                           *)
(***************************************************************************)
EXTENDS Importer, TLAPS

USE HomeAssumption, NodesAssumption, RowsAssumption

-----------------------------------------------------------------------------
(* The inductive invariants.                                               *)

ImportSteps == {"entry", "rule", "send", "server", "remote", "size", "truncate",
                "create", "copy", "remove"}
SendSteps == {"send", "server", "remote", "size", "truncate"}

\* The walk visits nodes that are there, each of them once, and imports files only.
VisitsFound ==
    /\ \A n \in Nodes : src[n] # "none" => n \in found
    /\ \A n \in todo : src[n] # "none"
    /\ pc = "link" => node \in Links
    /\ pc \in ImportSteps => node \in Files /\ node \notin todo /\ src[node] # "none"

\* importFile sends a file that has its row.
SendsRow == pc = "rule" \/ pc \in SendSteps => row[node] # Nil

\* The filesystem is mounted over an empty mount point only.
MountsOver ==
    /\ pc = "mounted" => ~mount
    /\ ~mount => pc \in {"off", "mounted"} /\ \A n \in Nodes : src[n] = "none"

Shape == VisitsFound /\ SendsRow /\ MountsOver

Imported == Files \cap found

\* A row that says that its file is remote is right, whoever wrote it.
RemoteSent ==
    \A f \in Imported : row[f] # Nil /\ ~row[f].local =>
        row[f].server /\ object[f] = "data"

\* A file at the mount point is whole, or it was emptied after it was sent.
EmptiedSent ==
    \A f \in Imported :
        /\ src[f] # "part"
        /\ src[f] = "empty" => row[f] # Nil /\ ~row[f].local

\* A file that was moved has its row, and its data if it is local.
MovedWhole ==
    \A f \in Imported : src[f] = "none" =>
        row[f] # Nil /\ (row[f].local => dst[f] = "data")

\* SendToServer marks what Send uploaded, and the truncation finds the mark.
MarksSent ==
    /\ pc \in {"server", "remote"} => object[node] = "data"
    /\ pc = "remote" => row[node].server
    /\ pc \in {"size", "truncate"} => ~row[node].local

\* The source is removed when its copy is complete and has a row.
RemovesCopied ==
    /\ pc \in {"create", "copy", "remove"} => row[node] # Nil
    /\ pc = "remove" => dst[node] = src[node]

DataParts == RemoteSent /\ EmptiedSent /\ MovedWhole /\ MarksSent /\ RemovesCopied

\* Where the data of each file is, as long as the code noticed every failure.
DataInv == Noticed => DataParts

-----------------------------------------------------------------------------
(* Types, and the shape of an import.                                      *)

\* A row whose server is set stays a row, and is as local as it was.
LEMMA ServerUpdate ==
    ASSUME NEW r \in Rows \ {Nil}
    PROVE  \E q \in Rows \ {Nil} :
              q = [r EXCEPT !.server = TRUE] /\ q.server /\ q.local = r.local
<1>1. /\ [r EXCEPT !.server = TRUE] \in Rows \ {Nil}
      /\ [r EXCEPT !.server = TRUE].server
      /\ [r EXCEPT !.server = TRUE].local = r.local
  BY DEF Rows
<1> QED
  BY <1>1

\* A row that is made remote keeps its server.
LEMMA RemoteUpdate ==
    ASSUME NEW r \in Rows \ {Nil}
    PROVE  \E q \in Rows \ {Nil} :
              q = [r EXCEPT !.local = FALSE] /\ q.server = r.server /\ ~q.local
<1>1. /\ [r EXCEPT !.local = FALSE] \in Rows \ {Nil}
      /\ [r EXCEPT !.local = FALSE].server = r.server
      /\ ~[r EXCEPT !.local = FALSE].local
  BY DEF Rows
<1> QED
  BY <1>1

\* A row whose size is set keeps the rest.
LEMMA SizeUpdate ==
    ASSUME NEW r \in Rows \ {Nil}, NEW size \in Nat
    PROVE  \E q \in Rows \ {Nil} :
              q = [r EXCEPT !.size = size] /\ q.server = r.server /\ q.local = r.local
<1>1. /\ [r EXCEPT !.size = size] \in Rows \ {Nil}
      /\ [r EXCEPT !.size = size].server = r.server
      /\ [r EXCEPT !.size = size].local = r.local
  BY DEF Rows
<1> QED
  BY <1>1

\* At the start the mount point holds what the user left there.
LEMMA InitType == Init => TypeOK /\ Shape
BY DEF Init, TypeOK, Shape, VisitsFound, SendsRow, MountsOver, Bytes, Steps, Rows,
       Kinds, ImportSteps, SendSteps

\* The row of the file that is sent gets its server.
LEMMA SetServerRow ==
    ASSUME TypeOK, Shape, SetServer
    PROVE  \E q \in Rows \ {Nil} :
              /\ row[node] \in Rows \ {Nil} /\ node \in Files /\ node' = node
              /\ row' = [row EXCEPT ![node] = q] /\ row'[node] = q
              /\ q.server /\ q.local = row[node].local
<1>1. node \in Files /\ row[node] \in Rows \ {Nil} /\ info \in Nat
  BY DEF SetServer, TypeOK, Shape, VisitsFound, SendsRow, ImportSteps, SendSteps
<1>2. PICK q \in Rows \ {Nil} :
            /\ q = [row[node] EXCEPT !.server = TRUE]
            /\ q.server /\ q.local = row[node].local
  BY <1>1, ServerUpdate
<1>3. row' = [row EXCEPT ![node] = q]
  BY <1>2 DEF SetServer
<1>4. row'[node] = q /\ node' = node
  BY <1>1, <1>3 DEF SetServer, Goto, local, TypeOK
<1> QED
  BY <1>1, <1>2, <1>3, <1>4

\* The row of the file that is sent is made remote.
LEMMA SetRemoteRow ==
    ASSUME TypeOK, Shape, SetRemote
    PROVE  \E q \in Rows \ {Nil} :
              /\ row[node] \in Rows \ {Nil} /\ node \in Files /\ node' = node
              /\ row' = [row EXCEPT ![node] = q] /\ row'[node] = q
              /\ q.server = row[node].server /\ ~q.local
<1>1. node \in Files /\ row[node] \in Rows \ {Nil} /\ info \in Nat
  BY DEF SetRemote, TypeOK, Shape, VisitsFound, SendsRow, ImportSteps, SendSteps
<1>2. PICK q \in Rows \ {Nil} :
            /\ q = [row[node] EXCEPT !.local = FALSE]
            /\ q.server = row[node].server /\ ~q.local
  BY <1>1, RemoteUpdate
<1>3. row' = [row EXCEPT ![node] = q]
  BY <1>2 DEF SetRemote
<1>4. row'[node] = q /\ node' = node
  BY <1>1, <1>3 DEF SetRemote, Goto, local, TypeOK
<1> QED
  BY <1>1, <1>2, <1>3, <1>4

\* The row of the file that is sent gets its size.
LEMMA SetSizeRow ==
    ASSUME TypeOK, Shape, SetSize
    PROVE  \E q \in Rows \ {Nil} :
              /\ row[node] \in Rows \ {Nil} /\ node \in Files /\ node' = node
              /\ row' = [row EXCEPT ![node] = q] /\ row'[node] = q
              /\ q.server = row[node].server /\ q.local = row[node].local
<1>1. node \in Files /\ row[node] \in Rows \ {Nil} /\ info \in Nat
  BY DEF SetSize, TypeOK, Shape, VisitsFound, SendsRow, ImportSteps, SendSteps
<1>2. PICK q \in Rows \ {Nil} :
            /\ q = [row[node] EXCEPT !.size = info]
            /\ q.server = row[node].server /\ q.local = row[node].local
  BY <1>1, SizeUpdate
<1>3. row' = [row EXCEPT ![node] = q]
  BY <1>2 DEF SetSize
<1>4. row'[node] = q /\ node' = node
  BY <1>1, <1>3 DEF SetSize, Goto, local, TypeOK
<1> QED
  BY <1>1, <1>2, <1>3, <1>4

\* Every step keeps the types.
LEMMA TypeStep == TypeOK /\ Shape /\ [Next]_vars => TypeOK'
<1> SUFFICES ASSUME TypeOK, Shape, [Next]_vars PROVE TypeOK'
  OBVIOUS
<1> USE DEF TypeOK, Bytes, Steps, Kinds, Size, bytes, local, folders, Nodes
<1>0. found' = found
  BY DEF Next, vars
<1>1. CASE UNCHANGED vars
  BY <1>1 DEF vars
<1>2. CASE Start
  BY <1>0, <1>2 DEF Start
<1>3. ASSUME NEW d \in Folders, MakeDir(d)
      PROVE  TypeOK'
  BY <1>0, <1>3 DEF MakeDir
<1>4. CASE MakeDirFails
  BY <1>0, <1>4 DEF MakeDirFails, Fails, Exit, Happens
<1>5. CASE StartWalk
  BY <1>0, <1>5 DEF StartWalk
<1>6. ASSUME NEW n \in Nodes, Visit(n)
      PROVE  TypeOK'
  BY <1>0, <1>6 DEF Visit
<1>7. CASE Link
  BY <1>0, <1>7 DEF Link, Goto
<1>8. CASE LinkFails
  BY <1>0, <1>8 DEF LinkFails, Fails, Exit, Happens
<1>9. CASE EndWalk
  BY <1>0, <1>9 DEF EndWalk, Goto
<1>10. ASSUME NEW d \in Folders, RemoveDir(d)
       PROVE  TypeOK'
  BY <1>0, <1>10 DEF RemoveDir, Goto
<1>11. CASE RemoveMount
  BY <1>0, <1>11 DEF RemoveMount, Goto
<1>12. CASE RemoveFails
  BY <1>0, <1>12 DEF RemoveFails, Fails, Exit, Happens
<1>13. CASE CreateEntry
  <2>1. pc = "entry" /\ node \in Files
    BY <1>0, <1>13 DEF CreateEntry, Shape, VisitsFound, ImportSteps
  <2>2. row' \in [Files -> Rows]
    BY <1>0, <1>13, <2>1 DEF CreateEntry, Rows
  <2> QED
    BY <1>0, <1>13, <2>2 DEF CreateEntry, Goto
<1>14. CASE CreateEntryFails
  BY <1>0, <1>14 DEF CreateEntryFails, Exit, Happens
<1>15. ASSUME NEW remote \in BOOLEAN, Select(remote)
       PROVE  TypeOK'
  BY <1>0, <1>15 DEF Select, Goto
<1>16. CASE Send
  BY <1>0, <1>16 DEF Send, Goto
<1>17. CASE SendExit
  BY <1>0, <1>17 DEF SendExit, Happens
<1>18. CASE SendFails
  BY <1>0, <1>18 DEF SendFails, Fails, Exit, Happens
<1>19. CASE SetServer
  <2>a. PICK q \in Rows \ {Nil} :
            /\ row[node] \in Rows \ {Nil} /\ node \in Files /\ node' = node
            /\ row' = [row EXCEPT ![node] = q] /\ row'[node] = q
            /\ q.server /\ q.local = row[node].local
    BY <1>19, SetServerRow
  <2>1. row' \in [Files -> Rows]
    BY <2>a
  <2> QED
    BY <1>0, <1>19, <2>1 DEF SetServer, Goto
<1>20. CASE SetRemote
  <2>a. PICK q \in Rows \ {Nil} :
            /\ row[node] \in Rows \ {Nil} /\ node \in Files /\ node' = node
            /\ row' = [row EXCEPT ![node] = q] /\ row'[node] = q
            /\ q.server = row[node].server /\ ~q.local
    BY <1>20, SetRemoteRow
  <2>1. row' \in [Files -> Rows]
    BY <2>a
  <2> QED
    BY <1>0, <1>20, <2>1 DEF SetRemote, Goto
<1>21. CASE SetSize
  <2>a. PICK q \in Rows \ {Nil} :
            /\ row[node] \in Rows \ {Nil} /\ node \in Files /\ node' = node
            /\ row' = [row EXCEPT ![node] = q] /\ row'[node] = q
            /\ q.server = row[node].server /\ q.local = row[node].local
    BY <1>21, SetSizeRow
  <2>1. row' \in [Files -> Rows]
    BY <2>a
  <2> QED
    BY <1>0, <1>21, <2>1 DEF SetSize, Goto
<1>22. CASE StatementFails
  BY <1>0, <1>22 DEF StatementFails, Happens
<1>23. CASE Truncate
  BY <1>0, <1>23 DEF Truncate, Goto
<1>24. CASE Create
  BY <1>0, <1>24 DEF Create, Goto
<1>25. CASE Copy
  BY <1>0, <1>25 DEF Copy, Goto
<1>26. CASE CopyPart
  BY <1>0, <1>26 DEF CopyPart, Exit, Happens
<1>27. CASE Remove
  BY <1>0, <1>27 DEF Remove, Goto
<1>28. CASE CallFails
  BY <1>0, <1>28 DEF CallFails, Fails, Exit, Happens
<1>29. CASE Crash
  BY <1>0, <1>29 DEF Crash, Exit
<1> QED
  BY <1>1, <1>2, <1>3, <1>4, <1>5, <1>6, <1>7, <1>8, <1>9, <1>10, <1>11, <1>12,
     <1>13, <1>14, <1>15, <1>16, <1>17, <1>18, <1>19, <1>20, <1>21, <1>22,
     <1>23, <1>24, <1>25, <1>26, <1>27, <1>28, <1>29
     DEF Next, FoldersNext, NodeNext

\* Every step keeps the shape.
LEMMA ShapeStep == TypeOK /\ Shape /\ [Next]_vars => Shape'
<1> SUFFICES ASSUME TypeOK, Shape, [Next]_vars PROVE Shape'
  OBVIOUS
<1> USE DEF TypeOK, Shape, VisitsFound, SendsRow, MountsOver, ImportSteps,
       SendSteps,
        bytes, local, folders, Nodes
<1>0. found' = found
  BY DEF Next, vars
<1>1. CASE UNCHANGED vars
  BY <1>1 DEF vars
<1>2. CASE Start
  BY <1>0, <1>2 DEF Start
<1>3. ASSUME NEW d \in Folders, MakeDir(d)
      PROVE  Shape'
  BY <1>0, <1>3 DEF MakeDir
<1>4. CASE MakeDirFails
  BY <1>0, <1>4 DEF MakeDirFails, Fails, Exit, Happens
<1>5. CASE StartWalk
  BY <1>0, <1>5 DEF StartWalk
<1>6. ASSUME NEW n \in Nodes, Visit(n)
      PROVE  Shape'
  BY <1>0, <1>6 DEF Visit
<1>7. CASE Link
  BY <1>0, <1>7 DEF Link, Goto
<1>8. CASE LinkFails
  BY <1>0, <1>8 DEF LinkFails, Fails, Exit, Happens
<1>9. CASE EndWalk
  BY <1>0, <1>9 DEF EndWalk, Goto
<1>10. ASSUME NEW d \in Folders, RemoveDir(d)
       PROVE  Shape'
  BY <1>0, <1>10 DEF RemoveDir, Goto
<1>11. CASE RemoveMount
  BY <1>0, <1>11 DEF RemoveMount, Goto
<1>12. CASE RemoveFails
  BY <1>0, <1>12 DEF RemoveFails, Fails, Exit, Happens
<1>13. CASE CreateEntry
  <2>1. VisitsFound'
    BY <1>0, <1>13 DEF CreateEntry, Goto
  <2>2. SendsRow'
    <3>1. pc = "entry" /\ node \in Files /\ node' = node
      BY <1>13 DEF CreateEntry, Goto
    <3>2. row'[node] # Nil
      <4>1. CASE row[node] # Nil
        BY <1>13, <3>1, <4>1 DEF CreateEntry
      <4>2. CASE row[node] = Nil
        <5>1. row'[node] = [local |-> TRUE, server |-> FALSE, size |-> info]
          BY <1>13, <3>1, <4>2 DEF CreateEntry
        <5>2. row'[node] \in [local : BOOLEAN, server : BOOLEAN, size : Nat]
          BY <5>1
        <5> QED
          BY <5>2
      <4> QED
        BY <4>1, <4>2
    <3> QED
      BY <3>1, <3>2
  <2>3. MountsOver'
    BY <1>0, <1>13 DEF CreateEntry, Goto
  <2> QED
    BY <2>1, <2>2, <2>3
<1>14. CASE CreateEntryFails
  BY <1>0, <1>14 DEF CreateEntryFails, Exit, Happens
<1>15. ASSUME NEW remote \in BOOLEAN, Select(remote)
       PROVE  Shape'
  BY <1>0, <1>15 DEF Select, Goto
<1>16. CASE Send
  BY <1>0, <1>16 DEF Send, Goto
<1>17. CASE SendExit
  BY <1>0, <1>17 DEF SendExit, Happens
<1>18. CASE SendFails
  BY <1>0, <1>18 DEF SendFails, Fails, Exit, Happens
<1>19. CASE SetServer
  <2>a. PICK q \in Rows \ {Nil} :
            /\ row[node] \in Rows \ {Nil} /\ node \in Files /\ node' = node
            /\ row' = [row EXCEPT ![node] = q] /\ row'[node] = q
            /\ q.server /\ q.local = row[node].local
    BY <1>19, SetServerRow
  <2>1. VisitsFound' /\ MountsOver'
    BY <1>0, <1>19 DEF SetServer, Goto
  <2>2. SendsRow'
    BY <2>a
  <2> QED
    BY <2>1, <2>2
<1>20. CASE SetRemote
  <2>a. PICK q \in Rows \ {Nil} :
            /\ row[node] \in Rows \ {Nil} /\ node \in Files /\ node' = node
            /\ row' = [row EXCEPT ![node] = q] /\ row'[node] = q
            /\ q.server = row[node].server /\ ~q.local
    BY <1>20, SetRemoteRow
  <2>1. VisitsFound' /\ MountsOver'
    BY <1>0, <1>20 DEF SetRemote, Goto
  <2>2. SendsRow'
    BY <2>a
  <2> QED
    BY <2>1, <2>2
<1>21. CASE SetSize
  <2>a. PICK q \in Rows \ {Nil} :
            /\ row[node] \in Rows \ {Nil} /\ node \in Files /\ node' = node
            /\ row' = [row EXCEPT ![node] = q] /\ row'[node] = q
            /\ q.server = row[node].server /\ q.local = row[node].local
    BY <1>21, SetSizeRow
  <2>1. VisitsFound' /\ MountsOver'
    BY <1>0, <1>21 DEF SetSize, Goto
  <2>2. SendsRow'
    BY <2>a
  <2> QED
    BY <2>1, <2>2
<1>22. CASE StatementFails
  BY <1>0, <1>22 DEF StatementFails, Happens
<1>23. CASE Truncate
  BY <1>0, <1>23 DEF Truncate, Goto
<1>24. CASE Create
  BY <1>0, <1>24 DEF Create, Goto
<1>25. CASE Copy
  BY <1>0, <1>25 DEF Copy, Goto
<1>26. CASE CopyPart
  BY <1>0, <1>26 DEF CopyPart, Exit, Happens
<1>27. CASE Remove
  BY <1>0, <1>27 DEF Remove, Goto
<1>28. CASE CallFails
  BY <1>0, <1>28 DEF CallFails, Fails, Exit, Happens
<1>29. CASE Crash
  BY <1>0, <1>29 DEF Crash, Exit
<1> QED
  BY <1>1, <1>2, <1>3, <1>4, <1>5, <1>6, <1>7, <1>8, <1>9, <1>10, <1>11, <1>12,
     <1>13, <1>14, <1>15, <1>16, <1>17, <1>18, <1>19, <1>20, <1>21, <1>22,
     <1>23, <1>24, <1>25, <1>26, <1>27, <1>28, <1>29
     DEF Next, FoldersNext, NodeNext

-----------------------------------------------------------------------------
(* Where the data is.                                                      *)

\* At the start everything is at the mount point.
LEMMA InitData == Init => DataInv
BY DEF Init, DataInv, DataParts, RemoteSent, EmptiedSent, MovedWhole, MarksSent,
       RemovesCopied, Imported, Nodes

\* No failure is forgotten.
LEMMA FailuresGrow == [Next]_vars => failed \subseteq failed'
BY DEF Next, FoldersNext, NodeNext, vars, local, Start, MakeDir, MakeDirFails,
       StartWalk, Visit, Link, LinkFails, EndWalk, RemoveDir, RemoveMount,
       RemoveFails, CreateEntry, CreateEntryFails, Select, Send, SendExit,
       SendFails, SetServer, SetRemote, SetSize, StatementFails, Truncate, Create,
       Copy, CopyPart, Remove, CallFails, Crash, Fails, Happens, Goto

\* Every step whose failure the code notices keeps the data.
LEMMA DataStep == TypeOK /\ TypeOK' /\ Shape /\ DataInv /\ [Next]_vars => DataInv'
<1> SUFFICES ASSUME TypeOK, TypeOK', Shape, DataInv, [Next]_vars, Noticed'
             PROVE  DataParts'
  BY DEF DataInv
<1> USE DEF TypeOK, Rows, Bytes, Size, Shape, VisitsFound, SendsRow, ImportSteps,
        SendSteps, Noticed, Imported, DataParts, RemoteSent, EmptiedSent, MovedWhole,
        MarksSent, RemovesCopied, bytes, local, folders, Nodes
<1>0. found' = found
  BY DEF Next, vars
<1>a. DataParts
  BY FailuresGrow DEF DataInv
<1>1. CASE UNCHANGED vars
  BY <1>a, <1>1 DEF vars
<1>2. CASE Start
  BY <1>0, <1>a, <1>2 DEF Start
<1>3. ASSUME NEW d \in Folders, MakeDir(d)
      PROVE  DataParts'
  BY <1>0, <1>a, <1>3 DEF MakeDir
<1>4. CASE MakeDirFails
  BY <1>0, <1>a, <1>4 DEF MakeDirFails, Fails, Exit, Happens
<1>5. CASE StartWalk
  BY <1>0, <1>a, <1>5 DEF StartWalk
<1>6. ASSUME NEW n \in Nodes, Visit(n)
      PROVE  DataParts'
  BY <1>0, <1>a, <1>6 DEF Visit
<1>7. CASE Link
  BY <1>0, <1>a, <1>7 DEF Link, Goto
<1>8. CASE LinkFails
  BY <1>0, <1>a, <1>8 DEF LinkFails, Fails, Exit, Happens
<1>9. CASE EndWalk
  BY <1>0, <1>a, <1>9 DEF EndWalk, Goto
<1>10. ASSUME NEW d \in Folders, RemoveDir(d)
       PROVE  DataParts'
  BY <1>0, <1>a, <1>10 DEF RemoveDir, Goto
<1>11. CASE RemoveMount
  BY <1>0, <1>a, <1>11 DEF RemoveMount, Goto
<1>12. CASE RemoveFails
  BY <1>0, <1>a, <1>12 DEF RemoveFails, Fails, Exit, Happens
<1>13. CASE CreateEntry
  BY <1>0, <1>a, <1>13 DEF CreateEntry, Goto
<1>14. CASE CreateEntryFails
  BY <1>0, <1>a, <1>14 DEF CreateEntryFails, Exit, Happens
<1>15. ASSUME NEW remote \in BOOLEAN, Select(remote)
       PROVE  DataParts'
  BY <1>0, <1>a, <1>15 DEF Select, Goto
<1>16. CASE Send
  BY <1>0, <1>a, <1>16 DEF Send, Goto
<1>17. CASE SendExit
  BY <1>0, <1>a, <1>17 DEF SendExit, Happens
<1>18. CASE SendFails
  BY <1>0, <1>a, <1>18 DEF SendFails, Fails, Exit, Happens
<1>19. CASE SetServer
  <2>a. PICK q \in Rows \ {Nil} :
            /\ row[node] \in Rows \ {Nil} /\ node \in Files /\ node' = node
            /\ row' = [row EXCEPT ![node] = q] /\ row'[node] = q
            /\ q.server /\ q.local = row[node].local
    BY <1>19, SetServerRow
  <2>1. EmptiedSent'
    BY <1>0, <1>a, <1>19, <2>a DEF SetServer
  <2>2. RemoteSent' /\ MovedWhole' /\ MarksSent' /\ RemovesCopied'
    BY <1>0, <1>a, <1>19 DEF SetServer, Goto
  <2> QED
    BY <2>1, <2>2
<1>20. CASE SetRemote
  <2>a. PICK q \in Rows \ {Nil} :
            /\ row[node] \in Rows \ {Nil} /\ node \in Files /\ node' = node
            /\ row' = [row EXCEPT ![node] = q] /\ row'[node] = q
            /\ q.server = row[node].server /\ ~q.local
    BY <1>20, SetRemoteRow
  <2>1. EmptiedSent'
    BY <1>0, <1>a, <1>20, <2>a DEF SetRemote
  <2>2. RemoteSent' /\ MovedWhole' /\ MarksSent' /\ RemovesCopied'
    BY <1>0, <1>a, <1>20 DEF SetRemote, Goto
  <2> QED
    BY <2>1, <2>2
<1>21. CASE SetSize
  <2>a. PICK q \in Rows \ {Nil} :
            /\ row[node] \in Rows \ {Nil} /\ node \in Files /\ node' = node
            /\ row' = [row EXCEPT ![node] = q] /\ row'[node] = q
            /\ q.server = row[node].server /\ q.local = row[node].local
    BY <1>21, SetSizeRow
  <2>1. EmptiedSent'
    BY <1>0, <1>a, <1>21, <2>a DEF SetSize
  <2>2. RemoteSent' /\ MovedWhole' /\ MarksSent' /\ RemovesCopied'
    BY <1>0, <1>a, <1>21 DEF SetSize, Goto
  <2> QED
    BY <2>1, <2>2
<1>22. CASE StatementFails
  BY <1>0, <1>a, <1>22 DEF StatementFails, Happens
<1>23. CASE Truncate
  BY <1>0, <1>a, <1>23 DEF Truncate, Goto
<1>24. CASE Create
  BY <1>0, <1>a, <1>24 DEF Create, Goto
<1>25. CASE Copy
  BY <1>0, <1>a, <1>25 DEF Copy, Goto
<1>26. CASE CopyPart
  BY <1>0, <1>a, <1>26 DEF CopyPart, Exit, Happens
<1>27. CASE Remove
  BY <1>0, <1>a, <1>27 DEF Remove, Goto
<1>28. CASE CallFails
  BY <1>0, <1>a, <1>28 DEF CallFails, Fails, Exit, Happens
<1>29. CASE Crash
  BY <1>0, <1>a, <1>29 DEF Crash, Exit
<1> QED
  BY <1>1, <1>2, <1>3, <1>4, <1>5, <1>6, <1>7, <1>8, <1>9, <1>10, <1>11, <1>12,
     <1>13, <1>14, <1>15, <1>16, <1>17, <1>18, <1>19, <1>20, <1>21, <1>22,
     <1>23, <1>24, <1>25, <1>26, <1>27, <1>28, <1>29
     DEF Next, FoldersNext, NodeNext

-----------------------------------------------------------------------------
(* The theorems.                                                           *)

\* The invariants, for every number of crashes and whatever fails.
THEOREM ImportInvariant == Spec => [](TypeOK /\ Shape /\ DataInv)
<1>1. Init => TypeOK /\ Shape /\ DataInv
  BY InitType, InitData
<1>2. TypeOK /\ Shape /\ DataInv /\ [Next]_vars => (TypeOK /\ Shape /\ DataInv)'
  BY TypeStep, ShapeStep, DataStep
<1> QED
  BY <1>1, <1>2, PTL DEF Spec

\* The variables of the import stay in their types, whatever fails.
THEOREM TypeCorrect == Spec => []TypeOK
BY ImportInvariant, PTL

\* Wherever importFS stops, and however often it starts again, each file that the user
\* had at the mount point is whole in one of the three places, unless an exit code of
\* rclone or an error of the database was dropped.
THEOREM NothingEverLost == Spec => []NothingLost
<1>1. TypeOK /\ DataInv => NothingLost
  BY DEF TypeOK, Bytes, Nodes, DataInv, DataParts, NothingLost, Noticed, Imported,
         RemoteSent, EmptiedSent, MovedWhole
<1> QED
  BY <1>1, ImportInvariant, PTL

\* The row of each file that was moved out of the mount point leads to its data, with
\* the same exception.
THEOREM RowsAlwaysFindData == Spec => []RowsFindData
<1>1. DataInv => RowsFindData
  BY DEF DataInv, DataParts, RowsFindData, Noticed, Imported, RemoteSent, MovedWhole
<1> QED
  BY <1>1, ImportInvariant, PTL

\* When the daemon mounts its filesystem, the row of each file that the user had at the
\* mount point leads to its data.
MountedFindsData ==
    Noticed /\ pc = "mounted" =>
        \A f \in Files \cap found :
            /\ row[f] # Nil
            /\ IF row[f].local THEN dst[f] = "data"
                               ELSE row[f].server /\ object[f] = "data"

\* importFS ends with os.Remove, which succeeds only when nothing is left at the mount
\* point, and a file leaves it only with its row and its data.
THEOREM MountsComplete == Spec => []MountedFindsData
<1>1. Shape /\ DataInv => MountedFindsData
  BY DEF Shape, MountsOver, Nodes, DataInv, DataParts, MountedFindsData, Noticed,
         Imported, RemoteSent, MovedWhole
<1> QED
  BY <1>1, ImportInvariant, PTL
=============================================================================

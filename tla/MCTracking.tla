----------------------------- MODULE MCTracking -----------------------------
(* Tracking on small instances. *)
EXTENDS Tracking, TLC

CONSTANTS u1, u2, s1, s2, p1, p2, data

\* Users, cycles and paths are only compared for equality.
Alike == Permutations(Users) \cup Permutations(Senders) \cup Permutations(Paths)

\* The behaviours that ContentKept or FilesTracked speaks of.
Followed == mishaps \subseteq {"entry"} \/ mishaps \subseteq {"content"}

\* One path at a time is in use: requests and cycles overlap on it.
OnePath ==
    \E p \in Paths : \A q \in Paths \ {p} :
        /\ disk[q] = Nil /\ object[q] = Nil /\ row[q] = Nil /\ wanted[q] = Nil
        /\ batch[q] = 0 /\ \A u \in Users : seen[u][q] = 0

\* One request and one cycle at a time, nobody stops the daemon and no rebuild makes a
\* row: paths change places, rows outlive their files.
OneEach ==
    /\ handler = "waiting"
    /\ \A p \in Paths : row[p] # Nil => row[p].ours
    /\ \A u, v \in Users : u # v => req[u] = Idle \/ req[v] = Idle
    /\ \A s, r \in Senders : s # r => At(s, "idle") \/ At(r, "idle")

\* Files are created at the same time, while cycles store the batch.
Creations ==
    /\ \A p \in Paths : object[p] = Nil
    /\ \A u \in Users : req[u].step \in {"idle", "read", "append"}
    /\ \A s \in Senders : cycle[s].step \in {"idle", "store", "reset"}

Focus ==
    \/ OnePath /\ Followed
    \/ OneEach /\ mishaps \subseteq {"entry"}
    \/ Creations /\ mishaps = {}

\* The behaviours that RenameKeepsContent speaks of.
OnlyMoved == mishaps \subseteq {"moved"}
=============================================================================

----------------------------- MODULE TieredFile -----------------------------
(***************************************************************************)
(* What the agent promises about one tracked file: the file has a content, *)
(* and a tier that says whether its bytes are on the local disk or in the  *)
(* S3 bucket.  Only a request of a user changes the content: moving the    *)
(* file between the tiers does not.  What a read returns is not part of    *)
(* it; the content is what one finds who looks where the tier says.        *)
(*                                                                         *)
(* A content is the set of the blocks that hold data; the empty set is a   *)
(* file of size 0.                                                         *)
(***************************************************************************)

CONSTANTS
    Users,      \* who may have a request under way
    Blocks      \* the blocks a user may write

VARIABLES
    content,    \* the blocks of the file that hold data
    tier,       \* where the bytes are: "local" or "remote"
    changing    \* the users whose request is about to change the content

vars == <<content, tier, changing>>

Init ==
    /\ content = {}
    /\ tier = "local"
    /\ changing = {}

\* The agent found the bytes on the local disk, or brought them there, and the
\* request may now change them.
Begin(u) ==
    /\ u \notin changing
    /\ changing' = changing \cup {u}
    /\ UNCHANGED <<content, tier>>

\* A user writes one more block, or overwrites one.
Write(u) ==
    /\ u \in changing
    /\ tier = "local"
    /\ \E b \in Blocks : content' = content \cup {b}
    /\ changing' = changing \ {u}
    /\ UNCHANGED tier

\* A user truncates the file.
Truncate(u) ==
    /\ u \in changing
    /\ tier = "local"
    /\ content' \in SUBSET content
    /\ changing' = changing \ {u}
    /\ UNCHANGED tier

\* The file left for the bucket after the agent looked, and the request changes
\* the empty file that stayed behind: its effect is lost.
Miss(u) ==
    /\ u \in changing
    /\ tier = "remote"
    /\ changing' = changing \ {u}
    /\ UNCHANGED <<content, tier>>

\* The cron sender moves the file to the bucket.
Archive ==
    /\ tier = "local"
    /\ tier' = "remote"
    /\ UNCHANGED <<content, changing>>

\* A request that needs the bytes brings the file back.
Restore ==
    /\ tier = "remote"
    /\ tier' = "local"
    /\ UNCHANGED <<content, changing>>

\* The agent is restarted: the requests under way are lost.
Restart ==
    /\ changing' = {}
    /\ UNCHANGED <<content, tier>>

Next ==
    \/ \E u \in Users : Begin(u) \/ Write(u) \/ Truncate(u) \/ Miss(u)
    \/ Archive \/ Restore \/ Restart

Spec == Init /\ [][Next]_vars
=============================================================================

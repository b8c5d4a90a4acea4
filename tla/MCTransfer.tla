----------------------------- MODULE MCTransfer -----------------------------
(* FileTransfer on small instances. *)
EXTENDS FileTransfer, TLC

CONSTANTS h1, h2, h3

OneHandle == <<h1>>
TwoHandles == <<h1, h2>>

\* Threads of the same kind are interchangeable; handles are not, fhmap has an order.
ThreadSymmetry == Permutations(Users) \cup Permutations(Senders)
=============================================================================

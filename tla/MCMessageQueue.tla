-------------------------- MODULE MCMessageQueue --------------------------
(* Instances of MessageQueue for TLC. *)
EXTENDS MessageQueue, TLC

CONSTANTS m1, m2, m3, chatA, chatB

\* m1 and m2 share a conversation, m3 has one of its own
MCConv == m1 :> chatA @@ m2 :> chatA @@ m3 :> chatB

WorkerSymmetry == Permutations(Workers)

===========================================================================

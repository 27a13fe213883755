-------------------------- MODULE MCInferenceQueue --------------------------
(***************************************************************************)
(* Small instances of InferenceQueue.  Alice chats; Bob selects an engine, *)
(* whose handler may die, and has a graphics job, renewed only when his    *)
(* client polls; Carol's vision request is never renewed and may outlive   *)
(* its lease; an administrator makes one direct maintenance call.          *)
(***************************************************************************)
EXTENDS InferenceQueue

CONSTANTS chat, select, graphics, vision, admin, alice, bob, carol

MCOwner == [r \in Requests |-> CASE r = chat -> alice
                                 [] r = vision -> carol
                                 [] OTHER -> bob]

(* Two seconds are enough for a lease to be renewed half-way, one second   *)
(* for one that lapses at the first tick.                                  *)
MCLease == [p \in Holders |-> IF p = vision THEN 1 ELSE 2]
=============================================================================

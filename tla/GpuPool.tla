------------------------------ MODULE GpuPool -------------------------------
(***************************************************************************)
(* What the allocation tables promise, whatever runs, fails or is          *)
(* cancelled: a device has at most one owner; a run is served once, with   *)
(* exactly the number of devices it asked for and all of them free; and it *)
(* gives all of them back at once.                                         *)
(***************************************************************************)
EXTENDS Integers, FiniteSets

CONSTANTS Gpus, Holders, Size, None

VARIABLES owner, served

vars == <<owner, served>>

Init ==
  /\ owner = [g \in Gpus |-> None]
  /\ served = {}

Free == {g \in Gpus : owner[g] = None}
Of(h) == {g \in Gpus : owner[g] = h}

(* Serve a batch of new holders out of the free devices. *)
Grant ==
  \E S \in SUBSET (Holders \ served) :
    /\ S # {}
    /\ served' = served \cup S
    /\ \E newOwner \in [Gpus -> S \cup {None}] :
         /\ \A g \in Gpus : newOwner[g] # None => g \in Free
         /\ \A h \in S : Cardinality({g \in Gpus : newOwner[g] = h}) = Size[h]
         /\ owner' = [g \in Gpus |-> IF newOwner[g] # None THEN newOwner[g] ELSE owner[g]]

(* A holder gives up everything it holds. *)
Reclaim(h) ==
  /\ Of(h) # {}
  /\ owner' = [g \in Gpus |-> IF owner[g] = h THEN None ELSE owner[g]]
  /\ UNCHANGED served

Next == Grant \/ \E h \in Holders : Reclaim(h)

Spec == Init /\ [][Next]_vars
=============================================================================

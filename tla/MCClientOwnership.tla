-------------------------- MODULE MCClientOwnership --------------------------
(***************************************************************************)
(* What a client simulates, for TLC: its books (ClientOwnership), and the  *)
(* search that finds what the player moves (ContactSearch).  The books     *)
(* take what the search may find as free, so a behaviour is about one of   *)
(* the two, its `subject`, and the other keeps a state it starts in.       *)
(***************************************************************************)
EXTENDS ClientOwnership, ContactSearch, TLC

VARIABLE subject

ObjectSymmetry == Permutations(Object)

OwnershipInit ==
    \/ subject = "books" /\ Init /\ SearchInit /\ touched = {} /\ contacts = {} /\ loose = {}
    \/ subject = "search" /\ Init /\ SearchInit

OwnershipNext ==
    /\ subject' = subject
    /\ \/ subject = "books" /\ Next /\ UNCHANGED searchVars
       \/ subject = "search" /\ SearchNext /\ UNCHANGED vars

OwnershipSpec == OwnershipInit /\ [][OwnershipNext]_<<subject, vars, searchVars>>

=============================================================================

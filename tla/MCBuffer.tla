------------------------------ MODULE MCBuffer ------------------------------
(***************************************************************************)
(* Small instances of Buffer, with the codec of its numbers: for each      *)
(* number an initial state, and for the number 0 the behaviours of Buffer. *)
(***************************************************************************)
EXTENDS Buffer, BufferCodec, TLC

MCArgs == {-9, 0, 1, 3}

Symmetry == Permutations(Mems) \cup Permutations(Bufs)

MCInit == Init /\ number \in Numbers

MCNext == number = 0 /\ Next /\ UNCHANGED number

MCSpec == MCInit /\ [][MCNext]_<<vars, number>>
=============================================================================

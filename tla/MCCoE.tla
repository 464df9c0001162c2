-------------------------------- MODULE MCCoE --------------------------------
(***************************************************************************)
(* Objects for the checks of CoE and ObjectDictionary: two under one       *)
(* index, a small one that is read expedited and a large one that is read  *)
(* in segments with a short last one, and one under another index that     *)
(* fits in a frame; one PDO; a dictionary that takes three frames, one of  *)
(* its objects with a subindex.                                            *)
(***************************************************************************)
EXTENDS ObjectDictionary

MCObjects ==
    {[index |-> 1, sub |-> 1, size |-> 3],
     [index |-> 1, sub |-> 2, size |-> 27],
     [index |-> 2, sub |-> 1, size |-> 8]}

MCPdos == {[index |-> 3, sub |-> 0, size |-> 14]}

MCDictionary == <<[index |-> 5, maxsub |-> 1], [index |-> 6, maxsub |-> 0],
                  [index |-> 7, maxsub |-> 0], [index |-> 8, maxsub |-> 0]>>

=============================================================================

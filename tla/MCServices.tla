------------------------------ MODULE MCServices ------------------------------
(* Values and frames for model checking Services. *)
EXTENDS Services

\* Two values of one drive, the longer in two parts.
TheIdns == {[elem |-> 1, idn |-> 1, size |-> 8], [elem |-> 1, idn |-> 2, size |-> 6]}

\* A frame in one fragment whose time stamp exceeds the announced size, and one in two.
TheFrames == {[size |-> 4, total |-> 6], [size |-> 6, total |-> 8]}

=============================================================================

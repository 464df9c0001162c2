----------------------------- MODULE ErrorQueue ------------------------------
(***************************************************************************)
(* What the error list of the master promises: a queue that keeps the      *)
(* latest EC_MAXELIST errors in order, and a flag that tells the           *)
(* application to go on reading it.                                        *)
(***************************************************************************)
EXTENDS Naturals, Sequences

CONSTANTS
    EC_MAXELIST,  \* errors the list can hold (64 in the code)
    Errors,       \* the errors the protocols report
    NoError       \* what an unused entry reads as

VARIABLES
    queue,      \* errors not read yet, oldest first
    ecaterror,  \* the flag EcatError of the application
    popped      \* result of the last read: [ok, err]

vars == <<queue, ecaterror, popped>>

Init == queue = <<>> /\ ecaterror = FALSE /\ popped \in [ok : {FALSE}, err : Errors \cup {NoError}]

\* Report e; a full list forgets its oldest error.
Push(e) ==
    /\ queue' = IF Len(queue) = EC_MAXELIST THEN Append(Tail(queue), e) ELSE Append(queue, e)
    /\ ecaterror' = TRUE
    /\ UNCHANGED popped

\* Read the oldest error.
Pop ==
    /\ queue # <<>>
    /\ popped' = [ok |-> TRUE, err |-> Head(queue)]
    /\ queue' = Tail(queue)
    /\ UNCHANGED ecaterror

\* Nothing to read: the flag is taken back, and what is returned is not an error.
PopNothing ==
    /\ queue = <<>>
    /\ popped' \in [ok : {FALSE}, err : Errors \cup {NoError}]
    /\ ecaterror' = FALSE
    /\ UNCHANGED queue

Next == (\E e \in Errors : Push(e)) \/ Pop \/ PopNothing

Spec == Init /\ [][Next]_vars

=============================================================================

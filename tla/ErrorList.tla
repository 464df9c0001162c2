------------------------------ MODULE ErrorList ------------------------------
(***************************************************************************)
(* The error list of a context (ec_eringt, ecx_pusherror, ecx_poperror in  *)
(* ethercatmain.c): a ring of EC_MAXELIST + 1 entries with one of them     *)
(* always unused, written by every protocol and read by the application.   *)
(* An error is an opaque value; its Signal field, which nothing reads, is  *)
(* left out.                                                               *)
(***************************************************************************)
EXTENDS Naturals, Sequences

CONSTANTS
    EC_MAXELIST,  \* errors the list can hold (64 in the code)
    Errors,       \* the errors the protocols report
    NoError       \* an entry never written

ASSUME RingAssumption == EC_MAXELIST \in Nat \ {0}

VARIABLES
    Error,      \* elist->Error, the ring
    head, tail, \* elist->head: next entry to write; elist->tail: oldest entry
    ecaterror,  \* *context->ecaterror
    popped      \* result of the last ecx_poperror: its return value and *Ec

vars == <<Error, head, tail, ecaterror, popped>>

Slots == 0 .. EC_MAXELIST

Init ==
    /\ Error = [i \in Slots |-> NoError]
    /\ head = 0
    /\ tail = 0
    /\ ecaterror = FALSE
    /\ popped = [ok |-> FALSE, err |-> NoError]

\* A position that has been stepped past the last entry starts again at the first.
Wrap(i) == IF i > EC_MAXELIST THEN 0 ELSE i

\* Mutant: a push that catches up with tail does not move it.
ecx_pusherror_TailKept(e) ==
    /\ Error' = [Error EXCEPT ![head] = e]
    /\ head' = Wrap(head + 1)
    /\ ecaterror' = TRUE
    /\ UNCHANGED <<tail, popped>>

ecx_pusherror(e) ==
    LET next == Wrap(head + 1) IN
    /\ Error' = [Error EXCEPT ![head] = e]
    /\ head' = next
    /\ tail' = Wrap(IF next = tail THEN tail + 1 ELSE tail)
    /\ ecaterror' = TRUE
    /\ UNCHANGED popped

\* Mutant: reading the last error takes the flag back with it.
ecx_poperror_FlagEarly ==
    /\ popped' = [ok |-> head # tail, err |-> Error[tail]]
    /\ tail' = IF head # tail THEN Wrap(tail + 1) ELSE tail
    /\ ecaterror' = FALSE
    /\ UNCHANGED <<Error, head>>

ecx_poperror ==
    LET notEmpty == head # tail IN
    /\ popped' = [ok |-> notEmpty, err |-> Error[tail]]
    /\ tail' = IF notEmpty THEN Wrap(tail + 1) ELSE tail
    /\ ecaterror' = (notEmpty /\ ecaterror)
    /\ UNCHANGED <<Error, head>>

Next == (\E e \in Errors : ecx_pusherror(e)) \/ ecx_poperror

Spec == Init /\ [][Next]_vars

-----------------------------------------------------------------------------

\* Number of errors in the ring.
Count == IF head >= tail THEN head - tail ELSE head + (EC_MAXELIST + 1) - tail

\* The entry that is k places after the oldest one.
SlotAt(k) == IF tail + k > EC_MAXELIST THEN tail + k - (EC_MAXELIST + 1) ELSE tail + k

\* The refinement mapping: the errors from tail up to head, oldest first.
RingQueue == [k \in 1 .. Count |-> Error[SlotAt(k - 1)]]

Abstract == INSTANCE ErrorQueue WITH queue <- RingQueue

\* head and tail never leave the ring, across any number of wraps, and the entries are errors.
TypeOK ==
    /\ Error \in [Slots -> Errors \cup {NoError}]
    /\ head \in Slots
    /\ tail \in Slots
    /\ ecaterror \in BOOLEAN
    /\ popped \in [ok : BOOLEAN, err : Errors \cup {NoError}]

\* While the list holds an error the flag is up, so that an application that reads errors as
\* long as EcatError is set (as slaveinfo does) leaves none behind.
FlagUntilEmpty == ecaterror \/ head = tail

\* The ring implements the queue: it never loses an error but the oldest of a full list, and
\* never returns one twice or out of order, across any number of wraps.
ImplementsQueue == Abstract!Spec

=============================================================================

--------------------------- MODULE ObjectDictionary ---------------------------
(***************************************************************************)
(* How si_sdo of slaveinfo lists a slave's object dictionary:              *)
(* ecx_readODlist, then for every object ecx_readODdescription and         *)
(* ecx_readOE with its ecx_readOEsingle per subindex (ethercatcoe.c), as   *)
(* further calls on the mailbox of module CoE.                             *)
(*                                                                         *)
(* A list frame carries words: in the first frame the list type precedes   *)
(* the indexes.  The objects of the dictionary have no read access, so     *)
(* that si_sdo does not read their values.                                 *)
(***************************************************************************)
EXTENDS CoE

CONSTANTS
    Dictionary,    \* the slave's objects in the order of its list: [index, maxsub]
    WordsPerFrame, \* words in a list frame of the slave
    EC_MAXODLIST,  \* entries of the master's list
    MaxFrames      \* 128: the loop reads at most one frame more

ASSUME DictionaryAssumption ==
    /\ DOMAIN Dictionary = 1 .. Len(Dictionary) /\ Len(Dictionary) \in Nat
    /\ \A k \in DOMAIN Dictionary : Dictionary[k].maxsub \in Nat
    /\ \A j, k \in DOMAIN Dictionary : Dictionary[j].index = Dictionary[k].index => j = k
    /\ WordsPerFrame \in Nat \ {0, 1} /\ EC_MAXODLIST \in Nat /\ MaxFrames \in Nat

VARIABLES
    ODlist,   \* the list: the index of each entry, and its MaxSub when described
    OElist,   \* of the present item: the object and subindex each entry describes
    item, sub,  \* the entry of the list and the subindex si_sdo is at
    x,        \* frames of the list read
    inStep    \* history: list, description and entries each began with no other answer under way

dictionary == <<ODlist, OElist, item, sub, x, inStep>>
odvars == <<vars, dictionary>>

Nowhere == [index |-> 0, sub |-> 0]

ODInit == Init /\ ODlist = <<>> /\ OElist = <<>> /\ item = 0 /\ sub = 0 /\ x = 0 /\ inStep = TRUE

-----------------------------------------------------------------------------

\* si_sdo begins with an empty list.
BeginList ==
    /\ pc = "idle" /\ call.n < MaxCalls
    /\ call' = [call EXCEPT !.n = @ + 1, !.op = "LIST", !.size = 0]
    /\ pc' = "list"
    /\ ODlist' = <<>> /\ OElist' = <<>> /\ item' = 0 /\ sub' = 0 /\ x' = 0 /\ inStep' = TRUE
    /\ hp' = 0 /\ data' = <<>> /\ toggle' = 0 /\ NotLast' = FALSE /\ wkc' = "none"
    /\ stale' = FALSE /\ missed' = FALSE /\ lost' = FALSE
    /\ UNCHANGED <<in, out, slave, losses>>

\* Every function empties the mailbox, unless that read fails, and sends its request.
Request(m, from, to) ==
    /\ pc = from
    /\ out' \in {None, out}
    /\ stale' = (in # None \/ out' # None \/ slave.queue # <<>>)
    /\ inStep' = (inStep /\ ~stale')
    /\ Sent(m) /\ pc' = to

RequestFails(m, from) ==
    /\ pc = from
    /\ out' \in {None, out}
    /\ NotSent(m)
    /\ UNCHANGED <<stale, inStep>>

ListRequest == [None EXCEPT !.kind = "LIST_REQ"]
AskList ==
    /\ \/ Request(ListRequest, "list", "listres") /\ UNCHANGED wkc
       \/ RequestFails(ListRequest, "list") /\ Return("none")
    /\ UNCHANGED <<locals, slave, lost, ODlist, OElist, item, sub, x>>

\* si_sdo looks at the entries if the list was read.
ToFirst(list) ==
    IF list = <<>> THEN Return("ok") /\ UNCHANGED item
    ELSE item' = 1 /\ pc' = "desc" /\ UNCHANGED wkc

\* The words of the slave's list: a list type, then the indexes.
Word(w) == IF w = 0 THEN 1 ELSE Dictionary[w].index

\* Mutant: the first word of every frame is taken for a list type.
Indexes_OffsetKept(m) == [k \in 1 .. m.len - 1 |-> Word(m.from + k)]

\* The indexes in a list frame: behind the list type in the first frame that is read.
Indexes(m) ==
    LET offset == IF x = 0 THEN 1 ELSE 0 IN
    [k \in 1 .. m.len - offset |-> Word(m.from + offset + k - 1)]

\* A frame of the list is appended as far as there is room, and the loop goes on while fragments are
\* announced.
ListFrame ==
    /\ pc = "listres"
    /\ Receive({"LIST"})
    /\ LET room == EC_MAXODLIST - Len(ODlist)
           more == SubSeq(Indexes(out), 1, Least(Len(Indexes(out)), room))
       IN  ODlist' = ODlist \o [k \in DOMAIN more |-> [index |-> more[k], maxsub |-> 0, told |-> FALSE]]
    /\ x' = x + 1
    /\ IF ~out.last /\ x' <= MaxFrames THEN UNCHANGED <<pc, wkc, item>> ELSE ToFirst(ODlist')
    /\ UNCHANGED <<call, hp, data, toggle, NotLast, OElist, sub, inStep>>

\* An error, another answer or none: the list is given up.
ListFails ==
    /\ pc = "listres"
    /\ \/ Receive((Responses \cup Unnamed) \ {"LIST"}) /\ Return("error")
       \/ ReceiveNothing /\ Return("none")
    /\ UNCHANGED <<locals, dictionary>>

\* si_sdo goes on with the object entries, described or not.
ToEntries == pc' = "entry" /\ sub' = 0 /\ OElist' = <<>>

DescRequest == [None EXCEPT !.kind = "DESC_REQ", !.index = ODlist[item].index]
AskDescription ==
    /\ \/ Request(DescRequest, "desc", "descres") /\ UNCHANGED <<sub, OElist>>
       \/ RequestFails(DescRequest, "desc") /\ ToEntries
    /\ UNCHANGED <<locals, wkc, slave, lost, ODlist, item, x>>

\* The index in the answer is not looked at.
Description ==
    /\ pc = "descres"
    /\ Receive({"DESC"})
    /\ ODlist' = [ODlist EXCEPT ![item].maxsub = out.sub, ![item].told = TRUE]
    /\ ToEntries
    /\ UNCHANGED <<locals, wkc, item, x, inStep>>

NoDescription ==
    /\ pc = "descres"
    /\ Receive((Responses \cup Unnamed) \ {"DESC"}) \/ ReceiveNothing
    /\ ToEntries
    /\ UNCHANGED <<locals, wkc, ODlist, item, x, inStep>>

\* The loop of ecx_readOE; behind the last subindex the item is shown.
NextSub == sub' = sub + 1 /\ pc' = IF sub < ODlist[item].maxsub THEN "entry" ELSE "shown"

EntryRequest == [None EXCEPT !.kind = "ENTRY_REQ", !.index = ODlist[item].index, !.sub = sub]
AskEntry ==
    /\ \/ Request(EntryRequest, "entry", "entryres") /\ UNCHANGED <<sub, OElist>>
       \/ RequestFails(EntryRequest, "entry") /\ NextSub /\ OElist' = Append(OElist, Nowhere)
    /\ UNCHANGED <<locals, wkc, slave, lost, ODlist, item, x>>

\* Neither index nor subindex of the answer is looked at.
Entry ==
    /\ pc = "entryres"
    /\ Receive({"ENTRY"})
    /\ OElist' = Append(OElist, [index |-> out.index, sub |-> out.sub])
    /\ NextSub
    /\ UNCHANGED <<locals, wkc, ODlist, item, x, inStep>>

NoEntry ==
    /\ pc = "entryres"
    /\ Receive((Responses \cup Unnamed) \ {"ENTRY"}) \/ ReceiveNothing
    /\ OElist' = Append(OElist, Nowhere)
    /\ NextSub
    /\ UNCHANGED <<locals, wkc, ODlist, item, x, inStep>>

NextItem ==
    /\ pc = "shown"
    /\ IF item < Len(ODlist) THEN item' = item + 1 /\ pc' = "desc" /\ UNCHANGED wkc
                             ELSE Return("ok") /\ UNCHANGED item
    /\ UNCHANGED <<locals, in, out, slave, losses, stale, missed, lost, ODlist, OElist, sub, x, inStep>>

SI_SDO ==
    \/ BeginList \/ AskList \/ ListFrame \/ ListFails
    \/ AskDescription \/ Description \/ NoDescription
    \/ AskEntry \/ Entry \/ NoEntry \/ NextItem

-----------------------------------------------------------------------------
(* The slave answers requests for its dictionary, or with an error         *)
(* (SlaveAbort of CoE).                                                    *)

Words == Len(Dictionary) + 1
ListFrames == (Words + WordsPerFrame - 1) \div WordsPerFrame
ListPart(k) ==
    LET from == (k - 1) * WordsPerFrame IN
    [None EXCEPT !.kind = "LIST", !.from = from, !.len = Least(WordsPerFrame, Words - from), !.last = k = ListFrames]

SlaveList ==
    /\ in.kind = "LIST_REQ"
    /\ in' = None
    /\ slave' = [slave EXCEPT !.queue = @ \o [k \in 1 .. ListFrames |-> ListPart(k)]]
    /\ UNCHANGED <<pc, locals, wkc, out, losses, stale, missed, lost>>

SlaveDescription ==
    /\ in.kind = "DESC_REQ"
    /\ \E k \in DOMAIN Dictionary :
        /\ Dictionary[k].index = in.index
        /\ Take(slave, [None EXCEPT !.kind = "DESC", !.index = in.index, !.sub = Dictionary[k].maxsub])

SlaveEntry ==
    /\ in.kind = "ENTRY_REQ"
    /\ \E k \in DOMAIN Dictionary :
        /\ Dictionary[k].index = in.index /\ in.sub <= Dictionary[k].maxsub
        /\ Take(slave, [None EXCEPT !.kind = "ENTRY", !.index = in.index, !.sub = in.sub])

ODMaster == SI_SDO \/ (Master /\ UNCHANGED dictionary)
ODSlave == (Slave \/ SlaveList \/ SlaveDescription \/ SlaveEntry) /\ UNCHANGED dictionary

\* The calling thread runs, and a slave that is there answers.
ODSpec == ODInit /\ [][ODMaster \/ ODSlave]_odvars /\ WF_odvars(ODMaster) /\ WF_odvars(ODSlave)

-----------------------------------------------------------------------------
(* Properties                                                              *)

\* What slaveinfo shows of an item is the slave's: the list has the slave's objects in its order, cut
\* only where the buffer ends or after MaxFrames + 1 frames; a description or entry that is there is
\* the one asked for, whichever answers were errors or missing before.  Not so if an answer to an
\* earlier request was under way when one of the requests was sent: nothing in the answers is compared.
DictionaryGenuine ==
    pc = "shown" /\ inStep =>
        /\ \A k \in DOMAIN ODlist : ODlist[k].index = Dictionary[k].index
        /\ Len(ODlist) = Least(EC_MAXODLIST, Least(Len(Dictionary), (MaxFrames + 1) * WordsPerFrame - 1))
        /\ ODlist[item].told => ODlist[item].maxsub = Dictionary[item].maxsub
        /\ \A s \in DOMAIN OElist : OElist[s] \in {Nowhere, [index |-> ODlist[item].index, sub |-> s - 1]}
        /\ Len(OElist) = ODlist[item].maxsub + 1

=============================================================================

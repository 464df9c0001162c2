------------------------------- MODULE Eeprom -------------------------------
(***************************************************************************)
(* Access to the slaves' EEPROM (ethercatmain.c): the byte cache of        *)
(* ecx_siigetbyte, the direct reads and writes, the two halves of the      *)
(* parallel read, the control of the EEPROM that is handed between master  *)
(* and PDI, and the calls of the EEPROM tool, which addresses the slaves   *)
(* by position.                                                            *)
(*                                                                         *)
(* A step is one datagram.  It may be lost on its way there, and then the  *)
(* slave knows nothing of it, or on its way back.  The slave serves one    *)
(* command at a time, is busy meanwhile, and may refuse it (NACK).  Words  *)
(* stand for the bytes: the code caches and transfers whole words.         *)
(***************************************************************************)
EXTENDS Integers, Sequences, FiniteSetsExt

CONSTANTS
    Slaves,
    MaxWord,            \* last word of an EEPROM
    BufWords,           \* EC_MAXEEPBUF / 2: words of the cache
    Addresses,          \* bound: the words that are asked for
    Wide,               \* the slaves that answer with 8 bytes
    EC_DEFAULTRETRIES,
    MaxOps,             \* bound: calls
    MaxTroubles         \* bound: datagrams lost, there or back, and commands refused by a slave

ASSUME EepromAssumption ==
    /\ MaxWord \in Nat \ {0} /\ BufWords \in 1 .. MaxWord
    /\ Addresses \subseteq 0 .. MaxWord /\ Wide \subseteq Slaves
    /\ {EC_DEFAULTRETRIES, MaxOps, MaxTroubles} \subseteq Nat

VARIABLES
    ee,        \* slave: the words of its EEPROM
    dat,       \* slave: the data register
    cmd,       \* slave: the command it is busy with, or NoCommand
    nack,      \* slave: the error bits of the status register
    cfg,       \* slave: register EEPCFG gives the EEPROM to "master" or "pdi"
    held,      \* slave: the PDI uses the EEPROM and has to be forced out
    gone,      \* slave: it no longer answers
    eep_pdi,   \* slavelist[s].eep_pdi
    esislave, esimap, esibuf,   \* the cache: the slave, the words that are valid, the words
    tool,      \* the program is the EEPROM tool, not an application
    op,        \* the call under way
    calls,     \* calls begun
    pc,        \* its place in the code
    cnt,       \* retries of the current datagram
    nackcnt,
    pending,   \* slave: the readeeprom1 whose readeeprom2 is still to come, or NotPending
    troubles,
    failed,    \* history: an access of this call ran out of tries, of time or of NACKs
    doubtful,  \* history: cached words whose reading failed, that were written since or that counted as
               \* valid after a write past the end of the cache
    unsure     \* history: slaves to which a change of control did not get through

vars == <<ee, dat, cmd, nack, cfg, held, gone, eep_pdi, esislave, esimap, esibuf, tool, op, calls, pc, cnt,
          nackcnt, pending, troubles, failed, doubtful, unsure>>
slaveVars == <<ee, dat, cmd, nack, cfg, held, gone>>
cacheVars == <<esislave, esimap, esibuf, doubtful>>

Word == 0 .. MaxWord
Buf == 0 .. BufWords - 1
None == "none"
NotPending == [a |-> MaxWord + 1, failed |-> FALSE]
NoCommand == [what |-> "none", a |-> 0]
AliasWord == 0
ChecksumWord == 1
Zero == <<>>                                        \* what a failed read returns
NotAvailable == <<None, 0, 0>>                      \* 0xff for an address behind the cache
Factory(s, w) == <<s, w, 0>>
Idle == [kind |-> "idle", s |-> None, a |-> 0, data |-> Zero, eectl |-> FALSE, out |-> Zero, rval |-> 0]

\* The words the data register shows after a read: 4 or 8 bytes.
Width(s) == IF s \in Wide THEN 4 ELSE 2
Words(s, a) == [i \in 1 .. Width(s) |-> ee[s][(a + i - 1) % (MaxWord + 1)]]

Init ==
    /\ ee = [s \in Slaves |-> [w \in Word |-> Factory(s, w)]]
    /\ dat = [s \in Slaves |-> <<Zero, Zero, Zero, Zero>>]
    /\ cmd = [s \in Slaves |-> NoCommand]
    /\ nack = [s \in Slaves |-> FALSE]
    /\ tool \in BOOLEAN
    /\ cfg \in IF tool THEN {[s \in Slaves |-> c] : c \in {"master", "pdi"}} ELSE {[s \in Slaves |-> "master"]}
    /\ held = [s \in Slaves |-> FALSE]
    /\ gone = {}
    /\ eep_pdi = [s \in Slaves |-> FALSE]
    /\ esislave = None
    /\ esimap = {}
    /\ esibuf = [w \in Buf |-> Zero]
    /\ op = Idle
    /\ calls = 0
    /\ pc = "idle"
    /\ cnt = 0
    /\ nackcnt = 0
    /\ pending = [s \in Slaves |-> NotPending]
    /\ troubles = 0
    /\ failed = FALSE
    /\ doubtful = {}
    /\ unsure = {}

-----------------------------------------------------------------------------
(* The slave (external)                                                    *)

\* It finishes its command: a read fills the data register, a write the EEPROM; or it refuses.
SlaveFinishes(s) ==
    /\ cmd[s] # NoCommand
    /\ cmd' = [cmd EXCEPT ![s] = NoCommand]
    /\ \/ /\ cmd[s].what = "read"
          /\ dat' = [dat EXCEPT ![s] = Words(s, cmd[s].a)]
          /\ UNCHANGED <<ee, nack, troubles>>
       \/ /\ cmd[s].what = "write"
          /\ ee' = [ee EXCEPT ![s][cmd[s].a] = Head(dat[s])]
          /\ UNCHANGED <<dat, nack, troubles>>
       \/ /\ troubles < MaxTroubles
          /\ troubles' = troubles + 1
          /\ nack' = [nack EXCEPT ![s] = TRUE]
          /\ UNCHANGED <<ee, dat>>
    /\ UNCHANGED <<cfg, held, gone, eep_pdi, esislave, esimap, esibuf, tool, op, calls, pc, cnt, nackcnt,
                   pending, failed, doubtful, unsure>>

\* The slave's own controller takes the EEPROM that was left to it.
PdiTakes(s) ==
    /\ cfg[s] = "pdi" /\ ~held[s]
    /\ held' = [held EXCEPT ![s] = TRUE]
    /\ UNCHANGED <<ee, dat, cmd, nack, cfg, gone, eep_pdi, esislave, esimap, esibuf, tool, op, calls, pc, cnt,
                   nackcnt, pending, troubles, failed, doubtful, unsure>>

SlaveVanishes(s) ==
    /\ gone = {}
    /\ gone' = {s}
    /\ troubles < MaxTroubles
    /\ troubles' = MaxTroubles
    /\ UNCHANGED <<ee, dat, cmd, nack, cfg, held, eep_pdi, esislave, esimap, esibuf, tool, op, calls, pc, cnt,
                   nackcnt, pending, failed, doubtful, unsure>>

\* Whether the master may use the EEPROM registers of s.
Free(s) == cfg[s] = "master" /\ ~held[s]

-----------------------------------------------------------------------------
(* One datagram to the slave of the call.  done: the slave executed it;    *)
(* wkc: what the master learns, positive, 0 (nobody answered) or -1.       *)

Results == [done : BOOLEAN, wkc : {-1, 0, 1}]
Outcomes ==
    {[done |-> TRUE, wkc |-> 1]}
        \cup IF troubles < MaxTroubles THEN {[done |-> FALSE, wkc |-> -1], [done |-> TRUE, wkc |-> -1]} ELSE {}

Datagram(r) ==
    IF op.s \in gone THEN r = [done |-> FALSE, wkc |-> 0] /\ troubles' = troubles
    ELSE r \in Outcomes /\ troubles' = IF r.wkc < 0 THEN troubles + 1 ELSE troubles

\* A write that is repeated while it is not answered, EC_DEFAULTRETRIES times: then "next" follows.
Retried(r, here, next) ==
    IF r.wkc <= 0 /\ cnt < EC_DEFAULTRETRIES
    THEN pc' = here /\ cnt' = cnt + 1 /\ UNCHANGED failed
    ELSE pc' = next /\ cnt' = 0 /\ failed' = (failed \/ r.wkc <= 0)

Moves(from, to) == pc = from /\ pc' = to

-----------------------------------------------------------------------------
(* The control of the EEPROM                                               *)

\* eepctl 2 takes the EEPROM away from the PDI, 0 gives it to the master, 1 to the PDI.
WriteEepcfg(r, c) ==
    IF ~r.done THEN UNCHANGED <<cfg, held>>
    ELSE /\ cfg' = [cfg EXCEPT ![op.s] = IF c = 1 THEN "pdi" ELSE "master"]
         /\ held' = [held EXCEPT ![op.s] = @ /\ c # 2]

Doubt(r) == unsure' = IF r.wkc <= 0 /\ pc' # pc THEN unsure \cup {op.s} ELSE unsure

\* ecx_eeprom2master: nothing to do unless the slave's flag says PDI.
To2master(s) == IF eep_pdi[s] THEN "force" ELSE "wait1"

ForceMaster ==
    /\ pc = "force"
    /\ \E r \in Results :
        /\ Datagram(r)
        /\ WriteEepcfg(r, 2)
        /\ IF tool
           THEN pc' = "tomaster" /\ cnt' = 0 /\ failed' = (failed \/ r.wkc <= 0)
           ELSE Retried(r, "force", "tomaster")
        /\ Doubt(r)
    /\ UNCHANGED <<ee, dat, cmd, nack, gone, eep_pdi, cacheVars, tool, calls, op, nackcnt, pending>>

GiveToMaster ==
    /\ pc = "tomaster"
    /\ \E r \in Results :
        /\ Datagram(r)
        /\ WriteEepcfg(r, 0)
        /\ IF tool
           THEN pc' = "wait1" /\ cnt' = 0 /\ failed' = (failed \/ r.wkc <= 0)
           ELSE Retried(r, "tomaster", "wait1")
        /\ eep_pdi' = IF pc' = "wait1" THEN [eep_pdi EXCEPT ![op.s] = FALSE] ELSE eep_pdi
        /\ Doubt(r)
    /\ UNCHANGED <<ee, dat, cmd, nack, gone, cacheVars, tool, calls, op, nackcnt, pending>>

ecx_eeprom2pdi ==
    /\ pc = "topdi"
    /\ IF eep_pdi[op.s]
       THEN pc' = "done" /\ UNCHANGED <<slaveVars, cnt, troubles, failed, eep_pdi, unsure>>
       ELSE \E r \in Results :
                /\ Datagram(r)
                /\ WriteEepcfg(r, 1)
                /\ Retried(r, "topdi", "done")
                /\ eep_pdi' = IF pc' = "done" THEN [eep_pdi EXCEPT ![op.s] = TRUE] ELSE eep_pdi
                /\ Doubt(r)
                /\ UNCHANGED <<ee, dat, cmd, nack, gone>>
    /\ UNCHANGED <<cacheVars, tool, calls, op, nackcnt, pending>>

-----------------------------------------------------------------------------
(* ecx_eeprom_waitnotbusyFP                                                *)

Writes == op.kind \in {"write", "alias"}
Transfer == IF Writes THEN "data" ELSE IF op.kind = "read2" THEN "fetch" ELSE "command"
Repeat == IF nackcnt > 0 /\ nackcnt < 3 THEN Transfer ELSE "end"

\* The poll is answered: the slave is not busy, and the error bits are known.
PollAnswered ==
    /\ pc \in {"wait1", "wait2"}
    /\ op.s \notin gone /\ cmd[op.s] = NoCommand
    /\ IF pc = "wait1"
       THEN /\ pc' = IF nack[op.s] /\ op.kind # "read2" THEN "clear" ELSE Transfer
            /\ failed' = (failed \/ (nack[op.s] /\ op.kind = "read2"))
            /\ UNCHANGED <<nackcnt, op>>
       ELSE /\ nackcnt' = IF nack[op.s] THEN nackcnt + 1 ELSE 0
            /\ op' = IF Writes /\ ~nack[op.s] THEN [op EXCEPT !.rval = 1] ELSE op
            /\ pc' = IF nack[op.s] THEN (IF nackcnt' < 3 THEN Transfer ELSE "end")
                     ELSE IF Writes THEN "end" ELSE "fetch"
            /\ failed' = (failed \/ (nack[op.s] /\ nackcnt' = 3))
    /\ UNCHANGED <<slaveVars, eep_pdi, cacheVars, tool, calls, cnt, pending, troubles, unsure>>

PollLost ==
    /\ pc \in {"wait1", "wait2"}
    /\ op.s \notin gone /\ troubles < MaxTroubles
    /\ troubles' = troubles + 1
    /\ UNCHANGED <<slaveVars, eep_pdi, cacheVars, tool, op, calls, pc, cnt, nackcnt, pending, failed, unsure>>

\* The time is over.  If the last poll was not answered, the status is the 0 that was put there
\* before it, which reads as not busy and no error; if it was, the slave is still busy.
WaitExpires ==
    /\ pc \in {"wait1", "wait2"}
    /\ \/ /\ op.s \in gone \/ troubles < MaxTroubles
          /\ pc' = IF pc = "wait1" THEN Transfer ELSE IF Writes THEN "end" ELSE "fetch"
          /\ op' = IF pc = "wait2" /\ Writes THEN [op EXCEPT !.rval = 1] ELSE op
          /\ nackcnt' = 0
          /\ troubles' = IF op.s \in gone THEN troubles ELSE troubles + 1
       \/ /\ op.s \notin gone /\ cmd[op.s] # NoCommand
          /\ pc' = IF pc = "wait1" THEN "end" ELSE Repeat
          /\ UNCHANGED <<op, nackcnt, troubles>>
    /\ failed' = TRUE
    /\ UNCHANGED <<slaveVars, eep_pdi, cacheVars, tool, calls, cnt, pending, unsure>>

-----------------------------------------------------------------------------
(* ecx_readeepromFP, ecx_writeeepromFP, ecx_readeeprom1 and 2              *)

\* The slave takes a command when the EEPROM is the master's and it is not busy; it forgets an
\* earlier refusal.
Command(r, c) ==
    IF r.done /\ Free(op.s) /\ cmd[op.s] = NoCommand
    THEN cmd' = [cmd EXCEPT ![op.s] = c] /\ nack' = [nack EXCEPT ![op.s] = FALSE]
    ELSE UNCHANGED <<cmd, nack>>

\* Error bits are cleared by a NOP command; the result is not looked at.
ClearErrors ==
    /\ Moves("clear", Transfer)
    /\ \E r \in Results :
        /\ Datagram(r)
        /\ nack' = IF r.done THEN [nack EXCEPT ![op.s] = FALSE] ELSE nack
        /\ failed' = (failed \/ ~r.done)
    /\ UNCHANGED <<ee, dat, cmd, cfg, held, gone, eep_pdi, cacheVars, tool, calls, op, cnt, nackcnt, pending, unsure>>

\* The word to be written goes into the data register; whether it got there is not looked at.
PutData ==
    /\ pc = "data"
    /\ \E r \in Results :
        /\ Datagram(r)
        /\ dat' = IF r.done /\ Free(op.s) THEN [dat EXCEPT ![op.s] = <<op.data>> \o Tail(@)] ELSE dat
        /\ Retried(r, "data", "command")
    /\ UNCHANGED <<ee, cmd, nack, cfg, held, gone, eep_pdi, cacheVars, tool, calls, op, nackcnt, pending,
                   unsure>>

\* Mutant: the command is not repeated when it is not answered.
GiveCommand_NoRetry ==
    /\ pc = "command"
    /\ \E r \in Results :
        /\ Datagram(r)
        /\ Command(r, [what |-> IF Writes THEN "write" ELSE "read", a |-> op.a])
        /\ pc' = IF op.kind = "read1" THEN "done" ELSE "wait2"
    /\ pending' = IF pc' = "done" THEN [pending EXCEPT ![op.s] = [a |-> op.a, failed |-> failed]] ELSE pending
    /\ UNCHANGED <<ee, dat, cfg, held, gone, eep_pdi, cacheVars, tool, calls, op, cnt, nackcnt, failed,
                   unsure>>

\* The command, with its address.  -1, the answer never came, counts as given.
GiveCommand ==
    /\ pc = "command"
    /\ \E r \in Results :
        /\ Datagram(r)
        /\ Command(r, [what |-> IF Writes THEN "write" ELSE "read", a |-> op.a])
        /\ Retried(r, "command", IF op.kind = "read1" THEN "done" ELSE IF r.wkc = 0 THEN Repeat ELSE "wait2")
    /\ pending' = IF pc' = "done" THEN [pending EXCEPT ![op.s] = [a |-> op.a, failed |-> failed']] ELSE pending
    /\ UNCHANGED <<ee, dat, cfg, held, gone, eep_pdi, cacheVars, tool, calls, op, nackcnt, unsure>>

FetchData ==
    /\ pc = "fetch"
    /\ \E r \in Results :
        /\ Datagram(r)
        /\ op' = IF r.wkc > 0 THEN [op EXCEPT !.out = SubSeq(dat[op.s], 1, Width(op.s))] ELSE op
        /\ Retried(r, "fetch", "end")
    /\ UNCHANGED <<slaveVars, eep_pdi, cacheVars, tool, calls, nackcnt, pending, unsure>>

\* The functions, made of these datagrams: by configured address, and, in the EEPROM tool, by position.
Transaction == PollAnswered \/ PollLost \/ WaitExpires \/ ClearErrors \/ GiveCommand
ecx_readeepromFP  == ~tool /\ op.kind \in {"sii", "dump", "read"} /\ (Transaction \/ FetchData)
ecx_readeepromAP  == tool /\ ~Writes /\ (Transaction \/ FetchData)
ecx_writeeepromFP == ~tool /\ Writes /\ (Transaction \/ PutData)
ecx_writeeepromAP == tool /\ Writes /\ (Transaction \/ PutData)
ecx_readeeprom1_Steps == op.kind = "read1" /\ Transaction
ecx_readeeprom2_Steps == op.kind = "read2" /\ (PollAnswered \/ PollLost \/ WaitExpires \/ FetchData)
ecx_eeprom2master == ForceMaster \/ GiveToMaster

-----------------------------------------------------------------------------
(* The calls                                                               *)

\* The slave and place an access of this call addresses, and the call's kind and datum.
Begin(o, first, fail) ==
    /\ pc = "idle" /\ calls < MaxOps
    /\ calls' = calls + 1
    /\ op' = o
    /\ pc' = first
    /\ failed' = fail
    /\ UNCHANGED <<cnt, nackcnt>>

Call(kind, s, a) ==
    [kind |-> kind, s |-> s, a |-> a, data |-> <<s, a, calls + 1>>, eectl |-> eep_pdi[s],
     out |-> Zero, rval |-> 0]

\* No other access to a slave comes between the two halves of a parallel read.
ecx_readeeprom ==
    /\ \E s \in Slaves, a \in Addresses :
        /\ pending[s] = NotPending
        /\ Begin(Call("read", s, a), IF tool THEN "force" ELSE To2master(s), FALSE)
    /\ UNCHANGED <<slaveVars, eep_pdi, cacheVars, tool, pending, troubles, unsure>>

ecx_writeeeprom ==
    /\ \E s \in Slaves, a \in Addresses :
        /\ pending[s] = NotPending
        /\ Begin(Call("write", s, a), IF tool THEN "force" ELSE To2master(s), FALSE)
        /\ doubtful' = IF s = esislave THEN doubtful \cup {a} ELSE doubtful
    /\ UNCHANGED <<slaveVars, eep_pdi, esislave, esimap, esibuf, tool, pending, troubles, unsure>>

\* The EEPROM tool sets the station alias and the checksum of the configuration area.
eeprom_writealias ==
    /\ tool
    /\ \E s \in Slaves : Begin(Call("alias", s, AliasWord), "force", FALSE)
    /\ UNCHANGED <<slaveVars, eep_pdi, cacheVars, tool, pending, troubles, unsure>>

ecx_readeeprom1 ==
    /\ ~tool
    /\ \E s \in Slaves, a \in Addresses : pending[s] = NotPending /\ Begin(Call("read1", s, a), To2master(s), FALSE)
    /\ UNCHANGED <<slaveVars, eep_pdi, cacheVars, tool, pending, troubles, unsure>>

ecx_readeeprom2 ==
    /\ \E s \in Slaves :
        /\ pending[s] # NotPending
        /\ Begin(Call("read2", s, pending[s].a), "wait1", pending[s].failed)
        /\ pending' = [pending EXCEPT ![s] = NotPending]
    /\ UNCHANGED <<slaveVars, eep_pdi, cacheVars, tool, troubles, unsure>>

ecx_esidump ==
    /\ ~tool
    /\ \E s \in Slaves : pending[s] = NotPending /\ Begin(Call("dump", s, 0), To2master(s), FALSE)
    /\ UNCHANGED <<slaveVars, eep_pdi, cacheVars, tool, pending, troubles, unsure>>

ecx_eeprom2pdi_Call ==
    /\ ~tool
    /\ \E s \in Slaves : pending[s] = NotPending /\ Begin(Call("pdi", s, 0), "topdi", FALSE)
    /\ UNCHANGED <<slaveVars, eep_pdi, cacheVars, tool, pending, troubles, unsure>>

\* ecx_siifind, ecx_siistring and the others: they read some bytes and then give the EEPROM back to
\* the PDI if they found it there.
SiiFunction ==
    /\ ~tool
    /\ \E s \in Slaves, a \in Addresses : pending[s] = NotPending /\ Begin(Call("sii", s, a), "byte", FALSE)
    /\ UNCHANGED <<slaveVars, eep_pdi, cacheVars, tool, pending, troubles, unsure>>

\* A byte of the cache, or one behind it, is there at once; another has to be read.
Lookup ==
    \/ /\ op.a \notin Buf
       /\ pc' = "piece"
       /\ op' = [op EXCEPT !.out = <<NotAvailable>>]
    \/ /\ op.a \in esimap'
       /\ pc' = "piece"
       /\ op' = [op EXCEPT !.out = <<esibuf[op.a]>>]
    \/ /\ op.a \in Buf \ esimap'
       /\ pc' = To2master(op.s)
       /\ UNCHANGED op

\* Mutant: the cache is not cleared for another slave.
ecx_siigetbyte_NoSlaveCheck ==
    /\ pc = "byte"
    /\ esislave' = op.s
    /\ UNCHANGED <<esimap, doubtful>>
    /\ Lookup
    /\ UNCHANGED <<slaveVars, eep_pdi, esibuf, tool, calls, cnt, nackcnt, pending, troubles, failed,
                   unsure>>

\* The byte comes from the cache, which belongs to one slave at a time, or from the slave.
ecx_siigetbyte ==
    /\ pc = "byte"
    /\ esislave' = op.s
    /\ IF op.s = esislave THEN UNCHANGED <<esimap, doubtful>> ELSE esimap' = {} /\ doubtful' = {}
    /\ Lookup
    /\ UNCHANGED <<slaveVars, eep_pdi, esibuf, tool, calls, cnt, nackcnt, pending, troubles, failed,
                   unsure>>

\* What was read, or the 0 of a failure, is put into the cache and counts as valid.  All words of an
\* answer are copied, also those behind the end of esibuf and esimap: what they overwrite may be the
\* map, so that any words count as valid until the cache is another slave's.
FillCache ==
    /\ Moves("end", "piece")
    /\ op.kind = "sii"
    /\ LET answer == op.a .. op.a + Width(op.s) - 1
           filled == answer \cap Buf
       IN
        /\ IF answer \subseteq Buf THEN esimap' = esimap \cup filled
           ELSE \E spoilt \in SUBSET Buf : esimap' = spoilt \cup filled
        /\ esibuf' = [w \in Buf |-> IF w \notin filled THEN esibuf[w]
                                   ELSE IF op.out = Zero THEN Zero ELSE op.out[w - op.a + 1]]
        /\ LET before == IF answer \subseteq Buf THEN doubtful ELSE Buf
           IN  doubtful' = IF failed \/ op.s \in unsure THEN before \cup filled ELSE before \ filled
    /\ op' = [op EXCEPT !.out = <<esibuf'[op.a]>>]
    /\ UNCHANGED <<slaveVars, eep_pdi, esislave, tool, calls, cnt, nackcnt, pending, troubles,
                   failed, unsure>>

\* eeprom_writealias: the checksum follows once the alias has been written.
SecondWrite ==
    /\ pc = "end" /\ op.kind = "alias" /\ op.a = AliasWord /\ op.rval = 1
    /\ op' = [op EXCEPT !.a = ChecksumWord, !.rval = 0]
    /\ pc' = "wait1"
    /\ nackcnt' = 0
    /\ UNCHANGED <<slaveVars, eep_pdi, cacheVars, tool, calls, cnt, pending, troubles, failed, unsure>>

\* One access of a call is over.
Ends ==
    /\ pc = "end" /\ op.kind # "sii"
    /\ ~(op.kind = "alias" /\ op.a = AliasWord /\ op.rval = 1)
    /\ pc' = IF op.kind = "dump" THEN "piece" ELSE "done"
    /\ pending' = IF op.kind = "read1" THEN [pending EXCEPT ![op.s] = [a |-> op.a, failed |-> TRUE]] ELSE pending
    /\ UNCHANGED <<slaveVars, eep_pdi, cacheVars, tool, calls, op, cnt, nackcnt, troubles, failed,
                   unsure>>

\* The call goes on with another byte, or the dump with the next words, the first ones behind the size
\* of the cache included.
NextPiece ==
    /\ pc = "piece"
    /\ \E a \in Word :
        /\ op.kind = "dump" => a = op.a + Width(op.s) /\ a <= BufWords
        /\ op.kind = "sii" => a > op.a
        /\ op' = [op EXCEPT !.a = a, !.out = Zero]
    /\ pc' = IF op.kind = "dump" THEN "wait1" ELSE "byte"
    /\ nackcnt' = 0 /\ failed' = FALSE
    /\ UNCHANGED <<slaveVars, eep_pdi, cacheVars, tool, calls, cnt, pending, troubles, unsure>>

\* Mutant: the control is not given back.
LastPiece_NoRestore ==
    /\ Moves("piece", "done")
    /\ UNCHANGED <<slaveVars, eep_pdi, cacheVars, tool, calls, op, cnt, nackcnt, pending, troubles,
                   failed, unsure>>

\* eectl: give the EEPROM back to the PDI; a dump ends here also at an EEPROM that is erased.
LastPiece ==
    /\ Moves("piece", IF op.eectl THEN "topdi" ELSE "done")
    /\ UNCHANGED <<slaveVars, eep_pdi, cacheVars, tool, calls, op, cnt, nackcnt, pending, troubles,
                   failed, unsure>>

Return ==
    /\ Moves("done", "idle")
    /\ op' = Idle
    /\ nackcnt' = 0 /\ failed' = FALSE
    /\ UNCHANGED <<slaveVars, eep_pdi, cacheVars, tool, calls, cnt, pending, troubles, unsure>>

Rest == pc = "idle" /\ calls = MaxOps /\ UNCHANGED vars

Next ==
    \/ \E s \in Slaves : SlaveFinishes(s) \/ PdiTakes(s) \/ SlaveVanishes(s)
    \/ ecx_readeeprom \/ ecx_writeeeprom \/ eeprom_writealias \/ ecx_readeeprom1 \/ ecx_readeeprom2 \/ ecx_esidump
    \/ ecx_eeprom2pdi_Call \/ SiiFunction
    \/ ecx_eeprom2master \/ ecx_eeprom2pdi
    \/ ecx_readeepromFP \/ ecx_readeepromAP \/ ecx_writeeepromFP \/ ecx_writeeepromAP
    \/ ecx_readeeprom1_Steps \/ ecx_readeeprom2_Steps
    \/ ecx_siigetbyte \/ FillCache \/ SecondWrite \/ Ends \/ NextPiece \/ LastPiece \/ Return
    \/ Rest

Spec == Init /\ [][Next]_vars

-----------------------------------------------------------------------------
(* Properties                                                              *)

Excused == failed \/ op.s \in unsure \/ gone # {}

\* Lost datagrams, refusals and slaves of a different width do not show: what a call returns is what
\* stands in the EEPROM at that address, and 0xff only behind the cache.  Excused are accesses that ran
\* out of tries, of time or of refusals, and cached words that were read by such an access, written
\* since, or marked by an answer that did not fit in the cache.
ReadsTrue ==
    /\ pc = "piece" /\ op.kind = "sii" =>
        \/ op.a \in doubtful \/ op.s \in unsure
        \/ op.out = <<IF op.a \in Buf THEN ee[op.s][op.a] ELSE NotAvailable>>
    /\ pc = "piece" /\ op.kind = "dump" /\ ~Excused => op.out = Words(op.s, op.a)
    /\ pc = "done" /\ op.kind \in {"read", "read2"} /\ ~Excused => op.out = Words(op.s, op.a)

\* The words a write is to change.
Targets == {op.a} \cup IF op.kind = "alias" THEN {AliasWord} ELSE {}

\* A write that is reported as done has put its datum into the words it was asked to write and into no
\* other, unless an access ran out of tries or of time; and a write that is not reported did run out of
\* something.  The data of two calls are different.
WriteConfirmed ==
    pc = "done" /\ Writes /\ ~Excused =>
        /\ op.rval = 1
        /\ {w \in Word : ee[op.s][w] = op.data} = Targets

\* Between two calls the master's note of who controls the EEPROM agrees with the slave, and a call
\* that only looks for data leaves the control where it was.
ControlRestored ==
    pc = "done" /\ ~tool /\ op.s \notin unsure =>
        /\ eep_pdi[op.s] <=> cfg[op.s] = "pdi"
        /\ op.kind \in {"sii", "dump"} => eep_pdi[op.s] = op.eectl

=============================================================================

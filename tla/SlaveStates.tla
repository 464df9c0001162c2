---------------------------- MODULE SlaveStates ----------------------------
(***************************************************************************)
(* The slaves' states and the recovery of slaves: ecx_readstate,           *)
(* ecx_statecheck, ecx_writestate (ethercatmain.c), ecx_recover_slave and  *)
(* ecx_reconfig_slave (ethercatconfig.c), called by the monitor thread     *)
(* that the test programs run beside the cyclic thread (ecatcheck).        *)
(*                                                                         *)
(* The slaves 1 .. N hang in a line.  One may lose its power and with it   *)
(* everything the master has written into it, come back, come back as      *)
(* another device, or fall out of OPERATIONAL.  A step is one datagram of  *)
(* the monitor, which may be lost on its way there or back; the writes of  *)
(* the sync managers are one step, and so are those of the FMMUs.  The     *)
(* monitor does not retry: its timeouts are those of one frame.            *)
(***************************************************************************)
EXTENDS Integers, FiniteSets, FiniteSetsExt

CONSTANTS
    N,          \* slaves
    MaxFaults,  \* bound: faults of slaves
    MaxLosses   \* bound: datagrams lost

ASSUME SlaveStatesAssumption == N \in Nat \ {0} /\ MaxFaults \in Nat /\ MaxLosses \in Nat

VARIABLES
    on,           \* which positions have power
    dev,          \* the device at each position, with its registers
    state, islost, configadr,   \* slavelist, per slave
    docheckstate, \* ec_group[].docheckstate
    wkcLow,       \* wkc < expectedWKC, as the cyclic thread saw it last
    mon, slave,   \* the monitor's place in the code and its loop variable
    faults, losses,
    addressLosses,  \* history: datagrams that set or clear a station address and were lost, or
                    \* missed a slave at the temporary address that was cut off at that moment
    fmmuLost        \* history: slaves whose FMMU datagram was lost or sent while they were cut off

statesVars == <<on, dev, state, islost, configadr, docheckstate, wkcLow, mon, slave, faults, losses,
                addressLosses, fmmuLost>>
masterVars == <<state, islost, configadr, docheckstate, wkcLow>>
historyVars == <<addressLosses, fmmuLost>>

Positions == 1 .. N
NONE == 0
INIT == 1
PRE_OP == 2
BOOT == 3
SAFE_OP == 4
OPERATIONAL == 8
ERROR == 16                   \* EC_STATE_ERROR, and EC_STATE_ACK in a request

NoAddress == 0
EC_TEMPNODE == N + 1          \* stands for 0xffff; slave i is configured at address i
Fresh(kind) == [kind |-> kind, adr |-> NoAddress, al |-> INIT, sm |-> FALSE, fmmu |-> FALSE]

StatesInit ==
    /\ on = Positions
    /\ dev = [i \in Positions |-> [kind |-> "own", adr |-> i, al |-> OPERATIONAL, sm |-> TRUE, fmmu |-> TRUE]]
    /\ state = [i \in Positions |-> OPERATIONAL]
    /\ islost = [i \in Positions |-> FALSE]
    /\ configadr = [i \in Positions |-> i]
    /\ docheckstate = FALSE
    /\ wkcLow = FALSE
    /\ mon = "sleep"
    /\ slave = 1
    /\ faults = 0
    /\ losses = 0
    /\ addressLosses = 0
    /\ fmmuLost = {}

-----------------------------------------------------------------------------
(* The bus and the slaves (external)                                       *)

Reached == {i \in Positions : 1 .. i \subseteq on}
At(adr) == {i \in Reached : dev[i].adr = adr}

\* What becomes of a datagram: executed by the slaves in "to", and answered or not.
Deliveries(to) ==
    {[to |-> to, answered |-> TRUE, lost |-> FALSE]}
        \cup IF losses < MaxLosses
             THEN {[to |-> {}, answered |-> FALSE, lost |-> TRUE], [to |-> to, answered |-> FALSE, lost |-> TRUE]}
             ELSE {}
Counted(d) == losses' = IF d.lost THEN losses + 1 ELSE losses
Wkc(d) == IF d.answered THEN Cardinality(d.to) ELSE -1

\* The AL state machine of a slave: INIT always, ERROR only left by INIT or with an acknowledge, and
\* SAFE_OP not without sync managers.
AfterRequest(r, v) ==
    CASE v = INIT -> [r EXCEPT !.al = INIT]
      [] v = SAFE_OP + ERROR /\ r.al = SAFE_OP + ERROR -> [r EXCEPT !.al = SAFE_OP]
      [] v = PRE_OP /\ r.al = INIT -> [r EXCEPT !.al = PRE_OP]
      [] v = SAFE_OP /\ r.al = PRE_OP -> [r EXCEPT !.al = IF r.sm THEN SAFE_OP ELSE PRE_OP + ERROR]
      [] v = OPERATIONAL /\ r.al = SAFE_OP -> [r EXCEPT !.al = OPERATIONAL]
      [] OTHER -> r

WriteAll(d, W(_)) == dev' = [i \in Positions |-> IF i \in d.to THEN W(dev[i]) ELSE dev[i]]
Request(d, v) == WriteAll(d, LAMBDA r : AfterRequest(r, v))
SetAddress(d, adr) ==
    /\ WriteAll(d, LAMBDA r : [r EXCEPT !.adr = adr])
    /\ addressLosses' = IF d.lost \/ \E i \in on \ Reached : dev[i].adr = EC_TEMPNODE
                        THEN addressLosses + 1 ELSE addressLosses

PowerFails ==
    /\ faults < MaxFaults
    /\ faults' = faults + 1
    /\ \E i \in on : on' = on \ {i} /\ dev' = [dev EXCEPT ![i] = Fresh("none")]
    /\ UNCHANGED <<masterVars, mon, slave, losses, historyVars>>

\* The power comes back, or another device is in its place; the right one may still follow.
PowerReturns ==
    /\ \E i \in Positions \ on :
        \E kind \in {"own"} \cup IF faults < MaxFaults THEN {"foreign"} ELSE {} :
            /\ on' = on \cup {i}
            /\ dev' = [dev EXCEPT ![i] = Fresh(kind)]
            /\ faults' = IF kind = "foreign" THEN faults + 1 ELSE faults
            /\ fmmuLost' = fmmuLost \ {i}
    /\ UNCHANGED <<masterVars, mon, slave, losses, addressLosses>>

FallsOut ==
    /\ faults < MaxFaults
    /\ faults' = faults + 1
    /\ \E i \in on : dev[i].al = OPERATIONAL /\ dev' = [dev EXCEPT ![i].al = SAFE_OP + ERROR]
    /\ UNCHANGED <<on, masterVars, mon, slave, losses, historyVars>>

-----------------------------------------------------------------------------
(* The cyclic thread: the working counter of the process data              *)

Delivers(i) == i \in Reached /\ dev[i].al = OPERATIONAL /\ dev[i].fmmu
Cycle ==
    /\ wkcLow' = \E i \in Positions : ~Delivers(i)
    /\ UNCHANGED <<on, dev, state, islost, configadr, docheckstate, mon, slave, faults, losses, historyVars>>

-----------------------------------------------------------------------------
(* ecx_readstate                                                           *)

Goto(from, to) == mon = from /\ mon' = to

\* The monitor wakes up when process data are missing or the last round left something open.
Wake ==
    /\ Goto("sleep", "brd")
    /\ wkcLow \/ docheckstate
    /\ docheckstate' = FALSE
    /\ UNCHANGED <<on, dev, state, islost, configadr, wkcLow, slave, faults, losses, historyVars>>

Bits(x) == {b \in {1, 2, 4, 8, 16} : (x \div b) % 2 = 1}
BitOr(S) == SumSet(UNION {Bits(x) : x \in S})

\* One broadcast read gives the OR of the states.  If all slaves answer, none with the error bit,
\* and the OR is the number of a state, they are all said to be in it.
ReadStateBroadcast ==
    /\ mon = "brd"
    /\ \E d \in Deliveries(Reached) :
        /\ Counted(d)
        /\ LET or == IF d.answered THEN BitOr({dev[i].al : i \in d.to}) ELSE 0 IN
            IF Wkc(d) >= N /\ or \in {INIT, PRE_OP, BOOT, SAFE_OP, OPERATIONAL}
            THEN /\ state' = [i \in Positions |-> or]
                 /\ mon' = "scan"
            ELSE /\ mon' = "multi"
                 /\ UNCHANGED state
    /\ slave' = 1
    /\ UNCHANGED <<on, dev, islost, configadr, docheckstate, wkcLow, faults, historyVars>>

\* ecx_FPRD_multi: one datagram per slave, all in one frame; a slave that is not there leaves the 0
\* that was sent, and so do all of them when the frame is lost.
ReadStateEach ==
    /\ Goto("multi", "scan")
    /\ \E d \in Deliveries(Reached) :
        /\ Counted(d)
        /\ state' = [i \in Positions |->
                        IF d.answered /\ At(configadr[i]) # {} THEN dev[Max(At(configadr[i]))].al ELSE NONE]
    /\ UNCHANGED <<on, dev, islost, configadr, docheckstate, wkcLow, slave, faults, historyVars>>

-----------------------------------------------------------------------------
(* The loop of ecatcheck over the slaves                                   *)

Scan(next) ==
    /\ Goto("scan", next)
    /\ docheckstate' = (docheckstate \/ state[slave] # OPERATIONAL)
    /\ UNCHANGED <<on, dev, islost, configadr, wkcLow, slave, faults, historyVars>>

ScanOperational ==
    /\ state[slave] = OPERATIONAL
    /\ Scan("lost?")
    /\ UNCHANGED <<state, losses>>

\* ecx_writestate: SAFE_OP with the error bit is acknowledged, SAFE_OP is sent to OPERATIONAL.
ScanWriteState ==
    /\ state[slave] \in {SAFE_OP, SAFE_OP + ERROR}
    /\ mon = "scan"
    /\ docheckstate' = TRUE
    /\ state' = [state EXCEPT ![slave] = IF @ = SAFE_OP THEN OPERATIONAL ELSE SAFE_OP + ERROR]
    /\ \E d \in Deliveries(At(configadr[slave])) : Counted(d) /\ Request(d, state'[slave])
    /\ mon' = "lost?"
    /\ UNCHANGED <<on, islost, configadr, wkcLow, slave, faults, historyVars>>

ScanReconfig ==
    /\ state[slave] \notin {OPERATIONAL, SAFE_OP, SAFE_OP + ERROR, NONE}
    /\ Scan("init")
    /\ UNCHANGED <<state, losses>>

\* ecx_statecheck: what the last of its reads brings, 0 if that was not answered.
StateCheck(result) ==
    \E d \in Deliveries(At(configadr[slave])) :
        /\ Counted(d)
        /\ result = IF d.answered /\ d.to # {} THEN dev[Max(d.to)].al ELSE NONE
        /\ state' = [state EXCEPT ![slave] = result]

ScanRecheck ==
    /\ state[slave] = NONE /\ ~islost[slave]
    /\ mon = "scan"
    /\ docheckstate' = TRUE
    /\ \E result \in 0 .. 31 :
        /\ StateCheck(result)
        /\ islost' = [islost EXCEPT ![slave] = (result = NONE)]
    /\ mon' = "lost?"
    /\ UNCHANGED <<on, dev, configadr, wkcLow, slave, faults, historyVars>>

ScanLost ==
    /\ state[slave] = NONE /\ islost[slave]
    /\ Scan("lost?")
    /\ UNCHANGED <<state, losses>>

\* The second half of the loop body: a lost slave is recovered, or has been found.
LostOrFound ==
    /\ mon = "lost?"
    /\ islost' = [islost EXCEPT ![slave] = @ /\ state[slave] = NONE]
    /\ mon' = IF islost'[slave] THEN "recover" ELSE "next"
    /\ UNCHANGED <<on, dev, state, configadr, docheckstate, wkcLow, slave, faults, losses, historyVars>>

NextSlave ==
    /\ Goto("next", IF slave = N THEN "sleep" ELSE "scan")
    /\ slave' = IF slave = N THEN 1 ELSE slave + 1
    /\ UNCHANGED <<on, dev, masterVars, faults, losses, historyVars>>

-----------------------------------------------------------------------------
(* ecx_reconfig_slave                                                      *)

\* One state request, then what ecx_statecheck finds.
RequestState(from, to, v) ==
    /\ Goto(from, to)
    /\ \E d \in Deliveries(At(configadr[slave])) : Counted(d) /\ Request(d, v)
    /\ UNCHANGED <<on, masterVars, slave, faults, historyVars>>

\* Only the request for INIT has to be answered.
ReconfigInit ==
    /\ mon = "init"
    /\ \E d \in Deliveries(At(configadr[slave])) :
        /\ Counted(d) /\ Request(d, INIT)
        /\ mon' = IF Wkc(d) <= 0 THEN "lost?" ELSE "init?"
    /\ UNCHANGED <<on, masterVars, slave, faults, historyVars>>
ReconfigPreOp == RequestState("preop", "preop?", PRE_OP)
ReconfigSafeOp == RequestState("safeop", "safeop?", SAFE_OP)

\* ec_reconfig_slave returns the state it found; anything but NONE ends islost.
Checked(from, want, to) ==
    /\ mon = from
    /\ \E result \in 0 .. 31 :
        /\ StateCheck(result)
        /\ IF result % 16 = want
           THEN mon' = to /\ UNCHANGED islost
           ELSE mon' = "lost?" /\ islost' = [islost EXCEPT ![slave] = @ /\ result % 16 = NONE]
    /\ UNCHANGED <<on, dev, configadr, docheckstate, wkcLow, slave, faults, historyVars>>

CheckInit == Checked("init?", INIT, "sm")
CheckPreOp == Checked("preop?", PRE_OP, "safeop")

\* The FMMUs are programmed whatever the check of SAFE_OP has found.
CheckSafeOp ==
    /\ Goto("safeop?", "fmmu")
    /\ \E result \in 0 .. 31 :
        /\ StateCheck(result)
        /\ islost' = [islost EXCEPT ![slave] = @ /\ result % 16 = NONE]
    /\ UNCHANGED <<on, dev, configadr, docheckstate, wkcLow, slave, faults, historyVars>>

\* Mutant: the sync managers are not written.
ReconfigSM_Skip ==
    /\ Goto("sm", "preop")
    /\ UNCHANGED <<on, dev, masterVars, slave, faults, losses, historyVars>>

\* Whether these writes arrive is not looked at.
ReconfigSM ==
    /\ Goto("sm", "preop")
    /\ \E d \in Deliveries(At(configadr[slave])) :
        /\ Counted(d)
        /\ WriteAll(d, LAMBDA r : [r EXCEPT !.sm = TRUE])
    /\ UNCHANGED <<on, masterVars, slave, faults, historyVars>>

ReconfigFMMU ==
    /\ Goto("fmmu", "lost?")
    /\ \E d \in Deliveries(At(configadr[slave])) :
        /\ Counted(d)
        /\ WriteAll(d, LAMBDA r : [r EXCEPT !.fmmu = TRUE])
        /\ fmmuLost' = IF d.lost \/ d.to = {} THEN fmmuLost \cup {slave} ELSE fmmuLost \ d.to
    /\ UNCHANGED <<on, masterVars, slave, faults, addressLosses>>

-----------------------------------------------------------------------------
(* ecx_recover_slave                                                       *)

\* The slave at this position is asked for its address.  Only one without an address is taken up.
RecoverAddress ==
    /\ mon = "recover"
    /\ \E d \in Deliveries({slave} \cap Reached) :
        /\ Counted(d)
        /\ LET found == Wkc(d) > 0 /\ dev[slave].adr = configadr[slave] IN
            /\ islost' = [islost EXCEPT ![slave] = ~found]
            /\ mon' = IF ~found /\ Wkc(d) > 0 /\ dev[slave].adr = NoAddress THEN "clear" ELSE "next"
    /\ UNCHANGED <<on, dev, state, configadr, docheckstate, wkcLow, slave, faults, historyVars>>

\* The temporary address is taken from whoever has it.
Clear(from, to) ==
    /\ Goto(from, to)
    /\ \E d \in Deliveries(At(EC_TEMPNODE)) : Counted(d) /\ SetAddress(d, NoAddress)
    /\ UNCHANGED <<on, state, islost, docheckstate, wkcLow, slave, faults, fmmuLost>>

ClearTemporary == Clear("clear", "temp") /\ UNCHANGED configadr
GiveUp == Clear("unset", "next") /\ UNCHANGED configadr

SetTemporary ==
    /\ mon = "temp"
    /\ \E d \in Deliveries({slave} \cap Reached) :
        /\ Counted(d) /\ SetAddress(d, EC_TEMPNODE)
        /\ IF Wkc(d) <= 0
           THEN mon' = "unset" /\ UNCHANGED configadr
           ELSE mon' = "identify" /\ configadr' = [configadr EXCEPT ![slave] = EC_TEMPNODE]
    /\ UNCHANGED <<on, state, islost, docheckstate, wkcLow, slave, faults, fmmuLost>>

\* Mutant: any slave is taken for the one that was lost.
Identify_Any ==
    /\ Goto("identify", "adopt")
    /\ \E d \in Deliveries(At(EC_TEMPNODE)) : Counted(d)
    /\ UNCHANGED <<on, dev, masterVars, slave, faults, historyVars>>

\* Alias, product, vendor and revision are compared.  A read that fails makes the slave a wrong one;
\* when two slaves answer at the address, either may win.
Identify ==
    /\ mon = "identify"
    /\ \E d \in Deliveries(At(EC_TEMPNODE)) :
        /\ Counted(d)
        /\ \E same \in BOOLEAN :
            /\ same => d.answered /\ \E i \in d.to : dev[i].kind = "own"
            /\ ~same => ~d.answered \/ d.to = {} \/ \E i \in d.to : dev[i].kind # "own"
            /\ mon' = IF same THEN "adopt" ELSE "remove"
    /\ UNCHANGED <<on, dev, masterVars, slave, faults, historyVars>>

\* The slave gets its address back, and the master its own note of it.  The result is not 0 when the
\* frame is lost: the monitor takes that for a success too.
Adopt ==
    /\ Goto("adopt", "next")
    /\ \E d \in Deliveries(At(EC_TEMPNODE)) :
        /\ Counted(d) /\ SetAddress(d, slave)
        /\ islost' = [islost EXCEPT ![slave] = Wkc(d) = 0]
    /\ configadr' = [configadr EXCEPT ![slave] = slave]
    /\ UNCHANGED <<on, state, docheckstate, wkcLow, slave, faults, fmmuLost>>

Remove ==
    /\ Clear("remove", "next")
    /\ configadr' = [configadr EXCEPT ![slave] = slave]

-----------------------------------------------------------------------------
(* The specification                                                       *)

ecx_readstate == Wake \/ ReadStateBroadcast \/ ReadStateEach
ecatcheck ==
    ScanOperational \/ ScanWriteState \/ ScanReconfig \/ ScanRecheck \/ ScanLost \/ LostOrFound \/ NextSlave
ecx_reconfig_slave ==
    \/ ReconfigInit \/ CheckInit \/ ReconfigSM \/ ReconfigPreOp \/ CheckPreOp
    \/ ReconfigSafeOp \/ CheckSafeOp \/ ReconfigFMMU
ecx_recover_slave ==
    RecoverAddress \/ ClearTemporary \/ SetTemporary \/ GiveUp \/ Identify \/ Adopt \/ Remove
Monitor == ecx_readstate \/ ecatcheck \/ ecx_reconfig_slave \/ ecx_recover_slave

StatesNext == PowerFails \/ PowerReturns \/ FallsOut \/ Cycle \/ Monitor

\* The two threads run for ever, with osal_usleep between their rounds.
StatesSpec == StatesInit /\ [][StatesNext]_statesVars /\ WF_statesVars(Monitor) /\ WF_statesVars(Cycle)

-----------------------------------------------------------------------------
(* Properties                                                              *)

\* A slave's configured address belongs to one device, the right one: neither a device in another's
\* place nor the detour over the temporary address brings two devices to one address, or a foreign
\* one to a slave's.  It takes two address writes of the recovery that miss their slave to break this: one that
\* removes a device from the temporary address or sets its own, and the one that clears this address
\* later.
AddressesKept ==
    addressLosses < 2 =>
        \A i \in Positions : dev[i].adr \in {NoAddress, EC_TEMPNODE} \/ (dev[i].adr = i /\ dev[i].kind = "own")

\* The monitor brings slaves back without help: in the end all of them are OPERATIONAL with their
\* process data, as long as their devices are there.  Lost frames only delay it, except for two
\* kinds of datagram that nobody repeats: one of the recovery's address writes, after which the
\* slave stays at the temporary address, and an FMMU's in the reconfiguration.
Resumes ==
    []<>(\/ \A i \in Positions : Delivers(i) /\ dev[i].adr = i
         \/ on # Positions \/ \E i \in Positions : dev[i].kind # "own"
         \/ addressLosses > 0 \/ fmmuLost # {}
         \/ \A i \in Positions : dev[i].adr = NoAddress)

=============================================================================

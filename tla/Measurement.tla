----------------------------- MODULE Measurement -----------------------------
(***************************************************************************)
(* The measuring programs of test/linux/simple_test: simple_test and       *)
(* cycle_test, which sleep for a while after every cycle, test and         *)
(* cycle_test_2, which wake up at absolute times, and latency_test, which  *)
(* does not sleep and prints its histogram in a thread of its own.         *)
(*                                                                         *)
(* simpletest, run by the main thread, takes the slaves to OPERATIONAL,    *)
(* exchanges process data, and takes them back to INIT.  Beside it run the *)
(* thread ecatcheck (module SlaveStates has it in detail; here one slave   *)
(* stands for all) and, in latency_test, print_hist.  Time passes in the   *)
(* steps of the main thread, in microseconds; a second has Sec of them.    *)
(***************************************************************************)
EXTENDS Integers, FiniteSetsExt

CONSTANTS
    Sec,        \* microseconds in a second
    INTERVAL,   \* microseconds between two absolute times to wake up at
    TARGET,     \* what latency_test takes off a period
    HIST_MAX,   \* the last bin of the histogram but the one for all above
    Bases,      \* times the first cycle may begin at
    Delays,     \* how long the scheduler may be late, and an exchange take
    Cycles,     \* bound: cycles of the loop
    Chances,    \* exchanges in which the slaves may reach OPERATIONAL
    MaxFaults   \* bound: frames lost and slaves that leave OPERATIONAL

ASSUME MeasurementAssumption ==
    /\ Sec \in Nat \ {0} /\ INTERVAL \in 1 .. Sec - 1
    /\ HIST_MAX \in Nat \ {0} /\ Bases \subseteq Nat /\ Delays \subseteq Nat

VARIABLES
    program,    \* which of the programs
    pc,         \* the next step of the main thread
    i, chk,     \* the cycle; the chances left
    target,     \* target_ts: [sec, nsec]
    base,       \* history: the time target_ts started from
    now,        \* the monotonic clock
    t0,         \* t0 of the cycle tests, prev of latency_test
    hist,       \* the histogram
    slow,       \* history: cycles whose measure had at least HIST_MIN
    inOP, wkc, docheckstate,   \* shared with ecatcheck; wkc: is it the one expected
    mon, seen,  \* the step of ecatcheck; the state it has read
    isRunning, printer,        \* the print thread of latency_test
    slave, asked,              \* AL state of the slave; a state it is asked to take
    faults,     \* history: faults so far
    overlapped, \* history: ecatcheck was in a scan when inOP was cleared
    unheard     \* history: the request for INIT at the end was lost

clock == <<target, base, now, t0>>
measure == <<hist, slow>>
monitor == <<docheckstate, mon, seen>>
print == <<isRunning, printer>>
bus == <<slave, asked, faults>>
ending == <<overlapped, unheard>>
vars == <<program, pc, i, chk, clock, measure, inOP, wkc, monitor, print, bus, ending>>

Programs == {"simple_test", "cycle_test", "cycle_test_2", "test", "latency_test"}
Absolute == {"test", "cycle_test_2"}   \* wake up at absolute times, have a bin for all above HIST_MAX
Monitored == Programs \ {"cycle_test_2"}
HIST_MIN == 1
Bins == HIST_MIN .. HIST_MAX + 1

Goto(from, to) == pc = from /\ pc' = to
Timespec(t) == [sec |-> t \div Sec, nsec |-> t % Sec]
Ticks(ts) == ts.sec * Sec + ts.nsec

Init ==
    /\ program \in Programs
    /\ pc = "init" /\ i = 0 /\ chk = Chances
    /\ now \in Bases /\ base = now /\ target = Timespec(now) /\ t0 = now
    /\ hist = [k \in Bins |-> 0] /\ slow = 0
    /\ inOP = FALSE /\ wkc = FALSE /\ docheckstate = FALSE
    /\ mon = "sleep" /\ seen = "SAFE_OP"
    /\ isRunning = FALSE /\ printer = "none"
    /\ slave = "INIT" /\ asked = "INIT" /\ faults = 0 /\ overlapped = FALSE /\ unheard = FALSE

-----------------------------------------------------------------------------
(* The environment                                                         *)

Fault == faults < MaxFaults /\ faults' = faults + 1

\* The slave takes the state it was asked to take, when that is the next one up.
SlaveRises ==
    /\ asked = "OPERATIONAL" /\ slave = "SAFE_OP"
    /\ slave' = "OPERATIONAL" /\ asked' = "SAFE_OP"
    /\ UNCHANGED <<program, pc, i, chk, clock, measure, inOP, wkc, monitor, print, faults, ending>>

\* The slave leaves OPERATIONAL by itself, or loses its power for a moment.
SlaveFalls ==
    /\ slave = "OPERATIONAL" /\ Fault
    /\ slave' \in {"SAFE_OP", "INIT"}
    /\ UNCHANGED <<program, pc, i, chk, clock, measure, inOP, wkc, monitor, print, asked, ending>>

\* Process data goes round: the counter is the expected one when the slave is OPERATIONAL and no frame
\* is lost.
Exchange(full) ==
    \/ full = (slave = "OPERATIONAL") /\ UNCHANGED faults
    \/ full = FALSE /\ Fault

\* ec_writestate; a request that is lost is not noticed.
Written(state) ==
    /\ IF state = "INIT" THEN slave' = "INIT" /\ asked' = "INIT" ELSE asked' = state /\ UNCHANGED slave
    /\ UNCHANGED faults
NotWritten == Fault /\ UNCHANGED <<slave, asked>>

-----------------------------------------------------------------------------
(* simpletest                                                              *)

\* ec_init fails: the program ends.  ec_config_init finds no slave: the socket is closed.
EcInit ==
    /\ Goto("init", "config") \/ Goto("init", "done") \/ Goto("init", "close")
    /\ UNCHANGED <<program, i, chk, clock, measure, inOP, wkc, monitor, print, bus, ending>>

\* Slaves mapped, and in SAFE_OP or not (the result of ec_statecheck is not looked at); one exchange,
\* and OPERATIONAL is requested.
RequestOperational ==
    /\ Goto("config", "wait")
    /\ slave' \in {"SAFE_OP", "INIT"}
    /\ \/ asked' = "OPERATIONAL" /\ UNCHANGED faults
       \/ asked' = "SAFE_OP" /\ Fault
    /\ UNCHANGED <<program, i, chk, clock, measure, inOP, wkc, monitor, print, ending>>

\* One turn of the loop that waits for OPERATIONAL; chk-- && state != OPERATIONAL.
WaitOperational ==
    /\ pc = "wait"
    /\ pc' = IF slave = "OPERATIONAL" THEN "begin" ELSE IF chk > 0 THEN "wait" ELSE "reset"
    /\ chk' = IF chk > 0 THEN chk - 1 ELSE chk
    /\ UNCHANGED <<program, i, clock, measure, inOP, wkc, monitor, print, bus, ending>>

\* Operational state reached: the monitor may begin, the base of the absolute times is taken, and
\* latency_test starts its print thread.
BeginCycles ==
    /\ Goto("begin", "cycle")
    /\ inOP' = TRUE
    /\ target' = Timespec(now) /\ base' = now /\ t0' = now
    /\ IF program = "latency_test" THEN isRunning' = TRUE /\ printer' = "sleep" ELSE UNCHANGED print
    /\ UNCHANGED <<program, i, chk, now, measure, wkc, monitor, bus, ending>>

\* Mutant: the carry is taken one late.
Advanced_NoCarry(ts) ==
    IF ts.nsec + INTERVAL > Sec THEN [sec |-> ts.sec + 1, nsec |-> ts.nsec + INTERVAL - Sec]
                                ELSE [ts EXCEPT !.nsec = @ + INTERVAL]

\* target_ts, one interval later.
Advanced(ts) ==
    IF ts.nsec + INTERVAL >= Sec THEN [sec |-> ts.sec + 1, nsec |-> ts.nsec + INTERVAL - Sec]
                                 ELSE [ts EXCEPT !.nsec = @ + INTERVAL]

\* hist[us]++, above HIST_MAX in the last bin where there is one.
Counted(us) ==
    LET bin == IF us <= HIST_MAX THEN us ELSE HIST_MAX + 1 IN
    /\ hist' = IF us >= HIST_MIN /\ (us <= HIST_MAX \/ program \in Absolute)
                 THEN [hist EXCEPT ![bin] = @ + 1] ELSE hist
    /\ slow' = IF us >= HIST_MIN THEN slow + 1 ELSE slow

\* The next cycle of the programs with absolute times: clock_nanosleep returns at target_ts, or at once
\* when that is over, and later as the scheduler wants.  test measures how late it is.
WakeUp ==
    /\ program \in Absolute /\ i < Cycles
    /\ Goto("cycle", "exchange")
    /\ i' = i + 1
    /\ target' = Advanced(target)
    /\ \E d \in Delays :
        /\ now' = Max({now, Ticks(target')}) + d
        /\ t0' = now'
        /\ LET ts == Timespec(now') IN
           IF program = "test"
             THEN Counted((ts.sec - target'.sec) * Sec + (ts.nsec - target'.nsec))
             ELSE UNCHANGED measure
    /\ UNCHANGED <<program, chk, base, inOP, wkc, monitor, print, bus, ending>>

\* The next cycle of the others; latency_test measures the time since the last one.
BeginCycle ==
    /\ program \notin Absolute /\ i < Cycles
    /\ Goto("cycle", "exchange")
    /\ i' = i + 1
    /\ t0' = now
    \* The difference is unsigned: a short period gives a number above every bin.
    /\ IF program = "latency_test" /\ now - t0 >= TARGET THEN Counted(now - t0 - TARGET) ELSE UNCHANGED measure
    /\ UNCHANGED <<program, chk, target, base, now, inOP, wkc, monitor, print, bus, ending>>

\* Send and receive; the cycle tests measure how long it takes.
ExchangeData ==
    /\ Goto("exchange", "rest")
    /\ \E d \in Delays : now' = now + d
    /\ IF program \in {"cycle_test", "cycle_test_2"} THEN Counted(now' - t0) ELSE UNCHANGED measure
    /\ Exchange(wkc')
    /\ UNCHANGED <<program, i, chk, target, base, t0, inOP, monitor, print, slave, asked, ending>>

\* osal_usleep, which waits from now on, so that what a cycle takes adds up.
EndCycle ==
    /\ Goto("rest", "cycle")
    /\ now' = IF program \in {"simple_test", "cycle_test"} THEN now + INTERVAL ELSE now
    /\ UNCHANGED <<program, i, chk, target, base, t0, measure, inOP, wkc, monitor, print, bus, ending>>

\* Mutant: ecatcheck goes on.
LeaveCycles_StillInOP ==
    /\ Goto("cycle", "reset") /\ i = Cycles
    /\ UNCHANGED <<program, i, chk, clock, measure, inOP, wkc, monitor, print, bus, ending>>

\* The loop is over.
LeaveCycles ==
    /\ Goto("cycle", "reset") /\ i = Cycles
    /\ inOP' = FALSE
    /\ overlapped' = (mon # "sleep")
    /\ UNCHANGED <<program, i, chk, clock, measure, wkc, monitor, print, bus, unheard>>

\* Request init state for all slaves.  latency_test joins its print thread before, and clears isRunning
\* only when that has ended.  The slaves may not hear of it.
RequestInit ==
    /\ Goto("reset", "close")
    /\ isRunning => printer = "ended"
    /\ isRunning' = FALSE
    /\ \/ Written("INIT") /\ UNCHANGED unheard
       \/ NotWritten /\ unheard' = TRUE
    /\ UNCHANGED <<program, i, chk, clock, measure, inOP, wkc, monitor, printer, overlapped>>

\* ec_close, and the end of main, with which the other threads end.
Close ==
    /\ Goto("close", "done")
    /\ UNCHANGED <<program, i, chk, clock, measure, inOP, wkc, monitor, print, bus, ending>>

Main ==
    \/ EcInit \/ RequestOperational \/ WaitOperational \/ BeginCycles \/ WakeUp \/ BeginCycle
    \/ ExchangeData \/ EndCycle \/ LeaveCycles \/ RequestInit \/ Close

-----------------------------------------------------------------------------
(* ecatcheck and print_hist                                                *)

\* Something is wrong with a cycle, or was in the last scan.
Notice ==
    /\ mon = "sleep" /\ mon' = "read"
    /\ inOP /\ (~wkc \/ docheckstate)
    /\ docheckstate' = FALSE
    /\ UNCHANGED seen /\ UNCHANGED bus

\* ec_readstate.
ReadState ==
    /\ mon = "read" /\ mon' = "act"
    /\ seen' = slave
    /\ UNCHANGED docheckstate /\ UNCHANGED bus

\* A slave in SAFE_OP is asked to go on, one in INIT is configured again as far as SAFE_OP.
Act ==
    /\ mon = "act" /\ mon' = "sleep"
    /\ docheckstate' = (docheckstate \/ seen # "OPERATIONAL")
    /\ \/ seen = "SAFE_OP" /\ (Written("OPERATIONAL") \/ NotWritten)
       \/ seen = "INIT" /\ slave' = "SAFE_OP" /\ asked' = "SAFE_OP" /\ UNCHANGED faults
       \/ seen = "OPERATIONAL" /\ UNCHANGED bus
    /\ UNCHANGED seen

Ecatcheck ==
    /\ program \in Monitored /\ pc # "done"
    /\ Notice \/ ReadState \/ Act
    /\ UNCHANGED <<program, pc, i, chk, clock, measure, inOP, wkc, print, ending>>

\* print_hist, while isRunning: sleep(1), and print.
PrintHist ==
    /\ pc # "done"
    /\ \/ printer = "sleep" /\ printer' = "print"
       \/ printer = "print" /\ printer' = IF isRunning THEN "sleep" ELSE "ended"
    /\ UNCHANGED <<program, pc, i, chk, clock, measure, inOP, wkc, monitor, isRunning, bus, ending>>

Next ==
    \/ Main \/ Ecatcheck \/ PrintHist
    \/ pc # "done" /\ (SlaveRises \/ SlaveFalls)

\* The main thread has a real-time priority or a processor of its own: it runs again and again.
Spec == Init /\ [][Next]_vars /\ WF_vars(Main)

-----------------------------------------------------------------------------
(* Properties                                                              *)

\* The programs with absolute times stay on their grid whatever the scheduler does: cycle i begins at
\* the base plus i intervals or later, never earlier, and after late ones the grid is the old one.
\* Their histograms hold every cycle that was slow.
OnGrid ==
    program \in Absolute =>
        /\ target.nsec \in 0 .. Sec - 1
        /\ inOP => Ticks(target) = base + i * INTERVAL
        /\ pc = "exchange" => t0 >= base + i * INTERVAL
        /\ MapThenSumSet(LAMBDA k : hist[k], Bins) = slow

\* Every program but latency_test ends, whether the slaves reach OPERATIONAL or not, and leaves the
\* slaves it has taken up in INIT, unless the request for INIT was lost or ecatcheck was in the middle
\* of a scan when the loop ended.
ShutsDown ==
    program # "latency_test" =>
        <>[](pc = "done" /\ (slave = "INIT" \/ unheard \/ overlapped))

=============================================================================

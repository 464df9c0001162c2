------------------------------- MODULE Clocks -------------------------------
(***************************************************************************)
(* The calculations of ethercatdc.c: which port of the parent a slave      *)
(* hangs on, its propagation delay from the times latched at the ports,    *)
(* and the start of its sync pulses.  A slave is a record with the fields  *)
(* of ec_slavet; sets of ports stand for the bit masks.                    *)
(***************************************************************************)
EXTENDS Integers, Sequences, FiniteSets, FiniteSetsExt

CONSTANTS
    TimeWidth,   \* bits of a latched time: 32 in the code
    SyncDelay    \* delay of the first sync pulse

ASSUME ClocksAssumption == TimeWidth \in Nat \ {0} /\ SyncDelay \in Nat

Ports == 0 .. 3

\* The value of a signed integer of TimeWidth bits.
Signed(x) == ((x + 2 ^ (TimeWidth - 1)) % 2 ^ TimeWidth) - 2 ^ (TimeWidth - 1)

\* Division by 2 of C, towards zero.
Half(x) == IF x >= 0 THEN x \div 2 ELSE -((-x) \div 2)

FirstOf(order, ports, otherwise) ==
    LET open == SelectSeq(order, LAMBDA p : p \in ports)
    IN  IF open = <<>> THEN otherwise ELSE Head(open)

ecx_porttime(s, port) == s.DCrt[port]

ecx_prevport(s, port) ==
    LET order == [p \in Ports |-> CASE p = 0 -> <<2, 1, 3>> [] p = 1 -> <<3, 0, 2>>
                                    [] p = 2 -> <<1, 3, 0>> [] p = 3 -> <<0, 2, 1>>]
    IN  FirstOf(order[port], s.activeports, port)

\* Mutant: the ports are searched in the order of their numbers.
ecx_parentport_Numeric(s) == FirstOf(<<1, 2, 3, 0>>, s.consumedports, 0)

\* The first port of a parent that no slave has consumed yet, in the order the frame leaves by them.
ecx_parentport(s) == FirstOf(<<3, 1, 2, 0>>, s.consumedports, 0)
Consume(s) == [s EXCEPT !.consumedports = @ \ {ecx_parentport(s)}]

\* The port with the lowest time; a slave that seems to have none gets whatever is on the stack.
EntryPorts(s) ==
    IF s.activeports = {} THEN Ports
    ELSE {FirstOf(<<0, 3, 1, 2>>,
                  {p \in s.activeports : \A q \in s.activeports : s.DCrt[p] <= s.DCrt[q]}, 0)}

\* The nearest slave with a clock above slave i (0: none), and its child on the way to i.
DCParent(sl, i) ==
    LET Up[c \in DOMAIN sl] ==
            IF sl[c].parent = 0 \/ sl[sl[c].parent].hasdc THEN [parent |-> sl[c].parent, child |-> c]
            ELSE Up[sl[c].parent]
    IN  Up[i]

\* The propagation delay of slave i that hangs on the given port of its parent with a clock.
PropagationDelay(sl, i, parent, child, port) ==
    LET p == sl[parent]
        s == sl[i]
        before == ecx_porttime(p, ecx_prevport(p, port))
        dt3 == Signed(ecx_porttime(p, port) - before)
        own == IF s.topology > 1
               THEN Signed(ecx_porttime(s, ecx_prevport(s, s.entryport)) - ecx_porttime(s, s.entryport))
               ELSE 0
        dt1 == IF own > dt3 THEN -own ELSE own
        others == IF child - parent > 1 THEN Signed(before - ecx_porttime(p, p.entryport)) ELSE 0
        dt2 == IF others < 0 THEN -others ELSE others
    IN  Signed(Half(dt3 - dt1) + dt2 + p.pdelay)

\* ecx_configdc for slave i with a clock, its times already read: the slaves after it.
WithClock(sl, i, entry) ==
    LET entered == [sl EXCEPT ![i] = [@ EXCEPT !.entryport = entry, !.consumedports = @ \ {entry}]]
        up == DCParent(entered, i)
        p == entered[up.parent]
        port == IF p.topology = 1 THEN p.entryport ELSE ecx_parentport(p)
        consumed == [entered EXCEPT ![up.parent] = Consume(@)]
    IN  IF up.parent = 0 THEN entered
        ELSE [consumed EXCEPT ![i] = [@ EXCEPT
                !.parentport = port,
                !.pdelay = PropagationDelay(consumed, i, up.parent, up.child, port)]]

\* The same for one without: parenthold is the fork above a branch that has no clock so far.
HeldParent(sl, i, parenthold) ==
    LET parent == sl[i].parent
    IN  IF parent > 0 /\ sl[parent].topology > 2 THEN parent ELSE parenthold
BranchEnds(sl, i, parenthold) == HeldParent(sl, i, parenthold) # 0 /\ sl[i].topology = 1
WithoutClock(sl, i, parenthold) ==
    LET hold == HeldParent(sl, i, parenthold)
        timeless == [sl EXCEPT ![i].DCrt = [p \in Ports |-> 0]]
    IN  IF BranchEnds(sl, i, parenthold) THEN [timeless EXCEPT ![hold] = Consume(@)] ELSE timeless

\* The first pulse after time t1: a multiple of the cycle time, shifted.
SyncStart(t1, cycle, shift) ==
    IF cycle > 0 THEN ((t1 + SyncDelay) \div cycle) * cycle + cycle + shift ELSE t1 + SyncDelay + shift
ecx_dcsync0(t1, act, cycle, shift) ==
    [act |-> IF act THEN {"cyclic", "sync0"} ELSE {}, start |-> SyncStart(t1, cycle, shift),
     cycle0 |-> cycle, cycle1 |-> 0]
\* Not defined for a cycle time of 0: the code divides by it before it looks at it.
TrueCyclTime(cycle0, cycle1) == (cycle1 \div cycle0 + 1) * cycle0
ecx_dcsync01(t1, act, cycle0, cycle1, shift) ==
    [act |-> IF act THEN {"cyclic", "sync0", "sync1"} ELSE {},
     start |-> SyncStart(t1, TrueCyclTime(cycle0, cycle1), shift), cycle0 |-> cycle0, cycle1 |-> cycle1]
=============================================================================

-------------------------------- MODULE EnetTime --------------------------------
(***************************************************************************)
(* Times are counters of 32 bits that wrap; ENET_TIME_OVERFLOW decides     *)
(* which of two is the earlier one.  A host sends a command, looks at its  *)
(* timeout whenever the application services it, and measures the round    *)
(* trip from the 16 bits of the time that come back with an                *)
(* acknowledgement.  age, idle and measured.true are the times that really *)
(* went by.                                                                *)
(***************************************************************************)
EXTENDS Integers

CONSTANTS
    Modulus,        \* 2^32
    Overflow,       \* ENET_TIME_OVERFLOW
    Stamp,          \* 2^16, the range of sentTime in a datagram
    MaxTimeout,     \* the longest roundTripTimeout
    MaxPause,       \* the longest time for which the host is not serviced, a day or less
    MaxEcho         \* the longest time after which an acknowledgement arrives

ASSUME ModulusAssumption ==
    /\ Modulus \in Nat \ {0} /\ Overflow \in Nat \ {0} /\ Stamp \in Nat \ {0}
    /\ Modulus % Stamp = 0 /\ Stamp % 2 = 0
    /\ 2 * Overflow <= Modulus /\ Stamp < Overflow
ASSUME TimesAssumption ==
    /\ MaxTimeout \in Nat \ {0} /\ MaxPause \in Nat /\ MaxEcho \in 0 .. Stamp - 1
    /\ MaxTimeout <= Overflow /\ MaxPause <= Overflow
    /\ 2 * MaxTimeout + MaxPause <= Modulus

VARIABLES
    now,            \* enet_time_get
    outstanding,    \* the command is in sentReliableCommands
    sentTime,       \* outgoingCommand->sentTime
    timeout,        \* outgoingCommand->roundTripTimeout
    nextTimeout,    \* peer->nextTimeout
    age,            \* time since the command was sent last
    idle,           \* time since the host was serviced last
    measured        \* the round trip that was measured last, and the true one

timeVars == <<now, outstanding, sentTime, timeout, nextTimeout, age, idle, measured>>

Word == 0 .. Modulus - 1

\* Faulty: sums are wider than words.
PlusWide(a, b) == a + b

Plus(a, b) == IF a + b < Modulus THEN a + b ELSE a + b - Modulus
Minus(a, b) == IF b <= a THEN a - b ELSE a - b + Modulus

Less(a, b) == Minus(a, b) >= Overflow
GreaterEqual(a, b) == ~ Less(a, b)
Difference(a, b) == IF Minus(a, b) >= Overflow THEN Minus(b, a) ELSE Minus(a, b)

TimeInit ==
    /\ now \in Word
    /\ outstanding = FALSE
    /\ sentTime = 0
    /\ timeout = 1
    /\ nextTimeout = 0
    /\ age = 0
    /\ idle = 0
    /\ measured = [true |-> 0, rtt |-> 1, ignored |-> FALSE]

Advance(d) ==
    /\ idle + d <= MaxPause
    /\ now' = Plus(now, d)
    /\ idle' = idle + d
    /\ age' = IF outstanding THEN age + d ELSE 0
    /\ UNCHANGED <<outstanding, sentTime, timeout, nextTimeout, measured>>

\* enet_protocol_check_outgoing_commands: the command goes out, alone in its list.
SendCommand(t) ==
    /\ outstanding' = TRUE
    /\ sentTime' = now
    /\ timeout' = t
    /\ nextTimeout' = Plus(now, t)
    /\ age' = 0

\* Faulty: a command is due after its timeout.
DueAfter ==
    /\ GreaterEqual(now, nextTimeout)
    /\ Difference(now, sentTime) > timeout

\* enet_protocol_send_outgoing_commands and enet_protocol_check_timeouts look at the command.
Due ==
    /\ GreaterEqual(now, nextTimeout)
    /\ Difference(now, sentTime) >= timeout

\* The application services its host: a command that is due, or a new one, goes out.
ServiceHost(t) ==
    /\ idle' = 0
    /\ IF outstanding /\ ~ Due
       THEN UNCHANGED <<outstanding, sentTime, timeout, nextTimeout, age>>
       ELSE SendCommand(t)
    /\ UNCHANGED <<now, measured>>

\* Faulty: nothing is borrowed from the upper half.
RestoredSame(stamp) == now - (now % Stamp) + stamp

\* The time of which the lower half comes back.
Restored(stamp) ==
    LET time == now - (now % Stamp) + stamp
    IN  IF stamp >= Stamp \div 2 /\ now % Stamp < Stamp \div 2 THEN Minus(time, Stamp) ELSE time

\* enet_protocol_handle_acknowledge, for what was sent e ago: unless it is ignored the command
\* leaves the list.
Acknowledge(e) ==
    LET received == Restored(Minus(now, e) % Stamp)
        ignored == Less(now, received)
        rtt == Difference(now, received)
    IN  /\ measured' = [true |-> e, ignored |-> ignored,
                        rtt |-> IF ignored THEN 1 ELSE IF rtt > 1 THEN rtt ELSE 1]
        /\ outstanding' = (outstanding /\ (ignored \/ e # age))
        /\ age' = IF outstanding /\ (ignored \/ e # age) THEN age ELSE 0
        /\ UNCHANGED <<now, sentTime, timeout, nextTimeout, idle>>

TimeNext ==
    \/ \E d \in 1 .. MaxPause : Advance(d)
    \/ \E t \in 1 .. MaxTimeout : ServiceHost(t)
    \/ \E e \in 0 .. MaxEcho : Acknowledge(e)

TimeSpec == TimeInit /\ [][TimeNext]_timeVars

-----------------------------------------------------------------------------
\* Every variable keeps its type; times are words.
TimeTypeOK ==
    /\ now \in Word
    /\ outstanding \in BOOLEAN
    /\ sentTime \in Word
    /\ timeout \in 1 .. MaxTimeout
    /\ nextTimeout \in Word
    /\ age \in 0 .. MaxPause + MaxTimeout
    /\ idle \in 0 .. MaxPause
    /\ measured \in [true : 0 .. MaxEcho, rtt : Word, ignored : BOOLEAN]

\* Once a host was serviced no command is over its timeout, wherever the counter wraps
\* (protocol.c:1632, 1367): it was sent again, or the peer was given up.
TimeoutSeen == outstanding /\ idle = 0 => age < timeout

\* No command is taken for lost before its timeout (protocol.c:1367, 1632).
NotEarly == outstanding /\ Due => age >= timeout

\* Wrapping counters decide about a timeout as true times would, neither late nor early
\* (time.h:8-15, protocol.c:1367, 1632).
TimeoutsOnTime == TimeoutSeen /\ NotEarly

\* The round trip is the true one or it is not taken: 16 bits are enough for the longest
\* echo, and below half their range no acknowledgement is ignored (protocol.c:861-870).
RoundTripExact ==
    /\ ~ measured.ignored => measured.rtt = IF measured.true > 1 THEN measured.true ELSE 1
    /\ measured.true < Stamp \div 2 => ~ measured.ignored
=============================================================================

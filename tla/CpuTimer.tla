------------------------------ MODULE CpuTimer ------------------------------
(***************************************************************************)
(* The timer of the framework (Timer.cpp, util/Timer.h), which counts CPU  *)
(* ticks and learns from the system's clock how many make a millisecond.   *)
(* DMAEngineWG measures its timeouts with it.                              *)
(*                                                                         *)
(* Time is kept in milliseconds, Second of them to a second.  The clock is *)
(* CLOCK_REALTIME: somebody may set it while a calibration sleeps.         *)
(***************************************************************************)
EXTENDS Integers

CONSTANTS
    Second,     \* milliseconds of a second
    Rate,       \* ticks of a millisecond
    Loops,      \* CALIBRATION_LOOPS
    Sleeps,     \* how long a sleep of the calibration may take
    Delays,     \* waits tried
    MaxTime     \* bound: milliseconds the system is up

VARIABLES
    tick,               \* the time stamp counter
    clock,              \* the system's clock
    ticksPerMs, calibrated,
    pos,                \* idle, sleeping, or waiting
    loops, acc,         \* the calibration's loops that are over, their sum
    begin, startTime,   \* clock and counter when the loop or wait began
    asked, waited,      \* the last wait since: milliseconds asked for, and taken
    stepped             \* history: the clock was set during a calibration

learned == <<ticksPerMs, calibrated>>
calibration == <<loops, acc, begin>>
measure == <<startTime, asked, waited>>
vars == <<tick, clock, learned, pos, calibration, measure, stepped>>

\* struct timespec.
TimeSpec(ms) == [sec |-> ms \div Second, nsec |-> ms % Second]

Init ==
    /\ tick = 0
    /\ clock \in 0 .. Second - 1
    /\ ticksPerMs = 0 /\ calibrated = FALSE
    /\ pos = "idle"
    /\ loops = 0 /\ acc = 0 /\ begin = TimeSpec(0)
    /\ startTime = 0 /\ asked = 0 /\ waited = 0
    /\ stepped = FALSE

\* Time passes (external): d milliseconds, and the clock is off by s more.
Pass(d, s) ==
    /\ tick + Rate * d <= Rate * MaxTime
    /\ tick' = tick + Rate * d
    /\ clock' = clock + d + s
    /\ stepped' = (stepped \/ s # 0)

-----------------------------------------------------------------------------
\* tsDiff and tsAsSeconds.  DiffNoBorrow is a mutation variant.
DiffNoBorrow(b, e) ==
    IF e.nsec < b.nsec
    THEN [sec |-> e.sec - b.sec, nsec |-> (e.nsec + Second) - b.nsec]
    ELSE [sec |-> e.sec - b.sec, nsec |-> e.nsec - b.nsec]

Diff(b, e) ==
    LET d == IF e.nsec < b.nsec
             THEN [sec |-> e.sec - b.sec - 1, nsec |-> (e.nsec + Second) - b.nsec]
             ELSE [sec |-> e.sec - b.sec, nsec |-> e.nsec - b.nsec]
    IN  IF d.nsec > Second
        THEN [sec |-> d.sec + 1, nsec |-> d.nsec - Second]
        ELSE d

AsMillis(t) == t.sec * Second + t.nsec

\* Timer::calibrate: calibrate_loop reads the clock and the counter, ...
Calibrate ==
    /\ pos = "idle"
    /\ pos' = "sleeping"
    /\ loops' = 0 /\ acc' = 0
    /\ begin' = TimeSpec(clock) /\ startTime' = tick
    /\ stepped' = FALSE
    /\ asked' = 0 /\ waited' = 0
    /\ UNCHANGED <<tick, clock, learned>>

\* ... sleeps, and divides the ticks by the time it took.  A signal ends the
\* sleep early: clock_nanosleep returns the error as a positive number, so
\* that the loop around it does not sleep again.
CalibrateLoop ==
    /\ pos = "sleeping"
    /\ \E d \in Sleeps, s \in {0, 1} : Pass(d, s)
    /\ LET e == AsMillis(Diff(begin, TimeSpec(clock')))
           sum == acc + (tick' - startTime) \div e
       IN  /\ acc' = sum
           /\ loops' = loops + 1
           /\ IF loops + 1 < Loops
              THEN pos' = "sleeping" /\ UNCHANGED learned
              ELSE /\ pos' = "idle"
                   /\ ticksPerMs' = sum \div Loops
                   /\ calibrated' = TRUE
    /\ begin' = TimeSpec(clock') /\ startTime' = tick'
    /\ UNCHANGED <<asked, waited>>

\* Timer::wait spins until the counter says so.  Before a calibration the
\* quotient is infinite, or not a number: the wait is over at once.
Wait(d) ==
    /\ pos = "idle"
    /\ pos' = "waiting"
    /\ startTime' = tick
    /\ asked' = d /\ waited' = 0
    /\ UNCHANGED <<tick, clock, learned, calibration, stepped>>

Over == ticksPerMs = 0 \/ tick - startTime >= asked * ticksPerMs

Spin ==
    /\ pos = "waiting" /\ ~Over
    /\ Pass(1, 0)
    /\ UNCHANGED <<learned, pos, calibration, measure>>

WaitOver ==
    /\ pos = "waiting" /\ Over
    /\ pos' = "idle"
    /\ waited' = (tick - startTime) \div Rate
    /\ UNCHANGED <<tick, clock, learned, calibration, startTime, asked, stepped>>

Next ==
    \/ Calibrate \/ CalibrateLoop
    \/ \E d \in Delays : Wait(d)
    \/ Spin \/ WaitOver

Spec == Init /\ [][Next]_vars

-----------------------------------------------------------------------------
TypeOK ==
    /\ tick \in 0 .. Rate * MaxTime /\ clock \in Nat
    /\ ticksPerMs \in Nat /\ calibrated \in BOOLEAN
    /\ pos \in {"idle", "sleeping", "waiting"}
    /\ loops \in 0 .. Loops /\ acc \in Nat
    /\ asked \in Nat /\ waited \in Nat

\* Once calibrated the timer knows the rate, wherever in a second the sleeps
\* began and however long they took, and no wait is over early, as long as
\* nobody sets the clock during a calibration (Timer.cpp:35-139).
TimesTrue ==
    calibrated /\ pos # "sleeping" /\ ~stepped =>
        /\ ticksPerMs = Rate
        /\ pos = "idle" => waited >= asked

-----------------------------------------------------------------------------
\* The inductive invariant: a calibration has the rate once for each loop.
IInv ==
    /\ TypeOK /\ TimesTrue
    /\ startTime \in 0 .. tick
    /\ pos = "sleeping" =>
          /\ begin = TimeSpec(clock) /\ startTime = tick
          /\ loops < Loops /\ asked = 0 /\ waited = 0
          /\ ~stepped => acc = loops * Rate
=============================================================================

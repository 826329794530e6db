----------------------------- MODULE TimeOfDay ------------------------------
(***************************************************************************)
(* The time of day and delays, which share nothing.  gettimeofday() counts *)
(* the ticks of the system clock from the time that settimeofday() noted;  *)
(* a tick may come between any two calls.  alt_busy_sleep() is a delay     *)
(* made of loops that count a register down; delays too long for one loop  *)
(* begin with loops of INT_MAX turns.  An unsigned word of the processor   *)
(* has Word values: the count of ticks wraps, and so does its product.     *)
(***************************************************************************)
EXTENDS Integers

CONSTANTS
  Word,           \* 2^32
  ALT_US,         \* microseconds in a second
  TickRate,       \* ticks in a second, once there is a system clock
  Times,          \* what settimeofday() is given: [sec, usec]
  MaxTicks,       \* bound: ticks that the system runs
  LoopsPerUs,     \* ALT_CPU_FREQ / (cycles_per_loop * 1000000)
  Sleeps,         \* what usleep() is called with, in microseconds
  MaxCalls        \* bound: calls of usleep()

INT_MAX == (Word \div 2) - 1

WallClockAssumption ==
  /\ Word \in Nat \ {0} /\ ALT_US \in Nat \ {0} /\ TickRate \in 1 .. ALT_US
  /\ Times \subseteq [sec : Nat, usec : 0 .. ALT_US - 1]
  /\ MaxTicks \in Nat

BusySleepAssumption ==
  /\ Word \in Nat /\ LoopsPerUs \in 1 .. INT_MAX
  /\ Sleeps \subseteq 0 .. Word - 1 /\ MaxCalls \in Nat

VARIABLES
  ticks, alt_tick_rate, \* ticks so far, and the ticks in a second
  alt_resettime,      \* [sec, usec], not normalised
  tv,                 \* what gettimeofday() answered last
  status,             \* of the last call
  origin              \* the time that was set, and the tick it was set at

VARIABLES
  hoisted,        \* does the compiler keep INT_MAX in a register?
  busy_pc,        \* "idle", "big", "rest"
  us, big_loops,  \* left to wait, and loops of INT_MAX turns to go
  register,       \* the register that the assembler code is given INT_MAX in
  turns,          \* turns so far
  asked, calls    \* the argument, and the number, of the calls

wallVars == <<ticks, alt_tick_rate, alt_resettime, tv, status, origin>>

wall_nticks == ticks % Word
Zero == [sec |-> 0, usec |-> 0]
UsPerTick == ALT_US \div alt_tick_rate

WallInit ==
  /\ ticks = 0 /\ alt_tick_rate = 0
  /\ alt_resettime = Zero /\ tv = Zero /\ status = 0
  /\ origin = [sec |-> 0, usec |-> 0, tick |-> 0]

StartClock ==                            \* alt_sysclk_init()
  /\ alt_tick_rate = 0 /\ alt_tick_rate' = TickRate
  /\ UNCHANGED <<ticks, alt_resettime, tv, status, origin>>

WallTick ==                              \* alt_tick()
  /\ alt_tick_rate > 0 /\ ticks < MaxTicks
  /\ ticks' = ticks + 1
  /\ UNCHANGED <<alt_tick_rate, alt_resettime, tv, status, origin>>

(* Mutant: the microseconds are added.                                     *)
SetAdded(t) ==
  /\ alt_tick_rate > 0
  /\ alt_resettime' =
       [sec  |-> t.sec - wall_nticks \div alt_tick_rate,
        usec |-> t.usec + (((wall_nticks * UsPerTick) % Word) % ALT_US)]
  /\ status' = 0
  /\ origin' = [sec |-> t.sec, usec |-> t.usec, tick |-> ticks]
  /\ UNCHANGED <<ticks, alt_tick_rate, tv>>

(* The product is one of unsigned words; the difference fits a long.       *)
SetTimeOfDay(t) ==
  /\ alt_tick_rate > 0
  /\ alt_resettime' =
       [sec  |-> t.sec - wall_nticks \div alt_tick_rate,
        usec |-> t.usec - (((wall_nticks * UsPerTick) % Word) % ALT_US)]
  /\ status' = 0
  /\ origin' = [sec |-> t.sec, usec |-> t.usec, tick |-> ticks]
  /\ UNCHANGED <<ticks, alt_tick_rate, tv>>

(* What gettimeofday() computes, here in 64 bits, and normalises: it shows *)
(* no time within the second before 0.                                     *)
Normal(sec, usec) ==
  CASE usec \in 0 .. ALT_US - 1 -> [sec |-> sec, usec |-> usec]
    [] usec < 0 /\ sec <= 0     -> Zero
    [] usec < 0 /\ sec > 0      -> [sec |-> sec - 1, usec |-> usec + ALT_US]
    [] usec >= ALT_US           -> [sec |-> sec + 1, usec |-> usec - ALT_US]

Now == Normal(alt_resettime.sec + wall_nticks \div alt_tick_rate,
              alt_resettime.usec + ((wall_nticks * UsPerTick) % ALT_US))

GetTimeOfDay ==
  /\ alt_tick_rate > 0 /\ tv' = Now /\ status' = 0
  /\ UNCHANGED <<ticks, alt_tick_rate, alt_resettime, origin>>

NoClock ==
  /\ alt_tick_rate = 0 /\ status' = -1
  /\ UNCHANGED <<ticks, alt_tick_rate, alt_resettime, tv, origin>>

WallNext ==
  \/ StartClock \/ WallTick \/ GetTimeOfDay \/ NoClock
  \/ \E t \in Times : SetTimeOfDay(t)

WallSpec == WallInit /\ [][WallNext]_wallVars
-----------------------------------------------------------------------------
(* Delays.                                                                 *)

busyVars == <<hoisted, busy_pc, us, big_loops, register, turns, asked, calls>>

Chunk == INT_MAX \div LoopsPerUs         \* microseconds of one big loop

BusyInit ==
  /\ hoisted \in BOOLEAN /\ busy_pc = "idle" /\ us = 0 /\ big_loops = 0 /\ register = 0 /\ turns = 0
  /\ asked = 0 /\ calls = 0

(* Turns of "addi %0,%0,-1; bne %0,zero" and of "...; bgt %0,zero".        *)
BneTurns(n) == IF n = 0 THEN Word ELSE n
BgtTurns(n) == IF n \in 1 .. INT_MAX THEN n ELSE 1

usleep(delay) ==
  /\ busy_pc = "idle" /\ calls < MaxCalls
  /\ us' = delay /\ big_loops' = delay \div Chunk
  /\ register' = INT_MAX /\ turns' = 0
  /\ busy_pc' = IF delay \div Chunk > 0 THEN "big" ELSE "rest"
  /\ asked' = delay /\ calls' = calls + 1 /\ UNCHANGED hoisted

(* The assembler code leaves 0 in its register, of which the compiler is   *)
(* told that it is only read: it may load INT_MAX before every loop, or    *)
(* once.                                                                   *)
BigLoop ==
  /\ busy_pc = "big" /\ big_loops > 0
  /\ turns' = turns + BneTurns(register)
  /\ register' = IF hoisted THEN 0 ELSE INT_MAX
  /\ us' = us - Chunk /\ big_loops' = big_loops - 1
  /\ UNCHANGED <<hoisted, busy_pc, asked, calls>>

Remainder == (us * LoopsPerUs) % Word

LastLoop ==
  /\ busy_pc = "big" /\ big_loops = 0
  /\ turns' = turns + BneTurns(Remainder)
  /\ busy_pc' = "idle"
  /\ UNCHANGED <<hoisted, us, big_loops, register, asked, calls>>

ShortLoop ==
  /\ busy_pc = "rest"
  /\ turns' = turns + BgtTurns(Remainder)
  /\ busy_pc' = "idle"
  /\ UNCHANGED <<hoisted, us, big_loops, register, asked, calls>>

BusyNext == (\E delay \in Sleeps : usleep(delay))
              \/ BigLoop \/ LastLoop \/ ShortLoop

BusySpec == BusyInit /\ [][BusyNext]_busyVars
-----------------------------------------------------------------------------
Microseconds(t) == t.sec * ALT_US + t.usec

WallTypeOK ==
  /\ ticks \in Nat /\ alt_tick_rate \in {0, TickRate}
  /\ alt_resettime.sec \in Int /\ alt_resettime.usec \in 1 - ALT_US .. ALT_US - 1
  /\ tv.sec \in Int /\ tv.usec \in 0 .. ALT_US - 1 /\ status \in {0, -1}

(* settimeofday() makes an immediate gettimeofday() return the time that   *)
(* was set, and a later one this time and what has elapsed since           *)
(* (alt_settod.c).                                                         *)
ElapsedSinceSet ==
  alt_tick_rate > 0 =>
    Microseconds(Now) =
      Microseconds(origin) + ((ticks - origin.tick) * ALT_US) \div alt_tick_rate

(* So it is while the count of ticks has not wrapped since, and for a time *)
(* that was set before the microseconds of the system exceeded a word, of  *)
(* 32 bits: about 71 minutes.  A time that is set later is less than a     *)
(* second off, either way: the product wraps before it is taken modulo a   *)
(* second when the time is set, and does not when it is read.              *)
WithinSecond ==
  alt_tick_rate > 0 /\ ticks \div Word = origin.tick \div Word =>
    LET elapsed_us == (ticks - origin.tick) * UsPerTick
        error == Microseconds(Now) - (Microseconds(origin) + elapsed_us)
    IN  /\ error \in 1 - ALT_US .. ALT_US - 1
        /\ (origin.tick % Word) * UsPerTick < Word => error = 0

(* Elapsed time does not go back: a tick never makes the answer of         *)
(* gettimeofday() an earlier one (alt_gettod.c).                           *)
NeverBack ==
  [][WallTick => Microseconds(Now') >= Microseconds(Now)]_wallVars

BusyTypeOK ==
  /\ hoisted \in BOOLEAN /\ busy_pc \in {"idle", "big", "rest"}
  /\ us \in 0 .. Word - 1 /\ big_loops \in 0 .. Word - 1
  /\ register \in {0, INT_MAX} /\ turns \in Nat

(* Loops that begin with 0 and turn once for every value of a word: big    *)
(* loops but the first, when their count was loaded once, and the last     *)
(* loop of a delay that is a multiple of the big loop's.                   *)
Zeroed(loops) == IF hoisted /\ loops > 1 THEN loops - 1 ELSE 0
FromZero(delay) ==
  Zeroed(delay \div Chunk) + (IF delay > 0 /\ delay % Chunk = 0 THEN 1 ELSE 0)

(* A delay is never shorter than it was asked for, and one microsecond     *)
(* longer at most for every loop, but for the loops that begin with 0.     *)
DelayBounds ==
  busy_pc = "idle" =>
    turns \in asked * LoopsPerUs ..
              asked * LoopsPerUs + (1 + asked \div Chunk) * LoopsPerUs
                + FromZero(asked) * Word

(* A calibrated busy loop (alt_usleep.c): the turns are those of the       *)
(* microseconds, and one microsecond more at most for every big loop.      *)
Calibrated ==
  busy_pc = "idle" =>
    turns \in asked * LoopsPerUs ..
              asked * LoopsPerUs + (1 + asked \div Chunk) * LoopsPerUs
=============================================================================

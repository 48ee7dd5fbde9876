-------------------------------- MODULE Timer -------------------------------
(***************************************************************************)
(* The physical timer of arch/arm64/Interrupt.c and the tick count of      *)
(* kernel/Time/Uptime.c.  The timer asserts its interrupt for as long as   *)
(* the counter has reached the compare value, and writing CNTP_TVAL_EL0    *)
(* sets the compare value to an interval from the counter's present value. *)
(***************************************************************************)
EXTENDS Naturals

CONSTANTS
    Freq,    \* CNTFRQ_EL0: counts of the system counter per second
    Hz,      \* INTERRUPT_FREQUENCY_HZ
    MaxTime  \* bound on the system counter

ASSUME TimerAssumption == /\ Freq \in Nat \ {0}
                          /\ Hz \in Nat \ {0}
                          /\ MaxTime \in Nat

VARIABLES
    now,       \* the system counter, CNTPCT_EL0
    cval,      \* the compare value behind CNTP_TVAL_EL0
    timer_on,  \* CNTP_CTL_EL0: enabled and not masked
    ticks      \* g_ticks_since_boot

timer_vars == <<now, cval, timer_on, ticks>>

\* clock_ticks_per_interrupt.  CNTFRQ_EL0 may hold any frequency, and the division
\* drops a remainder (none with the 62.5 MHz of QEMU and the 54 MHz of the Pi).
Interval == Freq \div Hz

TimerTypeOK == /\ now \in Nat
               /\ cval \in Nat
               /\ timer_on \in BOOLEAN
               /\ ticks \in Nat

\* The architecture leaves the timer's registers unknown at reset.
TimerInit == /\ now = 0
             /\ cval \in {0, Interval}
             /\ timer_on \in BOOLEAN
             /\ ticks = 0

\* The level of the timer's interrupt line.
Expired == timer_on /\ now >= cval

-----------------------------------------------------------------------------
\* A plausible slip: the next tick is armed from the last deadline, not set.
SetTvalForgotten == UNCHANGED cval

\* msr CNTP_TVAL_EL0, clock_ticks_per_interrupt
SetTval == cval' = now + Interval

increment_uptime_by_one_tick == ticks' = ticks + 1

\* Milliseconds since boot, as the shell shows them.
uptime == (1000 * ticks) \div Hz

\* The system counter advances.
Advance == /\ now < MaxTime
           /\ now' = now + 1
           /\ UNCHANGED <<cval, timer_on, ticks>>
=============================================================================

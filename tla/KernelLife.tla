----------------------------- MODULE KernelLife -----------------------------
(***************************************************************************)
(* What the kernel promises to somebody at its serial console: it is up,   *)
(* it counts time that has really passed, and whatever it had to say has   *)
(* left the machine before it halts or goes down.  Once down, only a reset *)
(* brings it back.  KernelCore is shown to implement this.                 *)
(***************************************************************************)
EXTENDS Naturals

CONSTANT Interval  \* counts of the system counter per tick

VARIABLES
    phase,   \* "up", "halted", "going_down", "down" or "reset"
    now,     \* the time that has passed
    ticks,   \* the time the kernel has counted
    unsent   \* characters written that have not left the machine

life_vars == <<phase, now, ticks, unsent>>

LifeInit == phase = "up" /\ now = 0 /\ ticks = 0 /\ unsent = 0

TimePasses == /\ phase # "reset"
              /\ now' = now + 1
              /\ UNCHANGED <<phase, ticks, unsent>>

\* A tick is counted after an interval of its own has passed, and never by a
\* kernel that is going down.
Count == /\ phase \in {"up", "halted"}
         /\ (ticks + 1) * Interval <= now
         /\ ticks' = ticks + 1
         /\ UNCHANGED <<phase, now, unsent>>

\* A halted kernel says nothing more.
Say == /\ phase \in {"up", "going_down"}
       /\ unsent' = unsent + 1
       /\ UNCHANGED <<phase, now, ticks>>

Transmit == /\ phase # "reset"
            /\ unsent > 0
            /\ unsent' = unsent - 1
            /\ UNCHANGED <<phase, now, ticks>>

Become(from, to) == /\ phase \in from
                    /\ phase' = to
                    /\ UNCHANGED <<now, ticks, unsent>>

Halt == unsent = 0 /\ Become({"up"}, "halted")
GoDown == Become({"up", "halted"}, "going_down")
Stop == unsent = 0 /\ Become({"going_down"}, "down")
Reset == Become({"up", "halted", "going_down", "down"}, "reset")

LifeNext == TimePasses \/ Count \/ Say \/ Transmit \/ Halt \/ GoDown \/ Stop \/ Reset

LifeSpec == LifeInit /\ [][LifeNext]_life_vars
=============================================================================

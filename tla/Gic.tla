--------------------------------- MODULE Gic --------------------------------
(***************************************************************************)
(* The interrupt controller as arch/arm64/Interrupt.c drives it: the       *)
(* distributor's enable bit of the timer, the two control registers that   *)
(* let interrupts through, the acknowledge register that hands out an      *)
(* identifier, and the end-of-interrupt register that retires it.          *)
(*                                                                         *)
(* Only the timer is enabled by the kernel.  Sources the firmware left     *)
(* enabled may still interrupt: OtherIds.                                  *)
(***************************************************************************)
EXTENDS Naturals

CONSTANT OtherIds  \* identifiers of sources the kernel does not know

TIMER_INTERRUPT_ID == 30
SpuriousId == 1023

ASSUME GicAssumption == OtherIds \subseteq (0..1019) \ {TIMER_INTERRUPT_ID}

InterruptId == OtherIds \cup {TIMER_INTERRUPT_ID, SpuriousId}

VARIABLES
    enabled,  \* GICD_ISENABLER0 has the timer's bit, with its priority
    forward,  \* GICC_PMR, GICD_CTLR and GICC_CTLR let interrupts through
    pending,  \* unknown sources asking for service
    active    \* identifiers acknowledged and not yet retired

gic_vars == <<enabled, forward, pending, active>>

GicTypeOK == /\ enabled \in BOOLEAN
             /\ forward \in BOOLEAN
             /\ pending \subseteq OtherIds
             /\ active \subseteq InterruptId

\* The boot firmware may have left anything enabled.
GicInit == /\ enabled \in BOOLEAN
           /\ forward \in BOOLEAN
           /\ pending = {}
           /\ active = {}

\* What the controller would hand out while the timer's line is at `line`.
\* An active interrupt of the same priority holds the others back.
Deliverable(line) ==
    IF forward /\ active = {}
    THEN pending \cup {i \in {TIMER_INTERRUPT_ID} : enabled /\ line}
    ELSE {}

-----------------------------------------------------------------------------
\* iar & 0x3ff, read from GICC_IAR.
Acknowledge(iar, line) ==
    /\ IF Deliverable(line) = {} THEN iar = SpuriousId
                                 ELSE iar \in Deliverable(line)
    /\ active' = active \cup ({iar} \ {SpuriousId})
    /\ pending' = pending \ {iar}
    /\ UNCHANGED <<enabled, forward>>

\* A plausible slip: the interrupt is never retired.
EndOfInterruptForgotten(iar) == UNCHANGED gic_vars

\* GICC_EOIR = iar
EndOfInterrupt(iar) == /\ active' = active \ {iar}
                       /\ UNCHANGED <<enabled, forward, pending>>

-----------------------------------------------------------------------------
(* The devices behind the controller.                                      *)

Raise(i) == /\ i \notin pending
            /\ pending' = pending \cup {i}
            /\ UNCHANGED <<enabled, forward, active>>

\* A level that drops before it is acknowledged: the read then says spurious.
Withdraw(i) == /\ i \in pending
               /\ pending' = pending \ {i}
               /\ UNCHANGED <<enabled, forward, active>>
=============================================================================

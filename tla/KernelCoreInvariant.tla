------------------------- MODULE KernelCoreInvariant ------------------------
(***************************************************************************)
(* The inductive invariant of KernelCore, in the parts it is proved in:    *)
(* which code runs at which level, when interrupts are unmasked, what the  *)
(* compare register promises, which readings of the transmitter's flags    *)
(* can be relied on, which interrupt is active, what is left of the machine*)
(* once a fatal exception is in progress, and whose report it is.          *)
(***************************************************************************)
EXTENDS KernelCore

\* The steps of kernel_init up to the one that unmasks interrupts.
EarlyStep == {"timer_diag", "set_tval", "set_ctl", "set_gicd", "set_gicc", "unmask"}

InThread == {"poll", "put"} \cup ThreadStep \cup RebootStep \cup HaltStep
InAbort  == {"stub", "read", "poll", "put"} \cup FatalStep \cup HaltStep
InIrq    == InAbort \cup IrqStep \cup {"eret"}
InCall   == InAbort \cup CallStep \cup RebootStep \cup {"eret"}

\* Level l's code has started the fatal report.
Reporting(l) == after[l] = "diagnosed"

\* The thread runs kernel_init and the client; its messages return into them.
ThreadShape ==
    /\ pc[0] \in InThread
    /\ after[0] \in {"none", "set_tval", "parse", "client", "flush_empty"}
    /\ pc[0] \in PrintStep => after[0] # "none"
    /\ cause[0] = "none"

\* The first frame is an interrupt, a call or an abort, and runs its code only.
FirstFrameShape ==
    depth > 0 =>
        /\ cause[1] \in {"irq", "svc", "abort"}
        /\ cause[1] = "irq" => /\ pc[1] \in InIrq
                               /\ after[1] \in {"none", "diagnosed"}
        /\ cause[1] = "svc" => /\ pc[1] \in InCall
                               /\ after[1] \in {"none", "reboot", "clear", "diagnosed"}
                               /\ pc[0] = "client"
        /\ cause[1] = "abort" => /\ pc[1] \in InAbort
                                 /\ after[1] \in {"none", "diagnosed"}
        /\ pc[1] \in PrintStep => after[1] # "none"
        /\ pc[1] \in EntryStep \cup IrqStep \cup {"syscall", "check", "mark", "mask"}
               => after[1] = "none"
        /\ pc[1] = "clear" => after[1] = "clear"
        /\ pc[1] = "eret" => ~Reporting(1)
        /\ pc[1] = "eret" => \/ cause[1] = "irq" /\ iar[1] = TIMER_INTERRUPT_ID
                             \/ cause[1] = "svc" /\ x8 = "echo"
        /\ pc[1] \in {"tick", "rearm"} => iar[1] = TIMER_INTERRUPT_ID
        /\ after[1] = "clear" => x8 = "echo"

\* Every frame above the first is an abort: handlers are masked and make no calls.
UpperShape ==
    \A l \in 2..MaxDepth : l <= depth =>
        /\ cause[l] = "abort"
        /\ pc[l] \in InAbort
        /\ after[l] \in {"none", "diagnosed"}
        /\ pc[l] \in PrintStep => Reporting(l)

\* Nothing is left of a frame that is not on the stack.
FreeShape == \A l \in Level : l > depth => /\ pc[l] = "none" /\ after[l] = "none"
                                           /\ cause[l] = "none"

\* On its way into handle_exception a synchronous exception still has its own
\* syndrome in ESR_EL1.
EntryShape == pc[depth] \in EntryStep => cause[depth] \in {"irq", esr}

Counting == \A l \in Level : pc[l] = "put" => todo[l] > 0

Shape == /\ ThreadShape /\ FirstFrameShape /\ UpperShape /\ FreeShape
         /\ EntryShape /\ Counting

-----------------------------------------------------------------------------
\* The thread has not unmasked interrupts yet.
Early == \/ pc[0] \in EarlyStep
         \/ pc[0] \in PrintStep /\ after[0] = "set_tval"

\* Interrupts are unmasked in the thread after initialize_timer and nowhere else,
\* and the devices are ready by then.  Frames that return were entered unmasked.
Masking ==
    /\ depth = 0 => (imask <=> Early)
    /\ depth > 0 => imask
    /\ depth = 1 => elr = 0
    /\ depth > 0 /\ cause[1] # "abort" => ~Early
    /\ depth = 1 /\ cause[1] # "abort" => ~spsr
    /\ pc[0] \in {"set_gicd", "set_gicc", "unmask"} => timer_on
    /\ pc[0] \in {"set_gicc", "unmask"} => enabled
    /\ pc[0] = "unmask" => forward
    /\ ~Early => timer_on /\ enabled /\ forward

-----------------------------------------------------------------------------
\* CNTP_TVAL_EL0 has been written.
Armed == ~Early \/ pc[0] \in {"set_ctl", "set_gicd", "set_gicc", "unmask"}

\* The compare value leaves room for one more tick, except while the handler has
\* counted a tick and not yet armed the next.
TimeKept ==
    /\ ticks * Interval <= now
    /\ ~Armed => ticks = 0
    /\ Armed /\ pc[1] # "rearm" => (ticks + 1) * Interval <= cval
    /\ pc[1] = "tick" => Armed /\ cval <= now

-----------------------------------------------------------------------------
\* What level l has read from the transmitter's flags still holds: the room it is
\* about to use, the silence it went to sleep in.
ClaimHolds(l) == /\ pc[l] = "put" => ~TXFF
                 /\ pc[l] = "sleep" => ~BUSY

\* A claim outlives an interruption, unless what ran since never returns to it.
ClaimsKept ==
    /\ \/ ClaimHolds(0)
       \/ depth > 1
       \/ depth = 1 /\ (cause[1] = "abort" \/ GoingDown(1))
    /\ \A l \in Frame : ClaimHolds(l) \/ depth > l

-----------------------------------------------------------------------------
\* Only the first frame acknowledges interrupts, one, and retires it at "eoi".
Retired == active # {} => /\ depth >= 1
                          /\ pc[1] \in {"tick", "rearm", "eoi"}
                          /\ active \subseteq {iar[1]}

-----------------------------------------------------------------------------
\* With the flag set, the first frame is past the point of return, or another
\* frame sits on top of it.
PointOfNoReturn ==
    /\ in_progress = 1 =>
          \/ depth > 1
          \/ depth = 1 /\ (pc[1] \in {"mask", "diagnosed"} \cup HaltStep
                           \/ (pc[1] \in PrintStep /\ Reporting(1)))
    /\ pc[depth] = "mark" => in_progress = 0
    /\ pc[depth] = "mask" => in_progress = 1 /\ reporter = 0
    /\ in_progress = 0 => reporter = 0

-----------------------------------------------------------------------------
\* Somebody who has set the flag is still at the report or has finished it, only the
\* reporter is past its start, and the reporter never leaves it but to halt.
Reported(k) == Diagnosing(k) \/ (reporter = k /\ reported)

ReportsKept ==
    /\ in_progress = 1 => \E k \in Frame : k <= depth /\ Reported(k)
    /\ \A k \in Frame : Diagnosing(k) /\ pc[k] # "mask" => reporter = k
    /\ reporter # 0 => /\ reporter <= depth
                       /\ pc[reporter] \in PrintStep \cup {"diagnosed"} \cup HaltStep
                       /\ Reporting(reporter)
    /\ StopsAreDiagnosed

\* The conjunction is preserved by every step.
IInv == TypeOK /\ Shape /\ Masking /\ TimeKept /\ ClaimsKept /\ Retired
        /\ PointOfNoReturn /\ ReportsKept
=============================================================================

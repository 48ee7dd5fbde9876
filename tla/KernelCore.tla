------------------------------ MODULE KernelCore ----------------------------
(***************************************************************************)
(* The kernel's one core: the thread that runs kmain, the exceptions that  *)
(* interrupt it and one another, and the devices they share.               *)
(*                                                                         *)
(* Level 0 is the thread; level n is the n-th exception frame on the       *)
(* stack, the entry stub of ExceptionVectors.s and handle_exception running*)
(* in it.  Only level `depth` runs.  An interrupt is taken between any two *)
(* steps of unmasked code, and any step of any level may abort (memread of *)
(* an unmapped address, a stray pointer), up to MaxDepth frames.           *)
(***************************************************************************)
EXTENDS Uart, Timer, Gic

CONSTANTS
    MaxDepth,  \* bound on nested exception frames
    MsgLen,    \* characters of a message
    Boards     \* the platforms: subset of {"virt", "rpi"}

ASSUME CoreAssumption == /\ MaxDepth \in Nat \ {0}
                         /\ MsgLen \in Nat \ {0}
                         /\ Boards \subseteq {"virt", "rpi"}

Level == 0..MaxDepth
Frame == 1..MaxDepth

\* What brought a frame about, and what ESR_EL1 says.  An interrupt does not
\* write ESR_EL1, so the register never says "irq".
Cause == {"none", "irq", "svc", "abort"}
Syndrome == {"unknown", "svc", "abort"}
SystemCall == {"echo", "restart", "panic"}  \* any other, 0x4444, 0x7777

ThreadStep == {"timer_diag", "set_tval", "set_ctl", "set_gicd", "set_gicc",
               "unmask", "parse", "client", "svc"}
EntryStep  == {"stub", "read"}
IrqStep    == {"iar", "tick", "rearm", "eoi"}
CallStep   == {"syscall", "clear"}
FatalStep  == {"check", "mark", "mask", "diagnosed"}
PrintStep  == {"poll", "put"}
RebootStep == {"reboot", "rstc"}
HaltStep   == {"flush_empty", "flush_busy", "sleep"}

Step == {"none", "eret"} \cup ThreadStep \cup EntryStep \cup IrqStep
        \cup CallStep \cup FatalStep \cup PrintStep \cup RebootStep \cup HaltStep

VARIABLES
    power,     \* "on", "armed" (a reset is on its way) or "reset"
    depth,     \* frames on the stack
    pc,        \* by level, its next step
    todo,      \* by level, characters left of the message it prints
    after,     \* by level, where its print returns to
    cause,     \* by level, the exception that pushed it
    syndrome,  \* by level, esr_el1_value
    iar,       \* by level, the interrupt identifier it acknowledged
    x8,        \* the thread's register x8, the system call number
    imask,     \* PSTATE.I
    elr,       \* ELR_EL1: the level an eret returns to
    spsr,      \* SPSR_EL1: the PSTATE.I an eret restores
    esr,       \* ESR_EL1
    in_progress,  \* g_exception_in_progress
    reporter,  \* the level whose diagnostics are on the console, or 0
    reported   \* those diagnostics are complete

cpu_vars == <<imask, elr, spsr, esr>>
report_vars == <<reporter, reported>>
local_vars == <<todo, after, cause, syndrome, iar>>
vars == <<power, depth, pc, local_vars, x8, cpu_vars, in_progress,
          report_vars, uart_vars, timer_vars, gic_vars>>

CoreTypeOK ==
    /\ power \in {"on", "armed", "reset"}
    /\ depth \in Level
    /\ pc \in [Level -> Step]
    /\ todo \in [Level -> 0..MsgLen]
    /\ after \in [Level -> Step]
    /\ cause \in [Level -> Cause]
    /\ syndrome \in [Level -> Syndrome]
    /\ iar \in [Level -> InterruptId]
    /\ x8 \in SystemCall
    /\ imask \in BOOLEAN
    /\ elr \in Level
    /\ spsr \in BOOLEAN
    /\ esr \in Syndrome
    /\ in_progress \in {0, 1}
    /\ reporter \in Level
    /\ reported \in BOOLEAN

\* Every variable of the core and of its devices has a value of its kind, and
\* the frame stack never outgrows what the model can hold.
TypeOK == CoreTypeOK /\ UartTypeOK /\ TimerTypeOK /\ GicTypeOK

\* boot.s has zeroed .bss, set up the vectors and called kmain, with D, A, I
\* and F masked.
Init ==
    /\ power = "on"
    /\ depth = 0
    /\ pc = [l \in Level |-> IF l = 0 THEN "timer_diag" ELSE "none"]
    /\ todo = [l \in Level |-> 0]
    /\ after = [l \in Level |-> "none"]
    /\ cause = [l \in Level |-> "none"]
    /\ syndrome = [l \in Level |-> "unknown"]
    /\ iar = [l \in Level |-> SpuriousId]
    /\ x8 = "echo"
    /\ imask = TRUE /\ elr = 0 /\ spsr = TRUE /\ esr = "unknown"
    /\ in_progress = 0
    /\ reporter = 0 /\ reported = FALSE
    /\ UartInit /\ TimerInit /\ GicInit

-----------------------------------------------------------------------------
(* Control.                                                                *)

soft_vars == <<in_progress, report_vars>>
device_vars == <<uart_vars, timer_vars, gic_vars>>

At(s) == power # "reset" /\ pc[depth] = s

Goto(s) == pc' = [pc EXCEPT ![depth] = s]

\* A step inside the running level: nothing else of the processor changes.
Local == UNCHANGED <<power, depth, x8>>

\* A call of console_print that returns to step s.
StartMessage(s) == /\ Goto("poll")
                   /\ todo' = [todo EXCEPT ![depth] = MsgLen]
                   /\ after' = [after EXCEPT ![depth] = s]
                   /\ UNCHANGED <<cause, syndrome, iar>>

-----------------------------------------------------------------------------
(* console_write: poll TXFF, then write the data register.  Between the    *)
(* two, anything that is not masked may happen.                            *)

\* A plausible slip: the loop runs once more than the message is long.
PollOneMore == /\ At("poll") /\ ~TXFF
               /\ Goto("put")
               /\ Local /\ UNCHANGED <<local_vars, cpu_vars, soft_vars, device_vars>>

Poll == /\ At("poll")
        /\ IF todo[depth] = 0 THEN Goto(after[depth])
                              ELSE ~TXFF /\ Goto("put")
        /\ Local /\ UNCHANGED <<local_vars, cpu_vars, soft_vars, device_vars>>

Put == /\ At("put")
       /\ WriteData
       /\ todo' = [todo EXCEPT ![depth] = @ - 1]
       /\ Goto("poll")
       /\ Local /\ UNCHANGED <<after, cause, syndrome, iar, cpu_vars, soft_vars,
                               timer_vars, gic_vars>>

-----------------------------------------------------------------------------
(* halt: drain the transmitter, then sleep for good.                       *)

\* A plausible slip: the last character may still be in the shift register.
FlushBusyForgotten == /\ At("flush_busy")
                      /\ Goto("sleep")
                      /\ Local /\ UNCHANGED <<local_vars, cpu_vars, soft_vars,
                                              device_vars>>

\* A plausible slip: halt does not drain the transmitter.
HaltUndrained == /\ At("flush_empty")
                 /\ Goto("sleep")
                 /\ Local /\ UNCHANGED <<local_vars, cpu_vars, soft_vars, device_vars>>

\* A plausible slip: the drain waits for an interrupt that the fatal path masks.
FlushByInterrupt == /\ At("flush_empty") /\ TXFE /\ ~imask
                    /\ Goto("flush_busy")
                    /\ Local /\ UNCHANGED <<local_vars, cpu_vars, soft_vars,
                                            device_vars>>

FlushEmpty == /\ At("flush_empty") /\ TXFE
              /\ Goto("flush_busy")
              /\ Local /\ UNCHANGED <<local_vars, cpu_vars, soft_vars, device_vars>>

FlushBusy == /\ At("flush_busy") /\ ~BUSY
             /\ Goto("sleep")
             /\ Local /\ UNCHANGED <<local_vars, cpu_vars, soft_vars, device_vars>>

\* platform_reboot.  On virt the firmware call resets the machine; on rpi the
\* watchdog is started, the reset is requested, and kernel_halt waits for it.
Reboot == /\ At("reboot")
          /\ \E board \in Boards :
                IF board = "virt" THEN power' = "reset" /\ UNCHANGED pc
                                  ELSE Goto("rstc") /\ UNCHANGED power
          /\ UNCHANGED <<depth, x8, local_vars, cpu_vars, soft_vars,
                         device_vars>>

\* A plausible slip: the watchdog runs but no reset is configured.
ResetNotConfigured == /\ At("rstc")
                      /\ Goto("flush_empty")
                      /\ UNCHANGED <<power, depth, x8, local_vars, cpu_vars, soft_vars,
                                     device_vars>>

RequestReset == /\ At("rstc")
                /\ power' = "armed"
                /\ Goto("flush_empty")
                /\ UNCHANGED <<depth, x8, local_vars, cpu_vars, soft_vars,
                               device_vars>>

-----------------------------------------------------------------------------
(* kernel_init, and the foreground client kernel_run calls.                *)

TimerDiagnostics == /\ At("timer_diag")
                    /\ StartMessage("set_tval")
                    /\ Local /\ UNCHANGED <<cpu_vars, soft_vars, device_vars>>

InitSetTval == /\ At("set_tval")
               /\ SetTval
               /\ Goto("set_ctl")
               /\ Local /\ UNCHANGED <<local_vars, cpu_vars, soft_vars, uart_vars,
                                       now, timer_on, ticks, gic_vars>>

InitSetCtl == /\ At("set_ctl")
              /\ timer_on' = TRUE
              /\ Goto("set_gicd")
              /\ Local /\ UNCHANGED <<local_vars, cpu_vars, soft_vars, uart_vars,
                                      now, cval, ticks, gic_vars>>

\* A plausible slip: interrupts are unmasked before the controller is set up.
InitDistributorUnmasking ==
    /\ At("set_gicd")
    /\ enabled' = TRUE
    /\ imask' = FALSE
    /\ Goto("set_gicc")
    /\ Local /\ UNCHANGED <<local_vars, elr, spsr, esr, soft_vars, uart_vars,
                            timer_vars, forward, pending, active>>

InitDistributor ==
    /\ At("set_gicd")
    /\ enabled' = TRUE
    /\ Goto("set_gicc")
    /\ Local /\ UNCHANGED <<local_vars, cpu_vars, soft_vars, uart_vars, timer_vars,
                            forward, pending, active>>

InitCpuInterface ==
    /\ At("set_gicc")
    /\ forward' = TRUE
    /\ Goto("unmask")
    /\ Local /\ UNCHANGED <<local_vars, cpu_vars, soft_vars, uart_vars, timer_vars,
                            enabled, pending, active>>

Unmask == /\ At("unmask")
          /\ imask' = FALSE
          /\ StartMessage("parse")
          /\ Local /\ UNCHANGED <<elr, spsr, esr, soft_vars, device_vars>>

\* parse_device_tree_blob, and the messages of kernel_init after it.  A blob
\* it refuses ends in kernel_panic, with interrupts on.
ParseDeviceTree ==
    /\ At("parse")
    /\ \E next \in {"client", "flush_empty"} : StartMessage(next)
    /\ Local /\ UNCHANGED <<cpu_vars, soft_vars, device_vars>>

\* A command of the shell: it prints, or makes a system call, or panics, or
\* reboots.
Command ==
    /\ At("client")
    /\ \/ /\ \E next \in {"client", "flush_empty"} : StartMessage(next)
          /\ UNCHANGED x8
       \/ /\ x8' \in SystemCall
          /\ Goto("svc")
          /\ UNCHANGED local_vars
       \/ /\ Goto("reboot")
          /\ UNCHANGED <<x8, local_vars>>
    /\ UNCHANGED <<power, depth, cpu_vars, soft_vars, device_vars>>

-----------------------------------------------------------------------------
(* Exception entry.  The processor saves where it was, masks interrupts    *)
(* and runs the stub of the vector table on the same stack.                *)

Enter(c) == /\ depth < MaxDepth
            /\ depth' = depth + 1
            /\ cause' = [cause EXCEPT ![depth + 1] = c]
            /\ elr' = depth
            /\ spsr' = imask
            /\ imask' = TRUE
            /\ UNCHANGED <<power, todo, after, syndrome, iar, x8, soft_vars,
                           device_vars>>

TakeInterrupt == /\ power # "reset"
                 /\ ~imask
                 /\ Deliverable(Expired) # {}
                 /\ Enter("irq")
                 /\ pc' = [pc EXCEPT ![depth + 1] = "stub"]
                 /\ UNCHANGED esr

Svc == /\ At("svc")
       /\ Enter("svc")
       /\ pc' = [pc EXCEPT ![depth] = "client", ![depth + 1] = "stub"]
       /\ esr' = "svc"

Abort == /\ power # "reset"
         /\ pc[depth] # "sleep"
         /\ Enter("abort")
         /\ pc' = [pc EXCEPT ![depth + 1] = "stub"]
         /\ esr' = "abort"

-----------------------------------------------------------------------------
(* handle_exception.                                                       *)

Stub == /\ At("stub")
        /\ Goto("read")
        /\ Local /\ UNCHANGED <<local_vars, cpu_vars, soft_vars, device_vars>>

\* Only a synchronous exception can be a system call, whatever ESR_EL1 says.
Dispatch == IF cause[depth] = "irq" THEN "iar"
            ELSE IF esr = "svc" THEN "syscall"
            ELSE "check"

\* A plausible slip: every exception claims the flag of the fatal ones.
ReadSyndromeMarking ==
    /\ At("read")
    /\ in_progress' = 1
    /\ syndrome' = [syndrome EXCEPT ![depth] = esr]
    /\ Goto(Dispatch)
    /\ Local /\ UNCHANGED <<todo, after, cause, iar, cpu_vars, report_vars, device_vars>>

ReadSyndrome == /\ At("read")
                /\ syndrome' = [syndrome EXCEPT ![depth] = esr]
                /\ Goto(Dispatch)
                /\ Local /\ UNCHANGED <<todo, after, cause, iar, cpu_vars, soft_vars,
                                        device_vars>>

ReadIar == /\ At("iar")
           /\ \E i \in InterruptId :
                /\ Acknowledge(i, Expired)
                /\ iar' = [iar EXCEPT ![depth] = i]
                /\ Goto(IF i = TIMER_INTERRUPT_ID THEN "tick" ELSE "eoi")
           /\ Local /\ UNCHANGED <<todo, after, cause, syndrome, cpu_vars, soft_vars,
                                   uart_vars, timer_vars>>

CountTick == /\ At("tick")
             /\ increment_uptime_by_one_tick
             /\ Goto("rearm")
             /\ Local /\ UNCHANGED <<local_vars, cpu_vars, soft_vars, uart_vars,
                                     now, cval, timer_on, gic_vars>>

\* A plausible slip: the next tick is not armed, and this one stays due.
RearmForgotten == /\ At("rearm")
                  /\ Goto("eoi")
                  /\ Local /\ UNCHANGED <<local_vars, cpu_vars, soft_vars, uart_vars,
                                          timer_vars, gic_vars>>

Rearm == /\ At("rearm")
         /\ SetTval
         /\ Goto("eoi")
         /\ Local /\ UNCHANGED <<local_vars, cpu_vars, soft_vars, uart_vars,
                                 now, timer_on, ticks, gic_vars>>

\* A plausible slip: every interrupt counts as handled.
RetireAlwaysHandled ==
    /\ At("eoi")
    /\ EndOfInterrupt(iar[depth])
    /\ Goto("eret")
    /\ Local /\ UNCHANGED <<local_vars, cpu_vars, soft_vars, uart_vars, timer_vars>>

Retire == /\ At("eoi")
          /\ EndOfInterrupt(iar[depth])
          /\ Goto(IF iar[depth] = TIMER_INTERRUPT_ID THEN "eret" ELSE "check")
          /\ Local /\ UNCHANGED <<local_vars, cpu_vars, soft_vars, uart_vars, timer_vars>>

\* The number is saved_registers[8]: nothing changes the thread's x8 meanwhile.
SystemCallNumber ==
    /\ At("syscall")
    /\ IF x8 = "panic" THEN Goto("check") /\ UNCHANGED local_vars
       ELSE StartMessage(IF x8 = "restart" THEN "reboot" ELSE "clear")
    /\ Local /\ UNCHANGED <<cpu_vars, soft_vars, device_vars>>

ClearInProgress == /\ At("clear")
                   /\ in_progress' = 0
                   /\ Goto("eret")
                   /\ Local /\ UNCHANGED <<local_vars, cpu_vars, report_vars,
                                           device_vars>>

\* A plausible slip: a second fatal exception reports over the first.
CheckNestedForgotten ==
    /\ At("check")
    /\ Goto("mark")
    /\ Local /\ UNCHANGED <<local_vars, cpu_vars, soft_vars, device_vars>>

\* A second fatal exception stops at once and says nothing.
CheckNested == /\ At("check")
               /\ Goto(IF in_progress # 0 THEN "flush_empty" ELSE "mark")
               /\ Local /\ UNCHANGED <<local_vars, cpu_vars, soft_vars, device_vars>>

Mark == /\ At("mark")
        /\ in_progress' = 1
        /\ Goto("mask")
        /\ Local /\ UNCHANGED <<local_vars, cpu_vars, report_vars, device_vars>>

\* mask_all_exceptions_for_fatal_path, and the diagnostics begin.
MaskAndReport == /\ At("mask")
                 /\ imask' = TRUE
                 /\ reporter' = depth
                 /\ StartMessage("diagnosed")
                 /\ Local /\ UNCHANGED <<elr, spsr, esr, in_progress, reported,
                                         device_vars>>

\* A plausible slip: the fatal path returns EXCEPTION_ACTION_RESUME.
DiagnosedResumes == /\ At("diagnosed")
                    /\ reported' = TRUE
                    /\ Goto("eret")
                    /\ Local /\ UNCHANGED <<local_vars, cpu_vars, in_progress, reporter,
                                            device_vars>>

\* The diagnostics are written, and EXCEPTION_ACTION_PANIC makes the stub halt.
Diagnosed == /\ At("diagnosed")
             /\ reported' = TRUE
             /\ Goto("flush_empty")
             /\ Local /\ UNCHANGED <<local_vars, cpu_vars, in_progress, reporter,
                                     device_vars>>

\* The stub restores the registers; eret goes to where ELR_EL1 says.
Eret == /\ At("eret")
        /\ depth' = elr
        /\ imask' = spsr
        /\ pc' = [pc EXCEPT ![depth] = "none"]
        /\ after' = [after EXCEPT ![depth] = "none"]
        /\ cause' = [cause EXCEPT ![depth] = "none"]
        /\ syndrome' = [syndrome EXCEPT ![depth] = "unknown"]
        /\ iar' = [iar EXCEPT ![depth] = SpuriousId]
        /\ UNCHANGED <<power, todo, x8, elr, spsr, esr, soft_vars, device_vars>>

-----------------------------------------------------------------------------
(* The devices and the world.                                              *)

processor_vars == <<power, depth, pc, local_vars, x8, cpu_vars, soft_vars>>

UartShifts == /\ power # "reset" /\ Shift
              /\ UNCHANGED <<processor_vars, timer_vars, gic_vars>>

UartSends == /\ power # "reset" /\ Sent
             /\ UNCHANGED <<processor_vars, timer_vars, gic_vars>>

CounterAdvances == /\ power # "reset" /\ Advance
                   /\ UNCHANGED <<processor_vars, uart_vars, gic_vars>>

SourceChanges == /\ power # "reset"
                 /\ \E i \in OtherIds : Raise(i) \/ Withdraw(i)
                 /\ UNCHANGED <<processor_vars, uart_vars, timer_vars>>

WatchdogResets == /\ power = "armed"
                  /\ power' = "reset"
                  /\ UNCHANGED <<depth, pc, local_vars, x8, cpu_vars, soft_vars,
                                 device_vars>>

-----------------------------------------------------------------------------
\* What the running level does by itself once it has begun something.
InitStep == TimerDiagnostics \/ InitSetTval \/ InitSetCtl \/ InitDistributor
            \/ InitCpuInterface \/ Unmask \/ ParseDeviceTree
HandlerStep == Stub \/ ReadSyndrome \/ ReadIar \/ CountTick \/ Rearm \/ Retire
               \/ SystemCallNumber \/ ClearInProgress \/ CheckNested \/ Mark
               \/ MaskAndReport \/ Diagnosed \/ Eret
OutputStep == Poll \/ Put \/ FlushEmpty \/ FlushBusy \/ Reboot \/ RequestReset

CpuStep == InitStep \/ Svc \/ HandlerStep \/ OutputStep

World == UartShifts \/ UartSends \/ CounterAdvances \/ SourceChanges \/ WatchdogResets

Next == CpuStep \/ Command \/ TakeInterrupt \/ Abort \/ World

Spec == Init /\ [][Next]_vars

\* The processor keeps executing, the transmitter keeps sending and a requested
\* reset comes.  An interrupt that is asked for again and again is taken: the
\* architecture takes an unmasked pending interrupt in finite time.  Nothing makes
\* the user type a command, the counter advance or a device interrupt.
Fairness == /\ WF_vars(CpuStep)
            /\ WF_vars(UartShifts) /\ WF_vars(UartSends)
            /\ WF_vars(WatchdogResets)
            /\ SF_vars(TakeInterrupt)

FairSpec == Spec /\ Fairness
-----------------------------------------------------------------------------
(* Properties.                                                             *)

\* The code of level l is at a step past which it never returns.
GoingDown(l) == \/ pc[l] \in FatalStep \cup RebootStep \cup HaltStep
                \/ after[l] = "diagnosed"
Stopping == \E l \in Frame : GoingDown(l)

\* Level l has begun the fatal report and not finished it.
Diagnosing(l) == \/ pc[l] \in {"mask", "diagnosed"}
                 \/ pc[l] \in PrintStep /\ after[l] = "diagnosed"

\* A handler that is about to return goes back to the level it interrupted, with
\* the interrupt mask that level had.  ELR_EL1 and SPSR_EL1 are not saved by the
\* stub: this holds only because a frame that was itself interrupted never returns.
ReturnsToInterrupted ==
    pc[depth] = "eret" => /\ elr = depth - 1
                          /\ spsr = (depth # 1)

\* Only a timer interrupt and a system call that echoes ever return: an exception
\* the kernel does not understand never silently continues.
OnlyHandledReturn ==
    \A l \in Frame : pc[l] = "eret" =>
        \/ cause[l] = "irq" /\ iar[l] = TIMER_INTERRUPT_ID
        \/ cause[l] = "svc" /\ x8 = "echo"

\* The data register is never written while the FIFO is full.  The check and the
\* write are two steps that an interrupt may separate, so a handler that returns
\* must not have used the room the interrupted code found.
NoOverrun == pc[depth] = "put" => ~TXFF

\* A processor goes to sleep with everything it printed out on the wire, and stays
\* so for as long as that sleep lasts.
SleepsDrained == pc[depth] = "sleep" => ~BUSY

\* Interrupts are unmasked only in the thread, and only when the timer and the
\* interrupt controller are ready for them.
UnmaskedWhenReady == ~imask => depth = 0 /\ timer_on /\ enabled /\ forward

\* While the thread runs no interrupt is left active, so none holds back the timer.
NoInterruptLeftActive == depth = 0 => active = {}

\* A handler that stops the machine has written its diagnostics to the end, or it
\* struck while a lower level was writing them, or it is restarting as asked.
StopsAreDiagnosed ==
    \A l \in Frame : pc[l] \in HaltStep =>
        \/ reporter = l /\ reported
        \/ \E k \in Frame : k < l /\ (Diagnosing(k) \/ (reporter = k /\ reported))
        \/ cause[l] = "svc" /\ power # "on"

\* Milliseconds of uptime never run ahead of the system counter, counted at the
\* frequency clock_ticks_per_interrupt makes of CNTFRQ_EL0: with a multiple of Hz,
\* that is the frequency itself, and otherwise it is less by the remainder.
UptimeNeverAhead == uptime * (Freq - (Freq % Hz)) <= 1000 * now

\* Once a fatal exception is being handled the flag stays set, the thread and the
\* time it sees stay where they are, and nobody else's diagnostics begin.
FatalIsFinal ==
    [][in_progress = 1 => /\ in_progress' = 1
                          /\ pc'[0] = pc[0]
                          /\ ticks' = ticks
                          /\ reporter # 0 => reporter' = reporter]_vars

\* The promise of KernelLife, kept.
Phase == IF power = "reset" THEN "reset"
         ELSE IF Stopping THEN IF pc[depth] = "sleep" THEN "down" ELSE "going_down"
         ELSE IF pc[0] = "sleep" THEN "halted"
         ELSE "up"

Life == INSTANCE KernelLife WITH phase <- Phase, unsent <- Unsent

\* Output is drained before the kernel halts or goes down, a kernel that is down
\* stays down, and ticks are counted by a live kernel after their time.
ImplementsLife == Life!LifeSpec

\* An expired timer is served, again and again, unless the machine goes down.
TimerServed == (Expired /\ ~imask) ~> (~Expired \/ in_progress = 1 \/ power # "on")

\* A fatal exception ends with the processor asleep, whatever its diagnostics
\* still had to push through the transmitter.
FatalReachesSleep == in_progress = 1 ~> (pc[depth] = "sleep" \/ power = "reset")

\* A restart that is asked for happens, unless something fatal comes between.
RestartHappens == (\E l \in Level : pc[l] \in RebootStep)
                    ~> (power = "reset" \/ in_progress = 1)

\* What Halt.h promises: a processor that executed halt executes nothing more.
HaltedExecutesNothing == [][pc[0] = "sleep" => depth' = depth]_vars

\* What handle_exception sets out to save: the class it reports is that of the
\* exception it reports, and not that of an earlier one.
ReportsOwnClass == reporter # 0 => syndrome[reporter] \in {"unknown", cause[reporter]}
=============================================================================

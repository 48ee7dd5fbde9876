------------------------- MODULE KernelCoreShape_proof ------------------------
(***************************************************************************)
(* Proofs about KernelCore: every step keeps the types, the shape of the   *)
(* frame stack (which code may run at which level) and the interrupt       *)
(* masking.  KernelCore_proof builds on these lemmas.                      *)
(*                                                                         *)
(* Each lemma named after a part of the invariant, ...Step, says that part *)
(* is preserved, with one step per group of actions.                       *)
(***************************************************************************)
EXTENDS KernelCoreInvariant, TLAPS

\* The two-valued state, apart from the rest: the provers want Booleans in steps of
\* their own.
Bools == /\ imask \in BOOLEAN /\ spsr \in BOOLEAN /\ reported \in BOOLEAN
         /\ shifting \in BOOLEAN /\ timer_on \in BOOLEAN
         /\ enabled \in BOOLEAN /\ forward \in BOOLEAN

\* The state that ranges over numbers, sets and functions.
Values ==
    /\ power \in {"on", "armed", "reset"}
    /\ depth \in Level
    /\ pc \in [Level -> Step]
    /\ todo \in [Level -> 0..MsgLen]
    /\ after \in [Level -> Step]
    /\ cause \in [Level -> Cause]
    /\ syndrome \in [Level -> Syndrome]
    /\ iar \in [Level -> InterruptId]
    /\ x8 \in SystemCall
    /\ elr \in Level
    /\ esr \in Syndrome
    /\ in_progress \in {0, 1}
    /\ reporter \in Level
    /\ fifo \in 0..FifoDepth
    /\ now \in Nat /\ cval \in Nat /\ ticks \in Nat
    /\ pending \subseteq OtherIds /\ active \subseteq InterruptId

\* clock_ticks_per_interrupt is a number of counts.
LEMMA IntervalType == Interval \in Nat
  BY TimerAssumption DEF Interval

\* The type invariant, split for the provers.
LEMMA Parts == TypeOK <=> Values /\ Bools
  BY DEF TypeOK, CoreTypeOK, UartTypeOK, TimerTypeOK, GicTypeOK, Values, Bools

\* Every step leaves a Boolean in each two-valued variable.
LEMMA BoolStep == ASSUME Bools, [Next]_vars PROVE Bools'
<1> USE DEF Bools
<1>0. CASE UNCHANGED vars
  BY <1>0 DEF vars, cpu_vars, report_vars, uart_vars, timer_vars, gic_vars
<1>1. CASE InitStep
  BY <1>1 DEF InitStep, TimerDiagnostics, InitSetTval, InitSetCtl, InitDistributor,
       InitCpuInterface, Unmask, ParseDeviceTree, cpu_vars, soft_vars, report_vars,
       device_vars, uart_vars, timer_vars, gic_vars
<1>2. CASE HandlerStep
  BY <1>2 DEF HandlerStep, Stub, ReadSyndrome, ReadIar, CountTick, Rearm, Retire,
       SystemCallNumber, ClearInProgress, CheckNested, Mark, MaskAndReport, Diagnosed, Eret,
       Acknowledge, EndOfInterrupt, cpu_vars, soft_vars, report_vars,
       device_vars, uart_vars, timer_vars, gic_vars
<1>3. CASE OutputStep
  BY <1>3 DEF OutputStep, Poll, Put, WriteData, FlushEmpty, FlushBusy, Reboot, RequestReset,
       cpu_vars, soft_vars, report_vars, device_vars, uart_vars, timer_vars, gic_vars
<1>4. CASE Svc \/ Command \/ TakeInterrupt \/ Abort
  BY <1>4 DEF Svc, Command, TakeInterrupt, Abort, Enter, cpu_vars, soft_vars,
       report_vars, device_vars, uart_vars, timer_vars, gic_vars
<1>5. CASE World
  BY <1>5 DEF World, UartShifts, UartSends, CounterAdvances, SourceChanges, WatchdogResets,
       Shift, Sent, Advance, Raise, Withdraw, processor_vars, cpu_vars, soft_vars,
       report_vars, device_vars, uart_vars, timer_vars, gic_vars
<1> QED
  BY <1>0, <1>1, <1>2, <1>3, <1>4, <1>5 DEF Next, CpuStep

\* Each group of step names is made of step names.
LEMMA Steps ==
    /\ {"none", "eret"} \subseteq Step /\ ThreadStep \subseteq Step /\ EntryStep \subseteq Step
    /\ IrqStep \subseteq Step /\ CallStep \subseteq Step /\ FatalStep \subseteq Step
    /\ PrintStep \subseteq Step /\ RebootStep \subseteq Step /\ HaltStep \subseteq Step
  BY DEF Step

\* The step names one by one, as the actions mention them.
LEMMA StepNames ==
    /\ \A s \in {"timer_diag", "set_tval", "set_ctl", "set_gicd", "set_gicc", "unmask",
                 "parse", "client", "svc"} : s \in Step
    /\ \A s \in {"none", "stub", "read", "iar", "tick", "rearm", "eoi", "syscall", "clear",
                 "eret"} : s \in Step
    /\ \A s \in {"check", "mark", "mask", "diagnosed", "poll", "put", "reboot", "rstc",
                 "flush_empty", "flush_busy", "sleep"} : s \in Step
  BY Steps DEF ThreadStep, EntryStep, IrqStep, CallStep, FatalStep, PrintStep, RebootStep,
     HaltStep

\* Going to a step leaves every level at a step.
LEMMA GotoType == ASSUME pc \in [Level -> Step], NEW s \in Step, Goto(s)
                  PROVE pc' \in [Level -> Step]
  BY DEF Goto

\* A call of console_print leaves every level with a message of legal length.
LEMMA MessageType ==
    ASSUME Values, NEW s \in Step, StartMessage(s)
    PROVE /\ pc' \in [Level -> Step] /\ todo' \in [Level -> 0..MsgLen]
          /\ after' \in [Level -> Step]
          /\ UNCHANGED <<cause, syndrome, iar>>
<1> MsgLen \in 0..MsgLen
  BY CoreAssumption
<1> QED
  BY StepNames DEF StartMessage, Goto, Values

\* Every step keeps every other variable in its range; the count of a message
\* only drops where a character is written.
LEMMA ValueStep == ASSUME Values, Counting, [Next]_vars PROVE Values'
<1> USE IntervalType, StepNames, GotoType, MessageType
    DEF Values, Local, local_vars, soft_vars, cpu_vars, report_vars, device_vars,
        uart_vars, timer_vars, gic_vars
<1>0. CASE UNCHANGED vars
  BY <1>0 DEF vars
<1>1. CASE InitStep
  BY <1>1 DEF InitStep, TimerDiagnostics, InitSetTval, InitSetCtl, InitDistributor,
       InitCpuInterface, Unmask, ParseDeviceTree, SetTval
<1>2. CASE Poll
  <2>1. after[depth] \in Step
    OBVIOUS
  <2> QED
    BY <1>2, <2>1 DEF Poll
<1>3. CASE Put
  <2>0. pc[depth] = "put"
    BY <1>3 DEF Put, At
  <2>1. depth \in Level /\ todo[depth] \in 0..MsgLen /\ todo[depth] > 0
    BY <2>0 DEF Counting
  <2>2. todo' \in [Level -> 0..MsgLen]
    <3>1. todo[depth] - 1 \in 0..MsgLen
      BY <2>1, CoreAssumption
    <3> QED
      BY <1>3, <2>1, <3>1 DEF Put
  <2>3. fifo' \in 0..FifoDepth
    BY <1>3, FifoAssumption DEF Put, WriteData, TXFF
  <2> QED
    BY <1>3, <2>2, <2>3 DEF Put
<1>4. CASE FlushEmpty \/ FlushBusy \/ Reboot \/ RequestReset
  BY <1>4 DEF FlushEmpty, FlushBusy, Reboot, RequestReset
<1>5. CASE Command
  BY <1>5 DEF Command
<1>6. CASE Svc \/ TakeInterrupt \/ Abort
  <2>1. depth + 1 \in Level /\ depth' = depth + 1 /\ depth \in Level
    BY <1>6, CoreAssumption DEF Svc, TakeInterrupt, Abort, Enter, Level
  <2>2. pc' \in [Level -> Step]
    BY <1>6, <2>1 DEF Svc, TakeInterrupt, Abort
  <2>3. cause' \in [Level -> Cause]
    BY <1>6, <2>1 DEF Svc, TakeInterrupt, Abort, Enter, Cause
  <2> QED
    BY <1>6, <2>1, <2>2, <2>3 DEF Svc, TakeInterrupt, Abort, Enter, Syndrome
<1>7. CASE Stub \/ ReadSyndrome
  <2>1. Dispatch \in Step
    BY DEF Dispatch
  <2> QED
    BY <1>7, <2>1 DEF Stub, ReadSyndrome
<1>8. CASE ReadIar
  BY <1>8 DEF ReadIar, Acknowledge
<1>9. CASE CountTick \/ Rearm \/ Retire
  BY <1>9 DEF CountTick, Rearm, Retire, increment_uptime_by_one_tick, SetTval, EndOfInterrupt
<1>10. CASE SystemCallNumber \/ ClearInProgress \/ CheckNested \/ Mark \/ MaskAndReport \/ Diagnosed
  BY <1>10 DEF SystemCallNumber, ClearInProgress, CheckNested, Mark, MaskAndReport, Diagnosed
<1>11. CASE Eret
  BY <1>11 DEF Eret, Cause, Syndrome, InterruptId
<1>12. CASE World
  <2>1. CASE UartShifts \/ UartSends
    BY <2>1, FifoAssumption DEF UartShifts, UartSends, Shift, Sent, TXFE, processor_vars
  <2>2. CASE CounterAdvances \/ SourceChanges \/ WatchdogResets
    BY <2>2 DEF CounterAdvances, SourceChanges, WatchdogResets,
       Advance, Raise, Withdraw, processor_vars
  <2> QED
    BY <1>12, <2>1, <2>2 DEF World
<1> QED
  BY <1>0, <1>1, <1>2, <1>3, <1>4, <1>5, <1>6, <1>7, <1>8, <1>9, <1>10, <1>11, <1>12
     DEF Next, CpuStep, OutputStep, HandlerStep

\* The steps of the running level, none of which enters or leaves a frame.
RunsOn == InitStep \/ Stub \/ ReadSyndrome \/ ReadIar \/ CountTick \/ Rearm \/ Retire
          \/ SystemCallNumber \/ ClearInProgress \/ CheckNested \/ Mark
          \/ MaskAndReport \/ Diagnosed \/ OutputStep \/ Command

\* Every level but the running one keeps its value of f.
Others(f) == \A l \in Level : l # depth => f'[l] = f[l]

\* The running code works in its own frame: no other frame changes.
LEMMA RunsOnLocal ==
    ASSUME Values, RunsOn
    PROVE  depth' = depth /\ cause' = cause /\ Others(pc) /\ Others(todo) /\ Others(after)
           /\ Others(iar)
<1> USE DEF Values, Others, Goto, StartMessage, Local, local_vars
<1>1. CASE InitStep
  BY <1>1 DEF InitStep, TimerDiagnostics, InitSetTval, InitSetCtl, InitDistributor,
       InitCpuInterface, Unmask, ParseDeviceTree
<1>2. CASE Stub \/ ReadSyndrome \/ ReadIar \/ CountTick \/ Rearm \/ Retire
  BY <1>2 DEF Stub, ReadSyndrome, ReadIar, CountTick, Rearm, Retire
<1>3. CASE SystemCallNumber \/ ClearInProgress \/ CheckNested \/ Mark
          \/ MaskAndReport \/ Diagnosed
  BY <1>3 DEF SystemCallNumber, ClearInProgress, CheckNested, Mark, MaskAndReport, Diagnosed
<1>4. CASE OutputStep
  BY <1>4 DEF OutputStep, Poll, Put, FlushEmpty, FlushBusy, Reboot, RequestReset
<1>5. CASE Command
  BY <1>5 DEF Command
<1> QED
  BY <1>1, <1>2, <1>3, <1>4, <1>5 DEF RunsOn

\* The thread only ever runs kernel_init, the client and their messages.
LEMMA ThreadShapeStep ==
    ASSUME Values, ThreadShape, [Next]_vars
    PROVE  ThreadShape'
<1>0. CASE UNCHANGED vars
  BY <1>0 DEF vars, local_vars, ThreadShape
<1>1. CASE RunsOn /\ depth # 0
  <2>1. 0 \in Level
    BY CoreAssumption DEF Level
  <2>2. pc'[0] = pc[0] /\ after'[0] = after[0] /\ cause'[0] = cause[0]
    BY <1>1, <2>1, RunsOnLocal DEF Others
  <2> QED
    BY <2>2 DEF ThreadShape
<1>2. CASE RunsOn /\ depth = 0
  <2> USE <1>2 DEF ThreadShape, Values, At, Goto, StartMessage, InThread, ThreadStep,
        RebootStep, HaltStep, Local, local_vars
  <2>1. CASE InitStep
    BY <2>1 DEF InitStep, TimerDiagnostics, InitSetTval, InitSetCtl, InitDistributor,
       InitCpuInterface, Unmask, ParseDeviceTree, PrintStep
  <2>2. CASE OutputStep
    BY <2>2 DEF OutputStep, Poll, Put, FlushEmpty, FlushBusy, Reboot, RequestReset, PrintStep
  <2>3. CASE Command
    BY <2>3 DEF Command, PrintStep
  <2>4. ASSUME ~InitStep, ~OutputStep, ~Command PROVE FALSE
    BY <2>4 DEF RunsOn, Stub, ReadSyndrome, ReadIar, CountTick, Rearm, Retire,
       SystemCallNumber, ClearInProgress, CheckNested, Mark, MaskAndReport, Diagnosed
  <2> QED
    BY <2>1, <2>2, <2>3, <2>4
<1>3. CASE Svc \/ TakeInterrupt \/ Abort
  <2>1. depth \in 0..MaxDepth /\ depth + 1 \in Level /\ depth + 1 # 0 /\ 0 \in Level
    BY <1>3, CoreAssumption DEF Svc, TakeInterrupt, Abort, Enter, Values, Level
  <2>2. pc'[0] = pc[0] \/ (pc'[0] = "client" /\ pc[0] = "svc")
    BY <1>3, <2>1 DEF Svc, TakeInterrupt, Abort, Values, At
  <2>3. after' = after /\ cause'[0] = cause[0]
    BY <1>3, <2>1 DEF Svc, TakeInterrupt, Abort, Enter, Values
  <2> QED
    BY <2>2, <2>3 DEF ThreadShape, InThread, ThreadStep, PrintStep
<1>5. CASE Eret
  <2>1. depth # 0 /\ 0 \in Level
    BY <1>5, CoreAssumption DEF Eret, At, ThreadShape, InThread, ThreadStep, RebootStep, HaltStep,
       Level
  <2> QED
    BY <1>5, <2>1 DEF Eret, ThreadShape, Values
<1>4. CASE World
  BY <1>4 DEF World, UartShifts, UartSends, CounterAdvances, SourceChanges, WatchdogResets,
     processor_vars, local_vars, ThreadShape
<1> QED
  BY <1>0, <1>1, <1>2, <1>3, <1>4, <1>5 DEF Next, CpuStep, HandlerStep, RunsOn

\* Arithmetic of the levels.
LEMMA LevelFacts == ASSUME Values
                    PROVE  depth \in Nat /\ depth <= MaxDepth /\ 0 \in Level /\ 1 \in Level
                           /\ 1 \in Frame /\ Level \subseteq Nat /\ Frame \subseteq Level
  BY CoreAssumption DEF Values, Level, Frame

\* What a frame above the first may be doing, for the running one.
LEMMA UpperStep ==
    ASSUME Values, UpperShape, depth >= 2
    PROVE  /\ cause[depth] = "abort"
           /\ pc[depth] \in InAbort
           /\ after[depth] \in {"none", "diagnosed"}
           /\ pc[depth] \in PrintStep => after[depth] = "diagnosed"
  BY LevelFacts DEF UpperShape, Reporting

\* Only the first frame returns, and it returns to the thread.
LEMMA EretFromFirst ==
    ASSUME Values, ThreadShape, UpperShape, Masking, Eret
    PROVE  depth = 1 /\ depth' = 0 /\ pc[1] = "eret"
<1>1. pc[depth] = "eret"
  BY DEF Eret, At
<1>2. depth # 0
  BY <1>1 DEF ThreadShape, InThread, ThreadStep, RebootStep, HaltStep
<1>3. ~(depth >= 2)
  BY <1>1, UpperStep DEF InAbort, FatalStep, HaltStep
<1>4. depth = 1
  BY <1>2, <1>3, LevelFacts
<1> QED
  BY <1>1, <1>4 DEF Eret, Masking

\* What an exception entry pushes.
LEMMA EntersFrame ==
    ASSUME Values, Svc \/ TakeInterrupt \/ Abort
    PROVE  /\ depth' = depth + 1 /\ depth + 1 \in Level /\ depth + 1 \in Frame
           /\ pc'[depth + 1] = "stub"
           /\ \A l \in Level : l # depth + 1 => cause'[l] = cause[l]
           /\ \A l \in Level : l # depth + 1 /\ l # depth => pc'[l] = pc[l]
           /\ after' = after /\ todo' = todo /\ iar' = iar /\ x8' = x8
<1>1. depth' = depth + 1 /\ depth < MaxDepth
  BY DEF Svc, TakeInterrupt, Abort, Enter
<1>2. depth + 1 \in Level /\ depth + 1 \in Frame
  BY <1>1, LevelFacts, CoreAssumption DEF Level, Frame
<1> QED
  BY <1>1, <1>2, LevelFacts DEF Svc, TakeInterrupt, Abort, Enter, Values

\* A handler can only be interrupted by an abort: it is masked and makes no calls.
LEMMA AbortAbove ==
    ASSUME Values, FirstFrameShape, UpperShape, Masking, depth >= 1,
           Svc \/ TakeInterrupt \/ Abort
    PROVE  Abort
<1>1. ~TakeInterrupt
  BY LevelFacts DEF TakeInterrupt, Masking
<1>2. pc[depth] \in InIrq \cup InCall
  <2>1. CASE depth = 1
    BY <2>1 DEF FirstFrameShape, InIrq, InCall
  <2>2. CASE depth >= 2
    BY <2>2, UpperStep DEF InIrq
  <2> QED
    BY <2>1, <2>2, LevelFacts
<1>3. ~Svc
  BY <1>2 DEF Svc, At, InIrq, InCall, InAbort, IrqStep, CallStep, RebootStep, FatalStep,
     HaltStep
<1> QED
  BY <1>1, <1>3

\* A frame that is popped, or was never pushed, is clean.
LEMMA FreeShapeStep ==
    ASSUME Values, ThreadShape, UpperShape, Masking, FreeShape, [Next]_vars
    PROVE  FreeShape'
<1> USE DEF FreeShape
<1>0. CASE UNCHANGED vars
  BY <1>0 DEF vars, local_vars
<1>1. CASE RunsOn
  <2> SUFFICES ASSUME NEW l \in Level, l > depth'
               PROVE  pc'[l] = "none" /\ after'[l] = "none" /\ cause'[l] = "none"
    OBVIOUS
  <2>1. l > depth /\ l # depth
    BY <1>1, RunsOnLocal, LevelFacts
  <2> QED
    BY <1>1, <2>1, RunsOnLocal DEF Others
<1>2. CASE Svc \/ TakeInterrupt \/ Abort
  <2> SUFFICES ASSUME NEW l \in Level, l > depth'
               PROVE  pc'[l] = "none" /\ after'[l] = "none" /\ cause'[l] = "none"
    OBVIOUS
  <2>1. l > depth /\ l # depth + 1 /\ l # depth
    BY <1>2, EntersFrame, LevelFacts
  <2> QED
    BY <1>2, <2>1, EntersFrame
<1>3. CASE Eret
  <2>1. depth = 1 /\ depth' = 0
    BY <1>3, EretFromFirst
  <2> QED
    BY <1>3, <2>1, LevelFacts DEF Eret, Values, Level
<1>4. CASE World
  BY <1>4 DEF World, UartShifts, UartSends, CounterAdvances, SourceChanges, WatchdogResets,
     processor_vars, local_vars
<1> QED
  BY <1>0, <1>1, <1>2, <1>3, <1>4 DEF Next, CpuStep, HandlerStep, RunsOn

\* A nested abort can only run the entry code, the fatal path and the halt.
LEMMA UpperShapeStep ==
    ASSUME Values, ThreadShape, FirstFrameShape, UpperShape, FreeShape, EntryShape, Masking,
           [Next]_vars
    PROVE  UpperShape'
<1> DEFINE Fits(l) == /\ cause[l] = "abort"
                      /\ pc[l] \in InAbort
                      /\ after[l] \in {"none", "diagnosed"}
                      /\ pc[l] \in PrintStep => Reporting(l)
<1> SUFFICES ASSUME NEW l \in 2..MaxDepth, l <= depth' PROVE Fits(l)'
  BY DEF UpperShape
<1>0. l \in Level /\ l \in Nat /\ l >= 2
  BY CoreAssumption DEF Level
<1>01. l <= depth => Fits(l)
  BY DEF UpperShape
<1>02. ASSUME depth' = depth, pc'[l] = pc[l], after'[l] = after[l], cause'[l] = cause[l]
      PROVE Fits(l)'
  BY <1>01, <1>02 DEF Reporting
<1>1. CASE UNCHANGED vars
  BY <1>1, <1>02 DEF vars, local_vars
<1>2. CASE RunsOn /\ depth # l
  BY <1>2, <1>0, <1>02, RunsOnLocal DEF Others
<1>3. CASE RunsOn /\ depth = l
  <2>1. Fits(l)
    BY <1>01, <1>3, <1>0
  <2>2. pc[l] \in InAbort /\ cause[l] = "abort"
    BY <2>1
  <2> HIDE DEF Fits
  <2>3. CASE InitStep \/ Command
    BY <1>3, <2>3, <2>2 DEF InitStep, TimerDiagnostics, InitSetTval, InitSetCtl, InitDistributor,
       InitCpuInterface, Unmask, ParseDeviceTree, Command, At, InAbort, FatalStep, HaltStep
  <2>4. CASE ReadIar \/ CountTick \/ Rearm \/ Retire \/ SystemCallNumber \/ ClearInProgress
             \/ Reboot \/ RequestReset
    BY <1>3, <2>4, <2>2 DEF ReadIar, CountTick, Rearm, Retire, SystemCallNumber,
       ClearInProgress, Reboot, RequestReset, At, InAbort, FatalStep, HaltStep
  <2> USE DEF Fits
  <2>5. CASE Stub
    BY <1>3, <2>5, <2>1, <1>0 DEF Stub, Goto, Values, InAbort, Reporting, local_vars, PrintStep
  <2>6. CASE ReadSyndrome
    <3>1. esr = "abort"
      BY <1>3, <2>6, <2>2 DEF ReadSyndrome, At, EntryShape, EntryStep
    <3>2. Dispatch = "check"
      BY <1>3, <2>2, <3>1 DEF Dispatch
    <3> QED
      BY <1>3, <2>6, <2>1, <3>2, <1>0 DEF ReadSyndrome, Goto, Values, InAbort, FatalStep, Reporting,
         PrintStep
  <2>7. CASE CheckNested \/ Mark \/ Diagnosed \/ FlushEmpty \/ FlushBusy
    BY <1>3, <2>7, <2>1, <1>0 DEF CheckNested, Mark, Diagnosed, FlushEmpty, FlushBusy,
       Goto, Values, InAbort, FatalStep, HaltStep, Reporting, local_vars, PrintStep
  <2>8. CASE MaskAndReport
    BY <1>3, <2>8, <2>1, <1>0 DEF MaskAndReport, StartMessage, Goto, Values, InAbort, Reporting,
         PrintStep
  <2>9. CASE Put
    BY <1>3, <2>9, <2>1, <1>0 DEF Put, At, Goto, Values, InAbort, Reporting,
         PrintStep
  <2>10. CASE Poll
    BY <1>3, <2>10, <2>1, <1>0 DEF Poll, At, Goto, Values, InAbort, FatalStep, Reporting,
         PrintStep, local_vars
  <2> QED
    BY <1>3, <2>3, <2>4, <2>5, <2>6, <2>7, <2>8, <2>9, <2>10 DEF RunsOn, OutputStep
<1>4. CASE Svc \/ TakeInterrupt \/ Abort
  <2>1. depth >= 1
    BY <1>4, <1>0, EntersFrame, LevelFacts
  <2>2. Abort
    BY <1>4, <2>1, AbortAbove
  <2>3. CASE l # depth + 1
    <3>1. pc'[l] = pc[l]
      BY <2>2, <2>3, <1>0 DEF Abort, Values
    <3> QED
      BY <1>4, <2>3, <3>1, <1>0, <1>01, LevelFacts, EntersFrame DEF Reporting
  <2>4. CASE l = depth + 1
    <3>1. after[l] = "none"
      BY <2>4, <1>0, LevelFacts DEF FreeShape
    <3>2. cause'[l] = "abort"
      BY <2>2, <2>4, <1>0 DEF Abort, Enter, Values
    <3> QED
      BY <1>4, <2>4, <3>1, <3>2, EntersFrame DEF InAbort, PrintStep
  <2> QED
    BY <2>3, <2>4
<1>5. CASE Eret
  BY <1>5, EretFromFirst, <1>0
<1>6. CASE World
  BY <1>6, <1>02 DEF World, UartShifts, UartSends, CounterAdvances, SourceChanges, WatchdogResets,
     processor_vars, local_vars
<1> QED
  BY <1>1, <1>2, <1>3, <1>4, <1>5, <1>6 DEF Next, CpuStep, HandlerStep, RunsOn

\* kernel_init and the client run in the thread.
LEMMA CommandAtThread ==
    ASSUME Values, FirstFrameShape, UpperShape, InitStep \/ Command
    PROVE  depth = 0
<1>1. pc[depth] \notin InIrq \cup InCall
  BY DEF InitStep, TimerDiagnostics, InitSetTval, InitSetCtl, InitDistributor, InitCpuInterface,
     Unmask, ParseDeviceTree, Command, At, InIrq, InCall, InAbort, IrqStep, CallStep,
     RebootStep, FatalStep, HaltStep
<1>2. ~(depth >= 2)
  BY <1>1, UpperStep DEF InIrq
<1>3. depth # 1
  BY <1>1 DEF FirstFrameShape, InIrq, InCall
<1> QED
  BY <1>2, <1>3, LevelFacts

\* Only the shell writes the system call number.
LEMMA RunsOnKeepsX8 == ASSUME RunsOn, ~Command PROVE x8' = x8
  BY DEF RunsOn, InitStep, OutputStep, TimerDiagnostics, InitSetTval, InitSetCtl,
     InitDistributor, InitCpuInterface, Unmask, ParseDeviceTree, Stub, ReadSyndrome, ReadIar,
     CountTick, Rearm, Retire, SystemCallNumber, ClearInProgress, CheckNested, Mark,
     MaskAndReport, Diagnosed, Poll, Put, FlushEmpty, FlushBusy, Reboot, RequestReset, Local

\* The first frame runs the code of its own kind of exception, and reaches the
\* return only when that exception is handled.
LEMMA FirstFrameShapeStep ==
    ASSUME Values, ThreadShape, FirstFrameShape, UpperShape, FreeShape, EntryShape, Masking,
           [Next]_vars
    PROVE  FirstFrameShape'
<1>0. 0 \in Level /\ 1 \in Level /\ depth \in Nat
  BY LevelFacts
<1>1. ASSUME depth' > 0 => depth > 0, pc'[0] = pc[0], pc'[1] = pc[1], after'[1] = after[1],
             cause'[1] = cause[1], iar'[1] = iar[1], x8' = x8
      PROVE  FirstFrameShape'
  BY <1>1 DEF FirstFrameShape, Reporting
<1>2. CASE UNCHANGED vars \/ World
  <2>1. UNCHANGED <<depth, pc, local_vars, x8>>
    BY <1>2 DEF vars, World, UartShifts, UartSends, CounterAdvances, SourceChanges,
       WatchdogResets, processor_vars
  <2> QED
    BY <2>1, <1>1 DEF local_vars
<1>3. CASE RunsOn /\ depth = 0
  BY <1>3, RunsOnLocal DEF FirstFrameShape
<1>4. CASE RunsOn /\ depth > 1
  <2>1. ~Command
    BY <1>4, CommandAtThread
  <2> QED
    BY <1>4, <2>1, <1>0, <1>1, RunsOnLocal, RunsOnKeepsX8 DEF Others
<1>5. CASE RunsOn /\ depth = 1
  <2>1. ~Command /\ ~InitStep
    BY <1>5, CommandAtThread
  <2>2. x8' = x8 /\ cause' = cause /\ depth' = 1 /\ pc'[0] = pc[0]
    BY <1>5, <2>1, <1>0, RunsOnLocal, RunsOnKeepsX8 DEF Others
  <2> USE <1>5, <2>2, <1>0 DEF FirstFrameShape, Reporting, At, Goto, Values, InIrq, InCall,
          InAbort, PrintStep, EntryStep, FatalStep, HaltStep, RebootStep, IrqStep, CallStep
  <2>3. CASE Stub
    BY <2>3 DEF Stub, local_vars
  <2>4. CASE ReadSyndrome
    <3>1. cause[1] \in {"irq", esr}
      BY <2>4 DEF ReadSyndrome, EntryShape
    <3> QED
      BY <2>4, <3>1 DEF ReadSyndrome, Dispatch
  <2>5. CASE ReadIar
    BY <2>5 DEF ReadIar
  <2>6. CASE CountTick \/ Rearm
    BY <2>6 DEF CountTick, Rearm, local_vars
  <2>7. CASE Retire
    BY <2>7 DEF Retire, local_vars
  <2>8. CASE SystemCallNumber
    BY <2>8 DEF SystemCallNumber, StartMessage, local_vars, SystemCall
  <2>9. CASE ClearInProgress
    BY <2>9 DEF ClearInProgress, local_vars
  <2>10. CASE CheckNested
    BY <2>10 DEF CheckNested, local_vars
  <2>11. CASE Mark \/ Diagnosed
    BY <2>11 DEF Mark, Diagnosed, local_vars
  <2>12. CASE MaskAndReport
    BY <2>12 DEF MaskAndReport, StartMessage
  <2>13. CASE Poll
    BY <2>13 DEF Poll, local_vars
  <2>14. CASE Put
    BY <2>14 DEF Put
  <2>15. CASE FlushEmpty \/ FlushBusy
    BY <2>15 DEF FlushEmpty, FlushBusy, local_vars
  <2>16. CASE Reboot \/ RequestReset
    BY <2>16 DEF Reboot, RequestReset, local_vars
  <2> HIDE DEF Values
  <2> QED
    BY <1>5, <2>1, <2>3, <2>4, <2>5, <2>6, <2>7, <2>8, <2>9, <2>10, <2>11, <2>12, <2>13,
       <2>14, <2>15, <2>16 DEF RunsOn, OutputStep
<1>6. CASE (Svc \/ TakeInterrupt \/ Abort) /\ depth = 0
  <2>1. cause'[1] \in {"irq", "svc", "abort"}
    BY <1>6, <1>0 DEF Svc, TakeInterrupt, Abort, Enter, Values
  <2>2. after'[1] = "none" /\ pc'[1] = "stub"
    BY <1>6, <1>0, EntersFrame DEF FreeShape
  <2>3. cause'[1] = "svc" => pc'[0] = "client"
    BY <1>6, <1>0 DEF Svc, TakeInterrupt, Abort, Enter, Values
  <2> QED
    BY <2>1, <2>2, <2>3 DEF FirstFrameShape, InIrq, InCall, InAbort, PrintStep, Reporting
<1>7. CASE (Svc \/ TakeInterrupt \/ Abort) /\ depth > 0
  <2>1. Abort /\ depth + 1 # 1 /\ depth + 1 # 0
    BY <1>7, <1>0, AbortAbove
  <2>2. pc'[0] = pc[0] /\ pc'[1] = pc[1]
    BY <2>1, <1>0 DEF Abort, Values
  <2> QED
    BY <1>7, <2>1, <2>2, <1>0, <1>1, EntersFrame
<1>8. CASE Eret
  BY <1>8, EretFromFirst DEF FirstFrameShape
<1> QED
  BY <1>0, <1>2, <1>3, <1>4, <1>5, <1>6, <1>7, <1>8 DEF Next, CpuStep, HandlerStep, RunsOn

\* The places a console_print of the running level returns to.
LEMMA AfterRange ==
    ASSUME Values, ThreadShape, FirstFrameShape, UpperShape
    PROVE  after[depth] \in {"none", "set_tval", "parse", "client", "flush_empty", "reboot",
                             "clear", "diagnosed"}
<1>1. CASE depth = 0
  BY <1>1 DEF ThreadShape
<1>2. CASE depth = 1
  BY <1>2 DEF FirstFrameShape
<1>3. CASE depth >= 2
  BY <1>3, UpperStep
<1> QED
  BY <1>1, <1>2, <1>3, LevelFacts

\* Nothing overwrites ESR_EL1 between an entry and the read of the syndrome that
\* a nested entry would not put on top of it.
LEMMA EntryShapeStep ==
    ASSUME Values, ThreadShape, FirstFrameShape, UpperShape, EntryShape, Masking, [Next]_vars
    PROVE  EntryShape'
<1>1. CASE UNCHANGED vars \/ World
  <2>1. UNCHANGED <<depth, pc, cause, esr>>
    BY <1>1 DEF vars, World, UartShifts, UartSends, CounterAdvances, SourceChanges,
       WatchdogResets, processor_vars, local_vars, cpu_vars
  <2> QED
    BY <2>1 DEF EntryShape
<1>2. CASE Stub
  BY <1>2 DEF Stub, EntryShape, At, EntryStep, Local, local_vars, cpu_vars
<1>3. CASE RunsOn /\ ~Stub
  <2>1. pc'[depth] \notin EntryStep
    <3> USE AfterRange DEF Values, Goto, StartMessage, EntryStep
    <3>1. CASE InitStep \/ Command
      BY <3>1 DEF InitStep, TimerDiagnostics, InitSetTval, InitSetCtl, InitDistributor,
         InitCpuInterface, Unmask, ParseDeviceTree, Command
    <3>2. CASE ReadSyndrome \/ ReadIar \/ CountTick \/ Rearm \/ Retire
      BY <3>2 DEF ReadSyndrome, Dispatch, ReadIar, CountTick, Rearm, Retire
    <3>3. CASE SystemCallNumber \/ ClearInProgress \/ CheckNested \/ Mark \/ MaskAndReport
               \/ Diagnosed
      BY <3>3 DEF SystemCallNumber, ClearInProgress, CheckNested, Mark, MaskAndReport,
         Diagnosed
    <3>4. CASE Poll \/ Put \/ FlushEmpty \/ FlushBusy \/ RequestReset
      BY <3>4 DEF Poll, Put, FlushEmpty, FlushBusy, RequestReset
    <3>5. CASE Reboot
      BY <3>5 DEF Reboot, At
    <3> QED
      BY <1>3, <3>1, <3>2, <3>3, <3>4, <3>5 DEF RunsOn, OutputStep
  <2> QED
    BY <1>3, <2>1, RunsOnLocal DEF EntryShape
<1>4. CASE Svc \/ TakeInterrupt \/ Abort
  <2>0. depth' = depth + 1 /\ depth + 1 \in Level
    BY <1>4, EntersFrame
  <2> USE <2>0 DEF Enter, Values
  <2>1. cause'[depth + 1] \in {"irq", esr'}
    <3>1. CASE Svc
      BY <3>1 DEF Svc
    <3>2. CASE TakeInterrupt
      BY <3>2 DEF TakeInterrupt
    <3>3. CASE Abort
      BY <3>3 DEF Abort
    <3> QED
      BY <1>4, <3>1, <3>2, <3>3
  <2> QED
    BY <2>0, <2>1 DEF EntryShape
<1>5. CASE Eret
  <2>1. depth' = 0 /\ pc'[0] = pc[0]
    BY <1>5, EretFromFirst, LevelFacts DEF Eret, Values
  <2> QED
    BY <2>1 DEF EntryShape, ThreadShape, EntryStep, InThread, ThreadStep, RebootStep, HaltStep
<1> QED
  BY <1>1, <1>2, <1>3, <1>4, <1>5 DEF Next, CpuStep, HandlerStep, RunsOn

\* The write of a character follows a poll that found one left to write.
LEMMA CountingStep ==
    ASSUME Values, ThreadShape, FirstFrameShape, UpperShape, FreeShape, Counting, Masking,
           [Next]_vars
    PROVE  Counting'
<1> SUFFICES ASSUME NEW l \in Level, pc'[l] = "put" PROVE todo'[l] > 0
  BY DEF Counting
<1>0. pc[l] = "put" => todo[l] > 0
  BY DEF Counting
<1>1. CASE UNCHANGED vars \/ World
  <2>1. UNCHANGED <<pc, todo>>
    BY <1>1 DEF vars, World, UartShifts, UartSends, CounterAdvances, SourceChanges,
       WatchdogResets, processor_vars, local_vars
  <2> QED
    BY <2>1, <1>0
<1>2. CASE RunsOn /\ l # depth
  BY <1>2, <1>0, RunsOnLocal DEF Others
<1>3. CASE Poll /\ l = depth
  <2>1. todo[depth] \in 0..MsgLen /\ todo' = todo /\ MsgLen \in Nat
    BY <1>3, CoreAssumption DEF Poll, Values, local_vars
  <2>2. todo[depth] # 0
    BY <1>3, AfterRange DEF Poll, Goto, Values
  <2> QED
    BY <1>3, <2>1, <2>2
<1>4. CASE RunsOn /\ ~Poll /\ l = depth
  <2>1. pc'[depth] # "put"
    <3> USE DEF Values, Goto, StartMessage
    <3>1. CASE InitStep \/ Command
      BY <3>1 DEF InitStep, TimerDiagnostics, InitSetTval, InitSetCtl, InitDistributor,
         InitCpuInterface, Unmask, ParseDeviceTree, Command
    <3>2. CASE Stub \/ ReadSyndrome \/ ReadIar \/ CountTick \/ Rearm \/ Retire
      BY <3>2 DEF Stub, ReadSyndrome, Dispatch, ReadIar, CountTick, Rearm, Retire
    <3>3. CASE SystemCallNumber \/ ClearInProgress \/ CheckNested \/ Mark \/ MaskAndReport
               \/ Diagnosed
      BY <3>3 DEF SystemCallNumber, ClearInProgress, CheckNested, Mark, MaskAndReport,
         Diagnosed
    <3>4. CASE Put \/ FlushEmpty \/ FlushBusy \/ RequestReset
      BY <3>4 DEF Put, FlushEmpty, FlushBusy, RequestReset
    <3>5. CASE Reboot
      BY <3>5 DEF Reboot, At
    <3> QED
      BY <1>4, <3>1, <3>2, <3>3, <3>4, <3>5 DEF RunsOn, OutputStep
  <2> QED
    BY <1>4, <2>1
<1>5. CASE Svc \/ TakeInterrupt \/ Abort
  <2>1. CASE l = depth + 1
    BY <1>5, <2>1, EntersFrame
  <2>2. CASE l = depth /\ Svc
    BY <2>2 DEF Svc, Values
  <2>3. CASE l # depth + 1 /\ (l # depth \/ ~Svc)
    <3>1. pc'[l] = pc[l]
      BY <1>5, <2>3, EntersFrame DEF TakeInterrupt, Abort, Values
    <3> QED
      BY <1>5, <3>1, <1>0, EntersFrame
  <2> QED
    BY <1>5, <2>1, <2>2, <2>3, LevelFacts
<1>6. CASE Eret
  BY <1>6, <1>0 DEF Eret, Values
<1> QED
  BY <1>1, <1>2, <1>3, <1>4, <1>5, <1>6 DEF Next, CpuStep, HandlerStep, RunsOn

\* The shape of the stack is preserved by every step.
LEMMA ShapeStep == ASSUME Values, Shape, Masking, [Next]_vars PROVE Shape'
  BY ThreadShapeStep, FirstFrameShapeStep, UpperShapeStep, FreeShapeStep, EntryShapeStep,
     CountingStep DEF Shape

\* Interrupts are only ever unmasked in the thread with the devices ready, and an
\* eret to the thread restores what the thread had.
LEMMA MaskingStep == ASSUME Values, Shape, Masking, [Next]_vars PROVE Masking'
<1>0. 0 \in Level /\ 1 \in Level /\ depth \in Nat
  BY LevelFacts
<1>1. CASE UNCHANGED vars \/ World
  <2>1. UNCHANGED <<depth, pc, after, cause, imask, elr, spsr, timer_on, enabled, forward>>
    BY <1>1 DEF vars, World, UartShifts, UartSends, CounterAdvances, SourceChanges,
       WatchdogResets, Advance, Raise, Withdraw, processor_vars, local_vars, cpu_vars,
       device_vars, timer_vars, gic_vars
  <2> QED
    BY <2>1 DEF Masking, Early
<1>2. CASE RunsOn /\ depth > 0
  <2>1. ~InitStep /\ ~Command
    BY <1>2, CommandAtThread DEF Shape
  <2>2. UNCHANGED <<elr, spsr, timer_on, enabled, forward>> /\ (imask' = imask \/ imask')
    BY <1>2, <2>1 DEF RunsOn, OutputStep, Stub, ReadSyndrome, ReadIar, CountTick, Rearm, Retire,
       SystemCallNumber, ClearInProgress, CheckNested, Mark, MaskAndReport, Diagnosed, Poll, Put,
       FlushEmpty, FlushBusy, Reboot, RequestReset, Acknowledge, EndOfInterrupt,
       cpu_vars, device_vars, timer_vars, gic_vars
  <2>3. depth' = depth /\ cause' = cause /\ pc'[0] = pc[0] /\ after'[0] = after[0]
    BY <1>0, <1>2, RunsOnLocal DEF Others
  <2> QED
    BY <1>2, <2>2, <2>3 DEF Masking, Early
<1>3. CASE RunsOn /\ depth = 0
  <2> USE <1>3, <1>0, RunsOnLocal DEF Masking, Early, EarlyStep, PrintStep, At, Goto, Values,
          StartMessage, cpu_vars
  <2>1. CASE TimerDiagnostics \/ InitSetTval \/ InitSetCtl
    BY <2>1 DEF TimerDiagnostics, InitSetTval, InitSetCtl, device_vars, timer_vars, gic_vars,
       local_vars
  <2>2. CASE InitDistributor \/ InitCpuInterface
    BY <2>2 DEF InitDistributor, InitCpuInterface, timer_vars, local_vars
  <2>3. CASE Unmask \/ ParseDeviceTree
    BY <2>3 DEF Unmask, ParseDeviceTree, device_vars, timer_vars, gic_vars
  <2>4. CASE Poll
    <3>1. after[0] \in {"none", "set_tval", "parse", "client", "flush_empty"}
          /\ after[0] # "none"
      BY <2>4 DEF Poll, Shape, ThreadShape
    <3> QED
      BY <2>4, <3>1 DEF Poll, device_vars, timer_vars, gic_vars, local_vars
  <2>5. CASE Put
    BY <2>5 DEF Put, timer_vars, gic_vars
  <2>6. CASE FlushEmpty \/ FlushBusy \/ Reboot \/ RequestReset
    BY <2>6 DEF FlushEmpty, FlushBusy, Reboot, RequestReset, device_vars, timer_vars, gic_vars,
       local_vars
  <2>7. CASE Command
    BY <2>7 DEF Command, device_vars, timer_vars, gic_vars, local_vars
  <2>8. pc[depth] \in InThread
    BY DEF Shape, ThreadShape
  <2>9. ~(Stub \/ ReadSyndrome \/ ReadIar \/ CountTick \/ Rearm \/ Retire \/ SystemCallNumber
         \/ ClearInProgress \/ CheckNested \/ Mark \/ MaskAndReport \/ Diagnosed)
    BY <2>8 DEF Stub, ReadSyndrome, ReadIar, CountTick, Rearm, Retire, SystemCallNumber,
       ClearInProgress, CheckNested, Mark, MaskAndReport, Diagnosed, InThread, ThreadStep,
       RebootStep, HaltStep
  <2> HIDE DEF Masking, Values
  <2> QED
    BY <2>1, <2>2, <2>3, <2>4, <2>5, <2>6, <2>7, <2>9 DEF RunsOn, InitStep, OutputStep
<1>4. CASE (Svc \/ TakeInterrupt \/ Abort) /\ depth = 0
  <2>1. /\ depth' = 1 /\ imask' /\ elr' = 0 /\ spsr' = imask
        /\ after' = after /\ UNCHANGED <<timer_on, enabled, forward>>
    BY <1>4 DEF Svc, TakeInterrupt, Abort, Enter, device_vars, timer_vars, gic_vars
  <2>2. CASE Abort
    <3>1. cause'[1] = "abort" /\ pc'[0] = pc[0]
      BY <1>0, <1>4, <2>2 DEF Abort, Enter, Values
    <3> QED
      BY <1>4, <2>1, <3>1 DEF Masking, Early
  <2>3. CASE TakeInterrupt
    <3>1. ~imask /\ pc'[0] = pc[0]
      BY <1>0, <1>4, <2>3 DEF TakeInterrupt, Values
    <3> QED
      BY <1>4, <2>1, <3>1 DEF Masking, Early
  <2>4. CASE Svc
    <3>1. pc[0] = "svc" /\ pc'[0] = "client"
      BY <1>0, <1>4, <2>4 DEF Svc, At, Values
    <3> QED
      BY <1>4, <2>1, <3>1 DEF Masking, Early, EarlyStep, PrintStep
  <2> QED
    BY <1>4, <2>2, <2>3, <2>4
<1>5. CASE (Svc \/ TakeInterrupt \/ Abort) /\ depth > 0
  <2>1. Abort
    BY <1>5, <1>0, AbortAbove DEF Shape
  <2>2. /\ depth' = depth + 1 /\ imask'
        /\ after' = after /\ UNCHANGED <<timer_on, enabled, forward>>
    BY <2>1 DEF Abort, Enter, device_vars, timer_vars, gic_vars
  <2>3. pc'[0] = pc[0] /\ cause'[1] = cause[1]
    BY <2>1, <1>0, <1>5 DEF Abort, Enter, Values
  <2> QED
    BY <1>0, <1>5, <2>2, <2>3 DEF Masking, Early
<1>6. CASE Eret
  <2>1. depth = 1 /\ depth' = 0 /\ pc[1] = "eret"
    BY <1>6, EretFromFirst DEF Shape
  <2>2. cause[1] # "abort"
    BY <2>1 DEF Shape, FirstFrameShape, InAbort, FatalStep, HaltStep
  <2>3. /\ imask' = spsr /\ pc'[0] = pc[0] /\ after'[0] = after[0]
        /\ UNCHANGED <<timer_on, enabled, forward>>
    BY <1>6, <1>0, <2>1 DEF Eret, Values, device_vars, timer_vars, gic_vars
  <2> QED
    BY <2>1, <2>2, <2>3 DEF Masking, Early
<1> QED
  BY <1>0, <1>1, <1>2, <1>3, <1>4, <1>5, <1>6 DEF Next, CpuStep, HandlerStep, RunsOn
=============================================================================

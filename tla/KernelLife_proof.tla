--------------------------- MODULE KernelLife_proof ---------------------------
(***************************************************************************)
(* KernelCore implements KernelLife: with Phase and Unsent for the abstract*)
(* variables, every step of the kernel's core is a step of its life or     *)
(* changes nothing of it.                                                  *)
(***************************************************************************)
EXTENDS KernelCore_proof

\* The phases one by one.
LEMMA PhaseIs ==
    /\ power = "reset" => Phase = "reset"
    /\ power # "reset" /\ Stopping /\ pc[depth] = "sleep" => Phase = "down"
    /\ power # "reset" /\ Stopping /\ pc[depth] # "sleep" => Phase = "going_down"
    /\ power # "reset" /\ ~Stopping /\ pc[0] = "sleep" => Phase = "halted"
    /\ power # "reset" /\ ~Stopping /\ pc[0] # "sleep" => Phase = "up"
  BY DEF Phase

\* The same after a step.
LEMMA PhaseBecomes ==
    /\ power' = "reset" => Phase' = "reset"
    /\ power' # "reset" /\ Stopping' /\ pc'[depth'] = "sleep" => Phase' = "down"
    /\ power' # "reset" /\ Stopping' /\ pc'[depth'] # "sleep" => Phase' = "going_down"
    /\ power' # "reset" /\ ~Stopping' /\ pc'[0] = "sleep" => Phase' = "halted"
    /\ power' # "reset" /\ ~Stopping' /\ pc'[0] # "sleep" => Phase' = "up"
  BY DEF Phase

\* A transmitter that is not busy has nothing unsent.
LEMMA SilentIsSent ==
    ASSUME fifo \in Nat, shifting \in BOOLEAN
    PROVE  Unsent \in Nat /\ (~BUSY => Unsent = 0)
  BY DEF Unsent, BUSY

\* The frames that are not on the stack are going nowhere.
LEMMA FreeFramesStay ==
    ASSUME Values, FreeShape, NEW l \in Frame, l > depth
    PROVE  ~GoingDown(l)
<1>1. l \in Level
  BY LevelFacts
<1> QED
  BY <1>1 DEF FreeShape, GoingDown, FatalStep, RebootStep, HaltStep

\* With no frame on the stack nothing is going down.
LEMMA ThreadAlone ==
    ASSUME Values, FreeShape, depth = 0
    PROVE  ~Stopping
<1>1. \A l \in Frame : l > depth
  BY DEF Frame
<1> QED
  BY <1>1, FreeFramesStay DEF Stopping

\* What a step of the running level does to the transmitter, the clock and the power.
LEMMA RunningEffects ==
    ASSUME Values, RunsOn
    PROVE  /\ power # "reset" /\ (~Reboot => power' # "reset")
           /\ ~Put => UNCHANGED <<fifo, shifting>>
           /\ now' = now /\ (~CountTick => ticks' = ticks)
<1>1. power # "reset" /\ (~Reboot => power' # "reset")
  BY DEF RunsOn, InitStep, OutputStep, TimerDiagnostics, InitSetTval, InitSetCtl,
     InitDistributor, InitCpuInterface, Unmask, ParseDeviceTree, Stub, ReadSyndrome, ReadIar,
     CountTick, Rearm, Retire, SystemCallNumber, ClearInProgress, CheckNested, Mark, Command,
     MaskAndReport, Diagnosed, Poll, Put, FlushEmpty, FlushBusy, Reboot, RequestReset, Local, At
<1>2. /\ ~Put => UNCHANGED <<fifo, shifting>>
      /\ now' = now /\ (~CountTick => ticks' = ticks)
  BY DEF RunsOn, InitStep, OutputStep, TimerDiagnostics, InitSetTval, InitSetCtl,
     InitDistributor, InitCpuInterface, Unmask, ParseDeviceTree, Stub, ReadSyndrome, ReadIar,
     CountTick, Rearm, Retire, SystemCallNumber, ClearInProgress, CheckNested, Mark, Command,
     MaskAndReport, Diagnosed, Poll, Put, FlushEmpty, FlushBusy, Reboot, RequestReset,
     device_vars, uart_vars, timer_vars
<1> QED
  BY <1>1, <1>2

\* A level falls asleep at the end of halt only, and takes no step from there.
LEMMA FallsAsleep ==
    ASSUME Values, ThreadShape, FirstFrameShape, UpperShape, RunsOn
    PROVE  pc[depth] # "sleep" /\ (~FlushBusy => pc'[depth] # "sleep")
<1> USE AfterRange DEF Values, Goto, StartMessage, At
<1>1. CASE InitStep \/ Command
  BY <1>1 DEF InitStep, TimerDiagnostics, InitSetTval, InitSetCtl, InitDistributor,
     InitCpuInterface, Unmask, ParseDeviceTree, Command
<1>2. CASE Stub \/ ReadSyndrome \/ ReadIar \/ CountTick \/ Rearm \/ Retire
  BY <1>2 DEF Stub, ReadSyndrome, Dispatch, ReadIar, CountTick, Rearm, Retire
<1>3. CASE SystemCallNumber \/ ClearInProgress \/ CheckNested \/ Mark \/ MaskAndReport
           \/ Diagnosed
  BY <1>3 DEF SystemCallNumber, ClearInProgress, CheckNested, Mark, MaskAndReport, Diagnosed
<1>4. CASE Poll \/ Put \/ FlushEmpty \/ FlushBusy \/ RequestReset
  BY <1>4 DEF Poll, Put, FlushEmpty, FlushBusy, RequestReset
<1>5. CASE Reboot
  BY <1>5 DEF Reboot
<1> QED
  BY <1>1, <1>2, <1>3, <1>4, <1>5 DEF RunsOn, OutputStep

\* A frame that is going down takes no step back, and writing a character or counting
\* a tick does not send one down.
LEMMA GoesOnDown ==
    ASSUME Values, Shape, RunsOn, depth >= 1
    PROVE  /\ GoingDown(depth) => GoingDown(depth)'
           /\ Put \/ CountTick => (GoingDown(depth)' => GoingDown(depth))
<1>0. depth \in Level /\ depth' = depth
  BY RunsOnLocal DEF Values
<1>1. ~InitStep /\ ~Command
  BY CommandAtThread DEF Shape
<1> USE <1>0 DEF Values, Goto, StartMessage, At, GoingDown, FatalStep, RebootStep, HaltStep
<1>2. CASE Put \/ CountTick
  BY <1>2 DEF Put, CountTick, local_vars
<1>3. CASE Poll
  BY <1>3 DEF Poll, Put, CountTick, local_vars
<1>4. CASE CheckNested \/ Mark \/ MaskAndReport \/ Diagnosed \/ FlushEmpty \/ FlushBusy
           \/ Reboot \/ RequestReset
  BY <1>4 DEF CheckNested, Mark, MaskAndReport, Diagnosed, FlushEmpty, FlushBusy, Reboot,
     RequestReset, Put, CountTick, local_vars
<1>5. CASE Stub \/ ReadSyndrome \/ ReadIar \/ Rearm \/ Retire
  BY <1>5 DEF Stub, ReadSyndrome, ReadIar, Rearm, Retire, Put, CountTick, local_vars
<1>6. CASE SystemCallNumber \/ ClearInProgress
  <2>1. depth = 1
    BY <1>6, UpperStep, LevelFacts DEF SystemCallNumber, ClearInProgress, Shape, InAbort
  <2>2. ~GoingDown(depth)
    BY <1>6, <2>1 DEF SystemCallNumber, ClearInProgress, Shape, FirstFrameShape, Reporting
  <2> QED
    BY <1>6, <2>2 DEF SystemCallNumber, ClearInProgress, Put, CountTick
<1> HIDE DEF Values, GoingDown
<1> QED
  BY <1>1, <1>2, <1>3, <1>4, <1>5, <1>6 DEF RunsOn, OutputStep

\* A step that changes none of what Phase looks at leaves the phase.
LEMMA SamePhase ==
    ASSUME power' = "reset" <=> power = "reset",
           Stopping' <=> Stopping,
           Stopping => (pc'[depth'] = "sleep" <=> pc[depth] = "sleep"),
           ~Stopping => (pc'[0] = "sleep" <=> pc[0] = "sleep")
    PROVE  Phase' = Phase
  BY PhaseIs, PhaseBecomes

\* Nothing is written or sent while the transmitter stays as it is.
LEMMA SameUnsent == ASSUME UNCHANGED <<fifo, shifting>> PROVE Unsent' = Unsent
  BY DEF Unsent

\* Where a running frame goes, the whole stack goes.
LEMMA StoppingGoesOn ==
    ASSUME Values, Shape, RunsOn, depth >= 1
    PROVE  /\ Stopping => Stopping'
           /\ Put \/ CountTick => (Stopping' => Stopping)
<1>1. depth \in Frame /\ Frame \subseteq Level /\ depth' = depth
  BY LevelFacts, RunsOnLocal DEF Frame
<1>2. ASSUME NEW l \in Frame, l # depth PROVE GoingDown(l)' <=> GoingDown(l)
  <2>1. pc'[l] = pc[l] /\ after'[l] = after[l]
    BY <1>1, <1>2, RunsOnLocal DEF Others
  <2> QED
    BY <2>1 DEF GoingDown
<1> QED
  BY <1>1, <1>2, GoesOnDown DEF Stopping

\* The thread's own steps: it speaks, it halts when all is sent, it restarts.
LEMMA ThreadLives ==
    ASSUME IInv, RunsOn, depth = 0
    PROVE  Life!LifeNext \/ UNCHANGED <<Phase, now, ticks, Unsent>>
<1>1. Values /\ Shape /\ 0 \in Level
  BY Parts, LevelFacts DEF IInv
<1>2. depth' = 0 /\ \A l \in Frame : pc'[l] = pc[l] /\ after'[l] = after[l]
  BY <1>1, RunsOnLocal, LevelFacts DEF Others, Frame
<1>3. ~Stopping /\ ~Stopping'
  <2>1. ~Stopping
    BY <1>1, ThreadAlone DEF Shape
  <2> QED
    BY <1>2, <2>1 DEF Stopping, GoingDown
<1>4. /\ pc[0] # "sleep" /\ (~FlushBusy => pc'[0] # "sleep")
      /\ power # "reset" /\ (~Reboot => power' # "reset")
  BY <1>1, FallsAsleep, RunningEffects DEF Shape
<1>5. Phase = "up"
  BY <1>3, <1>4, PhaseIs
<1>6. ~CountTick
  BY <1>1, IrqAtFirst
<1>7. now' = now /\ ticks' = ticks /\ (~Put => Unsent' = Unsent)
  BY <1>1, <1>6, RunningEffects, SameUnsent
<1>8. CASE Put
  <2>1. ~FlushBusy /\ ~Reboot /\ pc[depth] = "put"
    BY <1>8 DEF Put, FlushBusy, Reboot, At
  <2>2. Phase' = "up"
    BY <1>2, <1>3, <1>4, <2>1, PhaseBecomes
  <2>3. Unsent' = Unsent + 1
    <3>1. ~TXFF
      BY <2>1, ClaimOfTheTop DEF ClaimHolds
    <3>2. fifo' = fifo + 1 /\ shifting' = shifting /\ fifo \in Nat
      BY <1>1, <1>8, <3>1, FifoAssumption DEF Put, WriteData, Values
    <3> QED
      BY <3>2 DEF Unsent
  <2>4. Life!Say
    BY <1>5, <1>7, <2>2, <2>3 DEF Life!Say
  <2> QED
    BY <2>4 DEF Life!LifeNext
<1>9. CASE FlushBusy
  <2>1. ~Put /\ ~Reboot /\ ~BUSY /\ pc'[0] = "sleep"
    BY <1>1, <1>9 DEF Put, FlushBusy, Reboot, At, Goto, Values
  <2>2. Phase' = "halted"
    BY <1>2, <1>3, <1>4, <2>1, PhaseBecomes
  <2>3. Unsent = 0
    BY <1>1, <2>1, SilentIsSent, Parts, FifoAssumption DEF IInv, Values, Bools
  <2>4. Life!Halt
    BY <1>5, <1>7, <2>1, <2>2, <2>3 DEF Life!Halt, Life!Become
  <2> QED
    BY <2>4 DEF Life!LifeNext
<1>10. CASE Reboot /\ power' = "reset"
  <2>1. Phase' = "reset" /\ ~Put
    BY <1>10, PhaseBecomes DEF Reboot, Put, At
  <2>2. Life!Reset
    BY <1>5, <1>7, <2>1 DEF Life!Reset, Life!Become
  <2> QED
    BY <2>2 DEF Life!LifeNext
<1>11. CASE ~Put /\ ~FlushBusy /\ power' # "reset"
  <2>1. Phase' = "up"
    BY <1>2, <1>3, <1>4, <1>11, PhaseBecomes
  <2> QED
    BY <1>5, <1>7, <1>11, <2>1
<1> QED
  BY <1>4, <1>8, <1>9, <1>10, <1>11

\* The steps of a frame: it speaks, it counts a tick, it goes down or it restarts.
LEMMA FrameLives ==
    ASSUME IInv, RunsOn, depth >= 1
    PROVE  Life!LifeNext \/ UNCHANGED <<Phase, now, ticks, Unsent>>
<1>1. Values /\ Shape /\ 0 \in Level /\ depth \in Nat /\ depth \in Level
  BY Parts, LevelFacts DEF IInv, Values
<1>2. depth' = depth /\ pc'[0] = pc[0]
  BY <1>1, RunsOnLocal DEF Others
<1>3. /\ Stopping => Stopping'
      /\ Put \/ CountTick => (Stopping' => Stopping)
  BY <1>1, StoppingGoesOn
<1>4. /\ pc[depth] # "sleep" /\ (~FlushBusy => pc'[depth] # "sleep")
      /\ power # "reset" /\ (~Reboot => power' # "reset")
  BY <1>1, FallsAsleep, RunningEffects DEF Shape
<1>5. Phase = IF Stopping THEN "going_down" ELSE IF pc[0] = "sleep" THEN "halted" ELSE "up"
  BY <1>4, PhaseIs
<1>6. now' = now /\ (~CountTick => ticks' = ticks) /\ (~Put => Unsent' = Unsent)
  BY <1>1, RunningEffects, SameUnsent
<1>7. depth \in Frame /\ (GoingDown(depth) => Stopping)
  BY <1>1, LevelFacts DEF Frame, Stopping
<1>8. CASE Put
  <2>1. ~FlushBusy /\ ~Reboot /\ ~CountTick /\ pc[depth] = "put"
    BY <1>8 DEF Put, FlushBusy, Reboot, CountTick, At
  <2>2. Phase' = Phase
    BY <1>2, <1>3, <1>4, <1>8, <2>1, SamePhase
  <2>3. Phase \in {"up", "going_down"}
    <3>1. CASE Stopping
      BY <1>5, <3>1
    <3>2. CASE ~Stopping
      <4>1. after[depth] # "diagnosed"
        BY <1>7, <3>2 DEF GoingDown
      <4>2. depth = 1
        BY <1>1, <2>1, <4>1, UpperStep DEF Shape, PrintStep
      <4>3. pc[0] = "client"
        BY <1>1, <2>1, <4>1, <4>2
        DEF Shape, FirstFrameShape, InIrq, InAbort, IrqStep, FatalStep, HaltStep, PrintStep
      <4> QED
        BY <1>5, <3>2, <4>3
    <3> QED
      BY <3>1, <3>2
  <2>4. Unsent' = Unsent + 1
    <3>1. ~TXFF
      BY <2>1, ClaimOfTheTop DEF ClaimHolds
    <3>2. fifo' = fifo + 1 /\ shifting' = shifting /\ fifo \in Nat
      BY <1>1, <1>8, <3>1, FifoAssumption DEF Put, WriteData, Values
    <3> QED
      BY <3>2 DEF Unsent
  <2>5. Life!Say
    BY <1>6, <2>1, <2>2, <2>3, <2>4 DEF Life!Say
  <2> QED
    BY <2>5 DEF Life!LifeNext
<1>9. CASE CountTick
  <2>1. depth = 1 /\ pc[1] = "tick" /\ ticks' = ticks + 1 /\ ~Put /\ ~FlushBusy /\ ~Reboot
    BY <1>1, <1>9, IrqAtFirst
    DEF CountTick, increment_uptime_by_one_tick, Put, FlushBusy, Reboot, At
  <2>2. ~Stopping
    <3>1. \A l \in Frame : l # 1 => ~GoingDown(l)
      BY <1>1, <2>1, FreeFramesStay DEF Shape, Frame
    <3>2. ~GoingDown(1)
      BY <1>1, <2>1
      DEF Shape, FirstFrameShape, GoingDown, IrqStep, FatalStep, RebootStep, HaltStep
    <3> QED
      BY <3>1, <3>2 DEF Stopping
  <2>3. Phase' = Phase /\ Phase \in {"up", "halted"}
    BY <1>2, <1>3, <1>4, <1>5, <1>9, <2>1, <2>2, SamePhase
  <2>4. (ticks + 1) * Interval <= now
    <3>1. /\ (ticks + 1) * Interval <= cval /\ cval <= now
          /\ ticks \in Nat /\ cval \in Nat /\ now \in Nat
      BY <1>1, <2>1 DEF IInv, TimeKept, Values
    <3>2. (ticks + 1) * Interval \in Nat
      BY <3>1, IntervalType
    <3> QED
      BY <3>1, <3>2
  <2>5. Life!Count
    BY <1>6, <2>1, <2>3, <2>4 DEF Life!Count
  <2> QED
    BY <2>5 DEF Life!LifeNext
<1>10. CASE FlushBusy
  <2>1. ~Put /\ ~Reboot /\ ~CountTick /\ ~BUSY /\ pc'[depth] = "sleep" /\ Stopping
    BY <1>1, <1>7, <1>10
    DEF Put, FlushBusy, Reboot, CountTick, At, Goto, Values, GoingDown, HaltStep
  <2>2. Phase' = "down"
    BY <1>2, <1>3, <1>4, <2>1, PhaseBecomes
  <2>3. Unsent = 0
    BY <1>1, <2>1, SilentIsSent, Parts, FifoAssumption DEF IInv, Values, Bools
  <2>4. Life!Stop
    BY <1>5, <1>6, <2>1, <2>2, <2>3 DEF Life!Stop, Life!Become
  <2> QED
    BY <2>4 DEF Life!LifeNext
<1>11. CASE Reboot /\ power' = "reset"
  <2>1. Phase' = "reset" /\ ~Put /\ ~CountTick
    BY <1>11, PhaseBecomes DEF Reboot, Put, CountTick, At
  <2>2. Life!Reset
    BY <1>5, <1>6, <2>1 DEF Life!Reset, Life!Become
  <2> QED
    BY <2>2 DEF Life!LifeNext
<1>12. CASE ~Put /\ ~CountTick /\ ~FlushBusy /\ power' # "reset"
  <2>1. CASE Stopping \/ ~Stopping'
    <3>1. Phase' = Phase
      BY <1>2, <1>3, <1>4, <1>12, <2>1, SamePhase
    <3> QED
      BY <1>6, <1>12, <3>1
  <2>2. CASE ~Stopping /\ Stopping'
    <3>1. Phase' = "going_down"
      BY <1>2, <1>4, <1>12, <2>2, PhaseBecomes
    <3>2. Life!GoDown
      BY <1>5, <1>6, <1>12, <2>2, <3>1 DEF Life!GoDown, Life!Become
    <3> QED
      BY <3>2 DEF Life!LifeNext
  <2> QED
    BY <2>1, <2>2
<1> QED
  BY <1>4, <1>8, <1>9, <1>10, <1>11, <1>12

\* Entering an exception and returning from one change nothing of the kernel's life.
LEMMA EntryAndReturnLive ==
    ASSUME IInv, Svc \/ TakeInterrupt \/ Abort \/ Eret
    PROVE  UNCHANGED <<Phase, now, ticks, Unsent>>
<1>1. Values /\ Shape /\ Masking /\ 0 \in Level /\ 1 \in Level /\ depth \in Nat
      /\ Frame \subseteq Level /\ Level \subseteq Nat
  BY Parts, LevelFacts DEF IInv
<1>2. UNCHANGED <<power, now, ticks, fifo, shifting>>
  BY DEF Svc, TakeInterrupt, Abort, Enter, Eret, device_vars, uart_vars, timer_vars
<1>3. Unsent' = Unsent
  BY <1>2, SameUnsent
<1>4. CASE Svc \/ TakeInterrupt \/ Abort
  <2>1. /\ depth' = depth + 1 /\ depth + 1 \in Level /\ pc'[depth + 1] = "stub"
        /\ after' = after
    BY <1>1, <1>4, EntersFrame
  <2>2. pc[depth] # "sleep" \/ depth = 0
    <3>1. depth > 0 => Abort
      BY <1>1, <1>4, AbortAbove DEF Shape
    <3> QED
      BY <1>1, <3>1 DEF Abort
  <2>3. pc'[0] = pc[0] \/ (pc[0] = "svc" /\ pc'[0] = "client")
    BY <1>1, <1>4, <2>1 DEF Svc, TakeInterrupt, Abort, At, Values
  <2>4. ASSUME NEW l \in Frame PROVE GoingDown(l)' <=> GoingDown(l)
    <3>0. l \in Level /\ l # 0
      BY <1>1 DEF Frame
    <3>1. CASE l = depth + 1
      <4>1. after[l] = "none" /\ pc[l] = "none"
        BY <1>1, <3>0, <3>1 DEF Shape, FreeShape
      <4> QED
        BY <2>1, <3>1, <4>1 DEF GoingDown, FatalStep, RebootStep, HaltStep
    <3>2. CASE l # depth + 1
      <4>1. pc'[l] = pc[l]
        <5>1. CASE depth = 0
          BY <1>1, <1>4, <3>0, <3>2, <5>1 DEF Svc, TakeInterrupt, Abort, Values
        <5>2. CASE depth > 0
          <6>1. Abort
            BY <1>1, <1>4, <5>2, AbortAbove DEF Shape
          <6> QED
            BY <1>1, <3>0, <3>2, <6>1 DEF Abort, Values
        <5> QED
          BY <1>1, <5>1, <5>2
      <4> QED
        BY <2>1, <4>1 DEF GoingDown
    <3> QED
      BY <3>1, <3>2
  <2>5. Stopping' <=> Stopping
    BY <2>4 DEF Stopping
  <2>6. Stopping => depth # 0
    BY <1>1, ThreadAlone DEF Shape
  <2>7. Phase' = Phase
    BY <1>2, <2>1, <2>2, <2>3, <2>5, <2>6, SamePhase
  <2> QED
    BY <1>2, <1>3, <2>7
<1>5. CASE Eret
  <2>1. depth = 1 /\ depth' = 0 /\ pc[1] = "eret"
    BY <1>1, <1>5, EretFromFirst DEF Shape
  <2>2. pc'[0] = pc[0] /\ \A l \in Frame : pc'[l] = "none" /\ after'[l] = "none"
    BY <1>1, <1>5, <2>1 DEF Eret, Values, Shape, FreeShape, Frame
  <2>3. ~Stopping
    <3>1. \A l \in Frame : l # 1 => ~GoingDown(l)
      BY <1>1, <2>1, FreeFramesStay DEF Shape, Frame
    <3>2. ~GoingDown(1)
      BY <1>1, <2>1
      DEF Shape, FirstFrameShape, Reporting, GoingDown, FatalStep, RebootStep, HaltStep
    <3> QED
      BY <3>1, <3>2 DEF Stopping
  <2>4. ~Stopping'
    BY <2>2 DEF Stopping, GoingDown, FatalStep, RebootStep, HaltStep
  <2>5. Phase' = Phase
    BY <1>2, <2>2, <2>3, <2>4, SamePhase
  <2> QED
    BY <1>2, <1>3, <2>5
<1> QED
  BY <1>4, <1>5

\* The devices: a character leaves, time passes, the watchdog bites.
LEMMA WorldLives ==
    ASSUME IInv, World
    PROVE  Life!LifeNext \/ UNCHANGED <<Phase, now, ticks, Unsent>>
<1>1. fifo \in Nat /\ shifting \in BOOLEAN /\ now \in Nat
  BY FifoAssumption DEF IInv, TypeOK, UartTypeOK, TimerTypeOK
<1>2. UNCHANGED <<depth, pc, after>>
  BY DEF World, UartShifts, UartSends, CounterAdvances, SourceChanges, WatchdogResets,
     processor_vars, local_vars
<1>3. ASSUME power' = power PROVE Phase' = Phase
  BY <1>2, <1>3 DEF Phase, Stopping, GoingDown
<1>4. CASE UartShifts
  <2>1. Unsent' = Unsent
    BY <1>1, <1>4 DEF UartShifts, Shift, TXFE, Unsent
  <2> QED
    BY <1>3, <1>4, <2>1 DEF UartShifts, processor_vars, timer_vars
<1>5. CASE UartSends
  <2>1. Unsent > 0 /\ Unsent' = Unsent - 1
    BY <1>1, <1>5 DEF UartSends, Sent, Unsent
  <2>2. Phase' = Phase /\ Phase # "reset" /\ UNCHANGED <<now, ticks>>
    BY <1>3, <1>5, PhaseIs DEF UartSends, processor_vars, timer_vars
  <2>3. Life!Transmit
    BY <2>1, <2>2 DEF Life!Transmit
  <2> QED
    BY <2>3 DEF Life!LifeNext
<1>6. CASE CounterAdvances
  <2>1. Unsent' = Unsent
    BY <1>6, SameUnsent DEF CounterAdvances, uart_vars
  <2>2. Phase' = Phase /\ Phase # "reset" /\ ticks' = ticks /\ now' = now + 1
    BY <1>3, <1>6, PhaseIs DEF CounterAdvances, Advance, processor_vars
  <2>3. Life!TimePasses
    BY <2>1, <2>2 DEF Life!TimePasses
  <2> QED
    BY <2>3 DEF Life!LifeNext
<1>7. CASE SourceChanges
  <2>1. Unsent' = Unsent
    BY <1>7, SameUnsent DEF SourceChanges, uart_vars
  <2> QED
    BY <1>3, <1>7, <2>1 DEF SourceChanges, processor_vars, timer_vars
<1>8. CASE WatchdogResets
  <2>1. Unsent' = Unsent /\ UNCHANGED <<now, ticks>>
    BY <1>8, SameUnsent DEF WatchdogResets, device_vars, uart_vars, timer_vars
  <2>2. Phase' = "reset" /\ Phase \in {"up", "halted", "going_down", "down"}
    BY <1>8, PhaseIs, PhaseBecomes DEF WatchdogResets
  <2>3. Life!Reset
    BY <2>1, <2>2 DEF Life!Reset, Life!Become
  <2> QED
    BY <2>3 DEF Life!LifeNext
<1> QED
  BY <1>4, <1>5, <1>6, <1>7, <1>8 DEF World

\* Every step of the kernel's core is a step of its life, or none of it.
LEMMA StepLives == IInv /\ [Next]_vars => [Life!LifeNext]_Life!life_vars
<1> SUFFICES ASSUME IInv, [Next]_vars
             PROVE  Life!LifeNext \/ UNCHANGED <<Phase, now, ticks, Unsent>>
  BY DEF Life!life_vars
<1>1. CASE UNCHANGED vars
  BY <1>1, SameUnsent
  DEF vars, local_vars, uart_vars, timer_vars, Phase, Stopping, GoingDown
<1>2. CASE RunsOn
  BY <1>2, ThreadLives, FrameLives, LevelFacts, Parts DEF IInv
<1> QED
  BY <1>1, <1>2, EntryAndReturnLive, WorldLives DEF Next, CpuStep, HandlerStep, RunsOn

\* The kernel is up, silent and at time zero when boot.s calls kmain.
LEMMA InitLives == Init => Life!LifeInit
<1> SUFFICES ASSUME Init PROVE Life!LifeInit
  OBVIOUS
<1>1. ~Stopping
  BY CoreAssumption DEF Init, Stopping, GoingDown, Frame, Level, FatalStep, RebootStep, HaltStep
<1>2. Phase = "up"
  BY <1>1, CoreAssumption, PhaseIs DEF Init, Level
<1>3. Unsent = 0
  BY DEF Init, UartInit, Unsent
<1> QED
  BY <1>2, <1>3 DEF Init, TimerInit, Life!LifeInit

\* Halt.c, Uptime.c, Lifecycle.c: output is drained before the kernel halts or goes
\* down, what is down stays down until a reset, and ticks are counted by a live kernel
\* after their time.
THEOREM LivesAsPromised == Spec => ImplementsLife
<1> QED
  BY InitLives, StepLives, Invariance, PTL DEF Spec, ImplementsLife, Life!LifeSpec
=============================================================================

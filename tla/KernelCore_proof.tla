---------------------------- MODULE KernelCore_proof --------------------------
(***************************************************************************)
(* Proofs about KernelCore.  Once a fatal exception is in progress nothing *)
(* returns, and it stays known whose diagnostics are on the console;       *)
(* timekeeping, the transmitter and the interrupt controller preserve      *)
(* their parts of the invariant.  With the shape of the stack the whole is *)
(* inductive, and the theorems about the kernel follow from it.            *)
(***************************************************************************)
EXTENDS KernelCoreShape_proof

-----------------------------------------------------------------------------
(* The fatal path: g_exception_in_progress and the report.                 *)


\* The fatal path is entered through its check only.
LEMMA MarkAndMask ==
    ASSUME Values, ThreadShape, FirstFrameShape, UpperShape, RunsOn, ~CheckNested, ~Mark
    PROVE  pc'[depth] # "mark" /\ pc'[depth] # "mask"
<1> USE AfterRange DEF Values, Goto, StartMessage
<1>1. CASE InitStep \/ Command
  BY <1>1 DEF InitStep, TimerDiagnostics, InitSetTval, InitSetCtl, InitDistributor,
     InitCpuInterface, Unmask, ParseDeviceTree, Command
<1>2. CASE Stub \/ ReadSyndrome \/ ReadIar \/ CountTick \/ Rearm \/ Retire
  BY <1>2 DEF Stub, ReadSyndrome, Dispatch, ReadIar, CountTick, Rearm, Retire
<1>3. CASE SystemCallNumber \/ ClearInProgress \/ MaskAndReport \/ Diagnosed
  BY <1>3 DEF SystemCallNumber, ClearInProgress, MaskAndReport, Diagnosed
<1>4. CASE Poll \/ Put \/ FlushEmpty \/ FlushBusy \/ RequestReset
  BY <1>4 DEF Poll, Put, FlushEmpty, FlushBusy, RequestReset
<1>5. CASE Reboot
  BY <1>5 DEF Reboot, At
<1> QED
  BY <1>1, <1>2, <1>3, <1>4, <1>5 DEF RunsOn, OutputStep

\* Who writes g_exception_in_progress and who starts a report.
LEMMA FlagAndReporter ==
    ASSUME RunsOn, ~Mark, ~ClearInProgress
    PROVE  in_progress' = in_progress /\ (~MaskAndReport => reporter' = reporter)
  BY DEF RunsOn, InitStep, OutputStep, TimerDiagnostics, InitSetTval, InitSetCtl,
     InitDistributor, InitCpuInterface, Unmask, ParseDeviceTree, Stub, ReadSyndrome, ReadIar,
     CountTick, Rearm, Retire, SystemCallNumber, CheckNested, Command,
     MaskAndReport, Diagnosed, Poll, Put, FlushEmpty, FlushBusy, Reboot, RequestReset,
     soft_vars, report_vars

\* Once the flag is set, the first frame never comes back to a step that returns.
LEMMA PointOfNoReturnStep ==
    ASSUME Values, Shape, Masking, PointOfNoReturn, [Next]_vars
    PROVE  PointOfNoReturn'
<1> DEFINE Past == \/ pc[1] \in {"mask", "diagnosed"} \cup HaltStep
                   \/ pc[1] \in PrintStep /\ Reporting(1)
<1>0. 0 \in Level /\ 1 \in Level /\ depth \in Nat /\ in_progress \in {0, 1}
  BY LevelFacts DEF Values
<1>1. CASE UNCHANGED vars \/ World
  <2>1. UNCHANGED <<depth, pc, after, in_progress, reporter>>
    BY <1>1 DEF vars, World, UartShifts, UartSends, CounterAdvances, SourceChanges,
       WatchdogResets, processor_vars, local_vars, soft_vars, report_vars
  <2> QED
    BY <2>1 DEF PointOfNoReturn, Reporting
<1>2. CASE RunsOn /\ depth = 0
  <2>1. in_progress = 0 /\ reporter = 0
    BY <1>0, <1>2 DEF PointOfNoReturn
  <2>2. pc[0] \notin {"mark", "clear", "mask", "check"}
    BY DEF Shape, ThreadShape, InThread, ThreadStep, RebootStep, HaltStep
  <2>3. ~Mark /\ ~ClearInProgress /\ ~MaskAndReport /\ ~CheckNested
    BY <1>2, <2>2 DEF Mark, ClearInProgress, MaskAndReport, CheckNested, At
  <2>4. in_progress' = 0 /\ reporter' = 0 /\ depth' = 0 /\ pc'[0] # "mark" /\ pc'[0] # "mask"
    BY <1>2, <2>1, <2>3, FlagAndReporter, RunsOnLocal, MarkAndMask DEF Shape
  <2> QED
    BY <2>4 DEF PointOfNoReturn
<1>3. CASE Mark
  <2>1. pc[depth] = "mark" /\ in_progress' = 1 /\ reporter' = reporter /\ pc'[depth] = "mask"
        /\ depth' = depth
    BY <1>3 DEF Mark, At, Goto, Values, report_vars, Local
  <2>2. depth # 0
    BY <2>1 DEF Shape, ThreadShape, InThread, ThreadStep, RebootStep, HaltStep
  <2>3. reporter = 0
    BY <2>1 DEF PointOfNoReturn
  <2> QED
    BY <1>0, <2>1, <2>2, <2>3 DEF PointOfNoReturn
<1>4. CASE ClearInProgress
  <2>1. pc[depth] = "clear"
    BY <1>4 DEF ClearInProgress, At
  <2>2. depth # 0 /\ ~(depth >= 2)
    BY <2>1, UpperStep DEF Shape, ThreadShape, InThread, ThreadStep, RebootStep, HaltStep,
       InAbort, FatalStep
  <2>3. depth = 1
    BY <1>0, <2>2
  <2>4. in_progress = 0 /\ reporter = 0
    BY <1>0, <2>1, <2>3 DEF PointOfNoReturn, HaltStep, PrintStep
  <2>5. in_progress' = 0 /\ reporter' = 0 /\ depth' = 1 /\ pc'[1] = "eret"
    BY <1>0, <1>4, <2>3, <2>4 DEF ClearInProgress, Goto, Values, report_vars, Local
  <2> QED
    BY <2>5 DEF PointOfNoReturn
<1>5. CASE MaskAndReport
  <2>1. pc[depth] = "mask" /\ depth' = depth /\ in_progress' = in_progress
        /\ pc'[depth] = "poll" /\ after'[depth] = "diagnosed"
    BY <1>5 DEF MaskAndReport, At, StartMessage, Goto, Values, Local
  <2>2. depth # 0
    BY <2>1 DEF Shape, ThreadShape, InThread, ThreadStep, RebootStep, HaltStep
  <2>3. in_progress = 1
    BY <2>1 DEF PointOfNoReturn
  <2> QED
    BY <1>0, <2>1, <2>2, <2>3 DEF PointOfNoReturn, PrintStep, Reporting
<1>6. CASE RunsOn /\ depth >= 1 /\ ~Mark /\ ~ClearInProgress /\ ~MaskAndReport
  <2>1. in_progress' = in_progress /\ reporter' = reporter /\ depth' = depth
    BY <1>6, FlagAndReporter, RunsOnLocal
  <2>2. pc'[depth] # "mask"
    <3>1. CASE CheckNested
      BY <3>1 DEF CheckNested, Goto, Values
    <3> QED
      BY <1>6, <3>1, MarkAndMask DEF Shape
  <2>3. pc'[depth] = "mark" => in_progress = 0
    <3>1. CASE CheckNested
      BY <1>0, <3>1 DEF CheckNested, Goto, Values
    <3> QED
      BY <1>6, <3>1, MarkAndMask DEF Shape
  <2>4. ASSUME in_progress = 1, depth = 1 PROVE Past'
    <3>1. Past
      BY <1>0, <2>4 DEF PointOfNoReturn
    <3>2. ~InitStep /\ ~Command
      BY <1>6, <2>4, CommandAtThread DEF Shape
    <3> USE <1>0, <2>4, <3>1 DEF HaltStep, PrintStep, Reporting, At, Goto, Values
    <3>3. ~(Stub \/ ReadSyndrome \/ ReadIar \/ CountTick \/ Rearm \/ Retire
            \/ SystemCallNumber \/ CheckNested \/ Reboot \/ RequestReset)
      BY DEF Stub, ReadSyndrome, ReadIar, CountTick, Rearm, Retire, SystemCallNumber,
         CheckNested, Reboot, RequestReset
    <3>4. CASE Diagnosed \/ FlushEmpty \/ FlushBusy
      BY <3>4 DEF Diagnosed, FlushEmpty, FlushBusy
    <3>5. CASE Poll \/ Put
      BY <3>5 DEF Poll, Put, local_vars
    <3> HIDE DEF Past, Values
    <3> QED
      BY <1>6, <3>2, <3>3, <3>4, <3>5 DEF RunsOn, OutputStep
  <2> QED
    BY <1>0, <1>6, <2>1, <2>2, <2>3, <2>4 DEF PointOfNoReturn
<1>7. CASE Svc \/ TakeInterrupt \/ Abort
  <2>1. in_progress' = in_progress /\ reporter' = reporter
    BY <1>7 DEF Svc, TakeInterrupt, Abort, Enter, soft_vars, report_vars
  <2>2. pc'[depth'] = "stub" /\ depth' = depth + 1
    BY <1>7, EntersFrame
  <2> QED
    BY <1>0, <2>1, <2>2 DEF PointOfNoReturn
<1>8. CASE Eret
  <2>1. depth = 1 /\ depth' = 0 /\ pc[1] = "eret"
    BY <1>8, EretFromFirst DEF Shape
  <2>2. in_progress = 0 /\ reporter = 0
    BY <1>0, <2>1 DEF PointOfNoReturn, HaltStep, PrintStep
  <2>3. in_progress' = 0 /\ reporter' = 0 /\ pc'[0] = pc[0]
    BY <1>8, <1>0, <2>1, <2>2 DEF Eret, Values, soft_vars, report_vars
  <2> QED
    BY <2>1, <2>3 DEF PointOfNoReturn, Shape, ThreadShape, InThread, ThreadStep, RebootStep,
       HaltStep
<1> QED
  BY <1>0, <1>1, <1>2, <1>3, <1>4, <1>5, <1>6, <1>7, <1>8
     DEF Next, CpuStep, HandlerStep, RunsOn

-----------------------------------------------------------------------------
\* What a level that has stopped owes, by StopsAreDiagnosed.
Accounted(l) == \/ reporter = l /\ reported
                \/ \E k \in Frame : k < l /\ Reported(k)
                \/ cause[l] = "svc" /\ power # "on"

\* What one level contributes to ReportsKept.
KeepsReport(l) ==
    /\ Diagnosing(l) /\ pc[l] # "mask" => reporter = l
    /\ reporter = l => /\ pc[l] \in PrintStep \cup {"diagnosed"} \cup HaltStep
                       /\ Reporting(l)
    /\ pc[l] \in HaltStep => Accounted(l)

\* ReportsKept, level by level.
LEMMA ReportsByLevel ==
    Values => (ReportsKept <=>
                  /\ in_progress = 1 => \E k \in Frame : k <= depth /\ Reported(k)
                  /\ reporter # 0 => reporter <= depth
                  /\ \A l \in Frame : KeepsReport(l))
<1> SUFFICES ASSUME Values
             PROVE  ReportsKept <=>
                       /\ in_progress = 1 => \E k \in Frame : k <= depth /\ Reported(k)
                       /\ reporter # 0 => reporter <= depth
                       /\ \A l \in Frame : KeepsReport(l)
  OBVIOUS
<1>1. reporter \in 0..MaxDepth /\ (reporter # 0 => reporter \in Frame)
  BY CoreAssumption DEF Values, Level, Frame
<1>2. StopsAreDiagnosed <=> \A l \in Frame : pc[l] \in HaltStep => Accounted(l)
  BY DEF StopsAreDiagnosed, Accounted, Reported
<1>3. 0 \notin Frame
  BY DEF Frame
<1> QED
  BY <1>1, <1>2, <1>3 DEF ReportsKept, KeepsReport

\* A report under way or complete stays so, when it is not of the running level and
\* no other level takes it over.
LEMMA ReportedStays ==
    ASSUME NEW k \in Frame, Reported(k), pc'[k] = pc[k], after'[k] = after[k],
           reporter' = reporter \/ reporter = 0, reported => reported'
    PROVE  Reported(k)'
  BY DEF Reported, Diagnosing, Frame

\* A step of the running frame keeps every report if it keeps its own.
LEMMA ReportsFromTop ==
    ASSUME Values, Values', ReportsKept, depth \in Frame, depth' = depth,
           Others(pc), Others(after), cause' = cause,
           power # "on" => power' # "on",
           reported => reported',
           reporter' = reporter \/ (reporter = 0 /\ reporter' = depth),
           Reported(depth) => Reported(depth)',
           in_progress' = 1 => in_progress = 1 \/ Reported(depth)',
           KeepsReport(depth)'
    PROVE  ReportsKept'
<1>0. Frame \subseteq Level /\ Frame \subseteq Nat /\ 0 \notin Frame /\ depth \in Nat
  BY LevelFacts DEF Frame
<1>1. ASSUME NEW k \in Frame, Reported(k) PROVE Reported(k)'
  <2>1. CASE k = depth
    BY <1>1, <2>1
  <2>2. CASE k # depth
    BY <1>0, <1>1, <2>2, ReportedStays DEF Others
  <2> QED
    BY <2>1, <2>2
<1>2. ASSUME NEW l \in Frame, l # depth PROVE KeepsReport(l)'
  <2>1. KeepsReport(l)
    BY ReportsByLevel
  <2>2. pc'[l] = pc[l] /\ after'[l] = after[l]
    BY <1>0, <1>2 DEF Others
  <2>3. Accounted(l) => Accounted(l)'
    BY <1>0, <1>1, <1>2 DEF Accounted
  <2> QED
    BY <1>0, <1>2, <2>1, <2>2, <2>3 DEF KeepsReport, Diagnosing, Reporting
<1>3. in_progress' = 1 => \E k \in Frame : k <= depth' /\ Reported(k)'
  BY <1>0, <1>1, ReportsByLevel
<1>4. reporter' # 0 => reporter' <= depth'
  BY <1>0, ReportsByLevel
<1>5. \A l \in Frame : KeepsReport(l)'
  BY <1>2
<1>6. (Values => (ReportsKept <=>
                     /\ in_progress = 1 => \E k \in Frame : k <= depth /\ Reported(k)
                     /\ reporter # 0 => reporter <= depth
                     /\ \A l \in Frame : KeepsReport(l)))'
  BY ReportsByLevel, PTL
<1> QED
  BY <1>3, <1>4, <1>5, <1>6
\* What any step of the running level does to the power and to the report.
LEMMA ReportMoves ==
    ASSUME Values, RunsOn
    PROVE  /\ power # "on" => power' # "on"
           /\ ~Diagnosed => reported' = reported
           /\ ~MaskAndReport => reporter' = reporter
           /\ ~Mark /\ ~ClearInProgress => in_progress' = in_progress
<1>1. power # "on" => power' # "on"
  BY DEF RunsOn, InitStep, OutputStep, TimerDiagnostics, InitSetTval, InitSetCtl,
     InitDistributor, InitCpuInterface, Unmask, ParseDeviceTree, Stub, ReadSyndrome, ReadIar,
     CountTick, Rearm, Retire, SystemCallNumber, ClearInProgress, CheckNested, Mark, Command,
     MaskAndReport, Diagnosed, Poll, Put, FlushEmpty, FlushBusy, Reboot, RequestReset, Local
<1>2. /\ ~Diagnosed => reported' = reported
      /\ ~MaskAndReport => reporter' = reporter
  BY DEF RunsOn, InitStep, OutputStep, TimerDiagnostics, InitSetTval, InitSetCtl,
     InitDistributor, InitCpuInterface, Unmask, ParseDeviceTree, Stub, ReadSyndrome, ReadIar,
     CountTick, Rearm, Retire, SystemCallNumber, ClearInProgress, CheckNested, Mark, Command,
     MaskAndReport, Diagnosed, Poll, Put, FlushEmpty, FlushBusy, Reboot, RequestReset,
     soft_vars, report_vars
<1> QED
  BY <1>1, <1>2, FlagAndReporter

\* The running frame keeps its report, whatever it does next.
LEMMA RunsOnKeepsReport ==
    ASSUME Values, Shape, PointOfNoReturn, ReportsKept, RunsOn, depth \in Frame
    PROVE  /\ reporter' = reporter \/ (reporter = 0 /\ reporter' = depth)
           /\ reported => reported'
           /\ Reported(depth) => Reported(depth)'
           /\ in_progress' = 1 => in_progress = 1 \/ Reported(depth)'
           /\ KeepsReport(depth)'
<1> DEFINE Goal == /\ reporter' = reporter \/ (reporter = 0 /\ reporter' = depth)
                   /\ reported => reported'
                   /\ Reported(depth) => Reported(depth)'
                   /\ in_progress' = 1 => in_progress = 1 \/ Reported(depth)'
                   /\ KeepsReport(depth)'
<1>0. /\ depth \in Level /\ depth' = depth /\ cause' = cause /\ in_progress \in {0, 1}
      /\ depth = 1 \/ depth >= 2
  <2>1. depth \in Level /\ depth' = depth /\ cause' = cause /\ in_progress \in {0, 1}
    BY RunsOnLocal DEF Values
  <2>2. depth = 1 \/ depth >= 2
    BY LevelFacts DEF Frame
  <2> QED
    BY <2>1, <2>2
<1>1. KeepsReport(depth)
  BY ReportsByLevel
<1>2. ~InitStep /\ ~Command
  BY <1>0, CommandAtThread DEF Shape
<1>3. ASSUME pc[depth] \notin PrintStep \cup HaltStep \cup {"mask", "diagnosed"},
             ~ClearInProgress, ~Mark,
             pc'[depth] \notin HaltStep \cup {"mask", "diagnosed"},
             pc'[depth] \in PrintStep => after'[depth] # "diagnosed"
      PROVE  Goal
  <2>1. reporter' = reporter /\ reported' = reported /\ in_progress' = in_progress
    BY <1>3, ReportMoves DEF MaskAndReport, Diagnosed, At
  <2>2. reporter # depth /\ ~Diagnosing(depth) /\ ~Diagnosing(depth)'
    BY <1>0, <1>1, <1>3 DEF KeepsReport, Diagnosing
  <2> QED
    BY <1>0, <1>3, <2>1, <2>2 DEF Reported, KeepsReport
<1> USE <1>0 DEF Values, Goto, At, StartMessage
<1>4. CASE Stub \/ ReadSyndrome \/ ReadIar \/ CountTick \/ Rearm \/ Retire \/ SystemCallNumber
  <2>1. pc[depth] \notin PrintStep \cup HaltStep \cup {"mask", "diagnosed", "clear", "mark"}
    BY <1>4 DEF Stub, ReadSyndrome, ReadIar, CountTick, Rearm, Retire, SystemCallNumber,
       PrintStep, HaltStep
  <2>2. pc'[depth] \notin HaltStep \cup {"mask", "diagnosed"}
    BY <1>4 DEF Stub, ReadSyndrome, Dispatch, ReadIar, CountTick, Rearm, Retire,
       SystemCallNumber, HaltStep
  <2>3. pc'[depth] \in PrintStep => after'[depth] # "diagnosed"
    BY <1>4 DEF Stub, ReadSyndrome, Dispatch, ReadIar, CountTick, Rearm, Retire,
       SystemCallNumber, PrintStep
  <2> QED
    BY <1>3, <2>1, <2>2, <2>3 DEF ClearInProgress, Mark
<1>5. CASE ClearInProgress
  <2>1. pc[depth] = "clear" /\ pc'[depth] = "eret" /\ in_progress' = 0
        /\ reporter' = reporter /\ reported' = reported
    BY <1>5 DEF ClearInProgress, report_vars
  <2>2. reporter # depth /\ ~Diagnosing(depth) /\ ~Diagnosing(depth)'
    BY <1>1, <2>1 DEF KeepsReport, Diagnosing, PrintStep, HaltStep
  <2> QED
    BY <2>1, <2>2 DEF Reported, KeepsReport, HaltStep
<1>6. CASE CheckNested
  <2>1. pc[depth] = "check" /\ UNCHANGED <<reporter, reported, in_progress, after>>
    BY <1>6 DEF CheckNested, soft_vars, report_vars, local_vars
  <2>2. reporter # depth /\ ~Diagnosing(depth)
    BY <1>1, <2>1 DEF KeepsReport, Diagnosing, PrintStep, HaltStep
  <2>3. CASE in_progress = 0
    <3>1. pc'[depth] = "mark"
      BY <1>6, <2>3 DEF CheckNested
    <3> QED
      BY <2>1, <2>2, <3>1 DEF Reported, KeepsReport, Diagnosing, PrintStep, HaltStep
  <2>4. CASE in_progress = 1
    <3>1. pc'[depth] = "flush_empty"
      BY <1>6, <2>4 DEF CheckNested
    <3>2. PICK k \in Frame : k <= depth /\ Reported(k)
      BY <2>4, ReportsByLevel
    <3>3. k \in Level /\ k < depth
      BY <2>2, <3>2, LevelFacts DEF Reported
    <3>4. Reported(k)'
      <4>1. pc'[k] = pc[k] /\ after'[k] = after[k]
        BY <3>3, RunsOnLocal, LevelFacts DEF Others
      <4> QED
        BY <2>1, <3>2, <4>1, ReportedStays
    <3>5. Accounted(depth)'
      BY <3>3, <3>4 DEF Accounted
    <3>6. ~Diagnosing(depth)'
      BY <3>1 DEF Diagnosing, PrintStep
    <3> QED
      BY <2>1, <2>2, <2>4, <3>5, <3>6 DEF Reported, KeepsReport
  <2> QED
    BY <2>3, <2>4
<1>7. CASE Mark
  <2>1. pc[depth] = "mark" /\ pc'[depth] = "mask" /\ reporter' = reporter /\ reported' = reported
    BY <1>7 DEF Mark, report_vars
  <2>2. reporter # depth /\ ~Diagnosing(depth)
    BY <1>1, <2>1 DEF KeepsReport, Diagnosing, PrintStep, HaltStep
  <2> QED
    BY <2>1, <2>2 DEF Reported, KeepsReport, Diagnosing, PrintStep, HaltStep
<1>8. CASE MaskAndReport
  <2>1. /\ pc[depth] = "mask" /\ pc'[depth] = "poll" /\ after'[depth] = "diagnosed"
        /\ reporter' = depth /\ reported' = reported /\ in_progress' = in_progress
    BY <1>8 DEF MaskAndReport
  <2>2. reporter = 0
    BY <2>1 DEF PointOfNoReturn
  <2> QED
    BY <2>1, <2>2 DEF Reported, KeepsReport, Diagnosing, Reporting, PrintStep, HaltStep
<1>9. CASE Diagnosed
  <2>1. /\ pc[depth] = "diagnosed" /\ pc'[depth] = "flush_empty" /\ after' = after
        /\ reporter' = reporter /\ reported' /\ in_progress' = in_progress
    BY <1>9 DEF Diagnosed, local_vars
  <2>2. reporter = depth /\ Reporting(depth)
    BY <1>1, <2>1 DEF KeepsReport, Diagnosing
  <2> QED
    BY <2>1, <2>2 DEF Reported, KeepsReport, Accounted, Diagnosing, Reporting, PrintStep,
       HaltStep
<1>10. CASE Poll \/ Put
  <2>1. /\ pc[depth] \in PrintStep /\ after' = after
        /\ pc'[depth] \in PrintStep \cup {after[depth]}
        /\ UNCHANGED <<reporter, reported, in_progress>>
    BY <1>10 DEF Poll, Put, PrintStep, local_vars, soft_vars, report_vars
  <2>2. CASE Reporting(depth)
    <3>1. reporter = depth
      BY <1>1, <2>1, <2>2 DEF KeepsReport, Diagnosing, Reporting, PrintStep
    <3> QED
      BY <2>1, <2>2, <3>1 DEF Reported, KeepsReport, Diagnosing, Reporting, PrintStep, HaltStep
  <2>3. CASE ~Reporting(depth)
    <3>1. reporter # depth /\ ~Diagnosing(depth)
      BY <1>1, <2>1, <2>3 DEF KeepsReport, Diagnosing, Reporting, PrintStep
    <3>2. after[depth] \in {"reboot", "clear"}
      <4>1. CASE depth = 1
        BY <2>1, <2>3, <4>1 DEF Shape, FirstFrameShape, Reporting
      <4>2. CASE depth >= 2
        BY <2>1, <2>3, <4>2, UpperStep DEF Shape, Reporting
      <4> QED
        BY <4>1, <4>2
    <3> QED
      BY <2>1, <3>1, <3>2 DEF Reported, KeepsReport, Diagnosing, PrintStep, HaltStep
  <2> QED
    BY <2>2, <2>3
<1>11. CASE FlushEmpty \/ FlushBusy
  <2>1. /\ pc[depth] \in HaltStep /\ pc'[depth] \in HaltStep /\ after' = after
        /\ UNCHANGED <<reporter, reported, in_progress, power>>
    BY <1>11 DEF FlushEmpty, FlushBusy, HaltStep, local_vars, soft_vars, report_vars, Local
  <2>2. Accounted(depth)
    BY <1>1, <2>1 DEF KeepsReport
  <2>3. Accounted(depth)'
    <3>1. \A k \in Frame : k < depth /\ Reported(k) => Reported(k)'
      BY <2>1, RunsOnLocal, LevelFacts, ReportedStays DEF Others
    <3> QED
      BY <2>1, <2>2, <3>1 DEF Accounted
  <2>4. ~Diagnosing(depth) /\ ~Diagnosing(depth)'
    BY <2>1 DEF Diagnosing, PrintStep, HaltStep
  <2> QED
    BY <1>1, <2>1, <2>3, <2>4 DEF Reported, KeepsReport, Reporting
<1>12. CASE Reboot
  <2>1. /\ pc[depth] = "reboot" /\ pc'[depth] \in {"reboot", "rstc"} /\ after' = after
        /\ UNCHANGED <<reporter, reported, in_progress>>
    BY <1>12 DEF Reboot, local_vars, soft_vars, report_vars
  <2> QED
    BY <1>3, <2>1 DEF ClearInProgress, Mark, PrintStep, HaltStep
<1>13. CASE RequestReset
  <2>1. /\ pc[depth] = "rstc" /\ pc'[depth] = "flush_empty" /\ after' = after
        /\ power' = "armed" /\ UNCHANGED <<reporter, reported, in_progress>>
    BY <1>13 DEF RequestReset, local_vars, soft_vars, report_vars
  <2>2. ~(depth >= 2)
    BY <2>1, UpperStep DEF Shape, InAbort, FatalStep, HaltStep
  <2>3. cause[depth] = "svc"
    BY <1>0, <2>1, <2>2 DEF Shape, FirstFrameShape, InIrq, InAbort, IrqStep, FatalStep, HaltStep
  <2>4. reporter # depth /\ ~Diagnosing(depth) /\ ~Diagnosing(depth)'
    BY <1>1, <2>1 DEF KeepsReport, Diagnosing, PrintStep, HaltStep
  <2> QED
    BY <2>1, <2>3, <2>4 DEF Reported, KeepsReport, Accounted
<1> HIDE DEF Goal, Values, Goto, At, StartMessage
<1> QED
  BY <1>2, <1>4, <1>5, <1>6, <1>7, <1>8, <1>9, <1>10, <1>11, <1>12, <1>13
     DEF RunsOn, OutputStep

\* Whose report it is stays known, and no frame stops without an account of it.
LEMMA ReportsKeptStep ==
    ASSUME Values, Shape, Masking, PointOfNoReturn, ReportsKept, [Next]_vars
    PROVE  ReportsKept'
<1>0. /\ 0 \in Level /\ 1 \in Level /\ depth \in Nat /\ in_progress \in {0, 1}
      /\ Frame \subseteq Level /\ Level \subseteq Nat
      /\ depth >= 1 => depth \in Frame
  BY LevelFacts, CoreAssumption DEF Values, Frame
<1>1. Values'
  BY ValueStep DEF Shape
<1>2. CASE UNCHANGED vars \/ World
  <2>1. /\ UNCHANGED <<depth, pc, after, cause, in_progress, reporter, reported>>
        /\ power # "on" => power' # "on"
    BY <1>2 DEF vars, World, UartShifts, UartSends, CounterAdvances, SourceChanges,
       WatchdogResets, processor_vars, local_vars, soft_vars, report_vars
  <2> QED
    BY <2>1 DEF ReportsKept, Reported, Diagnosing, Reporting, StopsAreDiagnosed
<1>3. CASE RunsOn /\ depth >= 1
  <2>1. power # "on" => power' # "on"
    BY <1>3, ReportMoves
  <2> QED
    BY <1>0, <1>1, <1>3, <2>1, RunsOnLocal, RunsOnKeepsReport, ReportsFromTop
<1>4. ASSUME depth' = 0, in_progress' = 0, reporter' = 0,
             \A l \in Frame : pc'[l] = "none" /\ after'[l] = "none"
      PROVE  ReportsKept'
  BY <1>4 DEF ReportsKept, Diagnosing, StopsAreDiagnosed, PrintStep, HaltStep
<1>5. CASE RunsOn /\ depth = 0
  <2>1. in_progress = 0 /\ reporter = 0
    BY <1>0, <1>5 DEF PointOfNoReturn
  <2>2. pc[0] \notin {"mark", "clear", "mask"}
    BY DEF Shape, ThreadShape, InThread, ThreadStep, RebootStep, HaltStep
  <2>3. in_progress' = 0 /\ reporter' = 0
    BY <1>5, <2>1, <2>2, ReportMoves DEF Mark, ClearInProgress, MaskAndReport, At
  <2>4. \A l \in Frame : pc'[l] = "none" /\ after'[l] = "none"
    BY <1>0, <1>5, RunsOnLocal DEF Shape, FreeShape, Others, Frame
  <2> QED
    BY <1>4, <1>5, <2>3, <2>4, RunsOnLocal
<1>6. CASE Svc \/ TakeInterrupt \/ Abort
  <2>1. UNCHANGED <<power, after, in_progress, reporter, reported>> /\ depth' = depth + 1
    BY <1>6 DEF Svc, TakeInterrupt, Abort, Enter, soft_vars, report_vars
  <2>2. /\ depth + 1 \in Level /\ pc'[depth + 1] = "stub"
        /\ \A l \in Frame : l <= depth => pc'[l] = pc[l] /\ cause'[l] = cause[l]
    <3>1. pc'[depth + 1] = "stub" /\ depth + 1 \in Level
      BY <1>6, EntersFrame
    <3>2. CASE depth = 0
      BY <3>1, <3>2 DEF Frame
    <3>3. CASE depth > 0
      <4>1. Abort
        BY <1>0, <1>6, <3>3, AbortAbove DEF Shape
      <4> QED
        BY <1>0, <3>1, <4>1 DEF Abort, Enter, Values
    <3> QED
      BY <1>0, <3>1, <3>2, <3>3 DEF Frame
  <2>3. \A l \in Frame : l > depth => pc'[l] \in {"none", "stub"}
    BY <1>0, <1>6, <2>2, EntersFrame DEF Shape, FreeShape
  <2>4. \A k \in Frame : k <= depth => /\ Diagnosing(k)' <=> Diagnosing(k)
                                       /\ Reported(k)' <=> Reported(k)
    BY <2>1, <2>2 DEF Reported, Diagnosing
  <2>5. \A l \in Frame : l > depth => ~Diagnosing(l)' /\ pc'[l] \notin HaltStep
    BY <2>3 DEF Diagnosing, PrintStep, HaltStep
  <2>6. (in_progress = 1 => \E k \in Frame : k <= depth /\ Reported(k))'
    BY <1>0, <2>1, <2>4 DEF ReportsKept
  <2>7. ASSUME NEW k \in Frame, Diagnosing(k)', pc'[k] # "mask"
        PROVE  reporter' = k
    <3>0. k \in Nat
      BY <1>0
    <3>1. k <= depth
      BY <1>0, <2>5, <2>7, <3>0
    <3>2. Diagnosing(k) /\ pc[k] # "mask"
      BY <2>2, <2>4, <2>7, <3>1
    <3> QED
      BY <2>1, <3>2 DEF ReportsKept
  <2>8. ASSUME reporter' # 0
        PROVE  /\ reporter' <= depth'
               /\ pc'[reporter'] \in PrintStep \cup {"diagnosed"} \cup HaltStep
               /\ Reporting(reporter)'
    <3>1. reporter \in Frame /\ reporter <= depth /\ reporter' = reporter
      BY <2>1, <2>8, CoreAssumption DEF ReportsKept, Values, Level, Frame
    <3>2. pc'[reporter] = pc[reporter] /\ after'[reporter] = after[reporter]
      BY <2>1, <2>2, <3>1
    <3> QED
      BY <1>0, <2>1, <2>8, <3>1, <3>2 DEF ReportsKept, Reporting
  <2>9. StopsAreDiagnosed'
    <3> SUFFICES ASSUME NEW l \in Frame, pc'[l] \in HaltStep
                 PROVE  \/ reporter' = l /\ reported'
                        \/ \E k \in Frame : k < l /\ Reported(k)'
                        \/ cause'[l] = "svc" /\ power' # "on"
      BY DEF StopsAreDiagnosed, Reported
    <3>0. l \in Nat
      BY <1>0
    <3>1. l <= depth /\ pc[l] \in HaltStep
      <4>1. l <= depth
        BY <1>0, <2>5, <3>0
      <4> QED
        BY <2>2, <4>1
    <3>2. \/ reporter = l /\ reported
          \/ \E k \in Frame : k < l /\ Reported(k)
          \/ cause[l] = "svc" /\ power # "on"
      BY <3>1 DEF ReportsKept, StopsAreDiagnosed, Reported
    <3> QED
      BY <1>0, <2>1, <2>2, <2>4, <3>1, <3>2
  <2> QED
    BY <2>6, <2>7, <2>8, <2>9 DEF ReportsKept
<1>7. CASE Eret
  <2>1. depth = 1 /\ depth' = 0 /\ pc[1] = "eret"
    BY <1>7, EretFromFirst DEF Shape
  <2>2. in_progress = 0 /\ reporter = 0
    BY <1>0, <2>1 DEF PointOfNoReturn, HaltStep, PrintStep
  <2>3. in_progress' = 0 /\ reporter' = 0
    BY <1>7, <2>2 DEF Eret, soft_vars, report_vars
  <2>4. \A l \in Frame : pc'[l] = "none" /\ after'[l] = "none"
    BY <1>0, <1>7, <2>1 DEF Eret, Values, Shape, FreeShape, Frame
  <2> QED
    BY <1>4, <2>1, <2>3, <2>4
<1> QED
  BY <1>0, <1>2, <1>3, <1>5, <1>6, <1>7 DEF Next, CpuStep, HandlerStep, RunsOn

-----------------------------------------------------------------------------
(* The interrupt and the clock.                                            *)


\* The interrupt's own steps run in the first frame, which an interrupt pushed.
LEMMA IrqAtFirst ==
    ASSUME Values, Shape, ReadIar \/ CountTick \/ Rearm \/ Retire
    PROVE  depth = 1 /\ cause[1] = "irq"
<1>1. pc[depth] \in IrqStep
  BY DEF ReadIar, CountTick, Rearm, Retire, At, IrqStep
<1>2. depth # 0
  BY <1>1 DEF Shape, ThreadShape, InThread, IrqStep, ThreadStep, RebootStep, HaltStep
<1>3. ~(depth >= 2)
  BY <1>1, UpperStep DEF Shape, InAbort, IrqStep, FatalStep, HaltStep
<1>4. depth = 1
  BY <1>2, <1>3, LevelFacts
<1> QED
  BY <1>1, <1>4 DEF Shape, FirstFrameShape, InCall, InAbort, IrqStep, CallStep, FatalStep,
     RebootStep, HaltStep

\* A tick is counted only after the compare value was reached, and arming the next
\* leaves a whole interval before it.
LEMMA TimeKeptStep ==
    ASSUME Values, Shape, Masking, TimeKept, [Next]_vars
    PROVE  TimeKept'
<1>0. 0 \in Level /\ 1 \in Level /\ depth \in Nat /\ Interval \in Nat
      /\ now \in Nat /\ cval \in Nat /\ ticks \in Nat
  BY LevelFacts, IntervalType DEF Values
<1>1. ASSUME UNCHANGED <<now, cval, ticks>>, Armed' <=> Armed,
             pc'[1] = "tick" => pc[1] = "tick", pc[1] = "rearm" => pc'[1] = "rearm"
      PROVE  TimeKept'
  <2>1. Interval' = Interval
    BY DEF Interval
  <2> QED
    BY <1>1, <2>1 DEF TimeKept
<1>2. CASE UNCHANGED vars \/ UartShifts \/ UartSends \/ SourceChanges \/ WatchdogResets
  <2>1. UNCHANGED <<pc, after, now, cval, ticks>>
    BY <1>2 DEF vars, UartShifts, UartSends, SourceChanges, WatchdogResets, processor_vars,
       local_vars, device_vars, timer_vars
  <2> QED
    BY <2>1, <1>1 DEF Armed, Early
<1>3. CASE CounterAdvances
  <2>1. UNCHANGED <<pc, after, cval, ticks>> /\ now' = now + 1
    BY <1>3 DEF CounterAdvances, Advance, processor_vars, local_vars
  <2> QED
    BY <1>0, <2>1 DEF TimeKept, Armed, Early, Interval
<1>4. CASE InitSetTval
  <2>1. depth = 0 /\ pc[0] = "set_tval" /\ pc'[0] = "set_ctl" /\ pc'[1] = pc[1] /\ pc[1] = "none"
    <3>1. depth = 0
      BY <1>4, CommandAtThread DEF Shape, InitStep
    <3> QED
      BY <1>0, <1>4, <3>1 DEF InitSetTval, At, Goto, Values, Shape, FreeShape
  <2>2. ticks = 0 /\ Armed'
    BY <2>1 DEF TimeKept, Armed, Early, EarlyStep
  <2>3. cval' = now + Interval /\ UNCHANGED <<now, ticks>>
    BY <1>4 DEF InitSetTval, SetTval
  <2> QED
    BY <1>0, <2>1, <2>2, <2>3 DEF TimeKept, Interval
<1>5. CASE CountTick
  <2>1. depth = 1 /\ pc[1] = "tick" /\ pc'[1] = "rearm" /\ pc'[0] = pc[0]
    BY <1>0, <1>5, IrqAtFirst DEF CountTick, At, Goto, Values
  <2>2. ticks' = ticks + 1 /\ UNCHANGED <<now, cval, after>>
    BY <1>5 DEF CountTick, increment_uptime_by_one_tick, local_vars
  <2>3. (ticks + 1) * Interval <= now
    BY <1>0, <2>1 DEF TimeKept
  <2> QED
    BY <1>0, <2>1, <2>2, <2>3 DEF TimeKept, Armed, Early, Interval
<1>6. CASE Rearm
  <2>1. depth = 1 /\ pc[1] = "rearm" /\ pc'[1] = "eoi" /\ pc'[0] = pc[0]
    BY <1>0, <1>6, IrqAtFirst DEF Rearm, At, Goto, Values
  <2>2. cval' = now + Interval /\ UNCHANGED <<now, ticks, after>>
    BY <1>6 DEF Rearm, SetTval, local_vars
  <2>3. (ticks + 1) * Interval = ticks * Interval + Interval
    BY <1>0
  <2>4. ticks * Interval \in Nat
    BY <1>0
  <2>5. (ticks + 1) * Interval <= now + Interval
    BY <1>0, <2>3, <2>4 DEF TimeKept
  <2>6. Interval' = Interval /\ (Armed' <=> Armed)
    BY <2>1, <2>2 DEF Interval, Armed, Early
  <2> QED
    BY <2>1, <2>2, <2>5, <2>6 DEF TimeKept
<1>7. CASE ReadIar
  <2>1. depth = 1 /\ pc[1] = "iar" /\ pc'[0] = pc[0] /\ ~Early
    <3>1. depth = 1 /\ cause[1] = "irq"
      BY <1>7, IrqAtFirst
    <3>2. ~Early
      BY <3>1 DEF Masking
    <3>3. pc[1] = "iar" /\ pc'[0] = pc[0]
      BY <1>0, <1>7, <3>1 DEF ReadIar, At, Goto, Values
    <3> QED
      BY <3>1, <3>2, <3>3
  <2>2. UNCHANGED <<now, cval, ticks, after>>
    BY <1>7 DEF ReadIar, timer_vars
  <2>3. pc'[1] \in {"tick", "eoi"}
    BY <1>0, <1>7, <2>1 DEF ReadIar, Goto, Values
  <2>4. pc'[1] = "tick" => cval <= now
    <3> SUFFICES ASSUME pc'[1] = "tick" PROVE cval <= now
      OBVIOUS
    <3>0. PICK i \in InterruptId :
             /\ Acknowledge(i, Expired)
             /\ pc' = [pc EXCEPT ![1] = IF i = TIMER_INTERRUPT_ID THEN "tick" ELSE "eoi"]
      BY <1>7, <2>1 DEF ReadIar, Goto
    <3>1. Acknowledge(TIMER_INTERRUPT_ID, Expired)
      <4>1. i = TIMER_INTERRUPT_ID
        BY <1>0, <3>0 DEF Values
      <4> QED
        BY <3>0, <4>1
    <3>2. TIMER_INTERRUPT_ID \in Deliverable(Expired)
      BY <3>1 DEF Acknowledge, TIMER_INTERRUPT_ID, SpuriousId
    <3>3. TIMER_INTERRUPT_ID \notin pending
      <4>1. TIMER_INTERRUPT_ID \notin OtherIds
        BY GicAssumption DEF TIMER_INTERRUPT_ID
      <4>2. pending \subseteq OtherIds
        BY DEF Values
      <4> QED
        BY <4>1, <4>2
    <3>4. Expired
      BY <3>2, <3>3 DEF Deliverable
    <3> QED
      BY <3>4, <1>0 DEF Expired
  <2>5. Armed' /\ Armed
    BY <2>1, <2>2 DEF Armed, Early
  <2>6. Interval' = Interval
    BY DEF Interval
  <2> QED
    BY <2>1, <2>2, <2>3, <2>4, <2>5, <2>6 DEF TimeKept
<1>8. CASE RunsOn /\ ~(InitSetTval \/ CountTick \/ Rearm \/ ReadIar)
  <2>1. UNCHANGED <<now, cval, ticks>>
    BY <1>8 DEF RunsOn, InitStep, OutputStep, TimerDiagnostics, InitSetCtl,
     InitDistributor, InitCpuInterface, Unmask, ParseDeviceTree, Stub, ReadSyndrome,
     Retire, SystemCallNumber, ClearInProgress, CheckNested, Mark, Command,
     MaskAndReport, Diagnosed, Poll, Put, FlushEmpty, FlushBusy, Reboot, RequestReset,
     device_vars, timer_vars
  <2>2. pc'[1] = "tick" => pc[1] = "tick"
    <3>1. CASE depth # 1
      BY <1>0, <1>8, <3>1, RunsOnLocal DEF Others
    <3>2. CASE depth = 1
      <4> USE <1>0, <1>8, <3>2, AfterRange DEF Shape, Values, Goto, StartMessage
      <4>1. ~InitStep /\ ~Command
        BY CommandAtThread
      <4>2. CASE Stub \/ ReadSyndrome \/ Retire \/ SystemCallNumber \/ ClearInProgress
        BY <4>2 DEF Stub, ReadSyndrome, Dispatch, Retire, SystemCallNumber, ClearInProgress
      <4>3. CASE CheckNested \/ Mark \/ MaskAndReport \/ Diagnosed
        BY <4>3 DEF CheckNested, Mark, MaskAndReport, Diagnosed
      <4>4. CASE Poll \/ Put \/ FlushEmpty \/ FlushBusy \/ Reboot \/ RequestReset
        BY <4>4 DEF Poll, Put, FlushEmpty, FlushBusy, Reboot, RequestReset, At
      <4> QED
        BY <4>1, <4>2, <4>3, <4>4 DEF RunsOn, OutputStep
    <3> QED
      BY <3>1, <3>2
  <2>3. pc[1] = "rearm" => pc'[1] = "rearm"
    <3>1. CASE depth # 1
      BY <1>0, <1>8, <3>1, RunsOnLocal DEF Others
    <3>2. CASE depth = 1
      BY <1>8, <3>2 DEF RunsOn, InitStep, OutputStep, TimerDiagnostics, InitSetCtl,
       InitDistributor, InitCpuInterface, Unmask, ParseDeviceTree, Stub, ReadSyndrome,
       Retire, SystemCallNumber, ClearInProgress, CheckNested, Mark, Command,
       MaskAndReport, Diagnosed, Poll, Put, FlushEmpty, FlushBusy, Reboot, RequestReset, At
    <3> QED
      BY <3>1, <3>2
  <2>4. Armed' <=> Armed
    <3>1. CASE depth # 0
      BY <1>0, <1>8, <3>1, RunsOnLocal DEF Others, Armed, Early
    <3>2. CASE depth = 0
      <4> USE <1>0, <1>8, <3>2 DEF Armed, Early, EarlyStep, PrintStep, At, Goto, Values,
             StartMessage
      <4>1. CASE TimerDiagnostics \/ InitSetCtl \/ InitDistributor \/ InitCpuInterface
        BY <4>1 DEF TimerDiagnostics, InitSetCtl, InitDistributor, InitCpuInterface, local_vars
      <4>2. CASE Unmask \/ ParseDeviceTree \/ Command
        BY <4>2 DEF Unmask, ParseDeviceTree, Command, local_vars
      <4>3. CASE Poll
        <5>1. after[0] \in {"none", "set_tval", "parse", "client", "flush_empty"}
              /\ after[0] # "none"
          BY <4>3 DEF Poll, Shape, ThreadShape
        <5> QED
          BY <4>3, <5>1 DEF Poll, local_vars
      <4>4. CASE Put
        BY <4>4 DEF Put
      <4>5. CASE FlushEmpty \/ FlushBusy \/ Reboot \/ RequestReset
        BY <4>5 DEF FlushEmpty, FlushBusy, Reboot, RequestReset, local_vars
      <4>6. pc[depth] \in InThread
        BY DEF Shape, ThreadShape
      <4>7. ~(Stub \/ ReadSyndrome \/ Retire \/ SystemCallNumber
             \/ ClearInProgress \/ CheckNested \/ Mark \/ MaskAndReport \/ Diagnosed)
        BY <4>6 DEF Stub, ReadSyndrome, Retire, SystemCallNumber,
           ClearInProgress, CheckNested, Mark, MaskAndReport, Diagnosed, InThread, ThreadStep,
           RebootStep, HaltStep
      <4> HIDE DEF Values, Armed
      <4> QED
        BY <4>1, <4>2, <4>3, <4>4, <4>5, <4>7 DEF RunsOn, InitStep, OutputStep
    <3> QED
      BY <3>1, <3>2
  <2> QED
    BY <1>1, <2>1, <2>2, <2>3, <2>4
<1>9. CASE Svc \/ TakeInterrupt \/ Abort
  <2>1. UNCHANGED <<now, cval, ticks, after>>
    BY <1>9 DEF Svc, TakeInterrupt, Abort, Enter, device_vars, timer_vars
  <2>2. CASE depth = 0
    <3>1. pc'[1] = "stub" /\ pc[1] = "none"
      BY <1>0, <1>9, <2>2, EntersFrame DEF Shape, FreeShape
    <3>2. pc'[0] = pc[0] \/ (pc'[0] = "client" /\ pc[0] = "svc")
      BY <1>0, <1>9, <2>2 DEF Svc, TakeInterrupt, Abort, At, Values
    <3> QED
      BY <1>1, <2>1, <3>1, <3>2 DEF Armed, Early, EarlyStep, PrintStep
  <2>3. CASE depth > 0
    <3>1. Abort
      BY <1>9, <1>0, <2>3, AbortAbove DEF Shape
    <3>2. pc'[0] = pc[0] /\ pc'[1] = pc[1]
      BY <3>1, <1>0, <2>3 DEF Abort, Values
    <3> QED
      BY <1>1, <2>1, <3>2 DEF Armed, Early
  <2> QED
    BY <1>0, <2>2, <2>3
<1>10. CASE Eret
  <2>1. depth = 1 /\ pc[1] = "eret" /\ pc'[1] = "none" /\ pc'[0] = pc[0] /\ after'[0] = after[0]
    BY <1>10, <1>0, EretFromFirst DEF Shape, Eret, Values
  <2>2. UNCHANGED <<now, cval, ticks>>
    BY <1>10 DEF Eret, device_vars, timer_vars
  <2> QED
    BY <1>1, <2>1, <2>2 DEF Armed, Early
<1> QED
  BY <1>0, <1>2, <1>3, <1>4, <1>5, <1>6, <1>7, <1>8, <1>9, <1>10
     DEF Next, CpuStep, HandlerStep, RunsOn, World

\* A level gets to the write of a character only by polling, and to its sleep only
\* by waiting for the transmitter.
LEMMA ClaimsAreRead ==
    ASSUME Values, ThreadShape, FirstFrameShape, UpperShape, RunsOn
    PROVE  /\ ~Poll => pc'[depth] # "put"
           /\ ~FlushBusy => pc'[depth] # "sleep"
<1> USE AfterRange DEF Values, Goto, StartMessage
<1>1. CASE InitStep \/ Command
  BY <1>1 DEF InitStep, TimerDiagnostics, InitSetTval, InitSetCtl, InitDistributor,
     InitCpuInterface, Unmask, ParseDeviceTree, Command
<1>2. CASE Stub \/ ReadSyndrome \/ ReadIar \/ CountTick \/ Rearm \/ Retire
  BY <1>2 DEF Stub, ReadSyndrome, Dispatch, ReadIar, CountTick, Rearm, Retire
<1>3. CASE SystemCallNumber \/ ClearInProgress \/ CheckNested \/ Mark \/ MaskAndReport
           \/ Diagnosed
  BY <1>3 DEF SystemCallNumber, ClearInProgress, CheckNested, Mark, MaskAndReport,
     Diagnosed
<1>4. CASE Poll \/ Put \/ FlushEmpty \/ FlushBusy \/ RequestReset
  BY <1>4 DEF Poll, Put, FlushEmpty, FlushBusy, RequestReset
<1>5. CASE Reboot
  BY <1>5 DEF Reboot, At
<1> QED
  BY <1>1, <1>2, <1>3, <1>4, <1>5 DEF RunsOn, OutputStep

\* What the running level has just read from the transmitter's flags is true.
LEMMA ClaimsHoldWhenMade ==
    ASSUME Values, ThreadShape, FirstFrameShape, UpperShape, RunsOn
    PROVE  /\ pc'[depth] = "put" => ~TXFF'
           /\ pc'[depth] = "sleep" => ~BUSY'
<1>1. CASE Poll
  <2>1. fifo' = fifo /\ (pc'[depth] = "put" => ~TXFF)
    BY <1>1, AfterRange DEF Poll, Goto, Values, device_vars, uart_vars
  <2>2. pc'[depth] # "sleep"
    BY <1>1, ClaimsAreRead DEF Poll, FlushBusy, At
  <2> QED
    BY <2>1, <2>2 DEF TXFF
<1>2. CASE FlushBusy
  <2>1. fifo' = fifo /\ shifting' = shifting /\ ~BUSY
    BY <1>2 DEF FlushBusy, device_vars, uart_vars
  <2>2. pc'[depth] # "put"
    BY <1>2, ClaimsAreRead DEF Poll, FlushBusy, At
  <2> QED
    BY <2>1, <2>2 DEF BUSY
<1>3. CASE ~Poll /\ ~FlushBusy
  BY <1>3, ClaimsAreRead
<1> QED
  BY <1>1, <1>2, <1>3

\* Only the write of a character changes the transmitter from the kernel's side.
LEMMA TransmitterStays ==
    ASSUME RunsOn, ~Put
    PROVE  UNCHANGED <<fifo, shifting>>
  BY DEF RunsOn, InitStep, OutputStep, TimerDiagnostics, InitSetTval, InitSetCtl,
     InitDistributor, InitCpuInterface, Unmask, ParseDeviceTree, Stub, ReadSyndrome, ReadIar,
     CountTick, Rearm, Retire, SystemCallNumber, ClearInProgress, CheckNested, Mark, Command,
     MaskAndReport, Diagnosed, Poll, FlushEmpty, FlushBusy, Reboot, RequestReset,
     device_vars, uart_vars

\* A first frame on its way down stays on it.
LEMMA GoingDownStays ==
    ASSUME Values, Shape, RunsOn, depth = 1, cause[1] = "irq", GoingDown(1)
    PROVE  GoingDown(1)'
<1>0. 1 \in Level
  BY LevelFacts
<1>1. ~InitStep /\ ~Command
  BY CommandAtThread DEF Shape
<1>2. pc[1] \in InIrq /\ after[1] \in {"none", "diagnosed"}
      /\ (pc[1] \in EntryStep \cup IrqStep => after[1] = "none")
      /\ (pc[1] = "eret" => after[1] # "diagnosed")
  BY DEF Shape, FirstFrameShape, Reporting
<1> USE <1>0, <1>2 DEF GoingDown, Goto, At, StartMessage, Values,
     FatalStep, HaltStep, RebootStep, EntryStep, IrqStep, InIrq, InAbort, PrintStep
<1>3. ~(Stub \/ ReadSyndrome \/ ReadIar \/ CountTick \/ Rearm \/ Retire)
  BY DEF Stub, ReadSyndrome, ReadIar, CountTick, Rearm, Retire
<1>4. ~(SystemCallNumber \/ ClearInProgress \/ Reboot \/ RequestReset)
  BY DEF SystemCallNumber, ClearInProgress, Reboot, RequestReset
<1>5. CASE CheckNested \/ Mark \/ MaskAndReport \/ Diagnosed
  BY <1>5 DEF CheckNested, Mark, MaskAndReport, Diagnosed
<1>6. CASE Poll \/ Put \/ FlushEmpty \/ FlushBusy
  BY <1>6 DEF Poll, Put, FlushEmpty, FlushBusy, local_vars
<1> HIDE DEF GoingDown, Values
<1> QED
  BY <1>1, <1>3, <1>4, <1>5, <1>6 DEF RunsOn, OutputStep

\* A reading of the flags survives every interruption that returns: the handlers
\* that return write nothing, and the device itself only makes room.
LEMMA ClaimsKeptStep ==
    ASSUME Values, Bools, Shape, Masking, ClaimsKept, [Next]_vars
    PROVE  ClaimsKept'
<1>0. 0 \in Level /\ 1 \in Level /\ 1 \in Frame /\ depth \in Nat /\ Frame \subseteq Level
      /\ FifoDepth \in Nat \ {0} /\ fifo \in 0..FifoDepth /\ \A l \in Frame : l \in Nat /\ l >= 1
  BY LevelFacts, FifoAssumption, CoreAssumption DEF Values, Frame
<1>1. CASE UNCHANGED vars \/ World
  <2>1. UNCHANGED <<depth, pc, after, cause>>
    BY <1>1 DEF vars, World, UartShifts, UartSends, CounterAdvances, SourceChanges,
       WatchdogResets, processor_vars, local_vars
  <2>2. \/ UNCHANGED <<fifo, shifting>>
        \/ fifo # 0 /\ fifo' = fifo - 1
        \/ shifting /\ fifo' = fifo
    BY <1>1 DEF vars, World, UartShifts, UartSends, CounterAdvances, SourceChanges, Shift, Sent,
       WatchdogResets, TXFE, uart_vars, device_vars
  <2>3. (~TXFF => ~TXFF') /\ (~BUSY => ~BUSY')
    BY <1>0, <2>2 DEF TXFF, BUSY
  <2> QED
    BY <2>1, <2>3 DEF ClaimsKept, ClaimHolds, GoingDown
<1>2. CASE RunsOn
  <2>1. ASSUME NEW l \in Frame
        PROVE  ClaimHolds(l)' \/ depth' > l
    <3>1. CASE l = depth
      BY <1>2, <3>1, ClaimsHoldWhenMade DEF Shape, ClaimHolds
    <3>2. CASE l > depth
      <4>1. pc'[l] = "none"
        BY <1>0, <1>2, <3>2, RunsOnLocal DEF Others, Shape, FreeShape
      <4> QED
        BY <4>1 DEF ClaimHolds
    <3>3. CASE l < depth
      BY <1>2, <3>3, RunsOnLocal
    <3> QED
      BY <1>0, <3>1, <3>2, <3>3
  <2>2. \/ ClaimHolds(0)' \/ depth' > 1
        \/ depth' = 1 /\ (cause'[1] = "abort" \/ GoingDown(1)')
    <3>1. CASE depth = 0
      BY <1>2, <3>1, ClaimsHoldWhenMade DEF Shape, ClaimHolds
    <3>2. CASE depth > 1
      BY <1>2, <3>2, RunsOnLocal
    <3>3. CASE depth = 1
      <4>1. pc'[0] = pc[0] /\ depth' = 1 /\ cause' = cause
        BY <1>0, <1>2, <3>3, RunsOnLocal DEF Others
      <4>2. CASE cause[1] = "abort"
        BY <4>1, <4>2
      <4>3. CASE cause[1] = "svc"
        <5>1. pc[0] = "client"
          BY <3>3, <4>3 DEF Shape, FirstFrameShape
        <5> QED
          BY <4>1, <5>1 DEF ClaimHolds
      <4>4. CASE cause[1] = "irq" /\ ~GoingDown(1)
        <5>1. ClaimHolds(0)
          BY <1>0, <3>3, <4>4 DEF ClaimsKept
        <5>2. ~Put
          BY <3>3, <4>4 DEF Put, At, GoingDown, Shape, FirstFrameShape, PrintStep
        <5> QED
          BY <1>2, <4>1, <5>1, <5>2, TransmitterStays DEF ClaimHolds, TXFF, BUSY
      <4>5. CASE cause[1] = "irq" /\ GoingDown(1)
        BY <1>2, <3>3, <4>1, <4>5, GoingDownStays
      <4> QED
        BY <3>3, <4>2, <4>3, <4>4, <4>5 DEF Shape, FirstFrameShape
    <3> QED
      BY <1>0, <3>1, <3>2, <3>3
  <2> QED
    BY <2>1, <2>2 DEF ClaimsKept
<1>3. CASE Svc \/ TakeInterrupt \/ Abort
  <2>1. UNCHANGED <<fifo, shifting>>
    BY <1>3 DEF Svc, TakeInterrupt, Abort, Enter, device_vars, uart_vars
  <2>2. ASSUME NEW l \in Frame
        PROVE  ClaimHolds(l)' \/ depth' > l
    <3>1. CASE l = depth + 1
      <4>1. pc'[l] = "stub"
        BY <1>3, <3>1, EntersFrame
      <4> QED
        BY <4>1 DEF ClaimHolds
    <3>2. CASE l > depth + 1
      <4>1. pc'[l] = "none"
        BY <1>0, <1>3, <3>2, EntersFrame DEF Shape, FreeShape
      <4> QED
        BY <4>1 DEF ClaimHolds
    <3>3. CASE l < depth + 1
      BY <1>0, <1>3, <3>3, EntersFrame
    <3> QED
      BY <1>0, <3>1, <3>2, <3>3
  <2>3. \/ ClaimHolds(0)' \/ depth' > 1
        \/ depth' = 1 /\ (cause'[1] = "abort" \/ GoingDown(1)')
    <3>1. CASE depth > 0
      BY <1>0, <1>3, <3>1, EntersFrame
    <3>2. CASE depth = 0
      <4>1. pc'[0] = pc[0] \/ pc'[0] = "client"
        BY <1>0, <1>3, <3>2 DEF Svc, TakeInterrupt, Abort, Values
      <4>2. ClaimHolds(0)
        BY <1>0, <3>2 DEF ClaimsKept
      <4> QED
        BY <2>1, <4>1, <4>2 DEF ClaimHolds, TXFF, BUSY
    <3> QED
      BY <1>0, <3>1, <3>2
  <2> QED
    BY <2>2, <2>3 DEF ClaimsKept
<1>4. CASE Eret
  <2>1. depth = 1 /\ depth' = 0 /\ pc[1] = "eret"
    BY <1>4, EretFromFirst DEF Shape
  <2>2. cause[1] # "abort" /\ ~GoingDown(1)
    BY <2>1 DEF Shape, FirstFrameShape, InAbort, FatalStep, HaltStep, RebootStep, GoingDown,
       Reporting
  <2>3. UNCHANGED <<fifo, shifting>> /\ pc'[0] = pc[0] /\ pc'[1] = "none"
    BY <1>0, <1>4, <2>1 DEF Eret, Values, device_vars, uart_vars
  <2>4. \A l \in Frame : pc'[l] = "none"
    BY <1>0, <1>4, <2>1 DEF Eret, Values, Shape, FreeShape
  <2>5. ClaimHolds(0)'
    BY <1>0, <2>1, <2>2, <2>3 DEF ClaimsKept, ClaimHolds, TXFF, BUSY
  <2> QED
    BY <2>4, <2>5 DEF ClaimsKept, ClaimHolds
<1> QED
  BY <1>1, <1>2, <1>3, <1>4 DEF Next, CpuStep, HandlerStep, RunsOn

\* An acknowledged interrupt is retired before its handler does anything else that
\* matters, and no second one is acknowledged meanwhile.
LEMMA RetiredStep ==
    ASSUME Values, Shape, Masking, Retired, [Next]_vars
    PROVE  Retired'
<1>0. 0 \in Level /\ 1 \in Level /\ depth \in Nat
  BY LevelFacts
<1>1. ASSUME UNCHANGED active, depth >= 1 => depth' >= 1, pc'[1] = pc[1], iar'[1] = iar[1]
      PROVE  Retired'
  BY <1>1 DEF Retired
<1>2. CASE UNCHANGED vars \/ World
  <2>1. UNCHANGED <<depth, pc, iar, active>>
    BY <1>2 DEF vars, World, UartShifts, UartSends, CounterAdvances, SourceChanges,
       WatchdogResets, Raise, Withdraw, processor_vars, local_vars, device_vars, gic_vars
  <2> QED
    BY <1>1, <2>1
<1>3. CASE ReadIar
  <2>1. depth = 1 /\ depth' = 1 /\ pc[1] = "iar"
    BY <1>3, IrqAtFirst DEF ReadIar, At, Local
  <2>2. active = {}
    BY <2>1 DEF Retired
  <2>3. PICK i \in InterruptId :
           /\ Acknowledge(i, Expired)
           /\ iar' = [iar EXCEPT ![1] = i]
           /\ pc' = [pc EXCEPT ![1] = IF i = TIMER_INTERRUPT_ID THEN "tick" ELSE "eoi"]
    BY <1>3, <2>1 DEF ReadIar, Goto
  <2>4. active' \subseteq {i}
    BY <2>2, <2>3 DEF Acknowledge
  <2> QED
    BY <1>0, <2>1, <2>3, <2>4 DEF Retired, Values
<1>4. CASE CountTick \/ Rearm
  <2>1. depth = 1 /\ depth' = 1 /\ pc'[1] \in {"rearm", "eoi"}
    BY <1>0, <1>4, IrqAtFirst DEF CountTick, Rearm, Goto, Local, Values
  <2>2. UNCHANGED <<active, iar>>
    BY <1>4 DEF CountTick, Rearm, local_vars, gic_vars
  <2> QED
    BY <2>1, <2>2 DEF Retired
<1>5. CASE Retire
  <2>1. depth = 1
    BY <1>5, IrqAtFirst
  <2>2. active' = active \ {iar[1]}
    BY <1>5, <2>1 DEF Retire, EndOfInterrupt
  <2>3. active' = {}
    BY <2>2 DEF Retired
  <2> QED
    BY <2>3 DEF Retired
<1>6. CASE RunsOn /\ ~(ReadIar \/ CountTick \/ Rearm \/ Retire)
  <2>1. UNCHANGED active
    BY <1>6 DEF RunsOn, InitStep, OutputStep, TimerDiagnostics, InitSetTval, InitSetCtl,
     InitDistributor, InitCpuInterface, Unmask, ParseDeviceTree, Stub, ReadSyndrome,
     SystemCallNumber, ClearInProgress, CheckNested, Mark, Command,
     MaskAndReport, Diagnosed, Poll, Put, FlushEmpty, FlushBusy, Reboot, RequestReset,
     device_vars, gic_vars
  <2>2. CASE depth # 1
    BY <1>0, <1>1, <1>6, <2>1, <2>2, RunsOnLocal DEF Others
  <2>3. CASE depth = 1
    <3>1. pc[1] \notin {"tick", "rearm", "eoi"}
      BY <1>6, <2>3 DEF RunsOn, InitStep, OutputStep, TimerDiagnostics, InitSetTval, InitSetCtl,
       InitDistributor, InitCpuInterface, Unmask, ParseDeviceTree, Stub, ReadSyndrome,
       SystemCallNumber, ClearInProgress, CheckNested, Mark, Command, MaskAndReport,
       Diagnosed, Poll, Put, FlushEmpty, FlushBusy, Reboot, RequestReset, At
    <3> QED
      BY <2>1, <3>1 DEF Retired
  <2> QED
    BY <2>2, <2>3
<1>7. CASE Svc \/ TakeInterrupt \/ Abort
  <2>1. UNCHANGED <<active, iar>> /\ depth' = depth + 1
    BY <1>7 DEF Svc, TakeInterrupt, Abort, Enter, device_vars, gic_vars
  <2>2. CASE depth = 0
    BY <2>1, <2>2 DEF Retired
  <2>3. CASE depth > 0
    <3>1. Abort
      BY <1>7, <1>0, <2>3, AbortAbove DEF Shape
    <3>2. pc'[1] = pc[1]
      BY <1>0, <2>3, <3>1 DEF Abort, Values
    <3> QED
      BY <1>0, <1>1, <2>1, <3>2
  <2> QED
    BY <1>0, <2>2, <2>3
<1>8. CASE Eret
  <2>1. pc[1] = "eret"
    BY <1>8, EretFromFirst DEF Shape
  <2>2. UNCHANGED active
    BY <1>8 DEF Eret, device_vars, gic_vars
  <2> QED
    BY <2>1, <2>2 DEF Retired
<1> QED
  BY <1>2, <1>3, <1>4, <1>5, <1>6, <1>7, <1>8 DEF Next, CpuStep, HandlerStep, RunsOn

-----------------------------------------------------------------------------
\* The invariant holds when boot.s calls kmain.
LEMMA InitInvariant == Init => IInv
<1> SUFFICES ASSUME Init PROVE IInv
  OBVIOUS
<1> USE CoreAssumption
<1>1. Interval \in Nat
  BY IntervalType
<1>2. TypeOK
  <2>1. Values
    <3>1. pc \in [Level -> Step] /\ after \in [Level -> Step]
      BY DEF Init, Step, ThreadStep
    <3>2. todo \in [Level -> 0..MsgLen] /\ iar \in [Level -> InterruptId]
      BY DEF Init, InterruptId
    <3>3. cause \in [Level -> Cause] /\ syndrome \in [Level -> Syndrome]
      BY DEF Init, Cause, Syndrome
    <3>4. depth \in Level /\ elr \in Level /\ reporter \in Level /\ x8 \in SystemCall
          /\ esr \in Syndrome
      BY DEF Init, Level, SystemCall, Syndrome
    <3>5. now \in Nat /\ cval \in Nat /\ ticks \in Nat
      BY <1>1 DEF Init, TimerInit
    <3>6. fifo \in 0..FifoDepth
      BY FifoAssumption DEF Init, UartInit
    <3>7. pending \subseteq OtherIds /\ active \subseteq InterruptId
      BY DEF Init, GicInit
    <3> QED
      BY <3>1, <3>2, <3>3, <3>4, <3>5, <3>6, <3>7 DEF Init, Values
  <2>2. Bools
    BY DEF Init, UartInit, TimerInit, GicInit, Bools
  <2> QED
    BY <2>1, <2>2, Parts
<1>3. Shape
  BY DEF Init, Shape, ThreadShape, FirstFrameShape, UpperShape, FreeShape, EntryShape, Counting,
       InThread, ThreadStep, PrintStep, EntryStep, Level
<1>4. Masking
  BY DEF Init, Masking, Early, EarlyStep, PrintStep, Level
<1>5. TimeKept
  BY <1>1 DEF Init, TimerInit, TimeKept, Armed, Early, EarlyStep, Level
<1>6. ClaimsKept /\ Retired /\ PointOfNoReturn
  BY DEF Init, GicInit, ClaimsKept, ClaimHolds, Retired, PointOfNoReturn, Level, Frame
<1>7. ReportsKept
  BY DEF Init, ReportsKept, Diagnosing, StopsAreDiagnosed, PrintStep, HaltStep, Level, Frame
<1> QED
  BY <1>2, <1>3, <1>4, <1>5, <1>6, <1>7 DEF IInv

\* The invariant is inductive.
LEMMA StepInvariant == IInv /\ [Next]_vars => IInv'
<1> SUFFICES ASSUME IInv, [Next]_vars PROVE IInv'
  OBVIOUS
<1>1. Values /\ Bools /\ Shape /\ Masking /\ Counting
  BY Parts DEF IInv, Shape
<1>2. Values' /\ Bools'
  BY <1>1, ValueStep, BoolStep
<1>3. TypeOK'
  BY <1>2 DEF TypeOK, CoreTypeOK, UartTypeOK, TimerTypeOK, GicTypeOK, Values, Bools
<1>4. Shape' /\ Masking'
  BY <1>1, ShapeStep, MaskingStep
<1>5. TimeKept' /\ ClaimsKept' /\ Retired' /\ PointOfNoReturn'
  BY <1>1, TimeKeptStep, ClaimsKeptStep, RetiredStep, PointOfNoReturnStep DEF IInv
<1>6. ReportsKept'
  BY <1>1, ReportsKeptStep DEF IInv
<1> QED
  BY <1>3, <1>4, <1>5, <1>6 DEF IInv

\* The inductive invariant holds in every reachable state, for every FIFO depth,
\* timer frequency, set of unknown sources, nesting depth and message length.
THEOREM Invariance == Spec => []IInv
  BY InitInvariant, StepInvariant, PTL DEF Spec

\* Every variable keeps its type, and the frame stack its bound.
THEOREM TypeCorrect == Spec => []TypeOK
<1>1. IInv => TypeOK
  BY DEF IInv
<1> QED
  BY <1>1, Invariance, PTL

\* A frame about to return is the first, and no abort.
LEMMA TopIsFirst ==
    ASSUME IInv, pc[depth] = "eret"
    PROVE  depth = 1 /\ cause[1] \in {"irq", "svc"}
<1>1. depth # 0 /\ ~(depth >= 2)
  BY UpperStep, Parts DEF IInv, Shape, ThreadShape, InThread, ThreadStep, RebootStep, HaltStep,
     InAbort, FatalStep
<1>2. depth = 1
  BY <1>1, LevelFacts, Parts DEF IInv
<1> QED
  BY <1>2 DEF IInv, Shape, FirstFrameShape, InAbort, FatalStep, HaltStep

\* ExceptionVectors.s: the eret always goes back to the code that was interrupted,
\* though the stub saves neither ELR_EL1 nor SPSR_EL1.
THEOREM ReturnsCorrect == Spec => []ReturnsToInterrupted
<1>1. IInv => ReturnsToInterrupted
  <2> SUFFICES ASSUME IInv, pc[depth] = "eret"
               PROVE  elr = depth - 1 /\ spsr = (depth # 1)
    BY DEF ReturnsToInterrupted
  <2>1. depth = 1 /\ cause[1] # "abort"
    BY TopIsFirst
  <2>2. elr = 0 /\ ~spsr
    BY <2>1 DEF IInv, Masking
  <2>3. elr = depth - 1
    BY <2>1, <2>2
  <2>4. spsr \in BOOLEAN
    BY DEF IInv, TypeOK, CoreTypeOK
  <2>5. spsr = (depth # 1)
    BY <2>1, <2>2, <2>4, Zenon
  <2> QED
    BY <2>3, <2>5
<1> QED
  BY <1>1, Invariance, PTL

\* handle_exception: only a timer interrupt and an echoing system call ever return.
THEOREM HandledReturn == Spec => []OnlyHandledReturn
<1>1. IInv => OnlyHandledReturn
  <2> SUFFICES ASSUME IInv, NEW l \in Frame, pc[l] = "eret"
               PROVE  \/ cause[l] = "irq" /\ iar[l] = TIMER_INTERRUPT_ID
                      \/ cause[l] = "svc" /\ x8 = "echo"
    BY DEF OnlyHandledReturn
  <2>1. l \in Level /\ l \in 1..MaxDepth /\ depth \in Nat
    BY LevelFacts, Parts DEF IInv, Frame
  <2>2. l <= depth
    BY <2>1, CoreAssumption DEF IInv, Shape, FreeShape
  <2>3. ~(l \in 2..MaxDepth)
    BY <2>2 DEF IInv, Shape, UpperShape, InAbort, FatalStep, HaltStep
  <2>4. l = 1
    BY <2>1, <2>3, CoreAssumption
  <2> QED
    BY <2>1, <2>2, <2>4 DEF IInv, Shape, FirstFrameShape
<1> QED
  BY <1>1, Invariance, PTL

\* The running level's own reading of the transmitter's flags holds.
LEMMA ClaimOfTheTop == ASSUME IInv PROVE ClaimHolds(depth)
<1>1. depth \in Nat /\ depth <= MaxDepth /\ (depth >= 1 => depth \in Frame)
  BY LevelFacts, Parts, CoreAssumption DEF IInv, Frame
<1> QED
  BY <1>1 DEF IInv, ClaimsKept

\* console_putc: no character is ever written to a full FIFO, although the poll and
\* the write may be separated by any number of interrupts.
THEOREM RoomForEveryCharacter == Spec => []NoOverrun
<1>1. IInv => NoOverrun
  BY ClaimOfTheTop DEF ClaimHolds, NoOverrun
<1> QED
  BY <1>1, Invariance, PTL

\* halt: a sleeping processor has put everything it printed on the wire.
THEOREM SleepsInSilence == Spec => []SleepsDrained
<1>1. IInv => SleepsDrained
  BY ClaimOfTheTop DEF ClaimHolds, SleepsDrained
<1> QED
  BY <1>1, Invariance, PTL

\* Interrupt.c: the thread never runs with an interrupt left active in the GIC.
THEOREM EveryInterruptRetired == Spec => []NoInterruptLeftActive
<1>1. IInv => NoInterruptLeftActive
  BY DEF IInv, Retired, NoInterruptLeftActive
<1> QED
  BY <1>1, Invariance, PTL

\* Lifecycle.c: interrupts are never unmasked before the timer and the GIC are set up.
THEOREM UnmaskedReady == Spec => []UnmaskedWhenReady
<1>1. IInv => UnmaskedWhenReady
  <2>1. IInv => depth \in Nat
    BY LevelFacts, Parts DEF IInv
  <2> QED
    BY <2>1 DEF IInv, Masking, UnmaskedWhenReady
<1> QED
  BY <1>1, Invariance, PTL

\* The truncating division in uptime() can only lose time.
LEMMA TruncationNeverAhead ==
    ASSUME NEW t \in Nat, NEW n \in Nat, NEW h \in Nat \ {0}, NEW i \in Nat, t * i <= n
    PROVE  ((1000 * t) \div h) * (h * i) <= 1000 * n
<1> DEFINE u == (1000 * t) \div h
<1>1. u \in Nat /\ h * u <= 1000 * t
  OBVIOUS
<1>2. u * (h * i) = (h * u) * i
  BY <1>1
<1>3. (h * u) * i <= (1000 * t) * i
  <2> DEFINE a == h * u
             b == 1000 * t
  <2>1. a \in Nat /\ b \in Nat /\ a <= b
    BY <1>1
  <2> HIDE DEF a, b
  <2>2. a * i <= b * i
    BY <2>1
  <2> QED
    BY <2>2 DEF a, b
<1>4. (1000 * t) * i = 1000 * (t * i) /\ t * i \in Nat
  OBVIOUS
<1>5. 1000 * (t * i) <= 1000 * n
  BY <1>4
<1> QED
  BY <1>1, <1>2, <1>3, <1>4, <1>5

\* ExceptionHandler.c: a frame that stops the machine has completed the diagnostics, or
\* lies above the frame whose diagnostics it struck in, or was asked to restart.
THEOREM StopsDiagnosed == Spec => []StopsAreDiagnosed
<1>1. IInv => StopsAreDiagnosed
  BY DEF IInv, ReportsKept
<1> QED
  BY <1>1, Invariance, PTL

\* Uptime.c: the uptime shown never runs ahead of the system counter, by more than the
\* remainder clock_ticks_per_interrupt drops, and on the boards there is none.
THEOREM UptimeHonest == Spec => []UptimeNeverAhead
<1>1. IInv => UptimeNeverAhead
  <2> SUFFICES ASSUME IInv PROVE uptime * (Freq - (Freq % Hz)) <= 1000 * now
    BY DEF UptimeNeverAhead
  <2>1. ticks \in Nat /\ now \in Nat /\ Interval \in Nat /\ ticks * Interval <= now
    BY IntervalType DEF IInv, TypeOK, TimerTypeOK, TimeKept
  <2>2. Freq - (Freq % Hz) = Hz * Interval /\ Hz \in Nat \ {0}
    <3>1. \A n \in Nat, b \in Nat \ {0} : n - (n % b) = b * (n \div b)
      OBVIOUS
    <3> QED
      BY <3>1, TimerAssumption DEF Interval
  <2>3. ((1000 * ticks) \div Hz) * (Hz * Interval) <= 1000 * now
    BY <2>1, <2>2, TruncationNeverAhead
  <2> QED
    BY <2>2, <2>3 DEF uptime
<1> QED
  BY <1>1, Invariance, PTL

\* No step takes back a fatal exception, returns to the thread or counts time.
LEMMA FinalStep ==
    ASSUME IInv, [Next]_vars, in_progress = 1
    PROVE  /\ in_progress' = 1 /\ pc'[0] = pc[0] /\ ticks' = ticks
           /\ reporter # 0 => reporter' = reporter
<1>1. Values /\ Shape /\ Masking /\ depth \in Nat /\ 0 \in Level
  BY Parts, LevelFacts DEF IInv
<1>2. depth >= 1
  BY <1>1 DEF IInv, PointOfNoReturn
<1>3. CASE UNCHANGED vars \/ World
  BY <1>3 DEF vars, World, UartShifts, UartSends, CounterAdvances, SourceChanges,
     WatchdogResets, processor_vars, soft_vars, report_vars, timer_vars, device_vars, Advance
<1>4. CASE RunsOn
  <2>1. pc[depth] # "clear" /\ pc[depth] # "tick" /\ pc[depth] # "mark"
    <3>1. CASE depth = 1
      BY <3>1 DEF IInv, PointOfNoReturn, HaltStep, PrintStep
    <3>2. CASE depth >= 2
      BY <1>1, <3>2, UpperStep DEF IInv, Shape, PointOfNoReturn, InAbort, FatalStep, HaltStep
    <3> QED
      BY <1>1, <1>2, <3>1, <3>2
  <2>2. ~ClearInProgress /\ ~CountTick /\ ~Mark
    BY <2>1 DEF ClearInProgress, CountTick, Mark, At
  <2>3. in_progress' = in_progress /\ (reporter # 0 => reporter' = reporter)
    BY <1>4, <2>2, FlagAndReporter DEF MaskAndReport, At, IInv, PointOfNoReturn
  <2>4. ~InitStep /\ ~Command
    BY <1>1, <1>2, CommandAtThread DEF Shape
  <2>5. ticks' = ticks
    BY <1>4, <2>2, <2>4 DEF RunsOn, OutputStep, Stub, ReadSyndrome, ReadIar, Rearm, Retire,
       SystemCallNumber, CheckNested, MaskAndReport, Diagnosed, Poll, Put, FlushEmpty,
       FlushBusy, Reboot, RequestReset, device_vars, timer_vars
  <2> QED
    BY <1>1, <1>2, <1>4, <2>3, <2>5, RunsOnLocal DEF Others
<1>5. CASE Svc \/ TakeInterrupt \/ Abort
  <2>1. Abort
    BY <1>1, <1>2, <1>5, AbortAbove DEF Shape
  <2> QED
    BY <1>1, <1>2, <2>1 DEF Abort, Enter, Values, soft_vars, report_vars, device_vars,
       timer_vars
<1>6. CASE Eret
  <2>1. depth = 1 /\ pc[1] = "eret"
    BY <1>1, <1>6, EretFromFirst DEF Shape
  <2> QED
    BY <2>1 DEF IInv, PointOfNoReturn, HaltStep, PrintStep
<1> QED
  BY <1>3, <1>4, <1>5, <1>6 DEF Next, CpuStep, HandlerStep, RunsOn

\* ExceptionHandler.c: a fatal exception is final, and one report is made of it.
THEOREM Finality == Spec => FatalIsFinal
<1> DEFINE Final == in_progress = 1 => /\ in_progress' = 1
                                       /\ pc'[0] = pc[0]
                                       /\ ticks' = ticks
                                       /\ reporter # 0 => reporter' = reporter
<1>1. IInv /\ [Next]_vars => [Final]_vars
  BY FinalStep
<1>2. FatalIsFinal <=> [][Final]_vars
  BY PTL DEF FatalIsFinal
<1> QED
  BY <1>1, <1>2, Invariance, PTL DEF Spec
=============================================================================

----------------------------- MODULE Boot_proof ------------------------------
(***************************************************************************)
(* Boot clears .bss exactly, with aligned stores, on one core: for every   *)
(* layout the linker can produce.  What it sets up is in effect in time.   *)
(***************************************************************************)
EXTENDS Boot, TLAPS

\* Everything that is not clearing comes before it or after it.
LEMMA Steps ==
    /\ SetupStep \subseteq BootStep \ ({"core_check", "parked"} \cup Loop)
    /\ {"kmain", "vbar_el1", "cptr_el2"} \cup DOMAIN AfterRegister \cup DOMAIN AfterBarrier
           \subseteq SetupStep \cup {"kmain"}
    /\ \A r \in DOMAIN AfterRegister : AfterRegister[r] \in SetupStep
    /\ \A r \in DOMAIN AfterBarrier : AfterBarrier[r] \in SetupStep \cup {"kmain"}
<1>1. SetupStep \subseteq BootStep \ ({"core_check", "parked"} \cup Loop)
  BY DEF BootStep, SetupStep, Loop, EL1Registers, EL2Registers
<1>2. \A r \in DOMAIN AfterRegister : r \in SetupStep /\ AfterRegister[r] \in SetupStep
  BY DEF AfterRegister, SetupStep, EL1Registers, EL2Registers
<1>3. \A r \in DOMAIN AfterBarrier :
         r \in SetupStep /\ AfterBarrier[r] \in SetupStep \cup {"kmain"}
  BY DEF AfterBarrier, SetupStep
<1> QED
  BY <1>1, <1>2, <1>3 DEF SetupStep, EL1Registers, EL2Registers

\* Before any core has been checked nothing has been written.
LEMMA InitEstablishes == Init => BootInv
BY LayoutAssumption DEF Init, BootInv, Running, At, BootStep, Loop

\* Parking writes nothing, and only core 0 gets past it.
LEMMA CoreCheckPreserves ==
    ASSUME BootInv, NEW c \in Core, CoreCheck(c)
    PROVE  BootInv'
<1>1. c \in 0..3 /\ (c % 4 = 0 <=> c = 0)
  BY CoresAssumption
<1>2. bss.start \in Nat /\ bss.end \in Nat /\ bss.start <= bss.end
  BY LayoutAssumption DEF BootInv
<1>3. CASE c = 0
  <2>1. /\ pc' = [pc EXCEPT ![c] = "head"]
        /\ x5' = [x5 EXCEPT ![c] = bss.start]
        /\ x7' = x7 /\ bss' = bss /\ cleared' = cleared
    BY <1>1, <1>3 DEF CoreCheck, Goto
  <2>2. \A d \in Core : ~Running(d)
    BY <1>3 DEF BootInv, Running, At, CoreCheck
  <2>3. cleared = {} /\ bss.start .. bss.start - 1 = {}
    BY <2>2, <1>2 DEF BootInv
  <2> QED
    BY <2>1, <2>2, <2>3, <1>2, <1>3 DEF BootInv, BootStep, Loop, Running, At
<1>4. CASE c # 0
  <2>1. /\ pc' = [pc EXCEPT ![c] = "parked"]
        /\ x5' = x5 /\ x7' = x7 /\ bss' = bss /\ cleared' = cleared
    BY <1>1, <1>4 DEF CoreCheck, Goto
  <2>2. pc[c] = "core_check"
    BY DEF CoreCheck, At
  <2>3. \A d \in Core : Running(d)' <=> Running(d)
    BY <2>1, <2>2 DEF BootInv, Running, At
  <2> QED
    BY <2>1, <2>2, <2>3 DEF BootInv, BootStep, Loop, Running, At
<1> QED
  BY <1>3, <1>4

\* What every step of the clearing loops comes to: core c goes to step p with its
\* write pointer at n, and exactly what lies below n is cleared.
Moves(c, p, n, r) ==
    /\ pc' = [pc EXCEPT ![c] = p]
    /\ x5' = [x5 EXCEPT ![c] = n]
    /\ x7' = [x7 EXCEPT ![c] = r]
    /\ bss' = bss
    /\ bss.start <= n /\ n <= bss.end
    /\ cleared' = bss.start .. n - 1
    /\ p \in {"size", "bulk"} => n % 8 = 0
    /\ p = "bulk" => r = bss.end - n /\ r >= 8
    /\ p \notin Loop => n = bss.end

\* A move of that kind preserves the invariant.
LEMMA MovePreserves ==
    ASSUME BootInv, NEW c \in Core, Running(c),
           NEW p \in BootStep \ {"core_check", "parked"},
           NEW n \in Nat, NEW r \in Int, Moves(c, p, n, r)
    PROVE  BootInv'
<1>1. /\ pc' \in [Core -> BootStep] /\ x5' \in [Core -> Nat]
      /\ x7' \in [Core -> Int] /\ bss' \in Layouts
      /\ pc'[c] = p /\ x5'[c] = n /\ x7'[c] = r
  BY DEF BootInv, Moves
<1>2. \A d \in Core : d # c => pc'[d] = pc[d]
  BY DEF BootInv, Moves
<1>3. c = 0 /\ \A d \in Core : Running(d) => d = 0
  BY DEF BootInv
<1>4. \A d \in Core : Running(d)' => d = c
  BY <1>2, <1>3 DEF Running, At
<1>5. Running(c)'
  BY <1>1 DEF Running, At
<1>6. /\ bss'.start <= x5'[c] /\ x5'[c] <= bss'.end
      /\ cleared' = bss'.start .. x5'[c] - 1
      /\ pc'[c] \in {"size", "bulk"} => x5'[c] % 8 = 0
      /\ pc'[c] = "bulk" => x7'[c] = bss'.end - x5'[c] /\ x7'[c] >= 8
      /\ pc'[c] \notin Loop => x5'[c] = bss'.end
  BY <1>1 DEF Moves
<1> QED
  BY <1>1, <1>3, <1>4, <1>5, <1>6 DEF BootInv

\* Each store extends what is cleared by what the write pointer passes.
LEMMA ClearPreserves ==
    ASSUME BootInv, NEW c \in Core, Clear(c)
    PROVE  BootInv'
<1>1. bss.start \in Nat /\ bss.end \in Nat /\ bss.start <= bss.end
  BY LayoutAssumption DEF BootInv
<1>2. Running(c)
  BY DEF Running, At, Clear, HeadByte, HeadDone, Size, Bulk, TailByte, TailDone
<1>3. pc \in [Core -> BootStep] /\ x5 \in [Core -> Nat] /\ x7 \in [Core -> Int]
  BY DEF BootInv
<1>4. /\ x5[c] \in Nat /\ x7[c] \in Int /\ bss.start <= x5[c] /\ x5[c] <= bss.end
      /\ cleared = bss.start .. x5[c] - 1
      /\ pc[c] \in {"size", "bulk"} => x5[c] % 8 = 0
      /\ pc[c] = "bulk" => x7[c] = bss.end - x5[c] /\ x7[c] >= 8
      /\ pc[c] \notin Loop => x5[c] = bss.end
  BY <1>2, <1>3 DEF BootInv
<1>5. CASE HeadByte(c)
  <2>1. cleared' = bss.start .. (x5[c] + 1) - 1
    BY <1>5, <1>1, <1>4 DEF HeadByte, Store
  <2>2. Moves(c, "head", x5[c] + 1, x7[c])
    BY <1>5, <1>1, <1>3, <1>4, <2>1 DEF HeadByte, Store, At, Moves, Loop
  <2>3. "head" \in BootStep \ {"core_check", "parked"} /\ x5[c] + 1 \in Nat
    BY <1>4 DEF BootStep, Loop
  <2> QED
    BY <2>2, <2>3, <1>2, <1>4, MovePreserves
<1>6. CASE HeadDone(c)
  <2>1. CASE x5[c] >= bss.end
    <3>1. Moves(c, "setup", x5[c], x7[c])
      BY <1>6, <2>1, <1>1, <1>3, <1>4 DEF HeadDone, Goto, Moves, Loop
    <3> QED
      BY <3>1, <1>2, <1>4, MovePreserves DEF BootStep, Loop, SetupStep
  <2>2. CASE ~(x5[c] >= bss.end)
    <3>1. Moves(c, "size", x5[c], x7[c])
      BY <1>6, <2>2, <1>1, <1>3, <1>4 DEF HeadDone, Goto, Moves, Loop
    <3> QED
      BY <3>1, <1>2, <1>4, MovePreserves DEF BootStep, Loop, SetupStep
  <2> QED
    BY <2>1, <2>2
<1>7. CASE Size(c)
  <2>1. bss.end - x5[c] \in Int /\ x5[c] % 8 = 0
    BY <1>7, <1>1, <1>4 DEF Size, At
  <2>2. CASE bss.end - x5[c] < 8
    <3>1. Moves(c, "tail", x5[c], bss.end - x5[c])
      BY <1>7, <2>2, <1>1, <1>3, <1>4 DEF Size, Goto, Moves, Loop
    <3> QED
      BY <3>1, <2>1, <1>2, <1>4, MovePreserves DEF BootStep, Loop, SetupStep
  <2>3. CASE ~(bss.end - x5[c] < 8)
    <3>1. Moves(c, "bulk", x5[c], bss.end - x5[c])
      BY <1>7, <2>1, <2>3, <1>1, <1>3, <1>4 DEF Size, Goto, Moves, Loop
    <3> QED
      BY <3>1, <2>1, <1>2, <1>4, MovePreserves DEF BootStep, Loop, SetupStep
  <2> QED
    BY <2>2, <2>3
<1>8. CASE Bulk(c)
  <2>1. x5[c] % 8 = 0 /\ x7[c] = bss.end - x5[c] /\ x7[c] >= 8
    BY <1>8, <1>4 DEF Bulk, At
  <2>2. cleared' = bss.start .. (x5[c] + 8) - 1
    BY <1>8, <1>1, <1>4 DEF Bulk, Store
  <2>3. (x5[c] + 8) % 8 = 0
    BY <2>1, <1>4
  <2>4. CASE x7[c] - 8 >= 8
    <3>1. Moves(c, "bulk", x5[c] + 8, x7[c] - 8)
      BY <1>8, <2>1, <2>2, <2>3, <2>4, <1>1, <1>3, <1>4 DEF Bulk, Store, At, Moves, Loop
    <3> QED
      BY <3>1, <1>2, <1>4, MovePreserves DEF BootStep, Loop, SetupStep
  <2>5. CASE ~(x7[c] - 8 >= 8)
    <3>1. Moves(c, "tail", x5[c] + 8, x7[c] - 8)
      BY <1>8, <2>1, <2>2, <2>5, <1>1, <1>3, <1>4 DEF Bulk, Store, Goto, Moves, Loop
    <3> QED
      BY <3>1, <1>2, <1>4, MovePreserves DEF BootStep, Loop, SetupStep
  <2> QED
    BY <2>4, <2>5
<1>9. CASE TailByte(c)
  <2>1. cleared' = bss.start .. (x5[c] + 1) - 1
    BY <1>9, <1>1, <1>4 DEF TailByte, Store
  <2>2. Moves(c, "tail", x5[c] + 1, x7[c])
    BY <1>9, <1>1, <1>3, <1>4, <2>1 DEF TailByte, Store, At, Moves, Loop
  <2>3. "tail" \in BootStep \ {"core_check", "parked"} /\ x5[c] + 1 \in Nat
    BY <1>4 DEF BootStep, Loop
  <2> QED
    BY <2>2, <2>3, <1>2, <1>4, MovePreserves
<1>10. CASE TailDone(c)
  <2>1. Moves(c, "setup", x5[c], x7[c])
    BY <1>10, <1>1, <1>3, <1>4 DEF TailDone, Goto, Moves, Loop
  <2> QED
    BY <2>1, <1>2, <1>4, MovePreserves DEF BootStep, Loop, SetupStep
<1> QED
  BY <1>5, <1>6, <1>7, <1>8, <1>9, <1>10 DEF Clear

\* Setting registers moves no pointer and clears nothing.
LEMMA RegistersPreserve ==
    ASSUME BootInv, NEW c \in Core, Registers(c)
    PROVE  BootInv'
<1>1. PICK p \in SetupStep \cup {"kmain"} : Goto(c, p) /\ Unmoved
  BY Steps DEF Registers, SetUp, WriteRegister, Barrier, DropToEL1
<1>2. pc[c] \in SetupStep
  <2>1. CASE pc[c] \in {"setup", "eret"}
    BY <2>1 DEF SetupStep
  <2>2. CASE pc[c] \in DOMAIN AfterRegister \cup DOMAIN AfterBarrier
    <3>1. "kmain" \notin DOMAIN AfterRegister \cup DOMAIN AfterBarrier
      BY DEF AfterRegister, AfterBarrier
    <3> QED
      BY <2>2, <3>1, Steps
  <2> QED
    BY <2>1, <2>2 DEF Registers, SetUp, WriteRegister, Barrier, DropToEL1, At
<1>3. Running(c) /\ pc[c] \notin Loop /\ p \in BootStep \ ({"core_check", "parked"} \cup Loop)
  BY <1>1, <1>2, Steps DEF Running, At, BootStep, Loop
<1>4. bss.start \in Nat /\ bss.end \in Nat /\ bss.start <= bss.end
  BY LayoutAssumption DEF BootInv
<1>5. pc \in [Core -> BootStep] /\ x5 \in [Core -> Nat] /\ x7 \in [Core -> Int]
  BY DEF BootInv
<1>6. x5[c] \in Nat /\ x7[c] \in Int /\ x5[c] = bss.end /\ cleared = bss.start .. x5[c] - 1
  BY <1>3, <1>5 DEF BootInv
<1>7. Moves(c, p, x5[c], x7[c])
  BY <1>1, <1>3, <1>4, <1>5, <1>6 DEF Moves, Goto, Unmoved, Loop
<1> QED
  BY <1>3, <1>6, <1>7, MovePreserves

\* The loops maintain their invariant on every core and for every layout of .bss.
THEOREM BootInvariant == Spec => []BootInv
<1>1. BootInv /\ [Next]_boot_vars => BootInv'
  <2>1. ASSUME BootInv, NEW c \in Core, Start(c) PROVE BootInv'
    BY <2>1, CoreCheckPreserves, ClearPreserves, RegistersPreserve DEF Start
  <2>2. ASSUME BootInv, UNCHANGED boot_vars PROVE BootInv'
    BY <2>2 DEF BootInv, boot_vars, Running, At
  <2> QED
    BY <2>1, <2>2 DEF Next
<1> QED
  BY <1>1, InitEstablishes, PTL DEF Spec

\* When C code starts, .bss has been cleared, at any alignment and length.
THEOREM BssCleared == Spec => []ClearedForC
<1>1. BootInv => ClearedForC
  <2> SUFFICES ASSUME BootInv, NEW c \in Core, At(c, "kmain")
               PROVE  Bss \subseteq cleared
    BY DEF ClearedForC
  <2>1. Running(c)
    BY DEF Running, At
  <2> QED
    BY <2>1 DEF BootInv, Bss, At, Loop
<1> QED
  BY <1>1, BootInvariant, PTL

\* Nothing outside .bss is written.
THEOREM NothingElseCleared == Spec => []OnlyBssCleared
<1>1. BootInv => OnlyBssCleared
  <2> SUFFICES ASSUME BootInv PROVE cleared \subseteq Bss
    BY DEF OnlyBssCleared
  <2>0. bss.start \in Nat /\ bss.end \in Nat
    BY LayoutAssumption DEF BootInv
  <2>1. CASE \A c \in Core : ~Running(c)
    BY <2>1 DEF BootInv
  <2>2. ASSUME NEW c \in Core, Running(c) PROVE cleared \subseteq Bss
    <3>1. x5[c] \in Nat /\ x5[c] <= bss.end /\ cleared = bss.start .. x5[c] - 1
      BY <2>2 DEF BootInv
    <3> QED
      BY <3>1, <2>0 DEF Bss
  <2> QED
    BY <2>1, <2>2
<1> QED
  BY <1>1, BootInvariant, PTL

\* No eight-byte store faults for its alignment.
THEOREM AlignedStores == Spec => []StoresAligned
<1>1. BootInv => StoresAligned
  BY DEF BootInv, StoresAligned, Running, At
<1> QED
  BY <1>1, BootInvariant, PTL

\* One core at most gets past the check.
THEOREM SingleCore == Spec => []OneKernel
<1>1. BootInv => OneKernel
  BY DEF BootInv, OneKernel
<1> QED
  BY <1>1, BootInvariant, PTL

-----------------------------------------------------------------------------
(* Registers and barriers.                                                 *)

\* The order in which the steps come; on virt the first nine are skipped.
Place == [setup |-> 0, cptr_el2 |-> 1, sp_el1 |-> 2, hcr_el2 |-> 3, cnthctl_el2 |-> 4,
          cntvoff_el2 |-> 5, elr_el2 |-> 6, spsr_el2 |-> 7, isb_el2 |-> 8, eret |-> 9,
          vbar_el1 |-> 10, cpacr_el1 |-> 11, isb_el1 |-> 12, kmain |-> 13]

AllRegisters == EL2Registers \cup EL1Registers
Before(r, p) == p \in DOMAIN Place /\ Place[r] < Place[p]
AtEL1 == {"vbar_el1", "cpacr_el1", "isb_el1", "kmain"}

\* For a core at step p and level l that has written w, of which n is pending: a
\* register is written when the step after it is reached, those of EL2 are no longer
\* pending when EL1 begins, and nothing is when C code does.
Sound(b, p, l, w, n) ==
    /\ b = "virt" => /\ l = 1
                     /\ p \notin EL2Registers \cup {"isb_el2", "eret"}
                     /\ p # "core_check" => "sp_el1" \in w
    /\ b = "rpi" => /\ l = IF p \in AtEL1 THEN 1 ELSE 2
                    /\ \A r \in EL2Registers : Before(r, p) => r \in w
    /\ \A r \in EL1Registers : p \in AtEL1 /\ Before(r, p) => r \in w
    /\ b = "virt" \/ p \in AtEL1 => n \subseteq EL1Registers
    /\ p \in {"kmain", "eret"} => n = {}

RegisterInv ==
    /\ board \in {"virt", "rpi"}
    /\ pc \in [Core -> BootStep]
    /\ level \in [Core -> {1, 2}]
    /\ written \in [Core -> SUBSET AllRegisters]
    /\ pending \in [Core -> SUBSET AllRegisters]
    /\ \A c \in Core : Sound(board, pc[c], level[c], written[c], pending[c])

\* A step is one core's; the others are as they were.
LEMMA OneMoves ==
    ASSUME RegisterInv, NEW c \in Core, UNCHANGED board,
           NEW p \in BootStep, pc' = [pc EXCEPT ![c] = p],
           NEW l \in {1, 2}, level' = [level EXCEPT ![c] = l],
           NEW w \in SUBSET AllRegisters, written' = [written EXCEPT ![c] = w],
           NEW n \in SUBSET AllRegisters, pending' = [pending EXCEPT ![c] = n],
           Sound(board, p, l, w, n)
    PROVE  RegisterInv'
<1>1. Sound(board, pc'[c], level'[c], written'[c], pending'[c])
  BY DEF RegisterInv
<1>2. ASSUME NEW d \in Core, d # c
      PROVE  Sound(board, pc'[d], level'[d], written'[d], pending'[d])
  <2>1. /\ pc'[d] = pc[d] /\ level'[d] = level[d]
        /\ written'[d] = written[d] /\ pending'[d] = pending[d]
    BY <1>2 DEF RegisterInv
  <2>2. Sound(board, pc[d], level[d], written[d], pending[d])
    BY <1>2 DEF RegisterInv
  <2> QED
    BY <2>1, <2>2
<1>3. \A d \in Core : Sound(board', pc'[d], level'[d], written'[d], pending'[d])
  BY <1>1, <1>2
<1>4. /\ board' \in {"virt", "rpi"} /\ pc' \in [Core -> BootStep] /\ level' \in [Core -> {1, 2}]
      /\ written' \in [Core -> SUBSET AllRegisters]
      /\ pending' \in [Core -> SUBSET AllRegisters]
  BY DEF RegisterInv
<1> QED
  BY <1>3, <1>4 DEF RegisterInv

LEMMA Typed ==
    ASSUME RegisterInv, NEW c \in Core
    PROVE  /\ pc[c] \in BootStep /\ level[c] \in {1, 2} /\ board \in {"virt", "rpi"}
           /\ written[c] \in SUBSET AllRegisters
           /\ pending[c] \in SUBSET AllRegisters
           /\ pc = [pc EXCEPT ![c] = pc[c]] /\ level = [level EXCEPT ![c] = level[c]]
           /\ written = [written EXCEPT ![c] = written[c]]
           /\ pending = [pending EXCEPT ![c] = pending[c]]
           /\ Sound(board, pc[c], level[c], written[c], pending[c])
BY DEF RegisterInv

LEMMA RegistersInitially == Init => RegisterInv
<1> SUFFICES ASSUME Init, NEW c \in Core
             PROVE  Sound(board, pc[c], level[c], written[c], pending[c])
  BY DEF Init, RegisterInv, BootStep
<1> QED
  BY DEF Init, Sound, EL2Registers, Before, AtEL1, Place

LEMMA RegistersCoreCheck ==
    ASSUME RegisterInv, NEW c \in Core, CoreCheck(c) PROVE RegisterInv'
<1>1. PICK p \in {"parked", "head"} : pc' = [pc EXCEPT ![c] = p]
  BY DEF CoreCheck, Goto
<1>2. pc[c] = "core_check" /\ UNCHANGED <<board, level, pending>>
  BY DEF CoreCheck, At, SetStack
<1> DEFINE w == IF board = "virt" THEN {"sp_el1"} ELSE {}
<1>3. written' = [written EXCEPT ![c] = w] /\ w \subseteq EL2Registers
  BY DEF CoreCheck, SetStack, EL2Registers
<1>4. p \in BootStep
  BY <1>1 DEF BootStep, Loop
<1>5. Sound(board, p, level[c], w, pending[c])
  BY <1>1, <1>2, Typed DEF Sound, EL2Registers, Before, AtEL1, Place
<1> HIDE DEF w
<1>6. /\ level' = [level EXCEPT ![c] = level[c]] /\ pending' = [pending EXCEPT ![c] = pending[c]]
      /\ level[c] \in {1, 2} /\ w \in SUBSET AllRegisters
      /\ pending[c] \in SUBSET AllRegisters
  BY <1>2, <1>3, Typed DEF AllRegisters
<1> QED
  BY <1>1, <1>2, <1>3, <1>4, <1>5, <1>6, OneMoves

\* Clearing leaves the registers alone.
LEMMA RegistersClear ==
    ASSUME RegisterInv, NEW c \in Core, Clear(c) PROVE RegisterInv'
<1>1. pc[c] \in Loop
  BY DEF Clear, HeadByte, HeadDone, Size, Bulk, TailByte, TailDone, At, Loop
<1>2. PICK p \in Loop \cup {"setup"} : pc' = [pc EXCEPT ![c] = p]
  BY <1>1, Typed
     DEF Clear, HeadByte, HeadDone, Size, Bulk, TailByte, TailDone, Goto, Loop
<1>3. UNCHANGED <<board, level, written, pending>>
  BY DEF Clear, HeadByte, HeadDone, Size, Bulk, TailByte, TailDone, Store, setup_vars
<1>4. p \in BootStep
  BY <1>2 DEF BootStep, SetupStep, Loop
<1>5. Sound(board, p, level[c], written[c], pending[c])
  BY <1>1, <1>2, Typed DEF Sound, EL1Registers, EL2Registers, Before, AtEL1, Place, Loop
<1> QED
  BY <1>2, <1>3, <1>4, <1>5, Typed, OneMoves

LEMMA RegistersSet ==
    ASSUME RegisterInv, NEW c \in Core, Registers(c) PROVE RegisterInv'
<1> USE DEF Sound, EL1Registers, EL2Registers, Before, AtEL1, Place
<1>1. CASE SetUp(c)
  <2> DEFINE p == IF board = "rpi" THEN "cptr_el2" ELSE "vbar_el1"
  <2>1. /\ pc[c] = "setup" /\ pc' = [pc EXCEPT ![c] = p]
        /\ UNCHANGED <<board, level, written, pending>>
    BY <1>1 DEF SetUp, At, Goto, Unmoved
  <2>2. p \in BootStep
    BY DEF BootStep, SetupStep
  <2>3. Sound(board, p, level[c], written[c], pending[c])
    BY <2>1, Typed
  <2> HIDE DEF Sound, p
  <2> QED
    BY <2>1, <2>2, <2>3, Typed, OneMoves
<1>2. CASE WriteRegister(c)
  <2> DEFINE p == AfterRegister[pc[c]]
             w == written[c] \cup {pc[c]}
             n == pending[c] \cup {pc[c]}
  <2>1. /\ pc[c] \in DOMAIN AfterRegister /\ pc' = [pc EXCEPT ![c] = p]
        /\ written' = [written EXCEPT ![c] = w] /\ pending' = [pending EXCEPT ![c] = n]
        /\ UNCHANGED <<board, level>>
    BY <1>2 DEF WriteRegister, Goto, Unmoved
  <2>2. p \in BootStep
    BY <2>1, Steps
  <2>3. w \in SUBSET AllRegisters /\ n \in SUBSET AllRegisters
    BY <2>1, Typed DEF AfterRegister, AllRegisters
  <2>4. Sound(board, p, level[c], w, n)
    <3>1. CASE pc[c] \in EL2Registers
      BY <3>1, Typed DEF AfterRegister
    <3>2. CASE pc[c] \in EL1Registers
      BY <3>2, Typed DEF AfterRegister
    <3> QED
      BY <2>1, <3>1, <3>2 DEF AfterRegister
  <2> HIDE DEF Sound, p, w, n
  <2> QED
    BY <2>1, <2>2, <2>3, <2>4, Typed, OneMoves
<1>3. CASE Barrier(c)
  <2> DEFINE p == AfterBarrier[pc[c]]
  <2>1. /\ pc[c] \in DOMAIN AfterBarrier /\ pc' = [pc EXCEPT ![c] = p]
        /\ pending' = [pending EXCEPT ![c] = {}] /\ UNCHANGED <<board, level, written>>
    BY <1>3 DEF Barrier, Goto, Unmoved
  <2>2. p \in BootStep
    BY <2>1 DEF AfterBarrier, BootStep, SetupStep
  <2>3. Sound(board, p, level[c], written[c], {})
    BY <2>1, Typed DEF AfterBarrier
  <2>4. level' = [level EXCEPT ![c] = level[c]] /\ written' = [written EXCEPT ![c] = written[c]]
    BY <2>1, Typed
  <2>5. level[c] \in {1, 2} /\ written[c] \in SUBSET AllRegisters /\ {} \in SUBSET AllRegisters
    BY Typed
  <2> HIDE DEF Sound, p
  <2> QED
    BY <2>1, <2>2, <2>3, <2>4, <2>5, OneMoves
<1>4. CASE DropToEL1(c)
  <2>1. /\ pc[c] = "eret" /\ pc' = [pc EXCEPT ![c] = "vbar_el1"]
        /\ level' = [level EXCEPT ![c] = 1] /\ pending' = [pending EXCEPT ![c] = {}]
        /\ UNCHANGED <<board, written>>
    BY <1>4 DEF DropToEL1, At, Goto, Unmoved
  <2>2. Sound(board, "vbar_el1", 1, written[c], {})
    BY <2>1, Typed
  <2>3. "vbar_el1" \in BootStep
    BY DEF BootStep, SetupStep
  <2>4. written' = [written EXCEPT ![c] = written[c]]
    BY <2>1, Typed
  <2>5. written[c] \in SUBSET AllRegisters /\ {} \in SUBSET AllRegisters
    BY Typed
  <2> HIDE DEF Sound
  <2> QED
    BY <2>1, <2>2, <2>3, <2>4, <2>5, OneMoves
<1> QED
  BY <1>1, <1>2, <1>3, <1>4 DEF Registers

\* EL1 begins with what it cannot set in effect, and C code with all it needs.
THEOREM RegistersReady == Spec => []RegistersInEffect
<1>1. RegisterInv /\ [Next]_boot_vars => RegisterInv'
  <2>1. ASSUME RegisterInv, NEW c \in Core, Start(c) PROVE RegisterInv'
    BY <2>1, RegistersCoreCheck, RegistersClear, RegistersSet DEF Start
  <2>2. ASSUME RegisterInv, UNCHANGED boot_vars PROVE RegisterInv'
    BY <2>2 DEF RegisterInv, boot_vars, setup_vars
  <2> QED
    BY <2>1, <2>2 DEF Next
<1>2. RegisterInv => RegistersInEffect
  <2> SUFFICES ASSUME RegisterInv, NEW c \in Core
               PROVE  /\ level[c] = 1 /\ board = "rpi" => EL2Registers \subseteq InEffect(c)
                      /\ At(c, "kmain") =>
                            /\ level[c] = 1
                            /\ {"sp_el1"} \cup EL1Registers \subseteq InEffect(c)
    BY DEF RegistersInEffect
  <2> QED
    BY Typed DEF InEffect, At, Sound, EL1Registers, EL2Registers, Before, AtEL1, Place
<1> QED
  BY <1>1, <1>2, RegistersInitially, PTL DEF Spec
=============================================================================

--------------------------------- MODULE Boot --------------------------------
(***************************************************************************)
(* _start of platform/virt/boot.s and platform/rpi/boot.s: every core the  *)
(* firmware releases runs it; all but one park, and that one clears .bss   *)
(* with caches and the MMU off, so that an eight-byte store must be        *)
(* aligned, sets the system registers C code needs and calls kmain.        *)
(*                                                                         *)
(* The core on rpi starts at EL2 and drops to EL1.  A write of a system    *)
(* register may take effect at any time up to the next barrier or return   *)
(* from an exception: until then it is pending.                            *)
(***************************************************************************)
EXTENDS Integers

CONSTANTS
    Core,    \* MPIDR_EL1.Aff0 of the cores that run _start
    Layouts  \* where the linker may put .bss: [start, end]

\* Aff0 numbers the cores of one cluster of four.
ASSUME CoresAssumption == Core \subseteq 0..3

ASSUME LayoutAssumption ==
    \A b \in Layouts : b.start \in Nat /\ b.end \in Nat /\ b.start <= b.end

\* The registers that are set, and at which level.
EL2Registers == {"cptr_el2", "sp_el1", "hcr_el2", "cnthctl_el2", "cntvoff_el2",
                 "elr_el2", "spsr_el2"}
EL1Registers == {"vbar_el1", "cpacr_el1"}

Loop == {"head", "size", "bulk", "tail"}
SetupStep == {"setup", "isb_el2", "eret", "isb_el1"} \cup EL2Registers \cup EL1Registers
BootStep == {"core_check", "parked", "kmain"} \cup Loop \cup SetupStep

VARIABLES
    board,   \* "virt" or "rpi"
    pc,      \* by core, its next step
    x5,      \* by core, the write pointer
    x7,      \* by core, bytes that remain
    bss,     \* the layout of this kernel
    cleared, \* addresses that have been written
    level,   \* by core, its exception level
    written, \* by core, the system registers it has set
    pending  \* by core, those of them that may not be in effect yet

setup_vars == <<board, level, written, pending>>
boot_vars == <<pc, x5, x7, bss, cleared, setup_vars>>

Init == /\ pc = [c \in Core |-> "core_check"]
        /\ x5 = [c \in Core |-> 0]
        /\ x7 = [c \in Core |-> 0]
        /\ bss \in Layouts
        /\ cleared = {}
        /\ board \in {"virt", "rpi"}
        /\ level = [c \in Core |-> IF board = "rpi" THEN 2 ELSE 1]
        /\ written = [c \in Core |-> {}]
        /\ pending = [c \in Core |-> {}]

At(c, s) == pc[c] = s
Goto(c, s) == pc' = [pc EXCEPT ![c] = s]

\* A store of n bytes at the write pointer, which then advances.
Store(c, n) == /\ cleared' = cleared \cup (x5[c] .. x5[c] + n - 1)
               /\ x5' = [x5 EXCEPT ![c] = @ + n]
               /\ UNCHANGED <<bss, setup_vars>>

\* On virt every core sets its stack pointer before it is checked, with mov sp,
\* which is in effect at once; on rpi it is a register of the lower level.
SetStack(c) == /\ written' = [written EXCEPT ![c] = IF board = "virt" THEN {"sp_el1"}
                                                                    ELSE {}]
               /\ UNCHANGED <<board, level, pending>>

-----------------------------------------------------------------------------
\* A plausible slip: the low bits are not isolated, only odd cores park.
CoreCheckOneBit(c) ==
    /\ At(c, "core_check")
    /\ IF c % 2 # 0
       THEN Goto(c, "parked") /\ UNCHANGED x5
       ELSE Goto(c, "head") /\ x5' = [x5 EXCEPT ![c] = bss.start]
    /\ SetStack(c)
    /\ UNCHANGED <<x7, bss, cleared>>

\* Core 0 goes on; the others wait for events that change nothing.
CoreCheck(c) ==
    /\ At(c, "core_check")
    /\ IF c % 4 # 0
       THEN Goto(c, "parked") /\ UNCHANGED x5
       ELSE Goto(c, "head") /\ x5' = [x5 EXCEPT ![c] = bss.start]
    /\ SetStack(c)
    /\ UNCHANGED <<x7, bss, cleared>>

\* A plausible slip: the bulk loop is entered at any address.
HeadUnaligned(c) ==
    /\ At(c, "head")
    /\ Goto(c, IF x5[c] >= bss.end THEN "setup" ELSE "size")
    /\ UNCHANGED <<x5, x7, bss, cleared, setup_vars>>

\* Single bytes, up to the first address that is a multiple of eight.
HeadByte(c) ==
    /\ At(c, "head") /\ x5[c] < bss.end /\ x5[c] % 8 # 0
    /\ Store(c, 1)
    /\ UNCHANGED <<pc, x7>>

HeadDone(c) ==
    /\ At(c, "head")
    /\ x5[c] >= bss.end \/ x5[c] % 8 = 0
    /\ Goto(c, IF x5[c] >= bss.end THEN "setup" ELSE "size")
    /\ UNCHANGED <<x5, x7, bss, cleared, setup_vars>>

\* A plausible slip: the bulk loop is entered with too few bytes left.
SizeUnchecked(c) ==
    /\ At(c, "size")
    /\ x7' = [x7 EXCEPT ![c] = bss.end - x5[c]]
    /\ Goto(c, "bulk")
    /\ UNCHANGED <<x5, bss, cleared, setup_vars>>

\* A plausible slip: too few bytes for a store send it back to the first loop, which
\* stops at once at an aligned address.
SizeBack(c) ==
    /\ At(c, "size")
    /\ x7' = [x7 EXCEPT ![c] = bss.end - x5[c]]
    /\ Goto(c, IF bss.end - x5[c] < 8 THEN "head" ELSE "bulk")
    /\ UNCHANGED <<x5, bss, cleared, setup_vars>>

Size(c) ==
    /\ At(c, "size")
    /\ x7' = [x7 EXCEPT ![c] = bss.end - x5[c]]
    /\ Goto(c, IF bss.end - x5[c] < 8 THEN "tail" ELSE "bulk")
    /\ UNCHANGED <<x5, bss, cleared, setup_vars>>

\* A plausible slip: one more store for a remainder that is not a multiple of
\* eight.
BulkWhileSome(c) ==
    /\ At(c, "bulk")
    /\ Store(c, 8)
    /\ x7' = [x7 EXCEPT ![c] = @ - 8]
    /\ IF x7[c] - 8 > 0 THEN UNCHANGED pc ELSE Goto(c, "tail")

Bulk(c) ==
    /\ At(c, "bulk")
    /\ Store(c, 8)
    /\ x7' = [x7 EXCEPT ![c] = @ - 8]
    /\ IF x7[c] - 8 >= 8 THEN UNCHANGED pc ELSE Goto(c, "tail")

TailByte(c) ==
    /\ At(c, "tail") /\ x5[c] < bss.end
    /\ Store(c, 1)
    /\ UNCHANGED <<pc, x7>>

\* A plausible slip: the bytes after the last eight are forgotten.
TailForgotten(c) ==
    /\ At(c, "tail")
    /\ Goto(c, "setup")
    /\ UNCHANGED <<x5, x7, bss, cleared, setup_vars>>

TailDone(c) ==
    /\ At(c, "tail") /\ x5[c] >= bss.end
    /\ Goto(c, "setup")
    /\ UNCHANGED <<x5, x7, bss, cleared, setup_vars>>

-----------------------------------------------------------------------------
(* The system registers.                                                   *)

Unmoved == UNCHANGED <<x5, x7, bss, cleared, board>>

\* Where the files of the two boards part.
SetUp(c) == /\ At(c, "setup")
            /\ Goto(c, IF board = "rpi" THEN "cptr_el2" ELSE "vbar_el1")
            /\ Unmoved /\ UNCHANGED <<level, written, pending>>

AfterRegister == [cptr_el2 |-> "sp_el1", sp_el1 |-> "hcr_el2", hcr_el2 |-> "cnthctl_el2",
                  cnthctl_el2 |-> "cntvoff_el2", cntvoff_el2 |-> "elr_el2",
                  elr_el2 |-> "spsr_el2", spsr_el2 |-> "isb_el2",
                  vbar_el1 |-> "cpacr_el1", cpacr_el1 |-> "isb_el1"]

WriteRegister(c) == /\ pc[c] \in DOMAIN AfterRegister
                    /\ written' = [written EXCEPT ![c] = @ \cup {pc[c]}]
                    /\ pending' = [pending EXCEPT ![c] = @ \cup {pc[c]}]
                    /\ Goto(c, AfterRegister[pc[c]])
                    /\ Unmoved /\ UNCHANGED level

AfterBarrier == [isb_el2 |-> "eret", isb_el1 |-> "kmain"]

\* A plausible slip: C code starts without waiting for floating point to be enabled.
NoBarrier(c) == /\ pc[c] \in DOMAIN AfterBarrier
                /\ Goto(c, AfterBarrier[pc[c]])
                /\ Unmoved /\ UNCHANGED <<level, written, pending>>

\* isb; the call of kmain follows the last one.
Barrier(c) == /\ pc[c] \in DOMAIN AfterBarrier
              /\ pending' = [pending EXCEPT ![c] = {}]
              /\ Goto(c, AfterBarrier[pc[c]])
              /\ Unmoved /\ UNCHANGED <<level, written>>

\* eret, with D, A, I and F masked by spsr_el2, to start_el1.
DropToEL1(c) == /\ At(c, "eret")
                /\ level' = [level EXCEPT ![c] = 1]
                /\ pending' = [pending EXCEPT ![c] = {}]
                /\ Goto(c, "vbar_el1")
                /\ Unmoved /\ UNCHANGED written

Clear(c) == HeadByte(c) \/ HeadDone(c) \/ Size(c) \/ Bulk(c) \/ TailByte(c)
            \/ TailDone(c)

Registers(c) == SetUp(c) \/ WriteRegister(c) \/ Barrier(c) \/ DropToEL1(c)

Start(c) == CoreCheck(c) \/ Clear(c) \/ Registers(c)

Next == \E c \in Core : Start(c)

Spec == Init /\ [][Next]_boot_vars

\* A released core executes.
FairSpec == Spec /\ \A c \in Core : WF_boot_vars(Start(c))

-----------------------------------------------------------------------------
\* A core that was not parked.
Running(c) == ~At(c, "core_check") /\ ~At(c, "parked")

Bss == bss.start .. bss.end - 1

\* When C code starts, every byte of .bss has been cleared.
ClearedForC == \A c \in Core : At(c, "kmain") => Bss \subseteq cleared

\* Clearing never leaves .bss: .data below it, the stack and the other sections
\* above it are not touched, at any alignment and length.
OnlyBssCleared == cleared \subseteq Bss

\* Eight-byte stores are aligned; with the MMU off any other would fault, before
\* there is a vector table.
StoresAligned == \A c \in Core : At(c, "bulk") => x5[c] % 8 = 0

\* The kernel runs on one core, and clearing is over when it starts: no other
\* core writes to memory behind its back.
OneKernel == \A c, d \in Core : Running(c) /\ Running(d) => c = d

\* What only EL2 can set is in effect when EL1 begins, which could not repair it; when
\* C code starts, at EL1, so are its stack, the vectors and floating point.
InEffect(c) == written[c] \ pending[c]
RegistersInEffect ==
    \A c \in Core :
       /\ level[c] = 1 /\ board = "rpi" => EL2Registers \subseteq InEffect(c)
       /\ At(c, "kmain") => /\ level[c] = 1
                            /\ {"sp_el1"} \cup EL1Registers \subseteq InEffect(c)

\* Core 0 reaches kmain, whatever the layout, and the other cores are out of the way.
KernelStarts == <>(\A c \in Core : At(c, IF c = 0 THEN "kmain" ELSE "parked"))
-----------------------------------------------------------------------------
\* What the loops maintain: the running core has cleared exactly what lies below
\* its write pointer, and each loop is entered with what its stores need.
BootInv ==
    /\ pc \in [Core -> BootStep]
    /\ x5 \in [Core -> Nat]
    /\ x7 \in [Core -> Int]
    /\ bss \in Layouts
    /\ (\A c \in Core : ~Running(c)) => cleared = {}
    /\ \A c \in Core : Running(c) =>
          /\ c = 0
          /\ bss.start <= x5[c] /\ x5[c] <= bss.end
          /\ cleared = bss.start .. x5[c] - 1
          /\ pc[c] \in {"size", "bulk"} => x5[c] % 8 = 0
          /\ pc[c] = "bulk" => x7[c] = bss.end - x5[c] /\ x7[c] >= 8
          /\ pc[c] \notin Loop => x5[c] = bss.end
=============================================================================

---------------------------- MODULE RegisterFrame ----------------------------
(***************************************************************************)
(* What the entry stub of ExceptionVectors.s does to the registers and the *)
(* stack, an instruction or a pair of registers at a time.  KernelCore     *)
(* takes all of it for its steps "stub" and "eret".                        *)
(*                                                                         *)
(* A value is a tag and a number, so that every register and every word of *)
(* the stack can be told from every other; the stack is counted in words.  *)
(* An exception may come after any instruction, those of the stub included.*)
(***************************************************************************)
EXTENDS Integers

CONSTANTS
    MaxDepth,  \* bound on nested frames
    CWords,    \* words of stack the C code below handle_exception takes
    Used       \* words of stack the interrupted thread has in use

ASSUME FrameAssumption == MaxDepth \in Nat \ {0} /\ CWords \in Nat /\ Used \in Nat

Reg == 0..30
CalleeSaved == 19..29
Frame == 1..MaxDepth
Top == MaxDepth * (32 + CWords)  \* where the thread's stack pointer is
Address == 0..(Top + Used)
Value == {"x", "stack", "sp", "kind", "return", "c", "action"} \X Int
Place == {"none", "room", "store", "move", "link", "call", "c_begin", "c_end", "branch",
          "load", "load_link", "release", "eret", "reboot", "halt"}

VARIABLES
    x,      \* x0 to x30
    sp,     \* the stack pointer
    mem,    \* the stack
    depth,  \* frames on it
    pc,     \* by frame, its next instruction
    pair,   \* by frame, the pair of registers it is at
    kept,   \* by frame, the callee-saved registers its C code has put away
    taken   \* history: by frame, x and sp when its exception was taken

vars == <<x, sp, mem, depth, pc, pair, kept, taken>>

Init == /\ x = [n \in Reg |-> <<"x", n>>]
        /\ sp = Top
        /\ mem = [a \in Address |-> <<"stack", a>>]
        /\ depth = 0
        /\ pc = [l \in Frame |-> "none"]
        /\ pair = [l \in Frame |-> 0]
        /\ kept = [l \in Frame |-> [n \in CalleeSaved |-> <<"x", n>>]]
        /\ taken = [l \in Frame |-> [x |-> x, sp |-> Top]]

At(p) == depth > 0 /\ pc[depth] = p
Goto(p) == pc' = [pc EXCEPT ![depth] = p]

\* An interrupt, a system call or an abort; in a handler, an abort.
Take == /\ depth < MaxDepth
        /\ ~At("halt")
        /\ depth' = depth + 1
        /\ pc' = [pc EXCEPT ![depth + 1] = "room"]
        /\ taken' = [taken EXCEPT ![depth + 1] = [x |-> x, sp |-> sp]]
        /\ UNCHANGED <<x, sp, mem, pair, kept>>

-----------------------------------------------------------------------------
(* Saving.                                                                 *)

\* A plausible slip: room for thirty registers, as many as the pairs in a row.
FrameWordsShort == 30

FrameWords == 32

\* A plausible slip: an offset that is copied and not changed.
StoreOffsetCopied(p) == IF p = 14 THEN 26 ELSE 2 * p

StoreOffset(p) == 2 * p

LoadOffset(p) == 2 * p

MakeRoom == /\ At("room")
            /\ sp' = sp - FrameWords
            /\ pair' = [pair EXCEPT ![depth] = 0]
            /\ Goto("store")
            /\ UNCHANGED <<x, mem, depth, kept, taken>>

\* stp x(2p), x(2p + 1), [sp, #16p] for x0 to x29.
StorePair == /\ At("store")
             /\ LET p == pair[depth]
                    a == sp + StoreOffset(p)
                IN /\ mem' = [mem EXCEPT ![a] = x[2 * p], ![a + 1] = x[2 * p + 1]]
                   /\ pair' = [pair EXCEPT ![depth] = p + 1]
                   /\ Goto(IF p = 14 THEN "move" ELSE "store")
             /\ UNCHANGED <<x, sp, depth, kept, taken>>

\* mov x9, sp
MoveSp == /\ At("move")
          /\ x' = [x EXCEPT ![9] = <<"sp", sp>>]
          /\ Goto("link")
          /\ UNCHANGED <<sp, mem, depth, pair, kept, taken>>

\* stp x30, x9, [sp, #240]
StoreLink == /\ At("link")
             /\ mem' = [mem EXCEPT ![sp + 30] = x[30], ![sp + 31] = x[9]]
             /\ Goto("call")
             /\ UNCHANGED <<x, sp, depth, pair, kept, taken>>

\* The arguments, and the call.
Call == /\ At("call")
        /\ x' = [x EXCEPT ![0] = <<"sp", sp>>, ![1] = <<"kind", 0>>,
                          ![30] = <<"return", depth>>]
        /\ Goto("c_begin")
        /\ UNCHANGED <<sp, mem, depth, pair, kept, taken>>

-----------------------------------------------------------------------------
(* handle_exception as the calling convention lets a C function be: it     *)
(* spoils registers and the stack below it, and gives back x19 to x29 and  *)
(* the stack pointer.                                                      *)

Spoilt == <<"c", depth>>

HandlerWorks ==
    /\ At("c_begin")
    /\ sp' = sp - CWords
    /\ x' = [n \in Reg |-> Spoilt]
    /\ mem' = [a \in Address |-> IF a \in sp'..(sp - 1) THEN Spoilt ELSE mem[a]]
    /\ kept' = [kept EXCEPT ![depth] = [n \in CalleeSaved |-> x[n]]]
    /\ Goto("c_end")
    /\ UNCHANGED <<depth, pair, taken>>

\* Resume 0, restart 1, panic 2.  A nested exception is fatal and not resumed
\* (OnlyHandledReturn of KernelCore).
HandlerReturns ==
    /\ At("c_end")
    /\ \E action \in IF depth = 1 THEN 0..2 ELSE {2} :
          x' = [n \in Reg |-> IF n = 0 THEN <<"action", action>>
                              ELSE IF n \in CalleeSaved THEN kept[depth][n]
                              ELSE Spoilt]
    /\ sp' = sp + CWords
    /\ Goto("branch")
    /\ UNCHANGED <<mem, depth, pair, kept, taken>>

\* A fatal exception within another halts in the C code.
HandlerHalts == /\ At("c_end") /\ depth > 1
                /\ Goto("halt")
                /\ UNCHANGED <<x, sp, mem, depth, pair, kept, taken>>

Branch == /\ At("branch")
          /\ Goto(CASE x[0] = <<"action", 0>> -> "load"
                    [] x[0] = <<"action", 1>> -> "reboot"
                    [] OTHER -> "halt")
          /\ pair' = [pair EXCEPT ![depth] = 0]
          /\ UNCHANGED <<x, sp, mem, depth, kept, taken>>

\* platform_reboot: the machine resets, or it does not and the stub goes on.
Reboot == /\ At("reboot")
          /\ Goto("halt")
          /\ UNCHANGED <<x, sp, mem, depth, pair, kept, taken>>

-----------------------------------------------------------------------------
(* Restoring.                                                              *)

LoadPair == /\ At("load")
            /\ LET p == pair[depth]
                   a == sp + LoadOffset(p)
               IN /\ x' = [x EXCEPT ![2 * p] = mem[a], ![2 * p + 1] = mem[a + 1]]
                  /\ pair' = [pair EXCEPT ![depth] = p + 1]
                  /\ Goto(IF p = 14 THEN "load_link" ELSE "load")
            /\ UNCHANGED <<sp, mem, depth, kept, taken>>

LoadLink == /\ At("load_link")
            /\ x' = [x EXCEPT ![30] = mem[sp + 30]]
            /\ Goto("release")
            /\ UNCHANGED <<sp, mem, depth, pair, kept, taken>>

Release == /\ At("release")
           /\ sp' = sp + FrameWords
           /\ Goto("eret")
           /\ UNCHANGED <<x, mem, depth, pair, kept, taken>>

Eret == /\ At("eret")
        /\ depth' = depth - 1
        /\ Goto("none")
        /\ UNCHANGED <<x, sp, mem, pair, kept, taken>>

Next == \/ Take
        \/ MakeRoom \/ StorePair \/ MoveSp \/ StoreLink \/ Call
        \/ HandlerWorks \/ HandlerReturns \/ HandlerHalts \/ Branch \/ Reboot
        \/ LoadPair \/ LoadLink \/ Release \/ Eret

Spec == Init /\ [][Next]_vars
-----------------------------------------------------------------------------
(* Properties.                                                             *)

\* As long as the C code of a frame runs, or is itself interrupted, the array it
\* takes for saved_registers holds what the registers were when the exception was
\* taken (x8 of a system call among them), and then the frame's own address.
FrameFaithful ==
    \A l \in 1..depth : pc[l] \in {"c_begin", "c_end"} =>
        LET base == taken[l].sp - 32
        IN /\ \A n \in Reg : mem[base + n] = taken[l].x[n]
           /\ mem[base + 31] = <<"sp", base>>

\* Code that is returned to finds every register, the stack pointer and the stack
\* it had in use as it left them.
ResumedIntact ==
    At("eret") => /\ x = taken[depth].x
                  /\ sp = taken[depth].sp
                  /\ \A a \in Top..(Top + Used) : mem[a] = <<"stack", a>>
=============================================================================

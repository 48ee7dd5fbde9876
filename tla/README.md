# CharcoalOS: specification and proofs

CharcoalOS is a single-core arm64 kernel for two boards, QEMU `virt` and the
Raspberry Pi 4 (`rpi`): boot assembly, an EL1 exception vector table, a timer
tick, a PL011 console, a device tree parser and a shell. This directory holds a
TLA+ model of it, the TLC configurations that check the model on small instances,
and TLAPS proofs of what matters most for every value of the constants.

    cd tla
    tlc -workers 2 -config MCKernelCore.cfg MCKernelCore     # a run
    tlapm KernelCore_proof.tla                               # a module's proofs

Paths below are relative to `src/`.

## 1. Inventory

| Component | Source | State it keeps | Operations |
|---|---|---|---|
| Boot | `platform/*/boot.s`, `linker.ld` | none of its own; zeroes `.bss`, sets SP and the system registers | park secondary cores, clear `.bss`, drop to EL1 (rpi), call `kmain` |
| Exception entry and return | `arch/arm64/ExceptionVectors.s` | a 256-byte frame on the interrupted stack | save x0-x30, call `handle_exception`, resume / reboot / panic |
| Exception handler | `arch/arm64/ExceptionHandler.c` | `g_exception_in_progress` | dispatch interrupt / system call / fatal, diagnostics |
| Timer and interrupt controller | `arch/arm64/Interrupt.c` | CNTP_TVAL/CTL, GICD and GICC registers | `initialize_timer`, `handle_interrupt_exception` |
| Uptime | `kernel/Time/Uptime.c` | `g_ticks_since_boot` | count a tick, convert to milliseconds |
| Console output | `platform/*/IO.c`, `kernel/Console/IO.c` | the PL011 transmitter | write, print, hexadecimal, drain |
| Console input | `kernel/Console/IO.c` | the line buffer, what the terminal shows of it | `console_read`, `console_read_line`, `console_uint64_from_hex` |
| Halt, panic, restart | `arch/arm64/Halt.c`, `kernel/Panic/*`, `platform/*/Reboot.c` | the watchdog (rpi) | drain and sleep, print and halt, firmware or watchdog reset |
| Lifecycle | `kernel/Main/*` | `g_foreground_client`, `hw_info` | `kernel_init`, `kernel_run` |
| Shell | `kernel/Console/Shell.c` | the command line and its tokens | tokenize, dispatch, eight commands |
| Device tree | `kernel/Hardware/DeviceTree.c` | `HardwareInfo` | parse header, reservations, structure block |
| Memory regions | `kernel/Memory/Memory.c` | `physical_memory_regions` | decode a `reg` property |
| Strings | `kernel/String/String.c` | none | length, compare |
| Information | `arch/arm64/Info.c`, `platform/*/Info.c` | none | constants and register reads for `info` |
| Minimal kernels | `minimal/*` | none | stand-alone bring-up examples |

**How they interact.** There is one core and one stack. Everything concurrent in
this system is an *exception*: an interrupt between any two instructions of
unmasked code, a system call, or an abort at any instruction at all. The thread
and every handler share three things with no lock: the transmitter (both print),
the special registers ELR_EL1, SPSR_EL1 and ESR_EL1 (which the entry stub does
not save), and the globals `g_exception_in_progress` and `g_ticks_since_boot`.
The devices run beside the core: the transmitter sends, the counter advances, an
interrupt source comes and goes, the watchdog fires.

**What is hard.** Polls and writes of a device register separated by an
interrupt; nested exceptions on unsaved special registers; a flag that is checked
and set in two steps; interrupts enabled early in `kernel_init`; fatal paths
that must finish without interrupts; resets that race with output; and, in the
sequential parts, the boundaries of a hand-written parser and of two tokenizers.
`PROJECT.json` lists each one under "hazards", at its line, with the properties
that cover it.

**What makes each part correct.**

- Exception entry and return: a handler that returns goes back to what it
  interrupted, with that code's interrupt mask, its registers and its stack; one that
  was itself interrupted by a fatal exception never returns.
- Exception handler: only what is understood is resumed; the first fatal
  exception is reported, later ones are silent, none is taken back.
- Timer and controller: interrupts are unmasked only when everything is ready;
  what is acknowledged is retired; the timer keeps being served.
- Uptime: never ahead of real time, as the counter's frequency gives it.
- Console output: no character is lost to a full FIFO; nothing is cut off by
  going to sleep.
- Halt, panic, restart: a fatal exception ends asleep, a restart restarts.
- Boot: exactly the bytes of `.bss` are cleared, before C code runs, by core 0; the registers
  that are set are in effect when what needs them begins.
- Device tree, memory regions: no read outside the blob, no write outside
  `HardwareInfo`, what is recorded is what the blob says.
- Line editor, tokenizer, shell: no write outside the buffers; the terminal shows the line that
  will be run, as far as a rub-out reaches; a command gets the words of that line and nothing an earlier line left;
  the prompt comes back unless the command is one that stops the kernel.
- Hexadecimal: the digits read and printed denote the number, modulo 2^64.

## 2. Modules

| Module | Models |
|---|---|
| `Uart` | the transmit FIFO, the shift register, the three flags the kernel polls, the data register |
| `Timer` | the system counter, the compare value behind CNTP_TVAL_EL0, the tick count |
| `Gic` | the enables, the acknowledge and end-of-interrupt registers, sources the kernel does not know |
| `KernelCore` | composes the three with the one core: the thread, the exception frames, the special registers, `handle_exception`, print, halt, reboot |
| `KernelLife` | the abstract specification: what the kernel promises at its serial console |
| `KernelCoreInvariant` | the inductive invariant `IInv`, in named parts |
| `KernelCoreShape_proof` | lemmas: what each step preserves of types, control shape and masking |
| `KernelCore_proof` | the rest of the induction (fatal path, clock, transmitter, interrupt controller), and the theorems |
| `KernelLife_proof` | every step of `KernelCore` against `KernelLife` |
| `RegisterFrame` | the entry stub, an instruction or a pair of registers at a time: registers, stack pointer, stack |
| `RegisterFrame_proof` | its invariant, for any depth of nesting, and its theorems |
| `Boot` | `_start`: the core check, the three loops that clear `.bss`, the system registers and barriers |
| `MemoryRegions` | `physical_memory_regions`, as operators |
| `DeviceTree` | `parse_device_tree_blob`: header, reservations, structure block |
| `Hex` | hexadecimal numbers in and out, with what they denote, as operators |
| `Hex_proof` | that both compute what the digits denote, for words of any size and every string |
| `Console` | `console_read_line` with the terminal, the tokenizer, the dispatch and every command handler, over one buffer |
| `LineDiscipline` | the abstract specification of `Console`: what the shell promises at the keyboard |
| `Boot_proof`, `DeviceTree_proof`, `Console_proof` | the invariants of the three, and their theorems; `Console_proof` also `Console` against `LineDiscipline`, and the numbers it shows |
| `MCKernelCore`, `MCBoot`, `MCDeviceTree`, `MCConsole` | instances for TLC |

In time, `Boot` ends where `KernelCore` begins (the call of `kmain`), and `DeviceTree`
is what `KernelCore` abstracts as its step `ParseDeviceTree`, which returns or panics: run
`tree` shows that the parser does one or the other. `RegisterFrame` is the inside of
`KernelCore`'s steps `stub`, `read` and `eret`, and takes from it that a nested exception is not
resumed (`OnlyHandledReturn`). `Console` is the inside of its step `Command`: `KernelCore` knows
of a command what it does to the machine, `Console` what it does to the line. They share no state
but that, so they are separate specifications.

### How KernelCore corresponds to the code

`depth` is the number of exception frames on the stack. Level 0 is the thread
(`kmain`, `kernel_init`, the shell); level *n* is the *n*-th frame, running the
entry stub and `handle_exception`. Only the top level runs. Each level has a
program counter `pc[l]`, whose values name the points between which another step
of the system may fall:

| `pc` | code |
|---|---|
| `timer_diag` ... `unmask`, `parse` | `kernel_init`: `print_timer_diagnostics`, the register writes of `initialize_timer` one by one, `parse_device_tree_blob` and the welcome |
| `client`, `svc` | the shell between commands; the `svc` of `trapsvc` |
| `stub`, `read` | the entry stub; the reads of the special registers and the dispatch |
| `iar`, `tick`, `rearm`, `eoi` | `handle_interrupt_exception`, each device access a step |
| `syscall`, `clear` | the system call path; its `g_exception_in_progress = 0` |
| `check`, `mark`, `mask`, `diagnosed` | the fatal path: test of the flag, its setting, masking, the end of the diagnostics |
| `poll`, `put` | `uart_putc`: the loop on TXFF, the write of the data register |
| `flush_empty`, `flush_busy`, `sleep` | `halt`: the two loops of the drain, the `wfe` loop |
| `reboot`, `rstc` | `platform_reboot`: the firmware call, or the watchdog and then the request |
| `eret` | the restore and the return |

A call of `console_print` is "go to `poll` with `todo` characters, and then to
step `after`". The processor's own moves are `TakeInterrupt` (an unmasked core
with a deliverable interrupt), `Svc` and `Abort` (any step of any level, even of
a handler): each writes `elr`, `spsr`, `imask`, and, except for an interrupt,
`esr`. `Eret` uses the registers as they are then, not as they were at entry.

### How Boot corresponds to the code

Every core has a program counter and its registers `x5` (write pointer) and `x7` (bytes
that remain). The steps are the labels of `boot.s`: `head` is label 2, `size` label 3,
`bulk` 4, `tail` 5, `setup` label 6. One store is one action, so the stores of two
cores could interleave if two got past the check. The two boards' files are
the same in the loops. After label 6 a step is named for the system register it writes, in the
order of the file (`AfterRegister`); `isb_el2` and `isb_el1` are the barriers, `eret` the
drop to EL1. A written register is `pending` until a barrier or an exception return: it may have taken
effect or not, so nothing may rely on it. What the bits of a register are is not modelled.

### How RegisterFrame corresponds to the code

`x`, `sp` and `mem` are the general registers, the stack pointer and the stack, which is counted in words of
eight bytes; every register and word holds a value of its own, so that any mix-up shows. A step is an instruction
of `ExceptionVectors.s`, or one `stp` or `ldp` of the row of fifteen (`StorePair`, `LoadPair`, at `pair`).
`Take` is an exception, after any instruction. `handle_exception` is what the calling convention
allows a C function (`HandlerWorks`, `HandlerReturns`): it takes `CWords` of the stack, spoils every register and
gives x19 to x29 back. `taken` is history: the registers when the exception was taken.

### How Console corresponds to the code

`text` is `command[COMMAND_LENGTH]` of `run_shell_loop`, which every line is written over and nothing clears;
`i` is the index of `console_read_line`; `length`, `k`, `between` and `tokens` are the locals of `tokenize_command`
(a token is the offset its pointer has). The code between two keys is one action: `Key`, `EraseKey`, `EnterKey`, and
`FullLine` when the loop ends for lack of room. The tokenizer takes an action per character.
A handler is an action of its own, `memread` one for each argument, because its load may
abort after some of them. The step is the code's, not an interleaving: one thread runs all of it, and
what an interrupt could do in between is `KernelCore`'s matter.

Strings are read as C reads them: `StringAt` goes to the first NUL, wherever that is, or out of the
buffer, so a missing terminator is seen in what a command gets. `screen` is the row of the terminal that is being
written, from the prompt on: cells and a cursor, moved as the echo moves it (external). The terminal wraps as a VT100 does: a
full row stays as it is until the next character begins another, and a cursor that moves left never leaves its row. Rows above
the cursor's cannot change any more, so they are not kept. Nothing bounds a line but the buffer. `typed` and `strayed` are history:
the line when it ended, and whether a character was rubbed out that ended a row.

### How DeviceTree corresponds to the code

`pc` is the phase: header, reservations (`reserve`), structure block (`walk`), and
the two ends. In `walk` every case of the `switch` is an action, and every action
does all that its case does before the loop comes round. Variables have the names of the C
variables. Each action has its panics: `Panic` stops the parser and says in `why` where.

The blob is not built beforehand. Its header, its offsets and the number of its reservations are
chosen in `Init`; the token at the cursor, the length of a node's name and the property
are chosen when the cursor comes to them, which gives every blob at once since the
parser reads each of these bytes once. A property is a name, a length and, for
the names that are looked into, a value; the strings block is a fixed layout
(`NameOffset`). A cell has `CellValues` values, so a 64-bit number has
`CellValues` squared.

Four variables are history: `entries_written`, the reservations stored, terminator included; `open_nodes`, what the blob has said of each node the cursor
is in; `conforming`, whether it keeps to the format (one root with the empty name; properties before
children, none twice); `declared`, the `reg` of the last memory node. `RegionsAreDeclared` compares
the parser's answer with them. It is about which `reg` is recorded, and with which cell counts: the operator `Regions` that decodes
it stands on both sides.

A comparison with a null `current_node_device_type` is undefined in C. On both boards it
reads address 6 with the MMU off, which is memory or flash that does not hold the string
"memory" there, and so it yields false: that is the outcome modelled, and the finding below says so.

### Abstractions of KernelCore

- A message is a number of characters, `MsgLen`: what is printed is not modelled,
  only that it gets out.
- Register writes take effect at once. That the compare register and the
  end-of-interrupt write need a barrier to be seen before `eret` is a listed hazard
  that this model cannot show.
- FIQ and SError stay masked after boot, as in the code, which only ever clears
  the I bit; an abort is a synchronous one.
- What only the shell sees (tokens, arguments) is reduced in `Command` to what a command
  can do to the machine: print, system call, panic, restart; the wait for input is
  the absence of a step. A `memread` of an unmapped address is `Abort`.
- The parser ends well or panics (`ParseDeviceTree`).
- The stack is unbounded memory; `MaxDepth` bounds the frames.
- The device state a kernel finds at reset (timer enabled or not, controller
  forwarding or not) is any.

### The abstract specification

`KernelLife` has a phase, the time, the ticks counted and the characters not yet
sent. It promises that the kernel says nothing once halted, halts and goes down
only with nothing left unsent, that a kernel going down does not return to work, and that a tick is counted
only after an interval of its own has passed. `KernelCore` implements it with
`phase <- Phase`, `unsent <- Unsent`; `ImplementsLife` is checked as a property. Both implementations are proved as well (section 4).

`LineDiscipline` has the line as a sequence of characters with deletions, and no buffer. It promises that
the words of a command are those of the line as left after editing (`Words`, one definition over
the whole line, where the code goes character by character and writes NULs into its
buffer), that a line is cut exactly when the buffer is full, and which commands take the
prompt away. A word starts where a blank is followed by something else, and is the *n*-th if *n* - 1 others start before
it (`Starts`, `Start`): nothing is scanned. `Console` implements it with `phase <- Phase`, `line <- LineNow`,
`words <- Arguments`; `ImplementsLineDiscipline` is checked as a property.

### Abstractions of Console and RegisterFrame

- A character is a string of length one or the name of a control character. The commands have names of one or two
  letters (`MCCommands`), one for each handler; `help`, `info`, `uptime` and the unknown command print text and return
  to the prompt (`quiet`).
- A word of the machine has `Digits` hexadecimal digits, two in the run for sixteen.
- The contents `memread` shows are not modelled, its addresses are. Any address may abort.
- The echo of Enter leaves the row of the prompt; the cut of an overlong line has no echo.
- The FP/SIMD registers are not in the frame, and not in the model: a hazard without a property.

## 3. Runs

| Run | Configuration | Question |
|---|---|---|
| `core` | `MCKernelCore.cfg` | Do the core and its devices agree at every interleaving, and does the core implement `KernelLife`? Is `IInv` an invariant? |
| `nested` | `MCKernelCoreNested.cfg` | With three frames: what returns, where to, and what does a frame that stops the machine leave behind? |
| `live` | `MCKernelCoreLive.cfg` | Is the timer always served, does a fatal exception always end asleep, does a restart happen? |
| `halted` | `MCKernelCoreHalted.cfg` | Does `halt` stop the processor? (No: a finding.) |
| `class` | `MCKernelCoreClass.cfg` | Is the class in the diagnostics that of the exception? (No: a finding.) |
| `boot` | `MCBoot.cfg` | Is exactly `.bss` cleared, by one core, before C code runs? |
| `tree` | `MCDeviceTree.cfg` | Does the parser stay in the blob, end, and record what the blob declares? |
| `console` | `MCConsole.cfg` | Does a command get the words that were typed, does the terminal show them, are numbers right, does the prompt come back? |
| `frame` | `MCRegisterFrame.cfg` | Does resumed code find its registers and stack, with exceptions inside the stub itself? |
| `null`, `names`, `full` | `MCDeviceTreeNull.cfg`, `...Names.cfg`, `...Full.cfg` | Does it compare strings only, read names within their block, refuse only what does not fit? (No, three findings.) |

What the properties say:

- `NoOverrun`: the room found by a poll is still there at the write, although an
  interrupt may come between. It holds because the timer's handler prints nothing
  and every handler that prints either was called by the code it interrupted or
  never returns.
- `SleepsDrained`: whoever sleeps in `halt` has sent everything, including the
  character in the shift register, and stays so while its sleep is only
  interrupted by timer ticks.
- `UnmaskedWhenReady`, `NoInterruptLeftActive`: nothing is delivered before it can
  be identified and retired, and every path retires what it acknowledged.
- `UptimeNeverAhead`: rearming from "now" may lose time, never gain it, and neither may the conversion to milliseconds. The
  interval is `Freq / Hz` without its remainder, so the uptime is held against a counter slower by that remainder; with a frequency that is
  a multiple of `Hz`, as on both boards, that is the counter itself.
- `ReturnsToInterrupted`: every `eret` goes to the level below with the mask it had,
  though ELR_EL1 and SPSR_EL1 are overwritten by any nested exception.
- `OnlyHandledReturn`: only timer interrupts and echoing system calls return.
- `StopsAreDiagnosed`: a frame that stops the machine has completed its report, or
  a lower frame had begun or completed one, or a restart was asked for.
- `FatalIsFinal`: once `g_exception_in_progress` is set it stays set, the thread and
  its time stand still and no second report begins, even though the system call
  path clears the flag.
- `TimerServed`, `FatalReachesSleep`, `RestartHappens`: the liveness counterparts.
- `ClearedForC`, `OnlyBssCleared`, `StoresAligned`, `OneKernel`, `KernelStarts`: the loops
  clear every byte of `.bss` and no other, with aligned stores, on core 0 alone, and end.
- `RegistersInEffect`: when EL1 begins, everything that only EL2 can set is in effect; when C code begins, so are its
  stack, the vector table and floating point. Writing is not enough: a barrier must lie between.
- `FrameFaithful`: while `handle_exception` runs, or is interrupted, its `saved_registers` are the
  registers of the interrupted code, although the stub uses x0, x1, x9 and x30 itself.
- `ResumedIntact`: at `eret` all thirty-one registers, the stack pointer and the stack are what they were,
  whatever frames came and went above.
- `NothingStale`: every argument ends within the line just typed, in a buffer full of leftovers.
- `ScreenShowsLine`: after any mix of keys the terminal shows the prompt, the line in the buffer, and blanks, in as many rows as
  that takes. There are two exceptions. A tab or a NUL is one character in the buffer and not one on the screen, so sessions with them
  show other text than is run. And `"\b \b"` cannot take the cursor back over the start of a row, so once a character has been rubbed out that
  ended a row the terminal shows another line than the buffer holds (section 5).
- `NumbersRight`: what `add`, `memread` and `trapsvc` print denotes what their arguments say, with and without prefix, in
  both cases, at the limit of the word, and with what follows the last digit ignored.
- `ImplementsLineDiscipline`: see above.
- `ReadsInBlob`, `CursorInBounds`: whatever lengths the blob gives, the checks come
  before the reads, and those at the head of the loop never fail.
- `RegionsAreDeclared`: the regions recorded from a blob that keeps to the format are those of its last memory
  node, whatever the order of `reg` and `device_type`, with siblings and children
  around it.
- `ParserFollows`: what the parser remembers of a node is what the blob has said of the innermost open node, for as long
  as that node may have properties; and no region is declared before the root's cell counts are known.
- `WritesInHardwareInfo`: neither the reservations, their terminator included, nor the regions are stored past the end of their
  arrays; and the count of reservations is that of the blob, the terminator not counted.
- `NullNeverCompared`, `NamesInStrings`, `FullMapAccepted` are what documentation, a comment and a message say, and do not hold. The
  first two ask only of blobs that keep to the format so far, and the first only of nodes below the root.
- `ParsingEnds`: every blob is parsed to an end or to a panic.

**Bounds, and why they are enough.** A FIFO of one character (`FifoDepth = 1`) is the
hardest: every write fills it, and a stolen slot is an overrun at once. Messages
of one or two characters give a first, a last and a poll between. Three frames
(`MaxDepth = 3`) are an interrupt or call of the thread, an abort in it, and an abort
in that one; further aborts repeat the third. `OtherIds = {5}` is one
unknown source beside the timer, plus the spurious identifier. `Freq` 4 and `Hz` 3 make both divisions drop a remainder, that of
the interval and that of the milliseconds. The interval is one count, so `MaxTime` 2 (`core`, `live`) gives two ticks in time, or one
late. `nested` has `MaxTime` 1, one board and three frames: a timer interrupt that is taken, counted, rearmed, retired and returned from.
`MaxTime` bounds the counter and `MaxDepth` the frames; nothing else is bounded. Deadlock is
not checked because the system really stops: in reset, asleep with everything
masked, or with the counter at its bound.

`MCBoot` has both boards with their four cores, and `.bss` at each of the nine offsets 8 to 16 and
every length from zero to twenty-eight bytes: all alignments of both ends, with none, one, two and three
eight-byte stores. `MCDeviceTree` has a structure block of 104 bytes, which holds a root with
both cell counts, a memory node and a sibling with a `reg` (the shortest blob in which what
one node leaves behind could be taken for another's); node names are empty or three bytes;
properties have the right, a wrong and a far too large length, and regions that are good,
empty, or wrap around. `MaxRegions` is 2 for the source's 16, with properties of one, two and three regions (24 bytes, which fit in the
block as the `reg` of a memory node), and `Room` is 2 for the source's 255, with none to three reservations: each limit is missed, met and exceeded. The headers are right, misaligned by two, of a size that
is not a multiple of four, and wrong in each of the ways the parser looks for. A block
longer than this repeats nodes and properties. `null` and `names` have one right header and a block of 48 bytes, in which the blob their
trace begins can still be finished.

`MCConsole` has seven sessions: a buffer of five characters with every key over every leftover,
twice (the second line meets what the first left); characters that are not printed, in a buffer of four; the smallest
buffer, of two; nine characters for more words than `MaxWords` = 3 keeps (the source keeps ten: the limit is met and passed
alike); and `add`, `memread` and `trapsvc` with arguments of up to the eight characters a
prefix, two digits and a further character need. Each session has a terminal of its own width. Rows of three and four characters make lines wrap up to twice, and
are rubbed out across the wrap; ten columns have a tab stop; twelve hold every line of the sessions with numbers.
`MaxDepth` = 3 frames in `MCRegisterFrame` are a handler, an abort in it, and an abort in that one's stub; `CWords` = 3
leaves C code a frame of its own; `Used` = 2 words of the thread's stack stand for any number.

**Fairness.** `FairSpec` assumes: the processor executes (`WF` of `CpuStep`, what the
running level does by itself); the transmitter shifts and sends (`WF`); a requested watchdog reset
comes (`WF`); a deliverable, unmasked interrupt that recurs is taken (`SF` of
`TakeInterrupt`: the architecture takes a pending interrupt in finite time, but a
handler returning and the next entry alternate, so it is not continuously enabled). No
fairness is assumed of the user, the counter, other sources or aborts. In `Boot` every released
core executes (`WF` of its `Start`); a parked one waits for ever. In `DeviceTree` the processor
executes the parser (`WF` of `Next`); interrupts that come between return, by `core` and `live`. `Console` and
`RegisterFrame` assume none: their questions are about what may happen, a user may stop typing, and an exception may
come at every step.

## 4. Proofs

`KernelCore_proof` proves, for every FIFO depth, frequency, message length, nesting
depth, set of unknown sources and choice of board:

| Theorem | Establishes |
|---|---|
| `Invariance` | `Spec => []IInv` |
| `TypeCorrect` | `Spec => []TypeOK` |
| `ReturnsCorrect`, `HandledReturn` | `ReturnsToInterrupted`, `OnlyHandledReturn` |
| `RoomForEveryCharacter`, `SleepsInSilence` | `NoOverrun`, `SleepsDrained` |
| `EveryInterruptRetired`, `UnmaskedReady` | `NoInterruptLeftActive`, `UnmaskedWhenReady` |
| `UptimeHonest` | `UptimeNeverAhead` |
| `Finality` | the action property `FatalIsFinal` |
| `StopsDiagnosed` | `StopsAreDiagnosed` |
| `LivesAsPromised` (in `KernelLife_proof`) | `ImplementsLife`: the refinement of `KernelLife` |

`Boot_proof` proves `BootInv` (`BootInvariant`), and from it `ClearedForC` (`BssCleared`),
`OnlyBssCleared` (`NothingElseCleared`), `StoresAligned` (`AlignedStores`) and `OneKernel`
(`SingleCore`), and `RegistersInEffect` (`RegistersReady`), for every placement of `.bss`. It assumes that cores are numbered 0 to 3
(`CoresAssumption`) and that `.bss` ends no earlier than it starts (`LayoutAssumption`). The invariant
says that the running core has cleared exactly the bytes below its write pointer, that it is core 0, and
that each loop is entered with at least what its first store needs. For the registers the invariant is `RegisterInv`:
what a core has written follows from the place it has reached, nothing of EL2 is pending once it is at EL1, and nothing
at all when C code begins; a step being one core's, the lemma `OneMoves` reduces every action to its own core.

`RegisterFrame_proof` proves `FrameInv` (`Invariant`) and from it `FrameFaithful` (`RegistersFaithful`) and `ResumedIntact`
(`CodeResumesIntact`), for every depth of nesting, size of the C frames and use of the stack. Neither property is
inductive: `FrameInv` says for every frame which registers it has saved, and which it has restored, at each of its steps,
that what it has saved is still in memory while frames come and go above it, and that the stack pointer of a frame lies
below all that lower frames still need. It assumes `FrameAssumption`, that the three numbers are natural.

`Console_proof` proves `ConsoleInv` (`ConsoleInvariant`) and from it `ConsoleTypeOK` (`InBuffer`), `NothingStale`
(`WordsOfThisLine`) and `ScreenShowsLine` (`TerminalShowsLine`), for a buffer of any size, any input, any leftovers and any number
of words. That no word is stale is not inductive: `ConsoleInv` adds that from the end of the line on a NUL stands at `i`
and every token starts at or before it, and that the tokenizer stays within `length <= i`. That the terminal shows the line
has two parts: where the cursor is, a whole number of rows before the end of the line (`WholeRows`, `NextPlace`, `PlaceBefore`, which use that
no character was rubbed out that ended a row), and what its row shows after an echo (`RowWritten`) and after a rub-out, which undoes it
(`RubbedOut`, `RowErased`). The rows above need no proof in the model, where nothing can change them. It assumes that sessions are what they are
described to be, with a terminal wider than the prompt (`SessionAssumption`), that the table names handlers, and that the two calls of `trapsvc` that do not return are two, and
neither is its default, 4 (`ShellAssumption`).

The same module proves that `Console` implements `LineDiscipline` (`LineAsPromised`). `Promised` says that a step is one of
`LineDiscipline` or not seen by it; a lemma for each action of `Console` proves it together with the invariant
`LineInv`. The heart of it is that the two ways of finding words agree. `ScanInv` says what the scan of `tokenize_command` has
done when it is at `k`: the blanks before `k` have become NULs and nothing else has changed; every token is the start of a word
of the line *as it was typed*; they are in order; and no start before `k` is missing, unless the tokens are full. Then the *n*-th token
has exactly *n* - 1 starts before it (`FoundBelow`, by a bijection), so it is the start that `LineDiscipline` counts (`FoundByCounting`),
there are `MaxWords` or as many as there are starts (`FoundAtMost`), and the string read at it ends where the word ends
(`WordRead`); `WordsScanned` puts these together. The last part of `LineInv` is that the handler that runs is that of the words, and that the prompt
comes back only after a command that need not stop. The number of the call that `trapsvc` makes is by `ReadsNumber`
(below) the one its argument denotes.

`Hex_proof` proves that `console_uint64_from_hex` reads from every string the number its leading digits denote
(`ReadsNumber`) and that `console_print_hex_value` prints digits that denote the number (`PrintsNumber`), for every even
number of digits a word may have (`HexAssumption`). The loops are recursive functions. That such a function obeys its rule
at every number (`Recursion`), and induction itself (`AllNaturals`), are derived from the least element of a set of natural
numbers (`Least`), because the library's induction theorems are beyond the provers installed. What is denoted is a sum over places and
what the code does is to multiply by sixteen and add: another digit on the right moves all others a place to the left
(`Shifted`). A number of *n* digits stays below 16^*n* (`DenotedBelow`), and the loop reads no more digits than a word holds, so
nothing overflows (`DigitsRead`), and what follows the last digit changes nothing (`ReadingStops`). In printing, what is
left of a number after *n* digits is its quotient by the weight of the last one (`DividedTwice`), and the two digits of
a byte are those of the number (`PrintsDigits`).

With them `Console_proof` proves `NumbersRight` (`NumbersShownRight`). `NumbersInv` adds that nothing has been shown
before a handler runs, that `memread` starts at its first argument, and that digits are on the screen at the prompt only
after a command that was named; that the arguments are what `argv` gives still holds when the digits are out because handlers leave
buffer and tokens alone (`SameWords`).

`DeviceTree_proof` proves `CursorInBounds` (`CursorBounded`) and `ReadsInBlob` (`ReadsBounded`) for
every header, every sequence of tokens, names and lengths, and every alignment. It assumes that the
blob's numbers are natural numbers and that the string "memory" takes seven bytes (`TokenAssumption`). The invariant `TreeInv` adds to the cursor's bound that a
header which was accepted stays the reason why the blocks lie in the blob; the lemma `WalkKeeps` is the
one argument all tokens share.

It also proves `ParserFollows` (`ParserFollowsBlob`) and `RegionsAreDeclared` (`RegionsFaithful`). The latter is about the end
of parsing only; the former is the part that is inductive. A new node makes all that contain it nodes with a child
(`DeeperNodes`), and in such a node a conforming blob has no more properties: so it does not matter that after an `FDT_END_NODE` the parser still holds what
the child said.

And it proves `WritesInHardwareInfo` (`StoresBounded`), for arrays of any size. `RegionsFit` says that a `reg` which was accepted decodes to no
more regions than there is room for; `StoreInv` adds that the `reg` the parser remembers has a length.

The theorems of `KernelCore_proof` rest on the assumptions of the constants (`FifoAssumption`, `TimerAssumption`,
`GicAssumption`, `CoreAssumption`) and nothing else. The frequencies are any positive numbers: `UptimeHonest` says how
far the uptime can be ahead if the one is no multiple of the other, by the remainder of `Freq / Hz` in every `Freq`. On
both boards (62.5 MHz and 54 MHz, a hundred ticks a second) there is none.

**The argument for KernelCore.** None of these properties is inductive. That an `eret` goes to the
right place depends on which frames can exist above which, that on when interrupts are
masked, and that on how far initialisation has come. `IInv` is the conjunction of

- `Shape`: which code runs at which level. The thread runs only thread code; the first
  frame is an interrupt, a call or an abort; every frame above it is an abort, whose
  code never reaches a return; free frames are empty;
- `Masking`: interrupts are masked exactly while the thread is before the end of
  `initialize_timer` or a frame is on the stack, and `elr`, `spsr` of the first frame
  are the thread's;
- `TimeKept`: the compare value leaves room for one more tick, except between
  counting a tick and arming the next;
- `ClaimsKept`: what a level has read from the transmitter's flags still holds, unless what
  interrupted it will never return to it;
- `Retired`: an active interrupt is the one the first frame is handling;
- `PointOfNoReturn`: with the flag set, the first frame is past its return or
  covered by an abort;
- `ReportsKept`: with the flag set, some frame has begun its report; `reporter` is the frame that is
  writing it, or has; and every frame that stops the machine has a reason for its silence below it
  (`StopsAreDiagnosed` itself, which is inductive only with the other two).

`KernelCoreShape_proof` proves `TypeOK`, `Shape` and `Masking` step by step, `KernelCore_proof` the other parts, `PointOfNoReturn` and
`ReportsKept` first, one step of the proof per action. The run `core` checks `IInv` on a
small instance.

**The refinement of KernelLife** needs no further invariant: from `IInv`, each step of `KernelCore` is a step of
`KernelLife`, or leaves phase, time, ticks and unsent characters alone. `PhaseIs` states the phases one by one. The lemmas
then follow who moves: the thread (`ThreadLives`), a frame (`FrameLives`), entry and return (`EntryAndReturnLive`), the devices
(`WorldLives`). That a kernel which is going down stays so rests on `PointOfNoReturn` and `Shape` (`StoppingGoesOn`); that a sleeper
is silent rests on `ClaimsKept` (`FallsAsleep`); that a tick has taken its interval rests on `TimeKept`.

**Model-checked only.** The liveness properties (`TimerServed`, `FatalReachesSleep`, `RestartHappens`, `KernelStarts`,
`ParsingEnds`), which are out of the prover's reach.

## 5. Findings

- **`halt` leaves interrupts on** (run `halted`). `arch/Halt.h:7` promises that it "Halts
  the processor that executes this function". After a panic in the thread, interrupts
  remain unmasked: the halted kernel keeps taking ticks, and an interrupt it does not
  know starts fatal diagnostics after the panic message.
- **The diagnostics of an unknown interrupt show a stale class** (run `class`).
  `handle_exception` reads ESR_EL1 for every exception, but an interrupt does not write it:
  the class and ISS shown are those of the last synchronous exception.
- **The parser compares a null pointer** (run `null`). `kernel/String/String.h:22` says that `string_compare_with_length`
  compares null-terminated strings; the parser calls it with `current_node_device_type` for every node whose `reg` comes before
  its `device_type`, or that has none, when that is still null. The trace is a blob that keeps to the format so far: a root, a node in it, and
  there a `reg` with no `device_type` before it. Undefined in C, harmless on the two boards because address 6 can be read.
- **Property names are read beyond the strings block** (run `names`). The "guard against string table overflow"
  (`kernel/Hardware/DeviceTree.c:279`) is on where a name starts; the comparisons look at the byte eleven or fourteen further. The trace is a blob
  that keeps to the format so far: in its root a property with the name "reg", which is the last of the strings block. The answer is right, the
  read is not guarded.
- **A reservation map of exactly 255 entries is refused** (run `full`) for insufficient
  space, although the arrays have it.

Disagreements of a smaller kind, met while modelling the console and not given runs of their own:

- `kernel/Console/IO.h:47` says that `console_read_line` reads until a newline or carriage return. A line that fills the
  buffer ends there, and what is typed up to Enter is read as the next command (`FullLine`, the phase `cut` of
  `LineDiscipline`). It ends without an echo, so the next prompt is on the same row.
- A line that starts with blanks has an empty first word, and is therefore an unknown command, although `kernel/Console/Shell.h:105`
  speaks of the start of each argument (`Words` states what the code does).
- `kernel/Console/IO.h:49` says that backspace is handled, and `kernel/Console/IO.c:78` that `"\b \b"` moves left, emits a space and moves
  left. On a line longer than a row it cannot move left over the start of a row: the character goes from the buffer and
  stays on the terminal, or another one goes. `ScreenShowsLine` stops asking there (`strayed`).

## 6. Not modelled

- Information, minimal kernels, build files, tests: no state, or no part of the kernel.
- The bits of the system registers boot sets, and those it leaves to firmware; cores in other clusters.
- A watchdog that expires between the two writes of `platform/rpi/Reboot.c:31` and `:40`: the model's watchdog runs from the second.
- Barriers and store ordering after boot; the compiler's treatment of the two-statement `svc`; FP/SIMD registers.
- The receive FIFO: a character typed while a command runs may be lost, which the model sees as a line
  that was typed without it.
- The text that is printed, but for the numbers.

## 7. Plan

Done: every module of section 2; every safety property that a passing run checks, and both refinements, are proved for
all values of the constants.

Left to TLC: liveness. Left out: section 6.

-------------------------------- MODULE Uart --------------------------------
(***************************************************************************)
(* The PL011 transmitter the kernel prints through: platform/virt/IO.c and *)
(* platform/rpi/IO.c, which poll the flag register and write the data      *)
(* register, and the part of the device those polls observe.  A character  *)
(* is only counted: what matters is whether it gets room, and whether it   *)
(* has left the chip before the processor goes to sleep.                   *)
(***************************************************************************)
EXTENDS Naturals

CONSTANT FifoDepth  \* characters the transmit FIFO holds

ASSUME FifoAssumption == FifoDepth \in Nat \ {0}

VARIABLES
    fifo,      \* characters waiting in the transmit FIFO
    shifting   \* a character is in the shift register, on its way out

uart_vars == <<fifo, shifting>>

UartTypeOK == /\ fifo \in 0..FifoDepth
              /\ shifting \in BOOLEAN

UartInit == fifo = 0 /\ shifting = FALSE

-----------------------------------------------------------------------------
(* The flags of UART0_FR.                                                  *)

TXFF == fifo = FifoDepth
TXFE == fifo = 0
BUSY == shifting \/ fifo > 0

\* Characters accepted by the device that have not left it.
Unsent == fifo + (IF shifting THEN 1 ELSE 0)

\* UART0_DR = c.  The device drops a character written to a full FIFO.
WriteData == /\ fifo' = IF TXFF THEN fifo ELSE fifo + 1
             /\ UNCHANGED shifting

-----------------------------------------------------------------------------
(* The device: the shift register takes a character, then sends it.        *)

Shift == /\ ~shifting /\ ~TXFE
         /\ fifo' = fifo - 1
         /\ shifting' = TRUE

Sent == /\ shifting
        /\ shifting' = FALSE
        /\ UNCHANGED fifo
=============================================================================

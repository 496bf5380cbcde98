-------------------------------- MODULE MCBoard --------------------------------
(***************************************************************************)
(* BoardIRQ for TLC.  The machine and the registers its guest programs are *)
(* chosen at the start; each choice is an instance of BoardIRQ over the    *)
(* same variables.  The .cfg gives the constants of "net", a machine with  *)
(* virtio-net.                                                             *)
(***************************************************************************)
EXTENDS BoardIRQ

CONSTANT Machines   \* subset of {"net", "uart", "bytes", "console"}

VARIABLE machine

\* Every register of UART 0 and of the PLIC, no network.
UART == INSTANCE BoardIRQ
          WITH Net <- FALSE, RXLimit <- 1, GuestSources <- {10},
               IERValues <- SUBSET UARTInterrupts,
               GuestOps <- AllGuestOps \ {"vnet"}

\* Both UARTs, with more input than their buffers hold.
Bytes == INSTANCE BoardIRQ
           WITH Net <- FALSE, ConsoleSocket <- TRUE, MaxBytes <- 3, Priorities <- {0},
                GuestPorts <- {0, 1}, GuestOps <- {"rbr", "lsr"}

\* A guest that uses the UART of the console socket.
Console == INSTANCE BoardIRQ
             WITH Net <- FALSE, ConsoleSocket <- TRUE, GuestPorts <- {1},
                  GuestSources <- {11},
                  GuestOps <- {"ier", "rbr", "priority", "enable", "claim", "complete"}

allVars == <<vars, machine>>

MCInit ==
    /\ machine \in Machines
    /\ \/ machine \in {"net", "uart"} /\ Init
       \/ machine \in {"bytes", "console"} /\ Console!Init

MCNext ==
    /\ \/ machine = "net" /\ Next
       \/ machine = "uart" /\ UART!Next
       \/ machine = "bytes" /\ Bytes!Next
       \/ machine = "console" /\ Console!Next
    /\ UNCHANGED machine

MCSpec == MCInit /\ [][MCNext]_allVars

\* The hart's goroutine keeps running, its sleeps are bounded by
\* biosWFIHostSleepCap, and a goroutine that entered wakeWFI leaves it.
MCFairSpec ==
    /\ MCSpec
    /\ WF_vars(machine = "uart" /\ UART!Hart)
    /\ \A g \in Producers : WF_vars(machine = "uart" /\ UART!WakeWFI(g))

\* With virtio-net, the hart is never asleep in WFI with an interrupt due that
\* it has not seen unless a token is in wfiWake or a goroutine is about to put
\* one there.
NeverSleepsThroughInterrupt == machine = "net" => SleeperIsWoken

\* An interrupt that is due and stays due raises SEIP.
DueIsSeen == machine = "uart" /\ InterruptDue ~> (seip \/ ~InterruptDue)
================================================================================

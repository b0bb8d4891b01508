----------------------------- MODULE Interrupts -----------------------------
(***************************************************************************)
(* interrupts.c between the two devices of the system, timer and keyboard, *)
(* and the handlers of timer.c, keyboard.c and ksyscall.c: how main        *)
(* registers them, and how an interrupt is accepted, dispatched and        *)
(* dismissed.  A device may raise its line between any two of these steps: *)
(* during the boot, when interrupts are off and main polls the keyboard,   *)
(* and in the middle of a handler.                                         *)
(*                                                                         *)
(* External, and modelled as the code uses them: the interrupt controller, *)
(* which keeps one request per line, the priority of the lower line, and   *)
(* what is in service until it is told the end of the interrupt; the       *)
(* keyboard controller, which holds one byte and raises line 1 with it;    *)
(* and the processor, which accepts no interrupt before "sti" and none     *)
(* while the kernel runs.                                                  *)
(***************************************************************************)
EXTENDS Keyboard

IRQ_TIMER == 32      \* 0x20
IRQ_KEYBOARD == 33   \* 0x21
IRQ_SYSCALL == 128   \* 0x80

PIC1_DATA == 1
PIC2_DATA == 2

VARIABLES
    irq_handlers,   \* the IRQs that have a handler
    mask,           \* the lines each controller does not pass on
    requested,      \* the lines with a request
    in_service,     \* the lines accepted and not dismissed
    at,             \* where the processor is, and for which IRQ
    keys,           \* the keys the user strikes
    wire,           \* bytes that the keyboard has still to give to its controller
    data_port       \* the byte in the keyboard controller, or none

picVars == <<irq_handlers, mask, requested, in_service>>
deviceVars == <<keys, wire, data_port>>
vars == <<picVars, at, deviceVars, keyboardVars>>

None == [code |-> "none", up |-> FALSE]

Boot == {"timer_init", "keyboard_init", "ksyscall_init", "keyboard_getc", "interrupts_enable"}

Init ==
    /\ KeyboardInit
    /\ irq_handlers = {}
    /\ mask = [port \in {PIC1_DATA, PIC2_DATA} |-> 0 .. 7]
    /\ requested = {} /\ in_service = {}
    /\ at = [step |-> "timer_init", irq |-> 0]
    /\ keys \in KeySets
    /\ wire = <<>> /\ data_port = None

-----------------------------------------------------------------------------
(* Devices                                                                 *)

Running == at.step \notin {"exited", "panic"}

\* A pulse of the timer; one that finds the last one still requested is lost.
Pulse ==
    /\ Running
    /\ 0 \notin requested
    /\ requested' = requested \cup {0}
    /\ UNCHANGED <<irq_handlers, mask, in_service, at, deviceVars, keyboardVars>>

\* The keys that are down are those the kernel has heard of, but for the byte
\* in the controller.
Down(key) == IF KeyOf(data_port, prefix) = key THEN ~data_port.up ELSE key \in held

\* A key goes down, sends its code once more while it is down, or goes up; the
\* next one when its bytes have left the keyboard (BOUND).
Strike ==
    /\ Running
    /\ wire = <<>>
    /\ \E key \in keys, up \in BOOLEAN :
          /\ up => Down(key)
          /\ wire' = Bytes(key, up)
    /\ UNCHANGED <<picVars, at, keys, data_port, keyboardVars>>

Transmit ==
    /\ Running
    /\ wire # <<>> /\ data_port = None
    /\ data_port' = Head(wire)
    /\ wire' = Tail(wire)
    /\ requested' = requested \cup {1}
    /\ UNCHANGED <<irq_handlers, mask, in_service, at, keys, keyboardVars>>

-----------------------------------------------------------------------------
(* interrupts.c                                                            *)

Line(irq) == IF irq >= 32 THEN irq - 32 ELSE irq

\* The bit of the line, also for the second controller, whose lines have the
\* bits 0 to 7: its masks do not change.
Unmask(lines, line) == lines \ {line}

pic_irq_enable(irq) ==
    LET port == IF Line(irq) >= 8 THEN PIC2_DATA ELSE PIC1_DATA
    IN  mask' = [mask EXCEPT ![port] = Unmask(@, Line(irq))]

FromPic(irq) == irq \in 32 .. 47

interrupts_irq_register(irq) ==
    /\ irq_handlers' = irq_handlers \cup {irq}
    /\ IF FromPic(irq) THEN pic_irq_enable(irq) ELSE UNCHANGED mask
    /\ UNCHANGED <<requested, in_service>>

Highest(lines) == CHOOSE line \in lines : \A other \in lines : line <= other

\* Mutant: only system calls, which need no dismissal, are dismissed.
MutEndOfInterrupt(irq) == IF FromPic(irq) THEN in_service ELSE {}

\* One end-of-interrupt command ends the highest line in service.
EndOfInterrupt(irq) ==
    IF FromPic(irq) /\ in_service # {} THEN in_service \ {Highest(in_service)} ELSE in_service

-----------------------------------------------------------------------------
(* The keyboard's poll                                                     *)

\* Mutant: no byte is read while a modifier is on.
MutHasData == data_port # None /\ flags = {}

\* The status port says whether there is a byte.
HasData == data_port # None

keyboard_poll ==
    IF HasData
    THEN keyboard_decode(data_port) /\ data_port' = None
    ELSE UNCHANGED <<keyboardVars, data_port>>

-----------------------------------------------------------------------------
(* main                                                                    *)

GoTo(step, irq) == at' = [step |-> step, irq |-> irq]

Registers(step, irq, next) ==
    /\ at.step = step
    /\ interrupts_irq_register(irq)
    /\ GoTo(next, 0)
    /\ UNCHANGED <<deviceVars, keyboardVars>>

Boots ==
    \/ Registers("timer_init", IRQ_TIMER, "keyboard_init")
    \/ Registers("keyboard_init", IRQ_KEYBOARD, "ksyscall_init")
    \/ Registers("ksyscall_init", IRQ_SYSCALL, "keyboard_getc")

\* main waits for a byte that is decoded to a character, and does what it means.
keyboard_getc ==
    /\ at.step = "keyboard_getc"
    /\ keyboard_poll
    /\ GoTo(IF ~HasData THEN "keyboard_getc"
            ELSE IF effect' = "exit" THEN "exited"
            ELSE IF effect' = "input" THEN "interrupts_enable"
            ELSE "keyboard_getc", 0)
    /\ UNCHANGED <<picVars, keys, wire>>

interrupts_enable ==
    /\ at.step = "interrupts_enable"
    /\ GoTo("user", 0)
    /\ UNCHANGED <<picVars, deviceVars, keyboardVars>>

-----------------------------------------------------------------------------
(* After the boot                                                          *)

Pending == requested \ mask[PIC1_DATA]

\* The processor leaves user mode for the highest request that the line in
\* service, if any, does not hold off.
Accept(line) ==
    /\ at.step = "user"
    /\ line \in Pending /\ line = Highest(Pending)
    /\ \A other \in in_service : line < other
    /\ requested' = requested \ {line}
    /\ in_service' = in_service \cup {line}
    /\ GoTo("handler", 32 + line)
    /\ UNCHANGED <<irq_handlers, mask, deviceVars, keyboardVars>>

SystemCall ==
    /\ at.step = "user"
    /\ GoTo("handler", IRQ_SYSCALL)
    /\ UNCHANGED <<picVars, deviceVars, keyboardVars>>

\* What a tick does is modelled in Timer and in KProc.
timer_irq_handler ==
    /\ at.irq = IRQ_TIMER
    /\ GoTo("dismiss", at.irq)
    /\ UNCHANGED <<data_port, keyboardVars>>

keyboard_irq_handler ==
    /\ at.irq = IRQ_KEYBOARD
    /\ keyboard_poll
    /\ GoTo(IF HasData /\ effect' = "exit" THEN "exited" ELSE "dismiss", at.irq)

ksyscall_irq_handler ==
    /\ at.irq = IRQ_SYSCALL
    /\ GoTo("dismiss", at.irq)
    /\ UNCHANGED <<data_port, keyboardVars>>

\* An interrupt without a handler stops the kernel.
interrupts_irq_handler ==
    /\ at.step = "handler"
    /\ IF at.irq \in irq_handlers
       THEN timer_irq_handler \/ keyboard_irq_handler \/ ksyscall_irq_handler
       ELSE GoTo("panic", at.irq) /\ UNCHANGED <<data_port, keyboardVars>>
    /\ UNCHANGED <<picVars, keys, wire>>

\* The end of interrupts_irq_handler, scheduler_run and the way back.
Dismiss ==
    /\ at.step = "dismiss"
    /\ in_service' = EndOfInterrupt(at.irq)
    /\ GoTo("user", 0)
    /\ UNCHANGED <<irq_handlers, mask, requested, deviceVars, keyboardVars>>

Next ==
    \/ Pulse \/ Strike \/ Transmit
    \/ Boots \/ keyboard_getc \/ interrupts_enable
    \/ \E line \in 0 .. 7 : Accept(line)
    \/ SystemCall
    \/ interrupts_irq_handler \/ Dismiss

Spec == Init /\ [][Next]_vars

\* A tick is longer than its handler: user mode is reached again and again
\* without a tick to be taken at once.
TicksLeaveTime ==
    []<>((at.step = "user" /\ 0 \notin requested) \/ at.step \in Boot \/ ~Running)

\* The kernel and the keyboard controller do not stop, and the processor accepts
\* a request that it could accept again and again.
FairSpec ==
    /\ Spec
    /\ WF_vars(Boots \/ keyboard_getc \/ interrupts_enable)
    /\ WF_vars(interrupts_irq_handler \/ Dismiss)
    /\ WF_vars(Transmit)
    /\ \A line \in {0, 1} : SF_vars(Accept(line))
    /\ TicksLeaveTime

-----------------------------------------------------------------------------
(* Properties                                                              *)

(***************************************************************************)
(* No byte is stuck in the keyboard controller: one that is there has its  *)
(* interrupt still to come, although main takes bytes away without one and *)
(* although the next byte may come before the last one is dismissed.       *)
(***************************************************************************)
NoByteStuck ==
    data_port # None =>
        1 \in requested \/ at = [step |-> "handler", irq |-> IRQ_KEYBOARD] \/ ~Running

\* What a device has to say is heard in the end, unless main still waits for a
\* key or the kernel has ended; and no interrupt, however early it comes, finds
\* no handler.
DevicesServed ==
    /\ [](at.step # "panic")
    /\ 0 \in requested ~> 0 \notin requested \/ at.step \in Boot \cup {"exited"}
    /\ data_port # None ~> data_port = None \/ at.step = "exited"

=============================================================================

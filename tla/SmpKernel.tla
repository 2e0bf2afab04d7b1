----------------------------- MODULE SmpKernel -----------------------------
(***************************************************************************)
(* The cores of GooseOS from the end of Arch::EarlyInit on: the bootstrap  *)
(* processor runs the rest of InitKernel, the application processors run   *)
(* APEntry, interrupts and exceptions nest on top of either, and all of    *)
(* them share the console spinlock.                                        *)
(*                                                                         *)
(* A core runs a stack of up to three frames: its task, an IRQ handler on  *)
(* top of it, and a panic on top of both.  A thread is one frame of one    *)
(* core; only the topmost frame of a core takes steps.                     *)
(***************************************************************************)
EXTENDS Naturals, FiniteSets

CONSTANTS
    Core,        \* the cores
    BSP,         \* the bootstrap processor, the core that runs InitKernel
    Builds,      \* the builds looked at: TRUE has the debug panic, see debug
    MsgLen,      \* characters of a locked message
    MaxFaults,   \* bound: exceptions raised, and APs found without an x2APIC
    MaxIrqs      \* bound: external interrupts delivered

ASSUME CoreAssumption == BSP \in Core /\ IsFiniteSet(Core)
ASSUME BuildAssumption == Builds \subseteq BOOLEAN
ASSUME BoundAssumption ==
    MsgLen \in Nat \ {0} /\ MaxFaults \in Nat /\ MaxIrqs \in Nat

AP == Core \ {BSP}
Frame == {"task", "irq", "panic"}
Thread == Core \X Frame
Task(c) == <<c, "task">>
Irq(c) == <<c, "irq">>
Panic(c) == <<c, "panic">>

TIMER == 32      \* IOAPIC pin 2, no handler is ever registered for it
KEYBOARD == 33   \* IOAPIC pin 1
Vector == {TIMER, KEYBOARD}

VARIABLES
    pc,        \* where each frame is; "none" is a frame that does not exist
    lock,      \* ConsoleLock.lock_state
    inside,    \* which frames are between Lock and Unlock
    left,      \* characters each frame has left of its current message
    screen,    \* the last character a locked message drew: whose, and its left
    iflag,     \* the interrupt flag of each core
    handlers,  \* vectors with an entry in ExternalInterruptHandlers
    apsSafe,   \* APsSafeToRun
    drops,     \* calls of Console::EmergencyUnlock so far
    faults,    \* exceptions, and APs without an x2APIC, so far
    irqs,      \* external interrupts so far
    debug      \* is the Panic("DO NOT DEBUG") of init.cpp:62 compiled in?

vars == <<pc, lock, inside, left, screen, iflag, handlers, apsSafe,
          drops, faults, irqs, debug>>
console == <<lock, inside, left, screen, drops>>
counters == <<faults, irqs, debug>>

-----------------------------------------------------------------------------
(* The program text, as the order of the labels a frame goes through.      *)

\* Labels at which the frame calls a function that prints under ConsoleLock.
BspPrints == {"early", "keyboard", "rootfs", "fbinfo", "late", "banner",
              "welcome", "finish"}
PrintLabel == BspPrints \cup {"hello", "irqinfo", "head", "tail"}
\* Labels at which it calls PrintChar or PrintStringInternal with no lock.
RawLabel == {"sector", "echo", "reason"}
Label == PrintLabel \cup RawLabel \cup
         {"none", "register", "debug", "sti", "wake", "release", "idle",
          "off", "entry", "lapic", "gate", "apsti", "halt", "dead", "eoi",
          "unlock"}

\* InitKernel and LateInit from the console's first message on, APEntry,
\* an IRQ handler that prints, and Panic.
Follows ==
    [early |-> "keyboard", keyboard |-> "register", rootfs |-> "sector",
     sector |-> "fbinfo", fbinfo |-> IF debug THEN "debug" ELSE "late",
     late |-> "sti", banner |-> "release", welcome |-> "finish",
     finish |-> "idle", hello |-> "halt", irqinfo |-> "eoi", echo |-> "eoi",
     head |-> "reason", reason |-> "tail", tail |-> "halt"]

\* Variant: the special case for the unregistered timer is removed.
IrqBody_TimerInfo(v) == IF v \in handlers THEN {"echo", "eoi"} ELSE {"irqinfo"}

\* Variant: the keyboard handler echoes with a function that locks.
IrqBody_LockedEcho(v) == IF v \in handlers THEN {"irqinfo", "eoi"} ELSE {"eoi"}

\* Where IRQHandler goes for a vector: the timer is skipped silently, a
\* keyboard handler prints or returns early, anything unregistered is INFO'd.
IrqBody(v) ==
    IF v \in handlers THEN {"echo", "eoi"}
    ELSE IF v = TIMER THEN {"eoi"} ELSE {"irqinfo"}

-----------------------------------------------------------------------------
Panicking(c) == pc[Panic(c)] # "none"

\* The topmost frame of its core: the one the processor executes.
Runs(t) ==
    /\ pc[t] # "none"
    /\ t[2] # "panic" => ~Panicking(t[1])
    /\ t[2] = "task" => pc[Irq(t[1])] = "none"

\* It is in a call of a function that prints under the lock.
Printing(t) == Runs(t) /\ pc[t] \in PrintLabel

At(t, l) == Runs(t) /\ pc[t] = l
Goto(t, l) == pc' = [pc EXCEPT ![t] = l]

Init ==
    /\ pc = [t \in Thread |->
               IF t = Task(BSP) THEN "early"
               ELSE IF t[2] = "task" THEN "off" ELSE "none"]
    /\ lock = FALSE
    /\ inside = [t \in Thread |-> FALSE]
    /\ left = [t \in Thread |-> MsgLen]
    /\ screen = [by |-> Task(BSP), left |-> 1]
    /\ iflag = [c \in Core |-> FALSE]
    /\ handlers = {}
    /\ apsSafe = FALSE
    /\ drops = 0
    /\ faults = 0
    /\ irqs = 0
    /\ debug \in Builds

-----------------------------------------------------------------------------
(* The console.                                                            *)

\* Variant: a load and a store in place of the test-and-set, both cores having
\* loaded 0.
Lock_NoTest(t) ==
    /\ Printing(t) /\ ~inside[t]
    /\ lock' = TRUE
    /\ inside' = [inside EXCEPT ![t] = TRUE]
    /\ left' = [left EXCEPT ![t] = MsgLen]
    /\ UNCHANGED <<pc, screen, iflag, handlers, apsSafe, drops, counters>>

\* Variant: a panic does not wait for the lock.
Lock_PanicBypass(t) ==
    /\ Printing(t) /\ ~inside[t]
    /\ ~lock \/ t[2] = "panic"
    /\ lock' = TRUE
    /\ inside' = [inside EXCEPT ![t] = TRUE]
    /\ left' = [left EXCEPT ![t] = MsgLen]
    /\ UNCHANGED <<pc, screen, iflag, handlers, apsSafe, drops, counters>>

\* The test-and-set that finds the lock free.  One that fails spins.
Lock(t) ==
    /\ Printing(t) /\ ~inside[t]
    /\ ~lock
    /\ lock' = TRUE
    /\ inside' = [inside EXCEPT ![t] = TRUE]
    /\ left' = [left EXCEPT ![t] = MsgLen]
    /\ UNCHANGED <<pc, screen, iflag, handlers, apsSafe, drops, counters>>

\* Variant: the loop runs one character past the terminator.
Emit_PastEnd(t) ==
    /\ Printing(t) /\ inside[t] /\ left[t] >= 0
    /\ left' = [left EXCEPT ![t] = @ - 1]
    /\ screen' = [by |-> t, left |-> left[t]]
    /\ UNCHANGED <<pc, lock, inside, iflag, handlers, apsSafe, drops, counters>>

\* PrintStringInternal draws the next character of the message.
Emit(t) ==
    /\ Printing(t) /\ inside[t] /\ left[t] > 0
    /\ left' = [left EXCEPT ![t] = @ - 1]
    /\ screen' = [by |-> t, left |-> left[t]]
    /\ UNCHANGED <<pc, lock, inside, iflag, handlers, apsSafe, drops, counters>>

\* Variant: the newline of INFO and Log is printed after the unlock.
Unlock_Early(t) ==
    /\ Printing(t) /\ inside[t] /\ left[t] <= 1
    /\ lock' = FALSE
    /\ inside' = [inside EXCEPT ![t] = FALSE]
    /\ Goto(t, Follows[pc[t]])
    /\ UNCHANGED <<left, screen, iflag, handlers, apsSafe, drops, counters>>

\* Unlock stores 0 whoever holds the lock, and the call returns.
Unlock(t) ==
    /\ Printing(t) /\ inside[t] /\ left[t] = 0
    /\ lock' = FALSE
    /\ inside' = [inside EXCEPT ![t] = FALSE]
    /\ Goto(t, Follows[pc[t]])
    /\ UNCHANGED <<left, screen, iflag, handlers, apsSafe, drops, counters>>

\* Characters printed without the lock: the sector test of InitKernel, the
\* keyboard's echo, the reason of a panic.
Raw(t) ==
    /\ Runs(t) /\ pc[t] \in RawLabel
    /\ Goto(t, Follows[pc[t]])
    /\ UNCHANGED <<console, iflag, handlers, apsSafe, counters>>

-----------------------------------------------------------------------------
(* InitKernel and Arch::LateInit, on the BSP.                              *)

Register ==
    /\ At(Task(BSP), "register")
    /\ handlers' = handlers \cup {KEYBOARD}
    /\ Goto(Task(BSP), "rootfs")
    /\ UNCHANGED <<console, iflag, apsSafe, counters>>

\* Core::Panic called by the program itself, at init.cpp:62.
CallPanic ==
    /\ At(Task(BSP), "debug")
    /\ Goto(Panic(BSP), "unlock")
    /\ UNCHANGED <<console, iflag, handlers, apsSafe, counters>>

Sti ==
    /\ At(Task(BSP), "sti")
    /\ iflag' = [iflag EXCEPT ![BSP] = TRUE]
    /\ Goto(Task(BSP), "wake")
    /\ UNCHANGED <<console, handlers, apsSafe, counters>>

\* One turn of the wake loop: store APEntry into the AP's goto_address.
WakeAp(a) ==
    /\ At(Task(BSP), "wake")
    /\ pc[Task(a)] = "off"
    /\ Goto(Task(a), "entry")
    /\ UNCHANGED <<console, iflag, handlers, apsSafe, counters>>

EndWake ==
    /\ At(Task(BSP), "wake")
    /\ \A a \in AP : pc[Task(a)] # "off"
    /\ Goto(Task(BSP), "banner")
    /\ UNCHANGED <<console, iflag, handlers, apsSafe, counters>>

\* Variant: LateInit forgets to open the gate.
Release_Forgotten ==
    /\ At(Task(BSP), "release")
    /\ Goto(Task(BSP), "welcome")
    /\ UNCHANGED <<console, iflag, handlers, apsSafe, counters>>

Release ==
    /\ At(Task(BSP), "release")
    /\ apsSafe' = TRUE
    /\ Goto(Task(BSP), "welcome")
    /\ UNCHANGED <<console, iflag, handlers, counters>>

-----------------------------------------------------------------------------
(* APEntry, on the other cores.                                            *)

\* Core context, GDT, IDT and, where cpuid tells of an x2APIC, the LAPIC.
ApSetup(a) ==
    /\ At(Task(a), "entry")
    /\ Goto(Task(a), "gate")
    /\ UNCHANGED <<console, iflag, handlers, apsSafe, counters>>

\* Where cpuid tells of none InitLAPIC panics.
NoX2Apic(a) ==
    /\ At(Task(a), "entry") /\ faults < MaxFaults
    /\ pc' = [pc EXCEPT ![Task(a)] = "lapic", ![Panic(a)] = "unlock"]
    /\ faults' = faults + 1
    /\ UNCHANGED <<console, iflag, handlers, apsSafe, irqs, debug>>

\* Variant: APEntry does not wait.
PassGate_NoWait(a) ==
    /\ At(Task(a), "gate")
    /\ Goto(Task(a), "apsti")
    /\ UNCHANGED <<console, iflag, handlers, apsSafe, counters>>

\* WaitUntilGPReady returns.
PassGate(a) ==
    /\ At(Task(a), "gate")
    /\ apsSafe
    /\ Goto(Task(a), "apsti")
    /\ UNCHANGED <<console, iflag, handlers, apsSafe, counters>>

ApSti(a) ==
    /\ At(Task(a), "apsti")
    /\ iflag' = [iflag EXCEPT ![a] = TRUE]
    /\ Goto(Task(a), "hello")
    /\ UNCHANGED <<console, handlers, apsSafe, counters>>

-----------------------------------------------------------------------------
(* Panic, Halt, interrupts and exceptions.                                 *)

\* Variant: Panic prints without forcing the lock open.
EmergencyUnlock_Skipped(c) ==
    /\ At(Panic(c), "unlock")
    /\ Goto(Panic(c), "head")
    /\ UNCHANGED <<console, iflag, handlers, apsSafe, counters>>

\* Core::Panic begins by clearing the lock.  The frames below the panic on
\* its core never run again, so they are no longer in any critical section.
EmergencyUnlock(c) ==
    /\ At(Panic(c), "unlock")
    /\ lock' = FALSE
    /\ inside' = [t \in Thread |-> inside[t] /\ t[1] # c]
    /\ drops' = drops + 1
    /\ Goto(Panic(c), "head")
    /\ UNCHANGED <<left, screen, iflag, handlers, apsSafe, counters>>

\* Core::Halt: cli, then hlt.
Halt(t) ==
    /\ At(t, "halt")
    /\ iflag' = [iflag EXCEPT ![t[1]] = FALSE]
    /\ Goto(t, "dead")
    /\ UNCHANGED <<console, handlers, apsSafe, counters>>

\* The IOAPIC routes every pin it unmasks to the BSP.  The gates are
\* interrupt gates: taking one clears the interrupt flag.
Interrupt(v) ==
    /\ iflag[BSP] /\ irqs < MaxIrqs
    /\ \E l \in IrqBody(v) : Goto(Irq(BSP), l)
    /\ iflag' = [iflag EXCEPT ![BSP] = FALSE]
    /\ irqs' = irqs + 1
    /\ UNCHANGED <<console, handlers, apsSafe, faults, debug>>

\* SendEOI, then iretq restores the flags of the interrupted task.
EndIrq(c) ==
    /\ At(Irq(c), "eoi")
    /\ Goto(Irq(c), "none")
    /\ iflag' = [iflag EXCEPT ![c] = TRUE]
    /\ UNCHANGED <<console, handlers, apsSafe, counters>>

\* Variant: exceptions enter through trap gates, which leave IF alone.
Fault_TrapGate(c) ==
    /\ faults < MaxFaults
    /\ pc[Task(c)] \notin {"off", "entry"}
    /\ Goto(Panic(c), "unlock")
    /\ faults' = faults + 1
    /\ UNCHANGED <<console, iflag, handlers, apsSafe, irqs, debug>>

\* An exception on any core that has loaded the IDT, at any instruction, in
\* a panic or in hlt too (an NMI).  ISRHandler panics.
Fault(c) ==
    /\ faults < MaxFaults
    /\ pc[Task(c)] \notin {"off", "entry"}
    /\ Goto(Panic(c), "unlock")
    /\ iflag' = [iflag EXCEPT ![c] = FALSE]
    /\ faults' = faults + 1
    /\ UNCHANGED <<console, handlers, apsSafe, irqs, debug>>

-----------------------------------------------------------------------------
PrintStep(t) == Lock(t) \/ Emit(t) \/ Unlock(t) \/ Raw(t)

\* What the core itself executes: its topmost frame's next instruction.
CoreStep(c) ==
    \/ \E f \in Frame : PrintStep(<<c, f>>) \/ Halt(<<c, f>>)
    \/ EmergencyUnlock(c) \/ EndIrq(c)
BspStep ==
    \/ Register \/ CallPanic \/ Sti \/ EndWake \/ Release
    \/ \E a \in AP : WakeAp(a)
ApStep(a) == ApSetup(a) \/ NoX2Apic(a) \/ PassGate(a) \/ ApSti(a)

Next ==
    \/ \E c \in Core : CoreStep(c) \/ Fault(c)
    \/ BspStep
    \/ \E a \in AP : ApStep(a)
    \/ \E v \in Vector : Interrupt(v)

\* A processor keeps executing instructions; nothing obliges a device to
\* interrupt it or an instruction to fault.
Fairness ==
    /\ \A c \in Core : WF_vars(CoreStep(c))
    /\ WF_vars(BspStep)
    /\ \A a \in AP : WF_vars(ApStep(a))

Spec == Init /\ [][Next]_vars
FairSpec == Spec /\ Fairness

-----------------------------------------------------------------------------
TypeOK ==
    /\ pc \in [Thread -> Label]
    /\ lock \in BOOLEAN
    /\ inside \in [Thread -> BOOLEAN]
    /\ left \in [Thread -> 0..MsgLen]
    /\ screen \in [by : Thread, left : 1..MsgLen]
    /\ iflag \in [Core -> BOOLEAN]
    /\ handlers \subseteq Vector
    /\ apsSafe \in BOOLEAN
    /\ drops \in Nat /\ faults \in Nat /\ irqs \in Nat
    /\ debug \in Builds

Holders == {t \in Thread : inside[t]}

\* The console lock excludes (spinlock.hpp) until a panic tears it down.
MutualExclusion ==
    drops = 0 => \A t, u \in Holders : t = u

\* Every EmergencyUnlock (panic.cpp:35) lets at most one more frame into the
\* critical section than the lock itself does, however the unlocks of frames
\* that no longer own the lock interleave with later locks.
DamageBounded ==
    Cardinality(Holders) <= (IF lock THEN 1 ELSE 0) + drops

\* A set lock has a holder that its core will let finish, or a panic about to
\* clear it: never one that was halted or buried under a finished panic.
NoOrphanLock ==
    lock => \E t \in Holders :
               \/ pc[Panic(t[1])] = "unlock"
               \/ pc[t] \in PrintLabel /\ (Panicking(t[1]) => t[2] = "panic")

\* No frame spins for the lock on top of a frame of its own core that holds
\* it: the IRQ path prints under the lock only for vectors nobody handles
\* (int.cpp:120-122) and a panic drops the lock before it prints (panic.cpp:35).
NoSelfDeadlock ==
    \A c \in Core : \A t, u \in {c} \X Frame :
        Printing(t) /\ inside[u] => t = u

\* Until a panic, a locked message reaches the screen whole: the characters
\* of two cores' messages never mix (console.cpp:354-437).
MessagesWhole ==
    [][screen' # screen /\ drops = 0 =>
         \/ screen.left = 1 /\ screen'.left = MsgLen
         \/ screen' = [screen EXCEPT !.left = @ - 1]]_vars

\* No AP prints, or takes interrupts, before the BSP has printed its banner
\* (WaitUntilGPReady, init.cpp:84 and 195).
GateHolds ==
    \A a \in AP :
        iflag[a] \/ inside[Task(a)] =>
            pc[Task(BSP)] \in {"welcome", "finish", "idle"}

\* Once a core panics, the frames below the panic never run again: an
\* exception enters through an interrupt gate and the final hlt has IF clear.
PanicIsFinal ==
    [][\A c \in Core : Panicking(c) =>
          /\ pc'[Task(c)] = pc[Task(c)]
          /\ pc'[Irq(c)] = pc[Irq(c)]
          /\ Panicking(c)']_vars

\* The boot settles: every core comes to rest in its idle or halted state or
\* in a finished panic, whatever the others do, except that a BSP that
\* panics before it opens the gate strands the APs at it.
Rested(c) ==
    IF Panicking(c) THEN pc[Panic(c)] = "dead"
    ELSE pc[Irq(c)] = "none" /\
         \/ pc[Task(c)] \in {"idle", "dead"}
         \/ Panicking(BSP) /\ ~apsSafe /\ pc[Task(c)] \in {"off", "gate"}
BootSettles == <>[](\A c \in Core : Rested(c))

\* A core that starts a panic finishes it (it reaches the halt after its
\* report): no other core can keep the console from it for ever.
PanicCompletes ==
    \A c \in Core : Panicking(c) ~> pc[Panic(c)] = "dead"

\* The keyboard stays usable: an interrupt handler returns unless the core
\* panics meanwhile.
IrqReturns ==
    pc[Irq(BSP)] # "none" ~> (pc[Irq(BSP)] = "none" \/ Panicking(BSP))
=============================================================================

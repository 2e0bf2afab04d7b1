-------------------------- MODULE SmpKernelProofs --------------------------
(***************************************************************************)
(* Proofs about SmpKernel for every set of cores, message length and       *)
(* number of faults and interrupts, and for every set of builds.     *)
(***************************************************************************)
EXTENDS SmpKernel, FiniteSetTheorems, TLAPS

USE CoreAssumption, BuildAssumption, BoundAssumption

-----------------------------------------------------------------------------
(* What the program text allows.                                           *)

PreSti == {"early", "keyboard", "register", "rootfs", "sector", "fbinfo",
           "debug", "late", "sti"}
PreRegister == {"early", "keyboard", "register"}

\* The successor of a label is a label; the text never goes back before the
\* registration or the sti, never calls Halt's successor, and a frame that
\* prints never turns into a fresh AP or a panic that starts.
LEMMA FollowsLabel ==
    ASSUME NEW l \in PrintLabel \cup RawLabel
    PROVE  /\ Follows[l] \in Label
           /\ l \in PreRegister => Follows[l] \in PreRegister
           /\ Follows[l] \in PreSti => l \in PreSti
           /\ Follows[l] \notin {"none", "off", "entry", "unlock", "dead"}
           /\ l = "echo" => Follows[l] = "eoi"
BY DEF Follows, PrintLabel, RawLabel, BspPrints, Label, PreSti, PreRegister
-----------------------------------------------------------------------------
(* The inductive invariant.                                                *)

\* Interrupts are enabled only where no other frame covers the task.
IfInv == \A c \in Core : iflag[c] => pc[Irq(c)] = "none" /\ ~Panicking(c)

\* The BSP takes no interrupt before the sti of LateInit, and it registers
\* the keyboard handler before that.
BootInv ==
    /\ pc[Task(BSP)] \in PreSti => ~iflag[BSP] /\ pc[Irq(BSP)] = "none"
    /\ pc[Task(BSP)] \in PreRegister \/ KEYBOARD \in handlers

\* No interrupt handler prints under the lock.
IrqInv == \A c \in Core : pc[Irq(c)] \in {"none", "echo", "eoi"}

\* A core that has not set itself up takes no interrupt and does not panic.
OffInv ==
    \A c \in Core : pc[Task(c)] \in {"off", "entry"} =>
        ~Panicking(c) /\ ~iflag[c] /\ pc[Irq(c)] = "none"

\* A frame in the critical section is in a call that prints, or a panic on
\* its core is about to abandon it.
InsideInv ==
    \A t \in Thread : inside[t] => pc[t] \in PrintLabel \/ pc[Panic(t[1])] = "unlock"

\* Panic abandons the frames below it before it prints.
BuriedInv ==
    \A t \in Thread : inside[t] /\ t[2] # "panic" => pc[Panic(t[1])] \in {"none", "unlock"}

\* A set lock has been set by a frame still inside.
LockInv == lock => \E t \in Thread : inside[t]

IInv == /\ TypeOK /\ IfInv /\ BootInv /\ IrqInv /\ OffInv
        /\ InsideInv /\ BuriedInv /\ LockInv

-----------------------------------------------------------------------------
(* Each action preserves the invariant: its type, its control part   *)
(* (who runs where) and its lock part (who is inside).                     *)

Control == IfInv /\ BootInv /\ IrqInv /\ OffInv
Section == InsideInv /\ BuriedInv /\ LockInv

LEMMA ThreadFacts ==
    /\ \A c \in Core, f \in Frame : <<c, f>> \in Thread
    /\ \A t \in Thread : t[1] \in Core /\ t[2] \in Frame /\ t = <<t[1], t[2]>>
BY DEF Thread, Frame

LEMMA LabelFacts ==
    {"none", "rootfs", "wake", "banner", "welcome", "entry", "lapic", "gate",
     "apsti", "hello", "head", "dead", "unlock", "eoi", "echo"} \subseteq Label
BY DEF Label, PrintLabel, RawLabel, BspPrints

USE ThreadFacts
USE DEF Frame, Task, Irq, Panic, Panicking, Goto, At, Runs, Printing,
        console, counters, AP

LEMMA LockStep ==
    ASSUME NEW t \in Thread, IInv, Lock(t)
    PROVE  IInv'
<1>1. TypeOK'
  BY DEF IInv, TypeOK, Lock
<1>2. Control'
  BY DEF IInv, Control, Lock, IfInv, BootInv, IrqInv, OffInv
<1>3. Section'
  BY DEF IInv, TypeOK, Lock, Section, InsideInv, BuriedInv, LockInv
<1> QED BY <1>1, <1>2, <1>3 DEF IInv, Control, Section

LEMMA EmitStep ==
    ASSUME NEW t \in Thread, IInv, Emit(t)
    PROVE  IInv'
<1>1. TypeOK'
  BY DEF IInv, TypeOK, Emit
<1>2. Control'
  BY DEF IInv, Control, Emit, IfInv, BootInv, IrqInv, OffInv
<1>3. Section'
  BY DEF IInv, TypeOK, Emit, Section, InsideInv, BuriedInv, LockInv
<1> QED BY <1>1, <1>2, <1>3 DEF IInv, Control, Section

LEMMA UnlockStep ==
    ASSUME NEW t \in Thread, IInv, Unlock(t)
    PROVE  IInv'
<1> DEFINE m == Follows[pc[t]]
<1>0. /\ m \in Label
      /\ pc[t] \in PreRegister => m \in PreRegister
      /\ m \in PreSti => pc[t] \in PreSti
      /\ m \notin {"none", "off", "entry", "unlock", "dead"}
      /\ pc[t] = "echo" => m = "eoi"
      /\ pc' = [pc EXCEPT ![t] = m]
      /\ pc[t] \notin {"none", "eoi", "unlock"}
      /\ pc[t] # "echo"
  BY FollowsLabel DEF Unlock, PrintLabel, RawLabel, BspPrints
<1> HIDE DEF m
<1>1. TypeOK'
  <2>1. pc' \in [Thread -> Label] /\ inside' \in [Thread -> BOOLEAN]
    BY <1>0 DEF IInv, TypeOK, Unlock
  <2> QED BY <2>1 DEF IInv, TypeOK, Unlock
<1>2. Control'
  <2>1. IrqInv' /\ OffInv'
    BY <1>0 DEF IInv, TypeOK, IrqInv, OffInv, Unlock
  <2>2. IfInv'
    BY <1>0 DEF IInv, TypeOK, IfInv, IrqInv, Unlock
  <2>3. BootInv'
    <3>1. pc'[Task(BSP)] \in PreSti => ~iflag[BSP] /\ pc'[Irq(BSP)] = "none"
      BY <1>0 DEF IInv, TypeOK, BootInv, IrqInv, Unlock
    <3>2. pc[Task(BSP)] \in PreRegister => pc'[Task(BSP)] \in PreRegister
      BY <1>0 DEF IInv, TypeOK
    <3>3. UNCHANGED <<iflag, handlers>>
      BY DEF Unlock
    <3> QED BY <3>1, <3>2, <3>3 DEF IInv, BootInv
  <2> QED BY <2>1, <2>2, <2>3 DEF Control
<1>3. Section'
  BY <1>0 DEF IInv, TypeOK, Section, Unlock, InsideInv, BuriedInv, LockInv
<1> QED BY <1>1, <1>2, <1>3 DEF IInv, Control, Section

LEMMA RawStep ==
    ASSUME NEW t \in Thread, IInv, Raw(t)
    PROVE  IInv'
<1> DEFINE m == Follows[pc[t]]
<1>0. /\ m \in Label
      /\ pc[t] \in PreRegister => m \in PreRegister
      /\ m \in PreSti => pc[t] \in PreSti
      /\ m \notin {"none", "off", "entry", "unlock", "dead"}
      /\ pc[t] = "echo" => m = "eoi"
      /\ pc' = [pc EXCEPT ![t] = m]
      /\ pc[t] \notin {"none", "eoi", "unlock"}
      /\ pc[t] \notin PrintLabel
  BY FollowsLabel DEF Raw, PrintLabel, RawLabel, BspPrints
<1> HIDE DEF m
<1>1. TypeOK'
  BY <1>0 DEF IInv, TypeOK, Raw
<1>2. Control'
  <2>1. IrqInv' /\ OffInv'
    BY <1>0 DEF IInv, TypeOK, IrqInv, OffInv, Raw
  <2>2. IfInv'
    BY <1>0 DEF IInv, TypeOK, IfInv, IrqInv, Raw
  <2>3. BootInv'
    <3>1. pc'[Task(BSP)] \in PreSti => ~iflag[BSP] /\ pc'[Irq(BSP)] = "none"
      BY <1>0 DEF IInv, TypeOK, BootInv, IrqInv, Raw
    <3>2. pc[Task(BSP)] \in PreRegister => pc'[Task(BSP)] \in PreRegister
      BY <1>0 DEF IInv, TypeOK
    <3>3. UNCHANGED <<iflag, handlers>>
      BY DEF Raw
    <3> QED BY <3>1, <3>2, <3>3 DEF IInv, BootInv
  <2> QED BY <2>1, <2>2, <2>3 DEF Control
<1>3. Section'
  BY <1>0 DEF IInv, TypeOK, Section, Raw, InsideInv, BuriedInv, LockInv
<1> QED BY <1>1, <1>2, <1>3 DEF IInv, Control, Section

LEMMA HaltStep ==
    ASSUME NEW t \in Thread, IInv, Halt(t)
    PROVE  IInv'
<1>1. TypeOK'
  BY LabelFacts DEF IInv, TypeOK, Halt
<1>2. Control'
  BY DEF IInv, TypeOK, Control, IfInv, BootInv, IrqInv, OffInv, PreSti, PreRegister, Halt
<1>3. Section'
  BY DEF IInv, TypeOK, IfInv, Section, InsideInv, BuriedInv, LockInv, PrintLabel, RawLabel, BspPrints, Halt
<1> QED BY <1>1, <1>2, <1>3 DEF IInv, Control, Section

LEMMA EmergencyUnlockStep ==
    ASSUME NEW c \in Core, IInv, EmergencyUnlock(c)
    PROVE  IInv'
<1>1. TypeOK'
  <2>1. inside' \in [Thread -> BOOLEAN]
    <3>1. \A t \in Thread : (inside[t] /\ t[1] # c) \in BOOLEAN
      OBVIOUS
    <3> QED BY <3>1, Zenon DEF EmergencyUnlock
  <2>2. pc' \in [Thread -> Label]
    BY LabelFacts DEF IInv, TypeOK, EmergencyUnlock
  <2>3. /\ lock' = FALSE /\ drops' = drops + 1
        /\ UNCHANGED <<left, screen, iflag, handlers, apsSafe, faults, irqs, debug>>
    BY DEF EmergencyUnlock
  <2>4. lock' \in BOOLEAN
    BY <2>3
  <2>5. drops' \in Nat
    <3>1. drops \in Nat
      BY DEF IInv, TypeOK
    <3> QED BY <2>3, <3>1
  <2> QED BY <2>1, <2>2, <2>3, <2>4, <2>5 DEF IInv, TypeOK
<1>2. Control'
  BY DEF IInv, TypeOK, Control, IfInv, BootInv, IrqInv, OffInv, PreSti, PreRegister, EmergencyUnlock
<1>3. Section'
  BY DEF IInv, TypeOK, IfInv, Section, InsideInv, BuriedInv, LockInv, PrintLabel, RawLabel, BspPrints, EmergencyUnlock
<1> QED BY <1>1, <1>2, <1>3 DEF IInv, Control, Section

LEMMA EndIrqStep ==
    ASSUME NEW c \in Core, IInv, EndIrq(c)
    PROVE  IInv'
<1>1. TypeOK'
  BY LabelFacts DEF IInv, TypeOK, EndIrq
<1>2. Control'
  BY DEF IInv, TypeOK, Control, IfInv, BootInv, IrqInv, OffInv, PreSti, PreRegister, EndIrq
<1>3. Section'
  BY DEF IInv, TypeOK, IfInv, Section, InsideInv, BuriedInv, LockInv, PrintLabel, RawLabel, BspPrints, EndIrq
<1> QED BY <1>1, <1>2, <1>3 DEF IInv, Control, Section

LEMMA FaultStep ==
    ASSUME NEW c \in Core, IInv, Fault(c)
    PROVE  IInv'
<1>1. TypeOK'
  <2>1. debug' \in Builds
    BY DEF IInv, TypeOK, Fault
  <2>2. pc' \in [Thread -> Label]
    BY LabelFacts DEF IInv, TypeOK, Fault
  <2>3. iflag' \in [Core -> BOOLEAN] /\ faults' \in Nat
    BY DEF IInv, TypeOK, Fault
  <2>4. UNCHANGED <<lock, inside, left, screen, drops, handlers, apsSafe, irqs>>
    BY DEF Fault
  <2> QED BY <2>1, <2>2, <2>3, <2>4 DEF IInv, TypeOK
<1>2. Control'
  BY DEF IInv, TypeOK, Control, IfInv, BootInv, IrqInv, OffInv, PreSti, PreRegister, Fault
<1>3. Section'
  <2>1. pc'[Panic(c)] = "unlock" /\ \A t \in Thread : t # Panic(c) => pc'[t] = pc[t]
    BY DEF IInv, TypeOK, Fault
  <2>2. InsideInv'
    <3> SUFFICES ASSUME NEW t \in Thread, inside[t]
                 PROVE  pc'[t] \in PrintLabel \/ pc'[Panic(t[1])] = "unlock"
      BY DEF InsideInv, Fault
    <3>1. CASE t[1] = c
      BY <2>1, <3>1
    <3>2. CASE t[1] # c
      BY <2>1, <3>2 DEF IInv, InsideInv
    <3> QED BY <3>1, <3>2
  <2>3. BuriedInv'
    BY <2>1 DEF IInv, TypeOK, BuriedInv, Fault
  <2>4. LockInv'
    BY DEF IInv, LockInv, Fault
  <2> QED BY <2>2, <2>3, <2>4 DEF Section
<1> QED BY <1>1, <1>2, <1>3 DEF IInv, Control, Section

LEMMA InterruptStep ==
    ASSUME NEW v \in Vector, IInv, Interrupt(v)
    PROVE  IInv'
<1> PICK l \in IrqBody(v) : pc' = [pc EXCEPT ![Irq(BSP)] = l]
  BY DEF Interrupt
<1>0. l \in {"echo", "eoi"}
  BY DEF IInv, BootInv, PreSti, PreRegister, Interrupt, IrqBody, Vector, TIMER, KEYBOARD
<1>1. TypeOK'
  <2>1. pc' \in [Thread -> Label]
    BY <1>0, LabelFacts DEF IInv, TypeOK
  <2>2. iflag' \in [Core -> BOOLEAN] /\ irqs' \in Nat
    BY DEF IInv, TypeOK, Interrupt
  <2>3. UNCHANGED <<lock, inside, left, screen, drops, handlers, apsSafe, faults, debug>>
    BY DEF Interrupt
  <2> QED BY <2>1, <2>2, <2>3 DEF IInv, TypeOK
<1>2. Control'
  BY <1>0 DEF IInv, TypeOK, Control, IfInv, BootInv, IrqInv, OffInv, Interrupt
<1>3. Section'
  BY DEF IInv, TypeOK, IfInv, Section, InsideInv, BuriedInv, LockInv, PrintLabel, BspPrints, Interrupt
<1> QED BY <1>1, <1>2, <1>3 DEF IInv, Control, Section

LEMMA RegisterStep ==
    ASSUME IInv, Register
    PROVE  IInv'
<1>1. TypeOK'
  BY LabelFacts DEF IInv, TypeOK, Vector, KEYBOARD, Register
<1>2. Control'
  BY DEF IInv, TypeOK, Control, IfInv, BootInv, IrqInv, OffInv, Vector, KEYBOARD, PreSti, PreRegister, Register
<1>3. Section'
  BY DEF IInv, TypeOK, IfInv, Section, InsideInv, BuriedInv, LockInv, PrintLabel, RawLabel, BspPrints, Register
<1> QED BY <1>1, <1>2, <1>3 DEF IInv, Control, Section

LEMMA CallPanicStep ==
    ASSUME IInv, CallPanic
    PROVE  IInv'
<1>1. TypeOK'
  BY LabelFacts DEF IInv, TypeOK, CallPanic
<1>2. Control'
  BY DEF IInv, TypeOK, Control, IfInv, BootInv, IrqInv, OffInv, PreSti, PreRegister, CallPanic
<1>3. Section'
  BY DEF IInv, TypeOK, IfInv, Section, InsideInv, BuriedInv, LockInv, PrintLabel, RawLabel, BspPrints, CallPanic
<1> QED BY <1>1, <1>2, <1>3 DEF IInv, Control, Section

LEMMA StiStep ==
    ASSUME IInv, Sti
    PROVE  IInv'
<1>1. TypeOK'
  BY LabelFacts DEF IInv, TypeOK, Sti
<1>2. Control'
  BY DEF IInv, TypeOK, Control, IfInv, BootInv, IrqInv, OffInv, PreSti, PreRegister, Sti
<1>3. Section'
  BY DEF IInv, TypeOK, IfInv, Section, InsideInv, BuriedInv, LockInv, PrintLabel, RawLabel, BspPrints, Sti
<1> QED BY <1>1, <1>2, <1>3 DEF IInv, Control, Section

LEMMA EndWakeStep ==
    ASSUME IInv, EndWake
    PROVE  IInv'
<1>1. TypeOK'
  BY LabelFacts DEF IInv, TypeOK, EndWake
<1>2. Control'
  BY DEF IInv, TypeOK, Control, IfInv, BootInv, IrqInv, OffInv, PreSti, PreRegister, EndWake
<1>3. Section'
  BY DEF IInv, TypeOK, IfInv, Section, InsideInv, BuriedInv, LockInv, PrintLabel, RawLabel, BspPrints, EndWake
<1> QED BY <1>1, <1>2, <1>3 DEF IInv, Control, Section

LEMMA ReleaseStep ==
    ASSUME IInv, Release
    PROVE  IInv'
<1>1. TypeOK'
  BY LabelFacts DEF IInv, TypeOK, Release
<1>2. Control'
  BY DEF IInv, TypeOK, Control, IfInv, BootInv, IrqInv, OffInv, PreSti, PreRegister, Release
<1>3. Section'
  BY DEF IInv, TypeOK, IfInv, Section, InsideInv, BuriedInv, LockInv, PrintLabel, RawLabel, BspPrints, Release
<1> QED BY <1>1, <1>2, <1>3 DEF IInv, Control, Section

LEMMA WakeApStep ==
    ASSUME NEW a \in AP, IInv, WakeAp(a)
    PROVE  IInv'
<1>1. TypeOK'
  BY LabelFacts DEF IInv, TypeOK, WakeAp
<1>2. Control'
  BY DEF IInv, TypeOK, Control, IfInv, BootInv, IrqInv, OffInv, PreSti, PreRegister, WakeAp
<1>3. Section'
  BY DEF IInv, TypeOK, IfInv, Section, InsideInv, BuriedInv, LockInv, PrintLabel, RawLabel, BspPrints, WakeAp
<1> QED BY <1>1, <1>2, <1>3 DEF IInv, Control, Section

LEMMA ApSetupStep ==
    ASSUME NEW a \in AP, IInv, ApSetup(a)
    PROVE  IInv'
<1>1. TypeOK'
  BY LabelFacts DEF IInv, TypeOK, ApSetup
<1>2. Control'
  BY DEF IInv, TypeOK, Control, IfInv, BootInv, IrqInv, OffInv, PreSti, PreRegister, ApSetup
<1>3. Section'
  BY DEF IInv, TypeOK, IfInv, Section, InsideInv, BuriedInv, LockInv, PrintLabel, RawLabel, BspPrints, ApSetup
<1> QED BY <1>1, <1>2, <1>3 DEF IInv, Control, Section

LEMMA NoX2ApicStep ==
    ASSUME NEW a \in AP, IInv, NoX2Apic(a)
    PROVE  IInv'
<1>1. /\ a \in Core /\ a # BSP /\ Task(a) \in Thread /\ Panic(a) \in Thread
      /\ pc[Task(a)] = "entry" /\ pc[Irq(a)] = "none" /\ pc[Panic(a)] = "none" /\ ~iflag[a]
  BY DEF NoX2Apic, IInv, OffInv
<1>2. /\ pc' \in [Thread -> Label]
      /\ pc'[Task(a)] = "lapic" /\ pc'[Panic(a)] = "unlock"
      /\ \A t \in Thread : t # Task(a) /\ t # Panic(a) => pc'[t] = pc[t]
  BY <1>1, LabelFacts DEF IInv, TypeOK, NoX2Apic
<1>3. UNCHANGED <<console, iflag, handlers, apsSafe, irqs, debug>> /\ faults' = faults + 1
  BY DEF NoX2Apic
<1>4. TypeOK'
  BY <1>2, <1>3 DEF IInv, TypeOK
<1>5. Control'
  <2>1. \A c \in Core : pc'[Irq(c)] = pc[Irq(c)]
    BY <1>2
  <2>2. \A c \in Core : c # a => pc'[Task(c)] = pc[Task(c)] /\ pc'[Panic(c)] = pc[Panic(c)]
    BY <1>1, <1>2
  <2>3. IrqInv'
    BY <2>1 DEF IInv, IrqInv
  <2>4. IfInv'
    BY <1>1, <1>3, <2>1, <2>2 DEF IInv, IfInv
  <2>5. OffInv'
    BY <1>2, <1>3, <2>1, <2>2 DEF IInv, OffInv
  <2>6. BootInv'
    BY <1>1, <1>2, <1>3 DEF IInv, TypeOK, BootInv, PreSti, PreRegister
  <2> QED BY <2>3, <2>4, <2>5, <2>6 DEF Control
<1>6. Section'
  <2>1. ~inside[Task(a)] /\ ~inside[Panic(a)]
    BY <1>1 DEF IInv, InsideInv, PrintLabel, BspPrints
  <2>2. InsideInv' /\ BuriedInv'
    BY <1>1, <1>2, <1>3, <2>1 DEF IInv, InsideInv, BuriedInv
  <2> QED BY <1>3, <2>2 DEF IInv, Section, LockInv
<1> QED BY <1>4, <1>5, <1>6 DEF IInv, Control, Section

LEMMA PassGateStep ==
    ASSUME NEW a \in AP, IInv, PassGate(a)
    PROVE  IInv'
<1>1. TypeOK'
  BY LabelFacts DEF IInv, TypeOK, PassGate
<1>2. Control'
  BY DEF IInv, TypeOK, Control, IfInv, BootInv, IrqInv, OffInv, PreSti, PreRegister, PassGate
<1>3. Section'
  BY DEF IInv, TypeOK, IfInv, Section, InsideInv, BuriedInv, LockInv, PrintLabel, RawLabel, BspPrints, PassGate
<1> QED BY <1>1, <1>2, <1>3 DEF IInv, Control, Section

LEMMA ApStiStep ==
    ASSUME NEW a \in AP, IInv, ApSti(a)
    PROVE  IInv'
<1>1. TypeOK'
  BY LabelFacts DEF IInv, TypeOK, ApSti
<1>2. Control'
  BY DEF IInv, TypeOK, Control, IfInv, BootInv, IrqInv, OffInv, PreSti, PreRegister, ApSti
<1>3. Section'
  BY DEF IInv, TypeOK, IfInv, Section, InsideInv, BuriedInv, LockInv, PrintLabel, RawLabel, BspPrints, ApSti
<1> QED BY <1>1, <1>2, <1>3 DEF IInv, Control, Section

-----------------------------------------------------------------------------
(* The invariant holds from the start and every step keeps it.             *)

LEMMA InitInv == Init => IInv
<1> SUFFICES ASSUME Init PROVE IInv
  OBVIOUS
<1>1. TypeOK
  <2>1. pc \in [Thread -> Label]
    BY DEF Init, Label, PrintLabel, BspPrints
  <2>2. Task(BSP) \in Thread /\ MsgLen \in 0..MsgLen /\ 1 \in 1..MsgLen
    <3>1. Task(BSP) \in Thread
      OBVIOUS
    <3>2. MsgLen \in 0..MsgLen /\ 1 \in 1..MsgLen
      OBVIOUS
    <3> QED BY <3>1, <3>2
  <2>3. screen \in [by : Thread, left : 1..MsgLen]
    BY <2>2 DEF Init
  <2>4. inside \in [Thread -> BOOLEAN] /\ left \in [Thread -> 0..MsgLen]
        /\ iflag \in [Core -> BOOLEAN]
    BY <2>2 DEF Init
  <2> QED BY <2>1, <2>3, <2>4 DEF Init, TypeOK
<1>2. Control
  BY DEF Init, Control, IfInv, BootInv, IrqInv, OffInv, PreSti, PreRegister
<1>3. Section
  BY DEF Init, Section, InsideInv, BuriedInv, LockInv
<1> QED BY <1>1, <1>2, <1>3 DEF IInv, Control, Section

LEMMA StutterInv == IInv /\ UNCHANGED vars => IInv'
BY DEF IInv, vars, TypeOK, IfInv, BootInv, IrqInv, OffInv, InsideInv,
       BuriedInv, LockInv

LEMMA NextInv == IInv /\ [Next]_vars => IInv'
<1> SUFFICES ASSUME IInv, [Next]_vars PROVE IInv'
  OBVIOUS
<1>1. ASSUME NEW c \in Core, CoreStep(c) PROVE IInv'
  <2>1. ASSUME NEW f \in Frame, PrintStep(<<c, f>>) \/ Halt(<<c, f>>) PROVE IInv'
    BY <2>1, LockStep, EmitStep, UnlockStep, RawStep, HaltStep DEF PrintStep
  <2> QED BY <1>1, <2>1, EmergencyUnlockStep, EndIrqStep DEF CoreStep
<1>2. ASSUME NEW c \in Core, Fault(c) PROVE IInv'
  BY <1>2, FaultStep
<1>3. ASSUME BspStep PROVE IInv'
  BY <1>3, RegisterStep, CallPanicStep, StiStep, EndWakeStep, ReleaseStep,
     WakeApStep DEF BspStep
<1>4. ASSUME NEW a \in AP, ApStep(a) PROVE IInv'
  BY <1>4, ApSetupStep, NoX2ApicStep, PassGateStep, ApStiStep DEF ApStep
<1>5. ASSUME NEW v \in Vector, Interrupt(v) PROVE IInv'
  BY <1>5, InterruptStep
<1> QED BY <1>1, <1>2, <1>3, <1>4, <1>5, StutterInv DEF Next

LEMMA Inductive == Spec => []IInv
<1>1. Init => IInv
  BY InitInv
<1>2. IInv /\ [Next]_vars => IInv'
  BY NextInv
<1> QED BY <1>1, <1>2, PTL DEF Spec

-----------------------------------------------------------------------------
(* The theorems.                                                           *)

\* Every variable keeps its type, whatever the cores do.
THEOREM TypeCorrect == Spec => []TypeOK
BY Inductive, PTL DEF IInv

\* No core ever spins for the console lock on top of one of its own frames
\* that holds it, in an interrupt handler or in a panic.
THEOREM NoSelfDeadlockHolds == Spec => []NoSelfDeadlock
<1>1. IInv => NoSelfDeadlock
  <2> SUFFICES ASSUME IInv, NEW c \in Core, NEW t \in {c} \X Frame,
                      NEW u \in {c} \X Frame, Printing(t), inside[u]
               PROVE  t = u
    BY DEF NoSelfDeadlock
  <2>1. t \in Thread /\ u \in Thread /\ t[1] = c /\ u[1] = c
    BY DEF Thread
  <2>2. t # Irq(c) /\ u # Irq(c)
    BY <2>1 DEF IInv, IrqInv, InsideInv, BuriedInv, PrintLabel, BspPrints
  <2> QED BY <2>1, <2>2 DEF IInv, InsideInv, BuriedInv, PrintLabel, BspPrints
<1> QED BY <1>1, Inductive, PTL

\* A set lock always has a holder that will release it or a panic about to
\* clear it.
THEOREM NoOrphanLockHolds == Spec => []NoOrphanLock
<1>1. IInv => NoOrphanLock
  <2> SUFFICES ASSUME IInv, lock PROVE NoOrphanLock!2
    BY DEF NoOrphanLock
  <2>1. PICK t \in Thread : inside[t]
    BY DEF IInv, LockInv
  <2>2. t \in Holders
    BY <2>1 DEF Holders
  <2> QED BY <2>1, <2>2 DEF IInv, InsideInv, BuriedInv
<1> QED BY <1>1, Inductive, PTL

\* The frames below a panic never take another step.
THEOREM PanicIsFinalHolds == Spec => PanicIsFinal
<1> DEFINE A == \A c \in Core : Panicking(c) =>
                  /\ pc'[Task(c)] = pc[Task(c)]
                  /\ pc'[Irq(c)] = pc[Irq(c)]
                  /\ Panicking(c)'
<1>1. IInv /\ [Next]_vars => [A]_vars
  <2> SUFFICES ASSUME IInv, Next, NEW c \in Core, Panicking(c)
               PROVE  /\ pc'[Task(c)] = pc[Task(c)]
                      /\ pc'[Irq(c)] = pc[Irq(c)]
                      /\ Panicking(c)'
    BY DEF A
  <2> USE DEF IInv, TypeOK
  <2>1. ASSUME NEW d \in Core, CoreStep(d) PROVE A!(c)
    <3>1. ASSUME NEW f \in Frame, Lock(<<d, f>>) \/ Emit(<<d, f>>) PROVE A!(c)
      BY <3>1 DEF Lock, Emit
    <3>2. ASSUME NEW f \in Frame, Unlock(<<d, f>>) \/ Raw(<<d, f>>) \/ Halt(<<d, f>>)
          PROVE  A!(c)
      <4>1. PICK l : l # "none" /\ Goto(<<d, f>>, l)
        BY <3>2, FollowsLabel DEF Unlock, Raw, Halt
      <4>2. Runs(<<d, f>>)
        BY <3>2 DEF Unlock, Raw, Halt
      <4> QED BY <4>1, <4>2
    <3> QED BY <2>1, <3>1, <3>2 DEF CoreStep, PrintStep, EmergencyUnlock, EndIrq
  <2>2. ASSUME NEW d \in Core, Fault(d) PROVE A!(c)
    BY <2>2 DEF Fault
  <2>3. ASSUME BspStep PROVE A!(c)
    BY <2>3 DEF BspStep, Register, CallPanic, Sti, EndWake, Release, WakeAp, OffInv
  <2>4. ASSUME NEW a \in AP, ApStep(a) PROVE A!(c)
    BY <2>4 DEF ApStep, ApSetup, NoX2Apic, PassGate, ApSti, OffInv
  <2>5. ASSUME NEW v \in Vector, Interrupt(v) PROVE A!(c)
    BY <2>5 DEF Interrupt, IfInv
  <2> QED BY <2>1, <2>2, <2>3, <2>4, <2>5 DEF Next, A
<1> QED BY <1>1, Inductive, PTL DEF Spec, PanicIsFinal

-----------------------------------------------------------------------------
(* The lock excludes until a panic opens it, and each panic lets in one    *)
(* frame more.                                                             *)

\* The console changes only by the four operations on it.
LEMMA ConsoleEffects ==
    ASSUME Next
    PROVE  \/ UNCHANGED console
           \/ \E t \in Thread : Lock(t) \/ Emit(t) \/ Unlock(t)
           \/ \E c \in Core : EmergencyUnlock(c)
<1>1. ASSUME NEW c \in Core, CoreStep(c)
      PROVE  \/ UNCHANGED console
             \/ \E t \in Thread : Lock(t) \/ Emit(t) \/ Unlock(t)
             \/ EmergencyUnlock(c)
  BY <1>1 DEF CoreStep, PrintStep, Raw, Halt, EndIrq
<1>2. BspStep => UNCHANGED console
  BY DEF BspStep, Register, CallPanic, Sti, EndWake, Release, WakeAp
<1>3. \A a \in AP : ApStep(a) => UNCHANGED console
  BY DEF ApStep, ApSetup, NoX2Apic, PassGate, ApSti
<1>4. \A c \in Core : Fault(c) => UNCHANGED console
  BY DEF Fault
<1>5. \A v \in Vector : Interrupt(v) => UNCHANGED console
  BY DEF Interrupt
<1> QED BY <1>1, <1>2, <1>3, <1>4, <1>5 DEF Next

LEMMA HoldersFinite == IsFiniteSet(Holders)
<1>1. IsFiniteSet({"task"} \cup {"irq"})
  BY FS_Singleton, FS_AddElement
<1>2. IsFiniteSet(Frame)
  <2>1. IsFiniteSet(({"task"} \cup {"irq"}) \cup {"panic"})
    BY <1>1, FS_AddElement
  <2>2. Frame = ({"task"} \cup {"irq"}) \cup {"panic"}
    OBVIOUS
  <2> QED BY <2>1, <2>2
<1>3. IsFiniteSet(Core)
  OBVIOUS
<1>4. IsFiniteSet(Thread)
  BY <1>2, <1>3, FS_Product DEF Thread
<1> QED BY <1>4, FS_Subset DEF Holders

LEMMA DamageStep == IInv /\ DamageBounded /\ [Next]_vars => DamageBounded'
<1> SUFFICES ASSUME IInv, DamageBounded, [Next]_vars PROVE DamageBounded'
  OBVIOUS
<1>1. Cardinality(Holders) \in Nat /\ drops \in Nat /\ lock \in BOOLEAN
  BY HoldersFinite, FS_CardinalityType DEF IInv, TypeOK
<1>2. CASE UNCHANGED console
  BY <1>2 DEF DamageBounded, Holders
<1>3. ASSUME NEW t \in Thread, Lock(t) PROVE DamageBounded'
  <2>1. Holders' = Holders \cup {t} /\ t \notin Holders
    BY <1>3 DEF Lock, Holders, IInv, TypeOK
  <2>2. Cardinality(Holders') = Cardinality(Holders) + 1
    BY <2>1, HoldersFinite, FS_AddElement
  <2> QED BY <1>1, <1>3, <2>2 DEF Lock, DamageBounded
<1>4. ASSUME NEW t \in Thread, Emit(t) PROVE DamageBounded'
  BY <1>4 DEF Emit, DamageBounded, Holders
<1>5. ASSUME NEW t \in Thread, Unlock(t) PROVE DamageBounded'
  <2>1. Holders' = Holders \ {t} /\ t \in Holders
    BY <1>5 DEF Unlock, Holders, IInv, TypeOK
  <2>2. Cardinality(Holders') = Cardinality(Holders) - 1
    BY <2>1, HoldersFinite, FS_RemoveElement
  <2> QED BY <1>1, <1>5, <2>2 DEF Unlock, DamageBounded
<1>6. ASSUME NEW c \in Core, EmergencyUnlock(c) PROVE DamageBounded'
  <2>1. Holders' \subseteq Holders
    BY <1>6 DEF EmergencyUnlock, Holders
  <2>2. Cardinality(Holders') <= Cardinality(Holders) /\ Cardinality(Holders') \in Nat
    BY <2>1, HoldersFinite, FS_Subset, FS_CardinalityType
  <2> QED BY <1>1, <1>6, <2>2 DEF EmergencyUnlock, DamageBounded
<1> QED BY <1>2, <1>3, <1>4, <1>5, <1>6, ConsoleEffects DEF vars

\* However panics and late unlocks interleave, the frames in the critical
\* section are at most the lock's own holder and one for each forced unlock.
THEOREM DamageBoundedHolds == Spec => []DamageBounded
<1>1. Init => DamageBounded
  <2> SUFFICES ASSUME Init PROVE DamageBounded
    OBVIOUS
  <2>1. Holders = {} /\ drops = 0 /\ lock = FALSE
    BY DEF Init, Holders
  <2> QED BY <2>1, FS_EmptySet DEF DamageBounded
<1> QED BY <1>1, Inductive, DamageStep, PTL DEF Spec

LEMMA DamageExclusion == IInv /\ DamageBounded => MutualExclusion
<1> SUFFICES ASSUME IInv, DamageBounded, drops = 0, NEW t \in Holders, NEW u \in Holders
             PROVE  t = u
  BY DEF MutualExclusion
<1>1. Cardinality(Holders) <= 1 /\ Cardinality(Holders) \in Nat
  BY HoldersFinite, FS_CardinalityType DEF DamageBounded
<1>2. Cardinality(Holders) # 0
  BY HoldersFinite, FS_EmptySet
<1>3. Cardinality(Holders) = 1
  BY <1>1, <1>2
<1> QED BY <1>3, HoldersFinite, FS_Singleton

\* Until a panic forces the lock open, at most one frame of one core is in a
\* function that prints under the lock.
THEOREM MutualExclusionHolds == Spec => []MutualExclusion
BY Inductive, DamageBoundedHolds, DamageExclusion, PTL

-----------------------------------------------------------------------------
(* What the screen shows until a panic.                                    *)

\* Between messages the last character ends one; within a message it is the
\* one that precedes what the holder has left.
ScreenInv ==
    drops = 0 =>
      /\ Holders = {} => screen.left = 1
      /\ \A t \in Holders :
           \/ left[t] = MsgLen /\ screen.left = 1
           \/ left[t] < MsgLen /\ screen = [by |-> t, left |-> left[t] + 1]

LEMMA ScreenStep ==
    IInv /\ DamageBounded /\ ScreenInv /\ [Next]_vars => ScreenInv'
<1> SUFFICES ASSUME IInv, DamageBounded, ScreenInv, [Next]_vars, drops' = 0
             PROVE  ScreenInv'
  BY DEF ScreenInv
<1>0. MutualExclusion
  BY DamageExclusion
<1>1. CASE UNCHANGED console
  BY <1>1 DEF ScreenInv, Holders
<1>2. ASSUME NEW t \in Thread, Lock(t) PROVE ScreenInv'
  <2>1. Holders = {}
    <3>1. Cardinality(Holders) <= 0 /\ Cardinality(Holders) \in Nat
      BY <1>2, HoldersFinite, FS_CardinalityType DEF Lock, DamageBounded
    <3> QED BY <3>1, HoldersFinite, FS_EmptySet
  <2> QED BY <1>2, <2>1 DEF Lock, ScreenInv, Holders, IInv, TypeOK
<1>3. ASSUME NEW t \in Thread, Emit(t) PROVE ScreenInv'
  <2>1. drops = 0 /\ Holders = {t} /\ Holders' = Holders
    BY <1>0, <1>3 DEF Emit, MutualExclusion, Holders
  <2>2. left' = [left EXCEPT ![t] = left[t] - 1] /\ screen' = [by |-> t, left |-> left[t]]
    BY <1>3 DEF Emit
  <2>3. left[t] \in 1..MsgLen
    BY <1>3 DEF Emit, IInv, TypeOK
  <2>4. left'[t] = left[t] - 1
    BY <2>2 DEF IInv, TypeOK
  <2> QED BY <2>1, <2>2, <2>3, <2>4 DEF ScreenInv
<1>4. ASSUME NEW t \in Thread, Unlock(t) PROVE ScreenInv'
  <2>1. drops = 0 /\ Holders = {t} /\ Holders' = {}
    BY <1>0, <1>4 DEF Unlock, MutualExclusion, Holders, IInv, TypeOK
  <2>2. screen.left = 1
    BY <1>4, <2>1 DEF Unlock, ScreenInv, IInv, TypeOK
  <2> QED BY <1>4, <2>1, <2>2 DEF Unlock, ScreenInv
<1>5. ASSUME NEW c \in Core, EmergencyUnlock(c) PROVE ScreenInv'
  BY <1>5 DEF EmergencyUnlock, IInv, TypeOK
<1> QED BY <1>1, <1>2, <1>3, <1>4, <1>5, ConsoleEffects DEF vars

\* Until a panic, the characters of a message printed under the lock appear
\* in order, with nothing of another message between them.
THEOREM MessagesWholeHolds == Spec => MessagesWhole
<1> DEFINE A == screen' # screen /\ drops = 0 =>
                  \/ screen.left = 1 /\ screen'.left = MsgLen
                  \/ screen' = [screen EXCEPT !.left = @ - 1]
<1>1. Init => ScreenInv
  BY DEF Init, ScreenInv, Holders
<1>2. Spec => []ScreenInv
  BY <1>1, Inductive, DamageBoundedHolds, ScreenStep, PTL DEF Spec
<1>3. IInv /\ ScreenInv /\ [Next]_vars => [A]_vars
  <2> SUFFICES ASSUME IInv, ScreenInv, Next, screen' # screen, drops = 0
               PROVE  \/ screen.left = 1 /\ screen'.left = MsgLen
                      \/ screen' = [screen EXCEPT !.left = @ - 1]
    BY DEF A
  <2>1. PICK t \in Thread : Emit(t)
    BY ConsoleEffects DEF Lock, Unlock, EmergencyUnlock
  <2>2. t \in Holders /\ screen' = [by |-> t, left |-> left[t]] /\ left[t] \in 1..MsgLen
    BY <2>1 DEF Emit, Holders, IInv, TypeOK
  <2>3. CASE left[t] = MsgLen
    BY <2>2, <2>3 DEF ScreenInv
  <2>4. CASE left[t] # MsgLen
    BY <2>2, <2>4 DEF ScreenInv
  <2> QED BY <2>3, <2>4
<1> QED BY <1>2, <1>3, Inductive, PTL DEF Spec, MessagesWhole

-----------------------------------------------------------------------------
(* The gate.                                                               *)

Released == {"welcome", "finish", "idle"}
Past == {"apsti", "hello", "halt", "dead"}

\* The BSP opens the gate after its banner and the flag stays set; an AP that
\* is past the gate, or enables interrupts or prints, found it open.
GateInv ==
    /\ apsSafe => pc[Task(BSP)] \in Released
    /\ \A a \in AP :
          /\ pc[Irq(a)] = "none"
          /\ pc[Task(a)] \in {"off", "entry", "lapic", "gate"} \cup Past
          /\ pc[Task(a)] \in Past => apsSafe
          /\ iflag[a] \/ inside[Task(a)] => pc[Task(a)] \in Past

\* What an AP and a BSP that has opened the gate can print.
LEMMA FollowsGate ==
    ASSUME NEW l \in PrintLabel \cup RawLabel
    PROVE  /\ l \in Released => Follows[l] \in Released
           /\ l \in Past => Follows[l] \in Past
           /\ l \notin {"off", "entry", "lapic", "gate"}
BY DEF Follows, PrintLabel, RawLabel, BspPrints, Released, Past

\* A frame that goes on printing stays on its side of the gate.
LEMMA GatePrint ==
    ASSUME IInv, GateInv, NEW t \in Thread, PrintStep(t)
    PROVE  GateInv'
<1> USE DEF IInv, TypeOK, GateInv
<1>1. CASE Lock(t)
  BY <1>1 DEF Lock, PrintLabel, BspPrints
<1>2. CASE Emit(t)
  BY <1>2 DEF Emit
<1>3. CASE Unlock(t) \/ Raw(t)
  <2> DEFINE m == Follows[pc[t]]
  <2>1. /\ pc[t] \in Released => m \in Released
        /\ pc[t] \in Past => m \in Past
        /\ pc[t] \notin {"none", "off", "entry", "lapic", "gate"}
        /\ pc' = [pc EXCEPT ![t] = m]
    BY <1>3, FollowsGate DEF Unlock, Raw, PrintLabel, RawLabel, BspPrints
  <2>2. /\ \A u \in Thread : inside'[u] => inside[u]
        /\ UNCHANGED <<iflag, apsSafe>>
    BY <1>3 DEF Unlock, Raw
  <2> HIDE DEF m
  <2> QED BY <2>1, <2>2
<1> QED BY <1>1, <1>2, <1>3 DEF PrintStep

LEMMA GateStep == IInv /\ GateInv /\ [Next]_vars => GateInv'
<1> SUFFICES ASSUME IInv, GateInv, [Next]_vars PROVE GateInv'
  OBVIOUS
<1> USE DEF IInv, TypeOK, GateInv
<1>1. ASSUME NEW c \in Core, CoreStep(c) PROVE GateInv'
  <2>1. ASSUME NEW f \in Frame, PrintStep(<<c, f>>) PROVE GateInv'
    BY <2>1, GatePrint
  <2>2. ASSUME NEW f \in Frame, Halt(<<c, f>>) PROVE GateInv'
    BY <2>2 DEF Halt, Released, Past
  <2>3. CASE EmergencyUnlock(c)
    BY <2>3 DEF EmergencyUnlock
  <2>4. CASE EndIrq(c)
    BY <2>4 DEF EndIrq
  <2> QED BY <1>1, <2>1, <2>2, <2>3, <2>4 DEF CoreStep
<1>2. ASSUME NEW c \in Core, Fault(c) PROVE GateInv'
  BY <1>2 DEF Fault
<1>3. CASE BspStep
  <2>1. CASE Register \/ Sti \/ EndWake
    <3>1. ~apsSafe /\ ~apsSafe'
      BY <2>1 DEF Register, Sti, EndWake, Released
    <3>2. \A a \in AP : /\ pc'[Irq(a)] = pc[Irq(a)]
                       /\ pc'[Task(a)] = pc[Task(a)]
                       /\ iflag'[a] = iflag[a] /\ inside'[Task(a)] = inside[Task(a)]
      BY <2>1 DEF Register, Sti, EndWake
    <3> QED BY <3>1, <3>2
  <2>2. CASE CallPanic
    BY <2>2 DEF CallPanic
  <2>3. CASE Release
    BY <2>3 DEF Release, Released
  <2>4. ASSUME NEW a \in AP, WakeAp(a) PROVE GateInv'
    BY <2>4 DEF WakeAp, Past
  <2> QED BY <1>3, <2>1, <2>2, <2>3, <2>4 DEF BspStep
<1>4. ASSUME NEW a \in AP, ApStep(a) PROVE GateInv'
  <2>1. CASE ApSetup(a)
    BY <2>1 DEF ApSetup, Past
  <2>2. CASE PassGate(a)
    BY <2>2 DEF PassGate, Past
  <2>3. CASE ApSti(a)
    BY <2>3 DEF ApSti, Past
  <2>4. CASE NoX2Apic(a)
    BY <2>4 DEF NoX2Apic, Past
  <2> QED BY <1>4, <2>1, <2>2, <2>3, <2>4 DEF ApStep
<1>5. ASSUME NEW v \in Vector, Interrupt(v) PROVE GateInv'
  BY <1>5 DEF Interrupt
<1>6. CASE UNCHANGED vars
  BY <1>6 DEF vars
<1> QED BY <1>1, <1>2, <1>3, <1>4, <1>5, <1>6 DEF Next

\* No AP takes interrupts or prints before the BSP has drawn its banner and
\* opened the gate.
THEOREM GateHoldsAlways == Spec => []GateHolds
<1>1. Init => GateInv
  BY DEF Init, GateInv, Past
<1>2. GateInv => GateHolds
  BY DEF GateInv, GateHolds, Released
<1> QED BY <1>1, <1>2, Inductive, GateStep, PTL DEF Spec

=============================================================================

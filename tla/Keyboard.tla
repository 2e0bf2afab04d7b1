------------------------------ MODULE Keyboard ------------------------------
(***************************************************************************)
(* The path of a key press into GooseOS: the keyboard and its FIFO, the    *)
(* output buffer of the PS/2 controller, the I/O APIC's redirection        *)
(* entries, the BSP's local APIC, the IDT, IRQHandler and the keyboard     *)
(* driver; and the start-up code that brings all of them to life in some   *)
(* order while the user may already be typing.                             *)
(*                                                                         *)
(* The kernel is the build without the debug panic of init.cpp:62, which   *)
(* never enables interrupts.                                               *)
(***************************************************************************)
EXTENDS Integers, Sequences

CONSTANTS
    Letter,     \* keys other than shift
    LapicId,    \* the local APIC ID of the BSP
    Firmware,   \* the ACPI tables machines come with, each a sequence
    FifoSize,   \* scancodes the keyboard keeps
    MaxEvents   \* bound: keys pressed or released

LShift == "lshift"
RShift == "rshift"
Shift == {LShift, RShift}
Key == Letter \cup Shift

ASSUME SizeAssumption == FifoSize \in Nat \ {0} /\ MaxEvents \in Nat

\* A scancode: bit 7 (up) is set in a key's break code and in ACK, 0xFA.
Code == [key : Key \cup {"ack"}, up : BOOLEAN]
ACK == [key |-> "ack", up |-> TRUE]

\* An I/O APIC is named by its GlobalSystemInterruptBase.
Chip == {0, 24}
Pin == {1, 2}      \* of each chip's 24, those the kernel routes
TimerLine == <<0, 2>>
KeyboardLine == <<0, 1>>

Vector == 0..255
TIMER == 32
KEYBOARD == 33     \* KRNL_KEYBOARD_INTERRUPT

VARIABLES
    pc,          \* where the BSP's task is in its start-up
    gates,       \* the IDT: the kind of stub each vector enters
    ready,       \* IDT loaded, local APIC enabled, legacy PICs masked
    IOAPICData,  \* the I/O APIC ParseMADT found: a set of at most one
    entry,       \* the redirection entry of each pin of each chip
    registered,  \* vectors with an entry in ExternalInterruptHandlers
    iflag,       \* the interrupt flag of the BSP
    irr, isr,    \* vectors requested and in service at the BSP's local APIC
    irq,         \* where the interrupt handler is
    int_no,      \* the vector it handles
    scancode,    \* what it read from port 0x60
    shift,       \* the driver's shift
    held,        \* keys the user holds down
    scanning,    \* does the keyboard scan its keys?
    fifo,        \* the keyboard's own buffer
    full, byte,  \* the controller's output buffer: status bit 0 and port 0x60
    enabled,     \* is the first PS/2 port enabled?
    command,     \* a command written and not yet carried out
    events,      \* key events so far
    lost,        \* has the keyboard dropped a scancode?
    empties      \* handler reads of an empty output buffer

boot == <<pc, gates, ready, IOAPICData, registered>>
apic == <<entry, irr, isr>>
cpu == <<iflag, irq, int_no, scancode, shift, empties>>
user == <<held, events>>
device == <<scanning, fifo, full, byte, enabled, command, lost>>
vars == <<boot, apic, cpu, user, device>>

-----------------------------------------------------------------------------
(* The hardware.                                                           *)

Masked == [vector |-> 0, masked |-> TRUE, dest |-> 0]

Init ==
    /\ pc = "idt"
    /\ gates = [v \in Vector |-> "none"] /\ ready \in SUBSET {"lapic", "pic"}
    /\ IOAPICData = {} /\ entry = [p \in Chip \X Pin |-> Masked]
    /\ registered = {}
    /\ iflag = FALSE /\ irr = {} /\ isr = {}
    /\ irq = "none" /\ int_no = 0 /\ scancode = ACK /\ shift = FALSE
    /\ held = {} /\ events = 0
    /\ scanning \in BOOLEAN /\ enabled \in BOOLEAN
    /\ fifo = <<>> /\ full \in BOOLEAN /\ byte = ACK
    /\ command = "none" /\ lost = FALSE /\ empties = 0

\* An edge on a pin: an unmasked entry turns it into a request at the local
\* APIC it names; a masked one, or one that names another core, forgets it.
Edge(line) ==
    LET e == entry[line]
    IN  irr' = IF ~e.masked /\ e.dest = LapicId /\ "lapic" \in ready
                 THEN irr \cup {e.vector} ELSE irr

\* The keyboard queues a scancode; one that does not fit is dropped.
Queue(code) ==
    IF ~scanning THEN UNCHANGED <<fifo, lost>>
    ELSE IF Len(fifo) < FifoSize
      THEN fifo' = Append(fifo, code) /\ UNCHANGED lost
      ELSE lost' = TRUE /\ UNCHANGED fifo

KeyEvent(k) ==
    /\ events < MaxEvents
    /\ events' = events + 1
    /\ held' = IF k \in held THEN held \ {k} ELSE held \cup {k}
    /\ Queue([key |-> k, up |-> k \in held])
    /\ UNCHANGED <<boot, apic, cpu, scanning, full, byte, enabled, command>>

\* The controller takes the next scancode into its output buffer: the line
\* to the I/O APIC rises.
Fill ==
    /\ enabled /\ ~full /\ fifo # <<>>
    /\ byte' = Head(fifo)
    /\ fifo' = Tail(fifo)
    /\ full' = TRUE
    /\ Edge(KeyboardLine)
    /\ UNCHANGED <<boot, entry, isr, cpu, user, scanning, enabled, command,
                   lost>>

\* 0xAE to port 0x64, 0xF4 to port 0x60.  A keyboard told to start scanning
\* empties its buffer and acknowledges.
CarryOut ==
    /\ command # "none"
    /\ command' = "none"
    /\ \/ command = "enable" /\ enabled' = TRUE
          /\ UNCHANGED <<scanning, fifo, lost>>
       \/ command = "scan" /\ scanning' = TRUE /\ fifo' = <<ACK>>
          /\ lost' = (lost \/ fifo # <<>>)
          /\ UNCHANGED enabled
    /\ UNCHANGED <<boot, apic, cpu, user, full, byte>>

\* The timer ticks.
Tick ==
    /\ Edge(TimerLine)
    /\ UNCHANGED <<boot, entry, isr, cpu, user, device>>

-----------------------------------------------------------------------------
(* Arch::EarlyInit, Input::Keyboard::Init and the sti of Arch::LateInit.   *)

Task(l) == pc = l /\ irq = "none"
Goto(l) == pc' = l

\* Exceptions for which the processor pushes an error code, and those whose
\* stub expects one (isr_err_stub).
PushesErrorCode == {8, 10, 11, 12, 13, 14, 17, 21, 29, 30}
ErrStubs == {8} \cup 10..14 \cup {17, 21, 29, 30}
IsrStub(v) == IF v \in ErrStubs THEN "isr_err" ELSE "isr_no_err"

\* Variant: the loop over the IRQ stubs stops at vector 32.
InitIDT_OneIrq ==
    /\ Task("idt") /\ Goto("lidt")
    /\ gates' = [v \in Vector |->
                   IF v < 32 THEN IsrStub(v) ELSE IF v < 33 THEN "irq"
                   ELSE IF v < 255 THEN "stub" ELSE gates[v]]
    /\ UNCHANGED <<ready, IOAPICData, registered, apic, cpu, user, device>>

\* The three loops: exceptions, IRQs, stubs.  The last one stops before 255.
InitIDT ==
    /\ Task("idt") /\ Goto("lidt")
    /\ gates' = [v \in Vector |->
                   IF v < 32 THEN IsrStub(v) ELSE IF v < 34 THEN "irq"
                   ELSE IF v < 255 THEN "stub" ELSE gates[v]]
    /\ UNCHANGED <<ready, IOAPICData, registered, apic, cpu, user, device>>

LoadIDT ==
    /\ Task("lidt") /\ Goto("lapic")
    /\ ready' = ready \cup {"idt"}
    /\ UNCHANGED <<gates, IOAPICData, registered, apic, cpu, user, device>>

\* A core that has no x2APIC panics, and its start-up ends here.
NoX2Apic ==
    /\ Task("lapic") /\ Goto("panicked")
    /\ UNCHANGED <<gates, ready, IOAPICData, registered, apic, cpu, user,
                   device>>

InitLAPIC ==
    /\ Task("lapic") /\ Goto("pic")
    /\ ready' = ready \cup {"lapic"}
    /\ UNCHANGED <<gates, IOAPICData, registered, apic, cpu, user, device>>

MaskPICs ==
    /\ Task("pic") /\ Goto("madt")
    /\ ready' = ready \cup {"pic"}
    /\ UNCHANGED <<gates, IOAPICData, registered, apic, cpu, user, device>>

\* The first table with the signature.
GetTable(tables, sig) ==
    tables[CHOOSE i \in DOMAIN tables :
             /\ tables[i].sig = sig
             /\ \A j \in 1..(i - 1) : tables[j].sig # sig]

\* Variant: any I/O APIC is taken, the last one wins.
IOAPICs_Any(entries) ==
    LET hits == {i \in DOMAIN entries : entries[i].type = 1}
    IN  {entries[i].gsi : i \in {h \in hits : \A j \in hits : j <= h}}

\* Every machine has an MADT, and it lists an I/O APIC whose base is 0.
ASSUME FirmwareAssumption ==
    \A xsdt \in Firmware :
        /\ \E i \in DOMAIN xsdt :
              xsdt[i].sig = "APIC" /\ \A j \in 1..(i - 1) : xsdt[j].sig # "APIC"
        /\ \A i \in DOMAIN xsdt :
              LET entries == xsdt[i].entries
                  hits == {j \in DOMAIN entries : entries[j].type = 1 /\ entries[j].gsi = 0}
              IN  xsdt[i].sig = "APIC" => \E h \in hits : \A j \in hits : j <= h

\* The walk of ParseMADT: the last I/O APIC whose base is 0.
IOAPICs(entries) ==
    LET hits == {i \in DOMAIN entries :
                   entries[i].type = 1 /\ entries[i].gsi = 0}
    IN  {entries[i].gsi : i \in {h \in hits : \A j \in hits : j <= h}}

ParseMADT ==
    /\ Task("madt") /\ Goto("low32")
    /\ \E xsdt \in Firmware :
          IOAPICData' = IOAPICs(GetTable(xsdt, "APIC").entries)
    /\ UNCHANGED <<gates, ready, registered, apic, cpu, user, device>>

\* A write through IOREGSEL and IOWIN: the low word of a pin's entry is a
\* vector (fixed, edge-triggered, unmasked), the high word the destination; a
\* register that is neither changes no entry.
IOAPICWrite(reg, val) ==
    [p \in Chip \X Pin |->
        IF p[1] \in IOAPICData /\ reg = 16 + 2 * p[2]
          THEN [entry[p] EXCEPT !.vector = val, !.masked = FALSE]
        ELSE IF p[1] \in IOAPICData /\ reg = 16 + 2 * p[2] + 1
          THEN [entry[p] EXCEPT !.dest = val]
        ELSE entry[p]]

WriteEntry(l, next, reg, val) ==
    /\ Task(l) /\ Goto(next)
    /\ entry' = IOAPICWrite(reg, val)
    /\ UNCHANGED <<gates, ready, IOAPICData, registered, irr, isr, cpu, user,
                   device>>

\* Low word before high word: in between, the pin is open to the core 0.
SetRedirectEntry(l, mid, next, pin, v) ==
    \/ WriteEntry(l, mid, 16 + 2 * pin, v)
    \/ WriteEntry(mid, next, 16 + 2 * pin + 1, LapicId)

\* Variant: the pin of the timer is sent to the keyboard's vector.
SetRedirects_SameVector ==
    \/ SetRedirectEntry("low32", "high32", "low33", 2, KEYBOARD)
    \/ SetRedirectEntry("low33", "high33", "register", 1, KEYBOARD)

SetRedirects ==
    \/ SetRedirectEntry("low32", "high32", "low33", 2, TIMER)
    \/ SetRedirectEntry("low33", "high33", "register", 1, KEYBOARD)

RegisterInterrupt ==
    /\ Task("register") /\ Goto("enable")
    /\ registered' = registered \cup {KEYBOARD}
    /\ UNCHANGED <<gates, ready, IOAPICData, apic, cpu, user, device>>

\* Wait until the controller has taken the last command, then write the next.
Command(l, next, cmd) ==
    /\ Task(l) /\ Goto(next)
    /\ command = "none"
    /\ command' = cmd
    /\ UNCHANGED <<gates, ready, IOAPICData, registered, apic, cpu, user,
                   scanning, fifo, full, byte, enabled, lost>>

StartKeyboard ==
    \/ Command("enable", "scan", "enable")
    \/ Command("scan", "drain", "scan")

\* Variant: what is already in the buffer is left there.
DrainTest_Skipped ==
    /\ Task("drain") /\ Goto("sti")
    /\ UNCHANGED <<gates, ready, IOAPICData, registered, apic, cpu, user,
                   device>>

\* The status is read, then, in a step of its own, the byte.
DrainTest ==
    /\ Task("drain") /\ Goto(IF full THEN "drainread" ELSE "sti")
    /\ UNCHANGED <<gates, ready, IOAPICData, registered, apic, cpu, user,
                   device>>

DrainRead ==
    /\ Task("drainread") /\ Goto("drain")
    /\ full' = FALSE
    /\ UNCHANGED <<gates, ready, IOAPICData, registered, apic, cpu, user,
                   scanning, fifo, byte, enabled, command, lost>>

Sti ==
    /\ Task("sti") /\ Goto("run")
    /\ iflag' = TRUE
    /\ UNCHANGED <<gates, ready, IOAPICData, registered, apic, irq, int_no,
                   scancode, shift, empties, user, device>>

-----------------------------------------------------------------------------
(* An interrupt.                                                           *)

\* The local APIC delivers its highest request, none while one of its class
\* is in service.  The gate leads to an IRQ stub.
Deliver ==
    \E v \in irr :
        /\ iflag /\ isr = {}
        /\ \A w \in irr : w <= v
        /\ "idt" \in ready /\ gates[v] = "irq"
        /\ irr' = irr \ {v} /\ isr' = {v}
        /\ iflag' = FALSE
        /\ irq' = "entry" /\ int_no' = v
        /\ UNCHANGED <<boot, entry, scancode, shift, empties, user, device>>

\* IRQHandler: to the registered handler, or past it to the end of interrupt.
Dispatch ==
    /\ irq = "entry"
    /\ irq' = IF int_no \in registered THEN "read" ELSE "eoi"
    /\ UNCHANGED <<boot, apic, iflag, int_no, scancode, shift, empties, user,
                   device>>

\* inb(0x60), with no look at the status: an empty buffer gives its last
\* byte again.
ReadByte ==
    /\ irq = "read"
    /\ irq' = "handle"
    /\ scancode' = byte
    /\ full' = FALSE
    /\ empties' = IF full THEN empties ELSE empties + 1
    /\ UNCHANGED <<boot, apic, iflag, int_no, shift, user, scanning, fifo,
                   byte, enabled, command, lost>>

\* Variant: only the left key's break code ends a shift.
ShiftAfter_LeftOnly(s, code) ==
    IF code = [key |-> LShift, up |-> TRUE] THEN FALSE
    ELSE IF code.key \in Shift /\ ~code.up THEN TRUE ELSE s

\* One flag for both keys: any shift's make sets it, any break clears it.
\* Other codes with bit 7 set are ignored, letters are echoed.
ShiftAfter(s, code) ==
    IF code.key \in Shift THEN ~code.up ELSE s

HandleByte ==
    /\ irq = "handle"
    /\ irq' = "eoi"
    /\ shift' = ShiftAfter(shift, scancode)
    /\ UNCHANGED <<boot, apic, iflag, int_no, scancode, empties, user, device>>

\* The register 0x40 is past the last redirection entry.
SendIOAPICEOI == IOAPICWrite(64, KEYBOARD)

\* Variant: only the unregistered path sends the end of interrupt.
SendEOI_Skipped ==
    /\ irq = "eoi"
    /\ irq' = "iret"
    /\ isr' = IF int_no \in registered THEN isr ELSE {}
    /\ entry' = SendIOAPICEOI
    /\ UNCHANGED <<boot, irr, iflag, int_no, scancode, shift, empties, user,
                   device>>

\* The local APIC's end of interrupt, then the I/O APIC's.
SendEOI ==
    /\ irq = "eoi"
    /\ irq' = "iret"
    /\ isr' = {}
    /\ entry' = SendIOAPICEOI
    /\ UNCHANGED <<boot, irr, iflag, int_no, scancode, shift, empties, user,
                   device>>

Iret ==
    /\ irq = "iret"
    /\ irq' = "none"
    /\ iflag' = TRUE
    /\ UNCHANGED <<boot, apic, int_no, scancode, shift, empties, user, device>>

-----------------------------------------------------------------------------
BootStep ==
    \/ InitIDT \/ LoadIDT \/ NoX2Apic \/ InitLAPIC \/ MaskPICs \/ ParseMADT
    \/ SetRedirects \/ RegisterInterrupt \/ StartKeyboard
    \/ DrainTest \/ DrainRead \/ Sti
HandlerStep == Dispatch \/ ReadByte \/ HandleByte \/ SendEOI \/ Iret

Next ==
    \/ BootStep \/ HandlerStep \/ Deliver
    \/ Fill \/ CarryOut \/ Tick
    \/ \E k \in Key : KeyEvent(k)

\* The processor executes, its local APIC delivers, the controller and the
\* keyboard do what they are told.  Nobody has to type, no timer has to tick.
Fairness ==
    /\ WF_vars(BootStep) /\ WF_vars(HandlerStep) /\ WF_vars(Deliver)
    /\ WF_vars(Fill) /\ WF_vars(CarryOut)

Spec == Init /\ [][Next]_vars
FairSpec == Spec /\ Fairness

-----------------------------------------------------------------------------
Started == {"sti", "run"}

TypeOK ==
    /\ pc \in {"idt", "lidt", "lapic", "pic", "madt", "low32", "high32", "low33",
               "high33", "register", "enable", "scan", "drain", "drainread",
               "panicked"}
              \cup Started
    /\ gates \in [Vector -> {"none", "isr_err", "isr_no_err", "irq", "stub"}]
    /\ ready \subseteq {"idt", "lapic", "pic"}
    /\ {iflag, shift, scanning, full, enabled, lost} \subseteq BOOLEAN
    /\ IOAPICData \subseteq {0}
    /\ entry \in [Chip \X Pin ->
                    [vector : {0, TIMER, KEYBOARD}, masked : BOOLEAN,
                     dest : {0, LapicId}]]
    /\ registered \subseteq {KEYBOARD}
    /\ irr \subseteq {TIMER, KEYBOARD} /\ isr \subseteq {TIMER, KEYBOARD}
    /\ irq \in {"none", "entry", "read", "handle", "eoi", "iret"}
    /\ int_no \in {0, TIMER, KEYBOARD}
    /\ scancode \in Code /\ byte \in Code
    /\ held \subseteq Key
    /\ fifo \in Seq(Code) /\ Len(fifo) <= FifoSize
    /\ command \in {"none", "enable", "scan"}
    /\ events \in Nat /\ empties \in Nat

\* A handler that will read the output buffer is running or due.
Tokens ==
    (IF KEYBOARD \in irr THEN 1 ELSE 0)
    + (IF int_no = KEYBOARD /\ irq \in {"entry", "read"} THEN 1 ELSE 0)

\* The keyboard never goes dead: once the driver has drained the buffer, a
\* full buffer has an interrupt due.  Its line is edge-triggered, so a buffer
\* that filled while the pin was masked or the local APIC off would never
\* raise another one (keyboard.cpp:90).
NoLostEdge ==
    pc \in Started /\ full => Tokens > 0

\* The handler does not look at the status before it reads (keyboard.cpp:53).
\* Whatever the drain loop took away, and however refills and interrupts
\* interleave, it reads an empty buffer, and so handles a byte twice, at most
\* once in the system's life.
ReadsBacked == empties <= 1

\* When everything typed has been handled, the driver's shift is set only if
\* a shift key is down, unless the keyboard dropped a scancode itself: no
\* drained, repeated or early code leaves it stuck (keyboard.cpp:55-57).
Quiet ==
    pc = "run" /\ irq = "none" /\ Tokens = 0 /\ fifo = <<>> /\ ~full
    /\ command = "none"
ShiftSettles ==
    Quiet /\ ~lost /\ shift => held \cap Shift # {}

\* Interrupts are never enabled before every vector the I/O APIC may raise
\* leads to an IRQ stub, the keyboard's to its driver, and the PICs, whose
\* vectors are those of exceptions, are silent; by then each exception's stub
\* builds the frame its handler expects (int.asm:136).
VectorsHandled ==
    iflag =>
        /\ {"idt", "pic"} \subseteq ready /\ KEYBOARD \in registered
        /\ \A p \in Chip \X Pin :
              ~entry[p].masked => gates[entry[p].vector] = "irq"
        /\ \A v \in 0..31 :
              gates[v] = IF v \in PushesErrorCode THEN "isr_err" ELSE "isr_no_err"

\* The start-up ends, with the panic of a core without x2APIC or with the
\* system running, and from then on every byte is taken out of the buffer: the
\* handler answers for ever, whatever the timer does (keyboard.cpp:52, int.cpp:99).
Responsive ==
    <>(pc \in {"run", "panicked"}) /\ [](pc = "run" /\ full ~> ~full)
=============================================================================

--------------------------- MODULE KeyboardProofs ---------------------------
(***************************************************************************)
(* The keyboard path, for any firmware that has an I/O APIC at base 0, any *)
(* local APIC ID, any letters and any FIFO.                                *)
(***************************************************************************)
EXTENDS Keyboard, TLAPS

\* Where the start-up is, by what it has done.
Draining == {"drain", "drainread"} \cup Started
Registered == {"enable", "scan"} \cup Draining
Routed == {"register"} \cup Registered
Parsed == {"low32", "high32", "low33", "high33"} \cup Routed

GatesBuilt ==
    /\ \A v \in 0..31 : gates[v] = IsrStub(v)
    /\ gates[TIMER] = "irq" /\ gates[KEYBOARD] = "irq"

OpenEntry(e) == e.vector = KEYBOARD /\ ~e.masked

\* What each step of the start-up leaves to the later ones.
Setup ==
    /\ pc # "idt" => GatesBuilt
    /\ pc \notin {"idt", "lidt"} => "idt" \in ready
    /\ pc \notin {"idt", "lidt", "lapic", "panicked"} => "lapic" \in ready
    /\ pc \in {"madt"} \cup Parsed => "pic" \in ready
    /\ pc \in Parsed => IOAPICData = {0}
    /\ pc = "high33" => OpenEntry(entry[KeyboardLine])
    /\ pc \in Routed =>
          OpenEntry(entry[KeyboardLine]) /\ entry[KeyboardLine].dest = LapicId
    /\ pc \in Registered => KEYBOARD \in registered
    /\ \A p \in Chip \X Pin : ~entry[p].masked => entry[p].vector \in {TIMER, KEYBOARD}
    /\ ~entry[TimerLine].masked => entry[TimerLine].vector = TIMER

\* Interrupts are enabled, and handled, only once the start-up is over.
Handling ==
    /\ iflag => pc = "run" /\ irq = "none"
    /\ irq # "none" => pc = "run" /\ int_no \in {TIMER, KEYBOARD}
    /\ irq \in {"read", "handle"} => int_no = KEYBOARD

\* Every fill brings one read; one fill may have been drained after its
\* interrupt was requested.
Backing ==
    /\ empties > 0 => pc = "run"
    /\ empties + Tokens <= (IF full THEN 1 ELSE 0) + 1

IInv == TypeOK /\ Setup /\ Handling /\ NoLostEdge /\ Backing

-----------------------------------------------------------------------------
LEMMA CodeFacts ==
    /\ ACK \in Code
    /\ \A k \in Key, b \in BOOLEAN : [key |-> k, up |-> b] \in Code
    /\ KeyboardLine \in Chip \X Pin /\ TimerLine \in Chip \X Pin
  BY DEF Code, ACK, KeyboardLine, TimerLine, Chip, Pin

\* What a read and a fill do to the sum of Backing.
LEMMA CountRead ==
    ASSUME NEW e \in Nat, NEW t \in Nat
    PROVE  /\ e + (t + 1) <= 1 + 1 => e + t <= 1
           /\ e + (t + 1) <= 0 + 1 => (e + 1) + t <= 1
  OBVIOUS

LEMMA CountFill ==
    ASSUME NEW e \in Nat, NEW t \in Nat, NEW u \in Nat, e + t <= 1, u <= t + 1
    PROVE  e + u <= 2
  OBVIOUS

LEMMA InitIInv == Init => IInv
<1> SUFFICES ASSUME Init PROVE IInv
  OBVIOUS
<1>1. TypeOK
  <2>1. entry \in [Chip \X Pin -> [vector : {0, TIMER, KEYBOARD}, masked : BOOLEAN,
                                   dest : {0, LapicId}]]
    BY DEF Init, Masked
  <2>2. fifo \in Seq(Code) /\ Len(fifo) <= FifoSize
    BY SizeAssumption DEF Init
  <2> QED
    BY <2>1, <2>2, CodeFacts DEF Init, TypeOK, Started
<1>2. Setup
  BY CodeFacts DEF Init, Setup, Masked, Parsed, Routed, Registered, Draining, Started
<1>3. Handling /\ NoLostEdge /\ Backing
  BY DEF Init, Handling, NoLostEdge, Backing, Tokens, Started
<1> QED
  BY <1>1, <1>2, <1>3 DEF IInv

-----------------------------------------------------------------------------
(* The start-up.                                                           *)

Entry == [vector : {0, TIMER, KEYBOARD}, masked : BOOLEAN, dest : {0, LapicId}]

\* A write of a register of the table keeps the entries' type; one of
\* register 0x40 changes nothing.
LEMMA WriteFacts ==
    ASSUME TypeOK, NEW reg \in Nat, NEW val,
           \/ reg \in {18, 20} /\ val \in {TIMER, KEYBOARD}
           \/ reg \in {19, 21} /\ val = LapicId
           \/ reg = 64
    PROVE  /\ IOAPICWrite(reg, val) \in [Chip \X Pin -> Entry]
           /\ reg = 64 => IOAPICWrite(reg, val) = entry
<1>1. entry \in [Chip \X Pin -> Entry]
  BY DEF TypeOK, Entry
<1>2. ASSUME NEW p \in Chip \X Pin
      PROVE  /\ IOAPICWrite(reg, val)[p] \in Entry
             /\ reg = 64 => IOAPICWrite(reg, val)[p] = entry[p]
  <2>1. p[2] \in {1, 2} /\ entry[p] \in Entry
    BY <1>1 DEF Pin
  <2>2. CASE reg \in {18, 20} /\ val \in {TIMER, KEYBOARD}
    <3>1. reg # 16 + 2 * p[2] + 1
      BY <2>1, <2>2
    <3>2. [entry[p] EXCEPT !.vector = val, !.masked = FALSE] \in Entry
      BY <2>1, <2>2 DEF Entry
    <3> QED
      BY <2>1, <2>2, <3>1, <3>2 DEF IOAPICWrite
  <2>3. CASE reg \in {19, 21} /\ val = LapicId
    <3>1. reg # 16 + 2 * p[2]
      BY <2>1, <2>3
    <3>2. [entry[p] EXCEPT !.dest = val] \in Entry
      BY <2>1, <2>3 DEF Entry
    <3> QED
      BY <2>1, <2>3, <3>1, <3>2 DEF IOAPICWrite
  <2>4. CASE reg = 64
    BY <2>1, <2>4 DEF IOAPICWrite
  <2> QED
    BY <2>2, <2>3, <2>4
<1>3. IOAPICWrite(reg, val) = [p \in Chip \X Pin |-> IOAPICWrite(reg, val)[p]]
  BY DEF IOAPICWrite
<1> QED
  BY <1>1, <1>2, <1>3

Opened(e, v) == [e EXCEPT !.vector = v, !.masked = FALSE]

\* What a write does to an entry: of its low word, of its high word, of
\* another register.
LEMMA WriteLow ==
    ASSUME NEW p \in Chip \X Pin, NEW reg, NEW val,
           p[1] \in IOAPICData, reg = 16 + 2 * p[2]
    PROVE  IOAPICWrite(reg, val)[p] = Opened(entry[p], val)
  BY DEF IOAPICWrite, Opened

LEMMA WriteHigh ==
    ASSUME NEW p \in Chip \X Pin, NEW reg, NEW val,
           p[1] \in IOAPICData, reg # 16 + 2 * p[2], reg = 16 + 2 * p[2] + 1
    PROVE  IOAPICWrite(reg, val)[p] = [entry[p] EXCEPT !.dest = val]
  BY DEF IOAPICWrite

LEMMA WriteOther ==
    ASSUME NEW p \in Chip \X Pin, NEW reg, NEW val,
           ~(p[1] \in IOAPICData /\ reg = 16 + 2 * p[2]),
           ~(p[1] \in IOAPICData /\ reg = 16 + 2 * p[2] + 1)
    PROVE  IOAPICWrite(reg, val)[p] = entry[p]
  BY DEF IOAPICWrite

\* The steps that touch neither the entries nor the output buffer.
PlainStep ==
    \/ InitIDT \/ LoadIDT \/ NoX2Apic \/ InitLAPIC \/ MaskPICs \/ RegisterInterrupt
    \/ StartKeyboard \/ DrainTest \/ Sti

LEMMA PlainIInv == IInv /\ PlainStep => IInv'
<1> SUFFICES ASSUME IInv, PlainStep PROVE IInv'
  OBVIOUS
<1> USE DEF PlainStep, InitIDT, LoadIDT, NoX2Apic, InitLAPIC, MaskPICs, RegisterInterrupt, StartKeyboard,
            Command, DrainTest, Sti, Task, Goto
<1>1. irq = "none" /\ irq' = "none" /\ ~iflag
  BY DEF IInv, Handling, cpu
<1>2. UNCHANGED <<IOAPICData, entry, irr, isr, int_no, scancode, shift, empties, held, events,
                  scanning, fifo, full, byte, enabled, lost>>
  BY DEF apic, cpu, user, device
<1>3. TypeOK'
  <2>1. InitIDT => gates' \in [Vector -> {"none", "isr_err", "isr_no_err", "irq", "stub"}]
    BY DEF IInv, TypeOK, IsrStub, Vector
  <2>2. ~InitIDT => gates' = gates
    OBVIOUS
  <2>3. ready' \subseteq {"idt", "lapic", "pic"} /\ registered' \subseteq {KEYBOARD}
        /\ command' \in {"none", "enable", "scan"} /\ iflag' \in BOOLEAN
    BY DEF IInv, TypeOK, apic, cpu, user, device
  <2>4. pc' \in {"lidt", "lapic", "pic", "madt", "enable", "scan", "drain", "drainread", "sti",
                 "run", "panicked"}
    OBVIOUS
  <2> QED
    BY <1>1, <1>2, <2>1, <2>2, <2>3, <2>4 DEF IInv, TypeOK, Started
<1>4. Setup'
  <2>1. CASE InitIDT
    BY <2>1, <1>2 DEF IInv, TypeOK, Setup, GatesBuilt, Parsed, Routed, Registered, Draining,
                      Started, Vector, TIMER, KEYBOARD, OpenEntry
  <2>2. CASE ~InitIDT
    BY <2>2, <1>2 DEF IInv, Setup, GatesBuilt, Parsed, Routed, Registered, Draining, Started,
                      OpenEntry
  <2> QED
    BY <2>1, <2>2
<1>5. Handling'
  BY <1>1 DEF Handling, cpu
<1>6. NoLostEdge' /\ Backing'
  BY <1>1, <1>2 DEF IInv, NoLostEdge, Backing, Tokens, Started
<1> QED
  BY <1>3, <1>4, <1>5, <1>6 DEF IInv

\* ParseMADT finds the I/O APIC at base 0.
LEMMA FirmwareFound ==
    ASSUME NEW xsdt \in Firmware
    PROVE  IOAPICs(GetTable(xsdt, "APIC").entries) = {0}
<1> DEFINE first(i) == i \in DOMAIN xsdt /\ xsdt[i].sig = "APIC"
                       /\ \A j \in 1..(i - 1) : xsdt[j].sig # "APIC"
<1>1. PICK i : first(i) /\ GetTable(xsdt, "APIC") = xsdt[i]
  <2>1. \E i : first(i)
    BY FirmwareAssumption
  <2>2. first(CHOOSE i : first(i))
    BY <2>1
  <2> QED
    BY <2>2 DEF GetTable
<1> DEFINE entries == xsdt[i].entries
           hits == {j \in DOMAIN entries : entries[j].type = 1 /\ entries[j].gsi = 0}
<1>2. \E h \in hits : \A j \in hits : j <= h
  BY <1>1, FirmwareAssumption
<1> QED
  BY <1>1, <1>2 DEF IOAPICs

LEMMA ParseIInv == IInv /\ ParseMADT => IInv'
<1> SUFFICES ASSUME IInv, ParseMADT PROVE IInv'
  OBVIOUS
<1>1. IOAPICData' = {0} /\ pc = "madt" /\ pc' = "low32" /\ irq = "none"
  BY FirmwareFound DEF ParseMADT, Task, Goto
<1>2. UNCHANGED <<gates, ready, registered, entry, irr, isr, iflag, irq, int_no, scancode, shift,
                  empties, held, events, scanning, fifo, full, byte, enabled, command, lost>>
  BY DEF ParseMADT, apic, cpu, user, device
<1>3. TypeOK'
  BY <1>1, <1>2 DEF IInv, TypeOK
<1>4. Setup'
  BY <1>1, <1>2 DEF IInv, Setup, GatesBuilt, Parsed, Routed, Registered, Draining, Started
<1>5. Handling' /\ NoLostEdge' /\ Backing'
  BY <1>1, <1>2 DEF IInv, Handling, NoLostEdge, Backing, Tokens, Started
<1> QED
  BY <1>3, <1>4, <1>5 DEF IInv

LEMMA RedirectIInv == IInv /\ SetRedirects => IInv'
<1> SUFFICES ASSUME IInv, SetRedirects PROVE IInv'
  OBVIOUS
<1> DEFINE step(l, next, reg, val) ==
             pc = l /\ pc' = next /\ entry' = IOAPICWrite(reg, val)
<1>1. \/ step("low32", "high32", 20, TIMER)
      \/ step("high32", "low33", 21, LapicId)
      \/ step("low33", "high33", 18, KEYBOARD)
      \/ step("high33", "register", 19, LapicId)
  BY DEF SetRedirects, SetRedirectEntry, WriteEntry, Task, Goto
<1>2. UNCHANGED <<gates, ready, IOAPICData, registered, irr, isr, iflag, irq, int_no, scancode,
                  shift, empties, held, events, scanning, fifo, full, byte, enabled, command,
                  lost>>
  BY DEF SetRedirects, SetRedirectEntry, WriteEntry, cpu, user, device
<1>3. irq = "none" /\ IOAPICData = {0}
  BY <1>1 DEF IInv, Handling, Setup, Parsed
<1>4. entry \in [Chip \X Pin -> Entry] /\ entry' \in [Chip \X Pin -> Entry]
  <2>1. TypeOK
    BY DEF IInv
  <2>2. entry \in [Chip \X Pin -> Entry]
    BY <2>1 DEF TypeOK, Entry
  <2> QED
    BY <1>1, <2>1, <2>2, WriteFacts
<1>5. TypeOK'
  BY <1>1, <1>2, <1>4 DEF IInv, TypeOK, Entry
<1>6. KeyboardLine \in Chip \X Pin /\ KeyboardLine[1] = 0 /\ KeyboardLine[2] = 1
  BY DEF KeyboardLine, Chip, Pin
<1>7. /\ pc' = "high33" => OpenEntry(entry'[KeyboardLine])
      /\ pc' = "register" =>
            OpenEntry(entry'[KeyboardLine]) /\ entry'[KeyboardLine].dest = LapicId
  <2>1. entry[KeyboardLine] \in Entry
    BY <1>4, <1>6
  <2>2. CASE step("low33", "high33", 18, KEYBOARD)
    <3>1. entry'[KeyboardLine] = Opened(entry[KeyboardLine], KEYBOARD)
      <4>1. 18 = 16 + 2 * KeyboardLine[2] /\ KeyboardLine[1] \in IOAPICData
        BY <1>3, <1>6
      <4>2. IOAPICWrite(18, KEYBOARD)[KeyboardLine]
              = Opened(entry[KeyboardLine], KEYBOARD)
        BY <1>6, <4>1, WriteLow
      <4>3. entry' = IOAPICWrite(18, KEYBOARD)
        BY <2>2
      <4> QED
        BY <4>2, <4>3
    <3> QED
      BY <2>1, <2>2, <3>1 DEF OpenEntry, Opened, Entry
  <2>3. CASE step("high33", "register", 19, LapicId)
    <3>1. entry'[KeyboardLine] = [entry[KeyboardLine] EXCEPT !.dest = LapicId]
      <4>1. 19 = 16 + 2 * KeyboardLine[2] + 1 /\ 19 # 16 + 2 * KeyboardLine[2]
            /\ KeyboardLine[1] \in IOAPICData
        BY <1>3, <1>6
      <4>2. IOAPICWrite(19, LapicId)[KeyboardLine] = [entry[KeyboardLine] EXCEPT !.dest = LapicId]
        BY <1>6, <4>1, WriteHigh
      <4>3. entry' = IOAPICWrite(19, LapicId)
        BY <2>3
      <4> QED
        BY <4>2, <4>3
    <3>2. OpenEntry(entry[KeyboardLine])
      BY <2>3 DEF IInv, Setup
    <3> QED
      BY <2>1, <2>3, <3>1, <3>2 DEF OpenEntry, Entry
  <2> QED
    BY <1>1, <2>2, <2>3
<1>8. ASSUME NEW p \in Chip \X Pin, ~entry'[p].masked
      PROVE  entry'[p].vector \in {TIMER, KEYBOARD}
  <2>1. p[2] \in {1, 2} /\ entry[p] \in Entry
        /\ (~entry[p].masked => entry[p].vector \in {TIMER, KEYBOARD})
    BY <1>4 DEF Pin, IInv, Setup
  <2>2. CASE entry'[p] = entry[p]
    BY <1>8, <2>1, <2>2
  <2>3. CASE entry'[p] = Opened(entry[p], TIMER)
    BY <2>1, <2>3 DEF Opened, Entry
  <2>4. CASE entry'[p] = Opened(entry[p], KEYBOARD)
    BY <2>1, <2>4 DEF Opened, Entry
  <2>5. CASE entry'[p] = [entry[p] EXCEPT !.dest = LapicId]
    BY <1>8, <2>1, <2>5 DEF Entry
  <2>6. ASSUME NEW reg \in {18, 20}, NEW val \in {TIMER, KEYBOARD},
               entry' = IOAPICWrite(reg, val)
        PROVE  \/ entry'[p] = entry[p]
               \/ entry'[p] = Opened(entry[p], val)
    <3>1. reg # 16 + 2 * p[2] + 1
      BY <2>1
    <3>2. CASE p[1] \in IOAPICData /\ reg = 16 + 2 * p[2]
      <4>1. IOAPICWrite(reg, val)[p] = Opened(entry[p], val)
        BY <3>2, WriteLow
      <4> QED
        BY <2>6, <4>1
    <3>3. CASE ~(p[1] \in IOAPICData /\ reg = 16 + 2 * p[2])
      <4>1. IOAPICWrite(reg, val)[p] = entry[p]
        BY <3>1, <3>3, WriteOther
      <4> QED
        BY <2>6, <4>1
    <3> QED
      BY <3>2, <3>3
  <2>7. ASSUME NEW reg \in {19, 21}, entry' = IOAPICWrite(reg, LapicId)
        PROVE  \/ entry'[p] = entry[p]
               \/ entry'[p] = [entry[p] EXCEPT !.dest = LapicId]
    <3>1. reg # 16 + 2 * p[2]
      BY <2>1
    <3> QED
      BY <2>7, <3>1, WriteHigh, WriteOther
  <2> QED
    BY <1>1, <2>2, <2>3, <2>4, <2>5, <2>6, <2>7
<1>9. ~entry'[TimerLine].masked => entry'[TimerLine].vector = TIMER
  <2>1. TimerLine \in Chip \X Pin /\ TimerLine[1] = 0 /\ TimerLine[2] = 2
        /\ entry[TimerLine] \in Entry
    BY <1>4 DEF TimerLine, Chip, Pin
  <2>2. CASE step("low32", "high32", 20, TIMER)
    <3>1. 20 = 16 + 2 * TimerLine[2] /\ TimerLine[1] \in IOAPICData
      BY <2>1, <1>3
    <3>2. IOAPICWrite(20, TIMER)[TimerLine] = Opened(entry[TimerLine], TIMER)
      BY <2>1, <3>1, WriteLow
    <3>3. entry' = IOAPICWrite(20, TIMER)
      BY <2>2
    <3> QED
      BY <2>1, <3>2, <3>3 DEF Opened, Entry
  <2>3. CASE step("high32", "low33", 21, LapicId)
    <3>1. 21 = 16 + 2 * TimerLine[2] + 1 /\ 21 # 16 + 2 * TimerLine[2]
          /\ TimerLine[1] \in IOAPICData
      BY <2>1, <1>3
    <3>2. IOAPICWrite(21, LapicId)[TimerLine] = [entry[TimerLine] EXCEPT !.dest = LapicId]
      BY <2>1, <3>1, WriteHigh
    <3>3. entry' = IOAPICWrite(21, LapicId)
      BY <2>3
    <3> QED
      BY <2>1, <3>2, <3>3 DEF Entry, IInv, Setup
  <2>4. ASSUME NEW reg \in {18, 19}, NEW val, entry' = IOAPICWrite(reg, val)
        PROVE  entry'[TimerLine] = entry[TimerLine]
    <3>1. reg # 16 + 2 * TimerLine[2] /\ reg # 16 + 2 * TimerLine[2] + 1
      BY <2>1
    <3>2. IOAPICWrite(reg, val)[TimerLine] = entry[TimerLine]
      BY <2>1, <3>1, WriteOther
    <3> QED
      BY <2>4, <3>2
  <2> QED
    BY <1>1, <2>2, <2>3, <2>4 DEF IInv, Setup
<1>10. Setup'
  BY <1>1, <1>2, <1>7, <1>8, <1>9 DEF IInv, Setup, GatesBuilt, Parsed, Routed, Registered, Draining,
                                Started
<1>11. Handling' /\ NoLostEdge' /\ Backing'
  BY <1>1, <1>2, <1>3 DEF IInv, Handling, NoLostEdge, Backing, Tokens, Started
<1> QED
  BY <1>5, <1>10, <1>11 DEF IInv

LEMMA DrainReadIInv == IInv /\ DrainRead => IInv'
<1> SUFFICES ASSUME IInv, DrainRead PROVE IInv'
  OBVIOUS
<1>1. pc = "drainread" /\ pc' = "drain" /\ irq = "none" /\ full' = FALSE
  BY DEF DrainRead, Task, Goto
<1>2. UNCHANGED <<gates, ready, registered, IOAPICData, entry, irr, isr, iflag, irq, int_no,
                  scancode, shift, empties, held, events, scanning, fifo, byte, enabled, command,
                  lost>>
  BY DEF DrainRead, apic, cpu, user
<1>3. TypeOK'
  BY <1>1, <1>2 DEF IInv, TypeOK
<1>4. Setup'
  BY <1>1, <1>2 DEF IInv, Setup, GatesBuilt, Parsed, Routed, Registered, Draining, Started
<1>5. Handling' /\ NoLostEdge' /\ Tokens' = Tokens
  BY <1>1, <1>2 DEF IInv, Handling, NoLostEdge, Tokens, Started
<1>6. Tokens <= 1 /\ empties = 0
  BY <1>1 DEF IInv, TypeOK, Backing, Tokens
<1>7. Tokens \in Nat
  BY DEF Tokens
<1>8. Backing'
  BY <1>1, <1>2, <1>5, <1>6, <1>7 DEF Backing
<1> QED
  BY <1>3, <1>4, <1>5, <1>8 DEF IInv

-----------------------------------------------------------------------------
(* The interrupt handler.                                                  *)

\* Setup and the devices' types are not about the handler.
LEMMA HandlerIInv == IInv /\ (Deliver \/ HandlerStep) => IInv'
<1> SUFFICES ASSUME IInv, Deliver \/ HandlerStep PROVE IInv'
  OBVIOUS
<1>1. UNCHANGED <<pc, gates, ready, registered, IOAPICData, entry, held, events, scanning, fifo,
                  byte, enabled, command, lost>>
  <2>1. CASE SendEOI
    <3>1. TypeOK
      BY DEF IInv
    <3>2. entry' = entry
      BY <2>1, <3>1, WriteFacts DEF SendEOI, SendIOAPICEOI
    <3> QED
      BY <2>1, <3>2 DEF SendEOI, boot, user, device
  <2>2. CASE ~SendEOI
    BY <2>2 DEF Deliver, HandlerStep, Dispatch, ReadByte, HandleByte, Iret, boot, apic, user,
                device
  <2> QED
    BY <2>1, <2>2
<1>2. pc = "run" /\ KEYBOARD \in registered /\ registered \subseteq {KEYBOARD}
  <2>1. pc = "run"
    BY DEF IInv, Handling, Deliver, HandlerStep, Dispatch, ReadByte, HandleByte, SendEOI, Iret
  <2> QED
    BY <2>1 DEF IInv, Setup, Registered, Draining, Started, TypeOK
<1>3. Setup'
  BY <1>1 DEF IInv, Setup, GatesBuilt, OpenEntry
<1>4. TypeOK'
  <2>1. /\ irr' \subseteq {TIMER, KEYBOARD} /\ isr' \subseteq {TIMER, KEYBOARD}
        /\ irq' \in {"none", "entry", "read", "handle", "eoi", "iret"}
        /\ int_no' \in {0, TIMER, KEYBOARD}
        /\ iflag' \in BOOLEAN /\ full' \in BOOLEAN
    BY DEF IInv, TypeOK, Deliver, HandlerStep, Dispatch, ReadByte, HandleByte, SendEOI, Iret,
           apic, device
  <2>2. scancode' \in Code /\ empties' \in Nat
    BY DEF IInv, TypeOK, Deliver, HandlerStep, Dispatch, ReadByte, HandleByte, SendEOI, Iret
  <2>3. shift' \in BOOLEAN
    <3>1. ShiftAfter(shift, scancode) \in BOOLEAN
      BY DEF IInv, TypeOK, ShiftAfter, Code
    <3> QED
      BY <3>1 DEF IInv, TypeOK, Deliver, HandlerStep, Dispatch, ReadByte, HandleByte, SendEOI, Iret
  <2> QED
    BY <1>1, <2>1, <2>2, <2>3 DEF IInv, TypeOK
<1>5. Handling'
  <2>1. CASE Deliver
    BY <2>1, <1>1, <1>2 DEF IInv, TypeOK, Handling, Deliver
  <2>2. CASE HandlerStep
    BY <2>2, <1>1, <1>2 DEF IInv, Handling, HandlerStep, Dispatch, ReadByte, HandleByte, SendEOI,
                            Iret, apic
  <2> QED
    BY <2>1, <2>2
<1>6. Tokens \in Nat /\ Tokens' \in Nat
  BY DEF Tokens
<1>7. CASE Deliver
  <2>1. irq = "none" /\ full' = full /\ empties' = empties
    BY <1>7 DEF IInv, Handling, Deliver, device
  <2>2. Tokens' = Tokens
    BY <1>7, <2>1 DEF Tokens, Deliver, KEYBOARD
  <2> QED
    BY <1>1, <1>3, <1>4, <1>5, <2>1, <2>2 DEF IInv, NoLostEdge, Backing
<1>8. CASE Dispatch \/ HandleByte \/ SendEOI \/ Iret
  <2>1. full' = full /\ empties' = empties
    BY <1>8 DEF Dispatch, HandleByte, SendEOI, Iret, device
  <2>2. Tokens' = Tokens
    BY <1>8, <1>2 DEF Tokens, Dispatch, HandleByte, SendEOI, Iret, apic
  <2> QED
    BY <1>1, <1>3, <1>4, <1>5, <2>1, <2>2 DEF IInv, NoLostEdge, Backing
<1>9. CASE ReadByte
  <2>1. full' = FALSE /\ empties' = (IF full THEN empties ELSE empties + 1)
    BY <1>9 DEF ReadByte
  <2>2. Tokens = Tokens' + 1
    BY <1>9 DEF Tokens, ReadByte, IInv, Handling, apic
  <2>3. empties \in Nat /\ full \in BOOLEAN
    BY DEF IInv, TypeOK
  <2>4. empties + Tokens <= (IF full THEN 1 ELSE 0) + 1
    BY DEF IInv, Backing
  <2>5. empties' + Tokens' <= 1
    <3>1. CASE full
      BY <3>1, <1>6, <2>1, <2>2, <2>3, <2>4, CountRead
    <3>2. CASE ~full
      BY <3>2, <1>6, <2>1, <2>2, <2>3, <2>4, CountRead
    <3> QED
      BY <2>3, <3>1, <3>2
  <2>6. Backing'
    BY <1>1, <1>2, <2>1, <2>5 DEF Backing
  <2> QED
    BY <1>3, <1>4, <1>5, <2>1, <2>6 DEF IInv, NoLostEdge
<1> QED
  BY <1>7, <1>8, <1>9 DEF HandlerStep

-----------------------------------------------------------------------------
(* The hardware.                                                           *)

\* An edge requests a vector the kernel routed, or nothing.
LEMMA EdgeType ==
    ASSUME IInv, NEW line \in Chip \X Pin, Edge(line)
    PROVE  irr' \subseteq {TIMER, KEYBOARD} /\ irr \subseteq irr'
  BY DEF IInv, TypeOK, Setup, Edge

LEMMA FillIInv == IInv /\ Fill => IInv'
<1> SUFFICES ASSUME IInv, Fill PROVE IInv'
  OBVIOUS
<1>1. ~full /\ full' = TRUE
  BY DEF Fill
<1>2. UNCHANGED <<pc, gates, ready, registered, IOAPICData, entry, isr, iflag, irq, int_no,
                  scancode, shift, empties, held, events, scanning, enabled, command, lost>>
  BY DEF Fill, boot, cpu, user
<1>3. irr' \subseteq {TIMER, KEYBOARD} /\ irr \subseteq irr'
  BY EdgeType, CodeFacts DEF Fill
<1>4. fifo' \in Seq(Code) /\ Len(fifo') <= FifoSize /\ byte' \in Code
  <2>1. fifo \in Seq(Code) /\ fifo # <<>> /\ Len(fifo) <= FifoSize
        /\ fifo' = Tail(fifo) /\ byte' = Head(fifo)
    BY DEF IInv, TypeOK, Fill
  <2>2. Head(fifo) \in Code /\ Tail(fifo) \in Seq(Code) /\ Len(Tail(fifo)) = Len(fifo) - 1
        /\ Len(fifo) \in Nat
    BY <2>1
  <2> QED
    BY <2>1, <2>2, SizeAssumption
<1>5. TypeOK'
  BY <1>1, <1>2, <1>3, <1>4 DEF IInv, TypeOK
<1>6. Setup' /\ Handling'
  BY <1>2 DEF IInv, Setup, Handling, GatesBuilt, OpenEntry
<1>7. NoLostEdge'
  <2>1. pc \in Started => KEYBOARD \in irr'
    BY DEF IInv, Setup, Parsed, Routed, Registered, Draining, Started, OpenEntry, Fill, Edge
  <2> QED
    BY <1>2, <2>1 DEF NoLostEdge, Tokens
<1>8. Backing'
  <2>1. Tokens \in Nat /\ Tokens' \in Nat /\ Tokens' <= Tokens + 1
    BY <1>2, <1>3 DEF Tokens
  <2>2. empties \in Nat /\ empties + Tokens <= 1
    BY <1>1 DEF IInv, TypeOK, Backing
  <2>3. empties + Tokens' <= 2
    BY <2>1, <2>2, CountFill
  <2> QED
    BY <1>1, <1>2, <2>3 DEF IInv, Backing
<1> QED
  BY <1>5, <1>6, <1>7, <1>8 DEF IInv

\* The timer's edge never requests the keyboard's vector: a read it caused
\* would be backed by nothing.
LEMMA TickIInv == IInv /\ Tick => IInv'
<1> SUFFICES ASSUME IInv, Tick PROVE IInv'
  OBVIOUS
<1>1. UNCHANGED <<pc, gates, ready, registered, IOAPICData, entry, isr, iflag, irq, int_no,
                  scancode, shift, empties, held, events, scanning, fifo, full, byte, enabled,
                  command, lost>>
  BY DEF Tick, boot, cpu, user, device
<1>2. irr' \subseteq {TIMER, KEYBOARD} /\ irr \subseteq irr'
  BY EdgeType, CodeFacts DEF Tick
<1>3. TypeOK' /\ Setup' /\ Handling'
  BY <1>1, <1>2 DEF IInv, TypeOK, Setup, Handling, GatesBuilt, OpenEntry
<1>4. Tokens' = Tokens
  BY <1>1, <1>2 DEF Tokens, Tick, Edge, IInv, Setup, TIMER, KEYBOARD
<1> QED
  BY <1>1, <1>3, <1>4 DEF IInv, NoLostEdge, Backing

LEMMA TypingIInv == IInv /\ ((\E k \in Key : KeyEvent(k)) \/ CarryOut) => IInv'
<1> SUFFICES ASSUME IInv, (\E k \in Key : KeyEvent(k)) \/ CarryOut PROVE IInv'
  OBVIOUS
<1>1. UNCHANGED <<pc, gates, ready, registered, IOAPICData, entry, irr, isr, iflag, irq, int_no,
                  scancode, shift, empties, full, byte>>
  BY DEF KeyEvent, CarryOut, boot, apic, cpu
<1>2. fifo \in Seq(Code) /\ Len(fifo) \in Nat /\ Len(fifo) <= FifoSize /\ lost \in BOOLEAN
  BY DEF IInv, TypeOK
<1>3. fifo' \in Seq(Code) /\ Len(fifo') <= FifoSize /\ lost' \in BOOLEAN
  <2>1. ASSUME NEW code \in Code, Queue(code)
        PROVE  fifo' \in Seq(Code) /\ Len(fifo') <= FifoSize /\ lost' \in BOOLEAN
    <3>1. CASE ~scanning \/ ~(Len(fifo) < FifoSize)
      BY <2>1, <3>1, <1>2 DEF Queue
    <3>2. CASE scanning /\ Len(fifo) < FifoSize
      <4>1. fifo' = Append(fifo, code) /\ lost' = lost
        BY <2>1, <3>2 DEF Queue
      <4>2. fifo' \in Seq(Code) /\ Len(fifo') = Len(fifo) + 1
        BY <4>1, <1>2
      <4> QED
        BY <1>2, <3>2, <4>1, <4>2, SizeAssumption
    <3> QED
      BY <3>1, <3>2
  <2>2. ASSUME NEW k \in Key, KeyEvent(k)
        PROVE  fifo' \in Seq(Code) /\ Len(fifo') <= FifoSize /\ lost' \in BOOLEAN
    <3>1. [key |-> k, up |-> k \in held] \in Code
      BY DEF Code
    <3> QED
      BY <2>1, <2>2, <3>1 DEF KeyEvent
  <2>3. CASE CarryOut
    <3>1. <<ACK>> \in Seq(Code) /\ Len(<<ACK>>) = 1
      BY CodeFacts
    <3>2. 1 <= FifoSize
      BY SizeAssumption
    <3>3. \/ fifo' = fifo /\ lost' = lost
          \/ fifo' = <<ACK>> /\ lost' = (lost \/ fifo # <<>>)
      BY <2>3 DEF CarryOut
    <3> QED
      BY <1>2, <3>1, <3>2, <3>3
  <2> QED
    BY <2>2, <2>3
<1>4. held' \subseteq Key /\ events' \in Nat /\ scanning' \in BOOLEAN /\ enabled' \in BOOLEAN
      /\ command' \in {"none", "enable", "scan"}
  <2>1. CASE CarryOut
    BY <2>1 DEF IInv, TypeOK, CarryOut, user
  <2>2. ASSUME NEW k \in Key, KeyEvent(k)
        PROVE  held' \subseteq Key /\ events' = events + 1
               /\ UNCHANGED <<scanning, enabled, command>>
    BY <2>2 DEF IInv, TypeOK, KeyEvent
  <2> QED
    BY <2>1, <2>2 DEF IInv, TypeOK
<1>5. TypeOK'
  BY <1>1, <1>3, <1>4 DEF IInv, TypeOK
<1>6. Setup' /\ Handling' /\ NoLostEdge' /\ Backing'
  BY <1>1 DEF IInv, Setup, Handling, NoLostEdge, Backing, Tokens, GatesBuilt, OpenEntry
<1> QED
  BY <1>5, <1>6 DEF IInv

-----------------------------------------------------------------------------
LEMMA Invariance == Spec => []IInv
<1>1. IInv /\ [Next]_vars => IInv'
  <2>1. IInv /\ UNCHANGED vars => IInv'
    <3> SUFFICES ASSUME IInv, UNCHANGED vars PROVE IInv'
      OBVIOUS
    <3> USE DEF vars, boot, apic, cpu, user, device
    <3>1. TypeOK'
      BY DEF IInv, TypeOK
    <3>2. Setup' /\ Handling'
      BY DEF IInv, Setup, Handling, GatesBuilt, OpenEntry
    <3>3. NoLostEdge' /\ Backing'
      BY DEF IInv, NoLostEdge, Backing, Tokens
    <3> QED
      BY <3>1, <3>2, <3>3 DEF IInv
  <2>2. BootStep => PlainStep \/ ParseMADT \/ SetRedirects \/ DrainRead
    BY DEF BootStep, PlainStep
  <2> QED
    BY <2>1, <2>2, PlainIInv, ParseIInv, RedirectIInv, DrainReadIInv, HandlerIInv, FillIInv,
       TickIInv, TypingIInv DEF Next
<1> QED
  BY InitIInv, <1>1, PTL DEF Spec

\* Every variable keeps its type: in particular at most one I/O APIC is ever
\* programmed, and no vector but the timer's and the keyboard's requested.
THEOREM TypeCorrect == Spec => []TypeOK
<1>1. IInv => TypeOK
  BY DEF IInv
<1> QED
  BY Invariance, <1>1, PTL

\* The edge of the keyboard's line is never lost for good: a full output
\* buffer has an interrupt due once the start-up drained it
\* (keyboard.cpp:90-94, ioapic.cpp:207-209).
THEOREM EdgeKept == Spec => []NoLostEdge
<1>1. IInv => NoLostEdge
  BY DEF IInv
<1> QED
  BY Invariance, <1>1, PTL

\* The handler reads an empty output buffer at most once (keyboard.cpp:53).
THEOREM EmptyReadBounded == Spec => []ReadsBacked
<1>1. IInv => ReadsBacked
  <2> SUFFICES ASSUME IInv PROVE ReadsBacked
    OBVIOUS
  <2>1. empties \in Nat /\ empties + Tokens <= (IF full THEN 1 ELSE 0) + 1
        /\ (empties > 0 => pc = "run") /\ Tokens \in Nat /\ full \in BOOLEAN
    BY DEF IInv, TypeOK, Backing, Tokens
  <2>2. pc = "run" /\ full => Tokens > 0
    BY DEF IInv, NoLostEdge, Started
  <2> QED
    BY <2>1, <2>2 DEF ReadsBacked
<1> QED
  BY Invariance, <1>1, PTL

\* Interrupts are enabled only once every vector that may arrive has its stub
\* (idt.cpp:64-133, init.cpp:173).
THEOREM VectorsReady == Spec => []VectorsHandled
<1>1. IInv => VectorsHandled
  <2> SUFFICES ASSUME IInv, iflag PROVE VectorsHandled
    BY DEF VectorsHandled
  <2>1. pc = "run"
    BY DEF IInv, Handling
  <2>2. GatesBuilt /\ {"idt", "pic"} \subseteq ready /\ KEYBOARD \in registered
    BY <2>1 DEF IInv, Setup, Parsed, Routed, Registered, Draining, Started
  <2>3. \A p \in Chip \X Pin : ~entry[p].masked => gates[entry[p].vector] = "irq"
    BY <2>2 DEF IInv, Setup, GatesBuilt
  <2>4. \A v \in 0..31 :
          gates[v] = IF v \in PushesErrorCode THEN "isr_err" ELSE "isr_no_err"
    BY <2>2 DEF GatesBuilt, IsrStub, ErrStubs, PushesErrorCode
  <2> QED
    BY <2>2, <2>3, <2>4 DEF VectorsHandled
<1> QED
  BY Invariance, <1>1, PTL

-----------------------------------------------------------------------------
(* The driver's shift.                                                      *)

\* What the driver's shift will have come to once everything that is on its
\* way has been handled, unless the keyboard dropped a scancode: a shift code
\* on its way decides, the last one first, then the byte in the buffer, then
\* the one being handled.
Holds == held \cap Shift # {}
Silent == \A i \in DOMAIN fifo : fifo[i].key \notin Shift

LastHolds ==
    \A i \in DOMAIN fifo :
        /\ fifo[i].key \in Shift /\ ~fifo[i].up
        /\ \A j \in DOMAIN fifo : i < j => fifo[j].key \notin Shift
        => Holds
ByteHolds == Silent /\ byte.key \in Shift /\ ~byte.up => Holds
CodeHolds ==
    Silent /\ byte.key \notin Shift /\ irq = "handle"
           /\ scancode.key \in Shift /\ ~scancode.up => Holds
FlagHolds ==
    Silent /\ byte.key \notin Shift /\ (irq = "handle" => scancode.key \notin Shift)
           /\ shift => Holds

\* A byte that has been read is the one being handled, or has been handled: a
\* break then left no shift.  Before the keyboard scans, and before interrupts
\* are enabled, there was none.
Taken ==
    /\ irq = "handle" /\ ~full => scancode = byte
    /\ irq # "handle" /\ ~full /\ byte.key \in Shift /\ byte.up => ~shift
    /\ ~scanning => fifo = <<>> /\ byte = ACK /\ scancode = ACK /\ ~shift
    /\ pc # "run" => ~shift

Settling == Taken /\ (lost \/ (LastHolds /\ ByteHolds /\ CodeHolds /\ FlagHolds))

SInv == IInv /\ Settling

LEMMA InitSettling == Init => Settling
  BY DEF Init, Settling, Taken, LastHolds, ByteHolds, CodeHolds, FlagHolds, ACK

\* Steps that change neither a code nor the driver's flag.
LEMMA IdleSettling ==
    ASSUME IInv, Settling,
           UNCHANGED <<scancode, shift, held, scanning, fifo, byte, lost>>,
           irq # "handle", irq' # "handle",
           full' = full \/ (full' = FALSE /\ pc # "run"),
           pc = "run" => pc' = "run"
    PROVE  Settling'
<1>1. Taken'
  BY DEF Settling, Taken
<1>2. Holds' = Holds /\ Silent' = Silent
  BY DEF Holds, Silent
<1>3. lost' \/ (LastHolds' /\ ByteHolds' /\ CodeHolds' /\ FlagHolds')
  BY <1>2 DEF Settling, LastHolds, ByteHolds, CodeHolds, FlagHolds
<1> QED
  BY <1>1, <1>3 DEF Settling

LEMMA BootSettling == IInv /\ Settling /\ BootStep => Settling'
<1> SUFFICES ASSUME IInv, Settling, BootStep PROVE Settling'
  OBVIOUS
<1>1. irq = "none" /\ irq' = "none" /\ pc # "run"
  BY DEF BootStep, InitIDT, LoadIDT, NoX2Apic, InitLAPIC, MaskPICs, ParseMADT, SetRedirects,
         SetRedirectEntry, WriteEntry, RegisterInterrupt, StartKeyboard, Command, DrainTest,
         DrainRead, Sti, Task, cpu
<1>2. UNCHANGED <<scancode, shift, held, scanning, fifo, byte, lost>>
      /\ (full' = full \/ full' = FALSE)
  BY DEF BootStep, InitIDT, LoadIDT, NoX2Apic, InitLAPIC, MaskPICs, ParseMADT, SetRedirects,
         SetRedirectEntry, WriteEntry, RegisterInterrupt, StartKeyboard, Command, DrainTest,
         DrainRead, Sti, cpu, user, device
<1>3. ~shift
  BY <1>1 DEF Settling, Taken
<1> QED
  BY <1>1, <1>2, <1>3, IdleSettling

LEMMA PassSettling ==
    IInv /\ Settling /\ (Deliver \/ Dispatch \/ SendEOI \/ Iret) => Settling'
<1> SUFFICES ASSUME IInv, Settling, Deliver \/ Dispatch \/ SendEOI \/ Iret PROVE Settling'
  OBVIOUS
<1>1. irq # "handle" /\ irq' # "handle"
  BY DEF Deliver, Dispatch, SendEOI, Iret, IInv, Handling
<1>2. UNCHANGED <<scancode, shift, held, scanning, fifo, full, byte, lost>> /\ pc' = pc
  BY DEF Deliver, Dispatch, SendEOI, Iret, boot, user, device
<1> QED
  BY <1>1, <1>2, IdleSettling

\* The read takes the byte into the handler, and repeats the last one when
\* the buffer is empty.
LEMMA ReadSettling == IInv /\ Settling /\ ReadByte => Settling'
<1> SUFFICES ASSUME IInv, Settling, ReadByte PROVE Settling'
  OBVIOUS
<1>1. irq = "read" /\ irq' = "handle" /\ scancode' = byte /\ full' = FALSE
      /\ UNCHANGED <<pc, shift, held, scanning, fifo, byte, lost>>
  BY DEF ReadByte, boot, user
<1>2. pc = "run"
  BY <1>1 DEF IInv, Handling
<1>3. Taken'
  BY <1>1, <1>2 DEF Settling, Taken
<1>4. Holds' = Holds /\ Silent' = Silent
  BY <1>1 DEF Holds, Silent
<1>5. lost' \/ (LastHolds' /\ ByteHolds' /\ CodeHolds' /\ FlagHolds')
  BY <1>1, <1>4 DEF Settling, LastHolds, ByteHolds, CodeHolds, FlagHolds
<1> QED
  BY <1>3, <1>5 DEF Settling

LEMMA HandleSettling == IInv /\ Settling /\ HandleByte => Settling'
<1> SUFFICES ASSUME IInv, Settling, HandleByte PROVE Settling'
  OBVIOUS
<1>1. irq = "handle" /\ irq' = "eoi" /\ shift' = ShiftAfter(shift, scancode)
      /\ UNCHANGED <<pc, scancode, held, scanning, fifo, full, byte, lost>>
  BY DEF HandleByte, boot, user, device
<1>2. pc = "run" /\ scancode \in Code /\ shift \in BOOLEAN
  BY <1>1 DEF IInv, Handling, TypeOK
<1>3. scancode.key \in Shift => shift' = ~scancode.up
  BY <1>1 DEF ShiftAfter
<1>4. scancode.key \notin Shift => shift' = shift
  BY <1>1 DEF ShiftAfter
<1>5. Taken'
  <2>1. ~full /\ byte.key \in Shift /\ byte.up => ~shift'
    BY <1>1, <1>3 DEF Settling, Taken
  <2>2. ~scanning => ~shift'
    <3>1. ACK.key \notin Shift
      BY DEF ACK, Shift, LShift, RShift
    <3> QED
      BY <1>4, <3>1 DEF Settling, Taken
  <2> QED
    BY <1>1, <1>2, <2>1, <2>2 DEF Settling, Taken
<1>6. Holds' = Holds /\ Silent' = Silent
  BY <1>1 DEF Holds, Silent
<1>7. lost \/ FlagHolds'
  <2>1. CASE scancode.key \in Shift
    BY <1>1, <1>3, <1>6, <2>1 DEF Settling, CodeHolds, FlagHolds
  <2>2. CASE scancode.key \notin Shift
    BY <1>1, <1>4, <1>6, <2>2 DEF Settling, FlagHolds
  <2> QED
    BY <2>1, <2>2
<1>8. lost' \/ (LastHolds' /\ ByteHolds' /\ CodeHolds' /\ FlagHolds')
  BY <1>1, <1>6, <1>7 DEF Settling, LastHolds, ByteHolds, CodeHolds
<1> QED
  BY <1>5, <1>8 DEF Settling

\* The next code of the buffer is no longer among those to come.
LEMMA FillSettling == IInv /\ Settling /\ Fill => Settling'
<1> SUFFICES ASSUME IInv, Settling, Fill PROVE Settling'
  OBVIOUS
<1>1. ~full /\ full' = TRUE /\ fifo # <<>> /\ byte' = Head(fifo) /\ fifo' = Tail(fifo)
      /\ UNCHANGED <<pc, irq, scancode, shift, held, scanning, lost>>
  BY DEF Fill, boot, cpu, user
<1>2. fifo \in Seq(Code) /\ byte \in Code /\ scancode \in Code
  BY DEF IInv, TypeOK
<1>3. /\ Len(fifo) \in Nat /\ 1 \in DOMAIN fifo /\ byte' = fifo[1] /\ fifo[1] \in Code
      /\ Len(fifo') = Len(fifo) - 1
      /\ \A i \in DOMAIN fifo' : i + 1 \in DOMAIN fifo /\ fifo'[i] = fifo[i + 1]
      /\ \A i \in DOMAIN fifo : i = 1 \/ i - 1 \in DOMAIN fifo'
      /\ DOMAIN fifo \subseteq Nat /\ DOMAIN fifo' \subseteq Nat
      /\ \A i \in DOMAIN fifo : 1 <= i
  BY <1>1, <1>2
<1>4. Taken'
  BY <1>1 DEF Settling, Taken
<1>5. Holds' = Holds
  BY <1>1 DEF Holds
<1>6. Silent => Silent'
  BY <1>3 DEF Silent
<1>7. Silent' /\ byte'.key \notin Shift => Silent
  <2> SUFFICES ASSUME Silent', byte'.key \notin Shift, NEW i \in DOMAIN fifo
               PROVE  fifo[i].key \notin Shift
    BY DEF Silent
  <2>1. CASE i = 1
    BY <2>1, <1>3
  <2>2. CASE i # 1
    <3>1. i - 1 \in DOMAIN fifo' /\ fifo'[i - 1] = fifo[(i - 1) + 1] /\ (i - 1) + 1 = i
      BY <2>2, <1>3
    <3> QED
      BY <3>1 DEF Silent
  <2> QED
    BY <2>1, <2>2
<1>8. LastHolds => LastHolds'
  <2> SUFFICES ASSUME LastHolds, NEW i \in DOMAIN fifo', fifo'[i].key \in Shift, ~fifo'[i].up,
                      \A j \in DOMAIN fifo' : i < j => fifo'[j].key \notin Shift
               PROVE  Holds
    BY <1>5 DEF LastHolds
  <2>1. ASSUME NEW j \in DOMAIN fifo, i + 1 < j PROVE fifo[j].key \notin Shift
    <3>1. j - 1 \in DOMAIN fifo' /\ fifo'[j - 1] = fifo[(j - 1) + 1] /\ (j - 1) + 1 = j
          /\ i < j - 1
      BY <1>3, <2>1
    <3> QED
      BY <3>1
  <2>2. i + 1 \in DOMAIN fifo /\ fifo[i + 1] = fifo'[i]
    BY <1>3
  <2> QED
    BY <2>1, <2>2 DEF LastHolds
<1>9. LastHolds => ByteHolds'
  <2> SUFFICES ASSUME LastHolds, Silent', byte'.key \in Shift, ~byte'.up PROVE Holds
    BY <1>5 DEF ByteHolds
  <2>1. ASSUME NEW j \in DOMAIN fifo, 1 < j PROVE fifo[j].key \notin Shift
    <3>1. j - 1 \in DOMAIN fifo' /\ fifo'[j - 1] = fifo[(j - 1) + 1] /\ (j - 1) + 1 = j
      BY <1>3, <2>1
    <3> QED
      BY <3>1 DEF Silent
  <2> QED
    BY <1>3, <2>1 DEF LastHolds
<1>10. ByteHolds /\ CodeHolds /\ FlagHolds => CodeHolds' /\ FlagHolds'
  <2> SUFFICES ASSUME ByteHolds, CodeHolds, FlagHolds, Silent', byte'.key \notin Shift
               PROVE  CodeHolds' /\ FlagHolds'
    BY DEF CodeHolds, FlagHolds
  <2>1. Silent
    BY <1>7
  <2>2. CASE irq = "handle"
    <3>1. scancode = byte
      BY <1>1, <2>2 DEF Settling, Taken
    <3> QED
      BY <1>1, <1>5, <2>1, <2>2, <3>1 DEF ByteHolds, CodeHolds, FlagHolds
  <2>3. CASE irq # "handle"
    <3>1. shift => Holds
      <4>1. CASE byte.key \in Shift /\ byte.up
        BY <1>1, <2>3, <4>1 DEF Settling, Taken
      <4>2. CASE byte.key \in Shift /\ ~byte.up
        BY <2>1, <4>2 DEF ByteHolds
      <4>3. CASE byte.key \notin Shift
        BY <2>1, <2>3, <4>3 DEF FlagHolds
      <4> QED
        BY <4>1, <4>2, <4>3
    <3> QED
      BY <1>1, <1>5, <2>3, <3>1 DEF CodeHolds, FlagHolds
  <2> QED
    BY <2>2, <2>3
<1> QED
  BY <1>1, <1>4, <1>8, <1>9, <1>10 DEF Settling

LEMMA CarryOutSettling == IInv /\ Settling /\ CarryOut => Settling'
<1> SUFFICES ASSUME IInv, Settling, CarryOut PROVE Settling'
  OBVIOUS
<1>1. UNCHANGED <<pc, irq, scancode, shift, held, full, byte>>
  BY DEF CarryOut, boot, apic, cpu, user
<1>2. CASE UNCHANGED <<scanning, fifo, lost>>
  <2>1. Taken'
    BY <1>1, <1>2 DEF Settling, Taken
  <2>2. Holds' = Holds /\ Silent' = Silent
    BY <1>1, <1>2 DEF Holds, Silent
  <2>3. lost' \/ (LastHolds' /\ ByteHolds' /\ CodeHolds' /\ FlagHolds')
    BY <1>1, <1>2, <2>2 DEF Settling, LastHolds, ByteHolds, CodeHolds, FlagHolds
  <2> QED
    BY <2>1, <2>3 DEF Settling
<1>3. CASE scanning' = TRUE /\ fifo' = <<ACK>> /\ lost' = (lost \/ fifo # <<>>)
  <2>1. Taken'
    BY <1>1, <1>3 DEF Settling, Taken
  <2>2. DOMAIN fifo' = {1} /\ fifo'[1].key \notin Shift
    BY <1>3 DEF ACK, Shift, LShift, RShift
  <2>3. Holds' = Holds /\ Silent' /\ LastHolds'
    BY <1>1, <2>2 DEF Holds, Silent, LastHolds
  <2>4. ~lost' => ~lost /\ Silent
    <3>1. fifo = <<>> => Silent
      BY DEF Silent
    <3> QED
      BY <1>3, <3>1
  <2>5. lost' \/ (ByteHolds' /\ CodeHolds' /\ FlagHolds')
    BY <1>1, <2>3, <2>4 DEF Settling, ByteHolds, CodeHolds, FlagHolds
  <2> QED
    BY <2>1, <2>3, <2>5 DEF Settling
<1> QED
  BY <1>2, <1>3 DEF CarryOut

\* A key that is pressed is held, and its code is the last of the buffer.
LEMMA KeySettling == ASSUME IInv, Settling, NEW k \in Key, KeyEvent(k) PROVE Settling'
<1> DEFINE code == [key |-> k, up |-> k \in held]
<1>1. UNCHANGED <<pc, irq, scancode, shift, full, byte, scanning>> /\ Queue(code)
      /\ held' = (IF k \in held THEN held \ {k} ELSE held \cup {k})
  BY DEF KeyEvent, boot, cpu
<1>2. fifo \in Seq(Code) /\ ACK.key \notin Shift /\ code \in Code
  BY CodeFacts DEF IInv, TypeOK, ACK, Shift, LShift, RShift, Code
<1>3. k \notin Shift => Holds' = Holds
  BY <1>1 DEF Holds
<1>4. CASE ~scanning
  <2>1. fifo = <<>> /\ byte = ACK /\ scancode = ACK /\ ~shift /\ fifo' = <<>> /\ lost' = lost
    BY <1>1, <1>4 DEF Queue, Settling, Taken
  <2>2. Taken'
    BY <1>1, <2>1 DEF Settling, Taken
  <2>3. LastHolds' /\ ByteHolds' /\ CodeHolds' /\ FlagHolds'
    BY <1>1, <1>2, <2>1 DEF LastHolds, ByteHolds, CodeHolds, FlagHolds
  <2> QED
    BY <2>2, <2>3 DEF Settling
<1>5. CASE scanning /\ ~(Len(fifo) < FifoSize)
  <2>1. lost' = TRUE /\ fifo' = fifo
    BY <1>1, <1>5 DEF Queue
  <2> QED
    BY <1>1, <1>5, <2>1 DEF Settling, Taken
<1>6. CASE scanning /\ Len(fifo) < FifoSize
  <2>1. fifo' = Append(fifo, code) /\ lost' = lost
    BY <1>1, <1>6 DEF Queue
  <2> HIDE DEF code
  <2>2. /\ Len(fifo) \in Nat /\ DOMAIN fifo = 1..Len(fifo)
        /\ DOMAIN fifo' = 1..(Len(fifo) + 1)
        /\ \A i \in DOMAIN fifo : i \in DOMAIN fifo' /\ fifo'[i] = fifo[i]
        /\ fifo'[Len(fifo) + 1] = code
    BY <1>2, <2>1
  <2>3. Taken'
    BY <1>1, <1>6, <2>1 DEF Settling, Taken
  <2>4. CASE k \in Shift
    <3>1. ~Silent'
      BY <2>2, <2>4 DEF Silent, code
    <3>2. ByteHolds' /\ CodeHolds' /\ FlagHolds'
      BY <3>1 DEF ByteHolds, CodeHolds, FlagHolds
    <3>3. LastHolds'
      <4> SUFFICES ASSUME NEW i \in DOMAIN fifo', ~fifo'[i].up,
                          \A j \in DOMAIN fifo' : i < j => fifo'[j].key \notin Shift
                   PROVE  Holds'
        BY DEF LastHolds
      <4>1. i = Len(fifo) + 1
        BY <2>2, <2>4 DEF code
      <4>2. k \notin held
        <5>1. ~code.up
          BY <2>2, <4>1
        <5>2. code.up = (k \in held)
          BY DEF code
        <5> QED
          BY <5>1, <5>2
      <4> QED
        BY <1>1, <2>4, <4>2 DEF Holds
    <3> QED
      BY <2>3, <3>2, <3>3 DEF Settling
  <2>5. CASE k \notin Shift
    <3>1. Silent' => Silent
      BY <2>2 DEF Silent
    <3>2. LastHolds => LastHolds'
      <4> SUFFICES ASSUME LastHolds, NEW i \in DOMAIN fifo', fifo'[i].key \in Shift, ~fifo'[i].up,
                          \A j \in DOMAIN fifo' : i < j => fifo'[j].key \notin Shift
                   PROVE  Holds
        BY <1>3, <2>5 DEF LastHolds
      <4>1. i \in DOMAIN fifo
        BY <2>2, <2>5 DEF code
      <4>2. \A j \in DOMAIN fifo : i < j => fifo[j].key \notin Shift
        BY <2>2
      <4> QED
        BY <2>2, <4>1, <4>2 DEF LastHolds
    <3>3. lost' \/ (ByteHolds' /\ CodeHolds' /\ FlagHolds')
      BY <1>1, <1>3, <2>1, <2>5, <3>1 DEF Settling, ByteHolds, CodeHolds, FlagHolds
    <3> QED
      BY <2>1, <2>3, <3>2, <3>3 DEF Settling
  <2> QED
    BY <2>4, <2>5
<1> QED
  BY <1>4, <1>5, <1>6

LEMMA TickSettling == IInv /\ Settling /\ (Tick \/ UNCHANGED vars) => Settling'
<1> SUFFICES ASSUME IInv, Settling, Tick \/ UNCHANGED vars PROVE Settling'
  OBVIOUS
<1>1. UNCHANGED <<pc, irq, scancode, shift, held, scanning, fifo, full, byte, lost>>
  BY DEF Tick, vars, boot, cpu, user, device
<1>2. Taken' /\ Holds' = Holds /\ Silent' = Silent
  BY <1>1 DEF Settling, Taken, Holds, Silent
<1> QED
  BY <1>1, <1>2 DEF Settling, LastHolds, ByteHolds, CodeHolds, FlagHolds

LEMMA SettlingInvariance == Spec => []SInv
<1>1. Init => SInv
  BY InitIInv, InitSettling DEF SInv
<1>2. IInv /\ Settling /\ [Next]_vars => Settling'
  BY BootSettling, PassSettling, ReadSettling, HandleSettling, FillSettling, CarryOutSettling,
     KeySettling, TickSettling DEF Next, HandlerStep
<1>3. SInv /\ IInv' /\ [Next]_vars => SInv'
  BY <1>2 DEF SInv
<1> QED
  BY Invariance, <1>1, <1>3, PTL DEF Spec

\* Once everything typed has been handled, the driver's shift is set only
\* while a shift key is down, unless the keyboard dropped a scancode: no
\* drained, repeated or early code leaves it stuck (keyboard.cpp:55-57).
THEOREM ShiftSettlesHolds == Spec => []ShiftSettles
<1>1. SInv => ShiftSettles
  <2> SUFFICES ASSUME SInv, Quiet, ~lost, shift PROVE Holds
    BY DEF ShiftSettles, Holds
  <2>1. Silent /\ irq = "none" /\ ~full
    BY DEF Quiet, Silent
  <2>2. ~(byte.key \in Shift /\ byte.up)
    BY <2>1 DEF SInv, Settling, Taken
  <2>3. ByteHolds /\ FlagHolds
    BY DEF SInv, Settling
  <2> QED
    BY <2>1, <2>2, <2>3 DEF ByteHolds, FlagHolds
<1> QED
  BY SettlingInvariance, <1>1, PTL
=============================================================================

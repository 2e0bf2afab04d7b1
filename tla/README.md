# A verification project for GooseOS

GooseOS is a small x86_64 kernel in C++: it is booted by Limine, sets up
descriptor tables, interrupts, a physical page allocator and a console on one
core, wakes the other cores, and echoes key presses. This directory holds TLA+
models of its components, TLC configurations that check them on small
instances, and TLAPS proofs of the properties that matter most.

All paths are relative to `src/`; `x86/` abbreviates `kernel/arch/x86_64/`.

## 1. The system

| component | source | state | operations |
|---|---|---|---|
| Boot and bring-up | `kernel/init.cpp`, `x86/init.cpp` | `APsSafeToRun`, each AP's `goto_address`, `CoreContextes` | `InitKernel`, `EarlyInit`, `LateInit`, `APEntry`, `WaitUntilGPReady` |
| Panic | `kernel/panic.cpp` | none of its own; drops the console lock | `Panic`, `Halt` |
| Spinlock | `x86/include/spinlock.hpp` | `lock_state` | `Lock`, `Unlock` |
| Console | `x86/console/console.cpp` | `ConsoleLock`, `IsConsoleReady`, `CursorPosition`, `ConsoleConfiguration`, `fb_ptr` | `PrintString`, `INFO`, `Log`, `Error`, `OK` (lock), `PrintChar`, `PrintStringInternal` (do not), `EmergencyUnlock` |
| Interrupts | `x86/cpu/int.cpp`, `int.asm`, `idt.cpp`, `x86/apic/*` | `ExternalInterruptHandlers`, IDT, redirection table, IF of each core | `RegisterInterrupt`, `IRQHandler`, `ISRHandler`, `SendEOI`, `InitLAPIC`, `InitIOAPIC` |
| Keyboard | `kernel/keyboard.cpp` | `shift` | `Init`, `KeyboardInterruptHandler` |
| PMM | `x86/mem/pmm.cpp` | `bitmap`, `total_pages`, `bitmap_size` | `Init`, `AllocatePage` |
| VMM | `x86/mem/vmm.cpp`, `alloc-backend.cpp` | page tables, CR3 | `MapPage`, `GetNextTable`, `AllocatePageAt`, `MapVirtual` |
| Heap | `kernel/mem/alloc.cpp` | start, end and current pointer | `Init`, `kmalloc`, `kfree` (not implemented) |
| Ramdisk | `kernel/block/ramdisk.cpp`, `x86/boot/ramdisk.cpp` | `ramdisk_data`, the module's bytes, the caller's buffer | `Init`, `ReadSector`, `WriteSector`, `GetCurrentRamdisk` |
| Mount table | `kernel/block/vfs.cpp` | `MountedFilesystems`, `MountedFSIndex` | `mount`, `unmount` |
| Serial port | `x86/console/serial.cpp` | the UART's transmit register | `PrintChar`, `Init` |
| ACPI lookup | `x86/acpi/init.cpp` | firmware tables | `GetTable` |
| Framebuffer, GDT, Limine requests, utilities | `x86/boot`, `x86/cpu/gdt.cpp`, `kernel/include/utils.hpp` | hardware registers, firmware tables | start-up code and pure output |

How they interact:

* Everything that prints goes through the one console spinlock, from every
  core, from tasks, from interrupt handlers and from panics.
* A panic first clears that lock, whoever holds it (`kernel/panic.cpp:35`),
  because the holder may be the very frame the panic interrupted.
* An interrupt handler runs on top of a task of the BSP, the only core the
  IOAPIC routes pins to; it must not take a lock its task may hold.
* The keyboard, its controller, the I/O APIC and the local APIC run beside the
  BSP's start-up; a key press that reaches one of them before the next is ready
  leaves a byte behind that nothing will announce again.
* The echo of a key prints on top of whatever the BSP is printing, without the
  lock, so the cursor and the UART are shared by an interrupt handler as well.
* The BSP hands work to the APs through two plain stores: the `goto_address`
  of each, then `APsSafeToRun`.
* The heap maps pages through the VMM, the VMM takes tables from the PMM, the
  PMM panics when it is empty.

What is hard: the interleaving of console users with panics on the same and on
other cores; panics inside panics; interrupts inside locked regions; the order
of registration, interrupt enable, wake-up and gate; edge-triggered interrupts
racing the drain loop; state shared with a handler that takes no lock; the rounding in the
allocators and their behaviour when memory runs out. There is no preemption,
no message passing and no persistent state, so lost messages and crash recovery
are not hazards of this code. `PROJECT.json` lists each hazard at its line.

## 2. The modules

| module | models | status |
|---|---|---|
| `SmpKernel` | boot from the console on, APs, console lock, interrupts, panic, halt | checked, proved |
| `PageAllocator` | abstract: what a page allocator promises | checked, proved (as refined by `Pmm`) |
| `Pmm` | `PMM::Init` loop by loop, `AllocatePage` | checked, proved |
| `Heap` | `Allocator::Init`, `kmalloc`, `AllocatePageAt` | checked, proved |
| `PageMap` | abstract: the translations seen on the two roots | checked, proved (as refined by `AddressSpace`) |
| `AddressSpace` | the BSP's root table, `MapPage`'s walk, `MapVirtual` | checked, proved |
| `Keyboard` | a key press from the key to the driver, and the start-up of IDT, APICs and keyboard beside it | checked, proved |
| `Format` | the styling tags, directives and number conversions as pure operators, and what a string means | checked, proved through `Screen` |
| `Screen` | the console character by character: cursor, colours, UART, two cores and the echo | checked, proved |
| `KernelStrings` | what the kernel's strings have in common: the messages `Screen` is given | assumptions |
| `BlockDevice` | abstract: what a block device promises | checked, proved (as refined by `Ramdisk`) |
| `Ramdisk` | the search for the module, `Init`, reads and writes byte by byte | checked, proved |
| `MountTable` | `mount`, `unmount`, the comparison with an empty slot | checked, proved |
| `MC*` | what TLC needs beside the constants | |
| `*Proofs` | theorems and their proofs | |

### SmpKernel

A core runs a stack of at most three frames: its task (`InitKernel` or
`APEntry`), an IRQ handler on top of it, a panic on top of both. A *thread* is
one frame of one core, and only the topmost frame of a core runs (`Runs`), which
is what the stubs in `int.asm` do. `pc` maps each thread to a label; the labels
of `Follows` are the calls of `InitKernel`, `LateInit`, `APEntry`, `IRQHandler`
and `Panic` in source order. Several locked messages in a row with nothing
between them that another part of the model could notice are one label.

| variable | code |
|---|---|
| `lock` | `ConsoleLock.lock_state` |
| `inside` | which thread is between `Lock()` and `Unlock()` of a print function |
| `left`, `screen` | characters left of the current message; the last one drawn |
| `iflag` | RFLAGS.IF of each core |
| `handlers` | non-null entries of `ExternalInterruptHandlers` |
| `apsSafe` | `APsSafeToRun` |
| `drops`, `faults`, `irqs` | history: emergency unlocks, exceptions, interrupts |
| `debug` | which build runs: is the `Panic("DO NOT DEBUG")` of `kernel/init.cpp:62` compiled in? |

`Lock` is the successful test-and-set (a failing one spins, a stutter); `Emit`
one character; `Unlock` the clear, enabled when the message is out. `Raw` are the
calls that print with no lock. `Fault` may hit any core that has loaded its IDT at any
point, in a panic or after its `hlt` as well (an NMI or a machine check).
`Interrupt` needs IF set and reaches only the BSP. Interrupt gates clear IF
(`idt.cpp:101`, type 0x8E), `iretq` restores it. An AP whose `cpuid` tells of no
x2APIC panics in `InitLAPIC` (`NoX2Apic`, `lapic.cpp:41`), behind its IDT and before the gate;
`MaxFaults` counts it with the exceptions.

`APsSafeToRun` is neither volatile nor atomic, so its read is a data race; the
optimised build reloads it on every turn of the loop (the `pause` statement is a
volatile `asm`, and the loop has no other access), which is the one outcome
modelled. Exceptions of an AP before it loads its IDT are not modelled (nothing
of GooseOS handles them). `Builds` are the builds looked at: the kernel as
committed panics at `kernel/init.cpp:62` before it enables interrupts or wakes a
core; the build without that line goes on. The runs check both.

### Pmm and PageAllocator

`Pmm` has one action per loop of `PMM::Init`, in their order, and one for
`AllocatePage`'s two outcomes. The bitmap is the set of pages whose bit is 1.
`bitmap_size = total_pages / 8` rounds down (`pmm.cpp:57`), so up to seven
pages have bits behind the bitmap's last byte, in memory nobody wrote:
`MemSet` chooses their values nondeterministically. They do not keep them either. When the
bitmap's bytes end with a page, these bits lie on the next page, which `LockBitmap` does not lock:
`BitPage` says where a page's bit lies, `Unkept` which pages have theirs outside the bitmap's own pages,
and `Rewrite` lets the owner of a page that was handed out, or of memory that is not usable, change
all the bits on it at any time after the `memset`. `WellFormed` is what Limine promises of
its memory map: usable entries are page-aligned, overlap nothing and do not start at 0.
`PageAllocator` is what callers rely on: a fixed pool opened once, each page
handed out at most once, giving up only when the pool is empty. `Pmm` implements it for all pages
but the `Unkept` ones; where every bit lies on a page of the bitmap, those are all pages.

### Heap

Byte addresses, one action per turn of the two loops that map pages, so that a
panic of the PMM may come between any two of them. `mapped` are the pages
`AllocatePageAt` mapped; `frames` counts what the PMM has left; a mapping takes
one frame and as many table frames as the walk of `MapPage` may need (`TableFrames`).
`alloc.cpp` is in the tree but nothing calls it yet, `KRNL_MEM_HEAP_SIZE` is
not defined in `kconfig.hpp` and `kernel_end` not in the linker script; the model
takes both as constants. `InitialPages` is at least 1: for 0 the bound of the
loop at `alloc.cpp:108` wraps around.

### AddressSpace and PageMap

`mem` gives the entries of every frame; those of a frame nobody wrote are
`Garbage`, so that using a table before it is cleared shows. `cr3` is the BSP's
root; the other cores stay on Limine's (`x86/init.cpp:145-163` runs on the BSP
only). `path`, `target`, `level` and `table` are `MapPage`'s address (as one index per
level), `phys_addr`, the index of the running `GetNextTable` and
`current_table`; `fresh` is the frame `AllocatePage` returned. Taking a frame,
clearing it and writing the entry are steps of their own, because the hardware of
every core walks the same tables meanwhile; `Translate` is that walk.
The PMM is external to this module: it hands out its lowest frame and panics
when there is none. `MapPage` is called for pages that are not mapped, as its comment
at `vmm.cpp:45` expects, and no large page lies on the way. `Shared`, the slots both
roots share, are those Limine had filled before the clone: a table that
`MapPage` later adds under the BSP's root alone is not seen by the APs. `PageMap`
states that promise; it holds for every step, not only at the end of a `MapPage`.
Of the boot loader's tables the model assumes that they form a tree: none serves two levels
(`LayerAssumption`) and none is linked in two places (`TreeAssumption`). A mapping below a
table with two parents would appear at two addresses. There are at least two levels: the slots the roots
share are entries that name tables, not pages.

### Keyboard

The hardware between a key and `KeyboardInterruptHandler` as far as the order of
events matters: the keyboard's FIFO, which drops what does not fit; the one-byte
output buffer of the controller, whose line rises when it is filled; the
redirection entry of each pin, which forgets an edge while it is masked or names
another core; request and in-service bits of the local APIC; the gates of the IDT.
These are external and modelled from how the code uses them. Beside them the
BSP runs `EarlyInit` from `InitIDT` on, `Keyboard::Init` and `sti`, one action per
device access (`pc`), and the handler (`irq`). A BSP without x2APIC panics in `InitLAPIC` (`NoX2Apic`)
and stays there. Every byte of the start-up races the
user: `KeyEvent` and `Fill` are enabled throughout.

| variable | code |
|---|---|
| `pc`, `irq` | where the start-up and the interrupt handler are |
| `gates`, `ready` | `IDTTable`; whether it is loaded, the LAPIC is on, the PICs are masked |
| `IOAPICData`, `entry` | what `ParseMADT` found; the redirection entries |
| `registered` | `ExternalInterruptHandlers` |
| `irr`, `isr`, `iflag`, `int_no` | local APIC, RFLAGS.IF, the interrupt frame's number |
| `scancode`, `shift` | the handler's byte and the driver's flag |
| `held`, `fifo`, `full`, `byte`, `command`, `scanning`, `enabled` | the user, the keyboard and its controller |
| `lost`, `empties`, `events` | history: scancodes dropped by the keyboard, reads of an empty buffer, key events |

`SendIOAPICEOI` writes register 0x40, which is past the last redirection entry:
`IOAPICWrite` says that it changes nothing. The model is the build without the debug
panic; the committed one never enables interrupts. A machine without an MADT or
without an I/O APIC at base 0 is excluded (`FirmwareAssumption`): the code then
follows a null pointer. The local APIC's spurious vector 255, which has no gate (`idt.cpp:127`), is outside the
model: `VectorsHandled` speaks of the vectors of the I/O APIC and of the exceptions.

### Format and Screen

`Format` holds `ParseStyling`, `PrintUnsignedInternal`, `PrintHexInternal`, `Clamp`
and the directives of `PrintStringInternal` as operators on the characters in memory,
terminator and what lies behind it included. It also says what a string *means*
independently of them: a string is a list of items, `TextOf` writes it down as the source does,
and `Meaning` gives the coloured characters it should show, numbers through
their weight rather than their digits' extraction. `MaxDigits` bounds the numerals in question.

`KernelStrings` says what the strings of the kernel have in common, and the theorems about what is
drawn need no more: their characters are not the terminator; each tag is followed by something that is no tag, and no
text looks like one (`Parseable`); a number fits the buffer of the function that prints it, as
every u64 does (`Numbers`); a message as a whole leaves the default colours behind (`Restores`).
The two strings of `LateInit` that consist of a tag alone are not of this kind, and
`MCLateInit` gives them to `Screen` by themselves. Neither are tags with a number that is no index of the
palette, which no string of the kernel has: the clamp at `console.cpp:212` would let the palette's size itself through.

`Screen` runs these operators: a frame holds the lock, goes through the strings
of its message (prefix, text, newline), and calls `PrintChar`, which waits for the
UART, writes it, draws, increments `CursorPosition.x` by a load and a store, and
tests for the edge. `CursorPosition` is a plain global: after the store the compiler may
test the value it stored or load the variable again, and `Check` allows both. The echo
does the same on top of the BSP's task with no lock. `Serial::Init` ends with a write of
0x08 to the FIFO control register (`serial.cpp:56`, meant for modem control), which leaves
the UART with a transmit register of one character: `thr`.
`want` is history: what the frame's message has still to show.

### BlockDevice and Ramdisk

`Ramdisk` searches the list of modules as `GetCurrentRamdisk` does, with
`Skip` for invalid and differently named ones, and copies a sector in one action per turn of
`memcpy`. `Found` and `NotFound` both end in `InitDevice`: when no module matches, `ramdisk_file` was never
assigned, and either its assertion, or a page fault, ends in a panic, or `Init` makes a device of whatever it leads to
(`Strays`). The functions check no bounds, and their caller does not look at the module's size either
(`kernel/init.cpp:53`). So `Call` takes any sector number; the copy goes on as long as there is memory, and ends in a
page fault where there is none (`PageFault`). A sector whose pointer is null is refused (`Refuse`). The memory is that of the
modules and what lies around them; that a stray write may hit the driver's own variables is left out, and addresses
do not wrap around. `BlockDevice` has one step per read and write. The mapping lets a call take effect when it begins: while a
write is under way its sector is already the caller's buffer (`Disk`), while a read is, the
buffer is already the sector (`Buffer`). The abstract disk has every sector the memory holds (`Reach`), not those of the
module alone, for the code does not tell them apart. `sector_size`, which `Init` sets to the size times 512
(`ramdisk.cpp:95`), is never read.

### MountTable

A call of `mount` or `unmount` is one step. `strcmp` reads the first character of
both strings, so that comparing with the null prefix of an empty slot is a page
fault: the lower half of the address space is unmapped after `EarlyInit`. `Mount` keeps the
whole function, the part behind the comparison included, and TLC finds that no
call ever gets there while the table has an empty slot.

## 3. What is checked

| run | question | result |
|---|---|---|
| `smp_safety` | both builds, 3 cores, 2-character messages, 2 exceptions, 1 interrupt | all hold |
| `smp_liveness` | both builds, 3 cores, fair, 1 exception, 1 interrupt | all hold |
| `pmm` | every memory map of up to 3 segments, owners rewriting their pages: what the bitmap covers | all hold |
| `pmm_tail` | is every page handed out safe where the bitmap does not cover all? | **violated** |
| `heap` | every sequence of requests of 0, 3 or 5 bytes on 4-byte pages | all hold |
| `vmm` | tables of 3 levels, two upper slots of which Limine filled one, 6 frames | all hold |
| `heap_hole` | is every byte of a block mapped? | **violated** |
| `keyboard` | 3 keys, 4 key events, a FIFO of 2, three firmwares, any moment | all hold |
| `screen` | two messages by two cores, two echoes, rows of 2 characters | all hold |
| `screen_overread` | do the strings of `LateInit` stay inside their memory? | **violated** |
| `storage` | six lists of modules, four strays, two images, four calls of four sectors | all hold |
| `vfs_mount` | does `mount` mount? | **violated** |

The properties, and what would break them:

* `MutualExclusion`, `MessagesWhole`: until a panic drops the lock, one frame is
  in the console and messages come out whole.
* `DamageBounded`: after panics, at most one more frame than the lock admits per
  emergency unlock so far. It is the strongest true bound: a buried or remote holder that unlocks later
  clears the lock under its next owner, and the bound says that this does not compound.
* `NoOrphanLock`, `NoSelfDeadlock`: the lock is never left set by a frame that
  will not run again, and no frame waits for a lock held below it on its own core. The
  second depends on a chain of small facts: the keyboard handler is registered
  before `sti`, it echoes through `PrintChar`, the timer is skipped silently and
  a panic unlocks first. Each is a mutant of `PROJECT.json` or a step of the proof.
* `GateHolds`: no AP prints or takes interrupts before the BSP has drawn its banner.
* `PanicIsFinal`: a step never runs a frame below a panic.
* `BootSettles`, `PanicCompletes`, `IrqReturns`: with fairness, everything comes
  to rest, panics finish, handlers return. `BootSettles` leaves out the APs of a BSP that has panicked
  before it opened the gate: in the committed build they stay there for ever (`kernel/init.cpp:62`), and no property
  says more about them.
* `SafeWhereCovered`, `PoolExact`: where the bitmap has a bit for every page (`Covered`), pages handed out are usable,
  above 1 MiB and clear of the bitmap (`HandedSafe`), and free and handed-out pages are exactly
  the usable ones not reserved. `RefinesPageAllocator`: covered or not, the manager implements the abstract one for
  the pages whose bits it keeps. Of the others nothing is promised: once the owner of the page behind the bitmap has
  written over their bits they may be handed out again.
* `BlocksDisjoint`, `BlocksInHeap`, `HoleIsOnePage`: the heap's blocks never
  overlap, never reach past its end, and at most one page of the heap is unmapped.
* `NoWildTranslation`: no core's hardware meets an entry nobody wrote, whatever
  `MapPage` is in the middle of; `TablesPrivate`: an added table hangs off
  one entry and is never free or a mapped page; `RefinesPageMap`: a mapping adds one
  translation, seen on both roots exactly below a shared slot.

* `NoLostEdge`: once the drain loop has ended, a full output buffer has an interrupt due. The
  line is edge-triggered, so without it the keyboard is dead for good. `Responsive` says the
  rest: start-up ends, and every byte is then taken, whatever the timer does.
* `ReadsBacked`: the handler does not look at the status, so an interrupt left over from a drained
  byte makes it handle a byte twice; this happens at most once.
* `ShiftSettles`: when all is quiet, `shift` is set only while a shift key is down, unless
  the keyboard itself dropped a scancode. The converse does not hold (one flag for two keys).
* `VectorsHandled`: with interrupts enabled, every open pin leads to an IRQ stub, the PICs are
  masked, and every exception stub expects the error code the processor pushes.
* `ShowsMeaning`, `StyleRestored`: what is drawn, and in which colours, is what the strings mean, and
  a message leaves the default colours behind.
* `CursorHeals`: a cursor past the edge has a frame that will test for it.
* `SerialLossBounded`: the unlocked echo costs at most one character of the serial log per key.
* `InsideString`: the parser's pointer never passes the terminator.
* `RightModule`, `Contained`, `RefinesBlockDevice`: where a module has the right name the first one
  is the device, a write changes the bytes of its own sector only, wherever that lies, and the whole implements
  `BlockDevice`. Where none has, the code makes a device of whatever the unassigned pointer leads to, and so does the
  model; and no property says that a sector lies in the module, because no line of the code looks.

The four violations are disagreements between the code and what it says of
itself; each is an entry of `PROJECT.json` "findings": the PMM hands out pages
whose bit was never initialised when the page count is not a multiple of 8; the
heap's first growth leaves the page at its old end unmapped; a string that ends
in a styling tag is printed past its end; and the first call of `mount` is a page fault.

### Bounds

* Three cores: two APs give every relation between an AP and the BSP, and
  between two APs; messages of two characters are the shortest that can be torn.
  The APs are interchangeable in the model, so `smp_safety` takes them up to symmetry; the liveness run does not.
* Two exceptions: enough for a panic inside a panic on one core, and for panics
  of two cores at once; the liveness run has one, and messages of one character, to stay small.
* One interrupt: handlers do not nest (IF is clear in them); a second one would meet
  the same states of task and lock.
* Memory maps: three segments of 1, 2 or 5 pages, all kinds, on pages of 2 bytes and bytes of
  4 bits, with two reserved low pages: bitmaps of one and of several pages, an
  inexact last page, a reserved region with unaligned ends between or
  above usable ones. Maps where no entry can hold the bitmap are left out: the
  code then writes over physical address 0, beyond what the bits describe. `pmm` has maps with and without pages the
  bitmap does not cover. Of the latter it leaves out those where the bitmap's own pages are among these
  (all others satisfy `BitmapBelowTail`): there the loop that locks
  the bitmap writes bits that are not kept, and nothing is promised. `pmm_tail` has them all.
* Heap: two initial pages, five frames, requests below, near and above a page,
  and of 0 bytes; `kernel_end` on and off a page boundary. `heap_hole` keeps it
  on the boundary, so that the hole it shows comes from the growth alone.
* Page tables: three levels of three entries, the root's upper two being cloned. One
  upper slot has part of its subtree, the other is empty, so that walks
  find all, some or none of their tables; six frames are one root and enough for two complete
  walks or for running out in the middle of one.

* Keyboard: a letter and the two shift keys; four events are two shift keys pressed and released in
  any order; a FIFO of two overflows; tables and I/O APICs in several orders.
* Screen: a row of two characters wraps in every message; three messages between them have
  every tag, every directive, the number 0, several digits (`MaxDigits` is 3) and hexadecimal letters. A character follows every tag, as in every string of
  the kernel but the two that `screen_overread` takes. A tag directly followed by another is not among
  them: the second's first letter would be printed as text (`console.cpp:326`).
* Ramdisk: sectors of two bytes in a memory of eight; modules with an incomplete last sector and of less than one; strays
  inside the memory, across its end, behind it and at address 0.
* Mount table: three slots; the first call already faults.

`CHECK_DEADLOCK FALSE` in every configuration: the system stops when all cores
are halted, a panic has ended, or memory has run out.

### Fairness

`FairSpec` assumes weak fairness of each core's own instructions (`CoreStep`,
`BspStep`, `ApStep`): a processor that can execute keeps executing.
Nothing obliges a device to interrupt, an instruction to fault, or one core to win the
race for the lock: a test-and-set that fails spins, so no core's success is assumed. The liveness
properties hold nevertheless because every core prints finitely often.

`Keyboard` assumes it of the start-up, the handler, the delivery of a pending interrupt (`Deliver`), the
controller taking the next byte (`Fill`) and the devices carrying out a command (`CarryOut`): the code
waits for the latter in its loops. Nobody has to type and the timer need not
tick. That it may tick at any time, above or below the keyboard's vector, is why `Responsive` needs the
local APIC's priorities: the keyboard's vector 33 is the higher one.

## 4. What is proved

All proofs hold for every value of the constants under the named assumptions of the modules.

**SmpKernelProofs**: `TypeOK`, `NoSelfDeadlock`, `NoOrphanLock`, `PanicIsFinal`,
`DamageBounded`, `MutualExclusion`, `MessagesWhole`, `GateHolds`, for any finite set of cores, any number of
faults and interrupts, either build. None of these invariants is inductive
alone. `IInv` adds to the types:

* `IfInv`: where a core's interrupt flag is set, and never in a panic or a handler;
* `BootInv`: what the BSP's label says about `handlers` and the APs' labels;
  with it, the branch of `IRQHandler` that prints under the lock is unreachable;
* `IrqInv`: only the BSP has IRQ frames, and they are at labels that never lock;
* `OffInv`: a core that has not set itself up has no other frame and its interrupts off;
* `InsideInv`: a frame inside the console is at a printing label;
* `BuriedInv`: below a panic that has passed its emergency unlock nothing is inside;
* `LockInv`: a set lock has a holder that can finish.

`ConsoleEffects` states once what a step may do to `lock`, `inside` and `drops`;
`DamageBounded` is a counting argument on it (FiniteSetTheorems), `MutualExclusion`
its case of no drop, and `MessagesWhole` adds `ScreenInv`, which ties the character last
drawn to the holder's progress. `GateHolds` rests on `GateInv`: once `apsSafe` is set the
BSP's task is at or after its welcome, and an AP's label past the gate implies `apsSafe`.

**PmmProofs**: `TypeOK`; the refinement of `PageAllocator` wherever the bits of the bitmap's own pages lie on pages
it locks (`SelfLocked`); and `SafeWhereCovered` and `PoolExact`, which speak of a bitmap that covers every page
(`Covered`, what the run `pmm_tail` lacks), where in addition some entry had room for it (`Roomy`). A covering bitmap
with room is always `SelfLocked` (`CoveredSelfLocked`). `Rewrite` is among the steps: under `Covered` and `Roomy` no bit lies where it reaches
(`RoomKeepsBits`), without `Covered` it harms the `Unkept` pages alone. The invariant follows the loops of `Init`:
after the freeing loop only usable pages are free, after each locking loop its
pages are not, and what is handed out was free at the end. The arithmetic of
rounding pages is in lemmas of its own. `PoolExact` is the other direction, `EInv`: every usable
page that no loop locked is free or held. Its hard step is `LockReserved`: `ReservedApart` shows that rounding a
reserved region outwards takes no usable page, from `MapAssumption`, which lets a reserved region start and end
anywhere but not overlap usable memory.

**HeapProofs**: `TypeOK`, `BlocksDisjoint`, `BlocksInHeap`, `HoleIsOnePage`. The invariant says
that a growth under way has promised enough room:
`current + amount <= heapEnd + PageSize * togo`. `HoleIsOnePage` has one of its own, `HInv`: the pages
between the first one and that of `last` are mapped, and so are those above the page after it, up to `heapEnd`'s.

**KeyboardProofs**: `TypeOK`, `NoLostEdge`, `ReadsBacked`, `VectorsHandled`, `ShiftSettles`, for any letters, buffer size,
number of key events and firmware allowed by `FirmwareAssumption`. The proof counts the *tokens*, the handler
runs due that will read the buffer: each byte the controller delivers through an open pin adds one at most,
each read takes one, and `empties + Tokens <= full + 1` is inductive, the 1 being what the drain loop may have taken.
`NoLostEdge` needs that the pin is open, its entry names the BSP and the LAPIC is on before the last test of the
status: the invariant says at which label each of these is done. For `ShiftSettles` the invariant `Settling` follows
the last scancode of a shift key on its way: unless the keyboard dropped one, if that code is a make, a shift key is held, whether
it is still in the FIFO (`LastHolds`), in the buffer (`ByteHolds`) or with the handler (`CodeHolds`); and once none is under way
the flag is set only while one is held (`FlagHolds`).

**ScreenProofs**: `CursorHeals` and `SerialLossBounded` for any messages, screen width and numbers of messages and echoes.
A frame between its store and its test is the witness of the first. The second counts frames that have
seen the transmit register empty and not written yet: with the lock there is one of them and the echo, so each
overrun can be charged to an echo that is over or will be.

`TypeOK`, `InsideString`, `ShowsMeaning` and `StyleRestored` hold for any set of messages that `KernelStrings` admits. The
invariant `Script` says where a frame is in its message, in terms of items: the characters from its pointer on
are `TextOf` of a list of items, the arguments left are `ArgsOf` of the same list, and `want` is the rest of the
directive being printed followed by `Meaning` of that list. A step of the parser drops the list's first item, and
the lemmas show that it consumes exactly what `Written` wrote. They go from the operators up:

* `Counting`, `FlattenCons`: a flattened list is its first member followed by the flattened rest, by counting
  up to the member an index falls into;
* `TextCons`, `ArgsCons`, `StylesCons`, `MeaningCons`: so are the text, the arguments, the colours and the meaning of items;
* `Weights`, `NumberPrinted`: the digits `PrintNumber` extracts from the right are the numeral, whose weight is the number;
* `ScanIs`, `ParseScans`, `TagParsed`, `Reads`: `ParseStyling` on a written tag finds its kind, its colour and its end;
* `ReadFirst`, `ReadTag`, `ReadItem`, `ReadEnd`, `OwesNext`, `OwesDrawn`: what each step of `Screen` makes of the list.

**RamdiskProofs**: `TypeOK`, `Contained` and the refinement of `BlockDevice`, for any memory, sector size, list
of modules inside the memory and strays, and for every sector number. The invariant says that the call under way has copied exactly the bytes below
`copied`, which makes each turn of `memcpy` a stutter of the abstract device. `RightModule` follows the search
(`Searched`: nothing before `i` is the ramdisk) and rests on `StrcmpIsEquality`: where a module is named `ramdisk` the search
cannot come to the unassigned pointer.

**AddressSpaceProofs**: `TypeOK`, `NoWildTranslation`, `TablesPrivate` and the refinement of `PageMap`, for any number of levels
from two on, of entries and of frames.
None is inductive. `IInv` says that there is a depth `d` for the frames used as tables such that
`Layered`: a table has no unwritten entry and names tables one level down, and `MapPage`'s `table` is at its `level`;
`Unlinked`: the frame just allocated has no depth yet and is clear, or a copy of the upper half, before it gets one;
`Private`: a frame of the PMM is named once, and never while it is free or about to be linked.
`d` changes only when a table is linked or CR3 loaded. It starts as the boot loader's `LimineLevel`
(`LayerAssumption`: none of its tables serves two levels). The recursive functions `Translate` and `TablesOfLevel`
are brought in by `WalkExists`, `LayersExist`, `WalkStays` and `TablesHaveDepth`. They argue by the least counterexample,
whose existence (`LeastElement`) comes from the well-foundedness of the inclusion of finite sets.

For `RefinesPageMap` the invariant also has `Tree`: each table is named by one entry (`LinkedOnce`), but for the slots
of the upper half that both roots hold (`Halves`), and `MapPage` starts at the BSP's root and links a table only
where none is (`Course`); and `Route`: `MapPage`'s `table` is the one the walk of `path` meets at `level`. Then two walks that end in the same table took
the same way (`UniquePath`), and a walk that does not read the written entry sees nothing of the write
(`Lockstep`). So linking an empty table changes no translation (`LinkTableView`), and the last write adds
that of `path` alone: on the BSP's root, and on Limine's exactly when the walk went through a shared slot (`SlotShared`).
Loading CR3 changes none because the lower half is empty and the upper one is a copy (`LoadCr3Refines`).

**MountTableProofs**: `NothingMounted` for every size of the table.

Only model-checked: the liveness properties `BootSettles`, `PanicCompletes`, `IrqReturns` and `Responsive`, because the
prover handles neither fairness nor ENABLED. Every other property of a passing run is a theorem.

## 5. What is not modelled, and what is left

Not modelled: pixels, glyphs, colour masks and the cursor's row (output without
control flow; the row grows without bound, a hazard of the list), GDT and MSR layouts, bit layouts of gates
and page flags, large pages, the spurious vector, the Limine structures,
`testfs.cpp` (a stub), code without a caller (`ClearAndEnablePS2`, `GetCoreIDViaGS`, `MaskIOAPICPin`,
`SetConsoleState`), styling tags no string of the kernel has.

Left for later:

1. Compose `Heap` with `AddressSpace` in place of `TableFrames`, and `AddressSpace`
   with `PageAllocator` in place of its own pool.
2. A null-tolerant mount table, once `vfs.cpp:42` is fixed: slots that are never
   reused and a limit one short of the table (`vfs.cpp:58`) are unreachable today.

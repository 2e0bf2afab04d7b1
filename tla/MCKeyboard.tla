----------------------------- MODULE MCKeyboard -----------------------------
EXTENDS Keyboard

\* Two tables in both orders; one and two I/O APICs in both orders, beside a
\* local APIC and an interrupt source override, which ParseMADT skips.
Facp == [sig |-> "FACP", entries |-> <<>>]
Madt(es) == [sig |-> "APIC", entries |-> es]
Lapic == [type |-> 0, gsi |-> 0]
Override == [type |-> 2, gsi |-> 2]
Ioapic(base) == [type |-> 1, gsi |-> base]

MCFirmware ==
    {<<Facp, Madt(<<Lapic, Ioapic(0), Override>>)>>,
     <<Madt(<<Ioapic(0), Lapic, Ioapic(24)>>), Facp>>,
     <<Facp, Madt(<<Override, Ioapic(24), Ioapic(0)>>), Facp>>}
=============================================================================

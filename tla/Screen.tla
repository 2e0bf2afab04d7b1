------------------------------- MODULE Screen -------------------------------
(***************************************************************************)
(* What the console draws, character by character: PrintString and its     *)
(* relatives under the lock, on the BSP and on an application processor,   *)
(* and the keyboard's echo, which calls PrintChar from an interrupt of the *)
(* BSP without the lock.  All share the cursor, the colours and the UART.  *)
(* Panics, which force the lock open, are the subject of SmpKernel.        *)
(***************************************************************************)
EXTENDS Format

CONSTANTS
    Messages,     \* what one lock holds together: sequences of item lists
    Columns,      \* characters in a row
    MaxMessages,  \* bound: messages printed
    MaxEchoes     \* bound: keys echoed

ASSUME BoundAssumption ==
    Columns \in Nat \ {0} /\ MaxMessages \in Nat /\ MaxEchoes \in Nat /\ MaxDigits \in Nat

\* InitKernel's task, the interrupt on top of it, and APEntry's task.
Frame == {"task", "irq", "ap"}
Locking == {"task", "ap"}

VARIABLES
    at,        \* where each frame is in the console's functions
    lock,      \* ConsoleLock
    ready,     \* IsConsoleReady
    strings,   \* the strings of a frame's message, the current one first
    args,      \* its va_list
    s,         \* the index of PrintStringInternal's pointer in it
    pending,   \* characters PrintChar is called for, one after the other
    x,         \* CursorPosition.x
    loaded,    \* the x a frame loaded to increment
    style,     \* ConsoleConfiguration's colours
    thr,       \* is the UART's transmit register full?
    overruns,  \* characters written over one not yet sent
    messages, echoes,
    want       \* what a frame's message still has to show

local == <<strings, args, s, pending>>
serial == <<thr, overruns>>
counts == <<messages, echoes>>
vars == <<at, lock, ready, local, x, loaded, style, serial, counts, want>>

Default == [fg |-> White, bg |-> Black]
Text(t) == TextOf(Head(strings[t]))

Runs(t) == t = "task" => at["irq"] = "idle"
At(t, l) == Runs(t) /\ at[t] = l
Goto(t, l) == at' = [at EXCEPT ![t] = l]

Init ==
    /\ at = [t \in Frame |-> "idle"] /\ lock = FALSE /\ ready = FALSE
    /\ strings = [t \in Frame |-> <<>>] /\ args = [t \in Frame |-> <<>>]
    /\ s = [t \in Frame |-> 1] /\ pending = [t \in Frame |-> <<>>]
    /\ x = 0 /\ loaded = [t \in Frame |-> 0] /\ style = Default
    /\ thr = FALSE /\ overruns = 0
    /\ messages = 0 /\ echoes = 0 /\ want = [t \in Frame |-> <<>>]

-----------------------------------------------------------------------------
(* PrintStringInternal.                                                    *)

\* PrintString, INFO, Log, Error and OK take the lock.  The strings of a
\* message are those of their calls of PrintStringInternal.
Begin(t) ==
    /\ At(t, "idle") /\ ~lock /\ messages < MaxMessages
    /\ messages' = messages + 1
    /\ lock' = TRUE
    /\ \E m \in Messages :
          /\ strings' = [strings EXCEPT ![t] = m]
          /\ args' = [args EXCEPT ![t] = ArgsOf(Head(m))]
          /\ want' = [want EXCEPT ![t] = Meaning(FlattenSeq(m), style)]
    /\ s' = [s EXCEPT ![t] = 1]
    /\ Goto(t, IF ready THEN "loop" ELSE "init")
    /\ UNCHANGED <<ready, pending, x, loaded, style, serial, echoes>>

\* Console::Init, on the first call.
ConsoleInit(t) ==
    /\ At(t, "init")
    /\ ready' = TRUE
    /\ Goto(t, "loop")
    /\ UNCHANGED <<lock, local, x, loaded, style, serial, counts, want>>

\* Variant: a reset brings back the foreground only.
Style_ResetForeground(t) ==
    /\ At(t, "loop") /\ IsTag(Text(t), s[t])
    /\ LET tag == ParseStyling(Text(t), s[t])
       IN  /\ s' = [s EXCEPT ![t] = tag.next]
           /\ style' = CASE tag.kind = "reset" -> [style EXCEPT !.fg = White]
                         [] tag.kind = "fg" -> [style EXCEPT !.fg = tag.colour]
                         [] OTHER -> [style EXCEPT !.bg = tag.colour]
           /\ x' = IF tag.kind = "clear" THEN 0 ELSE x
    /\ Goto(t, "char")
    /\ UNCHANGED <<lock, ready, strings, args, pending, loaded, serial, counts, want>>

\* A tag is executed; it is not a character.
Style(t) ==
    /\ At(t, "loop") /\ IsTag(Text(t), s[t])
    /\ LET tag == ParseStyling(Text(t), s[t])
       IN  /\ s' = [s EXCEPT ![t] = tag.next]
           /\ style' = CASE tag.kind = "reset" -> Default
                         [] tag.kind = "fg" -> [style EXCEPT !.fg = tag.colour]
                         [] OTHER -> [style EXCEPT !.bg = tag.colour]
           /\ x' = IF tag.kind = "clear" THEN 0 ELSE x
    /\ Goto(t, "char")
    /\ UNCHANGED <<lock, ready, strings, args, pending, loaded, serial, counts, want>>

\* The rest of a turn of the loop, which follows a tag without a new test for
\* the terminator: a directive with its argument, or the character itself.
Char1(t) ==
    /\ \/ At(t, "char")
       \/ At(t, "loop") /\ ~IsTag(Text(t), s[t]) /\ Mem(Text(t), s[t]) # "NUL"
    /\ IF Mem(Text(t), s[t]) = "%"
         THEN LET spec == Mem(Text(t), s[t] + 1)
                  takes == TakesArgument(spec)
              IN  /\ pending' = [pending EXCEPT ![t] =
                        Directive(spec, IF takes THEN Head(args[t]) ELSE 0)]
                  /\ args' = [args EXCEPT ![t] = IF takes THEN Tail(@) ELSE @]
                  /\ s' = [s EXCEPT ![t] = @ + 2]
         ELSE /\ pending' = [pending EXCEPT ![t] = <<Mem(Text(t), s[t])>>]
              /\ s' = [s EXCEPT ![t] = @ + 1]
              /\ UNCHANGED args
    /\ Goto(t, IF pending'[t] = <<>> THEN "loop" ELSE "serial")
    /\ UNCHANGED <<lock, ready, strings, x, loaded, style, serial, counts, want>>

\* The terminator: the next string of the message, or its end.
EndString(t) ==
    /\ At(t, "loop") /\ Mem(Text(t), s[t]) = "NUL"
    /\ strings' = [strings EXCEPT ![t] = Tail(@)]
    /\ args' = [args EXCEPT ![t] =
          IF Len(strings[t]) > 1 THEN ArgsOf(strings[t][2]) ELSE <<>>]
    /\ s' = [s EXCEPT ![t] = 1]
    /\ Goto(t, IF Len(strings[t]) > 1 THEN "loop" ELSE "unlock")
    /\ UNCHANGED <<lock, ready, pending, x, loaded, style, serial, counts, want>>

Unlock(t) ==
    /\ At(t, "unlock")
    /\ lock' = FALSE
    /\ Goto(t, "idle")
    /\ UNCHANGED <<ready, local, x, loaded, style, serial, counts, want>>

-----------------------------------------------------------------------------
(* PrintChar, from any frame.                                              *)

\* Variant: nobody waits.
SerialWait_Skipped(t) ==
    /\ At(t, "serial")
    /\ Goto(t, "out")
    /\ UNCHANGED <<lock, ready, local, x, loaded, style, serial, counts, want>>

\* Serial::PrintChar sees the transmit register empty ...
SerialWait(t) ==
    /\ At(t, "serial") /\ ~thr
    /\ Goto(t, "out")
    /\ UNCHANGED <<lock, ready, local, x, loaded, style, serial, counts, want>>

\* ... and writes it.
SerialOut(t) ==
    /\ At(t, "out")
    /\ thr' = TRUE
    /\ overruns' = IF thr THEN overruns + 1 ELSE overruns
    /\ Goto(t, "draw")
    /\ UNCHANGED <<lock, ready, local, x, loaded, style, counts, want>>

\* PrintChar returns: to the next character, to the loop, or from the interrupt.
Return(t) ==
    /\ pending' = [pending EXCEPT ![t] = Tail(@)]
    /\ Goto(t, IF Len(pending[t]) > 1 THEN "serial"
               ELSE IF t \in Locking THEN "loop" ELSE "idle")

Newline(t) ==
    /\ At(t, "draw") /\ Head(pending[t]) = "\n"
    /\ x' = 0
    /\ want' = [want EXCEPT ![t] = IF @ = <<>> THEN @ ELSE Tail(@)]
    /\ Return(t)
    /\ UNCHANGED <<lock, ready, strings, args, s, loaded, style, serial, counts>>

\* DrawChar at the cursor, in the current colours.
Draw(t) ==
    /\ At(t, "draw") /\ Head(pending[t]) # "\n"
    /\ want' = [want EXCEPT ![t] = IF @ = <<>> THEN @ ELSE Tail(@)]
    /\ Goto(t, "load")
    /\ UNCHANGED <<lock, ready, local, x, loaded, style, serial, counts>>

\* CursorPosition.x += 1 is a load and a store, of an object that another
\* core may write meanwhile.
Load(t) ==
    /\ At(t, "load")
    /\ loaded' = [loaded EXCEPT ![t] = x]
    /\ Goto(t, "store")
    /\ UNCHANGED <<lock, ready, local, x, style, serial, counts, want>>

Store(t) ==
    /\ At(t, "store")
    /\ x' = loaded[t] + 1
    /\ Goto(t, "check")
    /\ UNCHANGED <<lock, ready, local, loaded, style, serial, counts, want>>

\* Variant: the test for the edge is for equality.
Check_Equal(t) ==
    /\ At(t, "check")
    /\ \E v \in {loaded[t] + 1, x} : x' = IF v = Columns THEN 0 ELSE x
    /\ Return(t)
    /\ UNCHANGED <<lock, ready, strings, args, s, loaded, style, serial, counts, want>>

\* The test for the edge, on the value just stored or on the variable again,
\* as the compiler likes.
Check(t) ==
    /\ At(t, "check")
    /\ \E v \in {loaded[t] + 1, x} : x' = IF v >= Columns THEN 0 ELSE x
    /\ Return(t)
    /\ UNCHANGED <<lock, ready, strings, args, s, loaded, style, serial, counts, want>>

\* The keyboard handler echoes a letter.  Interrupts are not enabled before
\* the console is ready.
Echo ==
    /\ at["irq"] = "idle" /\ ready /\ echoes < MaxEchoes
    /\ echoes' = echoes + 1
    /\ pending' = [pending EXCEPT !["irq"] = <<"k">>]
    /\ Goto("irq", "serial")
    /\ UNCHANGED <<lock, ready, strings, args, s, x, loaded, style, serial,
                   messages, want>>

\* The UART sends the character in its transmit register.  Serial::Init turns
\* its FIFO off again with its last write.
Transmit ==
    /\ thr
    /\ thr' = FALSE
    /\ UNCHANGED <<at, lock, ready, local, x, loaded, style, overruns, counts, want>>

-----------------------------------------------------------------------------
PrintString(t) ==
    \/ Begin(t) \/ ConsoleInit(t) \/ Style(t) \/ Char1(t) \/ EndString(t)
    \/ Unlock(t)
PrintChar(t) ==
    \/ SerialWait(t) \/ SerialOut(t) \/ Newline(t) \/ Draw(t)
    \/ Load(t) \/ Store(t) \/ Check(t)

Next ==
    \/ \E t \in Locking : PrintString(t)
    \/ \E t \in Frame : PrintChar(t)
    \/ Echo \/ Transmit

Spec == Init /\ [][Next]_vars

-----------------------------------------------------------------------------
TypeOK ==
    /\ at \in [Frame -> {"idle", "init", "loop", "char", "serial", "out", "draw",
                         "load", "store", "check", "unlock"}]
    /\ {lock, ready, thr} \subseteq BOOLEAN
    /\ s \in [Frame -> Nat]
    /\ x \in Nat /\ loaded \in [Frame -> Nat]
    /\ style \in [fg : Colour, bg : Colour]
    /\ overruns \in Nat /\ messages \in 0..MaxMessages /\ echoes \in 0..MaxEchoes

\* The cursor heals.  An echo may find the cursor past the right edge, before
\* the frame it interrupted has wrapped it, and two cores may lose each
\* other's increments; but whenever x is past the edge, a frame that put it
\* there has its test for the edge still to come (console.cpp:125-135).
CursorHeals ==
    x >= Columns => \E t \in Frame : at[t] = "check" /\ loaded[t] + 1 = x

\* A message shows the characters it means, each in the colours its tags
\* say, whatever is echoed or printed between: the parser ends each tag where
\* it ends, directives take their own arguments, numbers are written right.
ShowsMeaning ==
    \A t \in Locking :
        /\ at[t] = "draw" =>
             /\ want[t] # <<>>
             /\ Head(want[t]) = [c |-> Head(pending[t]), fg |-> style.fg, bg |-> style.bg]
        /\ at[t] = "unlock" => want[t] = <<>>

\* Between messages the colours are the default ones: no prefix or tag of one
\* message colours the echo or the next one.
StyleRestored == ~lock => style = Default

\* The echo does not take the lock, so its write to the UART may meet
\* another's between test and write (serial.cpp:30); each key costs at most
\* one character of the serial log.
SerialLossBounded == overruns <= echoes

\* console.cpp:204: the parser stops at the end of the string.
InsideString ==
    \A t \in Locking :
        at[t] \in {"loop", "char"} => s[t] <= Len(Text(t)) + 1
=============================================================================

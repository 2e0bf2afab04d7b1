---------------------------- MODULE ScreenProofs ----------------------------
(***************************************************************************)
(* Screen, for rows of any length and any messages of KernelStrings.       *)
(*                                                                         *)
(* First the cursor and the UART: what holds of the state that the echo    *)
(* shares with the lock's holder without taking the lock.  Then the text:  *)
(* what the console's parser and its conversions do with a string written  *)
(* as items, and that a message shows what its items mean.                 *)
(***************************************************************************)
EXTENDS KernelStrings, FiniteSetTheorems, SequenceTheorems, WellFoundedInduction, TLAPS

Label == {"idle", "init", "loop", "char", "serial", "out", "draw", "load", "store", "check",
          "unlock"}

\* The frames' types, the lock, and the one character of an echo.
Frames ==
    /\ at \in [Frame -> Label]
    /\ pending = [t \in Frame |-> pending[t]]
    /\ at["irq"] # "idle" => pending["irq"] = <<"k">>
    /\ at["irq"] \notin {"init", "loop", "char", "unlock"}
    /\ \A t \in Locking : at[t] # "idle" => lock
    /\ at["task"] = "idle" \/ at["ap"] = "idle"

Cursor == x \in Nat /\ loaded \in [Frame -> Nat]

\* A frame that holds the lock is about to overwrite the transmit register.
Overrunning == thr /\ \E t \in Locking : at[t] = "out"

\* Every echo pays for at most one overrun: its own, or the one its write
\* makes of another frame's.
Losses ==
    /\ overruns \in Nat /\ echoes \in Nat /\ thr \in BOOLEAN
    /\ ~(at["irq"] = "out" /\ Overrunning)
    /\ overruns + (IF at["irq"] \in {"serial", "out"} THEN 1 ELSE 0)
                + (IF Overrunning THEN 1 ELSE 0) <= echoes

IInv == Frames /\ Cursor /\ CursorHeals /\ Losses

-----------------------------------------------------------------------------
LEMMA InitIInv == Init => IInv
<1> SUFFICES ASSUME Init PROVE IInv
  OBVIOUS
<1>1. \A t \in Frame : at[t] = "idle" /\ loaded[t] = 0
  BY DEF Init
<1>2. Frames
  BY <1>1 DEF Init, Frames, Frame, Locking, Label
<1>3. Cursor /\ CursorHeals
  BY BoundAssumption DEF Init, Cursor, CursorHeals
<1>4. Losses
  <2>1. at["irq"] = "idle" /\ thr = FALSE /\ overruns = 0 /\ echoes = 0
    BY <1>1 DEF Init, Frame
  <2>2. ~Overrunning /\ at["irq"] \notin {"serial", "out"}
    BY <2>1 DEF Overrunning
  <2>3. 0 + 0 + 0 <= 0
    OBVIOUS
  <2> QED
    BY <2>1, <2>2, <2>3 DEF Losses
<1> QED
  BY <1>2, <1>3, <1>4 DEF IInv

\* Where each step takes its frame; no step moves another.
MoveOf(t, from, to) == at[t] \in from /\ \E l \in to : at' = [at EXCEPT ![t] = l]

LEMMA PrintStringMoves ==
    ASSUME NEW t \in Locking, PrintString(t)
    PROVE  /\ \/ MoveOf(t, {"idle"}, {"loop", "init"}) /\ ~lock /\ lock'
              \/ MoveOf(t, {"init", "loop", "char"}, {"loop", "char", "serial", "unlock"})
                 /\ lock' = lock
              \/ MoveOf(t, {"unlock"}, {"idle"})
           /\ UNCHANGED <<loaded, thr, overruns, echoes>>
           /\ x' \in {0, x}
           /\ pending' \in {pending} \cup {[pending EXCEPT ![t] = pending'[t]]}
<1>1. CASE Begin(t)
  BY <1>1 DEF Begin, At, Goto, MoveOf, serial
<1>2. CASE ConsoleInit(t)
  BY <1>2 DEF ConsoleInit, At, Goto, MoveOf, serial, counts, local
<1>3. CASE Style(t)
  BY <1>3 DEF Style, At, Goto, MoveOf, serial, counts
<1>4. CASE Char1(t)
  <2>1. MoveOf(t, {"loop", "char"}, {"loop", "serial"}) /\ lock' = lock
    BY <1>4 DEF Char1, At, Goto, MoveOf
  <2>2. \E v : pending' = [pending EXCEPT ![t] = v]
    BY <1>4 DEF Char1
  <2> QED
    BY <1>4, <2>1, <2>2 DEF Char1, MoveOf, serial, counts
<1>5. CASE EndString(t)
  BY <1>5 DEF EndString, At, Goto, MoveOf, serial, counts
<1>6. CASE Unlock(t)
  BY <1>6 DEF Unlock, At, Goto, MoveOf, serial, counts, local
<1> QED
  BY <1>1, <1>2, <1>3, <1>4, <1>5, <1>6 DEF PrintString

\* One step of PrintChar: where its frame goes, and what it does on the way.
Returns(t) ==
    /\ pending' = [pending EXCEPT ![t] = Tail(@)]
    /\ at' = [at EXCEPT ![t] = IF Len(pending[t]) > 1 THEN "serial"
                               ELSE IF t \in Locking THEN "loop" ELSE "idle"]

LEMMA PrintCharMoves ==
    ASSUME NEW t \in Frame, PrintChar(t)
    PROVE  /\ UNCHANGED <<lock, echoes>>
           /\ \/ /\ MoveOf(t, {"serial"}, {"out"}) /\ ~thr
                 /\ UNCHANGED <<pending, x, loaded, thr, overruns>>
              \/ /\ MoveOf(t, {"out"}, {"draw"}) /\ thr' = TRUE
                 /\ overruns' = (IF thr THEN overruns + 1 ELSE overruns)
                 /\ UNCHANGED <<pending, x, loaded>>
              \/ /\ at[t] = "draw" /\ Returns(t) /\ x' = 0
                 /\ UNCHANGED <<loaded, thr, overruns>>
              \/ /\ MoveOf(t, {"draw"}, {"load"})
                 /\ UNCHANGED <<pending, x, loaded, thr, overruns>>
              \/ /\ MoveOf(t, {"load"}, {"store"}) /\ loaded' = [loaded EXCEPT ![t] = x]
                 /\ UNCHANGED <<pending, x, thr, overruns>>
              \/ /\ MoveOf(t, {"store"}, {"check"}) /\ x' = loaded[t] + 1
                 /\ UNCHANGED <<pending, loaded, thr, overruns>>
              \/ /\ at[t] = "check" /\ Returns(t)
                 /\ \E v \in {loaded[t] + 1, x} : x' = IF v >= Columns THEN 0 ELSE x
                 /\ UNCHANGED <<loaded, thr, overruns>>
<1>1. CASE SerialWait(t)
  BY <1>1 DEF SerialWait, At, Goto, MoveOf, serial, counts, local
<1>2. CASE SerialOut(t)
  BY <1>2 DEF SerialOut, At, Goto, MoveOf, counts, local
<1>3. CASE Newline(t)
  BY <1>3 DEF Newline, At, Goto, Return, Returns, serial, counts
<1>4. CASE Draw(t)
  BY <1>4 DEF Draw, At, Goto, MoveOf, serial, counts, local
<1>5. CASE Load(t)
  BY <1>5 DEF Load, At, Goto, MoveOf, serial, counts, local
<1>6. CASE Store(t)
  BY <1>6 DEF Store, At, Goto, MoveOf, serial, counts, local
<1>7. CASE Check(t)
  BY <1>7 DEF Check, At, Goto, Return, Returns, serial, counts
<1> QED
  BY <1>1, <1>2, <1>3, <1>4, <1>5, <1>6, <1>7 DEF PrintChar

-----------------------------------------------------------------------------
LEMMA PrintStringIInv ==
    ASSUME IInv, NEW t \in Locking, PrintString(t)
    PROVE  IInv'
<1>1. t \in Frame /\ t # "irq" /\ "irq" \in Frame /\ t \in {"task", "ap"}
  BY DEF Locking, Frame
<1>2. /\ at[t] \in {"idle", "init", "loop", "char", "unlock"}
      /\ at' = [at EXCEPT ![t] = at'[t]]
      /\ at'[t] \in {"idle", "init", "loop", "char", "serial", "unlock"}
      /\ \A u \in Frame : u # t => at'[u] = at[u]
      /\ at[t] = "idle" => ~lock /\ lock'
      /\ at[t] # "idle" /\ at'[t] # "idle" => lock' = lock
  BY <1>1, PrintStringMoves DEF MoveOf, IInv, Frames
<1>3. Frames'
  <2>1. at' \in [Frame -> Label]
    BY <1>1, <1>2 DEF IInv, Frames, Label
  <2>2. pending' = [u \in Frame |-> pending'[u]] /\ pending'["irq"] = pending["irq"]
    BY <1>1, PrintStringMoves DEF IInv, Frames
  <2>3. \A u \in Locking : u # t => at[u] = "idle"
    BY <1>1, <1>2 DEF IInv, Frames, Locking
  <2>4. \A u \in Locking : u # t => at'[u] = "idle"
    BY <2>3, <1>2 DEF Locking, Frame
  <2>5. \A u \in Locking : at'[u] # "idle" => lock'
    BY <1>2, <2>4 DEF IInv, Frames
  <2>6. at'["task"] = "idle" \/ at'["ap"] = "idle"
    BY <1>1, <2>4 DEF Locking
  <2> QED
    BY <1>1, <1>2, <2>1, <2>2, <2>5, <2>6 DEF IInv, Frames
<1>4. Cursor' /\ CursorHeals'
  <2>1. loaded' = loaded /\ x' \in {0, x}
    BY PrintStringMoves
  <2>2. \A u \in Frame : at[u] = "check" => at'[u] = "check"
    BY <1>2
  <2> QED
    BY <2>1, <2>2, BoundAssumption DEF IInv, Cursor, CursorHeals
<1>5. Losses'
  <2>1. UNCHANGED <<thr, overruns, echoes>> /\ at'["irq"] = at["irq"]
    BY <1>1, <1>2, PrintStringMoves
  <2>2. Overrunning' => Overrunning
    BY <1>2, <2>1 DEF Overrunning, Locking, Frame
  <2> QED
    BY <2>1, <2>2 DEF IInv, Losses
<1> QED
  BY <1>3, <1>4, <1>5 DEF IInv

LEMMA PrintCharFrames ==
    ASSUME IInv, NEW t \in Frame, PrintChar(t)
    PROVE  Frames'
<1>1. /\ lock' = lock
      /\ at[t] \in {"serial", "out", "draw", "load", "store", "check"}
      /\ at' = [at EXCEPT ![t] = at'[t]]
      /\ at'[t] \in {"idle", "loop", "serial", "out", "draw", "load", "store", "check"}
      /\ \A u \in Frame : u # t => at'[u] = at[u]
      /\ pending' = pending \/ Returns(t)
  BY PrintCharMoves DEF MoveOf, Returns, IInv, Frames
<1>2. at' \in [Frame -> Label]
  BY <1>1 DEF IInv, Frames, Label
<1>3. pending' = [u \in Frame |-> pending'[u]]
      /\ \A u \in Frame : u # t => pending'[u] = pending[u]
  BY <1>1 DEF IInv, Frames, Returns
<1>4. t = "irq" => at'["irq"] = "idle" \/ (pending' = pending /\ at'["irq"] # "loop")
  <2>1. CASE Returns(t) /\ t = "irq"
    <3>1. pending["irq"] = <<"k">> /\ ~(Len(<<"k">>) > 1) /\ "irq" \notin Locking
      BY <1>1, <2>1 DEF IInv, Frames, Locking
    <3> QED
      BY <2>1, <3>1 DEF IInv, Frames, Returns, Frame
  <2>2. CASE ~Returns(t)
    BY <2>2, <1>1, PrintCharMoves DEF MoveOf, IInv, Frames
  <2> QED
    BY <2>1, <2>2
<1>5. \A u \in Locking : at'[u] # "idle" => at[u] # "idle"
  BY <1>1 DEF Locking, Frame
<1>6. at["irq"] # "idle" => pending["irq"] = <<"k">>
  BY DEF IInv, Frames
<1>7. at'["irq"] # "idle" => pending'["irq"] = <<"k">>
  BY <1>1, <1>3, <1>4, <1>6 DEF Frame
<1>8. at'["irq"] \notin {"init", "loop", "char", "unlock"}
  BY <1>1, <1>4 DEF IInv, Frames, Frame
<1>9. at'["task"] = "idle" \/ at'["ap"] = "idle"
  BY <1>5 DEF IInv, Frames, Locking
<1> QED
  BY <1>1, <1>2, <1>3, <1>5, <1>7, <1>8, <1>9 DEF IInv, Frames

\* The cursor.
LEMMA PrintCharCursor ==
    ASSUME IInv, NEW t \in Frame, PrintChar(t)
    PROVE  Cursor' /\ CursorHeals'
<1>1. \A u \in Frame : u # t => at'[u] = at[u]
  BY PrintCharMoves DEF MoveOf, Returns, IInv, Frames
<1>2. x \in Nat /\ loaded \in [Frame -> Nat]
  BY DEF IInv, Cursor
<1>3. CASE at[t] \in {"serial", "out", "draw"}
  <2>1. x' \in {0, x} /\ loaded' = loaded
    BY <1>3, PrintCharMoves DEF MoveOf
  <2> QED
    BY <1>1, <1>2, <1>3, <2>1, BoundAssumption DEF IInv, Cursor, CursorHeals
<1>4. CASE at[t] = "load"
  <2>1. x' = x /\ loaded' = [loaded EXCEPT ![t] = x]
    BY <1>4, PrintCharMoves DEF MoveOf
  <2>2. \A u \in Frame : u # t => loaded'[u] = loaded[u]
    BY <1>2, <2>1
  <2> QED
    BY <1>1, <1>2, <1>4, <2>1, <2>2 DEF IInv, Cursor, CursorHeals
<1>5. CASE at[t] = "store"
  <2>1. x' = loaded[t] + 1 /\ loaded' = loaded /\ at'[t] = "check"
    BY <1>5, PrintCharMoves DEF MoveOf, IInv, Frames
  <2> QED
    BY <1>2, <2>1 DEF Cursor, CursorHeals
<1>6. CASE at[t] = "check"
  <2>1. PICK v \in {loaded[t] + 1, x} : x' = IF v >= Columns THEN 0 ELSE x
    BY <1>6, PrintCharMoves DEF MoveOf
  <2>2. loaded' = loaded
    BY <1>6, PrintCharMoves DEF MoveOf
  <2>3. Cursor'
    BY <1>2, <2>1, <2>2 DEF Cursor
  <2>4. CursorHeals'
    <3>1. SUFFICES ASSUME x' >= Columns
                   PROVE  \E u \in Frame : at'[u] = "check" /\ loaded'[u] + 1 = x'
      BY DEF CursorHeals
    <3>2. x' = x /\ ~(v >= Columns)
      BY <2>1, <3>1, BoundAssumption
    <3>3. PICK u \in Frame : at[u] = "check" /\ loaded[u] + 1 = x
      BY <3>1, <3>2 DEF IInv, CursorHeals
    <3>4. u # t
      BY <2>1, <3>1, <3>2, <3>3
    <3> QED
      BY <1>1, <2>2, <3>2, <3>3, <3>4
  <2> QED
    BY <2>3, <2>4
<1> QED
  BY <1>3, <1>4, <1>5, <1>6, PrintCharMoves DEF MoveOf

-----------------------------------------------------------------------------
(* The UART.                                                               *)

\* An interrupt's write: the overrun it suffers or leaves to the other frame.
LEMMA PrintCharLosses ==
    ASSUME IInv, Frames', NEW t \in Frame, PrintChar(t)
    PROVE  Losses'
<1>1. \A u \in Frame : u # t => at'[u] = at[u]
  BY PrintCharMoves DEF MoveOf, Returns, IInv, Frames
<1>2. echoes' = echoes /\ overruns \in Nat /\ echoes \in Nat /\ thr \in BOOLEAN
  BY PrintCharMoves DEF IInv, Losses
<1>3. \A u \in Locking : u # t /\ t \in Locking => at[u] = "idle"
  <2>1. at[t] # "idle"
    BY PrintCharMoves DEF MoveOf
  <2> QED
    BY <2>1 DEF IInv, Frames, Locking
<1>4. "irq" \in Frame /\ Locking \subseteq Frame /\ "irq" \notin Locking
      /\ (t = "irq" \/ t \in Locking)
  BY DEF Frame, Locking
<1> DEFINE own == IF at["irq"] \in {"serial", "out"} THEN 1 ELSE 0
           others == IF Overrunning THEN 1 ELSE 0
<1>5. overruns + own + others <= echoes /\ ~(at["irq"] = "out" /\ Overrunning)
  BY DEF IInv, Losses
<1>6. CASE at[t] = "serial"
  <2>1. ~thr /\ thr' = thr /\ overruns' = overruns /\ at'[t] = "out"
    BY <1>6, PrintCharMoves DEF MoveOf, IInv, Frames
  <2>2. ~Overrunning /\ ~Overrunning'
    BY <2>1 DEF Overrunning
  <2>3. at'["irq"] \in {"serial", "out"} <=> at["irq"] \in {"serial", "out"}
    BY <1>1, <1>4, <1>6, <2>1
  <2> QED
    BY <1>2, <1>5, <2>1, <2>2, <2>3 DEF Losses
<1>7. CASE at[t] = "out" /\ t = "irq"
  <2>1. thr' = TRUE /\ overruns' = (IF thr THEN overruns + 1 ELSE overruns) /\ at'[t] = "draw"
    BY <1>7, PrintCharMoves DEF MoveOf, IInv, Frames
  <2>2. ~Overrunning /\ (thr => ~Overrunning')
    BY <1>1, <1>4, <1>5, <1>7 DEF Overrunning
  <2>3. overruns + 1 <= echoes
    BY <1>2, <1>5, <1>7, <2>2
  <2>4. ~(at'["irq"] \in {"serial", "out"})
    BY <1>7, <2>1
  <2>5. CASE thr
    BY <1>2, <2>1, <2>2, <2>3, <2>4, <2>5 DEF Losses
  <2>6. CASE ~thr
    BY <1>2, <2>1, <2>2, <2>3, <2>4, <2>6 DEF Losses
  <2> QED
    BY <2>5, <2>6
<1>8. CASE at[t] = "out" /\ t \in Locking
  <2>1. thr' = TRUE /\ overruns' = (IF thr THEN overruns + 1 ELSE overruns) /\ at'[t] = "draw"
    BY <1>8, PrintCharMoves DEF MoveOf, IInv, Frames
  <2>2. ~Overrunning' /\ (thr <=> Overrunning)
    BY <1>1, <1>2, <1>3, <1>4, <1>8, <2>1 DEF Overrunning
  <2>3. at'["irq"] = at["irq"]
    BY <1>1, <1>4, <1>8
  <2>4. CASE thr
    <3>1. overruns' = overruns + 1 /\ overruns + own + 1 <= echoes
      BY <1>5, <2>1, <2>2, <2>4
    <3> QED
      BY <1>2, <2>1, <2>2, <2>3, <3>1 DEF Losses
  <2>5. CASE ~thr
    BY <1>2, <1>5, <2>1, <2>2, <2>3, <2>5 DEF Losses
  <2> QED
    BY <2>4, <2>5
<1>9. CASE at[t] \notin {"serial", "out"}
  <2>1. thr' = thr /\ overruns' = overruns /\ at'[t] # "out"
    BY <1>9, PrintCharMoves DEF MoveOf, Returns, IInv, Frames
  <2>2. Overrunning' => Overrunning
    BY <1>1, <1>4, <2>1 DEF Overrunning
  <2>3. at'["irq"] \in {"serial", "out"} => at["irq"] \in {"serial", "out"}
    <3>1. CASE t = "irq"
      <4>1. at'["irq"] # "serial"
        <5>1. CASE Returns(t)
          <6>1. pending["irq"] = <<"k">> /\ ~(Len(<<"k">>) > 1)
            <7>1. at["irq"] # "idle"
              BY <3>1, PrintCharMoves DEF MoveOf
            <7>2. Len(<<"k">>) = 1
              OBVIOUS
            <7> QED
              BY <7>1, <7>2 DEF IInv, Frames
          <6> QED
            BY <3>1, <5>1, <6>1, <1>4 DEF Returns, IInv, Frames
        <5>2. CASE ~Returns(t)
          BY <1>9, <3>1, <5>2, PrintCharMoves DEF MoveOf, IInv, Frames
        <5> QED
          BY <5>1, <5>2
      <4> QED
        BY <2>1, <3>1, <4>1
    <3> QED
      BY <1>1, <1>4, <3>1
  <2>4. at'["irq"] = "out" => at["irq"] = "out"
    BY <1>1, <1>4, <2>1
  <2> QED
    BY <1>2, <1>5, <2>1, <2>2, <2>3, <2>4 DEF Losses
<1> QED
  BY <1>4, <1>6, <1>7, <1>8, <1>9

-----------------------------------------------------------------------------
LEMMA Invariance == Spec => []IInv
<1>1. IInv /\ Echo => IInv'
  <2> SUFFICES ASSUME IInv, Echo PROVE IInv'
    OBVIOUS
  <2>1. "irq" \in Frame /\ "irq" \notin Locking /\ Locking \subseteq Frame
    BY DEF Frame, Locking
  <2>2. /\ at["irq"] = "idle" /\ at' = [at EXCEPT !["irq"] = "serial"]
        /\ pending' = [pending EXCEPT !["irq"] = <<"k">>]
        /\ echoes' = echoes + 1
        /\ UNCHANGED <<lock, x, loaded, thr, overruns>>
    BY DEF Echo, Goto, serial
  <2>3. /\ at'["irq"] = "serial" /\ \A u \in Frame : u # "irq" => at'[u] = at[u]
        /\ at' \in [Frame -> Label]
    BY <2>1, <2>2 DEF IInv, Frames, Label
  <2>4. Frames'
    BY <2>1, <2>2, <2>3 DEF IInv, Frames, Locking
  <2>5. Cursor' /\ CursorHeals'
    BY <2>2, <2>3 DEF IInv, Cursor, CursorHeals
  <2>6. Overrunning' <=> Overrunning
    BY <2>1, <2>2, <2>3 DEF Overrunning
  <2>7. Losses'
    <3>1. /\ overruns \in Nat /\ echoes \in Nat /\ thr \in BOOLEAN
          /\ overruns + (IF Overrunning THEN 1 ELSE 0) <= echoes
      BY <2>2 DEF IInv, Losses
    <3> QED
      BY <2>2, <2>3, <2>6, <3>1 DEF Losses
  <2> QED
    BY <2>4, <2>5, <2>7 DEF IInv
<1>2. IInv /\ Transmit => IInv'
  <2> SUFFICES ASSUME IInv, Transmit PROVE IInv'
    OBVIOUS
  <2>1. thr' = FALSE /\ UNCHANGED <<at, lock, pending, x, loaded, overruns, echoes>>
    BY DEF Transmit, local, counts
  <2>2. Losses'
    <3>1. ~Overrunning'
      BY <2>1 DEF Overrunning
    <3> DEFINE own == IF at["irq"] \in {"serial", "out"} THEN 1 ELSE 0
    <3>2. overruns \in Nat /\ echoes \in Nat /\ overruns + own <= echoes
      BY DEF IInv, Losses
    <3>3. overruns' + own' + 0 <= echoes'
      BY <2>1, <3>2
    <3> QED
      BY <2>1, <3>1, <3>2, <3>3 DEF Losses
  <2> QED
    BY <2>1, <2>2 DEF IInv, Frames, Cursor, CursorHeals
<1>3. IInv /\ UNCHANGED vars => IInv'
  BY DEF IInv, Frames, Cursor, CursorHeals, Losses, Overrunning, vars, local, serial, counts
<1>4. IInv /\ [Next]_vars => IInv'
  <2>1. ASSUME IInv, NEW t \in Frame, PrintChar(t) PROVE IInv'
    BY <2>1, PrintCharFrames, PrintCharCursor, PrintCharLosses DEF IInv
  <2> QED
    BY <1>1, <1>2, <1>3, <2>1, PrintStringIInv DEF Next
<1> QED
  BY InitIInv, <1>4, PTL DEF Spec

\* Wherever the echo finds the cursor, and whatever increments two cores lose,
\* a cursor past the edge is about to be wrapped (console.cpp:122-135).
THEOREM CursorWraps == Spec => []CursorHeals
<1>1. IInv => CursorHeals
  BY DEF IInv
<1> QED
  BY Invariance, <1>1, PTL

\* However long the messages, each echoed key costs the serial log at most one
\* character (serial.cpp:28-32).
THEOREM SerialLoss == Spec => []SerialLossBounded
<1>1. IInv => SerialLossBounded
  BY DEF IInv, Losses, SerialLossBounded
<1> QED
  BY Invariance, <1>1, PTL
-----------------------------------------------------------------------------
(* Counting: the first number outside a set that holds 0 and is closed     *)
(* under successor would have a predecessor inside it.                     *)

LEMMA LeastElement ==
    ASSUME NEW T \in SUBSET Nat, NEW n \in T
    PROVE  \E m \in T : \A y \in T : m <= y
<1> DEFINE S == 1..n
           R == StrictSubsetOrdering(S)
           U == {1..k : k \in {j \in T : j <= n}}
<1>1. IsFiniteSet(S)
  BY FS_Interval
<1>2. IsWellFoundedOn(R, SUBSET S)
  <2> HIDE DEF S
  <2>1. FiniteSubsetsOf(S) = SUBSET S
    BY <1>1, FS_FiniteSubsetsOfFinite
  <2>2. IsWellFoundedOn(R, FiniteSubsetsOf(S))
    BY FS_StrictSubsetOrderingWellFounded, Zenon
  <2> HIDE DEF R
  <2> QED
    BY <2>1, <2>2, Zenon
<1>3. U \subseteq SUBSET S /\ U # {}
  OBVIOUS
<1>4. PICK m \in U : \A y \in U : ~(<<y, m>> \in R)
  <2> HIDE DEF R, U, S
  <2> QED
    BY <1>2, <1>3, WFMin
<1>5. PICK k \in T : k <= n /\ m = 1..k
  BY <1>4
<1>6. ASSUME NEW j \in T, j < k PROVE FALSE
  <2>1. 1..j \in U
    BY <1>6, <1>5
  <2>2. 1..j \subseteq 1..k /\ 1..j # 1..k /\ 1..k \subseteq S
    BY <1>6, <1>5
  <2>3. <<1..j, m>> \in R
    BY <2>2, <1>5 DEF StrictSubsetOrdering
  <2> QED
    BY <2>1, <2>3, <1>4
<1> QED
  BY <1>5, <1>6

LEMMA Counting ==
    ASSUME NEW T, 0 \in T, \A i \in Nat : i \in T => i + 1 \in T
    PROVE  Nat \subseteq T
<1> SUFFICES ASSUME NEW n \in Nat \ T PROVE FALSE
  OBVIOUS
<1>1. Nat \ T \in SUBSET Nat /\ n \in Nat \ T
  OBVIOUS
<1>2. PICK m \in Nat \ T : \A y \in Nat \ T : m <= y
  BY <1>1, LeastElement
<1>3. m - 1 \in Nat /\ m = (m - 1) + 1
  BY <1>2
<1> QED
  BY <1>2, <1>3

-----------------------------------------------------------------------------
(* What FlattenSeq computes: it takes its sequences one after the other.   *)
(* The provers do better with concatenation under a name of its own.       *)

Cat(a, b) == a \o b

LEMMA CatFacts ==
    ASSUME NEW S, NEW a \in Seq(S), NEW b \in Seq(S)
    PROVE  /\ Cat(a, b) \in Seq(S) /\ Len(Cat(a, b)) = Len(a) + Len(b)
           /\ Cat(a, <<>>) = a /\ Cat(<<>>, a) = a
BY DEF Cat

LEMMA CatType ==
    ASSUME NEW S, NEW a \in Seq(S), NEW b \in Seq(S)
    PROVE  Cat(a, b) \in Seq(S)
BY DEF Cat

LEMMA CatFirst ==
    ASSUME NEW S, NEW a \in Seq(S), NEW b \in Seq(S), NEW i \in 1..Len(a)
    PROVE  Cat(a, b)[i] = a[i]
BY DEF Cat

LEMMA CatSecond ==
    ASSUME NEW S, NEW a \in Seq(S), NEW b \in Seq(S), NEW i \in 1..Len(b)
    PROVE  Cat(a, b)[Len(a) + i] = b[i]
BY DEF Cat

LEMMA CatAssociative ==
    ASSUME NEW S, NEW a \in Seq(S), NEW b \in Seq(S), NEW c \in Seq(S)
    PROVE  Cat(Cat(a, b), c) = Cat(a, Cat(b, c))
BY DEF Cat

Flat(f, q, n) == f = [i \in 1..n |-> IF i = 1 THEN q[i] ELSE Cat(f[i - 1], q[i])]

LEMMA FlatExists ==
    ASSUME NEW q, NEW n \in Nat
    PROVE  \E f : Flat(f, q, n)
<1> DEFINE T == {i \in Nat : \E f : Flat(f, q, i)}
<1>1. 0 \in T
  <2>1. Flat([i \in 1..0 |-> q[i]], q, 0)
    BY DEF Flat
  <2> QED
    BY <2>1
<1>2. ASSUME NEW i \in Nat, i \in T PROVE i + 1 \in T
  <2>1. PICK f : Flat(f, q, i)
    BY <1>2
  <2> DEFINE last == IF i = 0 THEN q[1] ELSE Cat(f[i], q[i + 1])
             g == [j \in 1..(i + 1) |-> IF j = i + 1 THEN last ELSE f[j]]
  <2>2. ASSUME NEW j \in 1..(i + 1)
        PROVE  g[j] = IF j = 1 THEN q[j] ELSE Cat(g[j - 1], q[j])
    <3>1. CASE j = i + 1 /\ i = 0
      BY <3>1
    <3>2. CASE j = i + 1 /\ i # 0
      <4>1. j - 1 = i /\ i \in 1..(i + 1) /\ i # i + 1 /\ j # 1
        BY <3>2
      <4>2. g[j - 1] = f[i] /\ g[j] = Cat(f[i], q[i + 1])
        BY <3>2, <4>1
      <4> QED
        BY <3>2, <4>1, <4>2
    <3>3. CASE j # i + 1
      <4>1. j \in 1..i /\ g[j] = f[j]
        BY <3>3
      <4>2. f[j] = IF j = 1 THEN q[j] ELSE Cat(f[j - 1], q[j])
        BY <2>1, <4>1 DEF Flat
      <4>3. j # 1 => g[j - 1] = f[j - 1]
        BY <4>1
      <4> HIDE DEF g
      <4> QED
        BY <4>1, <4>2, <4>3
    <3> QED
      BY <3>1, <3>2, <3>3
  <2>3. Flat(g, q, i + 1)
    <3>1. g = [j \in 1..(i + 1) |-> g[j]]
      OBVIOUS
    <3> HIDE DEF g
    <3> QED
      BY <2>2, <3>1 DEF Flat
  <2> QED
    BY <2>3
<1>3. Nat \subseteq T
  <2> HIDE DEF T
  <2> QED
    BY <1>1, <1>2, Counting
<1> QED
  BY <1>3

LEMMA FlatSteps ==
    ASSUME NEW S, NEW q \in Seq(Seq(S)), NEW f, Flat(f, q, Len(q))
    PROVE  /\ \A i \in 1..Len(q) : f[i] \in Seq(S)
           /\ Len(q) # 0 => f[1] = q[1]
           /\ \A i \in 2..Len(q) : f[i] = Cat(f[i - 1], q[i])
<1>1. \A i \in 1..Len(q) : f[i] = IF i = 1 THEN q[i] ELSE Cat(f[i - 1], q[i])
  BY DEF Flat
<1>2. \A i \in 1..Len(q) : q[i] \in Seq(S)
  OBVIOUS
<1> DEFINE T == {i \in Nat : i \in 1..Len(q) => f[i] \in Seq(S)}
<1>3. 0 \in T
  OBVIOUS
<1>4. ASSUME NEW i \in Nat, i \in T PROVE i + 1 \in T
  <2>1. CASE i + 1 \in 1..Len(q) /\ i # 0
    <3>1. i \in 1..Len(q) /\ i + 1 # 1 /\ (i + 1) - 1 = i
      BY <2>1
    <3>2. f[i + 1] = Cat(f[i], q[i + 1])
      BY <1>1, <2>1, <3>1
    <3>3. f[i] \in Seq(S) /\ q[i + 1] \in Seq(S)
      BY <1>2, <1>4, <2>1, <3>1
    <3>4. f[i + 1] \in Seq(S)
      <4>1. Cat(f[i], q[i + 1]) \in Seq(S)
        BY <3>3, CatType, Zenon
      <4> QED
        BY <3>2, <4>1, Zenon
    <3> QED
      BY <3>4
  <2>2. CASE i = 0
    <3>1. i + 1 \in 1..Len(q) => f[1] = q[1] /\ i + 1 = 1
      BY <1>1, <2>2
    <3> QED
      BY <1>2, <3>1
  <2>3. CASE i + 1 \notin 1..Len(q)
    BY <2>3
  <2> QED
    BY <2>1, <2>2, <2>3
<1>5. Nat \subseteq T
  <2> HIDE DEF T
  <2> QED
    BY <1>3, <1>4, Counting
<1>6. Len(q) \in Nat
  OBVIOUS
<1>7. \A i \in 1..Len(q) : f[i] \in Seq(S)
  BY <1>5
<1>8. Len(q) # 0 => f[1] = q[1]
  BY <1>1, <1>6
<1>9. \A i \in 2..Len(q) : f[i] = Cat(f[i - 1], q[i])
  BY <1>1, <1>6
<1> QED
  BY <1>7, <1>8, <1>9, Zenon

LEMMA FlattenEmpty == FlattenSeq(<<>>) = <<>>
BY DEF FlattenSeq

LEMMA FlattenIs ==
    ASSUME NEW S, NEW q \in Seq(S), q # <<>>
    PROVE  \E f : Flat(f, q, Len(q)) /\ FlattenSeq(q) = f[Len(q)]
<1>1. Len(q) \in Nat /\ Len(q) # 0
  OBVIOUS
<1>2. \E f : Flat(f, q, Len(q))
  BY <1>1, FlatExists
<1>3. Flat(CHOOSE f : Flat(f, q, Len(q)), q, Len(q))
  BY <1>2
<1> DEFINE g == CHOOSE f : Flat(f, q, Len(q))
<1>4. g = CHOOSE f : f = [i \in 1..Len(q) |-> IF i = 1 THEN q[i] ELSE f[i - 1] \o q[i]]
  BY DEF Flat, Cat
<1>5. FlattenSeq(q) = g[Len(q)]
  BY <1>1, <1>4 DEF FlattenSeq
<1> QED
  BY <1>3, <1>5

LEMMA FlattenCons ==
    ASSUME NEW S, NEW q \in Seq(Seq(S)), q # <<>>
    PROVE  /\ FlattenSeq(q) = Cat(Head(q), FlattenSeq(Tail(q)))
           /\ FlattenSeq(q) \in Seq(S) /\ FlattenSeq(Tail(q)) \in Seq(S)
<1>1. PICK r : r = Tail(q)
  OBVIOUS
<1>2. /\ Head(q) = q[1] /\ q[1] \in Seq(S) /\ r \in Seq(Seq(S)) /\ Len(r) = Len(q) - 1
      /\ Len(q) \in Nat \ {0} /\ \A i \in 1..Len(r) : r[i] = q[i + 1]
  BY <1>1, HeadTailProperties, EmptySeq
<1>3. PICK f : Flat(f, q, Len(q)) /\ FlattenSeq(q) = f[Len(q)]
  BY FlattenIs
<1>4. /\ \A i \in 1..Len(q) : f[i] \in Seq(S)
      /\ f[1] = q[1] /\ \A i \in 2..Len(q) : f[i] = Cat(f[i - 1], q[i])
  <2>1. \A i \in 1..Len(q) : f[i] \in Seq(S)
    BY <1>3, FlatSteps
  <2>2. f[1] = q[1]
    BY <1>2, <1>3, FlatSteps
  <2>3. \A i \in 2..Len(q) : f[i] = Cat(f[i - 1], q[i])
    BY <1>3, FlatSteps
  <2> QED
    BY <2>1, <2>2, <2>3, Zenon
<1>5. CASE r = <<>>
  <2>1. Len(r) = 0
    BY <1>5, EmptySeq
  <2>2. Len(q) = 1
    BY <1>2, <2>1
  <2>3. FlattenSeq(r) = <<>> /\ <<>> \in Seq(S)
    BY <1>5, FlattenEmpty, EmptySeq, Zenon
  <2>4. Cat(q[1], <<>>) = q[1]
    BY <1>2, CatFacts
  <2> QED
    BY <1>1, <1>2, <1>3, <1>4, <2>2, <2>3, <2>4, Zenon
<1>6. CASE r # <<>>
  <2>1. Len(r) \in Nat \ {0}
    BY <1>2, <1>6, EmptySeq
  <2>2. PICK g : Flat(g, r, Len(r)) /\ FlattenSeq(r) = g[Len(r)]
    BY <1>2, <1>6, FlattenIs, Zenon
  <2>3. /\ \A i \in 1..Len(r) : g[i] \in Seq(S)
        /\ g[1] = r[1] /\ \A i \in 2..Len(r) : g[i] = Cat(g[i - 1], r[i])
    <3>1. r \in Seq(Seq(S)) /\ Flat(g, r, Len(r)) /\ Len(r) # 0
      BY <1>2, <2>1, <2>2
    <3>2. \A i \in 1..Len(r) : g[i] \in Seq(S)
      BY <3>1, FlatSteps
    <3>3. g[1] = r[1]
      BY <3>1, FlatSteps
    <3>4. \A i \in 2..Len(r) : g[i] = Cat(g[i - 1], r[i])
      BY <3>1, FlatSteps
    <3> QED
      BY <3>2, <3>3, <3>4
  <2> DEFINE T == {i \in Nat : i + 1 \in 1..Len(r) => f[i + 2] = Cat(q[1], g[i + 1])}
  <2>4. 0 \in T
    <3>1. 2 \in 2..Len(q) /\ 1 \in 1..Len(r)
      BY <1>2, <2>1
    <3>2. f[2] = Cat(f[1], q[2]) /\ r[1] = q[2]
      BY <1>2, <1>4, <3>1
    <3> QED
      BY <1>4, <2>3, <3>2
  <2>5. ASSUME NEW i \in Nat, f[i + 2] = Cat(q[1], g[i + 1]), i + 2 \in 1..Len(r)
        PROVE  f[i + 3] = Cat(q[1], g[i + 2])
    <3>1. /\ i + 3 \in 2..Len(q) /\ i + 2 \in 2..Len(r) /\ i + 1 \in 1..Len(r)
          /\ (i + 3) - 1 = i + 2 /\ (i + 2) - 1 = i + 1 /\ (i + 2) + 1 = i + 3
      BY <1>2, <2>5
    <3>2. f[i + 3] = Cat(f[i + 2], q[i + 3]) /\ g[i + 2] = Cat(g[i + 1], r[i + 2])
          /\ r[i + 2] = q[i + 3]
      BY <1>2, <1>4, <2>3, <2>5, <3>1
    <3>3. q[1] \in Seq(S) /\ g[i + 1] \in Seq(S) /\ r[i + 2] \in Seq(S)
      BY <1>2, <2>3, <2>5, <3>1, ElementOfSeq
    <3>4. Cat(Cat(q[1], g[i + 1]), r[i + 2]) = Cat(q[1], Cat(g[i + 1], r[i + 2]))
      BY <3>3, CatAssociative
    <3> QED
      BY <2>5, <3>2, <3>4
  <2>6. Nat \subseteq T
    <3>1. ASSUME NEW i \in Nat, i \in T PROVE i + 1 \in T
      <4>1. i + 1 \in Nat /\ (i + 1) + 1 = i + 2 /\ (i + 1) + 2 = i + 3
            /\ (i + 2 \in 1..Len(r) => i + 1 \in 1..Len(r))
        BY <2>1
      <4>2. i + 2 \in 1..Len(r) => f[i + 3] = Cat(q[1], g[i + 2])
        BY <2>5, <3>1, <4>1
      <4> QED
        BY <4>1, <4>2
    <3> HIDE DEF T
    <3> QED
      BY <2>4, <3>1, Counting
  <2>7. f[Len(q)] = Cat(q[1], g[Len(r)])
    <3>1. Len(r) - 1 \in Nat /\ (Len(r) - 1) + 1 = Len(r) /\ (Len(r) - 1) + 2 = Len(q)
          /\ Len(r) \in 1..Len(r)
      BY <1>2, <2>1
    <3>2. Len(r) - 1 \in T
      BY <2>6, <3>1
    <3> QED
      BY <3>1, <3>2
  <2>8. g[Len(r)] \in Seq(S) /\ f[Len(q)] \in Seq(S)
    BY <1>2, <1>4, <2>1, <2>3
  <2> QED
    BY <1>1, <1>2, <1>3, <2>2, <2>7, <2>8, Zenon
<1> QED
  BY <1>5, <1>6

LEMMA IsSequence ==
    ASSUME NEW S, NEW n \in Nat, NEW q \in [1..n -> S]
    PROVE  q \in Seq(S) /\ Len(q) = n
OBVIOUS

LEMMA IsTail ==
    ASSUME NEW S, NEW q \in Seq(S), NEW r \in Seq(S), Len(q) = Len(r) + 1,
           \A i \in 1..Len(r) : r[i] = q[i + 1]
    PROVE  Tail(q) = r /\ Head(q) = q[1] /\ q # <<>>
<1>1. Len(r) \in Nat /\ q # <<>>
  OBVIOUS
<1>2. Tail(q) \in Seq(S) /\ Len(Tail(q)) = Len(r) /\ \A i \in 1..Len(Tail(q)) : Tail(q)[i] = r[i]
  BY <1>1, HeadTailProperties
<1>3. Tail(q) = r
  BY <1>2, SeqEqual
<1> QED
  BY <1>1, <1>3

LEMMA HeadAndTail ==
    ASSUME NEW S, NEW q \in Seq(S), q # <<>>
    PROVE  /\ Head(q) = q[1] /\ Head(q) \in S /\ Tail(q) \in Seq(S)
           /\ Len(q) \in Nat \ {0} /\ Len(Tail(q)) = Len(q) - 1
           /\ \A i \in 1..Len(Tail(q)) : Tail(q)[i] = q[i + 1]
BY HeadTailProperties, EmptySeq

LEMMA CatTail ==
    ASSUME NEW S, NEW q \in Seq(S), NEW r \in Seq(S), q # <<>>
    PROVE  /\ Cat(q, r) \in Seq(S) /\ Cat(q, r) # <<>>
           /\ Head(Cat(q, r)) = Head(q) /\ Tail(Cat(q, r)) = Cat(Tail(q), r)
<1>1. /\ Head(q) = q[1] /\ Tail(q) \in Seq(S)
      /\ Len(q) \in Nat \ {0} /\ Len(Tail(q)) = Len(q) - 1
      /\ \A i \in 1..Len(Tail(q)) : Tail(q)[i] = q[i + 1]
  BY HeadAndTail
<1>2. PICK t : t = Tail(q)
  OBVIOUS
<1>3. PICK u, v : u = Cat(q, r) /\ v = Cat(t, r)
  OBVIOUS
<1>4. /\ u \in Seq(S) /\ v \in Seq(S) /\ Len(r) \in Nat
      /\ Len(u) = Len(q) + Len(r) /\ Len(v) = Len(q) - 1 + Len(r)
      /\ \A i \in 1..Len(q) : u[i] = q[i]
      /\ \A i \in 1..Len(r) : u[Len(q) + i] = r[i]
      /\ \A i \in 1..(Len(q) - 1) : v[i] = t[i]
      /\ \A i \in 1..Len(r) : v[Len(q) - 1 + i] = r[i]
  <2>1. /\ u \in Seq(S) /\ Len(u) = Len(q) + Len(r)
        /\ \A i \in 1..Len(q) : u[i] = q[i]
        /\ \A i \in 1..Len(r) : u[Len(q) + i] = r[i]
    <3>1. u \in Seq(S) /\ Len(u) = Len(q) + Len(r)
      BY <1>3, CatFacts
    <3>2. \A i \in 1..Len(q) : u[i] = q[i]
      BY <1>3, CatFirst
    <3>3. \A i \in 1..Len(r) : u[Len(q) + i] = r[i]
      BY <1>3, CatSecond
    <3> QED
      BY <3>1, <3>2, <3>3
  <2>2. t \in Seq(S) /\ Len(t) = Len(q) - 1
    BY <1>1, <1>2
  <2>3. /\ v \in Seq(S) /\ Len(v) = Len(t) + Len(r)
        /\ \A i \in 1..Len(t) : v[i] = t[i]
        /\ \A i \in 1..Len(r) : v[Len(t) + i] = r[i]
    <3>1. v \in Seq(S) /\ Len(v) = Len(t) + Len(r)
      BY <1>3, <2>2, CatFacts
    <3>2. \A i \in 1..Len(t) : v[i] = t[i]
      BY <1>3, <2>2, CatFirst
    <3>3. \A i \in 1..Len(r) : v[Len(t) + i] = r[i]
      BY <1>3, <2>2, CatSecond
    <3> QED
      BY <3>1, <3>2, <3>3
  <2> QED
    BY <2>1, <2>2, <2>3
<1>5. ASSUME NEW i \in 1..Len(v) PROVE v[i] = u[i + 1]
  <2>1. CASE i <= Len(q) - 1
    <3>1. i \in 1..(Len(q) - 1) /\ i + 1 \in 1..Len(q)
      BY <1>1, <1>4, <1>5, <2>1
    <3> QED
      BY <1>1, <1>2, <1>4, <3>1
  <2>2. CASE ~(i <= Len(q) - 1)
    <3>1. PICK j \in 1..Len(r) : i = Len(q) - 1 + j /\ i + 1 = Len(q) + j
      <4> DEFINE j == i - (Len(q) - 1)
      <4>1. j \in 1..Len(r) /\ i = Len(q) - 1 + j /\ i + 1 = Len(q) + j
        BY <1>1, <1>4, <1>5, <2>2
      <4> QED
        BY <4>1
    <3> QED
      BY <1>4, <3>1
  <2> QED
    BY <2>1, <2>2
<1>6. Len(u) = Len(v) + 1
  BY <1>1, <1>4
<1>7. Tail(u) = v /\ Head(u) = u[1] /\ u # <<>>
  BY <1>4, <1>5, <1>6, IsTail
<1>8. u[1] = q[1]
  BY <1>1, <1>4
<1> QED
  BY <1>1, <1>2, <1>3, <1>4, <1>7, <1>8

-----------------------------------------------------------------------------
(* Lists of items, from the front: what they are written as, their         *)
(* arguments, and what they show.                                          *)

\* The characters a string in memory is made of.
Alphabet ==
    Printable \cup {Digit[i] : i \in 1..16}
      \cup {"C", "[", "]", ",", "f", "g", "b", "c", "r", "%", "s", "u", "x"}

Palette == [fg : Colour, bg : Colour]
Glyph == [c : Alphabet, fg : Colour, bg : Colour]

LEMMA ItemKinds ==
    ASSUME NEW it \in Item
    PROVE  \/ it \in Plain /\ it.kind = "char" /\ it.c \in Printable \ {"%"}
           \/ it \in Styling /\ it.kind \in {"fg", "bg", "clear", "reset"} /\ it.n \in Colour
           \/ it \in Substitution /\ it.kind = "s" /\ it.arg \in Seq(Printable)
           \/ it \in Substitution /\ it.kind = "u" /\ it.arg \in Numbers(10)
           \/ it \in Substitution /\ it.kind = "x" /\ it.arg \in Numbers(16)
BY DEF Item, Plain, Styling, Substitution

LEMMA Tuples ==
    ASSUME NEW S, NEW a \in S, NEW b \in S, NEW c \in S, NEW d \in S, NEW e \in S,
           NEW f \in S, NEW g \in S
    PROVE  /\ <<a, b, c, d, e>> \in Seq(S) /\ <<a, b, c, d, e, f>> \in Seq(S)
           /\ <<a, b, c, d, e, f, g>> \in Seq(S)
OBVIOUS

LEMMA WrittenType ==
    ASSUME NEW it \in Item
    PROVE  Written(it) \in Seq(Alphabet)
<1>1. \A n \in Colour : Digit[n + 1] \in Alphabet
  <2>1. \A n \in Colour : n + 1 \in 1..16
    BY DEF Colour, TerminalPaletteSize
  <2> QED
    BY <2>1 DEF Alphabet
<1>2. CASE it.kind = "char" /\ it.c \in Alphabet
  BY <1>2 DEF Written
<1>3. CASE it.kind \in {"fg", "bg", "clear", "reset"} /\ it.n \in Colour
  <2>1. PICK d \in Alphabet : d = Digit[it.n + 1]
    BY <1>1, <1>3
  <2>2. /\ <<"C", "[", "r", ",", "]">> \in Seq(Alphabet)
        /\ <<"C", "[", "c", ",", d, "]">> \in Seq(Alphabet)
        /\ <<"C", "[", "f", "g", ",", d, "]">> \in Seq(Alphabet)
        /\ <<"C", "[", "b", "g", ",", d, "]">> \in Seq(Alphabet)
    <3>1. {"C", "[", "r", ",", "]", "c", "f", "g", "b"} \subseteq Alphabet
      BY DEF Alphabet
    <3>2. /\ "C" \in Alphabet /\ "[" \in Alphabet /\ "r" \in Alphabet /\ "," \in Alphabet
          /\ "]" \in Alphabet /\ "c" \in Alphabet /\ "f" \in Alphabet /\ "g" \in Alphabet
          /\ "b" \in Alphabet /\ d \in Alphabet
      BY <2>1, <3>1
    <3>3. <<"C", "[", "r", ",", "]">> \in Seq(Alphabet)
          /\ <<"C", "[", "c", ",", d, "]">> \in Seq(Alphabet)
      BY <3>2, Tuples
    <3>4. <<"C", "[", "f", "g", ",", d, "]">> \in Seq(Alphabet)
      BY <3>2, Tuples
    <3>5. <<"C", "[", "b", "g", ",", d, "]">> \in Seq(Alphabet)
      BY <3>2, Tuples
    <3> QED
      BY <3>3, <3>4, <3>5
  <2> QED
    BY <1>3, <2>1, <2>2 DEF Written
<1>4. CASE it.kind \in {"s", "u", "x"}
  <2>1. it.kind \in Alphabet /\ "%" \in Alphabet
    BY <1>4 DEF Alphabet
  <2>2. Written(it) = <<"%", it.kind>>
    BY <1>4 DEF Written
  <2> QED
    BY <2>1, <2>2
<1> QED
  BY <1>2, <1>3, <1>4, ItemKinds DEF Alphabet

LEMMA TextCons ==
    ASSUME NEW items \in Seq(Item), items # <<>>
    PROVE  /\ TextOf(items) = Cat(Written(Head(items)), TextOf(Tail(items)))
           /\ TextOf(items) \in Seq(Alphabet) /\ TextOf(Tail(items)) \in Seq(Alphabet)
           /\ Written(Head(items)) \in Seq(Alphabet)
<1>1. PICK rest : rest = Tail(items)
  OBVIOUS
<1>2. /\ Head(items) = items[1] /\ Head(items) \in Item /\ rest \in Seq(Item)
      /\ Len(items) \in Nat \ {0} /\ Len(rest) = Len(items) - 1 /\ Len(rest) \in Nat
      /\ \A i \in 1..Len(rest) : rest[i] = items[i + 1]
  BY <1>1, HeadAndTail
<1>3. PICK q : q = [i \in 1..Len(items) |-> Written(items[i])]
  OBVIOUS
<1>4. PICK r : r = [i \in 1..Len(rest) |-> Written(rest[i])]
  OBVIOUS
<1>5. q \in [1..Len(items) -> Seq(Alphabet)] /\ r \in [1..Len(rest) -> Seq(Alphabet)]
  BY <1>2, <1>3, <1>4, WrittenType, ElementOfSeq
<1>6. q \in Seq(Seq(Alphabet)) /\ Len(q) = Len(items) /\ r \in Seq(Seq(Alphabet)) /\ Len(r) = Len(rest)
  BY <1>2, <1>5, IsSequence
<1>7. \A i \in 1..Len(r) : r[i] = q[i + 1]
  BY <1>2, <1>3, <1>4, <1>6
<1>8. Tail(q) = r /\ Head(q) = q[1] /\ q # <<>>
  <2>1. Len(q) = Len(r) + 1
    BY <1>2, <1>6
  <2> QED
    BY <1>6, <1>7, <2>1, IsTail
<1>9. TextOf(items) = FlattenSeq(q) /\ TextOf(rest) = FlattenSeq(r)
  <2>1. DOMAIN items = 1..Len(items) /\ DOMAIN rest = 1..Len(rest)
    BY <1>2
  <2> QED
    BY <1>3, <1>4, <2>1 DEF TextOf
<1>10. q[1] = Written(Head(items))
  BY <1>2, <1>3
<1> QED
  BY <1>1, <1>2, <1>6, <1>8, <1>9, <1>10, FlattenCons, WrittenType

LEMMA ArgsCons ==
    ASSUME NEW items \in Seq(Item), items # <<>>
    PROVE  /\ ArgsOf(items) =
             IF TakesArgument(Head(items).kind)
               THEN Cat(<<Head(items).arg>>, ArgsOf(Tail(items))) ELSE ArgsOf(Tail(items))
           /\ TakesArgument(Head(items).kind) =>
                /\ Head(ArgsOf(items)) = Head(items).arg
                /\ Tail(ArgsOf(items)) = ArgsOf(Tail(items))
<1> DEFINE A(it) == IF TakesArgument(it.kind) THEN <<it.arg>> ELSE <<>>
           S == Seq(Alphabet) \cup Nat
<1>1. PICK rest : rest = Tail(items)
  OBVIOUS
<1>2. /\ Head(items) = items[1] /\ Head(items) \in Item /\ rest \in Seq(Item)
      /\ Len(items) \in Nat \ {0} /\ Len(rest) = Len(items) - 1 /\ Len(rest) \in Nat
      /\ \A i \in 1..Len(rest) : rest[i] = items[i + 1]
  BY <1>1, HeadAndTail
<1>3. PICK q : q = [i \in 1..Len(items) |-> A(items[i])]
  OBVIOUS
<1>4. PICK r : r = [i \in 1..Len(rest) |-> A(rest[i])]
  OBVIOUS
<1>5. ASSUME NEW it \in Item PROVE A(it) \in Seq(S)
  <2>1. TakesArgument(it.kind) => it.arg \in S
    <3>1. Seq(Printable) \subseteq Seq(Alphabet)
      BY SeqMonotonic DEF Alphabet
    <3>2. Numbers(10) \subseteq Nat /\ Numbers(16) \subseteq Nat
      BY DEF Numbers
    <3>3. TakesArgument(it.kind) => it.kind \in {"s", "u", "x"}
      BY DEF TakesArgument
    <3> QED
      BY <1>5, <3>1, <3>2, <3>3, ItemKinds
  <2> HIDE DEF S
  <2>2. \A a \in S : <<a>> \in Seq(S)
    OBVIOUS
  <2> QED
    BY <2>1, <2>2
<1> HIDE DEF A, S
<1>6. q \in [1..Len(items) -> Seq(S)] /\ r \in [1..Len(rest) -> Seq(S)]
  BY <1>2, <1>3, <1>4, <1>5, ElementOfSeq
<1>7. q \in Seq(Seq(S)) /\ Len(q) = Len(items) /\ r \in Seq(Seq(S)) /\ Len(r) = Len(rest)
  BY <1>2, <1>6, IsSequence
<1>8. \A i \in 1..Len(r) : r[i] = q[i + 1]
  BY <1>2, <1>3, <1>4, <1>7
<1>9. Tail(q) = r /\ Head(q) = q[1] /\ q # <<>>
  <2>1. Len(q) = Len(r) + 1
    BY <1>2, <1>7
  <2> QED
    BY <1>7, <1>8, <2>1, IsTail
<1>10. ArgsOf(items) = FlattenSeq(q) /\ ArgsOf(rest) = FlattenSeq(r)
  <2>1. DOMAIN items = 1..Len(items) /\ DOMAIN rest = 1..Len(rest)
    BY <1>2
  <2> QED
    BY <1>3, <1>4, <2>1 DEF ArgsOf, A
<1>11. q[1] = A(Head(items))
  BY <1>2, <1>3
<1>12. ArgsOf(items) = Cat(A(Head(items)), ArgsOf(rest)) /\ ArgsOf(rest) \in Seq(S)
  BY <1>7, <1>9, <1>10, <1>11, FlattenCons
<1>13. Cat(<<>>, ArgsOf(rest)) = ArgsOf(rest)
  BY <1>12, CatFacts
<1>14. CASE TakesArgument(Head(items).kind)
  <2>1. PICK a : a = Head(items).arg
    OBVIOUS
  <2>2. A(Head(items)) = <<a>>
    BY <1>14, <2>1 DEF A
  <2>3. PICK one : one = <<a>>
    OBVIOUS
  <2>4. ArgsOf(items) = Cat(one, ArgsOf(rest)) /\ one \in Seq(S)
    BY <1>2, <1>5, <1>12, <2>2, <2>3
  <2>5. one # <<>> /\ Head(one) = a /\ Tail(one) = <<>>
    BY <2>3
  <2>6. Head(ArgsOf(items)) = a /\ Tail(ArgsOf(items)) = Cat(<<>>, ArgsOf(rest))
    <3>1. PICK z \in Seq(S) : z = ArgsOf(rest)
      BY <1>12
    <3>2. Head(Cat(one, z)) = Head(one) /\ Tail(Cat(one, z)) = Cat(Tail(one), z)
      BY <2>4, <2>5, CatTail
    <3> QED
      BY <2>4, <2>5, <3>1, <3>2
  <2> QED
    BY <1>1, <1>13, <1>14, <2>1, <2>3, <2>4, <2>6
<1>15. CASE ~TakesArgument(Head(items).kind)
  BY <1>1, <1>12, <1>13, <1>15 DEF A
<1> QED
  BY <1>14, <1>15

StyleRun(f, items, k, n) ==
    f = [i \in 0..n |-> IF i = 0 THEN k ELSE Restyle(items[i], f[i - 1])]

LEMMA StyleRunExists ==
    ASSUME NEW items, NEW k, NEW n \in Nat
    PROVE  \E f : StyleRun(f, items, k, n)
<1> DEFINE T == {i \in Nat : \E f : StyleRun(f, items, k, i)}
<1>1. 0 \in T
  <2> DEFINE g == [i \in 0..0 |-> k]
  <2>1. StyleRun(g, items, k, 0)
    BY DEF StyleRun
  <2> QED
    BY <2>1
<1>2. ASSUME NEW i \in Nat, i \in T PROVE i + 1 \in T
  <2>1. PICK f : StyleRun(f, items, k, i)
    BY <1>2
  <2> DEFINE g == [j \in 0..(i + 1) |->
                     IF j = i + 1 THEN Restyle(items[i + 1], f[i]) ELSE f[j]]
  <2>2. ASSUME NEW j \in 0..(i + 1)
        PROVE  g[j] = IF j = 0 THEN k ELSE Restyle(items[j], g[j - 1])
    <3>1. CASE j = i + 1
      <4>1. j # 0 /\ j - 1 = i /\ i \in 0..(i + 1) /\ i # i + 1
        BY <3>1
      <4>2. g[i] = f[i] /\ g[j] = Restyle(items[i + 1], f[i])
        BY <3>1, <4>1
      <4> HIDE DEF g
      <4> QED
        BY <3>1, <4>1, <4>2
    <3>2. CASE j # i + 1
      <4>1. j \in 0..i /\ g[j] = f[j]
        BY <3>2
      <4>2. f[j] = IF j = 0 THEN k ELSE Restyle(items[j], f[j - 1])
        BY <2>1, <4>1 DEF StyleRun
      <4>3. j # 0 => g[j - 1] = f[j - 1]
        BY <4>1
      <4> HIDE DEF g
      <4> QED
        BY <4>1, <4>2, <4>3
    <3> QED
      BY <3>1, <3>2
  <2>3. StyleRun(g, items, k, i + 1)
    <3>1. g = [j \in 0..(i + 1) |-> g[j]]
      OBVIOUS
    <3> HIDE DEF g
    <3> QED
      BY <2>2, <3>1 DEF StyleRun
  <2> QED
    BY <2>3
<1>3. Nat \subseteq T
  <2> HIDE DEF T
  <2> QED
    BY <1>1, <1>2, Counting
<1> QED
  BY <1>3

LEMMA RestyleType ==
    ASSUME NEW it \in Item, NEW k \in Palette
    PROVE  Restyle(it, k) \in Palette
<1>1. it.kind \in {"fg", "bg", "clear"} => it.n \in Colour
  BY ItemKinds
<1>2. White \in Colour /\ Black \in Colour
  BY DEF White, Black, Colour, TerminalPaletteSize
<1> QED
  BY <1>1, <1>2 DEF Restyle, Palette

LEMMA StylesIs ==
    ASSUME NEW items \in Seq(Item), NEW k \in Palette
    PROVE  /\ Styles(items, k)[0] = k
           /\ \A i \in 1..Len(items) :
                 Styles(items, k)[i] = Restyle(items[i], Styles(items, k)[i - 1])
           /\ \A i \in 0..Len(items) : Styles(items, k)[i] \in Palette
<1>1. Len(items) \in Nat /\ \A i \in 1..Len(items) : items[i] \in Item
  OBVIOUS
<1>2. \E f : StyleRun(f, items, k, Len(items))
  BY <1>1, StyleRunExists
<1>3. Styles(items, k) = CHOOSE f : StyleRun(f, items, k, Len(items))
  BY DEF Styles, StyleRun
<1>4. PICK f : f = Styles(items, k) /\ StyleRun(f, items, k, Len(items))
  BY <1>2, <1>3
<1>5. f[0] = k
  BY <1>1, <1>4 DEF StyleRun
<1>6. \A i \in 1..Len(items) : f[i] = Restyle(items[i], f[i - 1])
  BY <1>1, <1>4 DEF StyleRun
<1> DEFINE T == {i \in Nat : i \in 0..Len(items) => f[i] \in Palette}
<1>7. 0 \in T
  BY <1>5
<1>8. ASSUME NEW i \in Nat, i \in T PROVE i + 1 \in T
  <2>1. CASE i + 1 \in 0..Len(items)
    <3>1. i \in 0..Len(items) /\ i + 1 \in 1..Len(items) /\ (i + 1) - 1 = i
      BY <1>1, <2>1
    <3>2. f[i + 1] = Restyle(items[i + 1], f[i])
      BY <1>6, <3>1
    <3>3. f[i + 1] \in Palette
      BY <1>1, <1>8, <3>1, <3>2, RestyleType
    <3> QED
      BY <3>3
  <2>2. CASE i + 1 \notin 0..Len(items)
    BY <2>2
  <2> QED
    BY <2>1, <2>2
<1>9. Nat \subseteq T
  <2> HIDE DEF T
  <2> QED
    BY <1>7, <1>8, Counting
<1>10. \A i \in 0..Len(items) : f[i] \in Palette
  BY <1>9
<1> QED
  BY <1>4, <1>5, <1>6, <1>10

\* The colours after all items of a list.
Final(items, k) == Styles(items, k)[Len(items)]

LEMMA StylesCons ==
    ASSUME NEW items \in Seq(Item), items # <<>>, NEW k \in Palette
    PROVE  \A i \in 0..Len(Tail(items)) :
               Styles(items, k)[i + 1] = Styles(Tail(items), Restyle(Head(items), k))[i]
<1>1. PICK rest : rest = Tail(items)
  OBVIOUS
<1>2. /\ Head(items) = items[1] /\ Head(items) \in Item /\ rest \in Seq(Item)
      /\ Len(items) \in Nat \ {0} /\ Len(rest) = Len(items) - 1 /\ Len(rest) \in Nat
      /\ \A i \in 1..Len(rest) : rest[i] = items[i + 1]
  BY <1>1, HeadAndTail
<1>3. PICK m : m = Restyle(Head(items), k)
  OBVIOUS
<1>4. m \in Palette
  BY <1>2, <1>3, RestyleType
<1>5. PICK f, g : f = Styles(items, k) /\ g = Styles(rest, m)
  OBVIOUS
<1>6. f[0] = k /\ \A i \in 1..Len(items) : f[i] = Restyle(items[i], f[i - 1])
  BY <1>5, StylesIs
<1>7. g[0] = m /\ \A i \in 1..Len(rest) : g[i] = Restyle(rest[i], g[i - 1])
  BY <1>2, <1>4, <1>5, StylesIs
<1> DEFINE T == {i \in Nat : i \in 0..Len(rest) => f[i + 1] = g[i]}
<1>8. 0 \in T
  BY <1>2, <1>3, <1>6, <1>7
<1>9. ASSUME NEW i \in Nat, i \in T PROVE i + 1 \in T
  <2>1. CASE i + 1 \in 0..Len(rest)
    <3>1. /\ i \in 0..Len(rest) /\ i + 1 \in 1..Len(rest) /\ i + 2 \in 1..Len(items)
          /\ (i + 1) - 1 = i /\ (i + 2) - 1 = i + 1 /\ (i + 1) + 1 = i + 2
      BY <1>2, <2>1
    <3>2. f[i + 1] = g[i] /\ rest[i + 1] = items[i + 2]
      BY <1>2, <1>9, <3>1
    <3>3. f[i + 2] = Restyle(items[i + 2], f[i + 1]) /\ g[i + 1] = Restyle(rest[i + 1], g[i])
      BY <1>6, <1>7, <3>1
    <3>4. f[(i + 1) + 1] = g[i + 1]
      BY <3>1, <3>2, <3>3
    <3> QED
      BY <3>4
  <2>2. CASE i + 1 \notin 0..Len(rest)
    BY <2>2
  <2> QED
    BY <2>1, <2>2
<1>10. Nat \subseteq T
  <2> HIDE DEF T
  <2> QED
    BY <1>8, <1>9, Counting
<1>11. \A i \in 0..Len(rest) : f[i + 1] = g[i]
  BY <1>2, <1>10
<1> QED
  BY <1>1, <1>3, <1>5, <1>11

LEMMA FinalCons ==
    ASSUME NEW items \in Seq(Item), items # <<>>, NEW k \in Palette
    PROVE  Final(items, k) = Final(Tail(items), Restyle(Head(items), k))
<1>1. Len(Tail(items)) \in Nat /\ Len(items) = Len(Tail(items)) + 1
  BY HeadAndTail
<1>2. Len(Tail(items)) \in 0..Len(Tail(items))
  BY <1>1
<1> QED
  BY <1>1, <1>2, StylesCons DEF Final

LEMMA FinalEmpty ==
    ASSUME NEW k \in Palette
    PROVE  Final(<<>>, k) = k
<1>1. <<>> \in Seq(Item) /\ Len(<<>>) = 0
  OBVIOUS
<1> QED
  BY <1>1, StylesIs DEF Final

-----------------------------------------------------------------------------
(* Numbers.  Reading a numeral from the front, its weights grow to its     *)
(* value; PrintUnsignedInternal and PrintHexInternal go through the same   *)
(* weights backwards, so that they meet its digits from the last to the    *)
(* first.                                                                  *)

WeightRun(w, q, base, n) ==
    w = [i \in 0..n |-> IF i = 0 THEN 0 ELSE base * w[i - 1] + q[i]]

LEMMA WeightRunExists ==
    ASSUME NEW q, NEW base, NEW n \in Nat
    PROVE  \E w : WeightRun(w, q, base, n)
<1> DEFINE T == {i \in Nat : \E w : WeightRun(w, q, base, i)}
<1>1. 0 \in T
  <2> DEFINE g == [i \in 0..0 |-> 0]
  <2>1. WeightRun(g, q, base, 0)
    BY DEF WeightRun
  <2> QED
    BY <2>1
<1>2. ASSUME NEW i \in Nat, i \in T PROVE i + 1 \in T
  <2>1. PICK w : WeightRun(w, q, base, i)
    BY <1>2
  <2> DEFINE last == base * w[i] + q[i + 1]
             g == [j \in 0..(i + 1) |-> IF j = i + 1 THEN last ELSE w[j]]
  <2>2. ASSUME NEW j \in 0..(i + 1)
        PROVE  g[j] = IF j = 0 THEN 0 ELSE base * g[j - 1] + q[j]
    <3>1. CASE j = i + 1
      <4>1. j # 0 /\ j - 1 = i /\ i \in 0..(i + 1) /\ i # i + 1
        BY <3>1
      <4> HIDE DEF last
      <4>2. g[i] = w[i] /\ g[j] = last
        BY <3>1, <4>1
      <4> HIDE DEF g
      <4> QED
        BY <3>1, <4>1, <4>2 DEF last
    <3>2. CASE j # i + 1
      <4>1. j \in 0..i /\ g[j] = w[j]
        BY <3>2
      <4>2. w[j] = IF j = 0 THEN 0 ELSE base * w[j - 1] + q[j]
        BY <2>1, <4>1 DEF WeightRun
      <4>3. j # 0 => g[j - 1] = w[j - 1]
        BY <4>1
      <4> HIDE DEF g
      <4> QED
        BY <4>1, <4>2, <4>3
    <3> QED
      BY <3>1, <3>2
  <2>3. WeightRun(g, q, base, i + 1)
    <3>1. g = [j \in 0..(i + 1) |-> g[j]]
      OBVIOUS
    <3> HIDE DEF g
    <3> QED
      BY <2>2, <3>1 DEF WeightRun
  <2> QED
    BY <2>3
<1>3. Nat \subseteq T
  <2> HIDE DEF T
  <2> QED
    BY <1>1, <1>2, Counting
<1> QED
  BY <1>3

ExtractRun(e, v, base, n) == e = [i \in 0..n |-> IF i = 0 THEN v ELSE e[i - 1] \div base]

LEMMA ExtractRunExists ==
    ASSUME NEW v, NEW base, NEW n \in Nat
    PROVE  \E e : ExtractRun(e, v, base, n)
<1> DEFINE T == {i \in Nat : \E e : ExtractRun(e, v, base, i)}
<1>1. 0 \in T
  <2> DEFINE g == [i \in 0..0 |-> v]
  <2>1. ExtractRun(g, v, base, 0)
    BY DEF ExtractRun
  <2> QED
    BY <2>1
<1>2. ASSUME NEW i \in Nat, i \in T PROVE i + 1 \in T
  <2>1. PICK e : ExtractRun(e, v, base, i)
    BY <1>2
  <2> DEFINE last == e[i] \div base
             g == [j \in 0..(i + 1) |-> IF j = i + 1 THEN last ELSE e[j]]
  <2>2. ASSUME NEW j \in 0..(i + 1)
        PROVE  g[j] = IF j = 0 THEN v ELSE g[j - 1] \div base
    <3>1. CASE j = i + 1
      <4>1. j # 0 /\ j - 1 = i /\ i \in 0..(i + 1) /\ i # i + 1
        BY <3>1
      <4> HIDE DEF last
      <4>2. g[i] = e[i] /\ g[j] = last
        BY <3>1, <4>1
      <4> HIDE DEF g
      <4> QED
        BY <3>1, <4>1, <4>2 DEF last
    <3>2. CASE j # i + 1
      <4>1. j \in 0..i /\ g[j] = e[j]
        BY <3>2
      <4>2. e[j] = IF j = 0 THEN v ELSE e[j - 1] \div base
        BY <2>1, <4>1 DEF ExtractRun
      <4>3. j # 0 => g[j - 1] = e[j - 1]
        BY <4>1
      <4> HIDE DEF g
      <4> QED
        BY <4>1, <4>2, <4>3
    <3> QED
      BY <3>1, <3>2
  <2>3. ExtractRun(g, v, base, i + 1)
    <3>1. g = [j \in 0..(i + 1) |-> g[j]]
      OBVIOUS
    <3> HIDE DEF g
    <3> QED
      BY <2>2, <3>1 DEF ExtractRun
  <2> QED
    BY <2>3
<1>3. Nat \subseteq T
  <2> HIDE DEF T
  <2> QED
    BY <1>1, <1>2, Counting
<1> QED
  BY <1>3

LEMMA LastDigit ==
    ASSUME NEW base \in {10, 16}, NEW a \in Nat, NEW d \in 0..(base - 1)
    PROVE  /\ base * a + d \in Nat /\ (base * a + d) \div base = a /\ (base * a + d) % base = d
           /\ a # 0 \/ d # 0 => base * a + d # 0
<1>1. CASE base = 10
  BY <1>1
<1>2. CASE base = 16
  BY <1>2
<1> QED
  BY <1>1, <1>2

\* The weights of a numeral of l digits with the value n.
Weighs(w, q, base, l, n) ==
    /\ w[0] = 0 /\ w[l] = n
    /\ \A i \in 0..l : w[i] \in Nat
    /\ \A i \in 1..l : w[i] = base * w[i - 1] + q[i]
    /\ q[1] # 0 => \A i \in 1..l : w[i] # 0
    /\ q[1] = 0 => l = 1

LEMMA Weights ==
    ASSUME NEW base \in {10, 16}, NEW l \in Nat \ {0}, NEW q \in [1..l -> 0..(base - 1)],
           NEW n \in Nat, Spells(q, n, base)
    PROVE  \E w : Weighs(w, q, base, l, n)
<1>1. Len(q) = l /\ \A i \in 1..l : q[i] \in 0..(base - 1)
  BY IsSequence
<1>2. \E w : WeightRun(w, q, base, Len(q))
  BY <1>1, WeightRunExists
<1> DEFINE u == CHOOSE w : WeightRun(w, q, base, Len(q))
<1>3. Weigh(q, base) = u[Len(q)]
  BY DEF Weigh, WeightRun
<1>4. PICK w : w = u
  OBVIOUS
<1>5. WeightRun(w, q, base, l) /\ w[l] = n /\ (q[1] = 0 => l = 1)
  BY <1>1, <1>2, <1>3, <1>4 DEF Spells
<1> HIDE DEF u
<1>6. w[0] = 0
  BY <1>5 DEF WeightRun
<1>7. \A i \in 1..l : w[i] = base * w[i - 1] + q[i]
  BY <1>5 DEF WeightRun
<1> DEFINE T == {i \in Nat : i \in 0..l => w[i] \in Nat /\ (q[1] # 0 /\ i # 0 => w[i] # 0)}
<1>8. 0 \in T
  BY <1>6
<1>9. ASSUME NEW i \in Nat, i \in T, i + 1 \in 0..l
      PROVE  w[i + 1] \in Nat /\ (q[1] # 0 => w[i + 1] # 0)
  <2>1. i \in 0..l /\ i + 1 \in 1..l /\ (i + 1) - 1 = i
    BY <1>9
  <2>2. w[i] \in Nat /\ (q[1] # 0 /\ i # 0 => w[i] # 0)
    BY <1>9, <2>1
  <2>3. w[i + 1] = base * w[i] + q[i + 1] /\ q[i + 1] \in 0..(base - 1)
    BY <1>1, <1>7, <2>1
  <2>4. PICK a, d : a = w[i] /\ d = q[i + 1]
    OBVIOUS
  <2>5. base * a + d \in Nat /\ (a # 0 \/ d # 0 => base * a + d # 0)
    BY <2>2, <2>3, <2>4, LastDigit
  <2>6. q[1] # 0 => a # 0 \/ d # 0
    BY <2>2, <2>4
  <2> QED
    BY <2>3, <2>4, <2>5, <2>6
<1>10. Nat \subseteq T
  <2>1. ASSUME NEW i \in Nat, i \in T PROVE i + 1 \in T
    BY <1>9, <2>1
  <2> HIDE DEF T
  <2> QED
    BY <1>8, <2>1, Counting
<1>11. /\ \A i \in 0..l : w[i] \in Nat
       /\ q[1] # 0 => \A i \in 1..l : w[i] # 0
  BY <1>10
<1>12. Weighs(w, q, base, l, n)
  BY <1>5, <1>6, <1>7, <1>11 DEF Weighs
<1> QED
  BY <1>12

LEMMA NumeralIs ==
    ASSUME NEW base \in {10, 16}, NEW n \in Numbers(base)
    PROVE  \E l \in 1..Buffer(base) : \E q \in [1..l -> 0..(base - 1)] :
               Spells(q, n, base) /\ Numeral(n, base) = [i \in 1..l |-> Digit[q[i] + 1]]
<1> DEFINE q == CHOOSE q \in Numerals(base) : Spells(q, n, base)
<1>1. n \in Nat /\ \E r \in Numerals(base) : Spells(r, n, base)
  BY DEF Numbers
<1>2. PICK r : r = q
  OBVIOUS
<1>3. r \in Numerals(base) /\ Spells(r, n, base)
  BY <1>1, <1>2
<1>4. Numeral(n, base) = [i \in DOMAIN r |-> Digit[r[i] + 1]]
  BY <1>2 DEF Numeral
<1> HIDE DEF q
<1>5. PICK l \in 1..MaxDigits : r \in [1..l -> 0..(base - 1)]
  BY <1>3 DEF Numerals
<1>6. Numeral(n, base) = [i \in 1..l |-> Digit[r[i] + 1]]
  BY <1>4, <1>5
<1>7. Len(Numeral(n, base)) = l
  <2>1. PICK p : p = Numeral(n, base)
    OBVIOUS
  <2>2. l \in Nat /\ p \in [1..l -> {Digit[r[i] + 1] : i \in 1..l}]
    BY <1>5, <1>6, <2>1, BoundAssumption
  <2> QED
    BY <2>1, <2>2, IsSequence
<1>8. l <= Buffer(base) /\ Buffer(base) \in Nat
  BY <1>7 DEF Numbers, Buffer
<1> QED
  BY <1>3, <1>5, <1>6, <1>8, BoundAssumption

LEMMA NumberPrinted ==
    ASSUME NEW base \in {10, 16}, NEW n \in Numbers(base)
    PROVE  PrintNumber(n, base) = Numeral(n, base)
<1>1. PICK l \in 1..Buffer(base) : \E q \in [1..l -> 0..(base - 1)] :
               Spells(q, n, base) /\ Numeral(n, base) = [i \in 1..l |-> Digit[q[i] + 1]]
  BY NumeralIs
<1>2. PICK q \in [1..l -> 0..(base - 1)] :
               Spells(q, n, base) /\ Numeral(n, base) = [i \in 1..l |-> Digit[q[i] + 1]]
  BY <1>1
<1>3. n \in Nat /\ Buffer(base) \in Nat /\ l \in Nat \ {0} /\ l <= Buffer(base)
  BY <1>1 DEF Numbers, Buffer
<1>4. \A i \in 1..l : q[i] \in 0..(base - 1)
  BY <1>2
<1>5. PICK w : /\ w[0] = 0 /\ w[l] = n
               /\ \A i \in 0..l : w[i] \in Nat
               /\ \A i \in 1..l : w[i] = base * w[i - 1] + q[i]
               /\ q[1] # 0 => \A i \in 1..l : w[i] # 0
               /\ q[1] = 0 => l = 1
  <2>1. \E w : Weighs(w, q, base, l, n)
    BY <1>2, <1>3, Weights
  <2> QED
    BY <2>1 DEF Weighs
<1>6. ASSUME NEW i \in 1..l PROVE w[i] \div base = w[i - 1] /\ w[i] % base = q[i]
  <2>1. w[i - 1] \in Nat /\ q[i] \in 0..(base - 1) /\ w[i] = base * w[i - 1] + q[i]
    <3>1. i - 1 \in 0..l
      BY <1>3
    <3> QED
      BY <1>4, <1>5, <3>1
  <2>2. PICK a, d : a = w[i - 1] /\ d = q[i]
    OBVIOUS
  <2>3. a \in Nat /\ d \in 0..(base - 1) /\ w[i] = base * a + d
    BY <2>1, <2>2
  <2>4. (base * a + d) \div base = a /\ (base * a + d) % base = d
    BY <2>3, LastDigit
  <2> QED
    BY <2>2, <2>3, <2>4, Zenon
<1>7. CASE n = 0
  <2>1. q[1] = 0 /\ l = 1
    <3>1. l \in 1..l
      BY <1>3
    <3>2. ~(q[1] # 0)
      BY <1>5, <1>7, <3>1
    <3> QED
      BY <1>5, <3>2
  <2>2. Numeral(n, base) = [i \in 1..1 |-> Digit[1]]
    BY <1>2, <2>1
  <2>3. [i \in 1..1 |-> Digit[1]] = <<"0">>
    BY DEF Digit
  <2> QED
    BY <1>7, <2>2, <2>3 DEF PrintNumber
<1>8. CASE n # 0
  <2>1. \A i \in 1..l : w[i] # 0
    <3>1. q[1] # 0
      <4>1. CASE q[1] = 0
        <5>1. l = 1 /\ w[1] = base * w[0] + 0
          BY <1>3, <1>5, <4>1
        <5> QED
          BY <1>5, <1>8, <5>1
      <4> QED
        BY <4>1
    <3> QED
      BY <1>5, <3>1
  <2>2. PICK e : e = Extract(n, base)
    OBVIOUS
  <2>3. ExtractRun(e, n, base, Buffer(base))
    <3>1. \E f : ExtractRun(f, n, base, Buffer(base))
      BY <1>3, ExtractRunExists
    <3>2. Extract(n, base) = CHOOSE f : ExtractRun(f, n, base, Buffer(base))
      BY DEF Extract, ExtractRun
    <3> QED
      BY <2>2, <3>1, <3>2
  <2>4. /\ DOMAIN e = 0..Buffer(base) /\ e[0] = n
        /\ \A i \in 1..Buffer(base) : e[i] = e[i - 1] \div base
    BY <1>3, <2>3 DEF ExtractRun
  <2> DEFINE T == {i \in Nat : i \in 0..l => e[i] = w[l - i]}
  <2>5. 0 \in T
    BY <1>3, <1>5, <2>4
  <2>6. ASSUME NEW i \in Nat, i \in T PROVE i + 1 \in T
    <3>1. CASE i + 1 \in 0..l
      <4>1. /\ i \in 0..l /\ i + 1 \in 1..Buffer(base) /\ (i + 1) - 1 = i
            /\ l - i \in 1..l /\ (l - i) - 1 = l - (i + 1)
        BY <1>3, <3>1
      <4>2. e[i + 1] = e[i] \div base /\ e[i] = w[l - i]
        BY <2>4, <2>6, <4>1
      <4>3. w[l - i] \div base = w[l - (i + 1)]
        BY <1>6, <4>1
      <4>4. e[i + 1] = w[l - (i + 1)]
        BY <4>2, <4>3
      <4> QED
        BY <4>4
    <3>2. CASE i + 1 \notin 0..l
      BY <3>2
    <3> QED
      BY <3>1, <3>2
  <2>7. Nat \subseteq T
    <3> HIDE DEF T
    <3> QED
      BY <2>5, <2>6, Counting
  <2>8. \A i \in 0..l : e[i] = w[l - i]
    BY <1>3, <2>7
  <2>9. e[l] = 0 /\ \A j \in 0..(l - 1) : e[j] # 0
    <3>1. \A j \in 0..(l - 1) : j \in 0..l /\ l - j \in 1..l
      BY <1>3
    <3>2. l \in 0..l /\ l - l = 0
      BY <1>3
    <3>3. e[l] = w[0]
      BY <2>8, <3>2
    <3>4. ASSUME NEW j \in 0..(l - 1) PROVE e[j] # 0
      <4>1. e[j] = w[l - j] /\ l - j \in 1..l
        BY <2>8, <3>1
      <4> QED
        BY <2>1, <4>1
    <3> QED
      BY <1>5, <3>3, <3>4
  <2>10. Turns(e) = l
    <3> DEFINE P(m) == e[m] = 0 /\ \A j \in 0..(m - 1) : e[j] # 0
    <3>1. l \in DOMAIN e /\ P(l)
      BY <1>3, <2>4, <2>9
    <3>2. \A m \in DOMAIN e : P(m) => m = l
      BY <1>3, <2>4, <2>9
    <3>3. Turns(e) = CHOOSE m \in DOMAIN e : P(m)
      BY DEF Turns
    <3> HIDE DEF P
    <3> QED
      BY <3>1, <3>2, <3>3
  <2>11. \A i \in 1..l : e[l - i] % base = q[i]
    <3>1. \A i \in 1..l : l - i \in 0..l /\ l - (l - i) = i
      BY <1>3
    <3> QED
      BY <1>6, <2>8, <3>1
  <2>12. PrintNumber(n, base) = [i \in 1..l |-> Digit[(e[l - i] % base) + 1]]
    BY <1>8, <2>2, <2>10 DEF PrintNumber
  <2> QED
    BY <1>2, <2>11, <2>12
<1> QED
  BY <1>7, <1>8

-----------------------------------------------------------------------------
(* What a list shows.                                                      *)

LEMMA NumeralType ==
    ASSUME NEW base \in {10, 16}, NEW n \in Numbers(base)
    PROVE  Numeral(n, base) \in Seq(Alphabet)
<1>1. PICK l \in 1..Buffer(base) : \E q \in [1..l -> 0..(base - 1)] :
               Spells(q, n, base) /\ Numeral(n, base) = [i \in 1..l |-> Digit[q[i] + 1]]
  BY NumeralIs
<1>2. PICK q \in [1..l -> 0..(base - 1)] : Numeral(n, base) = [i \in 1..l |-> Digit[q[i] + 1]]
  BY <1>1
<1>3. l \in Nat
  BY <1>1 DEF Buffer
<1>4. \A i \in 1..l : q[i] + 1 \in 1..16
  <2>1. \A d \in 0..(base - 1) : d + 1 \in 1..16
    OBVIOUS
  <2>2. \A i \in 1..l : q[i] \in 0..(base - 1)
    BY <1>2
  <2> QED
    BY <2>1, <2>2
<1>5. \A i \in 1..l : Digit[q[i] + 1] \in Alphabet
  BY <1>4 DEF Alphabet
<1>6. Numeral(n, base) \in [1..l -> Alphabet]
  BY <1>2, <1>5
<1> QED
  BY <1>3, <1>6, IsSequence

LEMMA ShownType ==
    ASSUME NEW it \in Item
    PROVE  Shown(it) \in Seq(Alphabet)
<1>1. CASE it.kind = "char" /\ it.c \in Printable
  <2>1. it.c \in Alphabet /\ Shown(it) = <<it.c>>
    BY <1>1 DEF Shown, Alphabet
  <2> QED
    BY <2>1
<1>2. CASE it.kind \in {"fg", "bg", "clear", "reset"}
  BY <1>2 DEF Shown
<1>3. CASE it.kind = "s" /\ it.arg \in Seq(Printable)
  <2>1. Printable \subseteq Alphabet
    BY DEF Alphabet
  <2> QED
    BY <1>3, <2>1, SeqMonotonic DEF Shown
<1>4. CASE it.kind = "u" /\ it.arg \in Numbers(10)
  BY <1>4, NumeralType DEF Shown
<1>5. CASE it.kind = "x" /\ it.arg \in Numbers(16)
  BY <1>5, NumeralType DEF Shown
<1> QED
  BY <1>1, <1>2, <1>3, <1>4, <1>5, ItemKinds

\* Directives print their argument as it should be shown.
LEMMA DirectiveShows ==
    ASSUME NEW it \in Substitution
    PROVE  TakesArgument(it.kind) /\ Directive(it.kind, it.arg) = Shown(it)
<1>1. \/ it.kind = "s"
      \/ it.kind = "u" /\ it.arg \in Numbers(10)
      \/ it.kind = "x" /\ it.arg \in Numbers(16)
  BY DEF Substitution
<1>2. it.kind = "u" => PrintNumber(it.arg, 10) = Numeral(it.arg, 10)
  BY <1>1, NumberPrinted
<1>3. it.kind = "x" => PrintNumber(it.arg, 16) = Numeral(it.arg, 16)
  BY <1>1, NumberPrinted
<1> QED
  BY <1>1, <1>2, <1>3 DEF TakesArgument, Directive, Shown

LEMMA PaintedIs ==
    ASSUME NEW chars \in Seq(Alphabet), NEW k \in Palette
    PROVE  /\ Painted(chars, k) \in Seq(Glyph) /\ Len(Painted(chars, k)) = Len(chars)
           /\ \A i \in 1..Len(chars) :
                 Painted(chars, k)[i] = [c |-> chars[i], fg |-> k.fg, bg |-> k.bg]
<1>1. Len(chars) \in Nat /\ DOMAIN chars = 1..Len(chars)
      /\ \A i \in 1..Len(chars) : chars[i] \in Alphabet
  OBVIOUS
<1>2. PICK p : p = Painted(chars, k)
  OBVIOUS
<1>3. p = [i \in 1..Len(chars) |-> [c |-> chars[i], fg |-> k.fg, bg |-> k.bg]]
  BY <1>1, <1>2 DEF Painted
<1>4. p \in [1..Len(chars) -> Glyph]
  BY <1>1, <1>3 DEF Glyph, Palette
<1>5. p \in Seq(Glyph) /\ Len(p) = Len(chars)
  BY <1>1, <1>4, IsSequence
<1> QED
  BY <1>2, <1>3, <1>5

LEMMA PaintedEmpty ==
    ASSUME NEW k \in Palette
    PROVE  Painted(<<>>, k) = <<>>
<1>1. <<>> \in Seq(Alphabet) /\ Len(<<>>) = 0
  OBVIOUS
<1>2. Painted(<<>>, k) \in Seq(Glyph) /\ Len(Painted(<<>>, k)) = 0
  BY <1>1, PaintedIs
<1> QED
  BY <1>2, EmptySeq

LEMMA PaintedTail ==
    ASSUME NEW chars \in Seq(Alphabet), chars # <<>>, NEW k \in Palette
    PROVE  /\ Painted(chars, k) # <<>>
           /\ Head(Painted(chars, k)) = [c |-> Head(chars), fg |-> k.fg, bg |-> k.bg]
           /\ Tail(Painted(chars, k)) = Painted(Tail(chars), k)
<1>1. PICK t : t = Tail(chars)
  OBVIOUS
<1>2. /\ Head(chars) = chars[1] /\ t \in Seq(Alphabet) /\ Len(chars) \in Nat \ {0}
      /\ Len(t) = Len(chars) - 1 /\ \A i \in 1..Len(t) : t[i] = chars[i + 1]
  BY <1>1, HeadAndTail
<1>3. PICK p, q : p = Painted(chars, k) /\ q = Painted(t, k)
  OBVIOUS
<1>4. p \in Seq(Glyph) /\ Len(p) = Len(chars)
  BY <1>3, PaintedIs
<1>5. \A i \in 1..Len(chars) : p[i] = [c |-> chars[i], fg |-> k.fg, bg |-> k.bg]
  BY <1>3, PaintedIs
<1>6. q \in Seq(Glyph) /\ Len(q) = Len(t)
  BY <1>2, <1>3, PaintedIs
<1>7. \A i \in 1..Len(t) : q[i] = [c |-> t[i], fg |-> k.fg, bg |-> k.bg]
  BY <1>2, <1>3, PaintedIs
<1>8. \A i \in 1..Len(q) : q[i] = p[i + 1]
  <2>1. \A i \in 1..Len(q) : i \in 1..Len(t) /\ i + 1 \in 1..Len(chars)
    BY <1>2, <1>6
  <2> QED
    BY <1>2, <1>5, <1>7, <2>1
<1>9. Len(p) = Len(q) + 1
  BY <1>2, <1>4, <1>6
<1>10. Tail(p) = q /\ Head(p) = p[1] /\ p # <<>>
  BY <1>4, <1>6, <1>8, <1>9, IsTail
<1>11. p[1] = [c |-> Head(chars), fg |-> k.fg, bg |-> k.bg]
  BY <1>2, <1>5
<1> QED
  BY <1>1, <1>3, <1>10, <1>11

LEMMA MeaningEmpty == \A k : Meaning(<<>>, k) = <<>>
<1> TAKE k
<1>1. PICK q : q = [i \in DOMAIN <<>> |-> Painted(Shown(<<>>[i]), Styles(<<>>, k)[i])]
  OBVIOUS
<1>2. q = <<>>
  BY <1>1
<1>3. Meaning(<<>>, k) = FlattenSeq(q)
  BY <1>1 DEF Meaning
<1> QED
  BY <1>2, <1>3, FlattenEmpty

LEMMA MeaningCons ==
    ASSUME NEW items \in Seq(Item), items # <<>>, NEW k \in Palette, NEW m,
           m = Restyle(Head(items), k)
    PROVE  /\ Meaning(items, k) = Cat(Painted(Shown(Head(items)), m), Meaning(Tail(items), m))
           /\ Meaning(items, k) \in Seq(Glyph) /\ Meaning(Tail(items), m) \in Seq(Glyph)
<1>1. PICK rest : rest = Tail(items)
  OBVIOUS
<1>2. /\ Head(items) = items[1] /\ Head(items) \in Item /\ rest \in Seq(Item)
      /\ Len(items) \in Nat \ {0} /\ Len(rest) = Len(items) - 1 /\ Len(rest) \in Nat
      /\ \A i \in 1..Len(rest) : rest[i] = items[i + 1]
  BY <1>1, HeadAndTail
<1>3. m \in Palette
  BY <1>2, RestyleType
<1>4. PICK f, g : f = Styles(items, k) /\ g = Styles(rest, m)
  OBVIOUS
<1>5. /\ f[0] = k /\ \A i \in 1..Len(items) : f[i] = Restyle(items[i], f[i - 1])
      /\ \A i \in 0..Len(items) : f[i] \in Palette
  BY <1>4, StylesIs
<1>6. \A i \in 0..Len(rest) : g[i] \in Palette
  BY <1>2, <1>3, <1>4, StylesIs
<1>7. \A i \in 0..Len(rest) : f[i + 1] = g[i]
  BY <1>1, <1>4, StylesCons
<1>8. f[1] = m
  BY <1>2, <1>5
<1>9. PICK q : q = [i \in 1..Len(items) |-> Painted(Shown(items[i]), f[i])]
  OBVIOUS
<1>10. PICK r : r = [i \in 1..Len(rest) |-> Painted(Shown(rest[i]), g[i])]
  OBVIOUS
<1>11. q \in [1..Len(items) -> Seq(Glyph)]
  <2>1. ASSUME NEW i \in 1..Len(items) PROVE q[i] \in Seq(Glyph)
    <3>1. items[i] \in Item /\ f[i] \in Palette
      BY <1>2, <1>5
    <3>2. Shown(items[i]) \in Seq(Alphabet)
      BY <3>1, ShownType
    <3>3. Painted(Shown(items[i]), f[i]) \in Seq(Glyph)
      BY <3>1, <3>2, PaintedIs
    <3> QED
      BY <1>9, <3>3
  <2> QED
    BY <1>9, <2>1
<1>12. r \in [1..Len(rest) -> Seq(Glyph)]
  <2>1. ASSUME NEW i \in 1..Len(rest) PROVE r[i] \in Seq(Glyph)
    <3>1. rest[i] \in Item /\ g[i] \in Palette
      BY <1>2, <1>6
    <3>2. Shown(rest[i]) \in Seq(Alphabet)
      BY <3>1, ShownType
    <3>3. Painted(Shown(rest[i]), g[i]) \in Seq(Glyph)
      BY <3>1, <3>2, PaintedIs
    <3> QED
      BY <1>10, <3>3
  <2> QED
    BY <1>10, <2>1
<1>13. q \in Seq(Seq(Glyph)) /\ Len(q) = Len(items) /\ r \in Seq(Seq(Glyph)) /\ Len(r) = Len(rest)
  BY <1>2, <1>11, <1>12, IsSequence
<1>14. \A i \in 1..Len(r) : r[i] = q[i + 1]
  BY <1>2, <1>7, <1>9, <1>10, <1>13
<1>15. Len(q) = Len(r) + 1
  BY <1>2, <1>13
<1>16. Tail(q) = r /\ Head(q) = q[1] /\ q # <<>>
  BY <1>13, <1>14, <1>15, IsTail
<1>17. Meaning(items, k) = FlattenSeq(q) /\ Meaning(rest, m) = FlattenSeq(r)
  <2>1. DOMAIN items = 1..Len(items) /\ DOMAIN rest = 1..Len(rest)
    BY <1>2
  <2> QED
    BY <1>4, <1>9, <1>10, <2>1 DEF Meaning
<1>18. q[1] = Painted(Shown(Head(items)), m)
  BY <1>2, <1>8, <1>9
<1> QED
  BY <1>1, <1>13, <1>16, <1>17, <1>18, FlattenCons

-----------------------------------------------------------------------------
(* Parsing: what the code finds where an item is written.                  *)

LEMMA ColourIs == Colour = 0..7
BY DEF Colour, TerminalPaletteSize

LEMMA Digits ==
    /\ \A d \in 0..7 :  /\ Digit[d + 1] \in DecimalDigits /\ DigitValue(Digit[d + 1]) = d
                       /\ Digit[d + 1] \notin {"]", ",", "NUL"}
    /\ "," \notin DecimalDigits
<1>1. /\ Digit[1] = "0" /\ Digit[2] = "1" /\ Digit[3] = "2" /\ Digit[4] = "3"
      /\ Digit[5] = "4" /\ Digit[6] = "5" /\ Digit[7] = "6" /\ Digit[8] = "7"
      /\ Digit[9] = "8" /\ Digit[10] = "9"
  BY DEF Digit
<1>2. ASSUME NEW i \in 1..10, NEW j \in 1..10, Digit[i] = Digit[j] PROVE i = j
  <2>1. \A k \in 1..10 : k = 1 \/ k = 2 \/ k = 3 \/ k = 4 \/ k = 5 \/ k = 6 \/ k = 7 \/ k = 8
                         \/ k = 9 \/ k = 10
    OBVIOUS
  <2> QED
    BY <1>1, <1>2, <2>1
<1>3. \A i \in 1..10 : Digit[i] \notin {"]", ",", "NUL"}
  <2>1. \A k \in 1..10 : k = 1 \/ k = 2 \/ k = 3 \/ k = 4 \/ k = 5 \/ k = 6 \/ k = 7 \/ k = 8
                         \/ k = 9 \/ k = 10
    OBVIOUS
  <2> QED
    BY <1>1, <2>1
<1>4. "," \notin DecimalDigits
  BY <1>3 DEF DecimalDigits
<1>5. ASSUME NEW d \in 0..7
      PROVE  /\ Digit[d + 1] \in DecimalDigits /\ DigitValue(Digit[d + 1]) = d
             /\ Digit[d + 1] \notin {"]", ",", "NUL"}
  <2>1. d + 1 \in 1..10 /\ (d + 1) - 1 = d
    OBVIOUS
  <2>2. Digit[d + 1] \in DecimalDigits
    BY <2>1 DEF DecimalDigits
  <2>3. (CHOOSE i \in 1..10 : Digit[i] = Digit[d + 1]) = d + 1
    BY <1>2, <2>1
  <2> QED
    <3>1. DigitValue(Digit[d + 1]) = (d + 1) - 1
      BY <2>3 DEF DigitValue
    <3>2. Digit[d + 1] \notin {"]", ",", "NUL"}
      BY <1>3, <2>1
    <3> QED
      BY <2>1, <2>2, <3>1, <3>2
<1> QED
  BY <1>4, <1>5

LEMMA AlphabetReserves == "NUL" \notin Alphabet /\ "beyond" \notin Alphabet
<1>1. /\ Digit[1] = "0" /\ Digit[2] = "1" /\ Digit[3] = "2" /\ Digit[4] = "3"
      /\ Digit[5] = "4" /\ Digit[6] = "5" /\ Digit[7] = "6" /\ Digit[8] = "7"
      /\ Digit[9] = "8" /\ Digit[10] = "9" /\ Digit[11] = "A" /\ Digit[12] = "B"
      /\ Digit[13] = "C" /\ Digit[14] = "D" /\ Digit[15] = "E" /\ Digit[16] = "F"
  BY DEF Digit
<1>2. \A k \in 1..16 : k = 1 \/ k = 2 \/ k = 3 \/ k = 4 \/ k = 5 \/ k = 6 \/ k = 7 \/ k = 8
         \/ k = 9 \/ k = 10 \/ k = 11 \/ k = 12 \/ k = 13 \/ k = 14 \/ k = 15 \/ k = 16
  OBVIOUS
<1>3. \A k \in 1..16 : Digit[k] \notin {"NUL", "beyond"}
  BY <1>1, <1>2
<1> QED
  BY <1>3, PrintableAssumption DEF Alphabet

\* A text of two parts, seen from the pointer at the second one.
LEMMA MemIs ==
    ASSUME NEW pre \in Seq(Alphabet), NEW post \in Seq(Alphabet), NEW text,
           text = Cat(pre, post)
    PROVE  /\ text \in Seq(Alphabet) /\ Len(text) = Len(pre) + Len(post)
           /\ \A i \in 1..Len(post) : Mem(text, Len(pre) + i) = post[i]
           /\ Mem(text, Len(pre) + Len(post) + 1) = "NUL"
<1>1. text \in Seq(Alphabet) /\ Len(text) = Len(pre) + Len(post)
      /\ Len(pre) \in Nat /\ Len(post) \in Nat
  BY CatFacts, LenProperties
<1>2. \A i \in 1..Len(post) : text[Len(pre) + i] = post[i]
  BY CatSecond
<1>3. \A i \in 1..Len(post) : Len(pre) + i <= Len(text)
  BY <1>1
<1>4. \A i \in 1..Len(post) : Mem(text, Len(pre) + i) = post[i]
  BY <1>2, <1>3 DEF Mem
<1>5. Mem(text, Len(pre) + Len(post) + 1) = "NUL"
  BY <1>1 DEF Mem
<1> QED
  BY <1>1, <1>4, <1>5

LEMMA ScanIs ==
    ASSUME NEW text, NEW i \in Nat, NEW c, NEW j \in i..(Len(text) + 1), Len(text) \in Nat,
           Mem(text, j) \in {c, "NUL"}, \A k \in i..(j - 1) : Mem(text, k) \notin {c, "NUL"}
    PROVE  Scan(text, i, c) = j
<1> DEFINE P(m) == Mem(text, m) \in {c, "NUL"}
                   /\ \A k \in i..(m - 1) : Mem(text, k) \notin {c, "NUL"}
<1>1. P(j)
  OBVIOUS
<1>2. ASSUME NEW m \in i..(Len(text) + 1), P(m) PROVE m = j
  <2>1. CASE m < j
    <3>1. m \in i..(j - 1)
      BY <1>2, <2>1
    <3> QED
      BY <1>2, <3>1
  <2>2. CASE j < m
    <3>1. j \in i..(m - 1)
      BY <1>2, <2>2
    <3> QED
      BY <1>2, <3>1
  <2> QED
    BY <2>1, <2>2
<1>3. Scan(text, i, c) = CHOOSE m \in i..(Len(text) + 1) : P(m)
  BY DEF Scan
<1> HIDE DEF P
<1> QED
  BY <1>1, <1>2, <1>3

\* A tag's number is its digit.
NumberAt(text, comma, d) == text[comma] = "," /\ text[comma + 1] = Digit[d + 1]

LEMMA TagColourIs ==
    ASSUME NEW text \in Seq(Alphabet), NEW from \in Nat, NEW d \in 0..7,
           NumberAt(text, from, d)
    PROVE  TagColour(text, from, from + 1) = d
<1> DEFINE Run(v) == v = [i \in (from - 1)..(from + 1) |->
              IF i < from THEN 0
              ELSE IF text[i] \in DecimalDigits THEN 10 * v[i - 1] + DigitValue(text[i])
              ELSE v[i - 1]]
           last == 10 * 0 + DigitValue(text[from + 1])
           g == [i \in (from - 1)..(from + 1) |-> IF i = from + 1 THEN last ELSE 0]
<1>1. text[from] \notin DecimalDigits /\ text[from + 1] \in DecimalDigits
      /\ DigitValue(text[from + 1]) = d
  BY Digits DEF NumberAt
<1>2. Run(g)
  <2>1. ASSUME NEW i \in (from - 1)..(from + 1)
        PROVE  g[i] = IF i < from THEN 0
                      ELSE IF text[i] \in DecimalDigits
                        THEN 10 * g[i - 1] + DigitValue(text[i])
                      ELSE g[i - 1]
    <3> HIDE DEF last
    <3>1. CASE i = from - 1
      BY <3>1
    <3>2. CASE i = from
      <4>1. ~(i < from) /\ i - 1 \in (from - 1)..(from + 1) /\ i - 1 # from + 1 /\ i # from + 1
        BY <3>2
      <4> QED
        BY <1>1, <3>2, <4>1
    <3>3. CASE i = from + 1
      <4>1. ~(i < from) /\ i - 1 = from /\ from \in (from - 1)..(from + 1) /\ from # from + 1
        BY <3>3
      <4>2. g[i - 1] = 0 /\ g[i] = last
        BY <3>3, <4>1
      <4> HIDE DEF g
      <4> QED
        BY <1>1, <3>3, <4>1, <4>2 DEF last
    <3> QED
      BY <3>1, <3>2, <3>3
  <2>2. g = [i \in (from - 1)..(from + 1) |-> g[i]]
    OBVIOUS
  <2> HIDE DEF g
  <2> QED
    BY <2>1, <2>2
<1>3. PICK v : v = CHOOSE f : Run(f)
  OBVIOUS
<1>4. Run(v)
  <2> HIDE DEF Run, g
  <2> QED
    BY <1>2, <1>3
<1>5. TagColour(text, from, from + 1) = Clamp(0, TerminalPaletteSize, v[from + 1])
  BY <1>3 DEF TagColour
<1>6. v[from] = v[from - 1] /\ v[from - 1] = 0
  <2>1. from \in (from - 1)..(from + 1) /\ from - 1 \in (from - 1)..(from + 1)
        /\ ~(from < from) /\ from - 1 < from
    OBVIOUS
  <2> QED
    BY <1>1, <1>4, <2>1
<1>7. v[from + 1] = 10 * v[from] + d
  <2>1. from + 1 \in (from - 1)..(from + 1) /\ ~(from + 1 < from) /\ (from + 1) - 1 = from
    OBVIOUS
  <2> QED
    BY <1>1, <1>4, <2>1
<1>8. v[from + 1] = d
  BY <1>6, <1>7
<1> QED
  BY <1>5, <1>8 DEF Clamp, TerminalPaletteSize

\* A tag whose comma and bracket are where the scans look for them.
TagAt(text, p, comma, close) ==
    /\ Mem(text, comma) = "," /\ \A k \in (p + 2)..(comma - 1) : Mem(text, k) \notin {",", "NUL"}
    /\ Mem(text, close) = "]" /\ \A k \in comma..(close - 1) : Mem(text, k) \notin {"]", "NUL"}

\* What a tag's letters say.
KindOf(type) ==
    IF Head(type) = "r" THEN "reset"
    ELSE IF Head(type) = "c" THEN "clear"
    ELSE IF type = <<"b", "g">> THEN "bg" ELSE "fg"

LEMMA ParseScans ==
    ASSUME NEW text \in Seq(Alphabet), NEW p \in Nat, NEW comma \in Nat, NEW close \in Nat,
           p + 2 <= comma, comma <= close, close <= Len(text),
           TagAt(text, p, comma, close)
    PROVE  /\ ParseStyling(text, p).next = close + 1
           /\ ParseStyling(text, p).kind = KindOf(SubSeq(text, p + 2, comma - 1))
           /\ ParseStyling(text, p).colour = TagColour(text, comma, close - 1)
<1>1. Len(text) \in Nat /\ p + 2 \in Nat
  OBVIOUS
<1>2. comma \in (p + 2)..(Len(text) + 1) /\ close \in comma..(Len(text) + 1)
  BY <1>1
<1>3. Scan(text, p + 2, ",") = comma
  <2>1. Mem(text, comma) \in {",", "NUL"}
        /\ \A k \in (p + 2)..(comma - 1) : Mem(text, k) \notin {",", "NUL"}
    BY DEF TagAt
  <2> QED
    BY <1>1, <1>2, <2>1, ScanIs
<1>4. Scan(text, comma, "]") = close
  <2>1. Mem(text, close) \in {"]", "NUL"}
        /\ \A k \in comma..(close - 1) : Mem(text, k) \notin {"]", "NUL"}
    BY DEF TagAt
  <2> QED
    BY <1>1, <1>2, <2>1, ScanIs
<1> QED
  BY <1>3, <1>4 DEF ParseStyling, KindOf

\* What a pointer at the first character of w reads.
Reads(text, p, w) ==
    /\ text \in Seq(Alphabet) /\ p \in Nat \ {0} /\ (p - 1) + Len(w) <= Len(text)
    /\ \A i \in 1..Len(w) : Mem(text, (p - 1) + i) = w[i] /\ text[(p - 1) + i] = w[i]

LEMMA ReadsWritten ==
    ASSUME NEW w \in Seq(Alphabet), NEW pre \in Seq(Alphabet), NEW post \in Seq(Alphabet),
           NEW text, text = Cat(pre, Cat(w, post)), NEW p, p = Len(pre) + 1
    PROVE  Reads(text, p, w)
<1>1. PICK u : u = Cat(w, post)
  OBVIOUS
<1>2. Len(w) \in Nat /\ Len(pre) \in Nat /\ Len(post) \in Nat
  BY LenProperties
<1>3. u \in Seq(Alphabet) /\ Len(u) = Len(w) + Len(post)
  BY <1>1, CatFacts
<1>4. \A i \in 1..Len(w) : u[i] = w[i]
  BY <1>1, CatFirst
<1>5. /\ text \in Seq(Alphabet) /\ Len(text) = Len(pre) + Len(u)
      /\ \A i \in 1..Len(u) : Mem(text, Len(pre) + i) = u[i]
  <2>1. text = Cat(pre, u)
    BY <1>1
  <2>2. text \in Seq(Alphabet) /\ Len(text) = Len(pre) + Len(u)
    BY <1>3, <2>1, CatFacts
  <2>3. \A i \in 1..Len(u) : text[Len(pre) + i] = u[i]
    BY <1>1, <1>3, CatSecond
  <2>4. \A i \in 1..Len(u) : Len(pre) + i <= Len(text)
    BY <1>2, <1>3, <2>2
  <2>5. \A i \in 1..Len(u) : Mem(text, Len(pre) + i) = u[i]
    BY <2>3, <2>4 DEF Mem
  <2> QED
    BY <2>2, <2>5
<1>6. \A i \in 1..Len(u) : text[Len(pre) + i] = u[i]
  BY <1>1, <1>3, CatSecond
<1>7. \A i \in 1..Len(w) : i \in 1..Len(u) /\ (p - 1) + i = Len(pre) + i
  BY <1>2, <1>3
<1>8. p \in Nat \ {0} /\ (p - 1) + Len(w) <= Len(text)
  BY <1>2, <1>3, <1>5
<1>9. \A i \in 1..Len(w) : Mem(text, (p - 1) + i) = w[i] /\ text[(p - 1) + i] = w[i]
  BY <1>4, <1>5, <1>6, <1>7
<1> QED
  BY <1>5, <1>8, <1>9 DEF Reads

\* The parser takes a tag for what it was written for, and stops behind it.
ParsedAs(text, p, it) ==
    LET tag == ParseStyling(text, p)
    IN  /\ tag.next = p + Len(Written(it)) /\ tag.kind = it.kind
        /\ it.kind # "reset" => tag.colour = it.n

\* The places of a tag's characters.
LEMMA Places ==
    ASSUME NEW text, NEW p, NEW w, Len(w) \in 5..7, Reads(text, p, w)
    PROVE  /\ text \in Seq(Alphabet) /\ p \in Nat \ {0} /\ (p - 1) + Len(w) <= Len(text)
           /\ \A i \in 1..Len(w) : w[i] = Mem(text, (p - 1) + i) /\ w[i] = text[(p - 1) + i]
BY DEF Reads

LEMMA ResetParsed ==
    ASSUME NEW text, NEW p, NEW it \in Styling, Reads(text, p, Written(it))
    PROVE  it.kind = "reset" => ParsedAs(text, p, it)
<1>1. SUFFICES ASSUME it.kind = "reset" PROVE ParsedAs(text, p, it)
  OBVIOUS
<1>2. PICK w : w = Written(it)
  OBVIOUS
<1>3. w = <<"C", "[", "r", ",", "]">>
  BY <1>1, <1>2 DEF Written
<1>4. w[3] = "r" /\ w[4] = "," /\ w[5] = "]"
  BY <1>3
<1>5. Len(w) = 5
  BY <1>3
<1>6. /\ text \in Seq(Alphabet) /\ p \in Nat \ {0} /\ (p - 1) + 5 <= Len(text)
      /\ \A i \in 1..5 : w[i] = Mem(text, (p - 1) + i) /\ w[i] = text[(p - 1) + i]
  <2>1. Len(w) \in 5..7 /\ Reads(text, p, w)
    BY <1>2, <1>5
  <2>2. text \in Seq(Alphabet) /\ p \in Nat \ {0} /\ (p - 1) + Len(w) <= Len(text)
    BY <2>1, Places
  <2>3. \A i \in 1..Len(w) : w[i] = Mem(text, (p - 1) + i) /\ w[i] = text[(p - 1) + i]
    BY <2>1, Places
  <2> QED
    BY <1>5, <2>2, <2>3
<1>7. PICK comma, close : comma = p + 3 /\ close = p + 4
  OBVIOUS
<1>8. /\ (p - 1) + 3 = p + 2 /\ (p - 1) + 4 = comma /\ (p - 1) + 5 = close
      /\ \A k \in (p + 2)..(comma - 1) : k = p + 2
      /\ \A k \in comma..(close - 1) : k = comma
      /\ comma \in Nat /\ close \in Nat /\ p + 2 <= comma /\ comma <= close
      /\ close <= Len(text) /\ comma - 1 = p + 2 /\ close + 1 = p + 5
  <2>1. p \in Nat \ {0} /\ Len(text) \in Nat /\ (p - 1) + 5 <= Len(text)
    BY <1>6
  <2>2. \A k \in (p + 2)..(comma - 1) : k = p + 2
    BY <2>1, <1>7
  <2>3. \A k \in comma..(close - 1) : k = comma
    BY <2>1, <1>7
  <2>4. (p - 1) + 3 = p + 2 /\ (p - 1) + 4 = comma /\ (p - 1) + 5 = close
    BY <2>1, <1>7
  <2>5. comma \in Nat /\ close \in Nat /\ p + 2 <= comma /\ comma <= close
    BY <2>1, <1>7
  <2>6. close <= Len(text) /\ comma - 1 = p + 2 /\ close + 1 = p + 5
    BY <2>1, <1>7
  <2> QED
    BY <2>2, <2>3, <2>4, <2>5, <2>6, Zenon
<1>9. /\ Mem(text, p + 2) = w[3] /\ text[p + 2] = w[3] /\ Mem(text, comma) = w[4]
      /\ Mem(text, close) = w[5]
  BY <1>6, <1>8
<1>10. TagAt(text, p, comma, close)
  BY <1>4, <1>8, <1>9, Zenon DEF TagAt
<1>11. PICK type : type = SubSeq(text, p + 2, comma - 1)
  OBVIOUS
<1>12. Head(type) = w[3]
  BY <1>6, <1>8, <1>9, <1>11
<1>13. ParseStyling(text, p).next = close + 1 /\ ParseStyling(text, p).kind = KindOf(type)
  <2>1. /\ text \in Seq(Alphabet) /\ p \in Nat /\ comma \in Nat /\ close \in Nat
        /\ p + 2 <= comma /\ comma <= close /\ close <= Len(text)
    BY <1>6, <1>8
  <2>2. ParseStyling(text, p).next = close + 1
    BY <1>10, <2>1, ParseScans
  <2>3. ParseStyling(text, p).kind = KindOf(SubSeq(text, p + 2, comma - 1))
    BY <1>10, <2>1, ParseScans
  <2> QED
    BY <1>11, <2>2, <2>3
<1>14. KindOf(type) = "reset"
  BY <1>4, <1>12 DEF KindOf
<1> QED
  BY <1>1, <1>2, <1>5, <1>8, <1>13, <1>14 DEF ParsedAs

LEMMA ClearParsed ==
    ASSUME NEW text, NEW p, NEW it \in Styling, Reads(text, p, Written(it))
    PROVE  it.kind = "clear" => ParsedAs(text, p, it)
<1>1. SUFFICES ASSUME it.kind = "clear" PROVE ParsedAs(text, p, it)
  OBVIOUS
<1>2. it.n \in 0..7
  BY ColourIs DEF Styling
<1>3. PICK w, d : w = Written(it) /\ d = Digit[it.n + 1]
  OBVIOUS
<1>4. w = <<"C", "[", "c", ",", d, "]">>
  BY <1>1, <1>3 DEF Written
<1>5. w[3] = "c" /\ w[4] = "," /\ w[5] = d /\ w[6] = "]"
  BY <1>4
<1>6. Len(w) = 6
  BY <1>4
<1>7. d \notin {"]", ",", "NUL"}
  BY <1>2, <1>3, Digits
<1>8. /\ text \in Seq(Alphabet) /\ p \in Nat \ {0} /\ (p - 1) + 6 <= Len(text)
      /\ \A i \in 1..6 : w[i] = Mem(text, (p - 1) + i) /\ w[i] = text[(p - 1) + i]
  <2>1. Len(w) \in 5..7 /\ Reads(text, p, w)
    BY <1>3, <1>6
  <2>2. text \in Seq(Alphabet) /\ p \in Nat \ {0} /\ (p - 1) + Len(w) <= Len(text)
    BY <2>1, Places
  <2>3. \A i \in 1..Len(w) : w[i] = Mem(text, (p - 1) + i) /\ w[i] = text[(p - 1) + i]
    BY <2>1, Places
  <2> QED
    BY <1>6, <2>2, <2>3
<1>9. PICK comma, close : comma = p + 3 /\ close = p + 5
  OBVIOUS
<1>10. /\ (p - 1) + 3 = p + 2 /\ (p - 1) + 4 = comma /\ (p - 1) + 5 = comma + 1
       /\ (p - 1) + 6 = close
       /\ \A k \in (p + 2)..(comma - 1) : k = p + 2
       /\ \A k \in comma..(close - 1) : k = comma \/ k = comma + 1
       /\ comma \in Nat /\ close \in Nat /\ p \in Nat /\ p + 2 <= comma /\ comma <= close
       /\ close <= Len(text) /\ comma - 1 = p + 2 /\ close - 1 = comma + 1
       /\ close + 1 = p + 6
  <2>1. p \in Nat \ {0} /\ Len(text) \in Nat /\ (p - 1) + 6 <= Len(text)
    BY <1>8
  <2>2. \A k \in (p + 2)..(comma - 1) : k = p + 2
    BY <2>1, <1>9
  <2>3. \A k \in comma..(close - 1) : k = comma \/ k = comma + 1
    BY <2>1, <1>9
  <2>4. /\ (p - 1) + 3 = p + 2 /\ (p - 1) + 4 = comma /\ (p - 1) + 5 = comma + 1
        /\ (p - 1) + 6 = close
    BY <2>1, <1>9
  <2>5. comma \in Nat /\ close \in Nat /\ p \in Nat /\ p + 2 <= comma /\ comma <= close
    BY <2>1, <1>9
  <2>6. close <= Len(text) /\ comma - 1 = p + 2 /\ close - 1 = comma + 1 /\ close + 1 = p + 6
    BY <2>1, <1>9
  <2> QED
    BY <2>2, <2>3, <2>4, <2>5, <2>6, Zenon
<1>11. /\ Mem(text, p + 2) = w[3] /\ text[p + 2] = w[3]
       /\ Mem(text, comma) = w[4] /\ text[comma] = w[4]
       /\ Mem(text, comma + 1) = w[5] /\ text[comma + 1] = w[5] /\ Mem(text, close) = w[6]
  BY <1>8, <1>10
<1>12. TagAt(text, p, comma, close)
  BY <1>5, <1>7, <1>10, <1>11, Zenon DEF TagAt
<1>13. PICK type : type = SubSeq(text, p + 2, comma - 1)
  OBVIOUS
<1>14. Head(type) = w[3]
  BY <1>8, <1>10, <1>11, <1>13
<1>15. KindOf(type) = "clear"
  BY <1>5, <1>14 DEF KindOf
<1>16. /\ ParseStyling(text, p).next = close + 1
       /\ ParseStyling(text, p).colour = TagColour(text, comma, close - 1)
       /\ ParseStyling(text, p).kind = KindOf(SubSeq(text, p + 2, comma - 1))
  <2>1. /\ text \in Seq(Alphabet) /\ p \in Nat /\ comma \in Nat /\ close \in Nat
        /\ p + 2 <= comma /\ comma <= close /\ close <= Len(text)
    BY <1>8, <1>10
  <2>2. ParseStyling(text, p).next = close + 1
    BY <1>12, <2>1, ParseScans
  <2>3. ParseStyling(text, p).colour = TagColour(text, comma, close - 1)
    BY <1>12, <2>1, ParseScans
  <2>4. ParseStyling(text, p).kind = KindOf(SubSeq(text, p + 2, comma - 1))
    BY <1>12, <2>1, ParseScans
  <2> QED
    BY <2>2, <2>3, <2>4
<1>17. TagColour(text, comma, comma + 1) = it.n
  <2>1. NumberAt(text, comma, it.n)
    BY <1>3, <1>5, <1>11 DEF NumberAt
  <2> QED
    BY <1>2, <1>8, <1>10, <2>1, TagColourIs
<1> QED
  <2>1. ParseStyling(text, p).next = p + Len(Written(it))
    BY <1>3, <1>6, <1>10, <1>16
  <2>2. ParseStyling(text, p).kind = "clear"
    BY <1>13, <1>15, <1>16
  <2>3. ParseStyling(text, p).colour = it.n
    BY <1>10, <1>16, <1>17
  <2> QED
    BY <1>1, <2>1, <2>2, <2>3 DEF ParsedAs

LEMMA ColourParsed ==
    ASSUME NEW text, NEW p, NEW it \in Styling, Reads(text, p, Written(it))
    PROVE  it.kind \in {"fg", "bg"} => ParsedAs(text, p, it)
<1>1. SUFFICES ASSUME it.kind \in {"fg", "bg"} PROVE ParsedAs(text, p, it)
  OBVIOUS
<1>2. it.n \in 0..7
  BY ColourIs DEF Styling
<1>3. PICK w, d, a : /\ w = Written(it) /\ d = Digit[it.n + 1]
                     /\ a = (IF it.kind = "fg" THEN "f" ELSE "b")
  OBVIOUS
<1>4. w = <<"C", "[", a, "g", ",", d, "]">>
  BY <1>1, <1>3 DEF Written
<1>5. w[3] = a /\ w[4] = "g" /\ w[5] = "," /\ w[6] = d /\ w[7] = "]"
  BY <1>4
<1>6. Len(w) = 7
  BY <1>4
<1>7. d \notin {"]", ",", "NUL"} /\ a \notin {"]", ",", "NUL", "r", "c"}
      /\ (a = "b" <=> it.kind = "bg")
  BY <1>1, <1>2, <1>3, Digits
<1>8. /\ text \in Seq(Alphabet) /\ p \in Nat \ {0} /\ (p - 1) + 7 <= Len(text)
      /\ \A i \in 1..7 : w[i] = Mem(text, (p - 1) + i) /\ w[i] = text[(p - 1) + i]
  <2>1. Len(w) \in 5..7 /\ Reads(text, p, w)
    BY <1>3, <1>6
  <2>2. text \in Seq(Alphabet) /\ p \in Nat \ {0} /\ (p - 1) + Len(w) <= Len(text)
    BY <2>1, Places
  <2>3. \A i \in 1..Len(w) : w[i] = Mem(text, (p - 1) + i) /\ w[i] = text[(p - 1) + i]
    BY <2>1, Places
  <2> QED
    BY <1>6, <2>2, <2>3
<1>9. PICK comma, close : comma = p + 4 /\ close = p + 6
  OBVIOUS
<1>10. /\ (p - 1) + 3 = p + 2 /\ (p - 1) + 4 = p + 3 /\ (p - 1) + 5 = comma
       /\ (p - 1) + 6 = comma + 1 /\ (p - 1) + 7 = close
       /\ \A k \in (p + 2)..(comma - 1) : k = p + 2 \/ k = p + 3
       /\ \A k \in comma..(close - 1) : k = comma \/ k = comma + 1
       /\ comma \in Nat /\ close \in Nat /\ p \in Nat /\ p + 2 <= comma /\ comma <= close
       /\ close <= Len(text) /\ comma - 1 = p + 3 /\ close - 1 = comma + 1
       /\ close + 1 = p + 7
  <2>1. p \in Nat \ {0} /\ Len(text) \in Nat /\ (p - 1) + 7 <= Len(text)
    BY <1>8
  <2>2. \A k \in (p + 2)..(comma - 1) : k = p + 2 \/ k = p + 3
    BY <2>1, <1>9
  <2>3. \A k \in comma..(close - 1) : k = comma \/ k = comma + 1
    BY <2>1, <1>9
  <2>4. /\ (p - 1) + 3 = p + 2 /\ (p - 1) + 4 = p + 3 /\ (p - 1) + 5 = comma
        /\ (p - 1) + 6 = comma + 1 /\ (p - 1) + 7 = close
    BY <2>1, <1>9
  <2>5. comma \in Nat /\ close \in Nat /\ p \in Nat /\ p + 2 <= comma /\ comma <= close
    BY <2>1, <1>9
  <2>6. close <= Len(text) /\ comma - 1 = p + 3 /\ close - 1 = comma + 1 /\ close + 1 = p + 7
    BY <2>1, <1>9
  <2> QED
    BY <2>2, <2>3, <2>4, <2>5, <2>6, Zenon
<1>11. /\ Mem(text, p + 2) = w[3] /\ text[p + 2] = w[3]
       /\ Mem(text, p + 3) = w[4] /\ text[p + 3] = w[4]
       /\ Mem(text, comma) = w[5] /\ text[comma] = w[5]
       /\ Mem(text, comma + 1) = w[6] /\ text[comma + 1] = w[6] /\ Mem(text, close) = w[7]
  BY <1>8, <1>10
<1>12. TagAt(text, p, comma, close)
  BY <1>5, <1>7, <1>10, <1>11, Zenon DEF TagAt
<1>13. PICK type : type = SubSeq(text, p + 2, comma - 1)
  OBVIOUS
<1>14. Len(type) = 2 /\ type \in Seq(Alphabet) /\ type[1] = w[3] /\ type[2] = w[4]
  BY <1>8, <1>10, <1>11, <1>13
<1>15. KindOf(type) = it.kind
  <2>1. Head(type) = a
    <3>1. Head(type) = type[1]
      BY <1>14
    <3> QED
      BY <1>5, <1>14, <3>1, Zenon
  <2>2. type = <<"b", "g">> => a = "b"
    <3>1. type = <<"b", "g">> => type[1] = "b"
      OBVIOUS
    <3> QED
      BY <1>5, <1>14, <3>1, Zenon
  <2>3. type = <<type[1], type[2]>>
    BY <1>14
  <2>4. a = "b" => type = <<"b", "g">>
    BY <1>5, <1>14, <2>3
  <2>5. a # "r" /\ a # "c"
    BY <1>7
  <2> QED
    BY <1>1, <1>7, <2>1, <2>2, <2>4, <2>5 DEF KindOf
<1>16. /\ ParseStyling(text, p).next = close + 1
       /\ ParseStyling(text, p).colour = TagColour(text, comma, close - 1)
       /\ ParseStyling(text, p).kind = KindOf(SubSeq(text, p + 2, comma - 1))
  <2>1. /\ text \in Seq(Alphabet) /\ p \in Nat /\ comma \in Nat /\ close \in Nat
        /\ p + 2 <= comma /\ comma <= close /\ close <= Len(text)
    BY <1>8, <1>10
  <2>2. ParseStyling(text, p).next = close + 1
    BY <1>12, <2>1, ParseScans
  <2>3. ParseStyling(text, p).colour = TagColour(text, comma, close - 1)
    BY <1>12, <2>1, ParseScans
  <2>4. ParseStyling(text, p).kind = KindOf(SubSeq(text, p + 2, comma - 1))
    BY <1>12, <2>1, ParseScans
  <2> QED
    BY <2>2, <2>3, <2>4
<1>17. TagColour(text, comma, comma + 1) = it.n
  <2>1. NumberAt(text, comma, it.n)
    BY <1>3, <1>5, <1>11 DEF NumberAt
  <2> QED
    BY <1>2, <1>8, <1>10, <2>1, TagColourIs
<1> QED
  <2>1. ParseStyling(text, p).next = p + Len(Written(it))
    BY <1>3, <1>6, <1>10, <1>16
  <2>2. ParseStyling(text, p).kind = it.kind
    BY <1>13, <1>15, <1>16
  <2>3. ParseStyling(text, p).colour = it.n
    BY <1>10, <1>16, <1>17
  <2> QED
    BY <2>1, <2>2, <2>3 DEF ParsedAs

LEMMA TagParsed ==
    ASSUME NEW text, NEW p, NEW it \in Styling, Reads(text, p, Written(it))
    PROVE  ParsedAs(text, p, it)
BY ResetParsed, ClearParsed, ColourParsed DEF Styling

-----------------------------------------------------------------------------
(* The pointer of PrintStringInternal between two items.                   *)

LEMMA TextEmpty == TextOf(<<>>) = <<>>
<1>1. [i \in DOMAIN <<>> |-> Written(<<>>[i])] = <<>>
  OBVIOUS
<1> QED
  BY <1>1, FlattenEmpty DEF TextOf

LEMMA TextType ==
    ASSUME NEW items \in Seq(Item)
    PROVE  TextOf(items) \in Seq(Alphabet)
<1>1. <<>> \in Seq(Alphabet)
  OBVIOUS
<1> QED
  BY <1>1, TextCons, TextEmpty

\* A tag is no character and no directive.
LEMMA ItemsDiffer ==
    ASSUME NEW it \in Item
    PROVE  /\ it \in Styling <=> it.kind \in {"fg", "bg", "clear", "reset"}
           /\ it \in Substitution <=> it.kind \in {"s", "u", "x"}
           /\ it \in Plain <=> it.kind = "char"
           /\ it \in Substitution <=> TakesArgument(it.kind)
BY ItemKinds DEF Styling, Substitution, Plain, TakesArgument

\* The letters a tag, a directive and a character begin with.
LEMMA FirstLetters ==
    ASSUME NEW it \in Item
    PROVE  /\ Len(Written(it)) \in Nat \ {0} /\ Written(it)[1] \in Alphabet
           /\ it \in Styling => Written(it)[1] = "C" /\ Written(it)[2] = "[" /\ Len(Written(it)) > 1
           /\ it \in Substitution => Written(it)[1] = "%" /\ Written(it)[2] = it.kind
                                     /\ Len(Written(it)) = 2
           /\ it \in Plain => Written(it)[1] = it.c /\ Len(Written(it)) = 1
<1>1. PICK d : d = Digit[it.n + 1]
  OBVIOUS
<1>2. Written(it) \in Seq(Alphabet)
  BY WrittenType
<1>3. CASE it \in Plain
  <2>1. Written(it) = <<it.c>> /\ it \notin Styling /\ it \notin Substitution
    BY <1>3, ItemsDiffer DEF Written
  <2>2. Len(Written(it)) = 1 /\ Written(it)[1] = it.c
    BY <2>1
  <2> QED
    BY <1>2, <2>1, <2>2, ElementOfSeq
<1>4. CASE it \in Substitution
  <2>1. Written(it) = <<"%", it.kind>> /\ it \notin Styling /\ it \notin Plain
    BY <1>4, ItemsDiffer DEF Written
  <2>2. Len(Written(it)) = 2
    BY <2>1
  <2>3. Written(it)[1] = "%" /\ Written(it)[2] = it.kind
    BY <2>1
  <2>4. Written(it)[1] \in Alphabet
    <3>1. 1 \in 1..Len(Written(it))
      BY <2>2
    <3> QED
      BY <1>2, <3>1, ElementOfSeq
  <2> QED
    BY <2>1, <2>2, <2>3, <2>4
<1>5. CASE it \in Styling
  <2>1. it \notin Plain /\ it \notin Substitution
    BY <1>5, ItemsDiffer
  <2>2. \/ Written(it) = <<"C", "[", "r", ",", "]">>
        \/ Written(it) = <<"C", "[", "c", ",", d, "]">>
        \/ Written(it) = <<"C", "[", "f", "g", ",", d, "]">>
        \/ Written(it) = <<"C", "[", "b", "g", ",", d, "]">>
    BY <1>1, <1>5, ItemsDiffer DEF Written
  <2>3. PICK w : w = Written(it)
    OBVIOUS
  <2>4. Len(w) \in 5..7 /\ w[1] = "C" /\ w[2] = "["
    <3>1. ASSUME w = <<"C", "[", "r", ",", "]">> PROVE Len(w) \in 5..7 /\ w[1] = "C" /\ w[2] = "["
      <4>1. Len(w) = 5
        BY <3>1
      <4>2. w[1] = "C" /\ w[2] = "["
        BY <3>1
      <4> QED
        BY <4>1, <4>2
    <3>2. ASSUME w = <<"C", "[", "c", ",", d, "]">> PROVE Len(w) \in 5..7 /\ w[1] = "C" /\ w[2] = "["
      <4>1. Len(w) = 6
        BY <3>2
      <4>2. w[1] = "C" /\ w[2] = "["
        BY <3>2
      <4> QED
        BY <4>1, <4>2
    <3>3. ASSUME w = <<"C", "[", "f", "g", ",", d, "]">> PROVE Len(w) \in 5..7 /\ w[1] = "C" /\ w[2] = "["
      <4>1. Len(w) = 7
        BY <3>3
      <4>2. w[1] = "C" /\ w[2] = "["
        BY <3>3
      <4> QED
        BY <4>1, <4>2
    <3>4. ASSUME w = <<"C", "[", "b", "g", ",", d, "]">> PROVE Len(w) \in 5..7 /\ w[1] = "C" /\ w[2] = "["
      <4>1. Len(w) = 7
        BY <3>4
      <4>2. w[1] = "C" /\ w[2] = "["
        BY <3>4
      <4> QED
        BY <4>1, <4>2
    <3> QED
      BY <2>2, <2>3, <3>1, <3>2, <3>3, <3>4
  <2>5. Len(Written(it)) \in 5..7 /\ Written(it)[1] = "C" /\ Written(it)[2] = "["
    BY <2>4, <2>3
  <2>6. Len(Written(it)) \in Nat \ {0} /\ Len(Written(it)) > 1 /\ 1 \in 1..Len(Written(it))
    BY <2>5
  <2>7. Written(it)[1] \in Alphabet
    BY <1>2, <2>6, ElementOfSeq
  <2> QED
    BY <2>1, <2>5, <2>6, <2>7
<1> QED
  BY <1>3, <1>4, <1>5 DEF Item

\* A pointer at items, with the text pre behind it.
Points(text, p, pre, items) ==
    /\ pre \in Seq(Alphabet) /\ items \in Seq(Item)
    /\ text = Cat(pre, TextOf(items)) /\ p = Len(pre) + 1

LEMMA PointsAt ==
    ASSUME NEW text, NEW p, NEW pre, NEW items, Points(text, p, pre, items), items # <<>>
    PROVE  /\ Reads(text, p, Written(Head(items)))
           /\ Points(text, p + Len(Written(Head(items))), Cat(pre, Written(Head(items))),
                     Tail(items))
<1>1. PICK w, post : w = Written(Head(items)) /\ post = TextOf(Tail(items))
  OBVIOUS
<1>2. /\ pre \in Seq(Alphabet) /\ items \in Seq(Item) /\ p = Len(pre) + 1
      /\ text = Cat(pre, TextOf(items))
  BY DEF Points
<1>3. w \in Seq(Alphabet) /\ post \in Seq(Alphabet) /\ TextOf(items) = Cat(w, post)
  BY <1>1, <1>2, TextCons
<1>4. text = Cat(pre, Cat(w, post))
  BY <1>2, <1>3
<1>5. Reads(text, p, w)
  BY <1>2, <1>3, <1>4, ReadsWritten
<1>6. Cat(Cat(pre, w), post) = Cat(pre, Cat(w, post))
  BY <1>2, <1>3, CatAssociative
<1>7. Cat(pre, w) \in Seq(Alphabet) /\ Len(Cat(pre, w)) = Len(pre) + Len(w)
  BY <1>2, <1>3, CatFacts
<1>8. p + Len(w) = Len(Cat(pre, w)) + 1
  <2>1. Len(pre) \in Nat /\ Len(w) \in Nat
    BY <1>2, <1>3, LenProperties
  <2> QED
    BY <1>2, <1>7, <2>1
<1>9. Tail(items) \in Seq(Item)
  BY <1>2, HeadAndTail
<1>10. Points(text, p + Len(w), Cat(pre, w), Tail(items))
  BY <1>1, <1>4, <1>6, <1>7, <1>8, <1>9, Zenon DEF Points
<1> QED
  BY <1>1, <1>5, <1>10

\* At the end of the text there is the terminator.
LEMMA PointsEnd ==
    ASSUME NEW text, NEW p, NEW pre, Points(text, p, pre, <<>>)
    PROVE  Mem(text, p) = "NUL"
<1>1. pre \in Seq(Alphabet) /\ text = Cat(pre, <<>>) /\ p = Len(pre) + 1
  BY TextEmpty DEF Points
<1>2. text = pre
  BY <1>1, CatFacts
<1>3. Len(pre) \in Nat
  BY <1>1, LenProperties
<1>4. ~(p <= Len(text)) /\ p = Len(text) + 1
  BY <1>1, <1>2, <1>3
<1> QED
  BY <1>4 DEF Mem

\* What the pointer finds at the first item.
LEMMA FirstRead ==
    ASSUME NEW text, NEW p, NEW pre, NEW items, Points(text, p, pre, items), items # <<>>
    PROVE  /\ Mem(text, p) = Written(Head(items))[1]
           /\ Len(Written(Head(items))) > 1 => Mem(text, p + 1) = Written(Head(items))[2]
<1>1. PICK w : w = Written(Head(items))
  OBVIOUS
<1>2. Reads(text, p, w)
  BY <1>1, PointsAt
<1>3. p \in Nat /\ \A i \in 1..Len(w) : Mem(text, (p - 1) + i) = w[i]
  BY <1>2 DEF Reads
<1>4. Head(items) \in Item
  BY HeadAndTail DEF Points
<1>5. Len(w) \in Nat \ {0}
  BY <1>1, <1>4, FirstLetters
<1>6. (p - 1) + 1 = p /\ (p - 1) + 2 = p + 1 /\ 1 \in 1..Len(w)
      /\ (Len(w) > 1 => 2 \in 1..Len(w))
  BY <1>3, <1>5
<1> QED
  BY <1>1, <1>3, <1>6

LEMMA ParseableTail ==
    ASSUME NEW items, Parseable(items), items # <<>>
    PROVE  /\ items \in Seq(Item) /\ Head(items) \in Item /\ Parseable(Tail(items))
           /\ Head(items) \in Styling => Tail(items) # <<>> /\ Head(Tail(items)) \notin Styling
           /\ Head(items) = Char("C") /\ Tail(items) # <<>> => Head(Tail(items)) # Char("[")
<1>1. PICK rest : rest = Tail(items)
  OBVIOUS
<1>2. items \in Seq(Item)
  BY DEF Parseable
<1>3. /\ Head(items) = items[1] /\ Head(items) \in Item /\ rest \in Seq(Item)
      /\ Len(items) \in Nat \ {0} /\ Len(rest) = Len(items) - 1
      /\ \A i \in 1..Len(rest) : rest[i] = items[i + 1]
  BY <1>1, <1>2, HeadAndTail
<1>4. DOMAIN items = 1..Len(items) /\ DOMAIN rest = 1..Len(rest) /\ Len(rest) \in Nat
  BY <1>2, <1>3
<1>5. rest # <<>> <=> Len(rest) > 0
  BY <1>3, EmptySeq
<1>6. rest # <<>> => Head(rest) = items[2]
  <2>1. rest # <<>> => Head(rest) = rest[1]
    BY <1>3
  <2> QED
    BY <1>3, <1>4, <1>5, <2>1
<1>7. \A i \in 1..Len(items) :
          /\ items[i] \in Styling => i < Len(items) /\ items[i + 1] \notin Styling
          /\ items[i] = Char("C") /\ i < Len(items) => items[i + 1] # Char("[")
  BY <1>4 DEF Parseable
<1>8. Parseable(rest)
  <2>1. ASSUME NEW i \in 1..Len(rest)
        PROVE  /\ rest[i] \in Styling => i < Len(rest) /\ rest[i + 1] \notin Styling
               /\ rest[i] = Char("C") /\ i < Len(rest) => rest[i + 1] # Char("[")
    <3>1. i + 1 \in 1..Len(items) /\ (i < Len(rest) <=> i + 1 < Len(items))
      BY <1>3, <1>4
    <3>2. rest[i] = items[i + 1]
      BY <1>3
    <3>3. i < Len(rest) => rest[i + 1] = items[(i + 1) + 1]
      <4>1. i < Len(rest) => i + 1 \in 1..Len(rest)
        BY <1>4
      <4> QED
        BY <1>3, <4>1
    <3> QED
      BY <1>7, <3>1, <3>2, <3>3
  <2> QED
    BY <1>3, <1>4, <2>1 DEF Parseable
<1>9. 1 \in 1..Len(items) /\ 1 + 1 = 2 /\ (1 < Len(items) <=> Len(rest) > 0)
  BY <1>3, <1>4
<1> QED
  BY <1>1, <1>2, <1>3, <1>5, <1>6, <1>7, <1>8, <1>9

\* IsTag recognises the tags, and "%" the directives; nothing else ends a text.
LEMMA AtItem ==
    ASSUME NEW text, NEW p, NEW pre, NEW items, Points(text, p, pre, items),
           Parseable(items), items # <<>>
    PROVE  /\ IsTag(text, p) <=> Head(items) \in Styling
           /\ Mem(text, p) # "NUL"
           /\ Head(items) \in Substitution =>
                Mem(text, p) = "%" /\ Mem(text, p + 1) = Head(items).kind
           /\ Head(items) \in Plain =>
                Mem(text, p) = Head(items).c /\ Mem(text, p) # "%"
<1>1. PICK it, rest : it = Head(items) /\ rest = Tail(items)
  OBVIOUS
<1>2. /\ it \in Item
      /\ it = Char("C") /\ rest # <<>> => Head(rest) # Char("[")
  BY <1>1, ParseableTail
<1>3. /\ Mem(text, p) = Written(it)[1]
      /\ Len(Written(it)) > 1 => Mem(text, p + 1) = Written(it)[2]
  BY <1>1, FirstRead
<1>4. Mem(text, p) # "NUL"
  BY <1>2, <1>3, FirstLetters, AlphabetReserves
<1>5. CASE it \in Styling
  <2>1. Mem(text, p) = "C" /\ Mem(text, p + 1) = "["
    BY <1>2, <1>3, <1>5, FirstLetters
  <2>2. it \notin Substitution /\ it \notin Plain
    BY <1>2, <1>5, ItemsDiffer
  <2> QED
    BY <1>1, <1>4, <1>5, <2>1, <2>2 DEF IsTag
<1>6. CASE it \in Substitution
  <2>1. Len(Written(it)) > 1
    <3>1. Len(Written(it)) = 2
      BY <1>2, <1>6, FirstLetters
    <3> QED
      BY <3>1
  <2>2. Mem(text, p) = "%" /\ Mem(text, p + 1) = it.kind
    BY <1>2, <1>3, <1>6, <2>1, FirstLetters
  <2>3. it \notin Styling /\ it \notin Plain
    BY <1>2, <1>6, ItemsDiffer
  <2> QED
    BY <1>1, <1>4, <1>6, <2>2, <2>3 DEF IsTag
<1>7. CASE it \in Plain
  <2>1. it \notin Styling /\ it \notin Substitution
    BY <1>2, <1>7, ItemsDiffer
  <2>2. Mem(text, p) = it.c /\ it.c # "%" /\ it = Char(it.c)
    <3>1. it.c # "%" /\ it = [kind |-> "char", c |-> it.c]
      BY <1>7 DEF Plain
    <3> QED
      BY <1>2, <1>3, <1>7, <3>1, FirstLetters DEF Char
  <2>3. Len(Written(it)) = 1
    BY <1>2, <1>7, FirstLetters
  <2>4. Points(text, p + 1, Cat(pre, Written(it)), rest)
    BY <1>1, <2>3, PointsAt
  <2>5. ASSUME it.c = "C", Mem(text, p + 1) = "[" PROVE FALSE
    <3>1. CASE rest = <<>>
      BY <2>4, <2>5, <3>1, PointsEnd
    <3>2. CASE rest # <<>>
      <4>1. PICK nx : nx = Head(rest)
        OBVIOUS
      <4>2. nx \in Item
        BY <2>4, <3>2, <4>1, HeadAndTail DEF Points
      <4>3. Written(nx)[1] = "["
        BY <2>4, <2>5, <3>2, <4>1, FirstRead
      <4>4. nx \in Plain /\ nx.c = "["
        BY <4>2, <4>3, FirstLetters DEF Item
      <4>5. nx = Char("[")
        BY <4>4 DEF Plain, Char
      <4> QED
        BY <1>2, <2>2, <2>5, <3>2, <4>1, <4>5
    <3> QED
      BY <3>1, <3>2
  <2> QED
    BY <1>1, <1>4, <1>7, <2>1, <2>2, <2>5 DEF IsTag
<1> QED
  BY <1>2, <1>5, <1>6, <1>7 DEF Item

-----------------------------------------------------------------------------
(* A message, half printed: strings q of which the first is read up to p,  *)
(* with the arguments a and the items rest still to come.                  *)

Reading(q, p, a, pre, rest) ==
    /\ q \in Seq(Seq(Item)) /\ q # <<>> /\ \A i \in DOMAIN q : Parseable(q[i])
    /\ Points(TextOf(Head(q)), p, pre, rest) /\ Parseable(rest) /\ a = ArgsOf(rest)

Todo(q, rest) == Cat(rest, FlattenSeq(Tail(q)))

\* The characters out, in the colours k, and then the items todo are all that
\* the message has still to show, w; it ends in the default colours.
Owes(w, out, todo, k) ==
    /\ out \in Seq(Alphabet) /\ todo \in Seq(Item) /\ k \in Palette
    /\ Final(todo, k) = Default
    /\ w = Cat(Painted(out, k), Meaning(todo, k))

\* A tag has been parsed: there is a character to take.
AtCharacter(rest) == rest # <<>> /\ Head(rest) \notin Styling

LEMMA MeaningType ==
    ASSUME NEW items \in Seq(Item), NEW k \in Palette
    PROVE  Meaning(items, k) \in Seq(Glyph)
<1>1. CASE items = <<>>
  <2>1. <<>> \in Seq(Glyph)
    OBVIOUS
  <2> QED
    BY <1>1, <2>1, MeaningEmpty
<1>2. CASE items # <<>>
  BY <1>2, MeaningCons
<1> QED
  BY <1>1, <1>2

\* Nothing is out.
LEMMA OwesItems ==
    ASSUME NEW w, NEW todo \in Seq(Item), NEW k \in Palette
    PROVE  Owes(w, <<>>, todo, k) <=> w = Meaning(todo, k) /\ Final(todo, k) = Default
<1>1. Cat(<<>>, Meaning(todo, k)) = Meaning(todo, k)
  BY MeaningType, CatFacts
<1>2. <<>> \in Seq(Alphabet)
  OBVIOUS
<1> QED
  BY <1>1, <1>2, PaintedEmpty DEF Owes

\* The next item is taken.
LEMMA OwesNext ==
    ASSUME NEW w, NEW todo, NEW k, Owes(w, <<>>, todo, k), todo # <<>>,
           NEW m, m = Restyle(Head(todo), k)
    PROVE  Owes(w, Shown(Head(todo)), Tail(todo), m)
<1>1. todo \in Seq(Item) /\ k \in Palette
  BY DEF Owes
<1>2. w = Meaning(todo, k) /\ Final(todo, k) = Default
  BY <1>1, OwesItems
<1>3. Head(todo) \in Item /\ Tail(todo) \in Seq(Item)
  BY <1>1, HeadAndTail
<1>4. m \in Palette /\ Shown(Head(todo)) \in Seq(Alphabet)
  BY <1>1, <1>3, RestyleType, ShownType
<1>5. Final(Tail(todo), m) = Default
  BY <1>1, <1>2, FinalCons
<1>6. w = Cat(Painted(Shown(Head(todo)), m), Meaning(Tail(todo), m))
  BY <1>1, <1>2, MeaningCons
<1> QED
  BY <1>3, <1>4, <1>5, <1>6 DEF Owes

\* A character is drawn.
LEMMA OwesDrawn ==
    ASSUME NEW w, NEW out, NEW todo, NEW k, Owes(w, out, todo, k), out # <<>>
    PROVE  /\ w # <<>> /\ Head(w) = [c |-> Head(out), fg |-> k.fg, bg |-> k.bg]
           /\ Owes(Tail(w), Tail(out), todo, k)
<1>1. PICK shown, rest : shown = Painted(out, k) /\ rest = Meaning(todo, k)
  OBVIOUS
<1>2. /\ out \in Seq(Alphabet) /\ todo \in Seq(Item) /\ k \in Palette
      /\ Final(todo, k) = Default /\ w = Cat(shown, rest)
  BY <1>1 DEF Owes
<1>3. shown \in Seq(Glyph) /\ rest \in Seq(Glyph)
  BY <1>1, <1>2, PaintedIs, MeaningType
<1>4. /\ shown # <<>> /\ Head(shown) = [c |-> Head(out), fg |-> k.fg, bg |-> k.bg]
      /\ Tail(shown) = Painted(Tail(out), k)
  BY <1>1, <1>2, PaintedTail
<1>5. w # <<>> /\ Head(w) = Head(shown) /\ Tail(w) = Cat(Tail(shown), rest)
  BY <1>2, <1>3, <1>4, CatTail
<1>6. Tail(out) \in Seq(Alphabet)
  BY <1>2, HeadAndTail
<1> QED
  BY <1>1, <1>2, <1>4, <1>5, <1>6 DEF Owes

LEMMA TodoType ==
    ASSUME NEW q \in Seq(Seq(Item)), q # <<>>, NEW rest \in Seq(Item)
    PROVE  /\ Todo(q, rest) \in Seq(Item) /\ FlattenSeq(Tail(q)) \in Seq(Item)
           /\ rest # <<>> => /\ Todo(q, rest) # <<>> /\ Head(Todo(q, rest)) = Head(rest)
                             /\ Tail(Todo(q, rest)) = Todo(q, Tail(rest))
<1>1. FlattenSeq(Tail(q)) \in Seq(Item)
  BY FlattenCons
<1>2. Todo(q, rest) \in Seq(Item)
  BY <1>1, CatFacts DEF Todo
<1>3. rest # <<>> => /\ Todo(q, rest) # <<>> /\ Head(Todo(q, rest)) = Head(rest)
                     /\ Tail(Todo(q, rest)) = Todo(q, Tail(rest))
  BY <1>1, CatTail DEF Todo
<1> QED
  BY <1>1, <1>2, <1>3

\* Begin: the first string of a message.
LEMMA ReadFirst ==
    ASSUME NEW q \in Seq(Seq(Item)), q # <<>>, \A i \in DOMAIN q : Parseable(q[i])
    PROVE  /\ Reading(q, 1, ArgsOf(Head(q)), <<>>, Head(q))
           /\ Todo(q, Head(q)) = FlattenSeq(q) /\ FlattenSeq(q) \in Seq(Item)
<1>1. Head(q) = q[1] /\ Head(q) \in Seq(Item) /\ Len(q) \in Nat \ {0}
  BY HeadAndTail
<1>2. Parseable(Head(q))
  <2>1. 1 \in DOMAIN q
    BY <1>1
  <2> QED
    BY <1>1, <2>1
<1>3. Points(TextOf(Head(q)), 1, <<>>, Head(q))
  <2>1. TextOf(Head(q)) \in Seq(Alphabet)
    BY <1>1, TextType
  <2>2. <<>> \in Seq(Alphabet) /\ Len(<<>>) + 1 = 1
    OBVIOUS
  <2>3. Cat(<<>>, TextOf(Head(q))) = TextOf(Head(q))
    BY <2>1, CatFacts
  <2> QED
    BY <1>1, <2>2, <2>3 DEF Points
<1>4. Todo(q, Head(q)) = FlattenSeq(q) /\ FlattenSeq(q) \in Seq(Item)
  BY FlattenCons DEF Todo
<1> QED
  BY <1>2, <1>3, <1>4 DEF Reading

\* Style: the tag's colours are those the tag means, and a character follows.
LEMMA ReadTag ==
    ASSUME NEW q, NEW p, NEW a, NEW pre, NEW rest, Reading(q, p, a, pre, rest),
           IsTag(TextOf(Head(q)), p), NEW w, NEW k, Owes(w, <<>>, Todo(q, rest), k),
           NEW tag, tag = ParseStyling(TextOf(Head(q)), p),
           NEW m, m = CASE tag.kind = "reset" -> Default
                        [] tag.kind = "fg" -> [k EXCEPT !.fg = tag.colour]
                        [] OTHER -> [k EXCEPT !.bg = tag.colour]
    PROVE  /\ tag.next \in Nat /\ AtCharacter(Tail(rest)) /\ m \in Palette
           /\ \E pre2 : Reading(q, tag.next, a, pre2, Tail(rest))
           /\ Owes(w, <<>>, Todo(q, Tail(rest)), m)
<1>1. PICK text, it : text = TextOf(Head(q)) /\ it = Head(rest)
  OBVIOUS
<1>2. /\ q \in Seq(Seq(Item)) /\ q # <<>> /\ \A i \in DOMAIN q : Parseable(q[i])
      /\ Points(text, p, pre, rest) /\ Parseable(rest) /\ a = ArgsOf(rest)
      /\ rest \in Seq(Item) /\ k \in Palette
  BY <1>1 DEF Reading, Parseable, Owes
<1>3. rest # <<>>
  BY <1>1, <1>2, PointsEnd DEF IsTag
<1>4. it \in Styling
  BY <1>1, <1>2, <1>3, AtItem
<1>5. it \in Item /\ Parseable(Tail(rest)) /\ AtCharacter(Tail(rest))
  BY <1>1, <1>2, <1>3, <1>4, ParseableTail DEF AtCharacter
<1>6. /\ Reads(text, p, Written(it))
      /\ Points(text, p + Len(Written(it)), Cat(pre, Written(it)), Tail(rest))
  BY <1>1, <1>2, <1>3, PointsAt
<1>7. ParsedAs(text, p, it)
  BY <1>4, <1>6, TagParsed
<1>8. /\ tag.next = p + Len(Written(it)) /\ tag.kind = it.kind
      /\ it.kind # "reset" => tag.colour = it.n
  BY <1>1, <1>7 DEF ParsedAs
<1>9. tag.next \in Nat
  <2>1. p \in Nat /\ Len(Written(it)) \in Nat
    BY <1>5, <1>6, FirstLetters DEF Reads
  <2> QED
    BY <1>8, <2>1
<1>10. m = Restyle(it, k)
  BY <1>4, <1>5, <1>8, ItemsDiffer DEF Restyle, Default
<1>11. Shown(it) = <<>>
  BY <1>4, <1>5, ItemsDiffer DEF Shown
<1>12. a = ArgsOf(Tail(rest))
  <2>1. ~TakesArgument(it.kind)
    BY <1>4, <1>5, ItemsDiffer DEF TakesArgument
  <2> QED
    BY <1>1, <1>2, <1>3, <2>1, ArgsCons
<1>13. Reading(q, tag.next, a, Cat(pre, Written(it)), Tail(rest))
  BY <1>1, <1>2, <1>5, <1>6, <1>8, <1>12 DEF Reading
<1>14. Owes(w, <<>>, Todo(q, Tail(rest)), m)
  <2>1. PICK todo : todo = Todo(q, rest)
    OBVIOUS
  <2>2. todo # <<>> /\ Head(todo) = it /\ Tail(todo) = Todo(q, Tail(rest))
    BY <1>1, <1>2, <1>3, <2>1, TodoType
  <2>3. Owes(w, Shown(Head(todo)), Tail(todo), m)
    BY <1>10, <2>1, <2>2, OwesNext
  <2> QED
    BY <1>11, <2>2, <2>3
<1>15. m \in Palette
  BY <1>2, <1>5, <1>10, RestyleType
<1> QED
  BY <1>5, <1>9, <1>13, <1>14, <1>15

\* The test for the terminator: a character follows.
LEMMA ReadNoTag ==
    ASSUME NEW q, NEW p, NEW a, NEW pre, NEW rest, Reading(q, p, a, pre, rest),
           ~IsTag(TextOf(Head(q)), p)
    PROVE  /\ Mem(TextOf(Head(q)), p) # "NUL" <=> rest # <<>>
           /\ rest # <<>> => AtCharacter(rest)
<1>1. PICK text : text = TextOf(Head(q))
  OBVIOUS
<1>2. Points(text, p, pre, rest) /\ Parseable(rest)
  BY <1>1 DEF Reading
<1> QED
  BY <1>1, <1>2, PointsEnd, AtItem DEF AtCharacter

\* What Char1 does at p with the arguments a: the characters out are printed.
CharacterAt(text, p, a, out, p2, a2) ==
    IF Mem(text, p) = "%"
      THEN LET spec == Mem(text, p + 1)
               takes == TakesArgument(spec)
           IN  /\ out = Directive(spec, IF takes THEN Head(a) ELSE 0)
               /\ a2 = IF takes THEN Tail(a) ELSE a
               /\ p2 = p + 2
      ELSE out = <<Mem(text, p)>> /\ p2 = p + 1 /\ a2 = a

LEMMA CharacterShown ==
    ASSUME NEW text, NEW p, NEW a, NEW out, NEW p2, NEW a2, CharacterAt(text, p, a, out, p2, a2),
           NEW pre, NEW rest, Points(text, p, pre, rest), Parseable(rest), AtCharacter(rest),
           a = ArgsOf(rest)
    PROVE  /\ out = Shown(Head(rest)) /\ a2 = ArgsOf(Tail(rest))
           /\ p2 = p + Len(Written(Head(rest))) /\ p2 \in Nat
<1>1. PICK it : it = Head(rest)
  OBVIOUS
<1>2. rest # <<>> /\ it \notin Styling /\ rest \in Seq(Item)
  BY <1>1 DEF AtCharacter, Parseable
<1>3. it \in Item
  BY <1>1, <1>2, ParseableTail
<1>4. p \in Nat
  <2>1. Len(pre) \in Nat /\ p = Len(pre) + 1
    BY LenProperties DEF Points
  <2> QED
    BY <2>1
<1>5. CASE it \in Substitution
  <2>1. Mem(text, p) = "%" /\ Mem(text, p + 1) = it.kind
    BY <1>1, <1>2, <1>5, AtItem
  <2>2. TakesArgument(it.kind) /\ Directive(it.kind, it.arg) = Shown(it)
    BY <1>5, DirectiveShows
  <2>3. Head(a) = it.arg /\ Tail(a) = ArgsOf(Tail(rest))
    BY <1>1, <1>2, <2>2, ArgsCons
  <2>4. out = Directive(it.kind, Head(a)) /\ a2 = Tail(a) /\ p2 = p + 2
    BY <2>1, <2>2 DEF CharacterAt
  <2>5. Len(Written(it)) = 2
    BY <1>3, <1>5, FirstLetters
  <2>6. p2 \in Nat
    BY <1>4, <2>4
  <2> QED
    BY <1>1, <2>2, <2>3, <2>4, <2>5, <2>6
<1>6. CASE it \in Plain
  <2>1. Mem(text, p) = it.c /\ Mem(text, p) # "%"
    BY <1>1, <1>2, <1>6, AtItem
  <2>2. out = <<it.c>> /\ a2 = a /\ p2 = p + 1
    BY <2>1 DEF CharacterAt
  <2>3. Shown(it) = <<it.c>>
    BY <1>3, <1>6, ItemsDiffer DEF Shown
  <2>4. Len(Written(it)) = 1
    BY <1>3, <1>6, FirstLetters
  <2>5. a = ArgsOf(Tail(rest))
    <3>1. ~TakesArgument(it.kind)
      BY <1>3, <1>6, ItemsDiffer DEF TakesArgument
    <3> QED
      BY <1>1, <1>2, <3>1, ArgsCons
  <2>6. p2 \in Nat
    BY <1>4, <2>2
  <2> QED
    BY <1>1, <2>2, <2>3, <2>4, <2>5, <2>6
<1> QED
  BY <1>2, <1>3, <1>5, <1>6 DEF Item

LEMMA ReadItem ==
    ASSUME NEW q, NEW p, NEW a, NEW pre, NEW rest, Reading(q, p, a, pre, rest),
           AtCharacter(rest), NEW w, NEW k, Owes(w, <<>>, Todo(q, rest), k),
           NEW out, NEW p2, NEW a2, CharacterAt(TextOf(Head(q)), p, a, out, p2, a2)
    PROVE  /\ p2 \in Nat /\ out \in Seq(Alphabet)
           /\ \E pre2 : Reading(q, p2, a2, pre2, Tail(rest))
           /\ Owes(w, out, Todo(q, Tail(rest)), k)
<1>1. PICK text, it : text = TextOf(Head(q)) /\ it = Head(rest)
  OBVIOUS
<1>2. /\ q \in Seq(Seq(Item)) /\ q # <<>> /\ \A i \in DOMAIN q : Parseable(q[i])
      /\ Points(text, p, pre, rest) /\ Parseable(rest) /\ a = ArgsOf(rest)
      /\ rest \in Seq(Item) /\ k \in Palette /\ rest # <<>> /\ it \notin Styling
  BY <1>1 DEF Reading, Parseable, Owes, AtCharacter
<1>3. it \in Item /\ Parseable(Tail(rest))
  BY <1>1, <1>2, ParseableTail
<1>4. out = Shown(it) /\ a2 = ArgsOf(Tail(rest)) /\ p2 = p + Len(Written(it)) /\ p2 \in Nat
  BY <1>1, <1>2, CharacterShown
<1>5. Points(text, p + Len(Written(it)), Cat(pre, Written(it)), Tail(rest))
  BY <1>1, <1>2, PointsAt
<1>6. Reading(q, p2, a2, Cat(pre, Written(it)), Tail(rest))
  BY <1>1, <1>2, <1>3, <1>4, <1>5 DEF Reading
<1>7. k = Restyle(it, k)
  BY <1>2, <1>3, ItemsDiffer DEF Restyle
<1>8. Owes(w, out, Todo(q, Tail(rest)), k)
  <2>1. PICK todo : todo = Todo(q, rest)
    OBVIOUS
  <2>2. todo # <<>> /\ Head(todo) = it /\ Tail(todo) = Todo(q, Tail(rest))
    BY <1>1, <1>2, <2>1, TodoType
  <2>3. Owes(w, Shown(Head(todo)), Tail(todo), k)
    BY <1>7, <2>1, <2>2, OwesNext
  <2> QED
    BY <1>4, <2>2, <2>3
<1>9. out \in Seq(Alphabet)
  BY <1>3, <1>4, ShownType
<1> QED
  BY <1>4, <1>6, <1>8, <1>9

\* EndString: the next string, or the message's end.
LEMMA ReadEnd ==
    ASSUME NEW q, NEW p, NEW a, NEW pre, Reading(q, p, a, pre, <<>>),
           NEW w, NEW k, Owes(w, <<>>, Todo(q, <<>>), k)
    PROVE  /\ Len(q) > 1 =>
                /\ Reading(Tail(q), 1, ArgsOf(q[2]), <<>>, Head(Tail(q)))
                /\ Owes(w, <<>>, Todo(Tail(q), Head(Tail(q))), k)
           /\ ~(Len(q) > 1) => w = <<>> /\ k = Default
<1>1. PICK r : r = Tail(q)
  OBVIOUS
<1>2. q \in Seq(Seq(Item)) /\ q # <<>> /\ \A i \in DOMAIN q : Parseable(q[i])
  BY DEF Reading
<1>3. /\ r \in Seq(Seq(Item)) /\ Len(q) \in Nat \ {0} /\ Len(r) = Len(q) - 1
      /\ \A i \in 1..Len(r) : r[i] = q[i + 1]
  BY <1>1, <1>2, HeadAndTail
<1>4. Todo(q, <<>>) = FlattenSeq(r)
  <2>1. FlattenSeq(r) \in Seq(Item)
    BY <1>1, <1>2, FlattenCons
  <2> QED
    BY <1>1, <2>1, CatFacts DEF Todo
<1>5. CASE Len(q) > 1
  <2>1. r # <<>>
    BY <1>3, <1>5, EmptySeq
  <2>2. \A i \in DOMAIN r : Parseable(r[i])
    <3>1. ASSUME NEW i \in DOMAIN r PROVE Parseable(r[i])
      <4>1. i \in 1..Len(r) /\ i + 1 \in DOMAIN q
        BY <1>2, <1>3
      <4> QED
        BY <1>2, <1>3, <4>1
    <3> QED
      BY <3>1
  <2>3. Head(r) = q[2]
    <3>1. Head(r) = r[1]
      BY <1>3, <2>1, HeadAndTail
    <3>2. 1 \in 1..Len(r) /\ 1 + 1 = 2
      BY <1>3, <1>5
    <3> QED
      BY <1>3, <3>1, <3>2
  <2>4. Reading(r, 1, ArgsOf(Head(r)), <<>>, Head(r)) /\ Todo(r, Head(r)) = FlattenSeq(r)
    BY <1>3, <2>1, <2>2, ReadFirst
  <2> QED
    BY <1>1, <1>4, <1>5, <2>3, <2>4
<1>6. CASE ~(Len(q) > 1)
  <2>1. r = <<>>
    BY <1>3, <1>6, EmptySeq
  <2>2. Todo(q, <<>>) = <<>>
    BY <1>4, <2>1, FlattenEmpty
  <2>3. k \in Palette /\ <<>> \in Seq(Item)
    BY DEF Owes
  <2>4. w = Meaning(<<>>, k) /\ Final(<<>>, k) = Default
    <3>1. Owes(w, <<>>, <<>>, k)
      BY <2>2
    <3> QED
      BY <2>3, <3>1, OwesItems
  <2> QED
    BY <1>6, <2>3, <2>4, MeaningEmpty, FinalEmpty
<1> QED
  BY <1>5, <1>6

-----------------------------------------------------------------------------
(* The lock's holder, wherever it is.                                      *)

Drawing == {"serial", "out", "draw"}
Moving == {"load", "store", "check"}

\* The characters of pending not drawn yet.
Out(l, pend) == IF l \in Drawing THEN pend ELSE IF l \in Moving THEN Tail(pend) ELSE <<>>

ProgressAt(l, q, p, a, pend, w, k, pre, rest) ==
    /\ Reading(q, p, a, pre, rest)
    /\ Owes(w, Out(l, pend), Todo(q, rest), k)
    /\ l = "char" => AtCharacter(rest)
    /\ l \in Drawing \cup Moving => pend \in Seq(Alphabet) /\ pend # <<>>
Progress(l, q, p, a, pend, w, k) ==
    \E pre, rest : ProgressAt(l, q, p, a, pend, w, k, pre, rest)

LEMMA ProgressKept ==
    ASSUME NEW l, NEW q, NEW p, NEW a, NEW pend, NEW w, NEW k, Progress(l, q, p, a, pend, w, k),
           NEW l2, \/ l \in Drawing /\ l2 \in Drawing
                   \/ l \in Moving /\ l2 \in Moving
                   \/ l = "init" /\ l2 = "loop"
    PROVE  Progress(l2, q, p, a, pend, w, k)
<1>1. PICK pre, rest : ProgressAt(l, q, p, a, pend, w, k, pre, rest)
  BY DEF Progress
<1>2. Out(l2, pend) = Out(l, pend) /\ l2 # "char"
      /\ (l2 \in Drawing \cup Moving => l \in Drawing \cup Moving)
  BY DEF Out, Drawing, Moving
<1>3. ProgressAt(l2, q, p, a, pend, w, k, pre, rest)
  BY <1>1, <1>2 DEF ProgressAt
<1> QED
  BY <1>3 DEF Progress

LEMMA ProgressDrawn ==
    ASSUME NEW q, NEW p, NEW a, NEW pend, NEW w, NEW k, Progress("draw", q, p, a, pend, w, k)
    PROVE  /\ w # <<>> /\ Head(w) = [c |-> Head(pend), fg |-> k.fg, bg |-> k.bg]
           /\ Progress("load", q, p, a, pend, Tail(w), k)
<1>1. PICK pre, rest : ProgressAt("draw", q, p, a, pend, w, k, pre, rest)
  BY DEF Progress
<1>2. /\ Reading(q, p, a, pre, rest) /\ Owes(w, pend, Todo(q, rest), k)
      /\ pend \in Seq(Alphabet) /\ pend # <<>>
  BY <1>1 DEF ProgressAt, Out, Drawing
<1>3. /\ w # <<>> /\ Head(w) = [c |-> Head(pend), fg |-> k.fg, bg |-> k.bg]
      /\ Owes(Tail(w), Tail(pend), Todo(q, rest), k)
  BY <1>2, OwesDrawn
<1>4. Out("load", pend) = Tail(pend)
  BY DEF Out, Drawing, Moving
<1>5. ProgressAt("load", q, p, a, pend, Tail(w), k, pre, rest)
  BY <1>2, <1>3, <1>4 DEF ProgressAt
<1> QED
  BY <1>3, <1>5 DEF Progress

LEMMA ProgressReturned ==
    ASSUME NEW l \in Moving, NEW q, NEW p, NEW a, NEW pend, NEW w, NEW k,
           Progress(l, q, p, a, pend, w, k),
           NEW l2, l2 = IF Len(pend) > 1 THEN "serial" ELSE "loop"
    PROVE  Progress(l2, q, p, a, Tail(pend), w, k)
<1>1. PICK pre, rest : ProgressAt(l, q, p, a, pend, w, k, pre, rest)
  BY DEF Progress
<1>2. /\ Reading(q, p, a, pre, rest) /\ Owes(w, Tail(pend), Todo(q, rest), k)
      /\ pend \in Seq(Alphabet) /\ pend # <<>>
  <2>1. Out(l, pend) = Tail(pend) /\ l \in Drawing \cup Moving
    BY DEF Out, Drawing, Moving
  <2> QED
    BY <1>1, <2>1 DEF ProgressAt
<1>3. /\ Tail(pend) \in Seq(Alphabet) /\ Len(pend) \in Nat \ {0}
      /\ Len(Tail(pend)) = Len(pend) - 1
  BY <1>2, HeadAndTail
<1>4. CASE Len(pend) > 1
  <2>1. Tail(pend) # <<>>
    <3>1. Len(Tail(pend)) # 0
      BY <1>3, <1>4
    <3> QED
      BY <1>3, <3>1, EmptySeq
  <2>2. l2 = "serial" /\ Out("serial", Tail(pend)) = Tail(pend)
    BY <1>4 DEF Out, Drawing
  <2>3. ProgressAt("serial", q, p, a, Tail(pend), w, k, pre, rest)
    BY <1>2, <1>3, <2>1, <2>2 DEF ProgressAt
  <2> QED
    BY <2>2, <2>3 DEF Progress
<1>5. CASE ~(Len(pend) > 1)
  <2>1. Tail(pend) = <<>>
    BY <1>3, <1>5, EmptySeq
  <2>2. l2 = "loop" /\ Out("loop", Tail(pend)) = <<>>
    BY <1>5 DEF Out, Drawing, Moving
  <2>3. "loop" \notin Drawing \cup Moving
    BY DEF Drawing, Moving
  <2>4. ProgressAt("loop", q, p, a, Tail(pend), w, k, pre, rest)
    BY <1>2, <2>1, <2>2, <2>3 DEF ProgressAt
  <2> QED
    BY <2>2, <2>4 DEF Progress
<1> QED
  BY <1>4, <1>5

\* What the labels outside PrintChar mean.
LEMMA ProgressReading ==
    ASSUME NEW l \in {"init", "loop", "char"}, NEW q, NEW p, NEW a, NEW pend, NEW w, NEW k
    PROVE  Progress(l, q, p, a, pend, w, k) <=>
             \E pre, rest : /\ Reading(q, p, a, pre, rest) /\ Owes(w, <<>>, Todo(q, rest), k)
                            /\ l = "char" => AtCharacter(rest)
<1>1. Out(l, pend) = <<>> /\ l \notin Drawing \cup Moving
  BY DEF Out, Drawing, Moving
<1> QED
  BY <1>1 DEF Progress, ProgressAt

Within == {"init", "loop", "char"} \cup Drawing \cup Moving

\* Where a frame is in its message.
Mine(t) ==
    /\ at[t] \in Within =>
         Progress(at[t], strings[t], s[t], args[t], pending[t], want[t], style)
    /\ at[t] = "unlock" => want[t] = <<>> /\ style = Default

Script ==
    /\ strings = [t \in Frame |-> strings[t]] /\ args = [t \in Frame |-> args[t]]
    /\ want = [t \in Frame |-> want[t]] /\ s \in [Frame -> Nat] /\ style \in Palette
    /\ lock \in BOOLEAN /\ ready \in BOOLEAN
    /\ messages \in 0..MaxMessages /\ echoes \in 0..MaxEchoes
    /\ StyleRestored
    /\ \A t \in Locking : Mine(t)

LEMMA InitScript == Init => Script
<1> SUFFICES ASSUME Init PROVE Script
  OBVIOUS
<1>1. \A t \in Frame : at[t] = "idle" /\ s[t] = 1
  BY DEF Init
<1>2. Default \in Palette
  <2>1. White \in Colour /\ Black \in Colour
    BY DEF White, Black, Colour, TerminalPaletteSize
  <2> QED
    BY <2>1 DEF Default, Palette
<1>3. \A t \in Locking : Mine(t)
  BY <1>1 DEF Mine, Within, Drawing, Moving, Locking, Frame
<1>4. s \in [Frame -> Nat]
  BY DEF Init
<1>5. messages \in 0..MaxMessages /\ echoes \in 0..MaxEchoes
  BY BoundAssumption DEF Init
<1>6. strings = [t \in Frame |-> strings[t]] /\ args = [t \in Frame |-> args[t]]
      /\ want = [t \in Frame |-> want[t]]
  BY DEF Init
<1> QED
  BY <1>2, <1>3, <1>4, <1>5, <1>6 DEF Init, Script, StyleRestored

\* A step of one locking frame: the others are idle.
LEMMA OthersIdle ==
    ASSUME IInv, NEW t \in Locking, PrintString(t) \/ PrintChar(t)
    PROVE  \A u \in Locking : u # t => at'[u] = "idle"
<1>1. t \in Frame /\ Locking \subseteq Frame
  BY DEF Locking, Frame
<1>2. (at[t] = "idle" => ~lock) /\ \A u \in Frame : u # t => at'[u] = at[u]
  <2>1. CASE PrintString(t)
    <3>1. (\E l : at' = [at EXCEPT ![t] = l]) /\ (at[t] = "idle" => ~lock)
      BY <2>1, PrintStringMoves DEF MoveOf
    <3> QED
      BY <1>1, <3>1 DEF IInv, Frames
  <2>2. CASE PrintChar(t)
    <3>1. (\E l : at' = [at EXCEPT ![t] = l]) /\ at[t] # "idle"
      BY <1>1, <2>2, PrintCharMoves DEF MoveOf, Returns
    <3> QED
      BY <1>1, <3>1 DEF IInv, Frames
  <2> QED
    BY <2>1, <2>2
<1>3. \A u \in Locking : u # t => at[u] = "idle"
  BY <1>2 DEF IInv, Frames, Locking
<1> QED
  BY <1>1, <1>2, <1>3

LEMMA IdleMine == ASSUME NEW t, at[t] = "idle" PROVE Mine(t)
BY DEF Mine, Within, Drawing, Moving

LEMMA BeginMine ==
    ASSUME IInv, Script, NEW t \in Locking, Begin(t)
    PROVE  Mine(t)' /\ style' = style /\ lock' /\ s' \in [Frame -> Nat]
<1>1. t \in Frame
  BY DEF Locking, Frame
<1>2. style = Default /\ style' = style /\ lock'
  BY DEF Begin, Script, StyleRestored
<1>3. PICK m \in Messages : /\ strings' = [strings EXCEPT ![t] = m]
                            /\ args' = [args EXCEPT ![t] = ArgsOf(Head(m))]
                            /\ want' = [want EXCEPT ![t] = Meaning(FlattenSeq(m), style)]
  BY DEF Begin
<1>4. /\ strings'[t] = m /\ args'[t] = ArgsOf(Head(m))
      /\ want'[t] = Meaning(FlattenSeq(m), style)
  BY <1>1, <1>3 DEF Script
<1>5. s'[t] = 1 /\ s' \in [Frame -> Nat]
  BY <1>1 DEF Begin, Script
<1>6. at'[t] \in {"init", "loop"}
  BY <1>1 DEF Begin, Goto, IInv, Frames
<1>7. /\ m \in Seq(Seq(Item)) /\ m # <<>> /\ \A i \in DOMAIN m : Parseable(m[i])
      /\ Restores(FlattenSeq(m))
  BY MessageAssumption
<1>8. Reading(m, 1, ArgsOf(Head(m)), <<>>, Head(m))
  BY <1>7, ReadFirst
<1>9. Todo(m, Head(m)) = FlattenSeq(m) /\ FlattenSeq(m) \in Seq(Item)
  BY <1>7, ReadFirst
<1>10. Owes(want'[t], <<>>, Todo(m, Head(m)), style')
  <2>1. Final(FlattenSeq(m), style) = Default
    BY <1>2, <1>7 DEF Restores, Final
  <2>2. style \in Palette
    BY DEF Script
  <2> QED
    BY <1>2, <1>4, <1>9, <2>1, <2>2, OwesItems
<1>11. Progress(at'[t], strings'[t], s'[t], args'[t], pending'[t], want'[t], style')
  <2>1. at'[t] # "char"
    BY <1>6
  <2>2. Progress(at'[t], m, 1, ArgsOf(Head(m)), pending'[t], want'[t], style')
    BY <1>6, <1>8, <1>10, <2>1, ProgressReading
  <2> QED
    BY <1>4, <1>5, <2>2
<1>12. at'[t] # "unlock"
  BY <1>6
<1> QED
  BY <1>2, <1>5, <1>11, <1>12 DEF Mine

LEMMA ConsoleInitMine ==
    ASSUME IInv, Script, NEW t \in Locking, ConsoleInit(t)
    PROVE  Mine(t)' /\ UNCHANGED <<style, lock, s>>
<1>1. t \in Frame
  BY DEF Locking, Frame
<1>2. /\ at[t] = "init" /\ at'[t] = "loop"
      /\ UNCHANGED <<strings, args, s, pending, want, style, lock>>
  BY <1>1 DEF ConsoleInit, At, Goto, IInv, Frames, local
<1>3. Progress("init", strings[t], s[t], args[t], pending[t], want[t], style)
  BY <1>2 DEF Script, Mine, Within
<1>4. Progress("loop", strings[t], s[t], args[t], pending[t], want[t], style)
  BY <1>3, ProgressKept
<1> QED
  BY <1>2, <1>4 DEF Mine

LEMMA StyleMine ==
    ASSUME IInv, Script, NEW t \in Locking, Style(t)
    PROVE  Mine(t)' /\ style' \in Palette /\ lock' = lock /\ s' \in [Frame -> Nat]
<1>1. t \in Frame
  BY DEF Locking, Frame
<1>2. PICK tag : tag = ParseStyling(Text(t), s[t])
  OBVIOUS
<1>3. /\ at[t] = "loop" /\ at'[t] = "char" /\ IsTag(Text(t), s[t])
      /\ s' = [s EXCEPT ![t] = tag.next]
      /\ UNCHANGED <<strings, args, pending, want, lock>>
  BY <1>1, <1>2 DEF Style, At, Goto, IInv, Frames
<1>4. style' = CASE tag.kind = "reset" -> Default
                 [] tag.kind = "fg" -> [style EXCEPT !.fg = tag.colour]
                 [] OTHER -> [style EXCEPT !.bg = tag.colour]
  BY <1>2 DEF Style
<1>5. Progress("loop", strings[t], s[t], args[t], pending[t], want[t], style)
  BY <1>3 DEF Script, Mine, Within
<1>6. PICK pre, rest : /\ Reading(strings[t], s[t], args[t], pre, rest)
                       /\ Owes(want[t], <<>>, Todo(strings[t], rest), style)
  BY <1>5, ProgressReading
<1>7. IsTag(TextOf(Head(strings[t])), s[t]) /\ tag = ParseStyling(TextOf(Head(strings[t])), s[t])
  BY <1>2, <1>3 DEF Text
<1>8. /\ tag.next \in Nat /\ AtCharacter(Tail(rest)) /\ style' \in Palette
      /\ \E pre2 : Reading(strings[t], tag.next, args[t], pre2, Tail(rest))
      /\ Owes(want[t], <<>>, Todo(strings[t], Tail(rest)), style')
  BY <1>4, <1>6, <1>7, ReadTag
<1>9. s'[t] = tag.next /\ s' \in [Frame -> Nat]
  BY <1>1, <1>3, <1>8 DEF Script
<1>10. Progress("char", strings[t], tag.next, args[t], pending[t], want[t], style')
  BY <1>8, ProgressReading
<1> QED
  BY <1>3, <1>8, <1>9, <1>10 DEF Mine

LEMMA Char1Mine ==
    ASSUME IInv, Script, NEW t \in Locking, Char1(t)
    PROVE  Mine(t)' /\ UNCHANGED <<style, lock>> /\ s' \in [Frame -> Nat]
<1>1. t \in Frame
  BY DEF Locking, Frame
<1>2. UNCHANGED <<strings, want, lock, style>> /\ at[t] \in {"loop", "char"}
  BY DEF Char1, At
<1>3. at[t] = "loop" => ~IsTag(Text(t), s[t]) /\ Mem(Text(t), s[t]) # "NUL"
  BY DEF Char1, At
<1>4. Progress(at[t], strings[t], s[t], args[t], pending[t], want[t], style)
  BY <1>2 DEF Script, Mine, Within
<1>5. PICK pre, rest : /\ Reading(strings[t], s[t], args[t], pre, rest)
                       /\ Owes(want[t], <<>>, Todo(strings[t], rest), style)
                       /\ at[t] = "char" => AtCharacter(rest)
  BY <1>2, <1>4, ProgressReading
<1>6. AtCharacter(rest)
  <2>1. CASE at[t] = "char"
    BY <1>5, <2>1
  <2>2. CASE at[t] = "loop"
    BY <1>3, <1>5, <2>2, ReadNoTag DEF Text
  <2> QED
    BY <1>2, <2>1, <2>2
<1>7. CharacterAt(Text(t), s[t], args[t], pending'[t], s'[t], args'[t])
  BY <1>1 DEF Char1, CharacterAt, Script, IInv, Frames
<1>8. /\ s'[t] \in Nat /\ pending'[t] \in Seq(Alphabet)
      /\ \E pre2 : Reading(strings[t], s'[t], args'[t], pre2, Tail(rest))
      /\ Owes(want[t], pending'[t], Todo(strings[t], Tail(rest)), style)
  BY <1>5, <1>6, <1>7, ReadItem DEF Text
<1>9. s' \in [Frame -> Nat]
  <2>1. \E v : s' = [s EXCEPT ![t] = v]
    BY DEF Char1
  <2> QED
    BY <1>1, <1>8, <2>1 DEF Script
<1>10. at'[t] = IF pending'[t] = <<>> THEN "loop" ELSE "serial"
  BY <1>1 DEF Char1, Goto, IInv, Frames
<1>11. Progress(at'[t], strings[t], s'[t], args'[t], pending'[t], want[t], style)
  <2>1. CASE pending'[t] = <<>>
    BY <1>8, <1>10, <2>1, ProgressReading
  <2>2. CASE pending'[t] # <<>>
    <3>1. at'[t] = "serial" /\ Out("serial", pending'[t]) = pending'[t]
      BY <1>10, <2>2 DEF Out, Drawing
    <3>2. PICK pre2 : Reading(strings[t], s'[t], args'[t], pre2, Tail(rest))
      BY <1>8
    <3>3. ProgressAt("serial", strings[t], s'[t], args'[t], pending'[t], want[t], style, pre2,
                     Tail(rest))
      BY <1>8, <2>2, <3>1, <3>2 DEF ProgressAt
    <3> QED
      BY <3>1, <3>3 DEF Progress
  <2> QED
    BY <2>1, <2>2
<1> QED
  BY <1>2, <1>9, <1>10, <1>11 DEF Mine

LEMMA EndStringMine ==
    ASSUME IInv, Script, NEW t \in Locking, EndString(t)
    PROVE  Mine(t)' /\ UNCHANGED <<style, lock>> /\ s' \in [Frame -> Nat]
<1>1. t \in Frame
  BY DEF Locking, Frame
<1>2. /\ at[t] = "loop" /\ Mem(Text(t), s[t]) = "NUL" /\ s'[t] = 1 /\ s' \in [Frame -> Nat]
      /\ UNCHANGED <<pending, want, style, lock>>
  BY <1>1 DEF EndString, At, Script
<1>3. PICK q, pre, rest : /\ q = strings[t] /\ Reading(q, s[t], args[t], pre, rest)
                          /\ Owes(want[t], <<>>, Todo(q, rest), style)
  <2>1. Progress("loop", strings[t], s[t], args[t], pending[t], want[t], style)
    BY <1>2 DEF Script, Mine, Within
  <2> QED
    BY <2>1, ProgressReading
<1>4. /\ strings'[t] = Tail(q) /\ args'[t] = (IF Len(q) > 1 THEN ArgsOf(q[2]) ELSE <<>>)
      /\ at'[t] = (IF Len(q) > 1 THEN "loop" ELSE "unlock")
  BY <1>1, <1>3 DEF EndString, Goto, Script, IInv, Frames
<1>5. rest = <<>>
  <2>1. Mem(TextOf(Head(q)), s[t]) = "NUL" /\ Points(TextOf(Head(q)), s[t], pre, rest)
        /\ Parseable(rest)
    BY <1>2, <1>3 DEF Text, Reading
  <2> QED
    BY <2>1, AtItem
<1>6. CASE Len(q) > 1
  <2>1. /\ Reading(Tail(q), 1, ArgsOf(q[2]), <<>>, Head(Tail(q)))
        /\ Owes(want[t], <<>>, Todo(Tail(q), Head(Tail(q))), style)
    BY <1>3, <1>5, <1>6, ReadEnd
  <2>2. Progress("loop", Tail(q), 1, ArgsOf(q[2]), pending[t], want[t], style)
    BY <2>1, ProgressReading
  <2> QED
    BY <1>2, <1>4, <1>6, <2>2 DEF Mine
<1>7. CASE ~(Len(q) > 1)
  <2>1. want[t] = <<>> /\ style = Default
    BY <1>3, <1>5, <1>7, ReadEnd
  <2> QED
    BY <1>2, <1>4, <1>7, <2>1 DEF Mine, Within, Drawing, Moving
<1> QED
  BY <1>2, <1>6, <1>7

LEMMA UnlockMine ==
    ASSUME IInv, Script, NEW t \in Locking, Unlock(t)
    PROVE  Mine(t)' /\ UNCHANGED <<style, s>> /\ style = Default /\ lock' = FALSE
<1>1. t \in Frame
  BY DEF Locking, Frame
<1>2. /\ at[t] = "unlock" /\ at'[t] = "idle" /\ lock' = FALSE /\ UNCHANGED <<style, s>>
  BY <1>1 DEF Unlock, At, Goto, IInv, Frames, local
<1>3. style = Default
  BY <1>2 DEF Script, Mine
<1>4. Mine(t)'
  BY <1>2 DEF Mine, Within, Drawing, Moving
<1> QED
  BY <1>2, <1>3, <1>4

LEMMA PrintStringScript ==
    ASSUME IInv, Script, NEW t \in Locking, PrintString(t)
    PROVE  Script'
<1>1. t \in Frame /\ Locking \subseteq Frame
  BY DEF Locking, Frame
<1>2. /\ Mine(t)' /\ style' \in Palette /\ s' \in [Frame -> Nat]
      /\ lock' \in BOOLEAN /\ (~lock' => style' = Default)
  <2>1. at[t] # "idle" => lock
    BY DEF IInv, Frames
  <2>2. style \in Palette /\ s \in [Frame -> Nat] /\ lock \in BOOLEAN /\ (~lock => style = Default)
    BY DEF Script, StyleRestored
  <2>3. CASE Begin(t)
    <3>1. lock' = TRUE
      BY <2>3 DEF Begin
    <3> QED
      BY <2>2, <2>3, <3>1, BeginMine
  <2>4. CASE ConsoleInit(t)
    BY <2>2, <2>4, ConsoleInitMine
  <2>5. CASE Style(t)
    <3>1. lock
      BY <2>1, <2>5 DEF Style, At
    <3> QED
      BY <2>2, <2>5, <3>1, StyleMine
  <2>6. CASE Char1(t)
    BY <2>2, <2>6, Char1Mine
  <2>7. CASE EndString(t)
    BY <2>2, <2>7, EndStringMine
  <2>8. CASE Unlock(t)
    BY <2>2, <2>8, UnlockMine
  <2> QED
    BY <2>3, <2>4, <2>5, <2>6, <2>7, <2>8 DEF PrintString
<1>3. \A u \in Locking : Mine(u)'
  <2>1. ASSUME NEW u \in Locking, u # t PROVE Mine(u)'
    <3>1. at'[u] = "idle"
      BY <2>1, OthersIdle
    <3> QED
      BY <3>1 DEF Mine, Within, Drawing, Moving
  <2> QED
    BY <1>2, <2>1
<1>4. /\ strings' = [u \in Frame |-> strings'[u]] /\ args' = [u \in Frame |-> args'[u]]
      /\ want' = [u \in Frame |-> want'[u]]
  <2>1. \/ strings' = strings
        \/ \E v : strings' = [strings EXCEPT ![t] = v]
    BY DEF PrintString, Begin, ConsoleInit, Style, Char1, EndString, Unlock, local
  <2>2. \/ args' = args
        \/ \E v : args' = [args EXCEPT ![t] = v]
    BY DEF PrintString, Begin, ConsoleInit, Style, Char1, EndString, Unlock, local
  <2>3. \/ want' = want
        \/ \E v : want' = [want EXCEPT ![t] = v]
    BY DEF PrintString, Begin, ConsoleInit, Style, Char1, EndString, Unlock, local
  <2> QED
    BY <2>1, <2>2, <2>3 DEF Script
<1>5. ready' \in BOOLEAN /\ messages' \in 0..MaxMessages /\ echoes' \in 0..MaxEchoes
  <2>1. echoes' = echoes /\ (ready' = ready \/ ready' = TRUE)
    BY DEF PrintString, Begin, ConsoleInit, Style, Char1, EndString, Unlock, counts
  <2>2. messages' = messages \/ (messages < MaxMessages /\ messages' = messages + 1)
    BY DEF PrintString, Begin, ConsoleInit, Style, Char1, EndString, Unlock, counts
  <2> QED
    <3>1. /\ messages \in 0..MaxMessages /\ MaxMessages \in Nat /\ ready \in BOOLEAN
          /\ echoes \in 0..MaxEchoes
      BY BoundAssumption DEF Script
    <3>2. messages' \in 0..MaxMessages
      BY <2>2, <3>1
    <3> QED
      BY <2>1, <3>1, <3>2
<1> QED
  BY <1>2, <1>3, <1>4, <1>5 DEF Script, StyleRestored

-----------------------------------------------------------------------------
(* PrintChar, in the holder's frame or in the interrupt's.                 *)

Shows(t) == want' = [want EXCEPT ![t] = IF @ = <<>> THEN @ ELSE Tail(@)]

LEMMA PrintCharKeeps ==
    ASSUME NEW t \in Frame, PrintChar(t)
    PROVE  /\ UNCHANGED <<strings, args, s, style, lock, ready, messages, echoes>>
           /\ \/ /\ \/ MoveOf(t, {"serial"}, {"out"}) \/ MoveOf(t, {"out"}, {"draw"})
                    \/ MoveOf(t, {"load"}, {"store"}) \/ MoveOf(t, {"store"}, {"check"})
                 /\ UNCHANGED <<pending, want>>
              \/ MoveOf(t, {"draw"}, {"load"}) /\ pending' = pending /\ Shows(t)
              \/ at[t] = "draw" /\ Returns(t) /\ Shows(t)
              \/ at[t] = "check" /\ Returns(t) /\ want' = want
<1>1. CASE SerialWait(t)
  BY <1>1 DEF SerialWait, At, Goto, MoveOf, counts, local
<1>2. CASE SerialOut(t)
  BY <1>2 DEF SerialOut, At, Goto, MoveOf, counts, local
<1>3. CASE Newline(t)
  BY <1>3 DEF Newline, At, Goto, Return, Returns, counts, Shows
<1>4. CASE Draw(t)
  BY <1>4 DEF Draw, At, Goto, MoveOf, counts, local, Shows
<1>5. CASE Load(t)
  BY <1>5 DEF Load, At, Goto, MoveOf, counts, local
<1>6. CASE Store(t)
  BY <1>6 DEF Store, At, Goto, MoveOf, counts, local
<1>7. CASE Check(t)
  BY <1>7 DEF Check, At, Goto, Return, Returns, counts
<1> QED
  BY <1>1, <1>2, <1>3, <1>4, <1>5, <1>6, <1>7 DEF PrintChar

LEMMA PrintCharMine ==
    ASSUME IInv, Script, NEW t \in Locking, PrintChar(t)
    PROVE  Mine(t)'
<1>1. t \in Frame /\ at \in [Frame -> Label]
  BY DEF Locking, Frame, IInv, Frames
<1>2. /\ pending = [u \in Frame |-> pending[u]] /\ want = [u \in Frame |-> want[u]]
      /\ UNCHANGED <<strings, args, s, style>>
  BY <1>1, PrintCharKeeps DEF Script, IInv, Frames
<1>3. at[t] \in Within => Progress(at[t], strings[t], s[t], args[t], pending[t], want[t], style)
  BY DEF Script, Mine
<1>4. Drawing \cup Moving \subseteq Within /\ "loop" \in Within
      /\ "unlock" \notin Drawing \cup Moving
  BY DEF Within, Drawing, Moving
<1>5. CASE /\ \/ MoveOf(t, {"serial"}, {"out"}) \/ MoveOf(t, {"out"}, {"draw"})
              \/ MoveOf(t, {"load"}, {"store"}) \/ MoveOf(t, {"store"}, {"check"})
           /\ UNCHANGED <<pending, want>>
  <2>1. \/ at[t] \in Drawing /\ at'[t] \in Drawing
        \/ at[t] \in Moving /\ at'[t] \in Moving
    BY <1>1, <1>5 DEF MoveOf, Drawing, Moving
  <2>2. Progress(at'[t], strings[t], s[t], args[t], pending[t], want[t], style)
    BY <1>3, <1>4, <2>1, ProgressKept
  <2>3. at'[t] # "unlock"
    BY <1>4, <2>1
  <2> QED
    BY <1>2, <1>5, <2>2, <2>3 DEF Mine
<1>6. CASE at[t] = "draw" /\ Shows(t)
  <2>1. Progress("draw", strings[t], s[t], args[t], pending[t], want[t], style)
    BY <1>3, <1>6 DEF Within, Drawing
  <2>2. want[t] # <<>>
        /\ Progress("load", strings[t], s[t], args[t], pending[t], Tail(want[t]), style)
    BY <2>1, ProgressDrawn
  <2>3. want'[t] = Tail(want[t])
    BY <1>1, <1>2, <1>6, <2>2 DEF Shows
  <2>4. CASE MoveOf(t, {"draw"}, {"load"}) /\ pending' = pending
    <3>1. at'[t] = "load"
      BY <1>1, <2>4 DEF MoveOf
    <3> QED
      BY <1>2, <2>2, <2>3, <2>4, <3>1 DEF Mine
  <2>5. CASE Returns(t)
    <3>1. /\ at'[t] = (IF Len(pending[t]) > 1 THEN "serial" ELSE "loop")
          /\ pending'[t] = Tail(pending[t])
      BY <1>1, <1>2, <2>5 DEF Returns
    <3>2. Progress(at'[t], strings[t], s[t], args[t], Tail(pending[t]), Tail(want[t]), style)
      BY <2>2, <3>1, ProgressReturned DEF Moving
    <3>3. at'[t] # "unlock"
      BY <3>1
    <3> QED
      BY <1>2, <2>3, <3>1, <3>2, <3>3 DEF Mine
  <2> QED
    BY <1>6, <2>4, <2>5, <1>1, PrintCharKeeps DEF MoveOf
<1>7. CASE at[t] = "check" /\ Returns(t) /\ want' = want
  <2>1. Progress("check", strings[t], s[t], args[t], pending[t], want[t], style)
    BY <1>3, <1>7 DEF Within, Moving
  <2>2. /\ at'[t] = (IF Len(pending[t]) > 1 THEN "serial" ELSE "loop")
        /\ pending'[t] = Tail(pending[t])
    BY <1>1, <1>2, <1>7 DEF Returns
  <2>3. Progress(at'[t], strings[t], s[t], args[t], Tail(pending[t]), want[t], style)
    BY <2>1, <2>2, ProgressReturned DEF Moving
  <2>4. at'[t] # "unlock"
    BY <2>2
  <2> QED
    BY <1>2, <1>7, <2>2, <2>3, <2>4 DEF Mine
<1> QED
  BY <1>1, <1>5, <1>6, <1>7, PrintCharKeeps DEF MoveOf

LEMMA PrintCharScript ==
    ASSUME IInv, Script, NEW t \in Frame, PrintChar(t)
    PROVE  Script'
<1>1. Locking \subseteq Frame /\ (t \in Locking \/ t = "irq") /\ "irq" \notin Locking
  BY DEF Locking, Frame
<1>2. UNCHANGED <<strings, args, s, style, lock, ready, messages, echoes>>
  BY PrintCharKeeps
<1>3. /\ \A u \in Frame : u # t => at'[u] = at[u] /\ pending'[u] = pending[u] /\ want'[u] = want[u]
      /\ want' = [u \in Frame |-> want'[u]]
  <2>1. \E l : at' = [at EXCEPT ![t] = l]
    BY PrintCharKeeps DEF MoveOf, Returns
  <2>2. pending' = pending \/ pending' = [pending EXCEPT ![t] = Tail(@)]
    BY PrintCharKeeps DEF Returns
  <2>3. want' = want \/ Shows(t)
    BY PrintCharKeeps
  <2>4. \A u \in Frame : u # t => at'[u] = at[u]
    BY <2>1 DEF IInv, Frames
  <2>5. \A u \in Frame : u # t => pending'[u] = pending[u]
    BY <2>2 DEF IInv, Frames
  <2>6. /\ \A u \in Frame : u # t => want'[u] = want[u]
        /\ want' = [u \in Frame |-> want'[u]]
    BY <2>3 DEF Shows, Script
  <2> QED
    BY <2>4, <2>5, <2>6
<1>4. \A u \in Locking : Mine(u)'
  <2>1. ASSUME NEW u \in Locking, u # t PROVE Mine(u)'
    <3>1. Mine(u)
      BY DEF Script
    <3>2. at'[u] = at[u] /\ pending'[u] = pending[u] /\ want'[u] = want[u]
      BY <1>1, <1>3, <2>1
    <3> QED
      BY <1>2, <3>1, <3>2 DEF Mine
  <2> QED
    BY <2>1, PrintCharMine
<1> QED
  BY <1>2, <1>3, <1>4 DEF Script, StyleRestored

LEMMA ScriptInvariance == Spec => []Script
<1>1. IInv /\ Script /\ Echo => Script'
  <2> SUFFICES ASSUME IInv, Script, Echo PROVE Script'
    OBVIOUS
  <2>1. Locking \subseteq Frame /\ "irq" \notin Locking
    BY DEF Locking, Frame
  <2>2. /\ UNCHANGED <<lock, ready, strings, args, s, style, messages, want>>
        /\ echoes < MaxEchoes /\ echoes' = echoes + 1
        /\ pending' = [pending EXCEPT !["irq"] = <<"k">>] /\ at' = [at EXCEPT !["irq"] = "serial"]
    BY DEF Echo, Goto
  <2>3. \A u \in Frame : u # "irq" => at'[u] = at[u] /\ pending'[u] = pending[u]
    BY <2>2 DEF IInv, Frames
  <2>4. \A u \in Locking : Mine(u)'
    <3>1. ASSUME NEW u \in Locking PROVE Mine(u)'
      <4>1. Mine(u)
        BY DEF Script
      <4>2. at'[u] = at[u] /\ pending'[u] = pending[u]
        BY <2>1, <2>3
      <4> QED
        BY <2>2, <4>1, <4>2 DEF Mine
    <3> QED
      BY <3>1
  <2>5. echoes' \in 0..MaxEchoes
    BY <2>2, BoundAssumption DEF Script
  <2> QED
    BY <2>2, <2>4, <2>5 DEF Script, StyleRestored
<1>2. Script /\ (Transmit \/ UNCHANGED vars) => Script'
  <2> SUFFICES ASSUME Script, Transmit \/ UNCHANGED vars PROVE Script'
    OBVIOUS
  <2>1. UNCHANGED <<at, lock, ready, strings, args, s, pending, style, messages, echoes, want>>
    BY DEF Transmit, vars, local, counts
  <2> QED
    BY <2>1 DEF Script, Mine, StyleRestored
<1>3. IInv /\ Script /\ [Next]_vars => Script'
  BY <1>1, <1>2, PrintStringScript, PrintCharScript DEF Next
<1> QED
  BY Invariance, InitScript, <1>3, PTL DEF Spec

-----------------------------------------------------------------------------
\* Every message begins and ends in the default colours, so whatever the echo
\* draws between messages is drawn in them (console.cpp:173-175, 216-232).
THEOREM StyleRestoredHolds == Spec => []StyleRestored
<1>1. Script => StyleRestored
  BY DEF Script
<1> QED
  BY ScriptInvariance, <1>1, PTL

\* The parser does not run past the terminator of any string whose tags are
\* each followed by a character (console.cpp:152-206, 311-349).
THEOREM InsideStringHolds == Spec => []InsideString
<1>1. Script => InsideString
  <2> SUFFICES ASSUME Script, NEW t \in Locking, at[t] \in {"loop", "char"}
               PROVE  s[t] <= Len(Text(t)) + 1
    BY DEF InsideString
  <2>1. Progress(at[t], strings[t], s[t], args[t], pending[t], want[t], style)
    BY DEF Script, Mine, Within
  <2>2. PICK text, pre, rest : text = Text(t) /\ Points(text, s[t], pre, rest)
    BY <2>1 DEF Progress, ProgressAt, Reading, Text
  <2>3. /\ pre \in Seq(Alphabet) /\ text = Cat(pre, TextOf(rest)) /\ s[t] = Len(pre) + 1
        /\ TextOf(rest) \in Seq(Alphabet)
    BY <2>2, TextType DEF Points
  <2>4. Len(text) = Len(pre) + Len(TextOf(rest)) /\ Len(pre) \in Nat /\ Len(TextOf(rest)) \in Nat
    BY <2>3, CatFacts, LenProperties
  <2> QED
    BY <2>2, <2>3, <2>4
<1> QED
  BY ScriptInvariance, <1>1, PTL

\* Whatever is echoed or printed meanwhile, a message shows the characters it
\* means in the colours it means, and no other (console.cpp:142-349).
THEOREM ShowsMeaningHolds == Spec => []ShowsMeaning
<1>1. Script => ShowsMeaning
  <2> SUFFICES ASSUME Script, NEW t \in Locking
               PROVE  /\ at[t] = "draw" =>
                           /\ want[t] # <<>>
                           /\ Head(want[t]) = [c |-> Head(pending[t]), fg |-> style.fg, bg |-> style.bg]
                      /\ at[t] = "unlock" => want[t] = <<>>
    BY DEF ShowsMeaning
  <2>1. Mine(t)
    BY DEF Script
  <2>2. ASSUME at[t] = "draw"
        PROVE  /\ want[t] # <<>>
               /\ Head(want[t]) = [c |-> Head(pending[t]), fg |-> style.fg, bg |-> style.bg]
    <3>1. Progress("draw", strings[t], s[t], args[t], pending[t], want[t], style)
      BY <2>1, <2>2 DEF Mine, Within, Drawing
    <3> QED
      BY <3>1, ProgressDrawn
  <2> QED
    BY <2>1, <2>2 DEF Mine
<1> QED
  BY ScriptInvariance, <1>1, PTL

\* The labels, the pointer, the cursor and the counts stay what they are meant
\* to be; a tag's number never leaves the palette (console.cpp:212).
THEOREM TypeCorrect == Spec => []TypeOK
<1>1. IInv /\ Script => TypeOK
  BY DEF IInv, Frames, Cursor, Losses, Script, TypeOK, Label, Palette
<1> QED
  BY Invariance, ScriptInvariance, <1>1, PTL
=============================================================================

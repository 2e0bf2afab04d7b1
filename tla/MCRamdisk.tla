----------------------------- MODULE MCRamdisk -----------------------------
EXTENDS Ramdisk

Name == <<"r", "d">>
File(str, addr, sz) == [string |-> str, address |-> addr, size |-> sz]

\* The ramdisk first, or after an invalid entry, a module with no name, and
\* others whose names extend or begin its name; two of them; a size that is no
\* whole number of sectors, or less than one; none called so; and none at all.
MCModules ==
    {<<File(Name, 1, 4)>>,
     <<Null, File(Null, 5, 2), File(<<"r", "d", "x">>, 5, 2), File(<<"r">>, 0, 1),
       File(Name, 2, 5)>>,
     <<File(<<>>, 0, 1), File(Name, 1, 3), File(Name, 4, 4)>>,
     <<File(Name, 3, 1)>>,
     <<File(<<"x">>, 1, 4)>>,
     <<>>}

\* What the unassigned pointer leads to: bytes in the memory, across its end,
\* behind it, and a null address.
MCStrays ==
    {[address |-> 3, size |-> 2], [address |-> 7, size |-> 1],
     [address |-> 9, size |-> 0], [address |-> 0, size |-> 4]}
MCImages == {[a \in Address |-> a % 2], [a \in Address |-> IF a = 4 THEN 1 ELSE 0]}
=============================================================================

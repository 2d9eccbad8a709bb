--------------------------- MODULE MCInterfacesFile ---------------------------
(* Files for the runs of InterfacesFile. *)
EXTENDS InterfacesFile

Blank == Plain("blank", "")
Option == Plain("option", "")
Auto(n) == Plain("auto", n)
Iface(n) == Plain("iface", n)
Pair(tag, port) == <<RuleLine("up", tag, port), RuleLine("down", tag, port)>>

\* Rules of a tag that no call names, and of one that calls name, also two of it.
Foreign == Pair(3, 3)
Own == Pair(1, 1)
Twins == Own \o Pair(1, 2)

File(ls, unended) == [lines |-> ls, open |-> unended]

\* A stanza of vmbr1 and what follows it: nothing, a blank line, an iface line, an
\* auto line with its iface line (tests/unit/test_routing.py:534), one named alike.
Opening == {<<>>, <<Auto("vmbr0"), Iface("vmbr0"), Option, Blank, Auto("vmbr1")>>}
Body == {<<>>, <<Option>>, Foreign, Foreign \o Twins \o <<Option>>}
Ending == {<<>>, <<Blank>>, <<Blank, Auto("vmbr10"), Iface("vmbr10"), Option>>,
           <<Iface("vmbr0"), Option>>, <<Auto("vmbr0"), Iface("vmbr0"), Option>>,
           <<Iface("vmbr10"), Option, Blank, Blank>>}
Found == {o \o <<Iface("vmbr1")>> \o b \o e : o \in Opening, b \in Body, e \in Ending}

\* A stanza of vmbr10 before it.
Preceded == {<<Iface("vmbr10")>> \o b \o <<Blank, Auto("vmbr1"), Iface("vmbr1"), Option>> :
               b \in {<<>>, Foreign, Own}}

\* No such stanza (tests/unit/test_routing.py:512): rules are appended.
Missing == {o \o b : o \in {<<>>, <<Iface("vmbr0"), Option, Blank>>, Foreign},
                     b \in {<<>>, Own}}

\* A file may end without a newline, unless its end is where rules are inserted.
MCFiles ==
    {File(ls, FALSE) : ls \in Found \cup Preceded \cup Missing}
    \cup {File(ls, TRUE) : ls \in {l \in Found \cup Preceded : InsertPoint(l) < Len(l)}}

ASSUME FilesAssumption == EveryFileWellFormed
=============================================================================

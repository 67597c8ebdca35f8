----------------------------- MODULE MCFdtEdit -----------------------------
(***************************************************************************)
(* FdtEdit for TLC.  The boot loader's blob has a root with linux,phandle  *)
(* and a node "aliases" whose property is the path of the node itself; it  *)
(* is given as version 17 in order and as version 16 with the strings      *)
(* first and the reserve map last.                                         *)
(***************************************************************************)
EXTENDS FdtEdit

A == <<97>>
MCNodeNames == {A, <<97, AT>>}
MCPropNames == {PHANDLE, COMPATIBLE}
MCValues == {<<97, NUL>>, A}                         \* "a", and without its NUL
MCReservations == {<<5, 1>>}

GivenStrings == Terminated(LINUX_PHANDLE)
GivenStruct ==
    Word(BEGIN_NODE) \o Padded(<< >>) \o PropHeader(0, 2) \o <<0, 1>>
      \o Word(BEGIN_NODE) \o Padded(ALIASES)
         \o PropHeader(1, 3) \o Padded(<<SLASH>> \o ALIASES) \o Word(END_NODE)
    \o Word(END_NODE) \o Word(END)
GivenRsv == <<5, 1, 0, 0>>

GivenBlob(version, bytes, r, st, str) ==
    Put([Raw EXCEPT !.magic = "FDT", !.version = version,
             !.totalsize = HEADERSIZE + Len(bytes), !.off_mem_rsvmap = HEADERSIZE + r,
             !.off_dt_struct = HEADERSIZE + st, !.off_dt_strings = HEADERSIZE + str,
             !.size_dt_strings = Len(GivenStrings),
             !.size_dt_struct = IF version >= 17 THEN Len(GivenStruct) ELSE 0],
        HEADERSIZE, bytes)

MCGiven ==
    LET r == Len(GivenRsv)
        str == Len(GivenStrings) + 1
    IN  {GivenBlob(17, GivenRsv \o GivenStruct \o GivenStrings, 0, r, r + Len(GivenStruct)),
         GivenBlob(16, GivenStrings \o <<0>> \o GivenStruct \o GivenRsv,
                   str + Len(GivenStruct), str, 0)}
=============================================================================

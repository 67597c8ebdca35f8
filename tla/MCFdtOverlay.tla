---------------------------- MODULE MCFdtOverlay ---------------------------
(***************************************************************************)
(* FdtOverlay for TLC.  A base has a node a with a phandle and a label, or *)
(* no labels, or a phandle with little room above it, and more or less     *)
(* room for insertions.  An overlay has one fragment, which adds a         *)
(* reference r and a node a with a phandle below its target, or two; its   *)
(* target is named in each of the ways there are, and its fixups may be    *)
(* malformed.                                                              *)
(***************************************************************************)
EXTENDS FdtOverlay

A == <<97>>
R == <<114>>
L == <<108>>
FRAGMENT == <<103>>
PropNames == <<LINUX_PHANDLE, TARGET, TARGET_PATH, R, L>>
Strings == FlattenSeq([i \in DOMAIN PropNames |-> Terminated(PropNames[i])])
NameOff(name) ==
    CHOOSE o \in 0..(Len(Strings) - 1) :
        SubSeq(Strings, o + 1, o + 1 + Len(name)) = Terminated(name)

Prop(name, val) ==
    PropHeader(NameOff(name), Len(val)) \o val \o Zeros(FDT_TAGALIGN(Len(val)) - Len(val))
Node(name, body) == Word(BEGIN_NODE) \o Padded(name) \o body \o Word(END_NODE)

Blob(root, room) ==
    LET struct == Node(<< >>, root) \o Word(END)
        bytes == Zeros(RESERVESIZE) \o struct \o Strings
        size == HEADERSIZE + Len(bytes) + room
    IN  Put([magic |-> "FDT", version |-> 17, last_comp_version |-> 16, totalsize |-> size,
             off_mem_rsvmap |-> HEADERSIZE, off_dt_struct |-> HEADERSIZE + RESERVESIZE,
             off_dt_strings |-> HEADERSIZE + RESERVESIZE + Len(struct),
             size_dt_strings |-> Len(Strings), size_dt_struct |-> Len(struct),
             mem |-> [x \in 0..(size - 1) |-> 0]], HEADERSIZE, bytes)

PATH == <<SLASH>> \o A
Base(phandle, symbols, room) ==
    Blob(Node(A, Prop(PHANDLE, Word(phandle))) \o symbols, room)
Label == Node(SYMBOLS, Prop(L, Terminated(PATH)))

MCBases == {Base(1, Label, 100), Base(1, << >>, 100), Base(1, Label, 20),
            Base(WORDMOD - 3, Label, 100)}

(* "/g:t:0", "/g/o:r:1"                                                    *)
TargetFixup == <<SLASH, 103, COLON, 116, COLON, 48>>
RefFixup(digit) == <<SLASH, 103, SLASH, 111, COLON, 114, COLON, digit>>

Fragment(target, ref) ==
    Node(FRAGMENT, target \o Node(OVERLAY, Prop(R, ref) \o Node(A, Prop(LINUX_PHANDLE, Word(1)))))
ByPhandle == Prop(TARGET, Word(1))
Unresolved == Prop(TARGET, Word(WORDMOD - 1))
ByPath(path) == Prop(TARGET_PATH, Terminated(path))

Local(at) == Node(LOCAL_FIXUPS, Node(FRAGMENT, Node(OVERLAY, Prop(R, Word(at)))))
Fixups(str) == Node(FIXUPS, Prop(L, str))

MCGood ==
    {Blob(Fragment(ByPath(<<SLASH>>), Word(0) \o Word(1)) \o Local(2), 0),
     Blob(Fragment(ByPath(PATH), Word(1)) \o Local(0), 0),
     Blob(Fragment(ByPath(PATH), Word(7)), 0),
     Blob(Node(FRAGMENT, ByPath(PATH) \o Node(OVERLAY, Prop(R, Word(3)) \o Prop(PHANDLE, Word(3))))
            \o Local(0), 0)}
MCOverlays == MCGood \union
    {Blob(Fragment(ByPhandle, Word(7)), 0),
     Blob(Fragment(Unresolved, <<0>> \o Word(0))
            \o Fixups(Terminated(TargetFixup) \o Terminated(RefFixup(49))), 0),
     Blob(Fragment(Unresolved, Word(0)) \o Fixups(Terminated(TargetFixup)), 0),
     Blob(Fragment(Unresolved, Word(0)), 0),
     Blob(Fragment(<< >>, Word(0)), 0),
     Blob(Fragment(ByPath(<<SLASH>>), Word(1)) \o Local(1), 0),
     Blob(Fragment(ByPath(<<SLASH>>), Word(1)) \o Fixups(RefFixup(48)), 0),
     Blob(Fragment(ByPath(<<SLASH>>), Word(1)) \o Fixups(Terminated(RefFixup(COLON))), 0),
     Blob(Fragment(ByPath(<<SLASH>>), Word(1)) \o Fixups(Terminated(RefFixup(49))), 0),
     Blob(Node(FRAGMENT, ByPath(PATH) \o Node(OVERLAY, Prop(PHANDLE, <<1>>))), 0),
     Blob(Fragment(ByPath(PATH), Word(1))
          \o Node(A, ByPath(PATH \o PATH) \o Node(OVERLAY, Prop(R, Word(5)))), 0),
     Blob(Fragment(ByPath(PATH), Word(1))
          \o Node(A, ByPath(PATH \o PATH \o PATH) \o Node(OVERLAY, Prop(R, Word(5)))), 0)}
============================================================================

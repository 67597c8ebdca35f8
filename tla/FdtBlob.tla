------------------------------ MODULE FdtBlob ------------------------------
(***************************************************************************)
(* Flattened device trees and their readers: lib/libfdt/fdt.c and          *)
(* fdt_ro.c.                                                               *)
(*                                                                         *)
(* A blob is a record: the fields of struct fdt_header, and mem, the bytes *)
(* of the buffer it is in.  Sizes are scaled down: a word (fdt32_t) has    *)
(* two bytes, the header two, a reserve map entry one for the address and  *)
(* one for the size.  Strings are sequences of characters without the NUL. *)
(* Functions return an offset or, negated, one of the error codes.         *)
(***************************************************************************)
EXTENDS Integers, Sequences, SequencesExt, FiniteSetsExt, FiniteSets

TAGSIZE == 2
HEADERSIZE == 2
RESERVESIZE == 2
PROPSIZE == 3 * TAGSIZE      \* sizeof(struct fdt_property)

BEGIN_NODE == 1
END_NODE == 2
PROP == 3
NOP == 4
END == 9

NOTFOUND == 1
EXISTS == 2
NOSPACE == 3
BADOFFSET == 4
BADPATH == 5
BADPHANDLE == 6
BADSTATE == 7
TRUNCATED == 8
BADMAGIC == 9
BADVERSION == 10
BADSTRUCTURE == 11
BADLAYOUT == 12
INTERNAL == 13
BADVALUE == 15
BADOVERLAY == 16
NOPHANDLES == 17

(* The characters the code knows, and the names it looks for, shortened.   *)
NUL == 0
SLASH == 47
COLON == 58
AT == 64
PHANDLE == <<112>>                  \* "phandle"
LINUX_PHANDLE == <<108, 112>>       \* "linux,phandle": it ends in "phandle"
COMPATIBLE == <<99>>                \* "compatible"
ALIASES == <<115>>                  \* "aliases"

FDT_ALIGN(x, a) == ((x + a - 1) \div a) * a
FDT_TAGALIGN(x) == FDT_ALIGN(x, TAGSIZE)

WORDMOD == 256 * 256
cpu_to_fdt32(w) == <<(w % WORDMOD) \div 256, w % 256>>
fdt32_to_cpu(f, a) == f.mem[a] * 256 + f.mem[a + 1]

Bytes(f, a, n) == [i \in 1..n |-> f.mem[a + i - 1]]

(* A value that is named: F(v)                                             *)
With(v, F(_)) == F(v)

(* The string at address a: what is before the next NUL.                   *)
StrLen(f, a) == CHOOSE n \in 0..(Cardinality(DOMAIN f.mem) - a - 1) :
                   /\ f.mem[a + n] = NUL
                   /\ \A i \in 0..(n - 1) : f.mem[a + i] # NUL
CStr(f, a) == Bytes(f, a, StrLen(f, a))
-----------------------------------------------------------------------------
fdt_check_header(f) ==
    CASE f.magic = "FDT" -> IF f.version < 16 \/ f.last_comp_version > 17
                            THEN -BADVERSION ELSE 0
      [] f.magic = "SW"  -> IF f.size_dt_struct = 0 THEN -BADSTATE ELSE 0
      [] OTHER           -> -BADMAGIC

(* fdt_offset_ptr is not NULL.                                             *)
fdt_offset_ptr(f, off, len) ==
    /\ off >= 0
    /\ f.off_dt_struct + off + len <= f.totalsize
    /\ f.version >= 17 => off + len <= f.size_dt_struct

(* The tag at an offset and the offset of the next one.  A name without a  *)
(* NUL inside the block is a bad structure, as is a value that leaves it.  *)
NoTag(e) == [tag |-> END, next |-> -e]

TagEnds(f, off, tag) ==
    CASE tag = BEGIN_NODE -> {i \in (off + 1)..(f.totalsize - f.off_dt_struct) :
            /\ f.mem[f.off_dt_struct + i - 1] = NUL
            /\ \A j \in off..(i - 2) : f.mem[f.off_dt_struct + j] # NUL}
      [] tag = PROP /\ fdt_offset_ptr(f, off, TAGSIZE) ->
            {off + 2 * TAGSIZE + fdt32_to_cpu(f, f.off_dt_struct + off)}
      [] tag \in {END_NODE, NOP, END} -> {off}
      [] OTHER -> {}

fdt_next_tag(f, start) ==
    IF ~fdt_offset_ptr(f, start, TAGSIZE) THEN NoTag(TRUNCATED)
    ELSE With(fdt32_to_cpu(f, f.off_dt_struct + start), LAMBDA tag :
         With({e \in TagEnds(f, start + TAGSIZE, tag) : fdt_offset_ptr(f, start, e - start)},
              LAMBDA ends : IF ends = {} THEN NoTag(BADSTRUCTURE)
                            ELSE [tag |-> tag, next |-> FDT_TAGALIGN(Max(ends))]))

CheckTag(f, off, tag) ==
    IF off < 0 \/ off % TAGSIZE # 0 THEN -BADOFFSET
    ELSE With(fdt_next_tag(f, off), LAMBDA t : IF t.tag = tag THEN t.next ELSE -BADOFFSET)

fdt_check_node_offset(f, off) == CheckTag(f, off, BEGIN_NODE)
fdt_check_prop_offset(f, off) == CheckTag(f, off, PROP)

(* fdt_next_node, from the tag at off on: the next node and its depth.     *)
(* NODEPTH is a NULL depth; otherwise the walk ends behind the END_NODE    *)
(* that takes the depth below 0.                                           *)
NODEPTH == -1000

RECURSIVE NextNodeFrom(_, _, _)
NextNodeFrom(f, off, depth) ==
    LET At(o, step) == [off |-> o, depth |-> IF depth = NODEPTH THEN depth ELSE depth + step]
    IN  With(fdt_next_tag(f, off), LAMBDA t :
        CASE t.tag = BEGIN_NODE -> At(off, 1)
          [] t.tag = END -> At(IF t.next >= 0 \/ (t.next = -TRUNCATED /\ depth = NODEPTH)
                               THEN -NOTFOUND ELSE t.next, 0)
          [] t.tag = END_NODE -> IF depth # NODEPTH /\ depth - 1 < 0 THEN At(t.next, -1)
                                 ELSE NextNodeFrom(f, t.next, At(off, -1).depth)
          [] OTHER -> NextNodeFrom(f, t.next, depth))

fdt_next_node(f, off, depth) ==
    With(IF off >= 0 THEN fdt_check_node_offset(f, off) ELSE 0, LAMBDA next :
         IF next < 0 THEN [off |-> next, depth |-> depth] ELSE NextNodeFrom(f, next, depth))

(* What a loop around fdt_next_node visits, from node off at the given     *)
(* depth on; the last element holds the error that ends it.                *)
RECURSIVE Visit(_, _, _)
Visit(f, off, depth) ==
    <<[off |-> off, depth |-> depth]>>
      \o IF off < 0 THEN << >>
         ELSE With(fdt_next_node(f, off, depth), LAMBDA n : Visit(f, n.off, n.depth))

(* Faulty: the search begins with the given node, not behind it.           *)
VisitWith(f, off) ==
    With(IF off < 0 THEN fdt_next_node(f, off, NODEPTH).off ELSE off, LAMBDA o :
         Visit(f, o, NODEPTH))
VisitAfter(f, off) ==
    With(fdt_next_node(f, off, NODEPTH), LAMBDA n : Visit(f, n.off, NODEPTH))

(* The first element that passes the test, else the last                   *)
FirstOf(seq, Test(_)) ==
    With(SelectInSeq(seq, Test), LAMBDA i : IF i = 0 THEN Last(seq) ELSE seq[i])

(* The first visited node that passes the test, else the error             *)
FirstOff(visit, Test(_)) == FirstOf(visit, LAMBDA v : v.off >= 0 /\ Test(v.off)).off

(* Where a walk over the nodes below a node, begun at depth 0, ends         *)
Leaves(v) == v.off < 0 \/ v.depth < 0

fdt_first_subnode(f, off) ==
    With(fdt_next_node(f, off, 0), LAMBDA n :
         IF n.off < 0 \/ n.depth # 1 THEN -NOTFOUND ELSE n.off)

fdt_next_subnode(f, off) ==
    With(FirstOf(Tail(Visit(f, off, 1)), LAMBDA w : w.off < 0 \/ w.depth <= 1), LAMBDA v :
         IF v.off < 0 \/ v.depth < 1 THEN -NOTFOUND ELSE v.off)

(* fdt_for_each_subnode                                                    *)
RECURSIVE SubnodesFrom(_, _)
SubnodesFrom(f, off) == IF off < 0 THEN << >>
                        ELSE <<off>> \o SubnodesFrom(f, fdt_next_subnode(f, off))
Subnodes(f, off) == SubnodesFrom(f, fdt_first_subnode(f, off))
-----------------------------------------------------------------------------
(* A node's name matches a name without unit address up to the '@'.        *)
fdt_nodename_eq(f, off, s) ==
    LET p == f.off_dt_struct + off + TAGSIZE
    IN  /\ fdt_offset_ptr(f, off + TAGSIZE, Len(s) + 1)
        /\ Bytes(f, p, Len(s)) = s
        /\ \/ f.mem[p + Len(s)] = NUL
           \/ ~Contains(s, AT) /\ f.mem[p + Len(s)] = AT

(* Offsets of strings are signed while a tree is written sequentially.     *)
Signed(w) == IF w >= WORDMOD \div 2 THEN w - WORDMOD ELSE w
fdt_string(f, stroffset) == CStr(f, f.off_dt_strings + Signed(stroffset))

fdt_subnode_offset(f, parent, name) ==
    IF fdt_check_header(f) # 0 THEN fdt_check_header(f)
    ELSE With(FirstOf(Visit(f, parent, 0), LAMBDA v :
                 Leaves(v) \/ (v.depth = 1 /\ fdt_nodename_eq(f, v.off, name))), LAMBDA v :
              IF v.depth < 0 THEN -NOTFOUND ELSE v.off)

(* The name of a node; << -error >> stands for NULL and its error.         *)
fdt_get_name(f, off) ==
    With(IF fdt_check_header(f) # 0 THEN fdt_check_header(f) ELSE fdt_check_node_offset(f, off),
         LAMBDA err : IF err < 0 THEN <<err>> ELSE CStr(f, f.off_dt_struct + off + TAGSIZE))
-----------------------------------------------------------------------------
(* Properties: the offset of the next one, NOPs skipped.                   *)
RECURSIVE fdt_nextprop(_, _)
fdt_nextprop(f, off) ==
    With(fdt_next_tag(f, off), LAMBDA t :
         CASE t.tag = END -> IF t.next >= 0 THEN -BADSTRUCTURE ELSE t.next
           [] t.tag = PROP -> off
           [] t.tag = NOP -> fdt_nextprop(f, t.next)
           [] OTHER -> -NOTFOUND)

PropAfter(f, off) == IF off < 0 THEN off ELSE fdt_nextprop(f, off)
fdt_first_property_offset(f, node) == PropAfter(f, fdt_check_node_offset(f, node))
fdt_next_property_offset(f, prop) == PropAfter(f, fdt_check_prop_offset(f, prop))

(* fdt_for_each_property_offset; the last element is the error that ends it *)
RECURSIVE PropsFrom(_, _)
PropsFrom(f, off) ==
    <<off>> \o IF off < 0 THEN << >> ELSE PropsFrom(f, fdt_next_property_offset(f, off))
Props(f, node) == PropsFrom(f, fdt_first_property_offset(f, node))

(* struct fdt_property at an offset: its length, name and where its value  *)
(* is.                                                                     *)
PropLen(f, prop) == fdt32_to_cpu(f, f.off_dt_struct + prop + TAGSIZE)
PropName(f, prop) == fdt_string(f, fdt32_to_cpu(f, f.off_dt_struct + prop + 2 * TAGSIZE))
PropData(f, prop) == f.off_dt_struct + prop + PROPSIZE

(* fdt_get_property_namelen: the offset of the property, or the error.     *)
fdt_get_property(f, node, name) ==
    FirstOf(Props(f, node), LAMBDA p : p >= 0 /\ PropName(f, p) = name)

(* fdt_getprop: where the value is and its length; a negative length is    *)
(* NULL and its error.                                                     *)
fdt_getprop(f, node, name) ==
    With(fdt_get_property(f, node, name), LAMBDA p :
         IF p < 0 THEN [len |-> p, at |-> 0]
         ELSE [len |-> PropLen(f, p), at |-> PropData(f, p)])

Value(f, val) == Bytes(f, val.at, val.len)

fdt_get_phandle(f, node) ==
    LET WordOr(v, else) == IF v.len = TAGSIZE THEN fdt32_to_cpu(f, v.at) ELSE else
    IN  WordOr(fdt_getprop(f, node, PHANDLE), WordOr(fdt_getprop(f, node, LINUX_PHANDLE), 0))

fdt_get_max_phandle(f) ==
    With(VisitAfter(f, -1), LAMBDA visit :
         IF Last(visit).off # -NOTFOUND THEN WORDMOD - 1
         ELSE Max({0} \union ({fdt_get_phandle(f, v.off) : v \in ToSet(Front(visit))}
                                \ {WORDMOD - 1})))

RECURSIVE NumRsvFrom(_, _)
NumRsvFrom(f, i) == IF f.mem[f.off_mem_rsvmap + i * RESERVESIZE + 1] = 0 THEN i
                    ELSE NumRsvFrom(f, i + 1)
fdt_num_mem_rsv(f) == NumRsvFrom(f, 0)
fdt_get_mem_rsv(f, n) == Bytes(f, f.off_mem_rsvmap + n * RESERVESIZE, RESERVESIZE)
-----------------------------------------------------------------------------
(* Paths: the names between slashes; a path that does not begin with one   *)
(* begins with an alias.                                                   *)
RECURSIVE Names(_)
Names(path) ==
    IF path = << >> THEN << >>
    ELSE LET i == SelectInSeq(path, LAMBDA c : c = SLASH)
             n == IF i = 0 THEN Len(path) ELSE i - 1
         IN  (IF n = 0 THEN << >> ELSE <<SubSeq(path, 1, n)>>)
               \o Names(SubSeq(path, n + 2, Len(path)))

Descend(f, off, names) ==
    FoldLeft(LAMBDA o, n : IF o < 0 THEN o ELSE fdt_subnode_offset(f, o, n), off, names)

fdt_get_alias(f, name) ==
    With(Descend(f, 0, <<ALIASES>>), LAMBDA aliases :
         IF aliases < 0 THEN [len |-> aliases, at |-> 0] ELSE fdt_getprop(f, aliases, name))

RECURSIVE fdt_path_offset(_, _)
fdt_path_offset(f, path) ==
    IF fdt_check_header(f) # 0 THEN fdt_check_header(f)
    ELSE IF path # << >> /\ path[1] = SLASH THEN Descend(f, 0, Names(path))
    ELSE With(SelectInSeq(Append(path, SLASH), LAMBDA c : c = SLASH), LAMBDA i :
         With(fdt_get_alias(f, SubSeq(path, 1, i - 1)), LAMBDA alias :
              IF alias.len < 0 THEN -BADPATH
              ELSE Descend(f, fdt_path_offset(f, CStr(f, alias.at)),
                           Names(SubSeq(path, i, Len(path))))))

(* The nodes fdt_get_path and fdt_supernode_atdepth_offset pass on their   *)
(* way from the root to a node, and the error when they pass it by.        *)
UpTo(f, node) ==
    LET visit == Visit(f, 0, 0)
    IN  SubSeq(visit, 1, SelectInSeq(visit, LAMBDA v : v.off < 0 \/ v.off >= node))

PassedBy(off) ==
    CASE off = -NOTFOUND \/ off >= 0 -> -BADOFFSET
      [] off = -BADOFFSET -> -BADSTRUCTURE
      [] OTHER -> off

(* Faulty: the slashes, the last of which makes room for the NUL, are not  *)
(* counted.                                                                *)
PathSizeWithoutSlashes(names) == FoldLeft(LAMBDA n, s : n + Len(s), 0, names)
PathSize(names) == FoldLeft(LAMBDA n, s : n + Len(s) + 1, 0, names)

(* fdt_get_path: the names in the buffer, each followed by a slash, are a  *)
(* stack.  A name that does not fit is left out, and with it what is       *)
(* below.  The result is an error or the names of the path.                *)
fdt_get_path(f, node, buflen) ==
    LET Push(names, depth, name) ==
            IF Len(names) >= depth /\ PathSize(names) + Len(name) + 1 <= buflen
            THEN Append(names, name) ELSE names
        Step(names, v) == Push(SubSeq(names, 1, Min({Len(names), v.depth})), v.depth,
                               fdt_get_name(f, v.off))
        Path(way, names) ==
            CASE Last(way).off # node -> [ret |-> PassedBy(Last(way).off), names |-> << >>]
              [] Len(names) < Last(way).depth + 1 -> [ret |-> -NOSPACE, names |-> << >>]
              [] OTHER -> [ret |-> 0, names |-> names]
    IN  CASE fdt_check_header(f) # 0 -> [ret |-> fdt_check_header(f), names |-> << >>]
          [] buflen < 2 -> [ret |-> -NOSPACE, names |-> << >>]
          [] OTHER -> With(UpTo(f, node), LAMBDA way : Path(way, FoldLeft(Step, << >>, way)))

(* The node above (or at) node at the given depth, and the depth of node   *)
fdt_supernode_atdepth(f, node, depth) ==
    LET Err(e) == [off |-> e, depth |-> 0]
        Pick(way) ==
            CASE Last(way).off # node -> Err(PassedBy(Last(way).off))
              [] depth > Last(way).depth -> [off |-> -NOTFOUND, depth |-> Last(way).depth]
              [] \A i \in DOMAIN way : way[i].depth # depth -> Err(-INTERNAL)
              [] OTHER -> [off |-> Max({v.off : v \in {w \in ToSet(way) : w.depth = depth}}),
                           depth |-> Last(way).depth]
    IN  CASE fdt_check_header(f) # 0 -> Err(fdt_check_header(f))
          [] depth < 0 -> Err(-NOTFOUND)
          [] OTHER -> Pick(UpTo(f, node))

fdt_node_depth(f, node) ==
    With(fdt_supernode_atdepth(f, node, 0), LAMBDA r :
         IF r.off < 0 THEN r.off ELSE IF r.off > 0 THEN -INTERNAL ELSE r.depth)

fdt_parent_offset(f, node) ==
    With(fdt_node_depth(f, node), LAMBDA depth :
         IF depth < 0 THEN depth ELSE fdt_supernode_atdepth(f, node, depth - 1).off)

fdt_node_offset_by_prop_value(f, start, name, val) ==
    IF fdt_check_header(f) # 0 THEN fdt_check_header(f)
    ELSE FirstOff(VisitAfter(f, start), LAMBDA o :
             With(fdt_getprop(f, o, name), LAMBDA v : v.len = Len(val) /\ Value(f, v) = val))

fdt_node_offset_by_phandle(f, phandle) ==
    IF phandle \in {0, WORDMOD - 1} THEN -BADPHANDLE
    ELSE IF fdt_check_header(f) # 0 THEN fdt_check_header(f)
    ELSE FirstOff(VisitAfter(f, -1), LAMBDA o : fdt_get_phandle(f, o) = phandle)
-----------------------------------------------------------------------------
(* Faulty: the NUL is not compared.                                        *)
StartsWith(f, at, str) == Bytes(f, at, Len(str)) = str
Holds(f, at, str) == Bytes(f, at, Len(str) + 1) = Append(str, NUL)

(* String lists.  fdt_stringlist_contains compares one byte more than the  *)
(* string has, wherever the list ends.                                     *)
RECURSIVE fdt_stringlist_contains(_, _, _, _)
fdt_stringlist_contains(f, at, len, str) ==
    IF len < Len(str) THEN FALSE
    ELSE IF Holds(f, at, str) THEN TRUE
    ELSE LET i == SelectInSeq(Bytes(f, at, len), LAMBDA c : c = NUL)
         IN  i # 0 /\ fdt_stringlist_contains(f, at + i, len - i, str)

(* The strings from at to end, as the loops of count, search and get see   *)
(* them: <<-BADVALUE>> for one that is not terminated.                     *)
RECURSIVE StringList(_, _, _)
StringList(f, at, end) ==
    IF at >= end THEN << >>
    ELSE LET i == SelectInSeq(Bytes(f, at, end - at), LAMBDA c : c = NUL)
         IN  IF i = 0 THEN <<<<-BADVALUE>>>>
             ELSE <<Bytes(f, at, i - 1)>> \o StringList(f, at + i, end)

ListOf(f, v) == IF v.len < 0 THEN <<<<v.len>>>> ELSE StringList(f, v.at, v.at + v.len)
PropList(f, node, name) == ListOf(f, fdt_getprop(f, node, name))
IsErr(s) == s # << >> /\ s[1] < 0

fdt_stringlist_count(f, node, name) ==
    With(PropList(f, node, name), LAMBDA list :
         IF list # << >> /\ IsErr(Last(list)) THEN Last(list)[1] ELSE Len(list))

fdt_stringlist_search(f, node, name, str) ==
    With(PropList(f, node, name), LAMBDA list :
    With(SelectInSeq(list, LAMBDA s : s = str \/ IsErr(s)), LAMBDA i :
         IF i = 0 THEN -NOTFOUND ELSE IF IsErr(list[i]) THEN list[i][1] ELSE i - 1))

fdt_stringlist_get(f, node, name, idx) ==
    With(PropList(f, node, name), LAMBDA list :
         IF idx < Len(list) THEN list[idx + 1]
         ELSE IF list # << >> /\ IsErr(Last(list)) THEN Last(list) ELSE <<-NOTFOUND>>)

(* 0 for yes, 1 for no                                                     *)
fdt_node_check_compatible(f, node, str) ==
    With(fdt_getprop(f, node, COMPATIBLE), LAMBDA v :
         IF v.len < 0 THEN v.len
         ELSE IF fdt_stringlist_contains(f, v.at, v.len, str) THEN 0 ELSE 1)

fdt_node_offset_by_compatible(f, start, str) ==
    IF fdt_check_header(f) # 0 THEN fdt_check_header(f)
    ELSE LET Found(o) == IF o < 0 THEN o
                         ELSE With(fdt_node_check_compatible(f, o, str), LAMBDA err :
                                   IF err = 0 THEN o ELSE err)
         IN  With(VisitAfter(f, start), LAMBDA visit :
                  FirstOf([i \in DOMAIN visit |-> Found(visit[i].off)],
                          LAMBDA r : r \notin {1, -NOTFOUND}))
-----------------------------------------------------------------------------
(* What a blob says, read with fdt_next_node, fdt_get_name and the         *)
(* property loop: the nodes in order, their paths, and the tree.           *)
NodesOf(f) ==
    With(fdt_next_node(f, -1, -1), LAMBDA root :
    With(Visit(f, root.off, root.depth), LAMBDA visit :
         SubSeq(visit, 1, SelectInSeq(visit, Leaves) - 1)))

PathOf(f, nodes, i) ==
    [d \in 1..nodes[i].depth |->
        fdt_get_name(f, nodes[Max({j \in 1..i : nodes[j].depth = d})].off)]

PropsOf(f, node) ==
    LET Of(props) == [n \in {PropName(f, p) : p \in props} |->
                         With(CHOOSE q \in props : PropName(f, q) = n, LAMBDA p :
                              Bytes(f, PropData(f, p), PropLen(f, p)))]
    IN  Of(ToSet(Front(Props(f, node))))

TreeOf(f) ==
    LET Of(nodes, at) ==
            [p \in Range(at) |-> PropsOf(f, nodes[CHOOSE i \in DOMAIN at : at[i] = p].off)]
    IN  With(NodesOf(f), LAMBDA nodes : Of(nodes, [i \in DOMAIN nodes |-> PathOf(f, nodes, i)]))

RsvOf(f) ==
    LET entries == [i \in 1..((f.off_dt_struct - f.off_mem_rsvmap) \div RESERVESIZE) |->
                       fdt_get_mem_rsv(f, i - 1)]
    IN  SelectSeq(entries, LAMBDA e : e[2] # 0)
=============================================================================

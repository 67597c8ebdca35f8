------------------------------ MODULE FdtWrite -----------------------------
(***************************************************************************)
(* The writers of device trees: lib/libfdt/fdt_sw.c (sequential write),    *)
(* fdt_rw.c (read-write), fdt_wip.c (write in place), fdt_empty_tree.c.    *)
(* An operator takes a blob and gives what the function leaves of it and   *)
(* what it returns, [ret, fdt].  A function that fails may have written.   *)
(***************************************************************************)
EXTENDS FdtBlob

Result(f, ret) == [ret |-> ret, fdt |-> f]
Ok(f) == Result(f, 0)
Error(f, e) == Result(f, -e)
Failed(r) == r.ret < 0

(* memmove, memcpy and memset                                              *)
Move(f, to, from, n) ==
    [f EXCEPT !.mem = [a \in DOMAIN @ |->
        IF a \in to..(to + n - 1) THEN @[from + a - to] ELSE @[a]]]
Put(f, to, bytes) ==
    [f EXCEPT !.mem = [a \in DOMAIN @ |->
        IF a \in to..(to + Len(bytes) - 1) THEN bytes[a - to + 1] ELSE @[a]]]

Zeros(n) == [i \in 1..n |-> 0]
Terminated(s) == Append(s, NUL)
Padded(s) == Terminated(s) \o Zeros(FDT_TAGALIGN(Len(s) + 1) - Len(s) - 1)
Word(w) == cpu_to_fdt32(w)
StructAt(f, off) == f.off_dt_struct + off       \* _fdt_offset_ptr_w
StructTop(f) == StructAt(f, f.size_dt_struct)

(* The least offset at which the terminated string is in the table that    *)
(* begins at address at; -1 if there is none.  It may be the end of a      *)
(* longer string.                                                          *)
fdt_find_string(f, at, size, s) ==
    With({o \in 0..(size - Len(s) - 1) : Bytes(f, at + o, Len(s) + 1) = Terminated(s)},
         LAMBDA found : IF found = {} THEN -1 ELSE Min(found))

(* The next call, unless one has failed                                    *)
Then(r, next(_)) == IF Failed(r) THEN r ELSE next(r.fdt)
-----------------------------------------------------------------------------
(* Sequential write: the structure block grows up from the reserve map,    *)
(* the strings grow down from the end of the buffer.                       *)
fdt_sw_check_header(f) == IF f.magic = "SW" THEN 0 ELSE -BADMAGIC

(* Faulty: the strings at the end of the buffer are not kept clear of.     *)
SpaceForStructOverStrings(f) == f.totalsize - f.off_dt_struct
SpaceForStruct(f) == f.totalsize - f.off_dt_struct - f.size_dt_strings

(* _fdt_grab_space, and what its callers then put there; the padding is    *)
(* left as it is.                                                          *)
fdt_grab_space(f, bytes) ==
    With(f.size_dt_struct + FDT_TAGALIGN(Len(bytes)), LAMBDA off :
         IF off > SpaceForStruct(f) THEN Error(f, NOSPACE)
         ELSE Ok([Put(f, StructTop(f), bytes) EXCEPT !.size_dt_struct = off]))

(* In the buffer in which f is                                             *)
fdt_create(f, bufsize) ==
    LET rsv == FDT_ALIGN(HEADERSIZE, RESERVESIZE)
    IN  IF bufsize < HEADERSIZE THEN Error(f, NOSPACE) ELSE Ok(
        [magic |-> "SW", version |-> 17, last_comp_version |-> 16,
         totalsize |-> bufsize, off_mem_rsvmap |-> rsv, off_dt_struct |-> rsv,
         off_dt_strings |-> bufsize, size_dt_strings |-> 0, size_dt_struct |-> 0,
         mem |-> [a \in DOMAIN f.mem |-> IF a < bufsize THEN 0 ELSE f.mem[a]]])

(* fdt_resize in place, or to another buffer, whose bytes are other.  Only *)
(* what is before the structure block is moved, and the strings.           *)
fdt_resize(f, bufsize, other) ==
    LET head == f.off_dt_struct
        tail == f.size_dt_strings
        strings == Bytes(f, f.totalsize - tail, tail)
        buf == [f EXCEPT !.mem = [a \in DOMAIN @ |-> IF a < head THEN @[a] ELSE other[a]]]
    IN  IF fdt_sw_check_header(f) # 0 THEN Result(f, fdt_sw_check_header(f))
        ELSE IF head + tail > bufsize THEN Error(f, NOSPACE)
        ELSE Ok([Put(buf, bufsize - tail, strings)
                    EXCEPT !.off_dt_strings = bufsize, !.totalsize = bufsize])

fdt_add_reservemap_entry(f, addr, size) ==
    IF fdt_sw_check_header(f) # 0 THEN Result(f, fdt_sw_check_header(f))
    ELSE IF f.size_dt_struct # 0 THEN Error(f, BADSTATE)
    ELSE IF f.off_dt_struct + RESERVESIZE > f.totalsize THEN Error(f, NOSPACE)
    ELSE Ok([Put(f, f.off_dt_struct, <<addr, size>>)
                EXCEPT !.off_dt_struct = @ + RESERVESIZE])

fdt_finish_reservemap(f) == fdt_add_reservemap_entry(f, 0, 0)

fdt_begin_node(f, name) ==
    IF fdt_sw_check_header(f) # 0 THEN Result(f, fdt_sw_check_header(f))
    ELSE fdt_grab_space(f, Word(BEGIN_NODE) \o Terminated(name))

fdt_end_node(f) ==
    IF fdt_sw_check_header(f) # 0 THEN Result(f, fdt_sw_check_header(f))
    ELSE fdt_grab_space(f, Word(END_NODE))

(* The offset is negative, from the end of the buffer; 0 is a failure.     *)
sw_find_add_string(f, s) ==
    LET offset == -f.size_dt_strings - Len(s) - 1
    IN  With(fdt_find_string(f, f.totalsize - f.size_dt_strings, f.size_dt_strings, s),
             LAMBDA o :
             IF o >= 0 THEN Result(f, o - f.size_dt_strings)
             ELSE IF f.totalsize + offset < StructTop(f) THEN Result(f, 0)
             ELSE Result([Put(f, f.totalsize + offset, Terminated(s))
                             EXCEPT !.size_dt_strings = -offset], offset))

PropHeader(nameoff, len) == Word(PROP) \o Word(len) \o Word(nameoff)
fdt_property(f, name, val) ==
    IF fdt_sw_check_header(f) # 0 THEN Result(f, fdt_sw_check_header(f))
    ELSE With(sw_find_add_string(f, name), LAMBDA added :
              IF added.ret = 0 THEN Error(f, NOSPACE)
              ELSE fdt_grab_space(added.fdt, PropHeader(added.ret, Len(val)) \o val))

(* fdt_finish: the strings are moved behind the structure block and the    *)
(* string offsets corrected, property by property.                         *)
RECURSIVE CorrectNames(_, _)
CorrectNames(f, off) ==
    LET NameAt == StructAt(f, off) + 2 * TAGSIZE
    IN  With(fdt_next_tag(f, off), LAMBDA t :
             IF t.tag = END THEN Result(f, Min({t.next, 0}))
             ELSE CorrectNames(IF t.tag = PROP
                               THEN Put(f, NameAt, Word(fdt32_to_cpu(f, NameAt) + f.size_dt_strings))
                               ELSE f, t.next))

fdt_finish(f) ==
    LET Strings(g) == [Move(g, StructTop(g), g.totalsize - g.size_dt_strings, g.size_dt_strings)
                          EXCEPT !.off_dt_strings = StructTop(g)]
    IN  IF fdt_sw_check_header(f) # 0 THEN Result(f, fdt_sw_check_header(f))
        ELSE Then(Then(fdt_grab_space(f, Word(END)), LAMBDA g : CorrectNames(Strings(g), 0)),
                  LAMBDA g : Ok([g EXCEPT !.totalsize = g.off_dt_strings + g.size_dt_strings,
                                          !.magic = "FDT"]))
-----------------------------------------------------------------------------
(* Read-write: the blocks in order, the free space behind them.            *)
fdt_blocks_misordered(f, rsvsize, structsize) ==
    \/ f.off_mem_rsvmap < FDT_ALIGN(HEADERSIZE, RESERVESIZE)
    \/ f.off_dt_struct < f.off_mem_rsvmap + rsvsize
    \/ f.off_dt_strings < f.off_dt_struct + structsize
    \/ f.totalsize < f.off_dt_strings + f.size_dt_strings

(* It also sets a version above 17 to 17; no blob here has one.            *)
fdt_rw_check_header(f) ==
    IF fdt_check_header(f) # 0 THEN fdt_check_header(f)
    ELSE IF f.version < 17 THEN -BADVERSION
    ELSE IF fdt_blocks_misordered(f, RESERVESIZE, f.size_dt_struct) THEN -BADLAYOUT
    ELSE 0

(* FDT_RW_CHECK_HEADER, then the rest of the function                      *)
Checked(f, r) ==
    IF fdt_rw_check_header(f) # 0 THEN Result(f, fdt_rw_check_header(f)) ELSE r

fdt_data_size(f) == f.off_dt_strings + f.size_dt_strings

(* Faulty: the last byte of the buffer is not used.                        *)
OverflowsEarly(f, size) == size >= f.totalsize
Overflows(f, size) == size > f.totalsize

(* Make room of newlen bytes where there were oldlen.                      *)
fdt_splice(f, p, oldlen, newlen) ==
    IF p + oldlen > fdt_data_size(f) THEN Error(f, BADOFFSET)
    ELSE IF Overflows(f, fdt_data_size(f) - oldlen + newlen) THEN Error(f, NOSPACE)
    ELSE Ok(Move(f, p + newlen, p + oldlen, fdt_data_size(f) - p - oldlen))

fdt_splice_mem_rsv(f, p, oldn, newn) ==
    LET delta == (newn - oldn) * RESERVESIZE
    IN  Then(fdt_splice(f, p, oldn * RESERVESIZE, newn * RESERVESIZE), LAMBDA g :
             Ok([g EXCEPT !.off_dt_struct = @ + delta, !.off_dt_strings = @ + delta]))

(* Faulty: the strings block is not said to have moved.                    *)
fdt_splice_struct_only(f, p, oldlen, newlen) ==
    Then(fdt_splice(f, p, oldlen, newlen), LAMBDA g :
         Ok([g EXCEPT !.size_dt_struct = @ + newlen - oldlen]))

fdt_splice_struct(f, p, oldlen, newlen) ==
    LET delta == newlen - oldlen
    IN  Then(fdt_splice(f, p, oldlen, newlen), LAMBDA g :
             Ok([g EXCEPT !.size_dt_struct = @ + delta, !.off_dt_strings = @ + delta]))

fdt_splice_string(f, newlen) ==
    Then(fdt_splice(f, fdt_data_size(f), 0, newlen), LAMBDA g :
         Ok([g EXCEPT !.size_dt_strings = @ + newlen]))

rw_find_add_string(f, s) ==
    With(fdt_find_string(f, f.off_dt_strings, f.size_dt_strings, s), LAMBDA o :
         IF o >= 0 THEN Result(f, o)
         ELSE Then(fdt_splice_string(f, Len(s) + 1), LAMBDA g :
                   Result(Put(g, fdt_data_size(f), Terminated(s)), f.size_dt_strings)))

fdt_add_mem_rsv(f, addr, size) ==
    With(f.off_mem_rsvmap + fdt_num_mem_rsv(f) * RESERVESIZE, LAMBDA re :
         Checked(f, Then(fdt_splice_mem_rsv(f, re, 0, 1), LAMBDA g :
                         Ok(Put(g, re, <<addr, size>>)))))

fdt_del_mem_rsv(f, n) ==
    Checked(f, IF n >= fdt_num_mem_rsv(f) THEN Error(f, NOTFOUND)
               ELSE fdt_splice_mem_rsv(f, f.off_mem_rsvmap + n * RESERVESIZE, 1, 0))

(* The property at offset p gets another length.                           *)
Resized(f, p, len) ==
    Then(fdt_splice_struct(f, PropData(f, p), FDT_TAGALIGN(PropLen(f, p)), FDT_TAGALIGN(len)),
         LAMBDA g : Ok(Put(g, StructAt(f, p) + TAGSIZE, Word(len))))

fdt_resize_property(f, node, name, len) ==
    With(fdt_get_property(f, node, name), LAMBDA p :
         IF p < 0 THEN Result(f, p) ELSE Resized(f, p, len))

(* A new property is the first of its node.  Its name may be in the        *)
(* strings block already when there turns out to be no room for the rest.  *)
fdt_add_property(f, node, name, len) ==
    With(fdt_check_node_offset(f, node), LAMBDA next :
         IF next < 0 THEN Result(f, next)
         ELSE With(rw_find_add_string(f, name), LAMBDA added :
              Then(added, LAMBDA g :
              Then(fdt_splice_struct(g, StructAt(f, next), 0, PROPSIZE + FDT_TAGALIGN(len)),
                   LAMBDA h : Ok(Put(h, StructAt(f, next), PropHeader(added.ret, len)))))))

fdt_set_name(f, node, name) ==
    LET Renamed(old, at) ==
            Then(fdt_splice_struct(f, at, FDT_TAGALIGN(Len(old) + 1), FDT_TAGALIGN(Len(name) + 1)),
                 LAMBDA g : Ok(Put(g, at, Terminated(name))))
    IN  Checked(f, IF fdt_check_node_offset(f, node) < 0 THEN Error(f, BADOFFSET)
                   ELSE Renamed(fdt_get_name(f, node), StructAt(f, node) + TAGSIZE))

(* The value, put where the property now is                                *)
WithValue(r, node, name, skip, val) ==
    Then(r, LAMBDA g : Ok(Put(g, fdt_getprop(g, node, name).at + skip, val)))

fdt_setprop(f, node, name, val) ==
    LET Added(r) == IF r.ret = -NOTFOUND THEN fdt_add_property(f, node, name, Len(val)) ELSE r
    IN  Checked(f, WithValue(Added(fdt_resize_property(f, node, name, Len(val))),
                             node, name, 0, val))

fdt_appendprop(f, node, name, val) ==
    LET Grown(p) == IF p >= 0 THEN Resized(f, p, PropLen(f, p) + Len(val))
                    ELSE fdt_add_property(f, node, name, Len(val))
    IN  Checked(f, With(fdt_get_property(f, node, name), LAMBDA p :
                        WithValue(Grown(p), node, name,
                                  IF p >= 0 THEN PropLen(f, p) ELSE 0, val)))

PropSize(f, p) == PROPSIZE + FDT_TAGALIGN(PropLen(f, p))

fdt_delprop(f, node, name) ==
    Checked(f, With(fdt_get_property(f, node, name), LAMBDA p :
               IF p < 0 THEN Result(f, p)
               ELSE fdt_splice_struct(f, StructAt(f, p), PropSize(f, p), 0)))

(* Where the properties of a node, and NOPs between them, end              *)
RECURSIVE SkipProps(_, _)
SkipProps(f, off) ==
    With(fdt_next_tag(f, off), LAMBDA t :
         IF t.tag \in {PROP, NOP} THEN SkipProps(f, t.next) ELSE off)

(* Returns the offset of the new node, the first of its parent's subnodes. *)
fdt_add_subnode(f, parent, name) ==
    LET node == Word(BEGIN_NODE) \o Padded(name) \o Word(END_NODE)
        Inserted(off) == Then(fdt_splice_struct(f, StructAt(f, off), 0, Len(node)), LAMBDA g :
                              Result(Put(g, StructAt(f, off), node), off))
    IN  Checked(f, With(fdt_subnode_offset(f, parent, name), LAMBDA old :
                        IF old >= 0 THEN Error(f, EXISTS)
                        ELSE IF old # -NOTFOUND THEN Result(f, old)
                        ELSE Inserted(SkipProps(f, fdt_next_tag(f, parent).next))))

fdt_node_end_offset(f, node) == FirstOf(Visit(f, node, 0), Leaves).off

fdt_del_node(f, node) ==
    Checked(f, With(fdt_node_end_offset(f, node), LAMBDA end :
               IF end < 0 THEN Result(f, end)
               ELSE fdt_splice_struct(f, StructAt(f, node), end - node, 0)))

(* The blocks of a blob, packed in order behind the header of a buffer;    *)
(* same says that it is the blob's own, in which blocks already moved are. *)
fdt_packblocks(f, buf, same, rsvsize, structsize) ==
    LET rsv_off == FDT_ALIGN(HEADERSIZE, RESERVESIZE)
        struct_off == rsv_off + rsvsize
        strings_off == struct_off + structsize
        Block(g, to, from, n) == Put(g, to, Bytes(IF same THEN g ELSE f, from, n))
    IN  With(Block(buf, rsv_off, f.off_mem_rsvmap, rsvsize), LAMBDA a :
        With(Block(a, struct_off, f.off_dt_struct, structsize), LAMBDA b :
             [Block(b, strings_off, f.off_dt_strings, f.size_dt_strings)
                 EXCEPT !.off_mem_rsvmap = rsv_off, !.off_dt_struct = struct_off,
                        !.size_dt_struct = structsize, !.off_dt_strings = strings_off,
                        !.size_dt_strings = f.size_dt_strings]))

fdt_move(f, mem, bufsize) ==
    IF fdt_check_header(f) # 0 THEN Result(f, fdt_check_header(f))
    ELSE IF f.totalsize > bufsize THEN Error(f, NOSPACE)
    ELSE Ok([f EXCEPT !.mem = [a \in DOMAIN mem |-> IF a < f.totalsize THEN @[a] ELSE mem[a]]])

RsvSize(f) == (fdt_num_mem_rsv(f) + 1) * RESERVESIZE

(* The size of the structure block of a blob that does not say it          *)
RECURSIVE EndOfStruct(_, _)
EndOfStruct(f, off) ==
    With(fdt_next_tag(f, off), LAMBDA t :
         IF t.tag = END THEN t.next ELSE EndOfStruct(f, t.next))

(* Copy a blob to a buffer, mem, to be edited there.  If the blocks are    *)
(* out of order they are packed; for the blob's own buffer that is done    *)
(* behind the old blob, and the result moved to the front.                 *)
fdt_open_into(f, mem, same, bufsize) ==
    LET Opened(g, structsize) == [g EXCEPT !.version = 17, !.size_dt_struct = structsize,
                                           !.totalsize = bufsize]
        Reordered(rsvsize, structsize, newsize) ==
            IF bufsize < newsize \/ (same /\ f.totalsize + newsize > bufsize)
            THEN Error(f, NOSPACE)
            ELSE Ok([Opened(fdt_packblocks(f, [f EXCEPT !.mem = mem], FALSE,
                                           rsvsize, structsize), structsize)
                        EXCEPT !.magic = "FDT", !.last_comp_version = 16])
        Open(rsvsize, structsize) ==
            IF structsize < 0 THEN Result(f, structsize)
            ELSE IF ~fdt_blocks_misordered(f, rsvsize, structsize)
            THEN Then(fdt_move(f, mem, bufsize), LAMBDA g : Ok(Opened(g, structsize)))
            ELSE Reordered(rsvsize, structsize, FDT_ALIGN(HEADERSIZE, RESERVESIZE)
                              + rsvsize + structsize + f.size_dt_strings)
    IN  IF fdt_check_header(f) # 0 THEN Result(f, fdt_check_header(f))
        ELSE Open(RsvSize(f), IF f.version >= 17 THEN f.size_dt_struct ELSE EndOfStruct(f, 0))

fdt_pack(f) ==
    Checked(f, With(fdt_packblocks(f, f, TRUE, RsvSize(f), f.size_dt_struct), LAMBDA g :
                    Ok([g EXCEPT !.totalsize = fdt_data_size(g)])))

(* The calls of fdt_create_empty_tree, the first that fails being the last *)
fdt_create_empty_tree(f, bufsize) ==
    Then(Then(Then(Then(Then(fdt_create(f, bufsize), fdt_finish_reservemap),
                        LAMBDA g : fdt_begin_node(g, << >>)),
                   fdt_end_node),
              fdt_finish),
         LAMBDA g : fdt_open_into(g, g.mem, TRUE, bufsize))
-----------------------------------------------------------------------------
(* Write in place                                                          *)
fdt_setprop_inplace_partial(f, node, name, idx, val) ==
    With(fdt_getprop(f, node, name), LAMBDA v :
         IF v.len < 0 THEN Result(f, v.len)
         ELSE IF v.len < Len(val) + idx THEN Error(f, NOSPACE)
         ELSE Ok(Put(f, v.at + idx, val)))

fdt_setprop_inplace(f, node, name, val) ==
    With(fdt_getprop(f, node, name), LAMBDA v :
         IF v.len < 0 THEN Result(f, v.len)
         ELSE IF v.len # Len(val) THEN Error(f, NOSPACE)
         ELSE fdt_setprop_inplace_partial(f, node, name, 0, val))

(* NOP words until the length is covered                                   *)
fdt_nop_region(f, at, len) ==
    Put(f, at, [i \in 1..FDT_TAGALIGN(len) |-> Word(NOP)[2 - (i % 2)]])

fdt_nop_property(f, node, name) ==
    With(fdt_get_property(f, node, name), LAMBDA p :
         IF p < 0 THEN Result(f, p)
         ELSE Ok(fdt_nop_region(f, StructAt(f, p), PropLen(f, p) + PROPSIZE)))

fdt_nop_node(f, node) ==
    With(fdt_node_end_offset(f, node), LAMBDA end :
         IF end < 0 THEN Result(f, end) ELSE Ok(fdt_nop_region(f, StructAt(f, node), end - node)))
=============================================================================

------------------------------ MODULE FdtEdit ------------------------------
(***************************************************************************)
(* A caller of lib/libfdt builds a device tree in a buffer and edits it:   *)
(* fdt_create, the sequential writes, fdt_finish, fdt_open_into, then the  *)
(* functions of fdt_rw.c and fdt_wip.c in any order; or it begins with     *)
(* fdt_create_empty_tree, or with a blob from the boot loader.  Any call   *)
(* may run out of space; the caller may then try again, or go on.          *)
(***************************************************************************)
EXTENDS FdtWrite, TLC

CONSTANTS NodeNames, PropNames, Values, Reservations,
          Sizes,       \* sizes given to fdt_create and fdt_resize
          Rooms,       \* sizes given to fdt_open_into
          Given,       \* blobs of the boot loader
          MaxEdits     \* bound on the calls that change a tree

VARIABLES fdt,     \* the blob
          stage,   \* what the caller is doing
          open,    \* the path of the node begun last and not ended
          edits,   \* how many calls have changed a tree
          tree,    \* what fdt says: path of a node -> property -> value,
          rsv      \*   and the reserved memory

vars == <<fdt, stage, open, edits, tree, rsv>>

Addresses == 0..(Max(Sizes \union Rooms) - 1)
Blank == [a \in Addresses |-> 0]
Raw == [magic |-> "none", version |-> 17, last_comp_version |-> 16, totalsize |-> 0,
        off_mem_rsvmap |-> 0, off_dt_struct |-> 0, off_dt_strings |-> 0,
        size_dt_strings |-> 0, size_dt_struct |-> 0, mem |-> Blank]
-----------------------------------------------------------------------------
(* The offsets of the nodes                                                *)
Offsets == {n.off : n \in ToSet(NodesOf(fdt))}
-----------------------------------------------------------------------------
Init ==
    /\ \/ fdt = Raw /\ stage = "start"
       \/ fdt \in Given /\ stage = "tree"
    /\ open = << >> /\ edits = 0
    /\ tree = TreeOf(fdt) /\ rsv = RsvOf(fdt)

Write(f) == fdt' = f /\ tree' = TreeOf(f) /\ rsv' = RsvOf(f)

(* The caller goes on to the next stage if the call has succeeded.         *)
Call(r, next) ==
    /\ Write(r.fdt)
    /\ stage' = IF Failed(r) THEN stage ELSE next

Create(size) ==
    /\ stage = "start"
    /\ Call(fdt_create(fdt, size), "reserve")
    /\ UNCHANGED <<open, edits>>

EmptyTree(size) ==
    /\ stage = "start"
    /\ LET r == fdt_create_empty_tree(fdt, size)
       IN  Write(r.fdt) /\ stage' = IF Failed(r) THEN "failed" ELSE "edit"
    /\ UNCHANGED <<open, edits>>

AddReservemapEntry(r) ==
    /\ stage = "reserve"
    /\ Call(fdt_add_reservemap_entry(fdt, r[1], r[2]), "reserve")
    /\ UNCHANGED <<open, edits>>

FinishReservemap ==
    /\ stage = "reserve"
    /\ Call(fdt_finish_reservemap(fdt), "root")
    /\ UNCHANGED <<open, edits>>

(* The caller gives subnodes of a node different names, writes properties  *)
(* before subnodes and ends every node it has begun.                       *)
BeginRoot ==
    /\ stage = "root"
    /\ Call(fdt_begin_node(fdt, << >>), "props")
    /\ UNCHANGED <<open, edits>>

BeginNode(n) ==
    /\ stage \in {"props", "nodes"} /\ Append(open, n) \notin DOMAIN tree
    /\ edits < MaxEdits /\ edits' = edits + 1
    /\ LET r == fdt_begin_node(fdt, n)
       IN  Call(r, "props") /\ open' = IF Failed(r) THEN open ELSE Append(open, n)

Property(n, v) ==
    /\ stage = "props" /\ n \notin DOMAIN tree[open]
    /\ edits < MaxEdits /\ edits' = edits + 1
    /\ Call(fdt_property(fdt, n, v), "props")
    /\ UNCHANGED open

EndNode ==
    /\ stage \in {"props", "nodes"}
    /\ LET r == fdt_end_node(fdt)
       IN  /\ Call(r, IF open = << >> THEN "ended" ELSE "nodes")
           /\ open' = IF Failed(r) \/ open = << >> THEN open ELSE Front(open)
    /\ UNCHANGED edits

Finish ==
    /\ stage = "ended"
    /\ Call(fdt_finish(fdt), "tree")
    /\ UNCHANGED <<open, edits>>

(* A new size for an unfinished tree, in place.  The caller keeps to sizes *)
(* that hold what has been written: fdt_resize does not ask for that, it   *)
(* checks and moves only what is before the structure block, and the       *)
(* strings.                                                                *)
Resize(size) ==
    /\ fdt.magic = "SW" /\ stage # "failed"
    /\ StructTop(fdt) + fdt.size_dt_strings <= size
    /\ Call(fdt_resize(fdt, size, fdt.mem), stage)
    /\ UNCHANGED <<open, edits>>

(* Into the same buffer or into another one                                *)
OpenInto(size, other) ==
    /\ stage = "tree" \/ (stage = "edit" /\ edits < MaxEdits)
    /\ edits' = IF stage = "edit" THEN edits + 1 ELSE edits
    /\ Call(fdt_open_into(fdt, IF other THEN Blank ELSE fdt.mem, ~other, size), "edit")
    /\ UNCHANGED open

Edit(r) ==
    /\ stage = "edit" /\ edits < MaxEdits
    /\ Write(r.fdt)
    /\ edits' = edits + 1
    /\ UNCHANGED <<stage, open>>

AddMemRsv(r) == Edit(fdt_add_mem_rsv(fdt, r[1], r[2]))
DelMemRsv(n) == Edit(fdt_del_mem_rsv(fdt, n))
Pack == Edit(fdt_pack(fdt))
AddSubnode(o, n) == Edit(fdt_add_subnode(fdt, o, n))
DelNode(o) == Edit(fdt_del_node(fdt, o))
NopNode(o) == Edit(fdt_nop_node(fdt, o))
SetProp(o, n, v) == Edit(fdt_setprop(fdt, o, n, v))
AppendProp(o, n, v) == Edit(fdt_appendprop(fdt, o, n, v))
SetPropInplace(o, n, v) == Edit(fdt_setprop_inplace(fdt, o, n, v))
DelProp(o, n) == Edit(fdt_delprop(fdt, o, n))
NopProperty(o, n) == Edit(fdt_nop_property(fdt, o, n))

(* "results are undefined if this function is invoked with a name equal to *)
(* one of the given node's siblings" (libfdt.h); the root keeps its name.  *)
SetName(o, n) ==
    LET nodes == NodesOf(fdt)
        i == CHOOSE j \in DOMAIN nodes : nodes[j].off = o
        p == PathOf(fdt, nodes, i)
    IN  /\ p # << >> /\ Append(Front(p), n) \notin DOMAIN tree
        /\ Edit(fdt_set_name(fdt, o, n))

Build ==
    \/ \E size \in Sizes : Create(size) \/ EmptyTree(size)
    \/ \E r \in Reservations : AddReservemapEntry(r)
    \/ FinishReservemap \/ BeginRoot \/ EndNode \/ Finish
    \/ \E n \in NodeNames : BeginNode(n)
    \/ \E n \in PropNames, v \in Values : Property(n, v)

Rewrite ==
    \/ \E size \in Rooms, other \in BOOLEAN : OpenInto(size, other)
    \/ Pack
    \/ \E r \in Reservations : AddMemRsv(r)
    \/ \E n \in 0..1 : DelMemRsv(n)
    \/ \E o \in Offsets :
          \/ DelNode(o) \/ NopNode(o)
          \/ \E n \in NodeNames : AddSubnode(o, n) \/ SetName(o, n)
          \/ \E n \in PropNames :
                \/ DelProp(o, n) \/ NopProperty(o, n)
                \/ \E v \in Values : SetProp(o, n, v) \/ AppendProp(o, n, v)
                                       \/ SetPropInplace(o, n, v)

Next == Build \/ Rewrite \/ \E size \in Sizes : Resize(size)

Spec == Init /\ [][Next]_vars
-----------------------------------------------------------------------------
(* The writers keep the promise of FdtTree: whatever a call moves, cuts    *)
(* out or overwrites with NOPs, the tree changes by that node or property  *)
(* only, and a call that fails leaves the tree as it was.                  *)
Abstract == INSTANCE FdtTree WITH
                Initial <- {<<TreeOf(f), RsvOf(f)>> : f \in Given \union {Raw}}
ImplementsTree == Abstract!Spec

Ready == fdt.magic = "FDT" /\ tree # << >>

(* Whatever is inserted, cut out or packed, the blocks do not overlap, the *)
(* structure block has the size the header says and END is its last word,  *)
(* and every property's name is a string that ends inside the strings      *)
(* block.  While the tree is written sequentially the structure block and  *)
(* the strings grow towards each other and do not meet.                    *)
BlocksInOrder ==
    /\ fdt.magic = "SW" => StructTop(fdt) <= fdt.totalsize - fdt.size_dt_strings
    /\ stage = "edit" =>
          /\ fdt_rw_check_header(fdt) = 0
          /\ EndOfStruct(fdt, 0) = fdt.size_dt_struct
          /\ \A o \in Offsets : \A p \in ToSet(Front(Props(fdt, o))) :
                With(fdt32_to_cpu(fdt, StructAt(fdt, p) + 2 * TAGSIZE), LAMBDA name :
                     name + Len(fdt_string(fdt, name)) < fdt.size_dt_strings)

(* The bytes fdt_setprop needs when the node has no such property: the     *)
(* property, and its name unless the strings block has it (it may be the   *)
(* end of another name).                                                   *)
Missing(name, val) ==
    PROPSIZE + FDT_TAGALIGN(Len(val))
      + IF fdt_find_string(fdt, fdt.off_dt_strings, fdt.size_dt_strings, name) >= 0
        THEN 0 ELSE Len(name) + 1

Roomy(size) == [a \in 0..(size - 1) |-> 0]

(* A property that does not fit is refused exactly when the free space is  *)
(* too small, and the attempt, which may already have added the name to    *)
(* the strings block, does no harm: after fdt_open_into a buffer with just *)
(* the missing bytes more, the same fdt_setprop succeeds and the tree has  *)
(* the property, and only that has changed.                                *)
RetrySucceeds ==
    stage = "edit" => With(NodesOf(fdt), LAMBDA nodes :
    \A i \in DOMAIN nodes, n \in PropNames, v \in Values :
        fdt_get_property(fdt, nodes[i].off, n) < 0 =>
            With(fdt_data_size(fdt) + Missing(n, v), LAMBDA size :
            With(fdt_setprop(fdt, nodes[i].off, n, v), LAMBDA r :
                 /\ r.ret = IF size <= fdt.totalsize THEN 0 ELSE -NOSPACE
                 /\ Failed(r) =>
                      With(Then(fdt_open_into(r.fdt, Roomy(size), FALSE, size), LAMBDA g :
                                fdt_setprop(g, nodes[i].off, n, v)), LAMBDA again :
                           /\ again.ret = 0
                           /\ TreeOf(again.fdt) =
                                [tree EXCEPT ![PathOf(fdt, nodes, i)] = (n :> v) @@ @]))))

(* No other name makes the path ambiguous: libfdt.h leaves open which node *)
(* a name without unit address finds if several begin with it.             *)
Alone(path) ==
    \A q \in DOMAIN tree, d \in DOMAIN path :
        Len(q) >= d /\ SubSeq(q, 1, d - 1) = SubSeq(path, 1, d - 1)
          => q[d] = path[d] \/ ~(IsPrefix(path[d], q[d]) /\ ~Contains(path[d], AT))

(* The walks up and down agree: a node is found by its path, at its depth, *)
(* under its parent, among its parent's subnodes in order, and its path is *)
(* returned exactly when the buffer holds it with the NUL; an offset that  *)
(* is not that of a node is refused; an alias stands for the path it says. *)
NodesAreFound ==
    Ready => With(NodesOf(fdt), LAMBDA nodes :
    /\ \A i \in DOMAIN nodes : With(PathOf(fdt, nodes, i), LAMBDA path :
          LET node == nodes[i].off
              Children == {j \in DOMAIN nodes : Len(path) + 1 = nodes[j].depth
                              /\ IsPrefix(path, PathOf(fdt, nodes, j))}
              Full == <<SLASH>> \o FlattenSeq([d \in DOMAIN path |-> Append(path[d], SLASH)])
          IN  /\ Alone(path) => fdt_path_offset(fdt, Full) = node
              /\ fdt_node_depth(fdt, node) = Len(path)
              /\ Subnodes(fdt, node) = SetToSortSeq({nodes[j].off : j \in Children}, <)
              /\ \A j \in Children : fdt_parent_offset(fdt, nodes[j].off) = node
              /\ With(Max({2, Len(Full)}), LAMBDA len :
                    /\ fdt_get_path(fdt, node, len) = [ret |-> 0, names |-> <<<< >>>> \o path]
                    /\ fdt_get_path(fdt, node, len - 1).ret = -NOSPACE))
    /\ \A o \in 0..EndOfStruct(fdt, 0) :
          (\A i \in DOMAIN nodes : nodes[i].off # o) => fdt_node_depth(fdt, o) < 0
    /\ \A n \in PropNames : With(fdt_get_alias(fdt, n), LAMBDA alias :
          alias.len > 0 /\ fdt.mem[alias.at] = SLASH =>
              fdt_path_offset(fdt, n) = fdt_path_offset(fdt, CStr(fdt, alias.at))))

(* The readers of string lists agree: what fdt_stringlist_search finds is  *)
(* what fdt_stringlist_get returns at that index and a compatible match;   *)
(* a compatible match that the search does not find is at the end of the   *)
(* list, for fdt_stringlist_contains looks one byte beyond it: it is the   *)
(* unterminated end of a bad list, or the empty string.                    *)
ListsAgree ==
    Ready => \A o \in Offsets, v \in Values \union {<< >>} :
        With(SelectSeq(v, LAMBDA c : c # NUL), LAMBDA str :
        With(fdt_stringlist_search(fdt, o, COMPATIBLE, str), LAMBDA idx :
             /\ idx >= 0 => /\ fdt_stringlist_get(fdt, o, COMPATIBLE, idx) = str
                            /\ fdt_node_check_compatible(fdt, o, str) = 0
             /\ fdt_node_check_compatible(fdt, o, str) = 0 /\ idx < 0
                  => str = << >> \/ fdt_stringlist_count(fdt, o, COMPATIBLE) = -BADVALUE))

(* Searches that are resumed from the node they have found last miss no    *)
(* node and find none twice: each returns the first node behind the given  *)
(* one that has the value, or the compatible string.  A phandle leads to   *)
(* the first node that has it, and none is above fdt_get_max_phandle.      *)
SearchesAgree ==
    Ready => With(Offsets, LAMBDA offs :
    \A o \in offs \union {-1}, v \in Values :
        LET After(Test(_)) == With({x \in offs : x > o /\ Test(x)}, LAMBDA found :
                                   IF found = {} THEN -NOTFOUND ELSE Min(found))
            Has(x, n) == With(PropsOf(fdt, x), LAMBDA props : n \in DOMAIN props /\ props[n] = v)
        IN  /\ \A n \in PropNames :
                  fdt_node_offset_by_prop_value(fdt, o, n, v) = After(LAMBDA x : Has(x, n))
            /\ With(SelectSeq(v, LAMBDA c : c # NUL), LAMBDA str :
                    fdt_node_offset_by_compatible(fdt, o, str)
                      = After(LAMBDA x : fdt_node_check_compatible(fdt, x, str) = 0))
            /\ o >= 0 => With(fdt_get_phandle(fdt, o), LAMBDA phandle : phandle # 0 =>
                    /\ phandle <= fdt_get_max_phandle(fdt)
                    /\ fdt_node_offset_by_phandle(fdt, phandle) =
                          Min({x \in offs : fdt_get_phandle(fdt, x) = phandle})))
=============================================================================

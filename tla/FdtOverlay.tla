---------------------------- MODULE FdtOverlay -----------------------------
(***************************************************************************)
(* fdt_overlay_apply, lib/libfdt/fdt_overlay.c: the fragments of an        *)
(* overlay, itself a device tree, are merged into a base device tree.  The *)
(* overlay's phandles are moved above those of the base, its references to *)
(* them follow, references to labels of the base are resolved, and then    *)
(* each fragment is merged into its target.  Overlays are applied to the   *)
(* base one after the other.                                               *)
(***************************************************************************)
EXTENDS FdtWrite, TLC

CONSTANTS Bases,       \* base blobs, opened for writing
          Overlays,    \* overlay blobs
          Good,        \* those that are structured properly
          MaxApply     \* bound on the overlays applied

ASSUME GoodAssumption == Good \subseteq Overlays

VARIABLES fdt,        \* the base
          fdto,       \* the overlay
          stage,      \* what fdt_overlay_apply does next
          delta,      \* what is added to the overlay's phandles
          fragments,  \* offsets of the fragments left to merge
          ret,        \* what fdt_overlay_apply has returned
          applied,    \* how many overlays have been applied
          was         \* history: the overlay given, the base's tree before,
                      \* the tree it is to have, whether ret was garbage

vars == <<fdt, fdto, stage, delta, fragments, ret, applied, was>>

(* The names the code looks for, shortened                                 *)
TARGET == <<116>>                   \* "target"
TARGET_PATH == <<117>>              \* "target-path"
OVERLAY == <<111>>                  \* "__overlay__"
FIXUPS == <<102>>                   \* "__fixups__"
LOCAL_FIXUPS == <<120>>             \* "__local_fixups__"
SYMBOLS == <<121>>                  \* "__symbols__"
DIGITS == 48..57

(* One step per element, the first that fails being the last               *)
ThenAll(r, seq, Step(_, _)) ==
    FoldLeft(LAMBDA q, x : Then(q, LAMBDA g : Step(g, x)), r, seq)

(* An error that stands for another one here                               *)
As(r, err, other) == IF r.ret = -err THEN Result(r.fdt, other) ELSE r
-----------------------------------------------------------------------------
overlay_get_target_phandle(f, fragment) ==
    With(fdt_getprop(f, fragment, TARGET), LAMBDA v :
         IF v.len < 0 THEN 0
         ELSE IF v.len # TAGSIZE THEN WORDMOD - 1 ELSE fdt32_to_cpu(f, v.at))

overlay_get_target(base, f, fragment) ==
    With(overlay_get_target_phandle(f, fragment), LAMBDA phandle :
         IF phandle = WORDMOD - 1 THEN -BADPHANDLE
         ELSE IF phandle # 0 THEN fdt_node_offset_by_phandle(base, phandle)
         ELSE With(fdt_getprop(f, fragment, TARGET_PATH), LAMBDA path :
              IF path.len = -NOTFOUND THEN -BADOVERLAY
              ELSE IF path.len < 0 THEN path.len
              ELSE fdt_path_offset(base, CStr(f, path.at))))

NoPhandleLeft(val, d) == (val + d) % WORDMOD < val \/ (val + d) % WORDMOD = WORDMOD - 1

overlay_phandle_add_offset(f, node, name, d) ==
    With(fdt_getprop(f, node, name), LAMBDA v :
         IF v.len < 0 THEN Result(f, v.len)
         ELSE IF v.len # TAGSIZE THEN Error(f, BADPHANDLE)
         ELSE With(fdt32_to_cpu(f, v.at), LAMBDA val :
              IF NoPhandleLeft(val, d) THEN Error(f, NOPHANDLES)
              ELSE fdt_setprop_inplace(f, node, name, Word(val + d))))

(* Faulty: linux,phandle is forgotten.                                     *)
RECURSIVE AdjustOnePhandle(_, _, _)
AdjustOnePhandle(f, node, d) ==
    ThenAll(As(overlay_phandle_add_offset(f, node, PHANDLE, d), NOTFOUND, 0), Subnodes(f, node),
            LAMBDA g, child : AdjustOnePhandle(g, child, d))

RECURSIVE overlay_adjust_node_phandles(_, _, _)
overlay_adjust_node_phandles(f, node, d) ==
    LET Add(g, name) == As(overlay_phandle_add_offset(g, node, name, d), NOTFOUND, 0)
    IN  ThenAll(ThenAll(Ok(f), <<PHANDLE, LINUX_PHANDLE>>, Add), Subnodes(f, node),
                LAMBDA g, child : overlay_adjust_node_phandles(g, child, d))

(* A word of a local reference moves with the phandle it holds.  It is     *)
(* read before fdt_setprop_inplace_namelen_partial finds that it lies      *)
(* outside the value; what is read there is not used.                      *)
AddToWord(f, node, name, poffset, d) ==
    With(fdt_getprop(f, node, name), LAMBDA v :
         IF v.len < poffset + TAGSIZE THEN Error(f, BADOVERLAY)
         ELSE fdt_setprop_inplace_partial(f, node, name, poffset,
                                          Word(fdt32_to_cpu(f, v.at + poffset) + d)))

UpdateProp(f, tree_node, prop, d) ==
    LET name == PropName(f, prop)
        Words == [i \in 1..(PropLen(f, prop) \div TAGSIZE) |->
                     fdt32_to_cpu(f, PropData(f, prop) + (i - 1) * TAGSIZE)]
        tree_len == fdt_getprop(f, tree_node, name).len
    IN  IF PropLen(f, prop) % TAGSIZE # 0 \/ tree_len = -NOTFOUND THEN Error(f, BADOVERLAY)
        ELSE IF tree_len < 0 THEN Result(f, tree_len)
        ELSE ThenAll(Ok(f), Words, LAMBDA g, w : AddToWord(g, tree_node, name, w, d))

(* Before the first subnode the code tests ret, which nothing has set if   *)
(* the fixup node has no word of a reference: garbage says whether what it *)
(* then holds is -FDT_ERR_NOTFOUND, in the first call that tests it.       *)
RetIsUnset(f, fixup_node) == \A p \in ToSet(Front(Props(f, fixup_node))) : PropLen(f, p) = 0

RECURSIVE overlay_update_local_node_references(_, _, _, _, _)
overlay_update_local_node_references(f, tree_node, fixup_node, d, garbage) ==
    LET Child(g, fixup_child) ==
            With(fdt_subnode_offset(g, tree_node, fdt_get_name(g, fixup_child)), LAMBDA tree_child :
                 IF tree_child < 0 THEN Result(g, tree_child)
                 ELSE overlay_update_local_node_references(g, tree_child, fixup_child, d, garbage))
        Children(g, subnodes) ==
            IF garbage /\ subnodes # << >> /\ RetIsUnset(f, fixup_node) THEN Error(g, BADOVERLAY)
            ELSE ThenAll(Ok(g), subnodes, Child)
    IN  Then(ThenAll(Ok(f), Front(Props(f, fixup_node)), LAMBDA g, p : UpdateProp(g, tree_node, p, d)),
             LAMBDA g : Children(g, Subnodes(g, fixup_node)))

(* Faulty: an overlay need have local fixups.                              *)
LocalReferencesExpected(f, d, garbage) ==
    With(fdt_path_offset(f, <<SLASH>> \o LOCAL_FIXUPS), LAMBDA fixups :
         IF fixups < 0 THEN Result(f, fixups)
         ELSE overlay_update_local_node_references(f, 0, fixups, d, garbage))
overlay_update_local_references(f, d, garbage) ==
    With(fdt_path_offset(f, <<SLASH>> \o LOCAL_FIXUPS), LAMBDA fixups :
         IF fixups = -NOTFOUND THEN Ok(f)
         ELSE IF fixups < 0 THEN Result(f, fixups)
         ELSE overlay_update_local_node_references(f, 0, fixups, d, garbage))

(* The phandle of the node a label of the base names is written to a word  *)
(* of a property of the overlay.                                           *)
overlay_fixup_one_phandle(base, f, symbols_off, label, path, name, poffset) ==
    LET Fix(phandle, fixup_off) ==
            IF phandle = 0 THEN Error(f, NOTFOUND)
            ELSE IF fixup_off < 0
            THEN Result(f, IF fixup_off = -NOTFOUND THEN -BADOVERLAY ELSE fixup_off)
            ELSE fdt_setprop_inplace_partial(f, fixup_off, name, poffset, Word(phandle))
    IN  IF symbols_off < 0 THEN Result(f, symbols_off)
        ELSE With(fdt_getprop(base, symbols_off, label), LAMBDA symbol :
             IF symbol.len < 0 THEN Result(f, symbol.len)
             ELSE With(fdt_path_offset(base, CStr(base, symbol.at)), LAMBDA symbol_off :
                  IF symbol_off < 0 THEN Result(f, symbol_off)
                  ELSE Fix(fdt_get_phandle(base, symbol_off), fdt_path_offset(f, path))))

Number(digits) == FoldLeft(LAMBDA n, c : 10 * n + c - 48, 0, digits)

(* A string "path:name:offset" of a __fixups__ property: its parts, and    *)
(* whether it has them                                                     *)
Parts(str) ==
    LET Colon(s) == SelectInSeq(s, LAMBDA c : c = COLON)
        Split(i, rest, j) ==
            [path |-> SubSeq(str, 1, i - 1), name |-> SubSeq(rest, 1, j - 1),
             digits |-> SubSeq(rest, j + 1, Len(rest)), ok |-> i # 0 /\ j > 1]
    IN  With(Colon(str), LAMBDA i : With(SubSeq(str, i + 1, Len(str)), LAMBDA rest :
             Split(i, rest, Colon(rest))))

FixupString(base, f, symbols_off, label, str) ==
    With(Parts(str), LAMBDA s :
         IF ~s.ok \/ s.digits = << >> \/ ~(ToSet(s.digits) \subseteq DIGITS)
         THEN Error(f, BADOVERLAY)
         ELSE overlay_fixup_one_phandle(base, f, symbols_off, label, s.path, s.name,
                                        Number(s.digits)))

overlay_fixup_phandle(base, f, symbols_off, prop) ==
    With(StringList(f, PropData(f, prop), PropData(f, prop) + PropLen(f, prop)), LAMBDA list :
         IF list = << >> THEN Error(f, BADOVERLAY)
         ELSE ThenAll(Ok(f), list, LAMBDA g, str :
                  IF IsErr(str) THEN Error(g, BADOVERLAY)
                  ELSE FixupString(base, g, symbols_off, PropName(f, prop), str)))

overlay_fixup_phandles(base, f) ==
    LET Fixups(off, symbols_off) ==
            IF off = -NOTFOUND THEN Ok(f)
            ELSE IF off < 0 THEN Result(f, off)
            ELSE IF symbols_off < 0 /\ symbols_off # -NOTFOUND THEN Result(f, symbols_off)
            ELSE ThenAll(Ok(f), Front(Props(f, off)), LAMBDA g, p :
                         overlay_fixup_phandle(base, g, symbols_off, p))
    IN  Fixups(fdt_path_offset(f, <<SLASH>> \o FIXUPS),
               fdt_path_offset(base, <<SLASH>> \o SYMBOLS))
-----------------------------------------------------------------------------
(* A node of the overlay is merged into a node of the base: its properties *)
(* are set, then its subnodes added, or merged into those that are there.  *)
(* The base moves under the loop; offsets in it are used again only for    *)
(* nodes that begin before what has been inserted.                         *)
RECURSIVE overlay_apply_node(_, _, _, _)
overlay_apply_node(base, target, f, node) ==
    LET SetProp(g, p) == fdt_setprop(g, target, PropName(f, p),
                                     Bytes(f, PropData(f, p), PropLen(f, p)))
        Into(g, nnode, subnode) ==
            IF nnode < 0 THEN Result(g, nnode) ELSE overlay_apply_node(g, nnode, f, subnode)
        Present(off) == IF off = -NOTFOUND THEN -INTERNAL ELSE off
        Subnode(g, subnode) ==
            With(fdt_get_name(f, subnode), LAMBDA name :
            With(fdt_add_subnode(g, target, name), LAMBDA r :
                 Into(r.fdt, IF r.ret = -EXISTS
                             THEN Present(fdt_subnode_offset(g, target, name))
                             ELSE r.ret, subnode)))
    IN  ThenAll(ThenAll(Ok(base), Front(Props(f, node)), SetProp), Subnodes(f, node), Subnode)

(* One iteration of overlay_merge; a subnode of the root without an        *)
(* __overlay__ is not a fragment.                                          *)
MergeFragment(base, f, fragment) ==
    With(fdt_subnode_offset(f, fragment, OVERLAY), LAMBDA overlay :
         IF overlay = -NOTFOUND THEN Ok(base)
         ELSE IF overlay < 0 THEN Result(base, overlay)
         ELSE With(overlay_get_target(base, f, fragment), LAMBDA target :
              IF target < 0 THEN Result(base, target)
              ELSE overlay_apply_node(base, target, f, overlay)))
-----------------------------------------------------------------------------
(* What merging is to do, on trees: every node of a fragment's overlay is  *)
(* added below the target, its properties in place of those of the base.   *)
WordOf(val, at) == val[at + 1] * 256 + val[at + 2]
PropOr(props, name, else) == IF name \in DOMAIN props THEN props[name] ELSE else
IsWord(props, name) == name \in DOMAIN props /\ Len(props[name]) = TAGSIZE
PhandleOf(props) ==
    IF IsWord(props, PHANDLE) THEN WordOf(props[PHANDLE], 0)
    ELSE IF IsWord(props, LINUX_PHANDLE) THEN WordOf(props[LINUX_PHANDLE], 0) ELSE 0

(* The strings of a list, the names of a path                             *)
StringsIn(val) ==
    {SubSeq(val, i, j - 1) : <<i, j>> \in {e \in (1..Len(val)) \X (1..Len(val)) :
        /\ e[1] <= e[2] /\ val[e[2]] = NUL
        /\ e[1] = 1 \/ val[e[1] - 1] = NUL
        /\ NUL \notin ToSet(SubSeq(val, e[1], e[2] - 1))}}
NamesIn(val) == Names(SelectSeq(val, LAMBDA c : c # NUL))
Targets(t, props) ==
    IF IsWord(props, TARGET)
    THEN {p \in DOMAIN t : PhandleOf(t[p]) = WordOf(props[TARGET], 0)}
    ELSE DOMAIN t \cap {NamesIn(PropOr(props, TARGET_PATH, << >>))}

Grafted(t, at, o, from) ==
    LET Image(q) == at \o SubSeq(q, Len(from) + 1, Len(q))
        Source(p) == from \o SubSeq(p, Len(at) + 1, Len(p))
        New == {Image(q) : q \in {r \in DOMAIN o : IsPrefix(from, r)}}
    IN  [p \in DOMAIN t \union New |->
            IF p \in New THEN o[Source(p)] @@ PropOr(t, p, << >>) ELSE t[p]]

Merged(t, o, names) ==
    FoldLeft(LAMBDA u, n :
                IF <<n, OVERLAY>> \notin DOMAIN o \/ Targets(u, o[<<n>>]) = {} THEN u
                ELSE Grafted(u, CHOOSE p \in Targets(u, o[<<n>>]) : TRUE, o, <<n, OVERLAY>>),
             t, names)
-----------------------------------------------------------------------------
NotRun == [given |-> "none", tree |-> << >>, plan |-> << >>, adjusted |-> << >>,
           garbage |-> FALSE]

Init ==
    /\ fdt \in Bases /\ fdto = "none"
    /\ stage = "start" /\ delta = 0 /\ fragments = << >>
    /\ ret = 0 /\ applied = 0
    /\ was = NotRun

(* fdt_overlay_apply is called: delta and FDT_CHECK_HEADER.                *)
Apply(o) ==
    /\ stage = "start" /\ applied < MaxApply
    /\ applied' = applied + 1
    /\ fdto' = o
    /\ delta' = fdt_get_max_phandle(fdt)
    /\ was' = [NotRun EXCEPT !.given = o, !.tree = TreeOf(fdt)]
    /\ With(IF fdt_check_header(fdt) # 0 THEN fdt_check_header(fdt) ELSE fdt_check_header(o),
            LAMBDA err : ret' = err /\ stage' = IF err # 0 THEN "start" ELSE "phandles")
    /\ UNCHANGED <<fdt, fragments>>

(* Faulty: the base keeps its magic when a step fails.                     *)
MagicKept(f) == f
MagicErased(f) == [f EXCEPT !.magic = "none"]

(* A step that leaves base and overlay so, with the value it returns; on   *)
(* an error both magics are erased.                                        *)
Step(base, overlay, err, next) ==
    /\ ret' = err
    /\ stage' = IF err < 0 THEN "start" ELSE next
    /\ fdt' = IF err < 0 THEN MagicErased(base) ELSE base
    /\ fdto' = IF err < 0 THEN [overlay EXCEPT !.magic = "none"] ELSE overlay

AdjustLocalPhandles ==
    /\ stage = "phandles"
    /\ With(overlay_adjust_node_phandles(fdto, 0, delta), LAMBDA r :
            Step(fdt, r.fdt, r.ret, "references"))
    /\ UNCHANGED <<delta, fragments, applied, was>>

UpdateLocalReferences(garbage) ==
    /\ stage = "references"
    /\ With(overlay_update_local_references(fdto, delta, garbage), LAMBDA r :
            Step(fdt, r.fdt, r.ret, "fixups"))
    /\ was' = [was EXCEPT !.garbage = garbage]
    /\ UNCHANGED <<delta, fragments, applied>>

FixupPhandles ==
    /\ stage = "fixups"
    /\ With(overlay_fixup_phandles(fdt, fdto), LAMBDA r :
            /\ Step(fdt, r.fdt, r.ret, "merge")
            /\ With(Subnodes(r.fdt, 0), LAMBDA subnodes :
               With(TreeOf(r.fdt), LAMBDA o :
                  /\ fragments' = subnodes
                  /\ was' = [was EXCEPT !.adjusted = o, !.plan = Merged(was.tree, o,
                                [i \in DOMAIN subnodes |-> fdt_get_name(r.fdt, subnodes[i])])])))
    /\ UNCHANGED <<delta, applied>>

Merge ==
    /\ stage = "merge" /\ fragments # << >>
    /\ With(MergeFragment(fdt, fdto, Head(fragments)), LAMBDA r :
            Step(r.fdt, fdto, r.ret, "merge"))
    /\ fragments' = Tail(fragments)
    /\ UNCHANGED <<delta, applied, was>>

Return ==
    /\ stage = "merge" /\ fragments = << >>
    /\ stage' = "start"
    /\ fdto' = [fdto EXCEPT !.magic = "none"]
    /\ UNCHANGED <<fdt, delta, fragments, ret, applied, was>>

Next ==
    \/ \E o \in Overlays : Apply(o)
    \/ AdjustLocalPhandles
    \/ \E garbage \in BOOLEAN : UpdateLocalReferences(garbage)
    \/ FixupPhandles
    \/ Merge
    \/ Return

Spec == Init /\ [][Next]_vars
-----------------------------------------------------------------------------
Returned == stage = "start" /\ applied > 0

(* A base that still has its magic has all of the overlay or nothing of    *)
(* it: an overlay merged in part, fragment by fragment and node by node,   *)
(* is never left in a base a reader would accept, and one merged whole is  *)
(* the union of both trees, whatever insertions have moved meanwhile.      *)
AllOrNothing ==
    Returned /\ fdt.magic = "FDT" => TreeOf(fdt) = IF ret = 0 THEN was.plan ELSE was.tree

(* The node of the base that a node of a fragment is merged into           *)
Images(o, p) ==
    IF Len(p) < 2 \/ p[2] # OVERLAY THEN {}
    ELSE {at \o SubSeq(p, 3, Len(p)) : at \in Targets(was.tree, was.adjusted[<<p[1]>>])}

(* After any number of overlays no two nodes of the base have the same     *)
(* phandle, and none has the value that stands for "none".  References     *)
(* lead where they led: a word that __local_fixups__ lists and             *)
(* that held the phandle of a node of the overlay now holds the phandle of *)
(* that node in the base, unless the overlay has only linux,phandle for it *)
(* and the base has phandle, which hides it; a word that __fixups__ lists  *)
(* holds the phandle of the node with that label, unless the overlay       *)
(* itself has given that node another phandle.                             *)
ReferencesFollow ==
    /\ Returned /\ fdt.magic = "FDT" => With(TreeOf(fdt), LAMBDA t :
         \A p, q \in DOMAIN t : PhandleOf(t[p]) # 0 =>
            /\ PhandleOf(t[p]) # WORDMOD - 1
            /\ PhandleOf(t[p]) = PhandleOf(t[q]) => p = q)
    /\ Returned /\ ret = 0 =>
      With(TreeOf(fdt), LAMBDA t : With(TreeOf(was.given), LAMBDA o :
      /\ \A q \in {r \in DOMAIN o : IsPrefix(<<LOCAL_FIXUPS>>, r)} : \A n \in DOMAIN o[q] :
         \A i \in 0..(Len(o[q][n]) \div TAGSIZE - 1) :
            LET p == Tail(q)
                at == WordOf(o[q][n], i * TAGSIZE)
            IN  \A y \in {z \in DOMAIN o : PhandleOf(o[z]) = WordOf(o[p][n], at)} :
                \A pi \in Images(o, p), yi \in Images(o, y) :
                    PHANDLE \in DOMAIN o[y] \/ PHANDLE \notin DOMAIN t[yi]
                      => WordOf(t[pi][n], at) = PhandleOf(t[yi])
      /\ \A label \in DOMAIN PropOr(o, <<FIXUPS>>, << >>) :
         \A str \in StringsIn(o[<<FIXUPS>>][label]) :
            LET node == NamesIn(was.tree[<<SYMBOLS>>][label])
            IN  \A pi \in Images(o, Names(Parts(str).path)) :
                    PhandleOf(t[node]) = PhandleOf(was.tree[node])
                      => WordOf(t[pi][Parts(str).name], Number(Parts(str).digits))
                           = PhandleOf(t[node])))

(* An overlay that is structured properly is refused only for want of      *)
(* space or of phandles, or because the base has been damaged before -     *)
(* unless the unset ret of overlay_update_local_node_references happens to *)
(* be -FDT_ERR_NOTFOUND.                                                   *)
RejectedOnlyIfBad ==
    Returned /\ was.given \in Good /\ ~was.garbage =>
        ret \in {0, -NOSPACE, -NOPHANDLES, -BADMAGIC}
=============================================================================

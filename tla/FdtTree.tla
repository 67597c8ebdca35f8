------------------------------ MODULE FdtTree ------------------------------
(***************************************************************************)
(* What the writers of lib/libfdt promise: a device tree is a map from     *)
(* paths to properties, and a list of reserved memory.  Each call changes  *)
(* one node or property, or fails and changes nothing.                     *)
(***************************************************************************)
EXTENDS Integers, Sequences, SequencesExt, TLC

CONSTANTS NodeNames, PropNames, Values, Reservations,
          Initial   \* the <<tree, reserve map>> one may start with

VARIABLES tree,   \* path of a node -> name of a property -> value
          rsv     \* the reserve map: <<address, size>>

vars == <<tree, rsv>>

Nothing == << >>          \* the function without arguments
(* The new place of a node when a node above it, or it, gets a new name    *)
Renamed(q, p, n) == IF IsPrefix(p, q) THEN [q EXCEPT ![Len(p)] = n] ELSE q

Init == <<tree, rsv>> \in Initial

Plant == tree = Nothing /\ tree' = << >> :> Nothing

AddNode(p, n) ==
    /\ p \in DOMAIN tree /\ Append(p, n) \notin DOMAIN tree
    /\ tree' = tree @@ (Append(p, n) :> Nothing)

DelNode(p) ==
    tree' = [q \in {r \in DOMAIN tree : ~IsPrefix(p, r)} |-> tree[q]]

SetName(p, n) ==
    /\ p # << >>
    /\ tree' = [r \in {Renamed(q, p, n) : q \in DOMAIN tree} |->
                   tree[CHOOSE q \in DOMAIN tree : Renamed(q, p, n) = r]]

SetProp(p, name, val) == tree' = [tree EXCEPT ![p] = (name :> val) @@ @]

AppendProp(p, name, val) ==
    /\ name \in DOMAIN tree[p]
    /\ tree' = [tree EXCEPT ![p][name] = @ \o val]

DelProp(p, name) ==
    tree' = [tree EXCEPT ![p] = [m \in DOMAIN @ \ {name} |-> @[m]]]

Edit ==
    /\ \/ Plant
       \/ \E p \in DOMAIN tree :
             \/ DelNode(p)
             \/ \E n \in NodeNames : AddNode(p, n) \/ SetName(p, n)
             \/ \E name \in PropNames :
                   \/ DelProp(p, name)
                   \/ \E val \in Values : SetProp(p, name, val) \/ AppendProp(p, name, val)
    /\ UNCHANGED rsv

Reserve ==
    /\ \/ \E r \in Reservations : rsv' = Append(rsv, r)
       \/ \E i \in DOMAIN rsv : rsv' = RemoveAt(rsv, i)
    /\ UNCHANGED tree

Next == Edit \/ Reserve

Spec == Init /\ [][Next]_vars
=============================================================================

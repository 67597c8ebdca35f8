----------------------------- MODULE Virtqueue -----------------------------
(***************************************************************************)
(* The split virtqueue of drivers/virtio/virtqueue.rs.  The driver uses    *)
(* descriptor 0 only, so that a queue is its three indices: avail (written *)
(* by the driver), used (written by the device, which takes buffers in     *)
(* order) and seen, the driver's last_seen_used.  Indices are unsigned     *)
(* integers that wrap around.                                              *)
(***************************************************************************)
EXTENDS Integers

CONSTANT IdxMod   \* the number of values of an index (2^16 in the code)

ASSUME IdxAssumption == IdxMod \in Nat /\ IdxMod > 1

Idx == 0..(IdxMod - 1)
(* Virtqueue::new.                                                         *)
EmptyQueue == [avail |-> 0, used |-> 0, seen |-> 0]

NextIdx(i) == (i + 1) % IdxMod
Gap(to, from) == (to - from + IdxMod) % IdxMod

(* add_buf: write descriptor 0, put it in the available ring.              *)
AddBuf(v) == [v EXCEPT !.avail = NextIdx(@)]

(* The device returns the oldest available buffer.                         *)
UseBuf(v) == [v EXCEPT !.used = NextIdx(@)]

(* advance_last_seen_used, once for every used buffer recv finds.          *)
AdvanceToUsed(v) == [v EXCEPT !.seen = v.used]

Posted(v) == Gap(v.avail, v.used)   \* buffers the device may use
Unseen(v) == Gap(v.used, v.seen)    \* used buffers recv has not looked at
=============================================================================

--------------------------- MODULE BufferCustody ---------------------------
(***************************************************************************)
(* What the driver, the process and the device agree on about a page that  *)
(* packets are received in: it goes round from the device to the driver,   *)
(* to the process and by a command back to the device, and only the device *)
(* writes to it, while the page is its.  A packet that nobody listens for  *)
(* ends the round.                                                         *)
(***************************************************************************)
VARIABLES owner,   \* whose the page is
          page     \* what is in it

CustodyInit == owner = "device"

Pass(from, to) == owner = from /\ owner' = to

Fill == Pass("device", "driver")
Announce == Pass("driver", "process") /\ UNCHANGED page
Strand == Pass("driver", "nobody") /\ UNCHANGED page
GiveBack == Pass("process", "command") /\ UNCHANGED page
Repost == Pass("command", "device") /\ UNCHANGED page

CustodyNext == Fill \/ Announce \/ Strand \/ GiveBack \/ Repost

CustodySpec == CustodyInit /\ [][CustodyNext]_<<owner, page>>
=============================================================================

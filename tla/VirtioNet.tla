----------------------------- MODULE VirtioNet -----------------------------
(***************************************************************************)
(* The Ethernet driver of drivers/virtio/net.rs with the device it drives  *)
(* and the two rings it shares with a process: the event queue (kernel to  *)
(* process) and the I/O queue (process to kernel).  A ring is a bounded    *)
(* queue; AtomicRingBuffer implements it.                                  *)
(*                                                                         *)
(* The driver has one page for received and one for transmitted packets.   *)
(* The device works concurrently with everything; recv runs in an          *)
(* interrupt handler, with interrupts disabled, wherever the CPU was.      *)
(***************************************************************************)
EXTENDS Virtqueue, Sequences, FiniteSets

CONSTANTS Empty,       \* the content of a page nothing was written to
          EventLimit,  \* capacity of the event queue
          IoLimit      \* capacity of the I/O queue

ASSUME LimitAssumption == EventLimit \in Nat \ {0} /\ IoLimit \in Nat \ {0}

VARIABLES vqs,         \* the receive and the transmit virtqueue
          rxPage,      \* what the device last wrote to the receive page
          txPage,      \* what process_io_one last copied to the transmit page
          irq,         \* the device has raised an interrupt
          rxBufferAddr,\* rx_buffer_addr is Some
          listeners,   \* the number of listeners of the notifier
          events,      \* the event queue: the packet each event is about
          ioQueue,     \* the I/O queue
          owed,        \* the packets handed to the device, as submitted
          stranded     \* the receive page was used before anyone listened

netVars == <<vqs, rxPage, txPage, irq, rxBufferAddr, listeners, events,
             ioQueue, owed, stranded>>

Submit(b) == [opcode |-> "Submit", buf |-> b]
Complete == [opcode |-> "Complete"]

(* The state probe leaves: the receive page is posted, nobody listens.     *)
NetInit ==
    /\ vqs = [rx |-> AddBuf(EmptyQueue), tx |-> EmptyQueue]
    /\ rxPage = Empty /\ txPage = Empty
    /\ irq = FALSE
    /\ rxBufferAddr = FALSE /\ listeners = 0
    /\ events = << >> /\ ioQueue = << >>
    /\ owed = << >> /\ stranded = FALSE

(* A ring's emplace, whose result neither EventQueue::emplace nor          *)
(* __io_queue_append looks at.                                             *)
PutIfRoom(q, x, limit) == IF Len(q) < limit THEN Append(q, x) ELSE q
-----------------------------------------------------------------------------
(* The device writes a packet to the posted page and interrupts; packets   *)
(* that find no posted page are dropped by the device.                     *)
DeviceReceive(p) ==
    /\ Posted(vqs.rx) > 0
    /\ vqs' = [vqs EXCEPT !.rx = UseBuf(@)]
    /\ rxPage' = p
    /\ irq' = TRUE
    /\ UNCHANGED <<txPage, rxBufferAddr, listeners, events, ioQueue, owed, stranded>>

(* The device sends what it finds in the transmit page.                    *)
DeviceTransmit ==
    /\ Posted(vqs.tx) > 0
    /\ vqs' = [vqs EXCEPT !.tx = UseBuf(@)]
    /\ owed' = Tail(owed)
    /\ UNCHANGED <<rxPage, txPage, irq, rxBufferAddr, listeners, events, ioQueue, stranded>>

(* n copies of an event, one for each listener (EventNotifier::on_event).  *)
Notify(q, p, n) ==
    LET after[k \in 0..n] ==
          IF k = 0 THEN q ELSE PutIfRoom(after[k - 1], p, EventLimit)
    IN  after[n]

(* Faulty: the notification names the page again for each interrupt,       *)
(* because last_seen_used does not advance.                                *)
InterruptNotAdvancing ==
    /\ irq
    /\ irq' = FALSE
    /\ UNCHANGED vqs
    /\ events' = IF rxBufferAddr /\ Unseen(vqs.rx) > 0
                 THEN Notify(events, rxPage, listeners) ELSE events
    /\ stranded' = (stranded \/ (~rxBufferAddr /\ Unseen(vqs.rx) > 0))
    /\ UNCHANGED <<rxPage, txPage, rxBufferAddr, listeners, ioQueue, owed>>

(* Faulty: the handler posts the page again itself.                        *)
InterruptReposts ==
    /\ irq
    /\ irq' = FALSE
    /\ vqs' = [vqs EXCEPT !.rx = AddBuf(AdvanceToUsed(@))]
    /\ events' = IF rxBufferAddr
                 THEN Notify(events, rxPage, listeners * Unseen(vqs.rx))
                 ELSE events
    /\ UNCHANGED <<rxPage, txPage, rxBufferAddr, listeners, ioQueue, owed, stranded>>

(* interrupt and recv: an event for every used buffer not seen before, if  *)
(* the receive page has been mapped to a process.  The page is not posted  *)
(* again here.                                                             *)
Interrupt ==
    /\ irq
    /\ irq' = FALSE
    /\ vqs' = [vqs EXCEPT !.rx = AdvanceToUsed(@)]
    /\ events' = IF rxBufferAddr
                 THEN Notify(events, rxPage, listeners * Unseen(vqs.rx))
                 ELSE events
    /\ stranded' = (stranded \/ (~rxBufferAddr /\ Unseen(vqs.rx) > 0))
    /\ UNCHANGED <<rxPage, txPage, rxBufferAddr, listeners, ioQueue, owed>>
-----------------------------------------------------------------------------
(* acquire, in the three steps an interrupt can see.                       *)
AddListener ==
    /\ listeners' = listeners + 1
    /\ UNCHANGED <<vqs, rxPage, txPage, irq, rxBufferAddr, events, ioQueue, owed, stranded>>

SetRxBufferAddr ==
    /\ rxBufferAddr' = TRUE
    /\ UNCHANGED <<vqs, rxPage, txPage, irq, listeners, events, ioQueue, owed, stranded>>

(* IOQueue::new starts with an empty ring.                                 *)
SetIoQueue ==
    /\ ioQueue' = << >>
    /\ UNCHANGED <<vqs, rxPage, txPage, irq, rxBufferAddr, listeners, events, owed, stranded>>

(* process_io_one for a Complete command: post the receive page again.     *)
ProcessComplete ==
    /\ ioQueue # << >>
    /\ Head(ioQueue).opcode = "Complete"
    /\ ioQueue' = Tail(ioQueue)
    /\ vqs' = [vqs EXCEPT !.rx = AddBuf(@)]
    /\ UNCHANGED <<rxPage, txPage, irq, rxBufferAddr, listeners, events, owed, stranded>>

(* ... and for a Submit command: copy the process's buffer (content gives  *)
(* what is in it now) to the transmit page; then post that.                *)
ProcessSubmit(content) ==
    /\ ioQueue # << >>
    /\ Head(ioQueue).opcode = "Submit"
    /\ ioQueue' = Tail(ioQueue)
    /\ txPage' = content[Head(ioQueue).buf]
    /\ UNCHANGED <<vqs, rxPage, irq, rxBufferAddr, listeners, events, owed, stranded>>

PostTransmit ==
    /\ vqs' = [vqs EXCEPT !.tx = AddBuf(@)]
    /\ owed' = Append(owed, txPage)
    /\ UNCHANGED <<rxPage, txPage, irq, rxBufferAddr, listeners, events, ioQueue, stranded>>
=============================================================================

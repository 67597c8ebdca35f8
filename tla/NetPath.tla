------------------------------ MODULE NetPath ------------------------------
(***************************************************************************)
(* A packet's way through the system: the device, the interrupt handler,   *)
(* the event queue, epoll_wait of usr/liblinux in the echo server, the I/O *)
(* queue, process_io and the device again.  One process runs, as           *)
(* initrd_load spawns one; its CPU is in user mode, in a system call, in   *)
(* the idle task or halted, which pc says.                                 *)
(***************************************************************************)
EXTENDS VirtioNet

CONSTANTS Clients,     \* the hosts that send packets
          Data,        \* the payloads of their datagrams
          MaxEvents,   \* echod's maxevents
          MaxFrames,   \* bound: frames net_input finds in one packet
          MaxOwed      \* bound: replies not yet sent when a packet comes in

ASSUME PathAssumption == /\ {MaxEvents, MaxFrames, MaxOwed} \subseteq Nat \ {0}
                         /\ MaxOwed + MaxFrames < IdxMod

(* A page of 24-byte commands holds more of them than a packet of at most  *)
(* 1514 bytes has frames, each of which has a header of 14.                *)
ASSUME RoomAssumption == MaxFrames < IoLimit

VARIABLES pc,          \* where the only process is
          parsed,      \* frames of the packet net_input has gone through
          ret,         \* net_input has found a datagram in the packet
          nr,          \* events epoll_wait reported, not yet handled by echo
          skBuffer,    \* the rx_buffer of echod's socket
          txBufs,      \* arp_reply's and udp_sendto's static buffers
          arpCache,    \* the clients in __liblinux_arp_cache
          answered     \* the clients that have received an ARP reply

procVars == <<pc, parsed, ret, nr, skBuffer, txBufs, arpCache, answered>>
vars == <<netVars, procVars>>

(* What net_input_one, arp_input and ip_input tell apart: a datagram for   *)
(* the bound port, one that fails an assertion (no socket is bound to its  *)
(* port, or its length is more than what was received), an ARP request,    *)
(* and all that is dropped.  net_input goes on with what follows a frame   *)
(* it has handled (and with the body of an ARP or dropped IP packet, which *)
(* nothing skips) as if it were another frame: a packet is a sequence.     *)
ArpRequests == [kind: {"arp"}, from: Clients]
Datagrams == [kind: {"udp"}, from: Clients, data: Data]
Refused == [kind |-> "refused"]
Dropped == [kind |-> "dropped"]
Frames == ArpRequests \union Datagrams \union {Refused, Dropped}
Packets == UNION {[1..n -> Frames] : n \in 1..MaxFrames}

ArpReply(p) == [kind |-> "arpReply", to |-> p.from]
UdpReply(p) == [kind |-> "udpReply", to |-> p.from, data |-> p.data]
Init ==
    /\ NetInit
    /\ pc = "acquire" /\ nr = 0
    /\ parsed = 0 /\ ret = FALSE
    /\ skBuffer = Empty
    /\ txBufs = [arp |-> Empty, udp |-> Empty]
    /\ arpCache = {} /\ answered = {}

Goto(from, to) == pc = from /\ pc' = to
-----------------------------------------------------------------------------
(* acquire("/dev/eth"): the driver's acquire, interruptible between its    *)
(* steps; allocate or populate may fail, and then __liblinux_setup's       *)
(* assertion ends the process, and sys_exit the kernel.                    *)
Acquire ==
    /\ Goto("acquire", "map")
    /\ AddListener
    /\ UNCHANGED <<parsed, ret, nr, skBuffer, txBufs, arpCache, answered>>

AcquireMap ==
    /\ Goto("map", "ioqueue")
    /\ SetRxBufferAddr
    /\ UNCHANGED <<parsed, ret, nr, skBuffer, txBufs, arpCache, answered>>

AcquireIoQueue ==
    /\ Goto("ioqueue", "wait")
    /\ SetIoQueue
    /\ UNCHANGED <<parsed, ret, nr, skBuffer, txBufs, arpCache, answered>>

AcquireFails ==
    /\ pc \in {"map", "ioqueue"}
    /\ pc' = "panicked"
    /\ UNCHANGED <<netVars, parsed, ret, nr, skBuffer, txBufs, arpCache, answered>>
-----------------------------------------------------------------------------
(* wait(): process_io performs every queued command, then the process      *)
(* gives the CPU to the idle task, which halts it.                         *)
WaitComplete ==
    /\ pc = "wait"
    /\ ProcessComplete
    /\ UNCHANGED procVars

WaitSubmit ==
    /\ Goto("wait", "post")
    /\ ProcessSubmit(txBufs)
    /\ UNCHANGED <<parsed, ret, nr, skBuffer, txBufs, arpCache, answered>>

WaitPost ==
    /\ Goto("post", "wait")
    /\ PostTransmit
    /\ UNCHANGED <<parsed, ret, nr, skBuffer, txBufs, arpCache, answered>>

(* Faulty: process_io may leave the last command in the queue.             *)
WaitSleepEarly ==
    /\ Goto("wait", "idle")
    /\ Len(ioQueue) <= 1
    /\ UNCHANGED <<netVars, parsed, ret, nr, skBuffer, txBufs, arpCache, answered>>

WaitSleep ==
    /\ Goto("wait", "idle")
    /\ ioQueue = << >>
    /\ UNCHANGED <<netVars, parsed, ret, nr, skBuffer, txBufs, arpCache, answered>>

Halt ==
    /\ Goto("idle", "halted")
    /\ UNCHANGED <<netVars, parsed, ret, nr, skBuffer, txBufs, arpCache, answered>>
-----------------------------------------------------------------------------
(* An interrupt ends the halt: idle wakes the process, whose wait returns. *)
Resume == pc' = IF pc = "halted" THEN "poll" ELSE pc

NetInterrupt ==
    /\ pc # "panicked"
    /\ Interrupt
    /\ Resume
    /\ UNCHANGED <<parsed, ret, nr, skBuffer, txBufs, arpCache, answered>>

TimerInterrupt ==
    /\ pc = "halted"
    /\ Resume
    /\ UNCHANGED <<netVars, parsed, ret, nr, skBuffer, txBufs, arpCache, answered>>
-----------------------------------------------------------------------------
(* epoll_wait's loop: net_input parses the packet the oldest event is      *)
(* about, completes the event's buffer, and the event is popped.           *)
NetInput ==
    /\ Goto("poll", "input")
    /\ events # << >> /\ nr < MaxEvents
    /\ UNCHANGED <<netVars, parsed, ret, nr, skBuffer, txBufs, arpCache, answered>>

InputDone == parsed = Len(rxPage)
Frame == rxPage[parsed + 1]

NetInputOne(kind) ==
    /\ pc = "input" /\ ~InputDone
    /\ Frame.kind = kind
    /\ parsed' = parsed + 1

(* Faulty: the reply goes out before the sender is in the cache.           *)
InputArpNoInsert ==
    /\ NetInputOne("arp")
    /\ txBufs' = [txBufs EXCEPT !.arp = ArpReply(Frame)]
    /\ ioQueue' = PutIfRoom(ioQueue, Submit("arp"), IoLimit)
    /\ UNCHANGED <<vqs, rxPage, txPage, irq, rxBufferAddr, listeners, events,
                   owed, stranded, pc, ret, nr, skBuffer, arpCache, answered>>

InputArp ==
    /\ NetInputOne("arp")
    /\ arpCache' = arpCache \union {Frame.from}
    /\ txBufs' = [txBufs EXCEPT !.arp = ArpReply(Frame)]
    /\ ioQueue' = PutIfRoom(ioQueue, Submit("arp"), IoLimit)
    /\ UNCHANGED <<vqs, rxPage, txPage, irq, rxBufferAddr, listeners, events,
                   owed, stranded, pc, ret, nr, skBuffer, answered>>

(* socket_input overwrites what the socket held.                           *)
InputDatagram ==
    /\ NetInputOne("udp")
    /\ skBuffer' = Frame
    /\ ret' = TRUE
    /\ UNCHANGED <<netVars, pc, nr, txBufs, arpCache, answered>>

InputDropped ==
    /\ NetInputOne("dropped")
    /\ UNCHANGED <<netVars, pc, ret, nr, skBuffer, txBufs, arpCache, answered>>

(* An assertion of udp_input or packet_view_trim fails.                    *)
InputRefused ==
    /\ NetInputOne("refused")
    /\ pc' = "panicked"
    /\ UNCHANGED <<netVars, ret, nr, skBuffer, txBufs, arpCache, answered>>

(* Faulty: only a packet with a datagram is completed.                     *)
IoCompleteIfReported ==
    /\ Goto("input", "pop")
    /\ InputDone
    /\ ioQueue' = IF ret THEN PutIfRoom(ioQueue, Complete, IoLimit) ELSE ioQueue
    /\ nr' = IF ret THEN nr + 1 ELSE nr
    /\ UNCHANGED <<vqs, rxPage, txPage, irq, rxBufferAddr, listeners, events,
                   owed, stranded, parsed, ret, skBuffer, txBufs, arpCache, answered>>

(* io_complete at the end of net_input; epoll_wait reports one event for a *)
(* packet with datagrams, however many they are.                           *)
IoComplete ==
    /\ Goto("input", "pop")
    /\ InputDone
    /\ ioQueue' = PutIfRoom(ioQueue, Complete, IoLimit)
    /\ nr' = IF ret THEN nr + 1 ELSE nr
    /\ UNCHANGED <<vqs, rxPage, txPage, irq, rxBufferAddr, listeners, events,
                   owed, stranded, parsed, ret, skBuffer, txBufs, arpCache, answered>>

PopEvent ==
    /\ Goto("pop", "poll")
    /\ events' = Tail(events)
    /\ parsed' = 0 /\ ret' = FALSE
    /\ UNCHANGED <<vqs, rxPage, txPage, irq, rxBufferAddr, listeners, ioQueue,
                   owed, stranded, nr, skBuffer, txBufs, arpCache, answered>>

PollDone ==
    /\ Goto("poll", "echo")
    /\ events = << >> \/ nr >= MaxEvents
    /\ UNCHANGED <<netVars, parsed, ret, nr, skBuffer, txBufs, arpCache, answered>>
-----------------------------------------------------------------------------
(* echo, once for each event: recvfrom reads the socket's buffer, sendto   *)
(* looks the sender up (and asserts that it is found), builds the reply in *)
(* its static buffer and submits it.                                       *)
Echo ==
    /\ pc = "echo" /\ nr > 0
    /\ IF skBuffer.from \in arpCache
       THEN /\ txBufs' = [txBufs EXCEPT !.udp = UdpReply(skBuffer)]
            /\ ioQueue' = PutIfRoom(ioQueue, Submit("udp"), IoLimit)
            /\ nr' = nr - 1
            /\ UNCHANGED pc
       ELSE pc' = "panicked" /\ UNCHANGED <<txBufs, ioQueue, nr>>
    /\ UNCHANGED <<vqs, rxPage, txPage, irq, rxBufferAddr, listeners, events,
                   owed, stranded, parsed, ret, skBuffer, arpCache, answered>>

(* Faulty: the loop over the events ends one too early.                    *)
EchoDoneEarly ==
    /\ Goto("echo", "wait")
    /\ nr <= 1 /\ nr' = 0
    /\ UNCHANGED <<netVars, parsed, ret, skBuffer, txBufs, arpCache, answered>>

EchoDone ==
    /\ Goto("echo", "wait")
    /\ nr = 0
    /\ UNCHANGED <<netVars, parsed, ret, nr, skBuffer, txBufs, arpCache, answered>>
-----------------------------------------------------------------------------
(* The network.  A client resolves the server's address before it sends    *)
(* it datagrams, and what net_input takes for a datagram is one.  MaxOwed  *)
(* bounds how far the device's transmission is behind its reception.       *)
Receive(p) ==
    /\ \A i \in DOMAIN p : p[i].kind = "udp" => p[i].from \in answered
    /\ Len(owed) < MaxOwed
    /\ DeviceReceive(p)
    /\ UNCHANGED procVars

Transmit ==
    /\ DeviceTransmit
    /\ answered' = IF txPage.kind = "arpReply"
                   THEN answered \union {txPage.to} ELSE answered
    /\ UNCHANGED <<pc, parsed, ret, nr, skBuffer, txBufs, arpCache>>
-----------------------------------------------------------------------------
Process == \/ Acquire \/ AcquireMap \/ AcquireIoQueue \/ AcquireFails
           \/ WaitComplete \/ WaitSubmit \/ WaitPost \/ WaitSleep \/ Halt
           \/ NetInput \/ InputArp \/ InputDatagram \/ InputDropped \/ InputRefused
           \/ IoComplete \/ PopEvent \/ PollDone \/ Echo \/ EchoDone

Next == \/ Process
        \/ NetInterrupt
        \/ TimerInterrupt
        \/ Transmit
        \/ \E p \in Packets : Receive(p)

Spec == Init /\ [][Next]_vars

(* The CPU executes instructions, a raised interrupt is delivered, and the *)
(* local APIC's timer is periodic.                                         *)
Fairness == /\ WF_vars(Process)
            /\ WF_vars(NetInterrupt)
            /\ WF_vars(TimerInterrupt)

FairSpec == Spec /\ Fairness
-----------------------------------------------------------------------------
LastDatagram(packet) ==
    LET at == {i \in DOMAIN packet : packet[i].kind = "udp"}
    IN  IF at = {} THEN Empty ELSE packet[CHOOSE i \in at : \A j \in at : j <= i]

Completes == Cardinality({i \in DOMAIN ioQueue : ioQueue[i] = Complete})
EventsToComplete == Len(events) - (IF pc = "pop" THEN 1 ELSE 0)

(* The driver's only receive buffer is never lost and never in two places: *)
(* it is posted to the device, used but not seen by recv, named by an      *)
(* event that epoll_wait has not completed, named by a Complete command in *)
(* the I/O queue, or stranded by recv's skipped notification (a packet     *)
(* that arrives before acquire has set rx_buffer_addr).                    *)
RxBufferConserved ==
    Posted(vqs.rx) + Unseen(vqs.rx) + EventsToComplete + Completes
      + (IF stranded THEN 1 ELSE 0) = 1

(* Whose the receive page is.                                              *)
Owner == CASE Posted(vqs.rx) > 0   -> "device"
           [] Unseen(vqs.rx) > 0   -> "driver"
           [] EventsToComplete > 0 -> "process"
           [] Completes > 0        -> "command"
           [] OTHER                -> "nobody"
ReceivePage == INSTANCE BufferCustody WITH owner <- Owner, page <- rxPage

(* The receive page goes round in one order only: the device fills it,     *)
(* recv announces it, net_input gives it back with a Complete command, and *)
(* process_io posts it.  Nothing skips a station, whatever interrupts      *)
(* what, and what is in the page changes only when the device fills it.    *)
ImplementsCustody == ReceivePage!CustodySpec

(* While an event is in the event queue the receive page holds the packet  *)
(* the event was raised for: the device does not overwrite, under the      *)
(* parser's hands, a page net_input has not yet completed.                 *)
EventDescribesPage ==
    \A i \in DOMAIN events : rxPage = events[i]

(* Wherever the process appends a command, the I/O queue has room for it,  *)
(* although __io_queue_append ignores a full ring: one entry more than a   *)
(* packet has frames is enough.                                            *)
RoomForCommands ==
    \/ pc = "input" /\ (InputDone \/ Frame.kind = "arp")
    \/ pc = "echo" /\ nr > 0
    => Len(ioQueue) < IoLimit

(* udp_sendto's assertion that the destination is in the ARP cache holds   *)
(* for every datagram that is echoed.                                      *)
SenderIsResolved ==
    pc = "echo" /\ nr > 0 => skBuffer.from \in arpCache

(* The server does not go deaf: unless the receive page was stranded, or   *)
(* the kernel panicked, the device gets the page back again and again,     *)
(* whatever the order of interrupts, system calls and halts.               *)
ReceptionContinues ==
    []<>(Posted(vqs.rx) > 0 \/ stranded \/ pc = "panicked")

(* The last datagram of a packet that an event announces is answered: its  *)
(* echo reaches the transmit page, unless the kernel panics.               *)
DatagramIsEchoed ==
    \A p \in Datagrams :
        (events # << >> /\ pc # "pop" /\ p = LastDatagram(rxPage))
          ~> (txPage = UdpReply(p) \/ pc = "panicked")

(* What kernel/ioqueue.rs promises of a submitted command: the kernel      *)
(* performs it asynchronously.  The device must send what was submitted,   *)
(* not what a later command has written to the only transmit page.         *)
SubmittedIsTransmitted ==
    [][DeviceTransmit => txPage = Head(owed)]_vars
=============================================================================

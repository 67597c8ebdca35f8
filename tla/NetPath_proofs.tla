--------------------------- MODULE NetPath_proofs ---------------------------
(***************************************************************************)
(* The invariants of the packet path, for every number of clients, size of *)
(* the rings, width of the virtqueue indices and length of a packet.       *)
(***************************************************************************)
EXTENDS NetPath, FiniteSetTheorems, SequenceTheorems, TLAPS

Queues == [avail: Idx, used: Idx, seen: Idx]
Commands == {Complete, Submit("arp"), Submit("udp")}

PathTypeOK ==
    /\ vqs \in [rx: Queues, tx: Queues]
    /\ irq \in BOOLEAN /\ stranded \in BOOLEAN /\ ret \in BOOLEAN
    /\ rxBufferAddr \in BOOLEAN
    /\ events \in Seq(Packets)
    /\ ioQueue \in Seq(Commands)
    /\ nr \in Nat /\ parsed \in Nat
    /\ pc \in {"acquire", "map", "ioqueue", "wait", "post", "idle", "halted",
               "poll", "input", "pop", "echo", "panicked"}
    /\ DOMAIN txBufs = {"arp", "udp"}

(* Before acquire nobody listens; recv notifies nobody until the receive   *)
(* page is mapped, and then there is exactly one listener.                 *)
OneListener ==
    /\ pc = "acquire" => listeners = 0 /\ ~rxBufferAddr
    /\ rxBufferAddr => listeners = 1
    /\ pc = "map" => listeners = 1

(* The five places of the receive buffer.  Between io_complete and pop the *)
(* event is still in the queue, but its buffer is the command's.           *)
NoComplete == \A i \in DOMAIN ioQueue : ioQueue[i] # Complete
OneComplete == \E k \in DOMAIN ioQueue :
                 /\ ioQueue[k] = Complete
                 /\ \A i \in DOMAIN ioQueue : ioQueue[i] = Complete => i = k
NoEvent == events = << >> /\ pc # "pop"
AllSeen == vqs.rx.avail = vqs.rx.used /\ vqs.rx.used = vqs.rx.seen

AtDevice == /\ vqs.rx.avail = NextIdx(vqs.rx.used) /\ vqs.rx.used = vqs.rx.seen
            /\ NoEvent /\ NoComplete /\ ~stranded
AtRecv == /\ vqs.rx.avail = vqs.rx.used /\ vqs.rx.used = NextIdx(vqs.rx.seen)
          /\ NoEvent /\ NoComplete /\ ~stranded
InEvent == AllSeen /\ Len(events) = 1 /\ pc # "pop" /\ NoComplete /\ ~stranded
InCommand == /\ AllSeen /\ OneComplete /\ ~stranded
             /\ Len(events) = IF pc = "pop" THEN 1 ELSE 0
IsStranded == AllSeen /\ NoEvent /\ NoComplete /\ stranded

BufferPlace == \/ AtDevice \/ AtRecv \/ InEvent \/ InCommand \/ IsStranded

(* How many commands a round of epoll_wait, echo and wait has queued: one  *)
(* for each frame, a Complete, and one more datagram's reply only where a  *)
(* frame was a datagram and so no ARP request.                             *)
CommandBudget ==
    /\ pc \in {"acquire", "map", "ioqueue", "idle", "halted"} => ioQueue = << >>
    /\ pc = "poll" => (ioQueue = << >> /\ nr = 0) \/ ~NoComplete
    /\ pc \in {"poll", "pop", "echo"} => Len(ioQueue) + nr <= MaxFrames + 1
    /\ pc = "input" => /\ events # << >>
                       /\ Len(ioQueue) + (IF ret THEN 1 ELSE 0) <= parsed
                       /\ parsed <= Len(rxPage)
    /\ pc \notin {"poll", "pop", "echo", "panicked"} => nr = 0
    /\ pc \notin {"input", "pop", "panicked"} => parsed = 0 /\ ~ret
    /\ pc = "pop" => (ret <=> nr > 0)

(* Who has been answered is in the ARP cache: what makes a client send its *)
(* datagrams is a reply that was built after the insertion.                *)
Resolved == [kind: {"udp"}, from: arpCache, data: Data]
Replies == [kind: {"arpReply"}, to: arpCache]
             \union [kind: {"udpReply"}, to: arpCache, data: Data]
Received == /\ rxPage \in Packets
            /\ \A i \in DOMAIN rxPage :
                 rxPage[i].kind = "udp" => rxPage[i].from \in answered

AnsweredInCache ==
    /\ answered \subseteq arpCache
    /\ vqs.rx.used # vqs.rx.seen \/ events # << >> => Received
    /\ ret \/ nr > 0 => skBuffer \in Resolved
    /\ \A b \in {"arp", "udp"}, i \in DOMAIN ioQueue :
         ioQueue[i] = Submit(b) => txBufs[b] \in Replies
    /\ pc = "post" \/ vqs.tx.avail # vqs.tx.used => txPage \in Replies

PathInv == /\ PathTypeOK /\ OneListener /\ BufferPlace /\ CommandBudget
           /\ AnsweredInCache /\ EventDescribesPage
-----------------------------------------------------------------------------
(* Indices modulo IdxMod: a queue with one buffer more has a gap of one.   *)
LEMMA NextIdxType ==
    ASSUME NEW i \in Idx
    PROVE  NextIdx(i) \in Idx /\ NextIdx(i) # i
<1>1. CASE i = IdxMod - 1
  <2>1. (i + 1) % IdxMod = 0
    BY <1>1, IdxAssumption
  <2> QED
    BY <1>1, <2>1, IdxAssumption DEF NextIdx, Idx
<1>2. CASE i # IdxMod - 1
  <2>1. i + 1 \in 0..(IdxMod - 1)
    BY <1>2, IdxAssumption DEF Idx
  <2>2. (i + 1) % IdxMod = i + 1
    BY <2>1, IdxAssumption
  <2> QED
    BY <2>1, <2>2, IdxAssumption DEF NextIdx, Idx
<1> QED
  BY <1>1, <1>2

LEMMA GapSame ==
    ASSUME NEW i \in Idx
    PROVE  Gap(i, i) = 0
<1>1. i - i + IdxMod = IdxMod /\ IdxMod % IdxMod = 0
  BY IdxAssumption DEF Idx
<1> QED
  BY <1>1 DEF Gap

LEMMA GapNext ==
    ASSUME NEW i \in Idx
    PROVE  Gap(NextIdx(i), i) = 1
<1>1. CASE i = IdxMod - 1
  <2>1. (i + 1) % IdxMod = 0 /\ 0 - i + IdxMod = 1 /\ 1 % IdxMod = 1
    BY <1>1, IdxAssumption
  <2> QED
    BY <2>1 DEF Gap, NextIdx
<1>2. CASE i # IdxMod - 1
  <2>1. i + 1 \in 0..(IdxMod - 1)
    BY <1>2, IdxAssumption DEF Idx
  <2>2. (i + 1) % IdxMod = i + 1
    BY <2>1, IdxAssumption
  <2>3. i + 1 - i + IdxMod = 1 + IdxMod /\ (1 + IdxMod) % IdxMod = 1
    BY IdxAssumption DEF Idx
  <2>4. NextIdx(i) = i + 1
    BY <2>2 DEF NextIdx
  <2> QED
    BY <2>3, <2>4, IdxAssumption DEF Gap, Idx
<1> QED
  BY <1>1, <1>2

(* The notifier with no and with one listener.                             *)
LEMMA NotifyNone ==
    ASSUME NEW q, NEW p
    PROVE  Notify(q, p, 0) = q
<1> DEFINE F(f) == [k \in 0..0 |-> IF k = 0 THEN q ELSE PutIfRoom(f[k - 1], p, EventLimit)]
<1> DEFINE g == [k \in 0..0 |-> q]
<1>1. g = F(g)
  OBVIOUS
<1> HIDE DEF g
<1> DEFINE after == CHOOSE f : f = F(f)
<1>2. after = F(after)
  BY <1>1
<1>3. after[0] = q
  BY <1>2
<1> QED
  BY <1>3 DEF Notify

LEMMA NotifyOne ==
    ASSUME NEW q, NEW p
    PROVE  Notify(q, p, 1) = PutIfRoom(q, p, EventLimit)
<1> DEFINE F(f) == [k \in 0..1 |-> IF k = 0 THEN q ELSE PutIfRoom(f[k - 1], p, EventLimit)]
<1> DEFINE g == [k \in 0..1 |-> IF k = 0 THEN q ELSE PutIfRoom(q, p, EventLimit)]
<1>1. g = F(g)
  <2>1. \A k \in 0..1 : k = 0 \/ k - 1 = 0
    OBVIOUS
  <2>2. g[0] = q
    OBVIOUS
  <2> QED
    BY <2>1, <2>2
<1> HIDE DEF g
<1> DEFINE after == CHOOSE f : f = F(f)
<1>2. after = F(after)
  BY <1>1
<1>3. after[0] = q /\ after[1] = PutIfRoom(after[0], p, EventLimit)
  <2>1. \A k \in 0..1 : after[k] = IF k = 0 THEN q ELSE PutIfRoom(after[k - 1], p, EventLimit)
    BY <1>2, Zenon
  <2> QED
    BY <2>1
<1> QED
  BY <1>3 DEF Notify
-----------------------------------------------------------------------------
LEMMA PacketType ==
    ASSUME NEW p \in Packets
    PROVE  /\ Len(p) \in 1..MaxFrames /\ p \in Seq(Frames)
           /\ DOMAIN p = 1..Len(p) /\ \A i \in 1..Len(p) : p[i] \in Frames
<1>1. PICK n \in 1..MaxFrames : p \in [1..n -> Frames]
  BY DEF Packets
<1>2. n \in Nat /\ n \in 1..MaxFrames
  BY PathAssumption
<1>3. p \in Seq(Frames) /\ Len(p) = n
  BY <1>1, <1>2
<1> QED
  BY <1>1, <1>2, <1>3

(* An event that epoll_wait has not completed is the only one, and holds   *)
(* the buffer.                                                             *)
LEMMA EventHolds ==
    ASSUME PathInv, events # << >>, pc # "pop"
    PROVE  InEvent
<1>1. Len(events) # 0
  BY DEF PathInv, PathTypeOK
<1> QED
  BY <1>1 DEF PathInv, BufferPlace, AtDevice, AtRecv, InEvent, InCommand,
              IsStranded, NoEvent

(* The steps of acquire, which touch neither the device nor the event.     *)
LEMMA AcquireStep ==
    ASSUME PathInv, Acquire \/ AcquireMap \/ AcquireIoQueue \/ AcquireFails
    PROVE  PathInv'
<1> USE DEF PathInv, Acquire, AcquireMap, AcquireIoQueue, AcquireFails, Goto,
            AddListener, SetRxBufferAddr, SetIoQueue, netVars
<1>1. PathTypeOK'
  <2>1. << >> \in Seq(Commands)
    OBVIOUS
  <2> QED
    BY <2>1, Zenon DEF PathTypeOK
<1>2. OneListener'
  BY DEF OneListener, PathTypeOK
<1>3. BufferPlace'
  BY DEF BufferPlace, AtDevice, AtRecv, InEvent, InCommand, IsStranded,
         NoEvent, AllSeen, NoComplete, OneComplete, CommandBudget
<1>4. CommandBudget'
  BY DEF CommandBudget, NoComplete
<1>5. AnsweredInCache'
  BY DEF AnsweredInCache, Received, Resolved, Replies
<1>6. EventDescribesPage'
  BY DEF EventDescribesPage
<1> QED
  BY <1>1, <1>2, <1>3, <1>4, <1>5, <1>6

(* Steps that only move the process from one place to another.             *)
LEMMA MoveStep ==
    ASSUME PathInv, WaitSleep \/ Halt \/ TimerInterrupt \/ NetInput \/ PollDone \/ EchoDone
    PROVE  PathInv'
<1> USE DEF PathInv
<1>0. /\ vqs' = vqs /\ rxPage' = rxPage /\ txPage' = txPage /\ irq' = irq
      /\ rxBufferAddr' = rxBufferAddr /\ listeners' = listeners /\ events' = events
      /\ ioQueue' = ioQueue /\ owed' = owed /\ stranded' = stranded
      /\ parsed' = parsed /\ ret' = ret /\ nr' = nr /\ skBuffer' = skBuffer
      /\ txBufs' = txBufs /\ arpCache' = arpCache /\ answered' = answered
  BY Zenon DEF WaitSleep, Halt, TimerInterrupt, NetInput, PollDone, EchoDone, netVars
<1>a. \/ pc = "wait" /\ pc' = "idle" /\ ioQueue = << >>
      \/ pc = "idle" /\ pc' = "halted"
      \/ pc = "halted" /\ pc' = "poll"
      \/ pc = "poll" /\ pc' = "input" /\ events # << >>
      \/ pc = "poll" /\ pc' = "echo"
      \/ pc = "echo" /\ pc' = "wait" /\ nr = 0
  BY Zenon DEF WaitSleep, Halt, TimerInterrupt, Resume, NetInput, PollDone, EchoDone, Goto
<1>1. PathTypeOK'
  BY <1>0, <1>a DEF PathTypeOK
<1>2. OneListener'
  BY <1>0, <1>a DEF OneListener
<1>3. BufferPlace'
  BY <1>0, <1>a, Zenon DEF BufferPlace, AtDevice, AtRecv, InEvent, InCommand, IsStranded,
                           NoEvent, AllSeen, NoComplete, OneComplete
<1>4. CommandBudget'
  <2>1. CASE pc = "poll" /\ pc' = "input" /\ events # << >>
    <3>1. InEvent
      BY <2>1, EventHolds, Zenon
    <3>2. ioQueue = << >> /\ nr = 0 /\ parsed = 0 /\ ~ret
      BY <2>1, <3>1, Zenon DEF CommandBudget, InEvent
    <3>3. rxPage \in Packets
      BY <2>1, Zenon DEF AnsweredInCache, Received
    <3>4. Len(rxPage) \in Nat
      BY ONLY <3>3, PacketType, PathAssumption
    <3>5. Len(ioQueue) + (IF ret THEN 1 ELSE 0) <= parsed /\ parsed <= Len(rxPage)
      BY ONLY <3>2, <3>4
    <3> QED
      BY ONLY <1>0, <2>1, <3>2, <3>5, Zenon DEF CommandBudget
  <2>2. CASE ~(pc = "poll" /\ pc' = "input" /\ events # << >>)
    <3>1. CommandBudget /\ nr \in Nat
      BY Zenon DEF PathTypeOK
    <3>2. pc = "halted" => Len(ioQueue) + nr <= MaxFrames + 1
      <4>1. MaxFrames \in Nat
        BY PathAssumption
      <4> QED
        BY ONLY <3>1, <4>1 DEF CommandBudget
    <3> QED
      BY ONLY <1>0, <1>a, <2>2, <3>1, <3>2, Zenon DEF CommandBudget, NoComplete
  <2> QED
    BY <2>1, <2>2, Zenon
<1>5. AnsweredInCache'
  BY <1>0, <1>a, Zenon DEF AnsweredInCache, Received, Resolved, Replies
<1>6. EventDescribesPage'
  BY <1>0, <1>a DEF EventDescribesPage
<1> QED
  BY <1>1, <1>2, <1>3, <1>4, <1>5, <1>6

LEMMA CommandKinds ==
    /\ \A b : Submit(b) # Complete /\ Submit(b).opcode = "Submit" /\ Submit(b).buf = b
    /\ \A c \in Commands : c.opcode = "Complete" => c = Complete
    /\ \A c \in Commands : c.opcode = "Submit" => \E b \in {"arp", "udp"} : c = Submit(b)
<1>1. \A b : Submit(b).opcode = "Submit" /\ Submit(b).buf = b /\ Complete.opcode = "Complete"
  BY DEF Submit, Complete
<1>2. "Submit" # "Complete"
  OBVIOUS
<1> QED
  BY <1>1, <1>2 DEF Commands

(* What is left of the queue when its first command is taken.              *)
LEMMA TailCommand ==
    ASSUME ioQueue \in Seq(Commands), ioQueue # << >>
    PROVE  /\ Head(ioQueue) = ioQueue[1] /\ ioQueue[1] \in Commands
           /\ 1 \in DOMAIN ioQueue
           /\ Tail(ioQueue) \in Seq(Commands)
           /\ \A i \in DOMAIN Tail(ioQueue) :
                i + 1 \in DOMAIN ioQueue /\ Tail(ioQueue)[i] = ioQueue[i + 1]
           /\ \A i \in DOMAIN ioQueue :
                i # 1 => i - 1 \in DOMAIN Tail(ioQueue) /\ Tail(ioQueue)[i - 1] = ioQueue[i]
<1>1. Len(ioQueue) \in Nat /\ Len(ioQueue) # 0 /\ DOMAIN ioQueue = 1..Len(ioQueue)
  BY LenProperties, EmptySeq
<1>2. /\ Tail(ioQueue) \in Seq(Commands) /\ Len(Tail(ioQueue)) = Len(ioQueue) - 1
      /\ \A i \in 1..Len(Tail(ioQueue)) : Tail(ioQueue)[i] = ioQueue[i + 1]
  BY HeadTailProperties
<1>3. DOMAIN Tail(ioQueue) = 1..(Len(ioQueue) - 1)
  BY <1>2, LenProperties
<1>4. Head(ioQueue) = ioQueue[1] /\ ioQueue[1] \in Commands
  BY <1>1, ElementOfSeq
<1> QED
  BY <1>1, <1>2, <1>3, <1>4

(* process_io_one for a Complete command: the buffer goes to the device.   *)
LEMMA WaitCompleteStep ==
    ASSUME PathInv, WaitComplete
    PROVE  PathInv'
<1> USE DEF PathInv, WaitComplete, ProcessComplete, procVars
<1>1. PathTypeOK'
  BY TailCommand, NextIdxType, Zenon DEF PathTypeOK, AddBuf, Queues
<1>2. OneListener'
  BY DEF OneListener
<1>3. BufferPlace'
  <2>1. ioQueue[1] = Complete
    BY TailCommand, CommandKinds DEF PathTypeOK
  <2>2. InCommand
    BY <2>1, TailCommand DEF PathTypeOK, BufferPlace, AtDevice, AtRecv, InEvent,
                             IsStranded, NoComplete
  <2>3. NoComplete'
    BY <2>1, <2>2, TailCommand DEF PathTypeOK, InCommand, OneComplete, NoComplete
  <2>4. Len(events) = 0 /\ events = << >>
    BY <2>2 DEF InCommand, PathTypeOK
  <2>5. AtDevice'
    BY <2>2, <2>3, <2>4 DEF InCommand, AtDevice, AllSeen, NoEvent, AddBuf, PathTypeOK, Queues
  <2> QED
    BY <2>5 DEF BufferPlace
<1>4. CommandBudget'
  BY DEF CommandBudget, NoComplete
<1>5. AnsweredInCache'
  BY TailCommand DEF AnsweredInCache, Received, Resolved, Replies, PathTypeOK, AddBuf, Queues
<1>6. EventDescribesPage'
  BY DEF EventDescribesPage
<1> QED
  BY <1>1, <1>2, <1>3, <1>4, <1>5, <1>6

(* ... for a Submit command: what is copied to the transmit page is a      *)
(* reply to a client of the cache.                                         *)
LEMMA WaitSubmitStep ==
    ASSUME PathInv, WaitSubmit
    PROVE  PathInv'
<1> USE DEF PathInv, WaitSubmit, ProcessSubmit, Goto
<1>0. ioQueue \in Seq(Commands) /\ ioQueue # << >>
  BY DEF PathTypeOK
<1>1. PathTypeOK'
  BY <1>0, TailCommand DEF PathTypeOK
<1>2. OneListener'
  BY DEF OneListener
<1>a. PICK b \in {"arp", "udp"} : ioQueue[1] = Submit(b)
  BY <1>0, TailCommand, CommandKinds
<1>3. BufferPlace'
  <2>1. NoComplete => NoComplete'
    BY <1>0, TailCommand DEF NoComplete
  <2>2. OneComplete => OneComplete'
    <3> SUFFICES ASSUME OneComplete PROVE OneComplete'
      OBVIOUS
    <3>1. PICK k \in DOMAIN ioQueue : /\ ioQueue[k] = Complete
                                      /\ \A i \in DOMAIN ioQueue : ioQueue[i] = Complete => i = k
      BY DEF OneComplete
    <3>2. k # 1
      BY <1>a, <3>1, CommandKinds
    <3>3. k - 1 \in DOMAIN ioQueue' /\ ioQueue'[k - 1] = Complete
      BY <1>0, <3>1, <3>2, TailCommand
    <3>4. ASSUME NEW i \in DOMAIN ioQueue', ioQueue'[i] = Complete
          PROVE  i = k - 1
      <4>1. i + 1 \in DOMAIN ioQueue /\ ioQueue[i + 1] = Complete /\ i \in Int
        BY <1>0, <3>4, TailCommand, HeadTailProperties, LenProperties
      <4> QED
        BY <3>1, <4>1
    <3> QED
      BY <3>3, <3>4 DEF OneComplete
  <2> QED
    BY <2>1, <2>2 DEF BufferPlace, AtDevice, AtRecv, InEvent, InCommand, IsStranded,
                      NoEvent, AllSeen
<1>4. CommandBudget'
  BY DEF CommandBudget, NoComplete
<1>5. AnsweredInCache'
  <2>1. txPage' \in Replies
    BY <1>0, <1>a, TailCommand, CommandKinds DEF AnsweredInCache
  <2> QED
    BY <1>0, <2>1, TailCommand DEF AnsweredInCache, Received, Resolved, Replies
<1>6. EventDescribesPage'
  BY DEF EventDescribesPage
<1> QED
  BY <1>1, <1>2, <1>3, <1>4, <1>5, <1>6

LEMMA WaitPostStep ==
    ASSUME PathInv, WaitPost
    PROVE  PathInv'
<1> USE DEF PathInv, WaitPost, PostTransmit, Goto
<1>1. PathTypeOK'
  BY NextIdxType, Zenon DEF PathTypeOK, AddBuf, Queues
<1>2. OneListener'
  BY DEF OneListener
<1>3. BufferPlace'
  BY DEF BufferPlace, AtDevice, AtRecv, InEvent, InCommand, IsStranded,
         NoEvent, AllSeen, NoComplete, OneComplete, PathTypeOK
<1>4. CommandBudget'
  BY DEF CommandBudget, NoComplete
<1>5. AnsweredInCache'
  BY DEF AnsweredInCache, Received, Resolved, Replies, PathTypeOK
<1>6. EventDescribesPage'
  BY DEF EventDescribesPage
<1> QED
  BY <1>1, <1>2, <1>3, <1>4, <1>5, <1>6

(* recv: a used buffer becomes exactly one event, for which the event      *)
(* queue has room, or is stranded; without one, nothing changes.           *)
LEMMA InterruptStep ==
    ASSUME PathInv, NetInterrupt
    PROVE  PathInv'
<1> USE DEF PathInv, NetInterrupt, Interrupt, Resume
<1>0. /\ vqs.rx.used \in Idx /\ vqs.rx.seen \in Idx
      /\ events \in Seq(Packets) /\ EventLimit > 0 /\ EventLimit \in Nat
  BY LimitAssumption DEF PathTypeOK, Queues
<1>1. CASE AtRecv
  <2>1. Unseen(vqs.rx) = 1 /\ events = << >>
    BY <1>0, <1>1, GapNext DEF AtRecv, Unseen, NoEvent
  <2>3. Received
    BY <1>0, <1>1, NextIdxType DEF AtRecv, AnsweredInCache
  <2>2. /\ events' \in Seq(Packets)
        /\ Len(events') = IF rxBufferAddr THEN 1 ELSE 0
        /\ \A i \in DOMAIN events' : events'[i] = rxPage
    <3>1. CASE rxBufferAddr
      <4>1. events' = PutIfRoom(events, rxPage, EventLimit)
        BY <2>1, <3>1, NotifyOne DEF OneListener
      <4>2. events' = Append(events, rxPage) /\ Len(events) = 0
        BY <1>0, <2>1, <4>1, Zenon DEF PutIfRoom
      <4> QED
        <5>0. rxPage \in Packets /\ 0 + 1 = 1
          BY <2>3 DEF Received
        <5>a. /\ Append(events, rxPage) \in Seq(Packets)
              /\ Len(Append(events, rxPage)) = Len(events) + 1
              /\ Append(events, rxPage)[Len(events) + 1] = rxPage
          BY ONLY <1>0, <5>0, AppendProperties
        <5>1. events' \in Seq(Packets) /\ Len(events') = 1 /\ events'[1] = rxPage
          BY ONLY <4>2, <5>0, <5>a
        <5>2. DOMAIN events' = 1..1
          BY <5>1
        <5> QED
          BY <3>1, <5>1, <5>2
    <3>2. CASE ~rxBufferAddr
      BY <1>0, <2>1, <3>2
    <3> QED
      BY <3>1, <3>2
  <2>a. stranded' = ~rxBufferAddr
    BY <1>1, <2>1 DEF AtRecv
  <2>4. PathTypeOK'
    BY <2>2, <2>a, Zenon DEF PathTypeOK, AdvanceToUsed, Queues
  <2>5. OneListener'
    BY DEF OneListener
  <2>6. BufferPlace'
    <3>1. AllSeen' /\ NoComplete' /\ pc' # "pop"
      BY <1>1 DEF AtRecv, AllSeen, AdvanceToUsed, PathTypeOK, Queues, NoComplete, NoEvent
    <3>2. CASE rxBufferAddr
      <4>1. InEvent'
        BY <2>2, <2>a, <3>1, <3>2, Zenon DEF InEvent
      <4> QED
        BY <4>1 DEF BufferPlace
    <3>3. CASE ~rxBufferAddr
      <4>1. IsStranded'
        BY <2>2, <2>a, <3>1, <3>3, EmptySeq, Zenon DEF IsStranded, NoEvent
      <4> QED
        BY <4>1 DEF BufferPlace
    <3> QED
      BY <3>2, <3>3
  <2>7. CommandBudget'
    <3>1. pc # "input" /\ NoComplete' = NoComplete
      BY <2>1 DEF CommandBudget, NoComplete
    <3> QED
      BY <2>1, <3>1, PathAssumption DEF CommandBudget, PathTypeOK
  <2>8. AnsweredInCache'
    BY <2>3 DEF AnsweredInCache, Received, Resolved, Replies, PathTypeOK, AdvanceToUsed
  <2>9. EventDescribesPage'
    BY <2>2 DEF EventDescribesPage
  <2> QED
    BY <2>4, <2>5, <2>6, <2>7, <2>8, <2>9
<1>2. CASE ~AtRecv
  <2>1. Unseen(vqs.rx) = 0 /\ vqs.rx.used = vqs.rx.seen
    BY <1>0, <1>2, GapSame DEF BufferPlace, AtDevice, InEvent, InCommand, IsStranded,
                               AllSeen, Unseen
  <2>2. events' = events /\ stranded' = stranded
    BY <2>1, NotifyNone DEF OneListener, PathTypeOK
  <2>3. vqs' = vqs
    BY <2>1 DEF AdvanceToUsed, PathTypeOK, Queues
  <2>4. PathTypeOK'
    BY <2>2, <2>3, Zenon DEF PathTypeOK
  <2>5. OneListener'
    BY DEF OneListener
  <2>6. BufferPlace'
    <3>1. (pc' = "pop") <=> (pc = "pop")
      OBVIOUS
    <3>2. (NoEvent' <=> NoEvent) /\ (AllSeen' <=> AllSeen) /\ (NoComplete' <=> NoComplete)
      BY <2>2, <2>3, <3>1, Zenon DEF NoEvent, AllSeen, NoComplete
    <3>3. OneComplete' <=> OneComplete
      BY DEF OneComplete
    <3>4. (InEvent' <=> InEvent) /\ (InCommand' <=> InCommand)
      BY <2>2, <3>1, <3>2, <3>3 DEF InEvent, InCommand
    <3>5. IsStranded' <=> IsStranded
      BY <2>2, <3>2 DEF IsStranded
    <3>6. AtDevice' <=> AtDevice
      BY ONLY <2>2, <2>3, <3>2 DEF AtDevice
    <3> QED
      BY <1>2, <3>4, <3>5, <3>6 DEF BufferPlace
  <2>7. CommandBudget'
    BY <2>2, PathAssumption DEF CommandBudget, NoComplete, PathTypeOK
  <2>8. AnsweredInCache'
    BY <2>2, <2>3, Zenon DEF AnsweredInCache, Received, Resolved, Replies
  <2>9. EventDescribesPage'
    BY <2>2 DEF EventDescribesPage
  <2> QED
    BY <2>4, <2>5, <2>6, <2>7, <2>8, <2>9
<1> QED
  BY <1>1, <1>2

(* The device: it uses a posted buffer only, so that no event describes    *)
(* what it overwrites.                                                     *)
LEMMA ReceiveStep ==
    ASSUME PathInv, NEW p \in Packets, Receive(p)
    PROVE  PathInv'
<1> USE DEF PathInv, Receive, DeviceReceive, procVars
<1>0. vqs.rx.avail \in Idx /\ vqs.rx.used \in Idx
  BY DEF PathTypeOK, Queues
<1>a. AtDevice
  <2>1. vqs.rx.avail # vqs.rx.used
    BY <1>0, GapSame DEF Posted
  <2> QED
    BY <2>1 DEF BufferPlace, AtRecv, InEvent, InCommand, IsStranded, AllSeen
<1>1. PathTypeOK'
  BY <1>0, NextIdxType, Zenon DEF PathTypeOK, UseBuf, Queues
<1>2. OneListener'
  BY DEF OneListener
<1>3. BufferPlace'
  <2>1. AtRecv'
    BY <1>a DEF AtDevice, AtRecv, NoEvent, NoComplete, UseBuf, PathTypeOK, Queues
  <2> QED
    BY <2>1 DEF BufferPlace
<1>4. CommandBudget'
  BY <1>a DEF CommandBudget, NoComplete, AtDevice, NoEvent
<1>5. AnsweredInCache'
  BY DEF AnsweredInCache, Received, Resolved, Replies, PathTypeOK
<1>6. EventDescribesPage'
  BY <1>a DEF EventDescribesPage, AtDevice, NoEvent
<1> QED
  BY <1>1, <1>2, <1>3, <1>4, <1>5, <1>6

LEMMA TransmitStep ==
    ASSUME PathInv, Transmit
    PROVE  PathInv'
<1> USE DEF PathInv, Transmit, DeviceTransmit
<1>0. vqs.tx.avail \in Idx /\ vqs.tx.used \in Idx
  BY DEF PathTypeOK, Queues
<1>1. PathTypeOK'
  BY <1>0, NextIdxType DEF PathTypeOK, UseBuf, Queues
<1>2. OneListener'
  BY DEF OneListener
<1>3. BufferPlace'
  BY DEF BufferPlace, AtDevice, AtRecv, InEvent, InCommand, IsStranded,
         NoEvent, AllSeen, NoComplete, OneComplete, PathTypeOK
<1>4. CommandBudget'
  BY DEF CommandBudget, NoComplete
<1>5. AnsweredInCache'
  <2>1. vqs.tx.avail # vqs.tx.used
    BY <1>0, GapSame DEF Posted
  <2>2. txPage \in Replies
    BY <2>1 DEF AnsweredInCache
  <2>3. txPage.kind = "arpReply" => txPage.to \in arpCache
    BY <2>2 DEF Replies
  <2>4. answered \subseteq answered' /\ answered' \subseteq arpCache'
    BY <2>3 DEF AnsweredInCache
  <2> QED
    BY <2>2, <2>4 DEF AnsweredInCache, Received, Resolved, Replies, PathTypeOK
<1>6. EventDescribesPage'
  BY DEF EventDescribesPage
<1> QED
  BY <1>1, <1>2, <1>3, <1>4, <1>5, <1>6

(* While net_input parses, the event at hand holds the buffer, the page is *)
(* the packet it announced, and a command still fits.                      *)
LEMMA InputHolds ==
    ASSUME PathInv, pc = "input"
    PROVE  /\ InEvent /\ Received
           /\ Len(ioQueue) \in Nat /\ parsed \in Nat
           /\ Len(rxPage) \in 1..MaxFrames /\ parsed <= Len(rxPage)
           /\ Len(ioQueue) + (IF ret THEN 1 ELSE 0) <= parsed
           /\ Len(ioQueue) < IoLimit /\ nr = 0
<1> USE DEF PathInv
<1>1. /\ events # << >> /\ parsed <= Len(rxPage) /\ nr = 0
      /\ Len(ioQueue) + (IF ret THEN 1 ELSE 0) <= parsed
  BY DEF CommandBudget
<1>2. InEvent /\ Received
  BY <1>1, EventHolds DEF AnsweredInCache
<1>3. Len(rxPage) \in 1..MaxFrames
  BY <1>2, PacketType DEF Received
<1>4. Len(ioQueue) \in Nat /\ parsed \in Nat
  BY DEF PathTypeOK
<1>5. Len(ioQueue) < IoLimit
  BY <1>1, <1>3, <1>4, RoomAssumption, PathAssumption, LimitAssumption
<1> QED
  BY <1>1, <1>2, <1>3, <1>4, <1>5

LEMMA FrameHolds ==
    ASSUME PathInv, pc = "input", ~InputDone
    PROVE  /\ Frame \in Frames /\ parsed + 1 <= Len(rxPage)
           /\ Frame.kind = "udp" => Frame.from \in answered
<1>1. Received /\ Len(rxPage) \in Nat /\ parsed \in Nat /\ parsed <= Len(rxPage)
  BY InputHolds, PathAssumption
<1>2. parsed + 1 \in 1..Len(rxPage)
  BY <1>1 DEF InputDone
<1>3. rxPage[parsed + 1] \in Frames /\ parsed + 1 \in DOMAIN rxPage
  BY <1>1, <1>2, PacketType DEF Received
<1> QED
  BY <1>1, <1>2, <1>3 DEF Received, Frame

(* A command appended to a queue that has room for it.                     *)
LEMMA AppendCommand ==
    ASSUME ioQueue \in Seq(Commands), NEW c \in Commands, Len(ioQueue) < IoLimit,
           ioQueue' = PutIfRoom(ioQueue, c, IoLimit)
    PROVE  /\ ioQueue' \in Seq(Commands) /\ Len(ioQueue') = Len(ioQueue) + 1
           /\ DOMAIN ioQueue = 1..Len(ioQueue) /\ DOMAIN ioQueue' = 1..(Len(ioQueue) + 1)
           /\ \A i \in DOMAIN ioQueue : ioQueue'[i] = ioQueue[i]
           /\ \A i \in DOMAIN ioQueue' : i \in DOMAIN ioQueue \/ i = Len(ioQueue) + 1
           /\ ioQueue'[Len(ioQueue) + 1] = c
<1>1. ioQueue' = Append(ioQueue, c) /\ Len(ioQueue) \in Nat
  BY DEF PutIfRoom
<1>2. /\ Append(ioQueue, c) \in Seq(Commands)
      /\ Len(Append(ioQueue, c)) = Len(ioQueue) + 1
      /\ \A i \in 1..Len(ioQueue) : Append(ioQueue, c)[i] = ioQueue[i]
      /\ Append(ioQueue, c)[Len(ioQueue) + 1] = c
  BY AppendProperties
<1>3. DOMAIN ioQueue = 1..Len(ioQueue) /\ DOMAIN ioQueue' = 1..Len(ioQueue')
  BY <1>1, <1>2, LenProperties
<1>4. \A i \in 1..(Len(ioQueue) + 1) : i \in 1..Len(ioQueue) \/ i = Len(ioQueue) + 1
  BY <1>1
<1> QED
  BY ONLY <1>1, <1>2, <1>3, <1>4

LEMMA InputArpStep ==
    ASSUME PathInv, InputArp
    PROVE  PathInv'
<1> USE DEF PathInv, InputArp, NetInputOne
<1>0. /\ ioQueue \in Seq(Commands) /\ Submit("arp") \in Commands
      /\ Len(ioQueue) < IoLimit
  BY InputHolds DEF PathTypeOK, Commands
<1>a. /\ ioQueue' \in Seq(Commands) /\ Len(ioQueue') = Len(ioQueue) + 1
      /\ \A i \in DOMAIN ioQueue : ioQueue'[i] = ioQueue[i]
      /\ \A i \in DOMAIN ioQueue' : i \in DOMAIN ioQueue \/ ioQueue'[i] = Submit("arp")
  BY <1>0, AppendCommand
<1>1. PathTypeOK'
  BY <1>a DEF PathTypeOK
<1>2. OneListener'
  BY DEF OneListener
<1>3. BufferPlace'
  <2>1. InEvent
    BY InputHolds
  <2>2. NoComplete'
    BY <1>a, <2>1, CommandKinds DEF InEvent, NoComplete
  <2>3. InEvent'
    BY <2>1, <2>2 DEF InEvent, AllSeen
  <2> QED
    BY <2>3 DEF BufferPlace
<1>4. CommandBudget'
  BY <1>a, InputHolds, FrameHolds DEF CommandBudget
<1>5. AnsweredInCache'
  <2>1. ArpReply(Frame) \in Replies' /\ Replies \subseteq Replies'
    BY DEF ArpReply, Replies
  <2>2. ASSUME NEW b \in {"arp", "udp"}, NEW i \in DOMAIN ioQueue', ioQueue'[i] = Submit(b)
        PROVE  txBufs'[b] \in Replies'
    <3>1. CASE b = "arp"
      BY <2>1, <3>1 DEF PathTypeOK
    <3>2. CASE b = "udp"
      <4>1. Submit("udp") # Submit("arp")
        BY CommandKinds
      <4>2. i \in DOMAIN ioQueue /\ ioQueue[i] = Submit("udp")
        BY <1>a, <2>2, <3>2, <4>1
      <4> QED
        BY <2>1, <3>2, <4>2 DEF AnsweredInCache, PathTypeOK
    <3> QED
      BY <3>1, <3>2
  <2>3. (ret \/ nr > 0 => skBuffer \in Resolved)'
    BY DEF AnsweredInCache, Resolved
  <2> QED
    BY <2>1, <2>2, <2>3 DEF AnsweredInCache, Received
<1>6. EventDescribesPage'
  BY DEF EventDescribesPage
<1> QED
  BY <1>1, <1>2, <1>3, <1>4, <1>5, <1>6

LEMMA InputOtherStep ==
    ASSUME PathInv, InputDatagram \/ InputDropped \/ InputRefused
    PROVE  PathInv'
<1> USE DEF PathInv, InputDatagram, InputDropped, InputRefused, NetInputOne, netVars
<1>0. pc = "input" /\ ~InputDone
  OBVIOUS
<1>1. PathTypeOK'
  <2>1. parsed' \in Nat
    BY DEF PathTypeOK
  <2>2. ret' \in BOOLEAN
    BY Zenon DEF PathTypeOK
  <2>3. pc' = pc \/ pc' = "panicked"
    OBVIOUS
  <2> QED
    BY <2>1, <2>2, <2>3 DEF PathTypeOK
<1>2. OneListener'
  BY DEF OneListener
<1>3. BufferPlace'
  <2>1. InEvent
    BY <1>0, InputHolds
  <2>2. InEvent'
    BY <2>1 DEF InEvent, NoComplete, AllSeen
  <2> QED
    BY <2>2 DEF BufferPlace
<1>4. CommandBudget'
  <2>1. /\ Len(ioQueue) \in Nat /\ parsed \in Nat /\ nr = 0 /\ ret \in BOOLEAN
        /\ Len(ioQueue) + (IF ret THEN 1 ELSE 0) <= parsed
        /\ parsed + 1 <= Len(rxPage) /\ events # << >>
    BY <1>0, InputHolds, FrameHolds, Zenon DEF CommandBudget, PathTypeOK
  <2>2. /\ pc' = "input" \/ pc' = "panicked"
        /\ ioQueue' = ioQueue /\ events' = events /\ rxPage' = rxPage
        /\ parsed' = parsed + 1 /\ nr' = nr
    BY <1>0, Zenon
  <2>3. Len(ioQueue) + (IF ret' THEN 1 ELSE 0) <= parsed + 1
    BY ONLY <2>1
  <2>4. Len(rxPage) \in Nat
    BY <1>0, InputHolds, PathAssumption
  <2> QED
    BY ONLY <2>1, <2>2, <2>3, <2>4 DEF CommandBudget
<1>5. AnsweredInCache'
  <2>1. InputDatagram => skBuffer' \in Resolved'
    <3> SUFFICES ASSUME InputDatagram PROVE skBuffer' \in Resolved'
      OBVIOUS
    <3>1. Frame \in Frames /\ Frame.kind = "udp" /\ Frame.from \in arpCache
      BY <1>0, FrameHolds, Zenon DEF AnsweredInCache
    <3>2. Frame \in Datagrams
      BY ONLY <3>1 DEF Frames, ArpRequests, Refused, Dropped, Datagrams
    <3>3. skBuffer' = Frame /\ arpCache' = arpCache
      BY ONLY InputDatagram, Zenon DEF InputDatagram
    <3> QED
      BY ONLY <3>1, <3>2, <3>3 DEF Datagrams, Resolved
  <2>2. /\ UNCHANGED <<vqs, rxPage, txPage, events, ioQueue, nr, txBufs, arpCache, answered>>
        /\ pc' = "post" => pc = "post"
        /\ InputDatagram \/ UNCHANGED <<ret, skBuffer>>
    BY <1>0, Zenon
  <2>3. AnsweredInCache
    OBVIOUS
  <2> HIDE DEF InputDatagram
  <2> QED
    BY ONLY <2>1, <2>2, <2>3 DEF AnsweredInCache, Received, Replies, Resolved
<1>6. EventDescribesPage'
  BY DEF EventDescribesPage
<1> QED
  BY <1>1, <1>2, <1>3, <1>4, <1>5, <1>6

(* io_complete: the buffer passes from the event to the command.           *)
LEMMA IoCompleteStep ==
    ASSUME PathInv, IoComplete
    PROVE  PathInv'
<1> USE DEF PathInv, IoComplete, Goto
<1>0. /\ ioQueue \in Seq(Commands) /\ Complete \in Commands
      /\ Len(ioQueue) < IoLimit
  BY InputHolds DEF PathTypeOK, Commands
<1>a. /\ ioQueue' \in Seq(Commands) /\ Len(ioQueue') = Len(ioQueue) + 1
      /\ \A i \in DOMAIN ioQueue : ioQueue'[i] = ioQueue[i]
      /\ \A i \in DOMAIN ioQueue' : i \in DOMAIN ioQueue \/ i = Len(ioQueue) + 1
      /\ Len(ioQueue) + 1 \in DOMAIN ioQueue'
      /\ ioQueue'[Len(ioQueue) + 1] = Complete
  <2>1. Len(ioQueue) \in Nat
    BY <1>0
  <2> QED
    BY <1>0, <2>1, AppendCommand
<1>b. /\ InEvent /\ nr = 0 /\ Len(ioQueue) \in Nat /\ parsed \in Nat
      /\ Len(ioQueue) + (IF ret THEN 1 ELSE 0) <= parsed /\ parsed <= MaxFrames
  BY InputHolds, PathAssumption
<1>1. PathTypeOK'
  <2>1. nr' \in Nat
    BY DEF PathTypeOK
  <2> QED
    BY <1>a, <2>1 DEF PathTypeOK
<1>2. OneListener'
  BY DEF OneListener
<1>3. BufferPlace'
  <2>1. OneComplete'
    BY <1>a, <1>b DEF InEvent, NoComplete, OneComplete
  <2>2. InCommand'
    BY <1>b, <2>1 DEF InEvent, InCommand, AllSeen
  <2> QED
    BY <2>2 DEF BufferPlace
<1>4. CommandBudget'
  <2>1. Len(ioQueue') + nr' <= MaxFrames + 1 /\ (ret <=> nr' > 0)
    BY <1>a, <1>b, PathAssumption
  <2> QED
    BY <2>1 DEF CommandBudget
<1>5. AnsweredInCache'
  BY <1>a, <1>b, CommandKinds DEF AnsweredInCache, Received, Replies, Resolved
<1>6. EventDescribesPage'
  BY DEF EventDescribesPage
<1> QED
  BY <1>1, <1>2, <1>3, <1>4, <1>5, <1>6

LEMMA PopEventStep ==
    ASSUME PathInv, PopEvent
    PROVE  PathInv'
<1> USE DEF PathInv, PopEvent, Goto
<1>0. InCommand /\ Len(events) = 1
  BY DEF BufferPlace, AtDevice, AtRecv, InEvent, InCommand, IsStranded, NoEvent
<1>a. events' \in Seq(Packets) /\ Len(events') = 0
  <2>0. events \in Seq(Packets) /\ Len(events) # 0
    BY <1>0 DEF PathTypeOK
  <2>1. events # << >>
    BY ONLY <2>0, EmptySeq
  <2>2. Tail(events) \in Seq(Packets) /\ Len(Tail(events)) = Len(events) - 1
    BY <2>0, <2>1, HeadTailProperties
  <2> QED
    BY <1>0, <2>2
<1>b. events' = << >> /\ DOMAIN events' = {}
  BY <1>a, EmptySeq
<1>1. PathTypeOK'
  BY <1>a, Zenon DEF PathTypeOK
<1>2. OneListener'
  BY DEF OneListener
<1>3. BufferPlace'
  <2>1. InCommand'
    BY <1>0, <1>a DEF InCommand, AllSeen, OneComplete
  <2> QED
    BY <2>1 DEF BufferPlace
<1>4. CommandBudget'
  <2>1. ~NoComplete'
    BY <1>0 DEF InCommand, OneComplete, NoComplete
  <2> QED
    BY <1>b, <2>1 DEF CommandBudget
<1>5. AnsweredInCache'
  BY <1>b DEF AnsweredInCache, Received, Replies, Resolved
<1>6. EventDescribesPage'
  BY <1>b DEF EventDescribesPage
<1> QED
  BY <1>1, <1>2, <1>3, <1>4, <1>5, <1>6

(* echo: the sender of what the socket holds is in the ARP cache, so that  *)
(* udp_sendto's assertion holds.                                           *)
LEMMA EchoStep ==
    ASSUME PathInv, Echo
    PROVE  PathInv'
<1> USE DEF PathInv, Echo
<1>0. skBuffer \in Resolved /\ skBuffer.from \in arpCache /\ skBuffer.data \in Data
  BY DEF AnsweredInCache, Resolved
<1>a. /\ ioQueue \in Seq(Commands) /\ Submit("udp") \in Commands
      /\ nr \in Nat /\ nr > 0 /\ Len(ioQueue) \in Nat
      /\ Len(ioQueue) + nr <= MaxFrames + 1
  BY DEF PathTypeOK, Commands, CommandBudget
<1>b. Len(ioQueue) < IoLimit
  BY <1>a, RoomAssumption, PathAssumption, LimitAssumption
<1>c. /\ ioQueue' \in Seq(Commands) /\ Len(ioQueue') = Len(ioQueue) + 1
      /\ \A i \in DOMAIN ioQueue : i \in DOMAIN ioQueue' /\ ioQueue'[i] = ioQueue[i]
      /\ \A i \in DOMAIN ioQueue' : i \in DOMAIN ioQueue \/ ioQueue'[i] = Submit("udp")
  <2>1. ioQueue' = PutIfRoom(ioQueue, Submit("udp"), IoLimit)
    BY <1>0
  <2> QED
    BY <1>a, <1>b, <2>1, AppendCommand
<1>1. PathTypeOK'
  <2>1. nr' \in Nat /\ DOMAIN txBufs' = {"arp", "udp"}
    BY <1>0, <1>a DEF PathTypeOK
  <2> QED
    BY <1>0, <1>c, <2>1 DEF PathTypeOK
<1>2. OneListener'
  BY <1>0 DEF OneListener
<1>3. BufferPlace'
  <2>1. NoComplete => NoComplete'
    BY <1>c, CommandKinds DEF NoComplete
  <2>2. OneComplete => OneComplete'
    BY <1>c, CommandKinds DEF OneComplete
  <2>3. (NoEvent' <=> NoEvent) /\ (AllSeen' <=> AllSeen)
    BY <1>0 DEF NoEvent, AllSeen
  <2> QED
    BY <1>0, <2>1, <2>2, <2>3 DEF BufferPlace, AtDevice, AtRecv, InEvent, InCommand,
                                  IsStranded
<1>4. CommandBudget'
  BY <1>0, <1>a, <1>c DEF CommandBudget
<1>5. AnsweredInCache'
  <2>1. UdpReply(skBuffer) \in Replies
    BY <1>0 DEF UdpReply, Replies
  <2>2. ASSUME NEW b \in {"arp", "udp"}, NEW i \in DOMAIN ioQueue', ioQueue'[i] = Submit(b)
        PROVE  txBufs'[b] \in Replies
    <3>1. CASE b = "udp"
      BY <1>0, <2>1, <3>1 DEF PathTypeOK
    <3>2. CASE b = "arp"
      <4>1. Submit("udp") # Submit("arp")
        BY CommandKinds
      <4>2. i \in DOMAIN ioQueue /\ ioQueue[i] = Submit("arp")
        BY <1>c, <2>2, <3>2, <4>1
      <4> QED
        BY <1>0, <3>2, <4>2 DEF AnsweredInCache, PathTypeOK
    <3> QED
      BY <3>1, <3>2
  <2>3. Replies' = Replies /\ Resolved' = Resolved
    BY DEF Replies, Resolved
  <2> QED
    BY <1>0, <2>2, <2>3 DEF AnsweredInCache, Received
<1>6. EventDescribesPage'
  BY DEF EventDescribesPage
<1> QED
  BY <1>1, <1>2, <1>3, <1>4, <1>5, <1>6
-----------------------------------------------------------------------------
(* What each place of the buffer makes of the counts of RxBufferConserved. *)
LEMMA PlaceCounts ==
    ASSUME PathInv
    PROVE  /\ AtDevice   => /\ Posted(vqs.rx) = 1 /\ Unseen(vqs.rx) = 0
                            /\ EventsToComplete = 0 /\ Completes = 0
           /\ AtRecv     => /\ Posted(vqs.rx) = 0 /\ Unseen(vqs.rx) = 1
                            /\ EventsToComplete = 0 /\ Completes = 0
           /\ InEvent    => /\ Posted(vqs.rx) = 0 /\ Unseen(vqs.rx) = 0
                            /\ EventsToComplete = 1 /\ Completes = 0
           /\ InCommand  => /\ Posted(vqs.rx) = 0 /\ Unseen(vqs.rx) = 0
                            /\ EventsToComplete = 0 /\ Completes = 1
           /\ IsStranded => /\ Posted(vqs.rx) = 0 /\ Unseen(vqs.rx) = 0
                            /\ EventsToComplete = 0 /\ Completes = 0
<1> USE DEF PathInv
<1> DEFINE C == {i \in DOMAIN ioQueue : ioQueue[i] = Complete}
<1>1. vqs.rx.avail \in Idx /\ vqs.rx.used \in Idx /\ vqs.rx.seen \in Idx
  BY DEF PathTypeOK, Queues
<1>2. AllSeen => Posted(vqs.rx) = 0 /\ Unseen(vqs.rx) = 0
  BY <1>1, GapSame DEF AllSeen, Posted, Unseen
<1>3. NoComplete => Completes = 0
  <2>1. NoComplete => C = {}
    BY DEF NoComplete
  <2> QED
    BY <2>1, FS_EmptySet DEF Completes
<1>4. OneComplete => Completes = 1
  <2>1. OneComplete => \E k : C = {k}
    BY DEF OneComplete
  <2> QED
    BY <2>1, FS_Singleton DEF Completes
<1>5. NoEvent => EventsToComplete = 0
  BY DEF NoEvent, EventsToComplete
<1>6. AtDevice => Posted(vqs.rx) = 1 /\ Unseen(vqs.rx) = 0
  BY <1>1, GapNext, GapSame DEF AtDevice, Posted, Unseen
<1>7. AtRecv => Posted(vqs.rx) = 0 /\ Unseen(vqs.rx) = 1
  BY <1>1, GapNext, GapSame DEF AtRecv, Posted, Unseen
<1>8. InEvent => EventsToComplete = 1
  BY DEF InEvent, EventsToComplete
<1>9. InCommand => EventsToComplete = 0
  BY DEF InCommand, EventsToComplete
<1> QED
  BY <1>2, <1>3, <1>4, <1>5, <1>6, <1>7, <1>8, <1>9
     DEF AtDevice, AtRecv, InEvent, InCommand, IsStranded

LEMMA PlaceIsOne ==
    ASSUME PathInv
    PROVE  RxBufferConserved
<1>1. stranded <=> IsStranded
  BY DEF PathInv, PathTypeOK, BufferPlace, AtDevice, AtRecv, InEvent, InCommand, IsStranded
<1>2. AtDevice \/ AtRecv \/ InEvent \/ InCommand \/ IsStranded
  BY DEF PathInv, BufferPlace
<1>3. AtDevice \/ AtRecv \/ InEvent \/ InCommand => ~stranded
  BY DEF AtDevice, AtRecv, InEvent, InCommand
<1> QED
  BY <1>1, <1>2, <1>3, PlaceCounts DEF RxBufferConserved

LEMMA InitPathInv ==
    ASSUME Init
    PROVE  PathInv
<1> USE DEF Init, NetInit, PathInv
<1>0. 0 \in Idx /\ NextIdx(0) \in Idx /\ NextIdx(0) # 0
  <2>1. 0 \in Idx
    BY IdxAssumption DEF Idx
  <2> QED
    BY <2>1, NextIdxType
<1>1. PathTypeOK
  <2>1. vqs \in [rx: Queues, tx: Queues]
    BY <1>0 DEF EmptyQueue, AddBuf, Queues
  <2>2. << >> \in Seq(Packets) /\ << >> \in Seq(Commands)
    OBVIOUS
  <2> QED
    BY <2>1, <2>2, Zenon DEF PathTypeOK
<1>2. OneListener
  BY DEF OneListener
<1>3. BufferPlace
  <2>1. AtDevice
    BY <1>0 DEF AtDevice, EmptyQueue, AddBuf, NoEvent, NoComplete
  <2> QED
    BY <2>1 DEF BufferPlace
<1>4. CommandBudget
  BY DEF CommandBudget
<1>5. AnsweredInCache
  BY <1>0 DEF AnsweredInCache, EmptyQueue, AddBuf
<1>6. EventDescribesPage
  BY DEF EventDescribesPage
<1> QED
  BY <1>1, <1>2, <1>3, <1>4, <1>5, <1>6

LEMMA NextPathInv ==
    ASSUME PathInv, [Next]_vars
    PROVE  PathInv'
<1>1. CASE Process
  BY <1>1, AcquireStep, MoveStep, WaitCompleteStep, WaitSubmitStep, WaitPostStep,
     InputArpStep, InputOtherStep, IoCompleteStep, PopEventStep, EchoStep DEF Process
<1>2. CASE NetInterrupt
  BY <1>2, InterruptStep
<1>3. CASE TimerInterrupt
  BY <1>3, MoveStep
<1>4. CASE Transmit
  BY <1>4, TransmitStep
<1>5. CASE \E p \in Packets : Receive(p)
  BY <1>5, ReceiveStep
<1>6. CASE UNCHANGED vars
  <2> USE <1>6 DEF vars, netVars, procVars, PathInv
  <2>1. PathTypeOK' /\ OneListener' /\ EventDescribesPage'
    BY DEF PathTypeOK, OneListener, EventDescribesPage
  <2>2. BufferPlace'
    BY DEF BufferPlace, AtDevice, AtRecv, InEvent, InCommand, IsStranded,
           NoEvent, AllSeen, NoComplete, OneComplete
  <2>3. CommandBudget'
    BY DEF CommandBudget, NoComplete
  <2>4. AnsweredInCache'
    BY DEF AnsweredInCache, Received, Resolved, Replies
  <2> QED
    BY <2>1, <2>2, <2>3, <2>4
<1> QED
  BY <1>1, <1>2, <1>3, <1>4, <1>5, <1>6 DEF Next

LEMMA RoomFromInv ==
    ASSUME PathInv
    PROVE  RoomForCommands
<1>1. CASE pc = "input"
  BY <1>1, InputHolds DEF RoomForCommands
<1>2. CASE pc = "echo" /\ nr > 0
  <2>1. nr \in Nat /\ Len(ioQueue) \in Nat /\ Len(ioQueue) + nr <= MaxFrames + 1
    BY <1>2 DEF PathInv, PathTypeOK, CommandBudget
  <2>2. Len(ioQueue) < IoLimit
    BY <1>2, <2>1, RoomAssumption, PathAssumption, LimitAssumption
  <2> QED
    BY <2>2 DEF RoomForCommands
<1> QED
  BY <1>1, <1>2 DEF RoomForCommands

LEMMA PathInvariant == Spec => []PathInv
<1>1. Init => PathInv
  BY InitPathInv
<1>2. PathInv /\ [Next]_vars => PathInv'
  BY NextPathInv
<1> QED
  BY <1>1, <1>2, PTL DEF Spec

(* The driver's only receive buffer is in exactly one place - device,      *)
(* recv, event, command or stranded - under every interleaving of          *)
(* interrupts, system calls and the device, for every ring size, index     *)
(* width and packet length.                                                *)
THEOREM ReceiveBufferConserved == Spec => []RxBufferConserved
<1>1. PathInv => RxBufferConserved
  BY PlaceIsOne
<1> QED
  BY <1>1, PathInvariant, PTL

(* The device never overwrites the receive page while an event announces   *)
(* what is in it, though recv, net_input and the device share the page     *)
(* without a lock.                                                         *)
THEOREM PageStableWhileAnnounced == Spec => []EventDescribesPage
<1>1. PathInv => EventDescribesPage
  BY DEF PathInv
<1> QED
  BY <1>1, PathInvariant, PTL

(* __io_queue_append's ignored failure never happens: an I/O queue of one  *)
(* entry more than a packet has frames is never full when epoll_wait or    *)
(* sendto appends to it.                                                   *)
THEOREM IoQueueNeverFull == Spec => []RoomForCommands
<1>1. PathInv => RoomForCommands
  BY RoomFromInv
<1> QED
  BY <1>1, PathInvariant, PTL

(* udp_sendto's assertion that the ARP cache knows the destination never   *)
(* fails for an echoed datagram, for any number of clients: a client that  *)
(* sends datagrams has got a reply built after it was put in the cache.    *)
THEOREM EchoFindsSender == Spec => []SenderIsResolved
<1>1. PathInv => SenderIsResolved
  BY DEF PathInv, AnsweredInCache, Resolved, SenderIsResolved
<1> QED
  BY <1>1, PathInvariant, PTL

-----------------------------------------------------------------------------
(* Each place of the buffer is an owner of the receive page.               *)
LEMMA PlaceOwner ==
    PathInv => /\ AtDevice => Owner = "device"
               /\ AtRecv => Owner = "driver"
               /\ InEvent => Owner = "process"
               /\ InCommand => Owner = "command"
               /\ IsStranded => Owner = "nobody"
  BY PlaceCounts DEF Owner

(* Three steps change the receive queue: the device fills the page, recv   *)
(* catches up, and process_io posts the page.  No other step moves the     *)
(* page past the process or its command.                                   *)
Fills == /\ Posted(vqs.rx) > 0 /\ vqs'.rx = UseBuf(vqs.rx)
CatchesUp == /\ vqs'.rx = AdvanceToUsed(vqs.rx) /\ rxPage' = rxPage /\ ioQueue' = ioQueue
             /\ stranded' = (stranded \/ (~rxBufferAddr /\ Unseen(vqs.rx) > 0))
Posts == /\ ioQueue # << >> /\ Head(ioQueue).opcode = "Complete"
         /\ vqs'.rx = AddBuf(vqs.rx) /\ rxPage' = rxPage
Leaves == /\ vqs'.rx = vqs.rx /\ rxPage' = rxPage /\ stranded' = stranded
          /\ \/ events' = events /\ (pc = "pop" => pc' = "pop")
             \/ pc = "pop" /\ events' = Tail(events)

LEMMA StepKinds ==
    ASSUME PathInv, [Next]_vars
    PROVE  Fills \/ CatchesUp \/ Posts \/ Leaves
<1>0. /\ \A v : [vqs EXCEPT !.rx = v].rx = v
      /\ \A v : [vqs EXCEPT !.tx = v].rx = vqs.rx
  BY DEF PathInv, PathTypeOK
<1>1. CASE \E p \in Packets : Receive(p)
  BY <1>0, <1>1 DEF Receive, DeviceReceive, Fills
<1>2. CASE NetInterrupt
  BY <1>0, <1>2 DEF NetInterrupt, Interrupt, CatchesUp
<1>3. CASE WaitComplete
  BY <1>0, <1>3 DEF WaitComplete, ProcessComplete, Posts
<1>4. CASE PopEvent
  BY <1>4 DEF PopEvent, Goto, Leaves
<1>5. CASE WaitPost \/ Transmit
  BY <1>0, <1>5 DEF WaitPost, PostTransmit, Transmit, DeviceTransmit, Goto, Leaves
<1>6. CASE TimerInterrupt \/ UNCHANGED vars
  BY <1>6 DEF TimerInterrupt, Resume, Leaves, vars, netVars, procVars
<1>7. CASE Acquire \/ AcquireMap \/ AcquireIoQueue \/ AcquireFails
  BY <1>7 DEF Acquire, AcquireMap, AcquireIoQueue, AcquireFails, AddListener, SetRxBufferAddr,
              SetIoQueue, Goto, Leaves, netVars
<1>8. CASE WaitSubmit \/ WaitSleep \/ Halt \/ NetInput \/ PollDone \/ EchoDone
  BY <1>8 DEF WaitSubmit, ProcessSubmit, WaitSleep, Halt, NetInput, PollDone, EchoDone, Goto,
              Leaves, netVars
<1>9. CASE InputArp \/ InputDatagram \/ InputDropped \/ InputRefused \/ IoComplete \/ Echo
  BY <1>9 DEF InputArp, InputDatagram, InputDropped, InputRefused, NetInputOne, IoComplete,
              Echo, Goto, Leaves, netVars
<1> QED
  BY <1>1, <1>2, <1>3, <1>4, <1>5, <1>6, <1>7, <1>8, <1>9 DEF Next, Process

(* Where the buffer is after a step.                                       *)
LEMMA CustodyMoves ==
    ASSUME PathInv, PathInv', [Next]_vars
    PROVE  \/ AtDevice /\ AtRecv'
           \/ /\ rxPage' = rxPage
              /\ \/ AtDevice /\ AtDevice'
                 \/ AtRecv /\ (AtRecv' \/ InEvent' \/ IsStranded')
                 \/ InEvent /\ (InEvent' \/ InCommand')
                 \/ InCommand /\ (InCommand' \/ AtDevice')
                 \/ IsStranded /\ IsStranded'
<1>0. /\ vqs.rx \in Queues /\ vqs.rx.avail \in Idx /\ vqs.rx.used \in Idx
      /\ vqs.rx.seen \in Idx
  BY DEF PathInv, PathTypeOK, Queues
<1>1. /\ AtDevice \/ AtRecv \/ InEvent \/ InCommand \/ IsStranded
      /\ AtDevice' \/ AtRecv' \/ InEvent' \/ InCommand' \/ IsStranded'
  BY DEF PathInv, BufferPlace
<1>2. \A i \in Idx : NextIdx(i) # i
  BY NextIdxType
(* The indices say whether the buffer is with the device or with recv, and *)
(* stranded whether it is lost; none of the three is undone by a step that *)
(* leaves them.                                                            *)
<1>3. /\ vqs'.rx.avail # vqs'.rx.used => AtDevice'
      /\ vqs'.rx.used # vqs'.rx.seen => AtRecv'
      /\ stranded' => IsStranded'
      /\ AllSeen' /\ ~stranded' => InEvent' \/ InCommand'
  <2>1. vqs'.rx.used \in Idx /\ vqs'.rx.seen \in Idx
    BY DEF PathInv, PathTypeOK, Queues
  <2> QED
    BY <1>1, <1>2, <2>1 DEF AtDevice, AtRecv, InEvent, InCommand, IsStranded, AllSeen
<1>4. CASE Fills
  <2>1. AtDevice
    BY <1>1, <1>4, PlaceCounts DEF Fills
  <2>2. vqs'.rx.used = NextIdx(vqs.rx.used) /\ vqs'.rx.seen = vqs.rx.seen
    BY <1>0, <1>4 DEF Fills, UseBuf, Queues
  <2>3. AtRecv'
    BY <1>0, <1>2, <1>3, <2>1, <2>2 DEF AtDevice
  <2> QED
    BY <2>1, <2>3
<1>5. CASE CatchesUp
  <2>1. /\ vqs'.rx.avail = vqs.rx.avail /\ vqs'.rx.used = vqs.rx.used
        /\ vqs'.rx.seen = vqs.rx.used
    BY <1>0, <1>5 DEF CatchesUp, AdvanceToUsed, Queues
  <2>2. rxPage' = rxPage /\ ioQueue' = ioQueue
    BY <1>5 DEF CatchesUp
  <2>3. CASE AtDevice
    BY <1>0, <1>2, <1>3, <2>1, <2>2, <2>3 DEF AtDevice
  <2>4. CASE AtRecv
    <3>1. AllSeen' /\ NoComplete'
      BY <2>1, <2>2, <2>4 DEF AtRecv, AllSeen, NoComplete
    <3>2. ~InCommand'
      BY <3>1 DEF InCommand, OneComplete, NoComplete
    <3> QED
      BY <1>3, <2>2, <2>4, <3>1, <3>2
  <2>5. CASE InEvent \/ InCommand
    <3>1. AllSeen' /\ ~stranded'
      <4>1. Unseen(vqs.rx) = 0 /\ ~stranded /\ AllSeen
        BY <2>5, PlaceCounts DEF InEvent, InCommand
      <4>2. ~(Unseen(vqs.rx) > 0)
        BY <4>1
      <4>3. ~stranded'
        BY <1>5, <4>1, <4>2, Zenon DEF CatchesUp
      <4>4. AllSeen'
        BY <2>1, <4>1, Zenon DEF AllSeen
      <4> QED
        BY <4>3, <4>4
    <3>2. InCommand => ~InEvent'
      BY <2>2 DEF InCommand, InEvent, OneComplete, NoComplete
    <3> QED
      BY <1>3, <2>2, <2>5, <3>1, <3>2
  <2>6. CASE IsStranded
    BY <1>3, <1>5, <2>2, <2>6 DEF IsStranded, CatchesUp
  <2> QED
    BY <1>1, <2>3, <2>4, <2>5, <2>6
<1>6. CASE Posts
  <2>1. ~NoComplete
    BY <1>6, TailCommand, CommandKinds DEF Posts, NoComplete, PathInv, PathTypeOK
  <2>2. InCommand
    BY <1>1, <2>1 DEF AtDevice, AtRecv, InEvent, IsStranded
  <2>3. vqs'.rx.avail = NextIdx(vqs.rx.avail) /\ vqs'.rx.used = vqs.rx.used
    BY <1>0, <1>6 DEF Posts, AddBuf, Queues
  <2>4. AtDevice'
    BY <1>0, <1>2, <1>3, <2>2, <2>3 DEF InCommand, AllSeen
  <2> QED
    BY <1>6, <2>2, <2>4 DEF Posts
<1>7. CASE Leaves
  <2>1. vqs'.rx = vqs.rx /\ rxPage' = rxPage /\ stranded' = stranded
    BY <1>7 DEF Leaves
  <2>2. CASE AtDevice
    BY <1>0, <1>2, <1>3, <2>1, <2>2 DEF AtDevice
  <2>3. CASE AtRecv
    BY <1>0, <1>2, <1>3, <2>1, <2>3 DEF AtRecv
  <2>4. CASE InEvent
    BY <1>3, <2>1, <2>4 DEF InEvent, AllSeen
  <2>5. CASE InCommand
    <3>1. ~InEvent'
      <4>1. events \in Seq(Packets)
        BY DEF PathInv, PathTypeOK
      <4>2. pc # "pop" => Len(events) = 0
        BY <2>5 DEF InCommand
      <4>3. pc = "pop" => Len(events) = 1
        BY <2>5 DEF InCommand
      <4>4. pc = "pop" => Len(Tail(events)) = 0
        BY <4>1, <4>3
      <4>5. Len(events') = 0 \/ pc' = "pop"
        BY <1>7, <4>2, <4>4, Zenon DEF Leaves
      <4>6. InEvent' => Len(events') = 1 /\ pc' # "pop"
        BY Zenon DEF InEvent
      <4> QED
        BY <4>5, <4>6
    <3> QED
      BY <1>3, <2>1, <2>5, <3>1 DEF InCommand, AllSeen
  <2>6. CASE IsStranded
    BY <1>3, <2>1, <2>6 DEF IsStranded
  <2> QED
    BY <1>1, <2>2, <2>3, <2>4, <2>5, <2>6
<1> QED
  BY <1>4, <1>5, <1>6, <1>7, StepKinds

(* The receive page goes round from the device through recv, the event and *)
(* the Complete command and nowhere else, and its contents change only in  *)
(* the step in which the device fills it, for every ring size, index width *)
(* and packet length: the driver and liblinux implement BufferCustody.     *)
THEOREM PageGoesRound == Spec => ImplementsCustody
<1>1. Init => ReceivePage!CustodyInit
  <2> SUFFICES ASSUME Init PROVE Owner = "device"
    BY DEF ReceivePage!CustodyInit
  <2>1. PathInv
    BY InitPathInv
  <2>2. 0 \in Idx
    BY IdxAssumption DEF Idx
  <2>3. AtDevice
    BY <2>2 DEF Init, NetInit, AtDevice, EmptyQueue, AddBuf, NoEvent, NoComplete
  <2> QED
    BY <2>1, <2>3, PlaceOwner
<1>2. PathInv /\ PathInv' /\ [Next]_vars => [ReceivePage!CustodyNext]_<<Owner, rxPage>>
  <2> SUFFICES ASSUME PathInv, PathInv', [Next]_vars
               PROVE  [ReceivePage!CustodyNext]_<<Owner, rxPage>>
    OBVIOUS
  <2>1. /\ AtDevice => Owner = "device"
        /\ AtRecv => Owner = "driver"
        /\ InEvent => Owner = "process"
        /\ InCommand => Owner = "command"
        /\ IsStranded => Owner = "nobody"
    BY PlaceOwner
  <2>2. /\ AtDevice' => Owner' = "device"
        /\ AtRecv' => Owner' = "driver"
        /\ InEvent' => Owner' = "process"
        /\ InCommand' => Owner' = "command"
        /\ IsStranded' => Owner' = "nobody"
    <3>1. (PathInv => /\ AtDevice => Owner = "device"
                      /\ AtRecv => Owner = "driver"
                      /\ InEvent => Owner = "process"
                      /\ InCommand => Owner = "command"
                      /\ IsStranded => Owner = "nobody")'
      BY PlaceOwner, PTL
    <3> QED
      BY <3>1
  <2> QED
    BY <2>1, <2>2, CustodyMoves, Zenon
       DEF ReceivePage!CustodyNext, ReceivePage!Fill, ReceivePage!Announce, ReceivePage!Strand,
           ReceivePage!GiveBack, ReceivePage!Repost, ReceivePage!Pass
<1> QED
  BY <1>1, <1>2, PathInvariant, PTL DEF Spec, ImplementsCustody, ReceivePage!CustodySpec
=============================================================================

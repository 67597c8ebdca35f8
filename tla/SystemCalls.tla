---------------------------- MODULE SystemCalls ----------------------------
(***************************************************************************)
(* A process and the kernel it calls: kernel/syscall.c, the copies of      *)
(* kernel/user-copy.c and arch/x86_64/user-copy.S, exceptions              *)
(* (arch/x86_64/exceptions.c), interrupts (arch/x86_64/irq.c), panics, and *)
(* the console (drivers/uart/8250.c) that printf and console_print write   *)
(* to.  X86_IA32_FMASK is 0: interrupts stay enabled in a system call and  *)
(* come between any two of its steps.  Interrupts have interrupt gates, so *)
(* that a handler is not interrupted.                                      *)
(*                                                                         *)
(* A buffer of the process is [kernel, bytes, mapped]: whether its address *)
(* is the kernel's, its bytes, and how many of them are mapped.            *)
(***************************************************************************)
EXTENDS Printf, FiniteSets

CONSTANTS Buffers,        \* buffers the process passes
          Directives,     \* conversions of its printf calls,
          Numbers,        \*   their arguments,
          Strings,        \*   and the arguments of the %s after them
          Descs,          \* descriptors it passes
          Statuses,       \* exit statuses
          BUF_SIZE,       \* of sys_console_print
          NAME_LEN,       \* EVENT_SIZE, MAX_NAME_LEN
          VMR_SIZE,       \* sizeof(struct vmspace_region)
          CONFIG_SIZE,    \* length of an option's value
          MSG_SIZE,       \* of panic's message
          NAMESPACE,      \* names of devices
          NR_EXCEPTIONS, NR_INTERRUPT_VECTORS,
          MaxDescs, MaxRequests,
          MaxInterrupts   \* during one system call

EFAULT == 14
EINVAL == 22
ENOMEM == 12
ENOSYS == 38

VARIABLES pc,        \* what the processor executes
          call,      \* the system call in progress, or the last one
          fixup,     \* current.page_fault_fixup is set
          ret,       \* what the last system call has returned; 0 before that
          text,      \* what console_write has yet to write
          cause,     \* why the kernel panics
          fifo,      \* characters in the UART's transmit FIFO
          console,   \* <<writer, character>> sent since the call was made
          descs,     \* length of desc_table
          irq,       \* next_vector, the vectors with a handler
          pending,   \* interrupts that may still come during this call
          job        \* the printf call that made the system call

vars == <<pc, call, fixup, ret, text, cause, fifo, console, descs, irq, pending, job>>
tables == <<descs, irq, job>>
terminal == <<text, fifo, console>>

NoBuffer == [kernel |-> FALSE, bytes |-> << >>, mapped |-> 0]
NoCall == [nr |-> "none", buf |-> NoBuffer, phase |-> "none", off |-> 0, n |-> 0, done |-> 0, err |-> 0]
NoJob == [fmt |-> << >>, args |-> << >>]

Least(a, b) == IF a < b THEN a ELSE b
From(who) == LET sent == SelectSeq(console, LAMBDA e : e[1] = who)
             IN  [i \in DOMAIN sent |-> sent[i][2]]
-----------------------------------------------------------------------------
(* The UART                                                                *)

(* Faulty: a UART without a FIFO                                           *)
NoFifo == 1
(* console_init enables the FIFO, of which the kernel needs two entries.   *)
FifoSize == 2

(* uart_8250_write_char: what is written, to a FIFO that has room or not   *)
Sent(c) == IF c = "CR" THEN "LF" ELSE c
Written(who, c) == IF fifo < FifoSize THEN Append(console, <<who, Sent(c)>>) ELSE console

Uart ==
    /\ fifo > 0 /\ fifo' = fifo - 1
    /\ UNCHANGED <<pc, call, fixup, ret, text, cause, console, pending>> /\ UNCHANGED tables

(* The kernel has seen an empty FIFO; an interrupt may come before it      *)
(* writes.                                                                 *)
Poll ==
    /\ pc = "poll" /\ text # << >> /\ fifo = 0
    /\ pc' = "store"
    /\ UNCHANGED <<call, fixup, ret, cause, pending>> /\ UNCHANGED terminal /\ UNCHANGED tables

Store ==
    /\ pc = "store"
    /\ console' = Written(IF cause = "none" THEN "user" ELSE "panic", Head(text))
    /\ fifo' = Least(fifo + 1, FifoSize)
    /\ text' = Tail(text)
    /\ pc' = "poll"
    /\ UNCHANGED <<call, fixup, ret, cause, pending>> /\ UNCHANGED tables
-----------------------------------------------------------------------------
(* Panics, exceptions and interrupts                                       *)

(* panic: the message is written, then interrupts are disabled.            *)
panic(why, fmt, args) ==
    /\ cause' = why
    /\ text' = Stored(MSG_SIZE, Printed(fmt, args))
    /\ pc' = "poll"

Halt ==
    /\ pc = "poll" /\ text = << >> /\ cause # "none"
    /\ pc' = "halted"
    /\ UNCHANGED <<call, fixup, ret, cause, pending>> /\ UNCHANGED terminal /\ UNCHANGED tables

(* Faulty: the handler returns to the instruction that has faulted.        *)
page_fault_retry ==
    IF fixup THEN UNCHANGED <<pc, text, cause>> ELSE panic("page fault", <<"H">>, << >>)
do_x86_page_fault_exception ==
    IF fixup THEN pc' = "fixup" /\ UNCHANGED <<text, cause>> ELSE panic("page fault", <<"H">>, << >>)

(* The handlers of all other exceptions                                    *)
Exception ==
    /\ pc \notin {"boot", "halted"} /\ cause = "none"
    /\ panic("exception", <<"H">>, << >>)
    /\ UNCHANGED <<call, fixup, ret, fifo, console, pending>> /\ UNCHANGED tables

(* A page fault of the process itself                                      *)
UserFault ==
    /\ pc = "user" /\ call' = NoCall
    /\ do_x86_page_fault_exception
    /\ UNCHANGED <<fixup, ret, fifo, console, pending>> /\ UNCHANGED tables

(* request_irq, while the kernel boots.  NR_INTERRUPT_VECTORS itself is    *)
(* accepted, and is stored just after the table.                           *)
request_irq ==
    /\ pc = "boot" /\ irq.next < NR_EXCEPTIONS + MaxRequests
    /\ irq' = [next |-> irq.next + 1,
               handlers |-> IF irq.next > NR_INTERRUPT_VECTORS THEN irq.handlers
                            ELSE irq.handlers \union {irq.next}]
    /\ UNCHANGED <<pc, call, fixup, ret, cause, descs, pending, job>> /\ UNCHANGED terminal

Boot ==
    /\ pc = "boot" /\ pc' = "user"
    /\ UNCHANGED <<call, fixup, ret, cause, pending>> /\ UNCHANGED terminal /\ UNCHANGED tables

(* handle_interrupt: a vector without a handler gets a warning, each       *)
(* character of which is written to an empty FIFO.                         *)
Interrupt(vector) ==
    /\ pc \notin {"boot", "halted"}
    /\ pending > 0 /\ pending' = pending - 1
    /\ IF vector \in irq.handlers THEN UNCHANGED <<console, fifo>>
       ELSE /\ LET warning == Printed(<<"%", "d">>, <<vector>>)
               IN  console' = console \o [i \in DOMAIN warning |-> <<"interrupt", warning[i]>>]
            /\ fifo' = 1
    /\ UNCHANGED <<pc, call, fixup, ret, text, cause>> /\ UNCHANGED tables
-----------------------------------------------------------------------------
(* Copies from and to user space                                           *)

Copying(c, phase, off, n) ==
    /\ pc' = "copy"
    /\ call' = [c EXCEPT !.phase = phase, !.off = off, !.n = n, !.done = 0, !.err = 0]
Copied(err) ==
    /\ pc' = "copied"
    /\ call' = [call EXCEPT !.err = err]
Undisturbed == UNCHANGED <<ret, cause, pending>> /\ UNCHANGED terminal /\ UNCHANGED tables

(* memcpy_from_user, memcpy_to_user, strncpy_from_user                     *)
CopyBegin ==
    /\ pc = "copy"
    /\ \/ call.buf.kernel /\ Copied(-EFAULT) /\ UNCHANGED fixup
       \/ ~call.buf.kernel /\ pc' = "bytes" /\ fixup' = TRUE /\ UNCHANGED call
    /\ Undisturbed

CopyByte ==
    /\ pc = "bytes" /\ call.done < call.n /\ call.off + call.done < call.buf.mapped
    /\ call' = [call EXCEPT !.done = @ + 1]
    /\ UNCHANGED <<pc, fixup>> /\ Undisturbed

CopyFault ==
    /\ pc = "bytes" /\ call.done < call.n /\ call.off + call.done >= call.buf.mapped
    /\ do_x86_page_fault_exception
    /\ UNCHANGED <<call, fixup, ret, fifo, console, pending>> /\ UNCHANGED tables

(* Faulty: the fixup stays set after a copy.                               *)
CopyEndWithFixup ==
    /\ pc = "bytes" /\ call.done = call.n
    /\ Copied(0)
    /\ UNCHANGED fixup /\ Undisturbed
CopyEnd ==
    /\ pc = "bytes" /\ call.done = call.n
    /\ fixup' = FALSE
    /\ Copied(0)
    /\ Undisturbed

(* __memcpy_user_fixup                                                     *)
Fixup ==
    /\ pc = "fixup"
    /\ fixup' = FALSE
    /\ Copied(-EFAULT)
    /\ Undisturbed

(* raw_strncpy_from_user: bytes read, and the string copied                *)
Ends(b) == {i \in 1..Least(NAME_LEN - 1, Len(b)) : b[i] = "NUL"}
NameRead(b) == IF Ends(b) = {} THEN NAME_LEN - 1 ELSE CHOOSE i \in Ends(b) : \A j \in Ends(b) : i <= j
NameCopied(b) == SelectSeq(SubSeq(b, 1, NameRead(b)), LAMBDA c : c # "NUL")
-----------------------------------------------------------------------------
(* System calls                                                            *)

Answer(c, val) ==
    /\ pc' = "user"
    /\ call' = c
    /\ ret' = val

(* syscall_entry: the process calls; what it prints is counted from here.  *)
Enter(j) ==
    /\ pc = "user" /\ job' = j
    /\ console' = << >> /\ pending' = MaxInterrupts
    /\ UNCHANGED <<fixup, fifo, irq>>
Quietly == UNCHANGED <<text, cause>>
Made(nr, buf) == [NoCall EXCEPT !.nr = nr, !.buf = buf]

sys_exit(status) ==
    /\ Enter([fmt |-> <<"%", "d">>, args |-> <<status>>])
    /\ call' = Made("exit", NoBuffer)
    /\ panic("exit", <<"%", "d">>, <<status>>)
    /\ ret' = 0 /\ UNCHANGED descs

(* What happens in process_wait is Scheduler's.                            *)
sys_wait ==
    /\ Enter(NoJob) /\ Quietly
    /\ Answer(Made("wait", NoBuffer), 0)
    /\ UNCHANGED descs

sys_getevents(buf) ==
    /\ Enter(NoJob)
    /\ \/ buf.mapped > 0 /\ Answer(Made("getevents", buf), 0) /\ Quietly
       \/ /\ buf.mapped = 0 /\ call' = Made("getevents", buf)
          /\ do_x86_page_fault_exception /\ ret' = 0
    /\ UNCHANGED descs

sys_subscribe(buf) ==
    /\ Enter(NoJob) /\ Quietly
    /\ Copying(Made("subscribe", buf), "name", 0, NameRead(buf.bytes))
    /\ ret' = 0 /\ UNCHANGED descs

sys_acquire(buf) ==
    /\ Enter(NoJob) /\ Quietly /\ descs < MaxDescs
    /\ Copying(Made("acquire", buf), "name", 0, NameRead(buf.bytes))
    /\ ret' = 0 /\ UNCHANGED descs

(* DeviceSpace::lookup lets the length of the table pass.  The length the  *)
(* process gives does not reach get_config: syscall_entry passes rcx, its  *)
(* return address, as the fourth argument.                                 *)
sys_get_config(desc, buf) ==
    /\ Enter(NoJob)
    /\ \/ /\ desc = descs /\ call' = Made("get_config", buf)
          /\ panic("index", <<"H">>, << >>) /\ ret' = 0
       \/ Answer(Made("get_config", buf), -EINVAL) /\ Quietly /\ desc # descs
       \/ /\ desc >= 0 /\ desc < descs
          /\ Copying(Made("get_config", buf), "config", 0, CONFIG_SIZE)
          /\ Quietly /\ ret' = 0
    /\ UNCHANGED descs

sys_vmspace_alloc(buf, size) ==
    /\ Enter(NoJob) /\ Quietly
    /\ \/ size # VMR_SIZE /\ Answer(Made("vmspace_alloc", buf), -EINVAL)
       \/ /\ size = VMR_SIZE /\ ret' = 0
          /\ Copying(Made("vmspace_alloc", buf), "vmr in", 0, VMR_SIZE)
    /\ UNCHANGED descs

UnknownCall ==
    /\ Enter(NoJob) /\ Quietly
    /\ Answer(Made("unknown", NoBuffer), -ENOSYS)
    /\ UNCHANGED descs

(* The loop of sys_console_print, off bytes of which are printed           *)
Chunks(c, off) ==
    IF off = Len(c.buf.bytes) THEN Answer(c, off)
    ELSE Copying(c, "chunk", off, Least(BUF_SIZE, Len(c.buf.bytes) - off)) /\ ret' = 0

sys_console_print(buf, j) ==
    /\ Enter(j) /\ Quietly
    /\ Chunks(Made("console_print", buf), 0)
    /\ UNCHANGED descs

(* vfprintf of liblinux: "%<directive>,%s"                                 *)
vfprintf(directive, number, string) ==
    LET fmt == <<"%">> \o directive \o <<",", "%", "s">>
        out == Printed(fmt, <<number, string>>)
    IN  sys_console_print([kernel |-> FALSE, bytes |-> out, mapped |-> Len(out)],
                          [fmt |-> fmt, args |-> <<number, string>>])

-----------------------------------------------------------------------------
(* What follows a copy                                                     *)
After(phase) == pc = "copied" /\ call.phase = phase
Returned(val) ==
    /\ Answer(call, val)
    /\ UNCHANGED <<fixup, cause, pending, irq, job>> /\ UNCHANGED terminal

WriteChunk ==
    /\ After("chunk") /\ call.err = 0
    /\ text' = SubSeq(call.buf.bytes, call.off + 1, call.off + call.n)
    /\ pc' = "poll"
    /\ UNCHANGED <<call, fixup, ret, cause, fifo, console, pending>> /\ UNCHANGED tables

ChunkWritten ==
    /\ pc = "poll" /\ text = << >> /\ cause = "none"
    /\ Chunks(call, call.off + call.n)
    /\ UNCHANGED <<fixup, cause, pending>> /\ UNCHANGED terminal /\ UNCHANGED tables

(* Every error but that of get_config's copy is returned.                  *)
CopyFailed ==
    /\ pc = "copied" /\ call.err # 0 /\ call.phase # "config"
    /\ Returned(call.err)
    /\ UNCHANGED descs

(* process_subscribe gets the address of the name as its descriptor.       *)
Subscribe ==
    /\ After("name") /\ call.err = 0 /\ call.nr = "subscribe"
    /\ Returned(-EINVAL)
    /\ UNCHANGED descs

(* process_acquire: the descriptor stays when the device refuses.          *)
Acquire ==
    /\ After("name") /\ call.err = 0 /\ call.nr = "acquire"
    /\ IF NameCopied(call.buf.bytes) \in NAMESPACE
       THEN descs' = descs + 1 /\ \E val \in {descs, -ENOMEM} : Returned(val)
       ELSE Returned(-EINVAL) /\ UNCHANGED descs

VmspaceAlloc ==
    /\ After("vmr in") /\ call.err = 0
    /\ \/ Returned(-ENOMEM) /\ UNCHANGED descs
       \/ /\ Copying(call, "vmr out", 0, VMR_SIZE)
          /\ UNCHANGED <<fixup, ret, cause, pending>> /\ UNCHANGED terminal /\ UNCHANGED tables

VmspaceAllocated ==
    /\ After("vmr out") /\ call.err = 0
    /\ Returned(0)
    /\ UNCHANGED descs

ConfigCopied ==
    /\ After("config")
    /\ Returned(0)
    /\ UNCHANGED descs
-----------------------------------------------------------------------------
Init ==
    /\ pc = "boot" /\ call = NoCall /\ fixup = FALSE /\ ret = 0
    /\ text = << >> /\ cause = "none" /\ fifo = 0 /\ console = << >>
    /\ descs = 0 /\ irq = [next |-> NR_EXCEPTIONS, handlers |-> {}]
    /\ pending = MaxInterrupts /\ job = NoJob

Kernel ==
    \/ Poll \/ Store \/ Halt
    \/ CopyBegin \/ CopyByte \/ CopyFault \/ CopyEnd \/ Fixup
    \/ WriteChunk \/ ChunkWritten \/ CopyFailed
    \/ Subscribe \/ Acquire \/ VmspaceAlloc \/ VmspaceAllocated \/ ConfigCopied

Process ==
    \/ sys_wait \/ UnknownCall \/ UserFault
    \/ \E status \in Statuses : sys_exit(status)
    \/ \E buf \in Buffers :
          \/ sys_console_print(buf, NoJob) \/ sys_getevents(buf)
          \/ sys_subscribe(buf) \/ sys_acquire(buf)
          \/ \E desc \in Descs : sys_get_config(desc, buf)
          \/ \E size \in {VMR_SIZE, VMR_SIZE + 1} : sys_vmspace_alloc(buf, size)
    \/ \E d \in Directives, n \in Numbers, s \in Strings : vfprintf(d, n, s)

Next ==
    \/ request_irq \/ Boot \/ Uart \/ Kernel \/ Process \/ Exception
    \/ \E vector \in NR_EXCEPTIONS..(NR_INTERRUPT_VECTORS - 1) : Interrupt(vector)

(* The kernel goes on executing, and the UART sends what it is given.      *)
Spec == Init /\ [][Next]_vars /\ WF_vars(Kernel) /\ WF_vars(Uart)
-----------------------------------------------------------------------------
(* Bytes of a buffer that console_print prints: all of it, or the chunks   *)
(* before the one that faults                                              *)
Accessible(buf) ==
    IF buf.kernel THEN 0
    ELSE IF buf.mapped >= Len(buf.bytes) THEN Len(buf.bytes)
    ELSE (buf.mapped \div BUF_SIZE) * BUF_SIZE

(* What console_print sends is what its buffer holds, in order, whatever   *)
(* interrupts print between a poll of the UART and the write that follows; *)
(* it returns the length, or -EFAULT after the chunks before a fault       *)
(* (usr/tests/tst-console_print.c).  A panic's message is written in full  *)
(* before the processor halts.                                             *)
OutputIsExact ==
    /\ pc = "user" /\ call.nr = "console_print" =>
         LET buf == call.buf
             n == Accessible(buf)
         IN  /\ From("user") = [i \in 1..n |-> Sent(buf.bytes[i])]
             /\ ret = IF n = Len(buf.bytes) THEN n ELSE -EFAULT
    /\ pc = "halted" =>
         From("panic") = IF cause = "exit" THEN Stored(MSG_SIZE, Printed(job.fmt, job.args)) ELSE <<"H">>

(* A page fault in a copy never halts the kernel; the fixup is set during  *)
(* a copy only, so that no later fault is taken for one of a copy; and a   *)
(* copy that fails makes its system call fail, except that get_config      *)
(* returns 0 all the same.                                                 *)
CopyFaultsAreErrors ==
    /\ cause = "page fault" => call.nr \in {"none", "getevents"}
    /\ fixup /\ cause = "none" => pc \in {"bytes", "fixup"}
    /\ pc = "user" /\ call.err # 0 => ret = IF call.nr = "get_config" THEN 0 ELSE call.err

NumberRead(s, base) ==
    LET digits == SelectSeq(s, LAMBDA c : c \notin {" ", "-"})
        n == FoldLeft(LAMBDA v, c : v * base + ValueOf(c), 0, digits)
    IN  IF Contains(s, "-") THEN -n ELSE n

NumberMeant(n, directive) ==
    LET mod == IF Contains(directive, "l") THEN LONGMOD ELSE INTMOD
        v == n % mod
    IN  IF Last(directive) = "d" /\ v >= mod \div 2 THEN v - mod ELSE v

(* The number that printf has put on the console reads back as the         *)
(* argument, in the type its conversion names, and what follows it is the  *)
(* string of the next conversion (format, format_number, pop_int).         *)
NumbersReadBack ==
    pc = "user" /\ call.nr = "console_print" /\ job # NoJob =>
        LET out == From("user")
            comma == SelectInSeq(out, LAMBDA c : c = ",")
            directive == SubSeq(job.fmt, 2, Len(job.fmt) - 3)
            base == IF Last(directive) \in {"x", "X"} THEN 16 ELSE 10
        IN  /\ NumberRead(SubSeq(out, 1, comma - 1), base) = NumberMeant(job.args[1], directive)
            /\ SubSeq(out, comma + 1, Len(out)) = job.args[2]

(* A system call returns, or the kernel halts: a fault in a copy is not    *)
(* taken again and again, and console_write does not wait forever.         *)
SystemCallsReturn == (pc \notin {"boot", "user"}) ~> (pc \in {"user", "halted"})
=============================================================================

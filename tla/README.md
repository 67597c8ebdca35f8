# Manticore in TLA+

Models of the Manticore kernel and its user space libraries, checked with TLC
on small instances, and theorems about eight of them proved with TLAPS for
every value of their constants. Paths are relative to `src/`.

## The system

Manticore is a small x86_64 kernel in C and Rust. It has one CPU, no
preemption, and `initrd_load` spawns one process. The kernel and the process
talk through two rings in shared memory:

    device --irq--> driver --event queue--> liblinux --> echod
      ^                                        |
      +---- process_io <---- I/O queue <-------+

A packet is written by the device to the driver's only receive page. The
interrupt handler puts an event in the event queue; `epoll_wait` parses the
page in place, and puts `Submit` (send) and `Complete` (give the page back)
commands in the I/O queue. These are performed when the process calls `wait`,
which then gives the CPU to the idle task. Below this are the page allocator,
the slab allocator, address spaces with their page tables, and `malloc`. Beside
it are the other system calls, which copy from and to the process's memory and
write to the serial console, and `lib/libfdt`, the device tree library that the
AArch64 port links (`arch/aarch64/Makefile:16`).

## Modules

| module | code | state and actions |
|---|---|---|
| `BoundedFIFO` | what a ring promises | a queue with a limit |
| `AtomicRingBuffer` | `kernel/atomic-ring-buffer.c` and its user space twin | offsets and slots; an action per shared load, store and half of the copy |
| `Scheduler` | `kernel/sched.rs`, `kernel/init.c`, `arch/x86_64/thread.c` | run and wait queue, process states, saved contexts, what the CPU executes; `schedule`, `process_wait`, idle task, interrupts |
| `Virtqueue` | `drivers/virtio/virtqueue.rs` | the three wrapping indices of a queue |
| `VirtioNet` | `drivers/virtio/net.rs`, `kernel/event.rs`, `kernel/ioqueue.rs` | pages, queues, the device; the steps of `recv`, `acquire`, `process_io_one` |
| `BufferCustody` | what driver, process and device agree on | whose the receive page is, and what is in it |
| `NetPath` | `usr/liblinux` (epoll, net, arp, ip, socket), `usr/echod` | composes the driver with the process; `pc` says where the process is; implements `BufferCustody` |
| `Allocator` | what `page_alloc` and `malloc` promise | the blocks handed out |
| `MemoryArena` | `kernel/memory.rs`, `parse_memory_map` | free segments of two arenas, pages in use; implements `Allocator` |
| `Kmem` | `mm/kmem.c` | free pages, the slab lists of three caches, objects in use |
| `VMSpace` | `kernel/vm.rs`, `mm/mmu.c`, `arch/x86_64/mmu.c`, `kernel/process.rs` | regions, page tables, allocator counters, the progress of spawn (`stage`, `loaded` segments) and acquire |
| `ArpCache` | `arp_cache.c` | the entries; `latest` is a history variable |
| `Malloc` | `usr/liblinux/src/malloc.c` | pages, segment queue, size classes, live objects; implements `Allocator` |
| `FdtBlob` | `lib/libfdt/fdt.c`, `fdt_ro.c` | operators on a blob (header fields and bytes): tag walks, lookups, paths, string lists |
| `FdtWrite` | `fdt_sw.c`, `fdt_rw.c`, `fdt_wip.c`, `fdt_empty_tree.c` | operators from a blob to the blob and code a writer leaves |
| `FdtTree` | what the writers promise | a map from paths to properties, and reserved memory |
| `FdtEdit` | a caller of `libfdt` | the blob and the caller's stage; an action per call; implements `FdtTree` |
| `FdtOverlay` | `fdt_overlay.c` | base, overlay and the stage of `fdt_overlay_apply`; an action per stage and per fragment |
| `Printf` | `kernel/printf.c`, `usr/liblinux/src/stdio.c` | `format` and its conversions as operators |
| `SystemCalls` | `kernel/syscall.c`, `kernel/user-copy.c`, `arch/x86_64` (`user-copy.S`, `exceptions.c`, `irq.c`), `drivers/uart/8250.c`, `kernel/panic.c` | what the CPU executes, the call in progress, the fixup, the UART; an action per byte copied and per poll and store of a character |

`MC*` modules give constants their values. Operators marked "Faulty" are
mutations of the definition that follows them; no specification uses them, and
each must make the property it is paired with in `PROJECT.json` fail.

## Runs

| run | distinct states | shows |
|---|---|---|
| `ring` | 71,238 | the ring is a bounded FIFO queue under every interleaving; accepted elements are received |
| `scheduler` | 1,349 | processes have one place and valid contexts, `schedule` does not panic; an event ends a wait |
| `netpath` | 375,950 | the receive buffer is conserved; no page is reused while parsed; commands have room; reception goes on; datagrams are echoed |
| `arena` | 339 | pages are disjoint and not lost; the allocator owns available memory only, where spans have a large page border, also where two regions touch |
| `kmem` | 7,196 | pages have one owner; objects are conserved while each is freed to its own slab |
| `vmspace` | 116,261 | regions are disjoint, populated ones mapped, no frame is shared, also when pages run out |
| `arp_cache` | 423 | the table is a map to the latest MAC address, until it is full |
| `malloc` | 787,270 | blocks are conserved, live objects do not overlap |
| `fdt` | 3,253 | the bytes of a blob implement a tree; blocks do not overlap; a failed call can be retried with more room; every reader agrees with the tree |
| `fdt_overlay` | 2,750 | an overlay is merged whole, not at all, or the base is marked as damaged; phandles stay unique, references follow |
| `console` | 240,137 | output is exact, faults in copies become errors, numbers read back, system calls return |

One run, `netpath_tx`, is expected to end in a violation: a second `Submit`
overwrites the only transmit page before the device has sent the first packet
(`drivers/virtio/net.rs:340`), where `kernel/ioqueue.rs` says that commands are
performed.

Four properties hold in a form that names the case in which the code does not
do what a comment or a manual page says:

- `InsideAvailableMemory` has two cases: for a span without a large page border,
  `memory_add_span` registers memory outside its region (`kernel/memory.rs:165`).
- `ObjectsConserved` has one part under the condition that every object was
  freed while its own slab was the cache's first: `kmem_cache_free` counts an
  object into the first slab, and can free a page with objects in use
  (`mm/kmem.c:161`). The counts of the other part add up all the same.
- `ObjectsDisjoint` says which sizes have no size class: 1017 to 1023 have class
  128, one past the end of `heap->pages` (`usr/liblinux/src/malloc.c:79`).
- `CopyFaultsAreErrors` has `get_config` as its exception: it returns 0 when the
  value could not be copied (`kernel/sched.rs:131`, `man/get_config.txt:19`).

### Limits of what the runs show

- `Kmem` stops once an object in use lies in a freed page, `Malloc` once it has
  indexed past `heap->pages`, `MemoryArena` once memory outside the spans has
  been registered: what the code does from there depends on memory that is not
  modelled.
- `NetPath` assumes that a client resolves the server's address before it
  sends datagrams. Without that, `udp_sendto`'s assertion fails.
- The liveness properties of `NetPath` hold up to a kernel panic (a failed
  assertion of the process) and up to the receive page being stranded by a
  packet that arrives before `acquire` has set `rx_buffer_addr`. Both are
  disjuncts of the properties because both are reachable.
- `malloc` assumes zeroed segments; the contents of pages are not modelled.
- `MemoryArena` assumes (`RegionAssumption`) that the map describes no address
  twice, that regions end a large page or more below 2^64, and that what is left of a region above the kernel and the initrd keeps
  a page and is not rounded past the region's end: `parse_memory_map` rounds the
  base up and the length down, so for a base that is not page aligned it can be.
- `VMSpace` assumes (`LayoutAssumption`) that the segments of the image, the
  stack and the event buffer are not empty and apart. `allocate_fixed` does not
  see a region that begins below the new one and reaches into it, so for fixed
  addresses disjointness is the image's; above them it is `allocate`'s doing.
- `FdtEdit` calls `fdt_resize` in place, with sizes that hold what has been
  written. The function does not ask for that: it moves the head and the
  strings only, and checks only their sizes (`lib/libfdt/fdt_sw.c`).
- `ReferencesFollow` has two exceptions: a `linux,phandle` of the overlay that
  a `phandle` of the base hides, and a labelled node that the overlay itself
  gives another phandle.
- `RejectedOnlyIfBad` excepts the runs in which the uninitialized `ret` of
  `overlay_update_local_node_references` happens to be `-FDT_ERR_NOTFOUND`
  (`lib/libfdt/fdt_overlay.c:275`); the model chooses whether it is.
- `OutputIsExact` needs the UART's FIFO: an interrupt that prints between the
  poll and the store of a character leaves the transmitter busy when the
  character is stored. Without a FIFO, which is its mutant, it is lost.
- The widths in `console`'s formats are never less than what is printed: a
  width also cuts, and zeros come before a sign (`%04d` of -1 is `00-1`).

## Bounds

Every bound is a constant. The ring has four slots and a data area that is not
a whole number of elements. The scheduler has three processes, more than the
system spawns. In `netpath` indices wrap after 4 (2^16 in the code), packets
have up to `MaxFrames` = 2 frames, and a packet arrives only when fewer than
`MaxOwed` = 1 replies wait for transmission; the I/O queue has the 3 entries
`RoomForCommands` needs for that, far fewer than the code's. The arenas use
pages of 2 and 8 addresses and three memory maps, one with a region without a
large page border and one with regions that touch; `kmem` 6 pages and 2 objects
per slab; `vmspace` starts with any number of pages left, so that each step can fail;
`arp_cache` has 3 entries for 4 addresses, so that the table fills up;
`malloc` has 2 segments of 2 pages and 2 block sizes, and is run to exhaustion.

Device tree blobs are scaled down: a word has two bytes, the header two, a
reserve map entry one and one. `fdt` begins with an empty buffer of 18 or 24
bytes, too small for the larger trees, or with one of two blobs a boot loader could
pass (version 17; version 16 with its blocks in another order); a tree is opened
into 46 or 84 bytes and changed by `MaxEdits` = 2 calls, each of which can run
out of space. Among the values is a string without its NUL, and one node name is
the other with a unit address. `fdt_overlay` applies `MaxApply` = 2 of sixteen
overlays, four of them well formed, to four bases, one with little room and one
whose phandles are close to the largest.

In `console` an `int` has 4 bits and a `long` 5; numbers of one and two digits
and the ends of both types are tried with every conversion. Chunks have 2
bytes, buffers up to 5, and a buffer of 3 is mapped to any length. One interrupt may come during
each system call (`MaxInterrupts`), between any two steps, which is enough to
put its warning between a poll and a store. There are 3 interrupt vectors,
requested up to `MaxRequests` = 3 times, and `MaxDescs` = 1 descriptor.

Deadlock checking is off where the system may stop: after a panic
(`scheduler`, `netpath`, `console`), when the bound on addresses is reached or spawning
has failed (`vmspace`), in a faulted state (`arp_cache`), when the bounds on
edits and overlays are reached (`fdt`, `fdt_overlay`), and in the stopped states
of `kmem`, `malloc` and `arena`.

## Fairness

- `ring`: neither side stops inside a call, and the consumer returns to a
  non-empty ring. The producer need not append.
- `scheduler`: the kernel keeps executing and the APIC timer is periodic. A
  running process eventually waits or exits: the code does not enforce this,
  there is no preemption, so it is an assumption about programs.
- `netpath`: the CPU executes, raised interrupts are delivered, the timer is
  periodic. Nothing is assumed of the network or of the device's transmission.
- `console`: the kernel keeps executing and the UART sends what is in its FIFO;
  `console_write` polls it without a limit. Nothing is assumed of the process or
  of interrupts.

## Proofs

Each follows one pattern: an inductive invariant, one lemma per action, and
the properties as consequences. TLC has checked each inductive invariant on
the instance of the run, in every state the run reaches, with what ranges over
all numbers cut to the addresses of the instance. No run repeats this: the
proofs cover it. Every safety invariant of these eight modules that a run
checks is proved.

| module | proved | for every | from |
|---|---|---|---|
| `AtomicRingBuffer_proofs` | `NoOverwriteWhileReading`, the refinement of `BoundedFIFO`, `TypeOK`, `FrontAfterIsEmptyIsNotNull`, `ReadsOldestElement` | buffer, header and element size | `SizeAssumption`, `JunkAssumption` |
| `Scheduler_proofs` | `OnePlace`, `QueuedHasContext`, `NoBorrowPanic`, `TypeOK`, `NoOvertaking` | set of processes | `ProcsAssumption`, `LimitAssumption` |
| `ArpCache_proofs` | `OneEntry`, `LookupIsLatest`, `FaultsOnlyWhenFull`, `InsertIsLocal` | table size and hash function | `SizeAssumption`, `HashAssumption`, `AnyIpAssumption` |
| `NetPath_proofs` | `RxBufferConserved`, `EventDescribesPage`, `RoomForCommands`, `SenderIsResolved`, the refinement of `BufferCustody` | set of clients, ring size, index width, packet length | `IdxAssumption`, `LimitAssumption`, `PathAssumption`, `RoomAssumption` |
| `MemoryArena_proofs` | `PagesDisjoint`, `NoMemoryLost`, `InsideAvailableMemory`, the refinement of `Allocator` | memory map and page size | `PageAssumption`, `MapAssumption`, `RegionAssumption` |
| `Kmem_proofs` | `OneOwnerPerPage`, `ObjectsConserved` | number of pages and slab capacity | `KmemAssumption` |
| `Malloc_proofs` | `BlocksConserved`, `ObjectsDisjoint`, the refinement of `Allocator` | block, page and segment size | `SizesAssumption` |
| `VMSpace_proofs` | `RegionsDisjoint`, `PopulatedIsMapped`, `NoAliasing`, `NoMapConflict`, `TranslationsStay` | image, layout, number of pages, requested size and alignment | `VMAssumption`, `LayoutAssumption` |

The assumptions stand beside the constants they are about; `RegionAssumption`
and `LayoutAssumption`, which exclude memory maps and images, are under
"Limits" above. `RoomAssumption` says that the I/O queue holds more commands
than a packet has frames: a page of 24-byte commands against 1514 bytes with 14
for each frame. `PathAssumption` keeps the replies not yet sent below the number
of values of a virtqueue index.

Why the invariants are what they are:

- `RingInv` adds to the types which program counters imply a non-empty ring or
  a free slot, that the slot being copied is filled when published, that every
  slot between tail and head holds a whole element, and what the consumer has
  seen. The properties alone say nothing of slots not yet reached. Lemmas on
  `Wrap` and `NextOffset` translate offsets to slot numbers.
- `SchedInv` is the conjunction of the safety properties: none is inductive
  alone, as `schedule` relies on the state, the place and the context of a
  process agreeing.
- The invariant of `ArpCache` adds that entries agree with `latest` and that a
  fault means a full table. A least-element lemma shows that probing finds an
  entry if there is one.
- `PathInv` says for each of the five places of the receive buffer (device,
  `recv`, event, command, stranded) what the indices of the receive queue, the
  event queue and the I/O queue look like: `RxBufferConserved` counts, and a
  count does not say where the buffer may go next. `CommandBudget` bounds the
  commands queued at each point of the process by the frames parsed so far,
  and `AnsweredInCache` says of every buffer a reply or a client's datagram can
  be in that its client is in the ARP cache.
- `ArenaInv` adds that free segments are whole pages, aligned to their arena:
  so a page taken from the first segment, the only one `alloc` looks at, always
  fits. Two free segments touch only at a seam between registered pieces; all
  are available memory, and no registered address is forgotten. A map with a span without a
  large page border is followed to the end of parsing, which shows the other
  case of `InsideAvailableMemory`.
- `KmemInv` holds whether or not an object was freed to another slab: free
  objects are listed once, are not in use, and lie in the page of their own or
  of an older slab, which is why freeing a page leaves no list pointing into
  it. Objects in use lie in a slab's page, or (after such a free) in a freed
  one. `NrFree` is a sum over the slab list; its lemmas show what a push, a pop
  and a removed slab do to it.
- `MallocInv` says that a page has as many blocks as it has room for, that its
  free list has each of its own blocks at most once, and that a block is free or
  in use. That a size class has a page of its size, and one that has been
  claimed, is needed for the request to fit.
- `VMInv` adds to the properties that page tables and large pages exclude each
  other, that every frame in use has been given out by the allocator, and that
  nothing is mapped, and no page table stands, outside the regions, until a
  failed spawn has dropped them. So a new region finds its pages unmapped and
  no page table where it wants a large page, although what a failed mapping has
  built stays. `mmu_map_range` and `populate_from` are loops: their lemmas give
  what holds after each round, by the least round at which it would not. That a
  set of numbers has a least one (`LeastNumber`) is a hypothesis of these lemmas
  and is discharged once, where the invariant is put together.

What a step may do, proved from the same invariants:

- `ImplementsAllocator` (pages, and the objects of `malloc`): with the blocks in
  use as its only state, each step hands out one block that is clear of all
  others, takes one back, or changes nothing. A block in use is not moved or
  resized by splitting, merging, taking a segment or releasing a page. A step
  that changes nothing must not be an allocation that returned a block in use a
  second time, so the property adds, for `malloc`, that a call that returns an
  object takes one. A second hand-out of a page would leave the whole state of
  `MemoryArena` as it was, so there the property is about the state before it:
  the page `alloc` would return next is clear of all pages in use
  (`NextPageIsClear`). Both follow from free memory being apart from memory in
  use (`UsedApart`, and `LiveInv` with the blocks of a page being its own).
- `ImplementsCustody` (`NetPath`): the receive page goes from the device to
  `recv`, to the process, into a `Complete` command and back to the device, in
  this order only, and its contents change only when the device fills it.
  `RxBufferConserved` says that it is in one place at a time; this says which
  place comes next. The five places of `PathInv` are the owners, and three kinds
  of steps change the receive queue (`StepKinds`).
- `NoOvertaking` (`Scheduler`): while a process waits or is ready, no process
  that is behind it or not in line (running, or not yet spawned) gets in front of
  it or is given the CPU before it. New and waiting processes join at the end,
  `wake_up_processes` appends the wait queue in its order, and `schedule` takes
  the first.
- `InsertIsLocal` (`ArpCache`): inserting an address changes what `lookup`
  returns for that address only, wherever probing puts the entry.
- `TranslationsStay` (`VMSpace`): a mapped page stays mapped to its frame. The
  comment on `mmu_map_range` (`mm/mmu.c:9`) leaves it to callers to invalidate
  the TLB; `kernel/vm.rs` does not, and this is why it need not. The lemma on
  each operation has this conjunct (`Stays`), including the error paths.

Type correctness and the two ring properties `FrontAfterIsEmptyIsNotNull` and
`ReadsOldestElement` are proved and not checked by a run of their own: the
refinement, which a run checks, rests on the same facts. The action properties
and refinements of the list above are proved as well and not part of a
configuration; TLC finds them true in every step of the runs `arena`, `malloc`,
`netpath`, `scheduler`, `arp_cache` and `vmspace` when they are added there.

Only model-checked: all liveness properties (fairness and ENABLED are beyond
the prover). The device tree modules, `Printf` and `SystemCalls` use recursive
operators, about which the prover cannot reason, so `ImplementsTree` is a
refinement on bounded trees only. The ring's memory accesses are sequentially
consistent in the model: the acquire and release orderings are taken to be
sufficient, and that is not itself proved.

## Not modelled

`PROJECT.json` lists every part with its status. Left out entirely:

- PCI probing, boot and CPU set-up: straight-line code that runs once with
  interrupts off and talks to devices.
- The AArch64 port: its page table functions are not implemented, so no process
  runs there. Its one use of `libfdt`, the search for the memory node, is
  left out with it, and so is `fdt_addresses.c`.
- `fdt_strerror.c`, `print.rs`, the pl011 UART, and most of `lib/libc` and of
  the user space string functions.

Left out of modelled parts: header contents and checksums, the socket table, ELF
parsing (an external crate), `kmem_cache_create` and `kmem_cache_destroy`
(called only by the self test of `HAVE_TEST` builds), the borrow flags of
`RefCell` except in `schedule`, the registers of interrupt controllers, and the
dump of an exception frame.

Seen while modelling and outside of what the models state:

- `arch/x86_64/entry.S:105` says that the calling convention is that of Linux,
  with the fourth argument in `r10` (`:111`); the code takes it from `rcx`
  (`:136`), where `syscall4` puts it and where the `syscall` instruction then
  puts its return address. The length given to `get_config`, the only system
  call with four arguments, does not reach it; the model copies the whole value.
- `sys_exit` panics; `man/exit.txt:19` says that it "terminates the calling
  process and releases all kernel resources associated with it".
- `DeviceSpace::lookup` lets the length of the table pass as an index
  (`kernel/device.rs:122`); the model has the panic that follows.
- The sizes of text buffers (`vsnprintf`'s terminator, `kernel/printf.c:314`;
  `__assert_fail`'s message, `kernel/panic.c:33`; `vfprintf`,
  `usr/liblinux/src/stdio.c:317`) are respected by the callers modelled here.

When `process_spawn` fails, `VMSpace` records the pages the dropped address
space frees in `freed`, but does not hand them out again: nothing else maps
user memory afterwards.

## Plan

1. PCI capability walk and BAR sizing against reference definitions.
2. Borrow flags of the event queue and the driver under interrupts.
3. A composition of `VMSpace` with `MemoryArena`, in which the pages freed by
   a failing spawn get a new owner; a retried `acquire` with two listeners.

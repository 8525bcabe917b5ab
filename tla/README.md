# AmitX: TLA+ models, model checking and proofs

AmitX is a small x86 kernel: a priority scheduler with blocking locks, memory
managers, a driver tree (kscope), the SmKFS journaling file system on an IDE
drive, an executable loader, and a text and graphics user interface.  This
directory holds TLA+ models of its core logic, TLC configurations that check
them on small instances, and TLAPS proofs of the properties that matter most.

Paths below are relative to the repository root.

## 1. Inventory

| Part | State | Operations | Interacts with |
|---|---|---|---|
| SmKFS block cache (`fs/smkfs/bcache.c`, `block.c`) | an array of buffers (valid, dirty, block, data) per mount | lookup/fill/evict, write, flush, init, shutdown | IDE driver below; every other SmKFS file above |
| SmKFS journal (`journal.c`), mount/unmount (`super.c`) | `journal_head/tail/sequence` in `mnt->sb` and in block 0, `journal_next_sequence`, `journal_in_transaction`, the journal blocks | start, log, commit, abort, checkpoint, replay; mount, sync, unmount, mkfs | block cache below; records, MRT, bitmap, tree above |
| Allocation bitmap (`bitmap.c`) | bitmap blocks, a cache of region summaries, free counts | alloc/free range, count, rebuild | journal, block cache |
| Metadata record table (`mrt.c`) | table of record locations with generations | alloc, update, free, lookup | journal, bitmap |
| Records, attributes, extents, inodes (`record.c`, `attr.c`, `extent.c`, `inode.c`) | record blocks holding packed attributes | read, write, add/remove attribute, map extents | journal, MRT, bitmap |
| Directory tree (`btree.c`) | B+ tree nodes | lookup, insert (split), delete (borrow, merge) | journal, bitmap, directories |
| Files, directories, links, paths (`file.c`, `dir.c`, `link.c`, `path.c`) | none of their own | create, read, write, truncate, delete, mkdir, link, symlink, resolve | everything above |
| Scheduler and tasks (`arch/x86/common/scheduler.c`, `arch/x86/64/task.c`) | ready queues and their bitmap, current task, task table, timer wheel, wait queues | create, destroy, yield, sleep, wake, exit, block, tick, boost, reap | PIT interrupt, locks |
| Locks (`sync/`) | spinlock word, mutex owner and waiters, semaphore units and waiters | acquire/release, lock/trylock/unlock, wait/trywait/signal | scheduler; used by the ACPI OS layer |
| Memory (`mm/`) | frame bitmap and count, page tables, heap block list, mapping window bitmap | alloc/free of pages, map/unmap, malloc/free | everything |
| AMFS (`fs/amfs.c`) | superblock, block bitmap, inodes, directory slots | format, mount, create, mkdir, write, read, delete | IDE driver; editor and shell above |
| kscope (`kernel/kscope.c`) | tree and table of nodes with states and dependencies | register, init in dependency order, shutdown, query | start-up, every driver |
| Loader and AMX (`exec/`) | loaded images | load, map, relocate, run, clean up | file system, memory |
| IDE (`hw/ide.c`) | registers of the drive | identify, read, write, flush | file systems |
| Network (`hw/e1000.c`) | two descriptor rings, packet list, link flag | init, send, interrupt handler, dequeue, shutdown | PCI, interrupts |
| PCI (`hw/pci.c`), SVGA (`hw/svga.c`) | device list, next free addresses; mode, mappings, FIFO | scan, size and assign BARs; set mode, map, update | drivers; framebuffer |
| Keyboard, mouse (`drivers/`) | key buffer, modifiers; packet state, pointer, cursor | interrupt handlers, blocking read, poll, flush, cursor | interrupts, user interface |
| Graphics (`gfx/`) | framebuffer, window table, handles, z-order | draw, present; create, move, show, focus, destroy, compose | SVGA, mouse, syscalls |
| User interface (`ui/`, `screen/`, `shell/`) | editor buffer, menus, screen cells | edit, print, list | graphics, keyboard, AMFS |
| ACPI (`acpi/`, `third_party/acpica`) | vendored ACPICA over an OS layer | thread, mutex and semaphore wrappers | locks, scheduler |

What is hard here: power failures between any two sector writes, and drive
errors at any transfer (cache, journal, mount); a circular journal that wraps
and fills up; calls that fail half way through several steps; timer interrupts
that interleave with every task, lists that are changed by both; blocking with
a lock held; allocators at their limits; reference counts and dependency
orders.  `PROJECT.json` lists the chief hazards line by line.

What makes each part correct:

* *Block cache.* One buffer per block, clean buffers equal the drive, a failed
  call is invisible, a successful flush is durable.
* *Journal.* What a commit that returned `SMKFS_OK` wrote survives everything
  that may follow; a crash leaves a journal that can be replayed; replay never
  brings back old contents; a transaction that did not commit leaves no trace.
* *Bitmap, MRT, extents, tree.* No block belongs to two owners; free counts
  equal the bits; a stale record reference is recognised; the tree equals a
  sorted map after any insert or delete.
* *Scheduler and locks.* A ready task is on exactly the queue of its priority;
  a sleeping or timed waiter is on the wheel; no wake-up is lost; a mutex has
  one owner; boosts end with the unlock; nobody waits for ever for a lock that
  is free.
* *Memory.* No page or heap block is handed out twice; neighbours merge.
* *kscope.* A node runs only after what it requires, and stops before it.
* *Drivers.* A transfer that reports success moved what was asked for; nothing
  is delivered twice or out of order; a full ring drops; a waiting reader is
  served.
* *Loader.* What was allocated is freed once; a program starts with its image
  relocated once.
* *Windows, editor, drawing.* Every handle in the z-order has its window; a
  stale handle finds none; the cursor's line is in sight; shapes are what they
  claim to be and stay on their surface.

## 2. Modules

| Module | Models | Uses |
|---|---|---|
| `BlockStore` | what SmKFS may assume of its block layer (abstract) | |
| `BlockCache` | `bcache.c` and `block.c` over a drive that fails and tears | instantiates `BlockStore` |
| `Journal` | `journal.c`, mount/sync/unmount of `super.c`, the logging disciplines of `record.c`, `btree.c`, `mrt.c`, `bitmap.c` | assumes what `BlockStore` promises |
| `JournalProofs` | proofs about `Journal` | `Journal` |
| `Bitmap` | `bitmap.c`: the block allocator, its region counts and `sb.free_blocks` | |
| `VolumeProofs` | proofs about `Bitmap` and `Amfs` | `Bitmap`, `Amfs`, instantiates `FoldLemmas` |
| `Heap` | `mm/heap.c`: malloc, calloc, free, realloc over a growing arena | |
| `Memory` | `mm/pmm.c`, `map_page` and `unmap_page` of `mm/paging.c`, `mm/vmm.c`, `heap_commit_to` | |
| `MemoryProofs` | proofs about `Memory` and `Pci` | `Memory`, `Pci` |
| `Scheduler` | `scheduler.c`, `64/task.c`, the timer interrupt, `sync/` | |
| `FoldLemmas` | sums over sets of numbers and folds over sequences, as lemmas | |
| `SchedulerProofs` | proofs about `Scheduler` | `Scheduler`, instantiates `FoldLemmas` |
| `DirMap` | what a directory promises: a map (abstract) | |
| `BTree` | `btree.c` | instantiates `DirMap` |
| `Files` | `mrt.c`, `record.c`, `attr.c`, `extent.c`, `inode.c`, `dir.c`, `link.c`, `path.c`, `file.c` | assumes what `DirMap` promises |
| `SmkfsProofs` | proofs about `BlockCache` and `Files` | these two, instantiates `FoldLemmas` |
| `Amfs` | `fs/amfs.c` | |
| `KScope` | `kernel/kscope.c` | |
| `Ide` | `hw/ide.c` and the drive | |
| `Nic` | `hw/e1000.c` and the card | |
| `Input` | `keyboard.c`, `mouse.c`, the cursor part of `fb_present` | |
| `Exec` | `exec/amx.c`, `exec/loader.c` | |
| `Windows` | `window.c`, `compositor.c`, the window calls of `syscall.c` | |
| `DeviceProofs` | proofs about `Ide`, `Nic` and `Input` | these three |
| `Pci` | `hw/pci.c` | |
| `Editor` | `ui/text_editor.c` | assumes of AMFS what its calls return |
| `Svga` | `hw/svga.c`, `fb_init` and `fb_present` of `gfx/fb.c` | |
| `ProgramProofs` | proofs about `Heap`, `Exec`, `Windows` and `Svga` | these four, instantiates `FoldLemmas` |
| `Raster` | the drawing routines of `gfx/fb.c` | |
| `MC*` | instances for TLC; `MCScheduler`, `MCFileSystems` and `MCKernel` explore modules that share no state one after the other (`focus`) | |

### BlockStore, BlockCache

`BlockCache` keeps `cache` (the array of `_SMKFS_BLOCK_BUF`), `disk` (the
drive, block by block and sector by sector), `up`, and the result and buffer
of the last call.  SmKFS runs in one thread of control, so `read_block` and
`write_block` are one step each, split by what happens: a hit, a miss that is
filled (possibly after writing back slot 0, the victim when all slots are
dirty), or a failure of the write-back or of the fill.  `disk_write_block`
writes sector after sector and returns at the first error, so a failure may
leave any prefix of the new sectors on the drive (`Torn`).
`block_cache_flush` tries every dirty slot; `Flush(n, done)` chooses how many
sectors of each reach the drive and which report success.  `Crash(n)` is a
power failure in the middle of such writes.

`BlockStore` is the promise: a volatile and a stable image, reads return the
volatile one, any call may make parts of it stable, a failed call changes
nothing visible, a successful flush makes everything stable, and a stop
leaves every sector old or new.  The refinement mapping takes the volatile
image of a block from its buffer if there is one and from the drive otherwise.
It takes a `disk_write_block` that returned success to have reached the drive;
the last sector of a write may fail unreported (`Ide`, below), which the two
models do not join.

### Journal

`Journal` works on top of that promise: for the metadata cells, the journal
blocks and the journal fields of block 0 it keeps what the cache holds (`mem`)
and the set of contents the drive may hold (`may`), which a write adds to, a
flush collapses and a power failure picks from.  Contents are the number of
the transaction that wrote them (or `Torn`, for a block whose sectors may be
mixed).  Cells come in the code's three disciplines: `Rec` (records and tree
nodes: log, then write), `Mrt` and `Bit` (write, then log, then undo when the
log fails); replay skips a bit whose bitmap block fails, not the others.

Each call is a sequence of steps separated where a power failure or an error
makes a difference: `LogWrite`/`PlaceWrite`, `PlaceUpdate`/`LogUpdate`/
`UndoUpdate`, `Commit`/`CommitFlush`/`CommitPublish`/`CommitRetire` (the
COMMIT entry, and the three flushes that make the entries, the head and the
tail stable), `Checkpoint`/`CheckpointFlush`/`CheckpointPublish`, the three
steps of `smkfs_unmount`, and `Mount` with the two passes of
`journal_replay`, which may be cut short (`ReplayCut`).  `pc` says where the
running call is.  `orphan` records a code path that matters: a
`journal_commit` that cannot write its COMMIT entry returns with
`journal_in_transaction` still set and none of its callers aborts; only
`smkfs_link`, which calls `journal_abort` on every failure, may close it.

`Durable` is about settled cells, and about volumes that no unmount was forced
on: what `smkfs_unmount` publishes after its checkpoint failed is not covered.
Ghost variables: `acked` and `unsettled` (the contents at the last successful
commit or checkpoint, and the cells changed since), `logged` (transactions
with a COMMIT entry), `forced` (an unmount went on after its checkpoint had
failed), `faults` and `crashes` (bounds).

### Bitmap

`used` is the set of blocks whose bit is set, `free` is `sb.free_blocks`
(counted modulo `W`, as the code's unsigned count is modulo 2^64), `rfree` and
`hint` are the region cache of the mount.  An allocation is a call record:
`AllocCall` opens it, the loop over the regions is `RegionSkipped` (count too
small, no run, or a read that fails), `RegionGiven` and `RegionRefused` (the
bits are set and the journal takes or refuses the entry), and when all regions
were tried the linear search ends in one of the four `Linear*` actions.
`bitmap_free_range` is `Free`, `FreeCut` (the drive fails in the middle) and
`FreeRefused` (the journal refuses, the bits are set again); `GiveBack` is the
`bitmap_clear` with which callers undo an allocation.  The undo functions are
modelled with what they really touch: `Set` and `Cleared` change the bits, the
superblock count and the region counts, and may fail at every block (`Passes`
splits a range into what was counted and what was written).  `InitRegions` and
`Shutdown` are mount and unmount.  Ghost variables: `owners` counts the callers
that were given a block and have not freed it, `refused` and `faults` record
that something has failed; `CountsExact` is stated until then.

### Heap

Addresses and sizes are in units of 16 bytes from `heap_base`, the rounding
that `malloc` applies.  `blk` is the list of headers by address, `brk` and
`end` are `heap_break` and `heap_end`.  `malloc`, `calloc` and `free` hold
`heap_lock` with interrupts off, so each is one step: a fit (split when more
than a header remains), the first block, or growth at the break.  Growth
commits page after page; when it fails the pages committed so far stay
(`GrowFails`).  `realloc` shrinks or takes over the block behind it under the
lock (splitting only when more than a header and 16 bytes remain), but when
the block must move it releases the lock: `ReallocMove`, then
`MoveAlloc` or `MoveFails`, then `MoveFree`, with calls of others in between.
`live` is the ghost state: what callers hold and how much they asked for.

### Memory

`used` and `count` are the bitmap and `used_frames` of `pmm.c`; every operation
there is one step under `pmm_lock`.  The search of `pmm_alloc_aligned` is
translated as it is (`AlignedSearch`) and compared with the first aligned run,
which is what the actions use.  A page table is named by its level and the part
of the address space it covers, `table` gives its frame: `Depth` = 3 is the
64-bit build (below the PML4), `Depth` = 1 the 32-bit one.  `map_page` allocates
the missing tables from the top down, each in the first free frame, and leaves
those it made when it runs out.  `vmm_map_physical` reserves its run under
`vmm_lock` and lets go of it: `MapCall`, a `MapStep` for each page, or
`MapFailed` and then, under the lock again, `MapUndo`; `vmm_unmap_physical` is
`UnmapCall`, an `UnmapStep` for each page, `UnmapReturns`.  Calls of several
clients interleave between these steps.  `CommitPage` and `CommitFails` are the
loop body of `heap_commit_to`, which runs under `heap_lock` with interrupts off.
`given`, `maps` and `lost` are ghosts: frames and mappings that callers keep,
and window pages that a failed mapping left set.  The root table and the tables
that `paging_init` makes are frames that a caller was given and keeps.

### Scheduler

`s` is the memory the list operations work on: the task table with its links,
the heads and tails of the ready queues, the wheel, the wait queues, the
current task and the tick.  The operations on it (`scheduler_add`,
`scheduler_remove`, `WheelInsert`, `WheelRemove`, `Push`, `Unqueue`, `Expire`)
follow the links as the code does, so that taking a task from a list it is not
on has the effect it has there.  `at` says where in its call each task is: a
tick may come between any two steps of a call that runs with interrupts on
(`task_sleep` is `task_sleep`, `SleepInsert`, `SleepSwitch`).  The mutex and
semaphore calls hold their spinlock with interrupts off and enter `schedule()`
that way, so each pass through their loop is one step up to the switch and
another one (`MutexReturn`, `SemReturn`) after it.  `irq` is the task whose timer
interrupt has not been acknowledged: `isr_handler` sends the end-of-interrupt
only after the handlers return, so a tick that preempts a task keeps further
ticks away until that task runs again.

Some sequences leave `schedule()` with a task from a ready list that was
running, asleep or blocked: a tick that reaches the deadline between the
insertion into the wheel and `schedule()`, or a priority boost of a ready task,
which is then removed from the queue of its new priority.  So does a
`schedule()` that finds every ready list empty: it returns into a caller that
has just marked itself blocked or asleep, which then goes on.  The history flag
`astray` marks these states; `WaitersBlocked` is stated up to them, and the run
does not go past them (`UntilAstray`): the lists are wrong from there on.
Nothing in the kernel at this commit yields from boot code (the test tasks are
compiled out, only the ACPI layer creates tasks), so the model is one of the
interface's use.  A list operation and `schedule()` are one step each; the
wrap of the 32-bit tick count is left out.

### DirMap, BTree

`bt` holds the nodes and the free blocks, `root` the root.  Operators take and
return a tree, so an operation that fails for lack of blocks leaves what it did
up to there; `btOk` records that, and `DirMap` promises nothing afterwards.
`btree_insert_rec` and `btree_delete_rec` are the code's recursions: split of
leaves and index nodes, growth of the root, borrowing from the left and the
right, merging, refreshed fences.  A leaf holds `LeafMax` entries and an index
node `IndexMax`.  The map has one value, so the refinement is about which names
are there, not about a value that is replaced.

### Files

`fs` is the volume: the record table with generations, the records with their
attributes and extents, the directories (each the map that `BTree` implements),
the free blocks and the counts of the superblock.  An operation is an operator
from `fs` to `fs` and a status, in the code's order, since `journal_abort`
undoes nothing in memory.  Actions are the calls of the interface: create,
mkdir, remove, unlink, link, rename, setattr, open, close, read, write, seek,
truncate, punch.  `btree_insert` refuses an empty name, which is what a path with a
trailing slash ends in, and a full volume (`btree_insert_refuses`); what a
refused insertion leaves of the tree itself is `BTree`'s business.
`want` is the ghost: the bytes each file should hold, with `Unknown` where the
code promises nothing.  A byte of a block that a punched range only touches is
`Edge` if it was 1: `FileContents` says nothing of these, `EdgesKept` does.

What the model shows besides the properties, each reachable in it: `rmdir`
leaks the directory's root block; a create or rename over an existing name
leaks the old record; `smkfs_rename` removes the old entry before it looks at
the new parent and inserts the new one, so a refused rename leaves a live record
without a name; a descriptor keeps a record number without its generation;
extents past the first 32 are lost by truncation, punching and deletion; a
truncation inside a block leaves the old tail, which shows when the file grows
again; a hole that covers part of a block frees the whole block.

### Amfs

`am` is the volume: bitmap, inodes with direct and indirect blocks, directory
slots.  A directory entry has 36 bytes in a slot of 32, so writing one clears
the inode number of the next slot of its sector (`Spill`); an indirect block
stays allocated when the data block after it cannot be had.  A path is walked name
by name (`Walked`), and a write gets its blocks sector by sector until one
cannot be had (`Grown`).

### KScope

Registration in order, `kscope_topo_sort` as it is (with its two marks per
node, it reports a cycle whenever it meets a node again before its dependencies
are placed), `kscope_probe_all` with each init callback a step of any result,
`kscope_mark_failed` down the tree, and `kscope_shutdown_all`, which nothing
calls yet.  A node requires at most one other (`RequireMax`): graphs in
which a node has several dependencies are not explored.

### Ide, Nic

Both devices are part of the model and external.  The drive is busy as long as
it likes, fails when it likes and ignores its registers while busy; the driver
polls and gives up.  `IdeExact` is about calls that found the drive waiting:
after a timeout a command may still be under way, and the next call meets it.
Excepted is a write whose last sector fails before the flush command, which
clears the error unread.  In `Nic` the card fills descriptors while the handler
drains the ring, and the handler may run between any two steps of
`e1000_rx_dequeue`; a packet queued inside it may be lost (`raced`).  The handler
may also run between the unmasking of the interrupt and `e1000_ready = 1`
(`nicState` = "starting", ended by `InitEnds`), where it reads the causes away and
takes nothing; so `NicInOrder` speaks of the link flag once a link interrupt was
handled after that (`linkTold`), and nothing is said of a frame whose interrupt was
read away.  `e1000_shutdown` frees the rings first and clears `e1000_ready` last (`ShutdownEnds`).  A transmit
ring filled to the last descriptor has its tail equal to its head, and the card
stops.  Frames are numbered, so `NicInOrder` need not walk the list of packets:
`Queued` is what has to be in it (taken by the card, not dropped, not handed out
and not in the ring any more), and `Follows` says that the head and the links run
through exactly these in the order of their numbers.

### Input

Key and mouse bytes wait in the controller and raise interrupts; a task reads,
polls or flushes, and `buffer_get` is cut where interrupts are on.
`Interruptible` is the heart of it: between the check for an empty buffer and
`hlt` none may come, since `sti` takes effect after the next instruction.
There are two shift keys and one flag: letting either go clears it, so a key's
modifiers are those that the last shift and control events left.
`reset_keyboard_state` forgets keys, buffer, prefix and shift in four steps.
A scan code is the prefix `E0` or says which key was made or broken; which
characters a full buffer refused (`typed.lost`) is known by their numbers, so
`InputFaithful` says of every due character where it is read: behind as many
others as were due before it and not refused.
`fb_present` copies pixel by pixel (`CopyPixel`) and then repaints the cursor in
three steps (`mouse_refresh_cursor`), the handler coming in anywhere.
History: `typed` (characters due, got and lost to a full buffer), `forgot` (a
reset found keys, a prefix or a shift to forget), `moved`, `torn` (a reset in the
middle of a packet; the mouse handler inside an `fb_present`, which may leave a
second cursor or half of one).

### Exec

A file is a header, an image and relocations, whole or cut short, and its header
may say anything.  Sizes and offsets are added modulo `SizeMod`, as in 32 bits, and
the relocation table is read at `reloc_offset`, wherever that is: past the block it
finds what memory holds there (`PastBlock`).  Where a wrapped sum made a small block
for a large image, the loader writes past it (`trampled`), and nothing is said of
what happens then.  The base added to a word is truncated (`WordMod`).  Each
allocation may fail.  `heap` is what is allocated, `freedTwice` a history.
`exec_start` runs on the caller's stack: the one `exec_map` allocated is unused.

### Windows

The table of windows with generations, `z_order` and the calls of the kernel and
of `syscall.c`. `compositor_render(p)` and `window_at(p)` say which window is
painted last and which one a click finds at a place. Handles have no owner:
kernel and program calls meet on the same windows, in any order. Showing a
window with `_win_show` after `window_hide` does not put it into the z-order
again, `_win_hide` hides a window that keeps the focus, and `_win_set_active`
sets a state beyond visible; so the claims about visible and focused windows are
made for windows whose state only `window_*` has set (`by`).
`compositor_blit_window` clips as the code does: a window that overhangs both
sides of the screen is copied past the end of the row (`Overhangs`), and what is
painted is stated where none does. The handle of the 65,536th window never
matches its window: the properties hold until then.

### Pci

The scan is an explicit stack of buses; a machine is a function from bus,
device and function to what configuration space shows.  A bridge is one whose
header type is 1 without the multi-function bit (`Isbridge`), as the code compares
it; `PciSound` claims a complete list for what such bridges lead to, and no more
(section 5 on the others).  `pci_assign_bar` gives
addresses upwards from two counters.  Seen in the model: a plain memory BAR
without an address reads 0 and is never given one; the upper half of a BAR of 8
GB or more is taken for a BAR of its own; addresses of the firmware are not
avoided; rounding `pci_mem_next` may wrap to 0 (`pciWrapped`).

### Editor

Buffer, cursor, line, column, scroll position and file.  `ed_draw` is modelled
by the rows it shows and the places where it draws the cursor.  A failing
`malloc` in `ed_grow` is not reported: the insertion after it overruns the
buffer (`overrun`), and a buffer that could not be had at all doubles 0 for ever
(`hung`).  A file longer than one read is cut, and saving it loses the rest.

### Svga

`kernel_setup`'s choice of framebuffer, `svga_init` with every step that may
fail, the page mappings, and the FIFO word by word with the mouse interrupt in
between: `svga_fifo_write` is `FifoLoad`, `FifoStore`, `FifoAdvance`. Interrupts
are on during `svga_init`: it is `svga_init` up to `svga.initialized = 1` and
`SwitchesBuffer`, its call of `fb_init`, with the mouse handler in between. (The
assignments inside `fb_init` are one step.)  A `svga_init` that fails after it
has set the mode leaves the boot framebuffer in use on a device that shows
another layout (`Outdated`). Sizes and addresses have 32 bits (`Bits32`), so the
check of `svga_map_fb` compares a sum that wraps: `ScreenSound` claims that the
page tables are clear of the framebuffer for surfaces that end below 2^32, and
`MappingClear`, for all, is violated. `svga_fifo_init` checks no size; nothing
is claimed of FIFO pages. `svTorn` records an interrupt inside a command of the
task, which rolls `NEXT_CMD` back or mixes the words. The size of a mode is
compared with the recursive page tables only, so a mode above 8 MB has the
FIFO's pages in the middle of the framebuffer.

### Raster

Each routine is the set of pixels that it writes, computed as the code does
(32-bit arithmetic, fixed point), and compared with the shape.  A rectangle
with a negative origin vanishes, discs of radius 182 and more lose their middle
rows, arcs that end within a step before their start do not end: the property
states where the routines are exact and leaves these out.  An arc is the sequence of
the directions of its points: angles are converted as tenths of degrees
(`angle_to_bradians`, `Direction`) and normalised by the full turn in bradians
(`AngleFull`, where `TenthsFull` would be meant), so arcs and sectors are what they
claim only for angles in order within one turn (`Ordered`).

## 3. Runs

| Run | Expect | Shows |
|---|---|---|
| `blockcache` | pass | `TypeOK`, `Coherent`, and that `BlockCache` implements `BlockStore` (`StoreSpec`) |
| `journal` | pass | `TypeOK`, `Durable`, `SeqOrdered` |
| `journal_atomic` | violation | `AtomicRecovery` does not hold |
| `journal_recover` | violation | `Recoverable` does not hold |
| `bitmap_count` | violation | `FreeBlocksSane` does not hold |
| `memory` | pass | `TypeOK`, `CountExact`, `FramesExclusive`, `WindowIntact`, `WindowAccounted`, `AlignedExact` |
| `scheduler` | pass | `RunningIsCurrent`, `WaitersBlocked`, `MutexExclusive`, `SemConserved`; of the heap `Tiled`, `Coalesced`, `HeldIntact`, `CopyFits`; `WindowsSound` |
| `sched_wake` | violation | `SleepersWake` does not hold |
| `filesystems` | pass | of the bitmap `Exclusive`, `RegionHonest`, `CountsExact`; `TreeSound`, that `BTree` implements `DirMap` (`DirectorySpec`), `BlocksOwnedOnce`, `NamesLead`, `FileContents`, `AmfsSound` |
| `punch_edges` | violation | `EdgesKept` does not hold |
| `kernel` | pass | `OkRestsOnOk`, `IdeExact`, `NicInOrder`, `InputFaithful`, `ReaderServed`, `ExecSound`, `PciSound`, `EditorSound`, `ScreenSound`, `RasterExact` |
| `svga_mapping` | violation | `MappingClear` does not hold |

`scheduler`, `filesystems` and `kernel` explore components that share no state one
after the other: `focus` says which of them moves, so their state spaces add up and
each invariant is checked in all of them.

*Bounds of `blockcache`.* Three blocks over two slots make every eviction
case happen (free, clean, all dirty); two sectors per block are enough for a
torn block, two values per sector tell old from new.  Blocks and values are
interchangeable (symmetry); slots and sectors are ordered and are not.

*Bounds of `journal`.* A journal of three blocks is the shortest that holds
an update and a COMMIT entry, so it is full after them and wraps in the second
transaction; a record and a bitmap bit give both disciplines; one fault and
one crash at every point.  `MaxSeq` = 5 allows two transactions with two
entries each and what failed appends use up.  The violation runs use a record
and an MRT entry, no faults and two crashes.

*Bounds of the bitmap (in `filesystems`).* Five blocks in regions of three give a full region and a
short last one; requests for one and two blocks give both ways the hint moves,
runs that a region has no room for and runs across the region border (found by
the linear search only).  One drive failure at any point, and refusals of the
journal without bound.  `bitmap_count` needs two blocks and no drive failure.

*Bounds of the heap (in `scheduler`).* A header of two units, pages of four, an arena of sixteen
of which four are committed at the start: up to five blocks, every kind of
split and merge, growth over page borders and its failure.  Requests of up to
five units lie on both sides of the split thresholds.  One client is in the
middle of a realloc while any other calls run.

*Bounds of `memory`.* Seven frames, one reserved and one a hole between two
available regions (the first not aligned), two levels of tables with two
entries each: frames run out at every level of a `map_page`.  A window of three
pages and requests of up to two pages or frames by two interchangeable clients
make a mapping fail at its first and at its second page while the other client
maps or unmaps beside it; two heap pages share tables with the window.

*Bounds of `scheduler`.* Four task slots (idle, reaper, two users), two user
priorities, a wheel of two buckets, sleeps of one tick, one unit in the
semaphore, two ticks: a timeout, a preemption and a lock hand-over in one
behaviour (570,000 states).  `sched_wake` has three slots, no locks, four ticks
and sleeps of one and two.

*Bounds of `filesystems`.* Six names, leaves of two entries and index nodes of
four over eight blocks: three levels, every borrow and merge, and running out of
blocks inside a split.  Three records, six blocks, four paths (one with a
trailing slash), files of three blocks with two bytes, five attributes a record
and one extent gathered at a time (32 in the code): shortage of each of them.
Names are explored without a bound on calls, descriptors and data up to five
calls.  AMFS: three inodes, four blocks, one direct and two indirect blocks, two
slots a sector.

*Bounds of the windows (in `scheduler`).*  Two slots, generations modulo 4, three windows created, at
-1 and 1 or centred, on a row of three pixels: windows of two pixels fit or leave
the row on one side, windows of six overhang it on both (417,000 states).

*Bounds of `kernel`.* Four kscope nodes in a table for three, one dependency
each, every graph and order. Three sectors, counts 0 to 3 around the limits of
28 bits (2) and of a byte (2), two calls. Rings of three and two descriptors,
four frames in, three out. Six keys (two of them shift, one control, two
extended), a key buffer of three, four key events; two mouse packets on a screen
of 3 by 2. 65 executables: images of three words, sizes modulo 16 (`SizeMod`),
words modulo 256 (`WordMod`), the type of a relocation modulo 4 (`TypeMod`),
heap blocks in units of two up to twelve words (`HeapAlign`, `HeapMax`), so that
each of the loader's sums wraps in some of them. 216 ways to fill three slots
with devices and bridges, single- or multi-function, beside a third bridge, 108
machines with BARs of every kind, one failing allocation. Texts of three
characters, two rows and columns. Fifteen SVGA devices in an address space of
eight pages of two pixels (`SpacePage`, `PagePx`; `FbPage` of them below
SVGA_FB_VIRT), with surfaces that fit, reach the FIFO, the page tables, the end
of the space and the size of it; seven boot modes, a FIFO of seven words (a
command has five) and four commands. 2,516 drawing calls on, across and off
every side of a surface of 6 by 5 pixels; a full turn of 32 bradians
(`AngleFull`) and nine tenths (`TenthsFull`), which no more divide each other
than 65536 and 3600.

Deadlock is checked in `blockcache` and `memory`.  It is not
in the others: a volume whose journal cannot be read stays down, and the bounds
end every behaviour.

The violation runs `punch_edges` and `svga_mapping` use the constants of
`filesystems` and of `kernel` (with the screen in focus).

*Fairness.* `ReaderServed` assumes `KbdFairness`: strong fairness of the
keyboard interrupt, since the controller holds its request until the byte is
read and the processor takes it at one of the points where interrupts are on;
weak fairness of a reader that `hlt` has let go.  Nobody is made to press a key.
`SleepersWake` assumes that the timer chip goes on (weak fairness of a tick that
is due) and that a task inside `task_sleep` or `task_exit` goes on to its
`schedule()`.  All other properties are safety properties.

## 4. What the proofs show

All theorems hold for every value of the constants under the modules' named
assumptions (at least one slot and one sector; a journal of at least two
blocks; 0 is not a cell; a volume with a slot and two blocks for its root; bounds
are natural numbers).

`SmkfsProofs`, first half: `CacheTypeCorrect`, `CacheCoherent` and
`CacheImplementsStore`.  `TypeOK /\ Coherent` is inductive: uniqueness of
buffers makes the buffer of a block well defined, `CleanIsStable` is what lets
an eviction drop a clean buffer, `InvalidIsClean` is what makes the search for
a clean slot complete.  The refinement proof shows for each action that it is
the corresponding action of `BlockStore` under the mapping; the key lemma
(`MemLemma`) computes the visible image after a slot was refilled.

`SmkfsProofs`, second half: `BlocksOwnedOnceHolds`.  The inductive invariant
`Good` says of a whole volume what `BlocksOwnedOnce` says of lists of blocks:
each record's claims (its own block, its tree's root, the blocks of its extents)
are disjoint, disjoint from every other record's and from the free blocks, and
the extents of one list do not meet (`Apart`).  Every operator that takes a
volume to a volume keeps `Good`, also where it gives up half way, and one lemma
carries them (`ChangeOne`): a record whose blocks come from its own and the free
ones and go to its own and the free ones.  Below it are lemmas about extent
lists: a merge takes one block more (`MergedApart`), a cut keeps exactly the
blocks outside the range (`CutParts`, `RebuiltApart`), so what is freed and
what is kept never overlap.  A write is a recursive function over its blocks;
the induction is over the set of block numbers for which `Good` still holds.  It
needs of the directories nothing at all: a name that leads to the wrong record
would make links wrong (`NamesLead`), never blocks.

`NamesLeadHolds` adds to that invariant `DirOk`: what `NamesLead` says, the shape
of the directories, and that only a record of type dir has a tree (so that
what a path leads through is what a removal finds non-empty).  Three
kinds of steps remain.  Calls on data, attributes and sizes leave every name
alone (`SameNames`, which composes along the blocks of a write).  A record is
freed only without names, for a removal takes a name and a link together and the
record with the last link (`DeleteDir`).  A changed directory entry takes a name
from one record and gives it to at most one other (`EntryChange`), which is what
rename, link and creation over an existing name come down to; a rename whose
insertion is refused stops at the first half of it.  That a removal is
handed the very record its last name leads to is `PathStep`: the walk over a path
is the walk over all but the last name and one lookup more (`FoldLeftLast`); after
a trailing slash the record is the directory itself, and the entry the removal
looks for makes it non-empty.  `FilesAssumption` says for this that a path has a
last name, as `path_split` has it, and that there are finitely many names.

`JournalProofs`: `JournalTypeCorrect` and `JournalDurable`.  `Durable` alone is
not inductive: a replay could redo an old entry for a settled cell.  The
strengthening (`IInv`) says that this cannot be: for every superblock the drive
may hold and every content it may hold of a slot that superblock calls live,
the entry is about a cell changed since the last successful commit
(`FreshDrive`), likewise for the cache (`FreshMem`); the drive may hold what
the cache holds (`Held`); and at the points where a commit or a checkpoint
returns OK, and in an unmount, the journal is empty (`Published`).  The lemma
`SpanGrows` is the circular-buffer arithmetic: one more entry extends the
live part by exactly the slot that was the head.

`JournalOrdered` (`SeqOrdered`) follows from the types and the head arithmetic
alone: a failed append leaves the head where it was and its number used up, so
the next entry's number is still greater.

`VolumeProofs`: `AllocationsExclusive`, `RegionHonestHolds` and
`CountsExactHolds`.  The inductive invariant for the first is `Exclusive` with
`used` within the data blocks and the type of `owners`; the lemma behind it is
that the run which a search takes is free, for each of the two searches and
whatever the counts claim, and that no undo clears a bit outside the run that
was just set.  The counts (`CountInv`) need besides it what an allocation in
progress remembers; the lemmas say how the number of free blocks of a region
changes when a range of blocks that were all free, or all used, changes hands,
also when the range crosses a region border.

`AmfsSoundHolds`, for any number of inodes, blocks, entries of a table, slots of
a sector and paths. `AmfsInv` looks at all inodes, free ones too. Each has
*places* for blocks, the entries of its tables and the indirect block at -1: two
places never hold the same block (`OneOwner`), what they hold is marked
(`AllMarked`), and there is no entry past the direct ones without an indirect
block (`IndFirst`; without it a truncation would miss blocks). The places within
a file's size or a directory's slots hold blocks (`Covered`), a free inode is
empty and only directories have slots (`AShaped`), and a slot leads to an inode
in use that no other slot leads to (`NamesOk`). A new inode is unnamed until its
slot is written, and a removed one is free before its slot is cleared, so in
between the invariant holds of all names but one; the overlap of a slot's 36
bytes only takes names away (`Spill`). `AmfsAssumption`: inodes and data blocks
have positive numbers (0 is none, and the root), a sector has slots, and a path
has a name.

`ProgramProofs`, about the heap: `HeapTypeCorrect`, `HeapTiled`,
`HeapCoalesced`, `HeapHeldIntact` and `HeapCopyFits`. Lemmas about lists say
what `Absorb`, `Split`, `Flag` and an append do to a tiling, and that `Freed`
leaves no free neighbours if there were none; page rounding is a lemma of its
own. The inductive invariant joins the list, the committed pages, what callers
hold, and the state of every realloc under way: its old and new block are held,
distinct, and touched by no other client, which is why the size that was read
before the lock was released is still right when it is used.

`MemoryProofs`: `MemoryTypeCorrect`, `MemoryCount`, `MemoryExclusive`,
`MemoryWindow`, `MemoryAccounted` and `MemoryAligned`. The inductive invariant
has two halves. For frames (`FInv`) it is `FramesExclusive` frame by frame, with
the count; it needs that frame 0 is reserved at boot (assumption `FrameZero`),
for 0 stands for no table, and `TablesKeep` shows it for any number of tables
made at once. For the window (`WInv`) it adds to `WindowIntact` that the pages
of every call and mapping have their bits set (so that a new run is nobody's),
that the pages a call has mapped so far lead where they should, and that the
heap is dense. That a new table is never put above a page that leads somewhere
is the lemma `LeadsKept`.

`MemoryAligned` says of the search of `pmm_alloc_aligned`, for every set of used
frames, that skipping from a used frame to the next candidate never misses the
first aligned run; the search is a recursive function over frames, and its
lemma goes from each frame to the next candidate.

`SchedulerProofs`: `RunningIsCurrentHolds`, `MutexExclusiveHolds`,
`SemConservedHolds` and `WaitersBlockedHolds`, for any number of tasks,
priorities, wheel buckets and ticks.  Everything rests on what each list
operation leaves alone: an operation is *calm* (`Calm`) when it keeps the types
and the current task and makes nobody running, and calm operations compose,
also in the loop over a wheel bucket.

* `SchedInv` joins the types of the scheduler's memory (every link is a task or
  nil, whatever the lists look like: this must hold astray as well), that only
  the current task runs, and `MutexExclusive`; a head of a ready list becomes
  the current task, and the owner of a locked mutex is boosted, so neither is
  inductive by itself.
* `SemInv` writes `SemConserved` as a sum over the task slots (`FoldLemmas`):
  one task's share changes by one when the units change by one the other way.
* `WaitInv` is about the wait queues up to the first astray switch.  Each queue
  is a doubly linked list (`Lane`: a sequence without repetition that the head,
  the tail and both links of every member agree with) of exactly the tasks whose
  queue field names it; a task is blocked exactly while it is on a queue; the
  current task is on none; a blocked task is inside the call of the lock it
  waits for.  Pushing, unlinking from the middle, time-outs and hand-overs each
  keep it.  `WaitersBlocked` follows by a pigeonhole argument: the walk along
  `wnext` has reached the whole list after as many steps as there are tasks.

`ProgramProofs` also has `WindowsSoundHolds`, `ExecSoundHolds` and
`ScreenSoundHolds`. `WinInv` (until generations wrap) makes the z-order an
injective sequence of the handles of windows that exist, with at most one
focused window, keeps every destroyed handle's generation different from that of
its slot, and ties what is visible and focused to the list for windows that no
system call has shown or hidden. `ExInv` counts relocations: modulo the width of
a word, the word at an offset is the file's plus the image base once for every
entry of the table that names it, until something is written past a block
(`trampled`); and each allocation is in the context until it is freed.
`ScreenInv` follows the command FIFO and the start of the screen: until the
mouse cuts into a command of the task, the FIFO holds the words of at most one
command, either the prefix the context at work has written so far or all five of
them, from the last word to the `svga_sync` that waits for them (`FifoInv`); and
what is mapped, and what `fb_init` may read of it, is fixed by the stage the
start-up has reached (`ShowInv`), the stage between `svga.initialized` and
`fb_init` being one of them. It uses `SvgaAssumption`: the FIFO is longer than
one command, the windows of the framebuffer and of the page tables lie below the
end of the address space in this order, and no FIFO is so large that its pages
would go around it (a BAR of 32 bits decodes at most half of it).

`DeviceProofs`: `IdeExactHolds`, `NicInOrderHolds` and `InputFaithfulHolds`.
`IdeInv` says at each point of a call what the registers, the drive's command
and the buffer must be (`Progress`) as long as the drive has been neither
disturbed nor polled too early; where a count was taken modulo 256 it says how
far off it is.
`NicInv`: before the driver starts only the link moves, and before `e1000_ready` is
set nothing is taken from the ring; from then on each ring is
given by one number, the descriptors in use counted from the side that takes them
out (`RxHolds`, `TxHolds`, the wrap-around written out), and until a packet is
queued in the middle of a dequeue what was delivered, what is being dequeued, the
list and the ring follow each other in the order of the wire, the list's tail is
its last packet (or the one being handed out), and a packet that nothing is linked
to yet has a NULL `next` (`ListOk`).  It uses `NicAssumption`: the receive ring
has two descriptors and the transmit ring one.

`InputFaithfulHolds`, for any keys, size of the key buffer, screen and packets
of nine-bit movements: the model checker sees the property only when the
controller is empty, so the invariant has to explain what is still in it. For
the mouse (`MouseInv`) there are packets whose bytes are those put aside in
`mouse_bytes` followed by those in the controller, and positions, each the
packet's movement from the one before it, that lead from the pointer to where
the mouse is (`InTransit`); `PacketFacts` says that sign bits and bytes give the
movement back. For the keyboard (`KeysInv`) there are, before each code that
waits, the keys that were down and the number of characters made by then
(`CodesRead`): they start from what the driver's flags and `key_state` say, end
with the keys held now and with every character due, and each code changes them
as the driver will (`Reads`; a shift code of either key sets or clears the one
"shift"), with exactly the extended keys behind a prefix. What was read and what
is buffered is the due characters made so far without the refused ones (`Kept`);
the ring is a sequence that `buffer_put` extends at its end and a read shortens
at its front (`RingPut`, `RingTake`). All this holds until a reset forgets keys
(`forgot`). The screen is the scene with its cursor, up to the pixels still to
be copied, until the handler runs inside `fb_present`. `InputAssumption`: the
buffer and the screen are not empty, and packets have nine-bit movements and
three buttons.

`PciSoundHolds` (`MemoryProofs`), for any machine, number of slots and address
spaces, whichever allocations fail. `PciInv` has three parts. Where the scan is
(`StackOk`): the buses on the stack are distinct and visited, and only the top
frame is inside a device. What it has done (`ScanOk`): the list holds exactly
the functions the scan has passed (`PassedIds`) that function 0 lets it ask
about, each once, and a bridge it is done with has its secondary bus visited;
`LeastOk` says that no smaller set of buses is closed under the bridges listed,
so that in the end the buses visited are the least fixed point `Reachable`,
whatever loops the bridges make (bridges being those of the code's test,
`Isbridge`). What was handed out (`BarsOk`, `PlacedOk`): until rounding wraps,
every BAR with an address is aligned, in its register, within its space and
below the next free address, and two of them in one space are apart; a new BAR
starts at or above the old next free address (`RoundUpIs`, `MemoryPlace`).
`PciAssumption` types the machines: a bridge has its two BARs, and lengths that
are probed as 32 bits are 32-bit lengths.

`FoldLemmas` has the induction over sets of numbers that these proofs share.
The installed provers cannot instantiate a theorem with an operator parameter;
there the operator is a CONSTANT of the module, and `INSTANCE` supplies it.

Only model-checked, and why:

* `TreeSound`, the refinement of `DirMap` and `OkRestsOnOk`: their modules
  recurse over trees of any height (RECURSIVE operators), and what they say is
  an induction over that data.
* `ReaderServed` and `SleepersWake`: liveness under fairness.
* `FileContents`, `EditorSound`: state machines that are within reach and have no
  proof yet.  `RasterExact` compares loops over fixed-point arithmetic with
  shapes, for given sizes.
* The six violations.

## 5. Where code and documentation disagree

* `journal_atomic`.  `docs/SmKFS Design Plan.md:1853`: "Metadata changes are
  **atomic via journaling**".  The journal is redo-only, but blocks are written
  in place before COMMIT and may be evicted to the drive at any time;
  `journal_abort` and replay undo nothing.  The trace: start, write an MRT
  entry in place, crash with the entry on the drive, mount.
* `journal_recover`.  `docs/SmKFS Design Plan.md:31`: "recover cleanly after
  unexpected shutdown".  `journal_replay` empties the journal in memory only.
  The trace: a crash after the new head was published; the mount replays; the
  next transaction wraps around into slots that the superblock on the drive
  still calls live, and one is torn; a second crash; `journal_replay` returns
  `SMKFS_ERR_CORRUPT` and the mount fails (`kernel/init.c:129-150` then
  formats the volume).
* `bitmap_count`.  `fs/smkfs/super.c:453` (fsck) treats a free count above the
  number of data blocks as damage.  When the journal refuses the entry of a
  free, `bitmap_free_range` (`bitmap.c:572`) sets the bits again with
  `bitmap_set`, which lowers `sb.free_blocks`, although the count had not been
  raised yet.  The trace: allocate a block, free it with the journal full, and
  allocate the other one: the count is below zero and wraps.
* `sched_wake`.  `arch/x86/common/scheduler.c:211`: "Timer wheel: insert a task
  to fire after 'timeout_ticks'".  Before it inserts, `timer_wheel_insert`
  removes the task from the wheel ("Remove if already in wheel", line 217).  A
  task that was never on the wheel has bucket 0 from the `memset` of its table
  entry, not the 0xFFFFFFFF that stands for none, so the removal empties bucket
  0.  The trace: one task sleeps in bucket 0, another one goes to sleep for the
  first time, and the first is never woken.

* `punch_edges`.  `docs/SmKFS Design Plan.md:1799`: "Partial-block punch | Operates
  on whole logical blocks (conservative; keeps partial edge blocks)".
  `smkfs_punc_hole` (`fs/smkfs/file.c:617-619`) rounds outwards and frees every
  block that the range touches.  The trace: write a block, punch one byte of it.
* `svga_mapping`.  `hw/svga.c:134`: "Hard safety check: the mapping must not reach
  the recursive region".  The sum in line 138 wraps at 32 bits in the 32-bit build,
  so a surface of 32 MB or more passes.  The trace: a device with such a mode.

Disagreements met while modelling, without a run of their own:

* `hw/pci.c:390`: "PCI-to-PCI bridge? Scan behind it".  Line 391 compares
  `header_type` with 0x01 while its multi-function bit is still in (the scan itself
  tests that bit in line 373): a bridge that reads 0x81 is listed, and the bus behind
  it is not scanned.
* `hw/e1000.c:349`: "Now it's safe to let the PIC deliver it".  `e1000_ready` is set
  after that (line 353), and a handler in between clears the causes of the card and
  does nothing else: a frame taken then waits in the ring for the interrupt of the
  next one.  For the same reason the `e1000_poll_link()` of `e1000_init` (line 325)
  reads nothing.
* `gfx/fb.c:580`: "draw arc from start_angle to end_angle (tenths of degrees)".  The
  angles are normalised by 65536 (`gfx/fb.c:594-599`) and converted as tenths of
  degrees (`lib/math.c:157`), so an arc across the full turn counts on to 65536 and
  goes around up to 18 times.
* `gfx/compositor.c:80-87` takes the right edge of a window from a position that is
  still left of the screen: a window that overhangs both sides is copied past the row.
* "FB window ends exactly where the FIFO window starts" (`include/hw/svga.h:90`) is
  not checked by `svga_map_fb`, nor is the size of the FIFO by `svga_fifo_init`.
* "Ids are never reused" (`fs/smkfs/attr.c`): an id is taken from the attributes left.
* "NEVER draws here" (`drivers/mouse.c`, `mouse_handler`): it draws the cursor.

## 6. Not modelled, and why

* CRC-32C and the byte layout of blocks: a journal entry is readable or not.
* Bits of the bitmap as bytes of blocks, and a free of blocks that the caller
  does not hold: in both allocators callers free what they were given.
* `sbrk()` of the heap (nothing calls it; it would break the tiling), and sizes
  near the end of the address space.
* Page flags, the TLB, huge pages, and the Multiboot tags that
  `kernel_early_init` reads; a free of frames that someone else holds.
* The layout arithmetic of `smkfs_mkfs` beyond the state it leaves; `fsck`.
* A redo entry is one value: that `journal_replay` writes 64 bytes from beyond
  its buffer (`journal.c:245`) cannot be seen.  A commit refused for lack of
  space leaves the transaction open (`orphan`, `journal.c:193`); nothing in the
  code promises that it is closed, so nothing is stated about it.
* Drive errors inside SmKFS operations above the journal, and in AMFS; memory
  exhaustion there and in mount (`block_cache_init` does not report it).
* What an insertion torn inside a directory's tree leaves there is in `BTree`, not in
  `Files`; the rows of a window below its first; and the moments between the single
  assignments of `fb_init`, at which the mouse may draw.
* The wrap of the tick counter after 2^32 ticks (`scheduler.c:270` compares
  plainly).
* The second executable format (`amx2.c`, `loader2.c`): nothing calls it, and
  its size assertion (128 against 136 bytes) halts every load.
* Triangles (float slopes), CORDIC, fonts, the terminal, printing, shell
  commands, tables of strings, CPUID, the RTC, ACPI table search, the serial
  port: data, formatting or register access without state to get wrong.
* ACPICA (third-party) and the thin OS layer below it, whose calls into locks
  and tasks are those that `Scheduler` has.
* The kernel itself never calls `smkfs_unmount` or `smkfs_sync`; they are
  modelled as the calls of the interface they are.

## 7. Plan

1. Done: block store, cache, journal, bitmap, heap, page frames, page tables
   and the mapping window, with their proofs; scheduler and locks; the SmKFS
   tree, records, names and files; AMFS; kscope, drivers, loader, windows, PCI,
   editor, screen and drawing, model-checked.
2. Done: proofs of the journal's order, the bitmap's counts, the aligned search,
   the scheduler and its locks, the IDE, network, keyboard and mouse drivers, the
   windows, the loader, the screen and the PCI bus, of the ownership of SmKFS
   blocks and the links of SmKFS names, and of AMFS.
3. Proofs next: `EditorSound`, `FileContents`.
4. A refinement of the allocators to a set of free units.
